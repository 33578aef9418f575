--------------------------- MODULE MCCertificateA ---------------------------
(* Small instances of CertificateA for TLC.                                 *)
EXTENDS CertificateA, TLC

CONSTANTS v1, v2, d1, d2

\* Verifier processes are interchangeable.
Interchangeable == Permutations({v1, v2})
=============================================================================
