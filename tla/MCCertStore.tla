----------------------------- MODULE MCCertStore -----------------------------
(* Small instances of CertStore for TLC. *)
EXTENDS CertStore

=============================================================================
