------------------------------ MODULE MCCertGate ------------------------------
(* The certificate gate: two handshakes, a custom domain, a base name set.  *)
EXTENDS CertGate
CONSTANTS h1, h2, d1, k1
=============================================================================
