------------------------- MODULE MCCredentialRefresh -------------------------
(* Constants for checking CredentialRefresh. *)
EXTENDS CredentialRefresh

=============================================================================
