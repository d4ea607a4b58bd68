-------------------------- MODULE MCProviderHealth --------------------------
(* ProviderHealth on small instances. *)
EXTENDS ProviderHealth
=============================================================================
