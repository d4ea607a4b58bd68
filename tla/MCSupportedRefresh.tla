------------------------ MODULE MCSupportedRefresh ------------------------
(* The jobs and the countries are model values of the configurations. *)
EXTENDS SupportedRefresh
=============================================================================
