----------------------------- MODULE MCRollout -----------------------------
(* A pod of the build before and one of this build, over databases that    *)
(* are new, of each version, and with a table but no version on record.    *)
EXTENDS Rollout, TLC

CONSTANTS old, new

(* The pod that comes is configured with the worker and a loop that holds  *)
(* no leases, and is told to stop twice; the one that goes runs no loop.   *)
Enables == (old :> {}) @@ (new :> {"worker", "refresh"})
Sent == (old :> {"SIGTERM"}) @@ (new :> {"SIGTERM", "SIGINT"})
Required == (old :> 2) @@ (new :> 3)
Stored ==
  {[shape |-> v, version |-> v] : v \in 0..3} \cup {[shape |-> 3, version |-> 0]}
=============================================================================
