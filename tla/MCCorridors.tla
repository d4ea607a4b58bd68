---------------------------- MODULE MCCorridors ----------------------------
(* One country with two providers whose limits differ and an operator's    *)
(* bound that shares nothing with one of them; or two countries with one.  *)
EXTENDS Corridors, TLC

CONSTANTS c1, c2, low, mid, high

ServedOne == c1 :> {low, mid, high}
ServedTwo == (c1 :> {low}) @@ (c2 :> {low})
Limits == (low :> [min |-> 1, max |-> 2]) @@ (mid :> [min |-> 2, max |-> 3])
          @@ (high :> [min |-> 4, max |-> 4])
LimitsLow == low :> [min |-> 1, max |-> 2]
Configured == [min |-> 2, max |-> 3]

(* States are told apart by what can still matter: an entry of the cache   *)
(* past its life is read by nobody, and does not change until it is        *)
(* evicted or replaced; the refresh asks of what it knows only whether     *)
(* there is anything; a reader that was served is gone by the next step;   *)
(* and `retired' is read by no action and by no property of this run.      *)
LiveEntry(entry) == IF Fresh(entry) THEN entry ELSE None
LiveCall(x) ==
  IF x = Refresh /\ IsPc(x, "known")
  THEN [call[x] EXCEPT !.listed = @ # {} /\ ~call[x].outage, !.outage = FALSE]
  ELSE call[x]
LiveState ==
  <<now, [c \in Countries |-> LiveEntry(cache[c])], table,
    [x \in Callers |-> LiveCall(x)], NextReader>>
=============================================================================
