-------------------------- MODULE MCSessionCreation --------------------------
(* SessionCreation on a small instance: a handful of calls competing for one *)
(* key, buys and sells.                                                      *)
EXTENDS SessionCreation, TLC

Symmetry == Permutations(Requests)

(* States are told apart by what can still matter: of the row a handler    *)
(* read back, what it will make of it (whether the page has closed is seen *)
(* only when it answers); of an answer, what an invariant is about; of a   *)
(* handler that ended, not how; of a row that says nothing of the money    *)
(* and never will, not the money nor the age.                              *)
Weighty == {"SESSION", "REQUEST_CONCLUDED", "RAIL_REFUSED", "CORRUPT"}
Weigh(code, id) == IF code \in Weighty THEN <<code, id>> ELSE None
ReadBack == [r \in Requests |->
  IF found[r] = NothingFound THEN None
  ELSE Weigh(Judge(found[r].row, call[r].terms = call[found[r].id].terms, FALSE), found[r].id)]
Told == [r \in Requests |-> Weigh(answer[r].code, answer[r].about)]
At == [r \in Requests |-> IF pc[r] = "dead" THEN "done" ELSE pc[r]]
Weighed == {r \in Requests : db[r].status \notin {"absent", "refused", "unobserved"}}
Owed == [r \in Weighed |-> [money |-> money[r], aged |-> aged[r]]]
LiveState == <<call, At, ReadBack, db, rail, Owed, verdict, Told>>
=============================================================================
