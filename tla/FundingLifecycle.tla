--------------------------- MODULE FundingLifecycle ---------------------------
(***************************************************************************)
(* What a funding row promises about its buyer's money, with no handler,   *)
(* worker, lease, lock or clock: the abstract specification that           *)
(* SessionCreation and FundingWorker implement.                            *)
(*                                                                         *)
(* status is what the row says; payable, dated and money are the           *)
(* provider's side of the same request.  A payment made on a page shows    *)
(* when the provider first reports it, which for a bank transfer is often  *)
(* after the page has closed; a request is payable until no such report    *)
(* can come any more, and only the provider knows when that is.  Several   *)
(* requests may step together, because one instant ends the time of        *)
(* several.                                                                *)
(***************************************************************************)
EXTENDS FundingState

CONSTANT Requests

VARIABLES
  status,  \* the row's status; "absent" before it is written, or after the sweep
  payable, \* a payment for the request may still come to be reported
  dated,   \* its page has an expiry (a sell's has none)
  money    \* the provider's transaction, as reported

vars == <<status, payable, dated, money>>

InFlight == FUNDING_STATES \ TERMINAL_STATES

Init ==
  /\ status = [id \in Requests |-> "absent"]
  /\ payable = [id \in Requests |-> FALSE]
  /\ dated \in [Requests -> BOOLEAN]
  /\ money = [id \in Requests |-> "none"]
-----------------------------------------------------------------------------
(* What must be true of the money for a row to move to `to'.               *)
(*   transaction_seen, settled, failed repeat the provider's own word;     *)
(*   expired says that nobody paid, and that nobody will, of a dated       *)
(*   request (a sell's page may outlive the window: nothing is promised);  *)
(*   unobserved says nothing.                                              *)
MayConclude(id, to) ==
  /\ to = "transaction_seen" => money[id] # "none"
  /\ to \in {"settled", "failed"} => money[id] = to
  /\ to = "expired" /\ dated[id] => money[id] = "none" /\ ~payable[id]

(* The row stays, or is written, moves along the machine, or is swept.     *)
RowSteps(id) ==
  LET from == status[id] to == status'[id]
  IN \/ from = to
     \/ from = "absent" /\ to \in {"created", "refused"}
     \/ CanMove(from, to) /\ MayConclude(id, to)
     \/ from = "refused" /\ to = "absent"

(* A request becomes payable while it is reserved, even after it was       *)
(* written off, and at no other time.                                      *)
PageSteps(id) == payable'[id] /\ ~payable[id] => status[id] \in {"created", "unobserved"}

MoneySteps(id) ==
  LET from == money[id] to == money'[id]
  IN \/ from = to
     \/ from = "none" /\ to = "pending" /\ payable[id]
     \/ from \in {"pending", "settling"} /\ to \in {"settling", "settled", "failed"}

Next ==
  /\ status' \in [Requests -> FUNDING_STATES \cup {"absent"}]
  /\ payable' \in [Requests -> BOOLEAN]
  /\ money' \in [Requests -> {"none", "pending", "settling", "settled", "failed"}]
  /\ dated' = dated
  /\ \A id \in Requests : RowSteps(id) /\ PageSteps(id) /\ MoneySteps(id)

Spec == Init /\ [][Next]_vars
-----------------------------------------------------------------------------
TypeOK ==
  /\ status \in [Requests -> FUNDING_STATES \cup {"absent"}]
  /\ payable \in [Requests -> BOOLEAN]
  /\ dated \in [Requests -> BOOLEAN]
  /\ money \in [Requests -> {"none", "pending", "settling", "settled", "failed"}]

(* What the row says of the money is true and stays true: an expired dated *)
(* request is never paid, a seen one was paid, a settled or failed one     *)
(* ended that way (state.ts, the difference between the conclusions).      *)
StatusIsTrue ==
  \A id \in Requests :
    /\ status[id] = "expired" /\ dated[id] => money[id] = "none"
    /\ status[id] = "transaction_seen" => money[id] # "none"
    /\ status[id] \in {"settled", "failed"} => money[id] = status[id]

(* ... because no payment for an expired dated request can still come.     *)
ExpiredIsUnpayable ==
  \A id \in Requests : status[id] = "expired" /\ dated[id] => ~payable[id]

(* What a row concluded is never revised; a refusal may be swept away      *)
(* (state.ts, TERMINAL_STATES; store.ts, pruneRefusals).                   *)
NothingRevised ==
  \A id \in Requests :
    status[id] \in TERMINAL_STATES =>
      status'[id] = status[id] \/ (status[id] = "refused" /\ status'[id] = "absent")

ConclusionsStand == [][NothingRevised]_vars
=============================================================================
