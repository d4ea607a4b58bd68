---------------------------- MODULE FundingState ----------------------------
(***************************************************************************)
(* The lifecycle of one funding request: the pure state machine every      *)
(* writer of a funding row is validated against (src/funding/state.ts).    *)
(***************************************************************************)

FUNDING_STATES ==
  {"created", "session_opened", "transaction_seen",
   "settled", "failed", "expired", "refused", "unobserved"}

(* States in which a request is finished and leaves the worker's scan. *)
TERMINAL_STATES == {"settled", "failed", "expired", "refused", "unobserved"}

TRANSITIONS ==
  { <<"created", "session_opened">>,
    <<"created", "refused">>,
    <<"created", "unobserved">>,
    <<"session_opened", "transaction_seen">>,
    <<"session_opened", "expired">>,
    <<"session_opened", "unobserved">>,
    <<"transaction_seen", "settled">>,
    <<"transaction_seen", "failed">>,
    <<"transaction_seen", "unobserved">> }

(* transition(from, to) returns `to' when the machine allows the move and  *)
(* throws IllegalTransition otherwise, on a self-loop as well.             *)
CanMove(from, to) == <<from, to>> \in TRANSITIONS
=============================================================================
