--------------------------- MODULE ProviderHealth ---------------------------
(***************************************************************************)
(* One provider's health (src/health): the prober's loop that quotes it    *)
(* everywhere and in the countries where it was missed, the rows it keeps  *)
(* (src/health/transition.ts) and what readers make of them                *)
(* (src/health/view.ts).  The prober is one process: it may restart, a     *)
(* write may fail, Meld may throttle it.                                   *)
(*                                                                         *)
(* Time.  The unit is the gap between two quotes.  A row keeps the time it *)
(* has left; what lies back is an age, up to Oldest and no further.        *)
(* Steps take no time, quotes wait for their gap.                          *)
(***************************************************************************)
EXTENDS Integers, FiniteSets

CONSTANTS
  Countries,       \* where a live quote may miss the provider
  Everywhere,      \* GLOBAL_SCOPE
  Interval,        \* health.interval_ms, in gaps
  ThrottlePause,   \* health.throttle_pause_ms, in gaps
  FailuresToDown,  \* health.failures_to_down
  STALE_ROUNDS,    \* 3 in the code
  Hour,            \* health.max_probes_per_hour: an hour, in gaps
  MaxMishaps,      \* bound: restarts, store failures, throttles
  None

ASSUME HealthConstants ==
  /\ Everywhere \notin Countries /\ None \notin Countries /\ None # Everywhere
  /\ IsFiniteSet(Countries)
  /\ Interval \in Nat \ {0} /\ ThrottlePause \in Nat \ {0}
  /\ Hour \in Nat \ {0} /\ FailuresToDown \in Nat \ {0} /\ STALE_ROUNDS \in Nat \ {0}
  /\ MaxMishaps \in Nat

VARIABLES
  row,      \* provider_health, by scope
  written,  \* updated_at of each row: the age of its last result
  prober,   \* the process: its clocks, its suspects and the round it is in
  weather,  \* what the provider answers: anything, or one thing for good
  failed,   \* failed rounds since the last one that says otherwise, by scope
  mishaps

vars == <<row, written, prober, weather, failed, mishaps>>
-----------------------------------------------------------------------------
Scopes == Countries \cup {Everywhere}

AtMost(n, cap) == IF n > cap THEN cap ELSE n
Oldest == Interval + 2
Older(age) == AtMost(age + 1, Oldest)
Less(left) == IF left = 0 THEN 0 ELSE left - 1

(* Quotes in a round: two countries for the provider, one for a country.   *)
Targets(scope) == IF scope = Everywhere THEN 2 ELSE 1

MaxCycle == Interval + 2 + Cardinality(Countries)
MaxLeft == STALE_ROUNDS * MaxCycle + (MaxMishaps + 1) * ThrottlePause

(* `left' is expires_at - now, zero once it has passed; failures count no  *)
(* further than FailuresToDown.                                            *)
Row ==
  [state : {"none", "up", "down"}, failures : 0..FailuresToDown, left : 0..MaxLeft]
NoRow == [state |-> "none", failures |-> 0, left |-> 0]

NoRound == [scope |-> None, check |-> FALSE, asked |-> 0, allDown |-> TRUE, after |-> None]

(* A process that just started: of all this only the ages are stored.      *)
Booted(ages) ==
  [age |-> ages, suspects |-> {}, spent |-> {}, pause |-> 0, extended |-> FALSE,
   ready |-> TRUE, cycle |-> Interval, round |-> NoRound]

Init ==
  /\ row = [scope \in Scopes |-> NoRow]
  /\ written = [scope \in Scopes |-> Oldest]
  /\ prober = Booted(written)
  /\ weather = "mixed"
  /\ failed = [scope \in Scopes |-> 0]
  /\ mishaps = 0

Mishap == mishaps < MaxMishaps /\ mishaps' = mishaps + 1

(* healthView: a row counts until it expires. *)
DownNow(scope) == row[scope].state = "down" /\ row[scope].left > 0
Hidden(country) == DownNow(Everywhere) \/ DownNow(country)
-----------------------------------------------------------------------------
(* What is due.  `age' is lastProbe: the time since this process probed    *)
(* the scope, or since the stored row was written if it has not.           *)
IsDue(scope) == prober.age[scope] >= Interval

(* A country is not probed while its provider is down everywhere. *)
CountryWork(country, rows) == rows[Everywhere].state # "down"

RegularWork == {Everywhere} \cup {c \in Countries : row[c].state = "down" /\ CountryWork(c, row)}

Idle == prober.round = NoRound /\ prober.pause = 0

(* settle: a check begins a round only when the checks' half of the quotes *)
(* of an hour covers it.  `spent' holds the ages of theirs in this hour.   *)
AffordableAtAll(scope, spent) == Cardinality(spent) < Hour \div 2
Affordable(scope, spent) == Cardinality(spent) + Targets(scope) <= Hour \div 2

(* check: the provider everywhere when that is due, else the country. *)
CheckScope(country) ==
  IF IsDue(Everywhere) /\ Affordable(Everywhere, prober.spent) THEN Everywhere
  ELSE IF CountryWork(country, row) /\ Affordable(country, prober.spent) THEN country
  ELSE None

(* The suspects a step can check; taking any other only drops it. *)
DueSuspects == {c \in prober.suspects : IsDue(c) /\ CheckScope(c) # None}
DueWork == {scope \in RegularWork : IsDue(scope)}

(* pace: time for a quote of every target, not less than the interval. *)
CycleInGroups == Cardinality(RegularWork)
Cycle ==
  LET quotes == Cardinality(RegularWork \cap Countries) + Targets(Everywhere)
  IN IF quotes > Interval THEN quotes ELSE Interval

Begun(scope, check, after) ==
  [scope |-> scope, check |-> check, asked |-> 0, allDown |-> TRUE, after |-> after]
-----------------------------------------------------------------------------
(* The provider, the buyers, the clock *)

Settles ==
  /\ weather = "mixed"
  /\ weather' \in {"outage", "local", "fine"}
  /\ UNCHANGED <<row, written, prober, failed, mishaps>>

(* A live quote lacks the provider's offer (Onramp.reportMissing).  The    *)
(* prober reads its suspects between two rounds only: what was reported    *)
(* during one counts as reported when it is over.                          *)
Report(country) ==
  /\ weather # "fine"
  /\ Idle
  /\ country \notin prober.suspects
  /\ prober' = [prober EXCEPT !.suspects = @ \cup {country}]
  /\ UNCHANGED <<row, written, weather, failed, mishaps>>

(* What a quote may find.  A local outage spares one of a round's two      *)
(* countries at least, as they differ.                                     *)
Outcomes(round) ==
  CASE weather = "mixed" -> {"up", "down", "unknown"}
    [] weather = "outage" -> {"down"}
    [] weather = "fine" -> {"up"}
    [] weather = "local" -> IF round.scope # Everywhere THEN {"down"}
                            ELSE IF round.asked = 0 THEN {"up", "down"} ELSE {"up"}

(* Time passes when the prober waits: for a pause, for the gap between two *)
(* quotes, or because nothing is due; it then drops its suspects.          *)
Pass ==
  /\ \/ prober.pause > 0
     \/ prober.round # NoRound /\ ~prober.ready
     \/ Idle /\ DueSuspects = {} /\ DueWork = {}
  /\ row' = [scope \in Scopes |-> [row[scope] EXCEPT !.left = Less(@)]]
  /\ written' = [scope \in Scopes |-> Older(written[scope])]
  /\ prober' = [prober EXCEPT
                  !.age = [scope \in Scopes |-> Older(@[scope])],
                  !.spent = {age + 1 : age \in @} \ {Hour},
                  !.pause = Less(@), !.ready = TRUE,
                  !.suspects = IF Idle THEN {} ELSE @]
  /\ UNCHANGED <<weather, failed, mishaps>>
-----------------------------------------------------------------------------
(* The prober's step *)

(* A suspect that is due is taken; of those that are not, the ones ahead   *)
(* of it are dropped.                                                      *)
TakeSuspect(country) ==
  /\ Idle
  /\ country \in DueSuspects
  /\ \E left \in SUBSET (prober.suspects \ {country}) :
       /\ DueSuspects \ {country} \subseteq left
       /\ prober' = [prober EXCEPT !.suspects = left, !.age[CheckScope(country)] = 0,
                                   !.round = Begun(CheckScope(country), TRUE, country)]
  /\ UNCHANGED <<row, written, weather, failed, mishaps>>

(* The due scope probed longest ago; the step also sets the pace. *)
TakeDue(scope) ==
  /\ Idle
  /\ DueSuspects = {}
  /\ scope \in DueWork
  /\ \A other \in DueWork : prober.age[other] <= prober.age[scope]
  /\ prober' = [prober EXCEPT !.suspects = {}, !.age[scope] = 0, !.cycle = Cycle,
                              !.round = Begun(scope, FALSE, None)]
  /\ UNCHANGED <<row, written, weather, failed, mishaps>>

(* nextHealth and clearPending: what a round leaves in the row. *)
OfferSeenSticky(old, left) == [old EXCEPT !.failures = 0, !.left = left]
OfferSeen(old, left) == [old EXCEPT !.state = "up", !.failures = 0, !.left = left]

RoundFailedUnrenewed(old, left) ==
  IF old.state = "down" THEN old
  ELSE LET failures == AtMost(old.failures + 1, FailuresToDown)
       IN [old EXCEPT !.failures = failures, !.left = left,
                      !.state = IF failures >= FailuresToDown THEN "down" ELSE "up"]

RoundFailed(old, left) ==
  LET failures == AtMost(old.failures + 1, FailuresToDown)
  IN [old EXCEPT !.failures = failures, !.left = left,
                 !.state = IF failures >= FailuresToDown THEN "down"
                           ELSE IF @ = "none" THEN "up" ELSE @]

PendingKept(old) == old
PendingCleared(old) == IF old.state = "up" THEN [old EXCEPT !.failures = 0] ELSE old

NextHealth(old, found, left) ==
  CASE found = "up" -> OfferSeen(old, left)
    [] found = "down" -> RoundFailed(old, left)
    [] found = "nothing" -> PendingCleared(old)

(* A round of `found' ends: it is repeated while a failure waits to be     *)
(* confirmed, a check goes on to its country, or the step is over.         *)
NextRound(round, rows, found, spent) ==
  LET repeats == /\ found = "down" /\ rows[round.scope].state # "down"
                 /\ round.check => Affordable(round.scope, spent)
      goesOn == /\ round.scope = Everywhere /\ round.after # None
                /\ CountryWork(round.after, rows) /\ Affordable(round.after, spent)
  IN CASE repeats -> Begun(round.scope, round.check, round.after)
       [] ~repeats /\ goesOn -> Begun(round.after, TRUE, None)
       [] OTHER -> NoRound

(* probe: a quote of a check counts against the hour, whatever it finds. *)
Spent == IF prober.round.check THEN prober.spent \cup {0} ELSE prober.spent

Concludes(found) ==
  LET scope == prober.round.scope
      rows == [row EXCEPT ![scope] = NextHealth(@, found, STALE_ROUNDS * prober.cycle)]
      next == NextRound(prober.round, rows, found, Spent)
  IN /\ row' = rows
     /\ written' = IF found = "nothing" THEN written ELSE [written EXCEPT ![scope] = 0]
     /\ prober' = [prober EXCEPT !.ready = FALSE, !.spent = Spent, !.round = next,
                     !.age = IF next.scope \in Countries /\ scope = Everywhere
                                THEN [@ EXCEPT ![next.scope] = 0] ELSE @]
     /\ failed' = [failed EXCEPT ![scope] =
                     IF found = "down" THEN AtMost(@ + 1, FailuresToDown) ELSE 0]

(* One offer ends a round, any other answer of its last target does. *)
Ends(round, outcome) == outcome = "up" \/ round.asked + 1 = Targets(round.scope)

(* A quote pinned to the provider. *)
Quote ==
  /\ prober.round # NoRound
  /\ prober.ready
  /\ \E outcome \in Outcomes(prober.round) :
       LET allDown == prober.round.allDown /\ outcome = "down"
       IN IF Ends(prober.round, outcome)
          THEN Concludes(IF outcome = "up" THEN "up" ELSE IF allDown THEN "down" ELSE "nothing")
          ELSE /\ prober' = [prober EXCEPT !.ready = FALSE, !.spent = Spent,
                                           !.round.asked = @ + 1, !.round.allDown = allDown]
               /\ UNCHANGED <<row, written, failed>>
  /\ UNCHANGED <<weather, mishaps>>

(* Meld throttles the quote: probing pauses and every row that still       *)
(* counts is kept for as long, unless the store fails.                     *)
NotExtended(r) == r
Extended(r) == [r EXCEPT !.left = IF @ > 0 THEN @ + ThrottlePause ELSE @]

Throttled ==
  /\ prober.round # NoRound
  /\ prober.ready
  /\ Mishap
  /\ \E stored \in BOOLEAN :
       /\ row' = IF stored THEN [scope \in Scopes |-> Extended(row[scope])] ELSE row
       /\ prober' = [prober EXCEPT
                       !.ready = FALSE, !.spent = Spent, !.round = NoRound, !.extended = stored,
                       !.pause = IF stored \/ ThrottlePause > Interval THEN ThrottlePause ELSE Interval]
  /\ UNCHANGED <<written, weather, failed>>

(* The store fails when the loop reads its rows or writes a result, which  *)
(* is lost: the loop waits an interval and goes on.                        *)
StoreFails ==
  /\ Mishap
  /\ \/ Idle /\ prober' = [prober EXCEPT !.pause = Interval, !.extended = FALSE]
     \/ /\ prober.round # NoRound /\ prober.ready
        /\ \E outcome \in Outcomes(prober.round) : Ends(prober.round, outcome)
        /\ prober' = [prober EXCEPT !.ready = FALSE, !.spent = Spent, !.round = NoRound,
                                    !.pause = Interval, !.extended = FALSE]
  /\ UNCHANGED <<row, written, weather, failed>>

(* Only the rows are left: a stored result stands in for the probe that    *)
(* made it, so that not everything is due at once (lastProbe).             *)
Restart ==
  /\ Mishap
  /\ prober' = Booted(written)
  /\ UNCHANGED <<row, written, weather, failed>>
-----------------------------------------------------------------------------
Step == (\E c \in Countries : TakeSuspect(c)) \/ (\E scope \in Scopes : TakeDue(scope)) \/ Quote

Next ==
  \/ Step \/ Throttled \/ StoreFails \/ Restart
  \/ Pass \/ Settles
  \/ \E c \in Countries : Report(c)

Spec == Init /\ [][Next]_vars

(* The loop keeps stepping and time passes. *)
FairSpec == Spec /\ WF_vars(Step) /\ WF_vars(Pass)
-----------------------------------------------------------------------------
(* Properties *)

TypeOK ==
  /\ row \in [Scopes -> Row]
  /\ written \in [Scopes -> 0..Oldest]
  /\ prober \in [age : [Scopes -> 0..Oldest], suspects : SUBSET Countries,
                 spent : SUBSET (0..Hour - 1),
                 pause : Nat, extended : BOOLEAN, ready : BOOLEAN, cycle : Interval..MaxCycle,
                 round : [scope : Scopes \cup {None}, check : BOOLEAN, asked : 0..1,
                          allDown : BOOLEAN, after : Countries \cup {None}]]
  /\ weather \in {"mixed", "outage", "local", "fine"}
  /\ failed \in [Scopes -> 0..FailuresToDown]
  /\ mishaps \in 0..MaxMishaps

(* Checks never take more than their half of the quotes of any hour, though *)
(* a round of one, once begun, asks every target it has.                   *)
CheckShareKept == Cardinality(prober.spent) <= Hour \div 2

HealthInv == TypeOK /\ CheckShareKept

(* A provider is marked down on FailuresToDown failed rounds since the     *)
(* last one that found an offer or proved nothing, whatever restarts,      *)
(* throttles, failed writes and checks came in between.                    *)
DownIsEarned ==
  [][\A scope \in Scopes :
       row[scope].state # "down" /\ row'[scope].state = "down" => failed'[scope] >= FailuresToDown]_vars

(* A pause reads as nothing: a provider hidden when it began stays hidden  *)
(* until it ends, as long as the pause was stored.                         *)
PauseHides ==
  [][prober.pause > 0 /\ prober.extended => \A c \in Countries : Hidden(c) => Hidden(c)']_vars

(* An outage everywhere is found and then hidden without a break: results  *)
(* are renewed before they expire.                                         *)
OutageStaysHidden == <>[](weather = "outage") => <>[](\A c \in Countries : Hidden(c))


(* A provider that answers again is served again. *)
RecoveredIsServed == <>[](weather = "fine") => <>[](\A c \in Countries : ~Hidden(c))
=============================================================================
