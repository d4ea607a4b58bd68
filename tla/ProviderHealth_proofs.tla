----------------------- MODULE ProviderHealth_proofs -----------------------
(***************************************************************************)
(* What ProviderHealth says for any countries, interval, pause, hour and   *)
(* number of mishaps: no provider is marked down before it earned it, a    *)
(* pause shows nobody again, and checks keep to their share of the hour.   *)
(***************************************************************************)
EXTENDS ProviderHealth, FiniteSetTheorems, TLAPS

(* Only a round has a scope, and a country's asks one quote. *)
RoundOK ==
  /\ prober.round.scope = None => prober.round = NoRound
  /\ prober.round.scope \in Countries => prober.round.asked = 0

(* A pause interrupts every round. *)
PausedIsIdle == prober.pause > 0 => prober.round = NoRound

(* A result outlives its cycle by nothing but the pauses of mishaps. *)
LeftOK == \A s \in Scopes : row[s].left <= STALE_ROUNDS * MaxCycle + mishaps * ThrottlePause

(* A stored pause ends before the rows it prolonged. *)
OutlastsPause ==
  prober.extended => \A s \in Scopes : row[s].left = 0 \/ row[s].left > prober.pause

(* The failures a row counts towards `down' all happened. *)
Counted(r, n) == (r.state # "down" => r.failures <= n) /\ (r.state = "none" => r.failures = 0)
FailuresCounted == \A s \in Scopes : Counted(row[s], failed[s])

HInv == TypeOK /\ RoundOK /\ PausedIsIdle /\ LeftOK /\ OutlastsPause /\ FailuresCounted

LEMMA TimesGrows ==
  ASSUME NEW a \in Nat, NEW b \in Nat, NEW c \in Nat, a <= b
  PROVE  a * c \in Nat /\ c * a <= c * b /\ a * c <= b * c
  OBVIOUS

LEMMA TimesNext == ASSUME NEW a \in Nat, NEW c \in Nat PROVE (a + 1) * c = a * c + c
  OBVIOUS

(* A cycle is no shorter than the interval; it is bounded by the countries. *)
LEMMA Cycles ==
  ASSUME HealthConstants
  PROVE  /\ Cardinality(Countries) \in Nat /\ MaxCycle \in Nat /\ MaxCycle > 0
         /\ Interval \in Interval..MaxCycle /\ Cycle \in Interval..MaxCycle
<1>1. Cardinality(Countries) \in Nat
  BY FS_CardinalityType DEF HealthConstants
<1>2. IsFiniteSet(RegularWork \cap Countries)
      /\ Cardinality(RegularWork \cap Countries) <= Cardinality(Countries)
  BY FS_Subset, RegularWork \cap Countries \subseteq Countries DEF HealthConstants
<1>3. Cardinality(RegularWork \cap Countries) \in Nat
  BY <1>2, FS_CardinalityType
<1> QED BY <1>1, <1>2, <1>3 DEF HealthConstants, MaxCycle, Cycle, Targets

(* What may be left, after how many mishaps. *)
LEMMA Lefts ==
  ASSUME HealthConstants, NEW cycle \in Interval..MaxCycle, NEW n \in 0..MaxMishaps
  PROVE  /\ STALE_ROUNDS * cycle \in Nat /\ STALE_ROUNDS * cycle > 0
         /\ MaxLeft \in Nat /\ n * ThrottlePause \in Nat
         /\ STALE_ROUNDS * cycle <= STALE_ROUNDS * MaxCycle
         /\ STALE_ROUNDS * MaxCycle + n * ThrottlePause <= MaxLeft
         /\ STALE_ROUNDS * MaxCycle \in Nat
<1>1. MaxCycle \in Nat /\ cycle \in Nat /\ cycle <= MaxCycle /\ cycle >= 1
  BY Cycles DEF HealthConstants
<1>2. STALE_ROUNDS \in Nat /\ STALE_ROUNDS >= 1 /\ ThrottlePause \in Nat /\ MaxMishaps \in Nat
  BY DEF HealthConstants
<1>3. STALE_ROUNDS * cycle \in Nat /\ STALE_ROUNDS * cycle <= STALE_ROUNDS * MaxCycle
  BY <1>1, <1>2, TimesGrows
<1>4. 1 * cycle <= STALE_ROUNDS * cycle
  BY <1>1, <1>2, 1 \in Nat, TimesGrows
<1>5. n * ThrottlePause \in Nat /\ n * ThrottlePause <= (MaxMishaps + 1) * ThrottlePause
  BY <1>2, TimesGrows, n \in Nat, n <= MaxMishaps + 1, MaxMishaps + 1 \in Nat
<1>6. STALE_ROUNDS * MaxCycle \in Nat /\ (MaxMishaps + 1) * ThrottlePause \in Nat
  BY <1>1, <1>2, TimesGrows, MaxMishaps + 1 \in Nat, MaxMishaps + 1 <= MaxMishaps + 1, STALE_ROUNDS <= STALE_ROUNDS
<1> QED BY <1>1, <1>2, <1>3, <1>4, <1>5, <1>6 DEF MaxLeft

(* What one round leaves in a row, and what it adds to the count. *)
LEMMA RoundLeaves ==
  ASSUME HealthConstants, NEW old \in Row, NEW left \in 0..MaxLeft,
         NEW found \in {"up", "down", "nothing"},
         NEW n \in 0..FailuresToDown, Counted(old, n),
         NEW m, m = IF found = "down" THEN AtMost(n + 1, FailuresToDown) ELSE 0
  PROVE  LET new == NextHealth(old, found, left)
         IN /\ new \in Row
            /\ new.left \in {left, old.left}
            /\ m \in 0..FailuresToDown
            /\ Counted(new, m)
            /\ old.state # "down" /\ new.state = "down" => m >= FailuresToDown
<1> DEFINE new == NextHealth(old, found, left)
<1>1. FailuresToDown \in Nat /\ FailuresToDown >= 1
  BY DEF HealthConstants
<1>2. CASE found = "up"
  <2>1. m = 0 /\ new = OfferSeen(old, left)
    BY <1>2 DEF NextHealth
  <2>2. new = [state |-> "up", failures |-> 0, left |-> left]
    BY <2>1 DEF OfferSeen, Row
  <2> QED BY <1>1, <2>1, <2>2 DEF Row, Counted
<1>3. CASE found = "nothing"
  <2>1. m = 0 /\ new = PendingCleared(old)
    BY <1>3 DEF NextHealth
  <2>2. old.state = "up" => new = [state |-> "up", failures |-> 0, left |-> old.left]
    BY <2>1 DEF PendingCleared, Row
  <2>3. old.state # "up" => new = old
    BY <2>1 DEF PendingCleared
  <2>4. old.state \in {"none", "up", "down"} /\ old.left \in 0..MaxLeft
    BY DEF Row
  <2>5. CASE old.state = "up"
    BY <1>1, <2>1, <2>2, <2>4, <2>5 DEF Row, Counted
  <2>6. CASE old.state # "up"
    BY <1>1, <2>1, <2>3, <2>4, <2>6 DEF Counted
  <2> QED BY <2>5, <2>6
<1>4. CASE found = "down"
  <2>1. new = RoundFailed(old, left)
    BY <1>4 DEF NextHealth
  <2> DEFINE failures == AtMost(old.failures + 1, FailuresToDown)
  <2>2. /\ new.state = IF failures >= FailuresToDown THEN "down"
                       ELSE IF old.state = "none" THEN "up" ELSE old.state
        /\ new.failures = failures /\ new.left = left
        /\ new = [state |-> new.state, failures |-> new.failures, left |-> new.left]
    BY <2>1 DEF RoundFailed, Row
  <2>3. failures \in 0..FailuresToDown /\ m = AtMost(n + 1, FailuresToDown)
    BY <1>1, <1>4 DEF AtMost, Row
  <2>4. new \in Row
    BY <2>2, <2>3 DEF Row
  <2>5. old.state # "down" => failures <= m
    BY <1>1, <2>3 DEF AtMost, Row, Counted
  <2>6. m \in 0..FailuresToDown
    BY <1>1, <2>3 DEF AtMost
  <2>7. new.state # "none"
    BY <2>2, <1>1 DEF Row
  <2>8. new.state # "down" => old.state # "down"
    BY <2>2 DEF Row
  <2> QED BY <2>2, <2>3, <2>4, <2>5, <2>6, <2>7, <2>8 DEF Counted
<1> QED BY <1>2, <1>3, <1>4
-----------------------------------------------------------------------------
Rounds ==
  [scope : Scopes \cup {None}, check : BOOLEAN, asked : 0..1,
   allDown : BOOLEAN, after : Countries \cup {None}]
Probers ==
  [age : [Scopes -> 0..Oldest], suspects : SUBSET Countries, spent : SUBSET (0..Hour - 1),
   pause : Nat, extended : BOOLEAN, ready : BOOLEAN, cycle : Interval..MaxCycle,
   round : Rounds]

(* A scope is a country or everywhere, and none of them is no scope. *)
LEMMA ScopesAre ==
  ASSUME HealthConstants
  PROVE  /\ Everywhere \in Scopes /\ Everywhere \notin Countries
         /\ None \notin Scopes /\ NoRound \in Rounds
  BY DEF HealthConstants, Scopes, NoRound, Rounds

LEMMA Ages ==
  ASSUME HealthConstants
  PROVE  /\ 0 \in 0..Oldest /\ Oldest \in 0..Oldest /\ Interval \in Nat
         /\ \A age \in 0..Oldest : Older(age) \in 0..Oldest
  BY DEF HealthConstants, Oldest, Older, AtMost

(* A step that writes no row keeps what is known of the rows. *)
LEMMA RowsStand ==
  ASSUME HealthConstants, HInv, UNCHANGED <<row, failed>>,
         mishaps' \in {mishaps, mishaps + 1}
  PROVE  LeftOK' /\ FailuresCounted'
<1>1. FailuresCounted'
  BY DEF HInv, FailuresCounted
<1>2. mishaps \in Nat /\ mishaps' \in Nat /\ mishaps <= mishaps' /\ ThrottlePause \in Nat
  BY DEF HInv, TypeOK, HealthConstants
<1>3. mishaps * ThrottlePause <= mishaps' * ThrottlePause
      /\ mishaps * ThrottlePause \in Nat /\ mishaps' * ThrottlePause \in Nat
  <2>1. CASE mishaps' = mishaps
    BY <1>2, <2>1, mishaps <= mishaps, TimesGrows
  <2>2. CASE mishaps' = mishaps + 1
    BY <1>2, <2>2, mishaps <= mishaps, TimesGrows, TimesNext
  <2> QED BY <2>1, <2>2
<1>4. STALE_ROUNDS * MaxCycle \in Nat
  BY Cycles, Lefts, mishaps \in 0..MaxMishaps DEF HInv, TypeOK
<1>5. \A s \in Scopes : row[s].left \in Nat
  BY Lefts, Cycles DEF HInv, TypeOK, Row
<1> QED BY <1>1, <1>3, <1>4, <1>5 DEF HInv, LeftOK

(* What remains to be said of a step that writes no row: the process. *)
LEMMA ProberSteps ==
  ASSUME HealthConstants, HInv, UNCHANGED <<row, written, failed>>,
         mishaps' \in {mishaps, mishaps + 1}, mishaps' <= MaxMishaps,
         prober' \in Probers, weather' \in {"mixed", "outage", "local", "fine"},
         RoundOK', PausedIsIdle',
         prober'.extended => prober.extended /\ prober'.pause <= prober.pause
  PROVE  HInv'
<1>1. TypeOK'
  BY DEF HInv, TypeOK, Probers, Rounds
<1>2. OutlastsPause'
  <2>1. prober.pause \in Nat /\ prober'.pause \in Nat
    BY DEF HInv, TypeOK, Probers
  <2>2. \A s \in Scopes : row[s].left \in 0..MaxLeft
    BY DEF HInv, TypeOK, Row
  <2>3. MaxLeft \in Nat
    BY Cycles, Lefts, mishaps \in 0..MaxMishaps DEF HInv, TypeOK
  <2> QED BY <2>1, <2>2, <2>3 DEF HInv, OutlastsPause
<1> QED BY <1>1, <1>2, RowsStand DEF HInv

LEMMA ProberIs ==
  ASSUME HInv
  PROVE  /\ prober \in Probers /\ prober.round \in Rounds
         /\ mishaps \in Nat /\ mishaps <= MaxMishaps
         /\ weather \in {"mixed", "outage", "local", "fine"}
  BY DEF HInv, TypeOK, Probers, Rounds

LEMMA StartHolds == HealthConstants /\ Init => HInv
<1> SUFFICES ASSUME HealthConstants, Init PROVE HInv
  OBVIOUS
<1>1. 0 \in 0..MaxMishaps /\ FailuresToDown \in Nat
  BY DEF HealthConstants
<1>2. MaxLeft \in Nat /\ STALE_ROUNDS * MaxCycle \in Nat /\ mishaps * ThrottlePause \in Nat
  BY <1>1, Cycles, Lefts DEF Init
<1>3. TypeOK
  BY <1>1, <1>2, Cycles, ScopesAre, Ages DEF Init, TypeOK, Row, NoRow, Booted, Rounds
<1>4. LeftOK /\ FailuresCounted
  BY <1>1, <1>2 DEF Init, LeftOK, FailuresCounted, Counted, NoRow
<1>5. RoundOK /\ PausedIsIdle /\ OutlastsPause
  BY ScopesAre, None \notin Countries DEF Init, Booted, NoRound, RoundOK, PausedIsIdle, OutlastsPause, Scopes
<1> QED BY <1>3, <1>4, <1>5 DEF HInv

(* A quote, and time, leave ages of an hour at most. *)
LEMMA SpentIs ==
  ASSUME HealthConstants, HInv
  PROVE  /\ Spent \in SUBSET (0..Hour - 1)
         /\ {age + 1 : age \in prober.spent} \ {Hour} \in SUBSET (0..Hour - 1)
<1>1. prober.spent \in SUBSET (0..Hour - 1) /\ Hour \in Nat /\ Hour > 0
  BY ProberIs DEF Probers, HealthConstants
<1> QED BY <1>1 DEF Spent

LEMMA TakeSuspectHolds ==
  ASSUME HealthConstants, HInv, NEW country \in Countries, TakeSuspect(country)
  PROVE  HInv'
<1> DEFINE scope == CheckScope(country)
<1>1. PICK left \in SUBSET Countries :
        prober' = [prober EXCEPT !.suspects = left, !.age[scope] = 0,
                                 !.round = Begun(scope, TRUE, country)]
  BY ProberIs DEF TakeSuspect, Probers
<1>2. UNCHANGED <<row, written, failed, weather, mishaps>> /\ prober.pause = 0
  BY DEF TakeSuspect, Idle
<1>3. scope \in Scopes /\ None \notin Scopes
  BY ScopesAre DEF TakeSuspect, DueSuspects, CheckScope, Scopes
<1>4. Begun(scope, TRUE, country) \in Rounds /\ Begun(scope, TRUE, country).asked = 0
      /\ Begun(scope, TRUE, country).scope # None
  BY <1>3 DEF Begun, Rounds
<1>5. /\ prober' \in Probers /\ prober'.pause = 0 /\ prober'.extended = prober.extended
      /\ prober'.round = Begun(scope, TRUE, country)
  BY <1>1, <1>2, <1>3, <1>4, ProberIs, Ages DEF Probers
<1>6. RoundOK'
  BY <1>4, <1>5 DEF RoundOK
<1>7. PausedIsIdle'
  BY <1>5 DEF PausedIsIdle
<1> QED BY <1>2, <1>5, <1>6, <1>7, ProberIs, ProberSteps

LEMMA TakeDueHolds ==
  ASSUME HealthConstants, HInv, NEW scope \in Scopes, TakeDue(scope)
  PROVE  HInv'
<1>1. /\ UNCHANGED <<row, written, failed>> /\ weather' = weather /\ mishaps' = mishaps /\ prober.pause = 0
      /\ prober' = [prober EXCEPT !.suspects = {}, !.age[scope] = 0, !.cycle = Cycle,
                                  !.round = Begun(scope, FALSE, None)]
  BY DEF TakeDue, Idle
<1>2. Begun(scope, FALSE, None) \in Rounds /\ Begun(scope, FALSE, None).asked = 0
      /\ Begun(scope, FALSE, None).scope # None
  BY ScopesAre DEF Begun, Rounds
<1>3. prober' \in Probers
  BY <1>1, <1>2, ProberIs, Ages, Cycles DEF Probers
<1>4. prober'.pause = 0 /\ prober'.extended = prober.extended
      /\ prober'.round = Begun(scope, FALSE, None)
  BY <1>1, ProberIs DEF Probers
<1>5. RoundOK'
  BY <1>2, <1>4 DEF RoundOK
<1>6. PausedIsIdle'
  BY <1>4 DEF PausedIsIdle
<1> QED BY <1>1, <1>3, <1>4, <1>5, <1>6, ProberIs, ProberSteps

LEMMA StoreFailsHolds ==
  ASSUME HealthConstants, HInv, StoreFails
  PROVE  HInv'
<1>1. prober' \in Probers /\ prober'.round = NoRound /\ ~prober'.extended
  <2>1. CASE Idle /\ prober' = [prober EXCEPT !.pause = Interval, !.extended = FALSE]
    BY <2>1, ProberIs, Ages DEF Idle, Probers
  <2>2. CASE prober' = [prober EXCEPT !.ready = FALSE, !.spent = Spent, !.round = NoRound,
                                      !.pause = Interval, !.extended = FALSE]
    BY <2>2, ProberIs, ScopesAre, SpentIs, Ages DEF Probers
  <2> QED BY <2>1, <2>2 DEF StoreFails
<1>2. RoundOK' /\ PausedIsIdle'
  BY <1>1, ScopesAre DEF RoundOK, PausedIsIdle, NoRound, Scopes
<1> QED BY <1>1, <1>2, ProberIs, ProberSteps DEF StoreFails, Mishap, HealthConstants

LEMMA RestartHolds ==
  ASSUME HealthConstants, HInv, Restart
  PROVE  HInv'
<1>1. prober' = Booted(written) /\ written \in [Scopes -> 0..Oldest]
  BY DEF Restart, HInv, TypeOK
<1>2. prober' \in Probers
  BY <1>1, ScopesAre, Cycles DEF Booted, Probers
<1>3. prober'.round = NoRound /\ ~prober'.extended
  BY <1>1 DEF Booted
<1>4. RoundOK' /\ PausedIsIdle'
  BY <1>3, ScopesAre DEF RoundOK, PausedIsIdle, NoRound, Scopes
<1> QED BY <1>2, <1>3, <1>4, ProberIs, ProberSteps DEF Restart, Mishap, HealthConstants

LEMMA WorldHolds ==
  ASSUME HealthConstants, HInv, Settles \/ (\E c \in Countries : Report(c)) \/ UNCHANGED vars
  PROVE  HInv'
<1>1. /\ UNCHANGED <<row, written, failed, mishaps>> /\ weather' \in {"mixed", "outage", "local", "fine"}
      /\ \/ prober' = prober
         \/ \E c \in Countries : prober' = [prober EXCEPT !.suspects = @ \cup {c}]
  BY ProberIs DEF Settles, Report, vars
<1>2. /\ prober' \in Probers /\ prober'.round = prober.round
      /\ prober'.pause = prober.pause /\ prober'.extended = prober.extended
  BY <1>1, ProberIs DEF Probers
<1>3. RoundOK' /\ PausedIsIdle'
  BY <1>2 DEF RoundOK, PausedIsIdle, HInv
<1>4. prober.pause <= prober.pause
  BY ProberIs DEF Probers
<1> QED BY <1>1, <1>2, <1>3, <1>4, ProberIs, ProberSteps

(* Bounds in one place, for steps that write rows. *)
LEMMA RowsAre ==
  ASSUME HealthConstants, HInv, NEW s \in Scopes
  PROVE  /\ row[s].state \in {"none", "up", "down"} /\ row[s].failures \in 0..FailuresToDown
         /\ row[s].left \in Nat /\ row[s].left <= STALE_ROUNDS * MaxCycle + mishaps * ThrottlePause
         /\ row[s] = [state |-> row[s].state, failures |-> row[s].failures, left |-> row[s].left]
         /\ row \in [Scopes -> Row] /\ row[s] \in Row /\ failed[s] \in 0..FailuresToDown
         /\ Counted(row[s], failed[s])
         /\ MaxLeft \in Nat /\ STALE_ROUNDS * MaxCycle \in Nat /\ mishaps * ThrottlePause \in Nat
         /\ STALE_ROUNDS * MaxCycle + mishaps * ThrottlePause <= MaxLeft
<1>1. mishaps \in 0..MaxMishaps /\ row \in [Scopes -> Row] /\ failed \in [Scopes -> 0..FailuresToDown]
  BY DEF HInv, TypeOK
<1>2. /\ MaxLeft \in Nat /\ STALE_ROUNDS * MaxCycle \in Nat /\ mishaps * ThrottlePause \in Nat
      /\ STALE_ROUNDS * MaxCycle + mishaps * ThrottlePause <= MaxLeft
  BY <1>1, Cycles, Lefts
<1>3. row[s].left <= STALE_ROUNDS * MaxCycle + mishaps * ThrottlePause /\ Counted(row[s], failed[s])
  BY DEF HInv, LeftOK, FailuresCounted
<1>4. row[s] \in Row
  BY <1>1
<1> QED BY <1>1, <1>2, <1>3, <1>4 DEF Row

LEMMA PassHolds ==
  ASSUME HealthConstants, HInv, Pass
  PROVE  HInv'
<1>1. /\ row' = [s \in Scopes |-> [row[s] EXCEPT !.left = Less(@)]]
      /\ UNCHANGED <<weather, failed, mishaps>>
  BY DEF Pass
<1>2. \A s \in Scopes :
        /\ row'[s] \in Row /\ row'[s].state = row[s].state /\ row'[s].failures = row[s].failures
        /\ row'[s].left \in Nat /\ row'[s].left <= row[s].left
        /\ row[s].left > 0 => row'[s].left = row[s].left - 1
        /\ row[s].left = 0 => row'[s].left = 0
  <2> SUFFICES ASSUME NEW s \in Scopes
      PROVE /\ row'[s] \in Row /\ row'[s].state = row[s].state /\ row'[s].failures = row[s].failures
            /\ row'[s].left \in Nat /\ row'[s].left <= row[s].left
            /\ row[s].left > 0 => row'[s].left = row[s].left - 1
            /\ row[s].left = 0 => row'[s].left = 0
    OBVIOUS
  <2>1. row[s].left \in Nat /\ row[s] \in Row /\ MaxLeft \in Nat
    BY RowsAre
  <2>2. row'[s] = [row[s] EXCEPT !.left = Less(row[s].left)]
    BY <1>1
  <2>3. /\ Less(row[s].left) \in Nat /\ Less(row[s].left) <= row[s].left
        /\ row[s].left > 0 => Less(row[s].left) = row[s].left - 1
        /\ row[s].left = 0 => Less(row[s].left) = 0
    BY <2>1 DEF Less
  <2>4. row'[s] = [state |-> row[s].state, failures |-> row[s].failures, left |-> Less(row[s].left)]
    BY <2>1, <2>2 DEF Row
  <2>5. /\ row'[s].state = row[s].state /\ row'[s].failures = row[s].failures
        /\ row'[s].left = Less(row[s].left)
    BY <2>4
  <2>6. row'[s] \in Row
    BY <2>1, <2>3, <2>4 DEF Row
  <2> QED BY <2>3, <2>5, <2>6
<1>3. /\ prober' \in Probers /\ prober'.round = prober.round
      /\ prober.pause \in Nat /\ prober'.pause = Less(prober.pause)
      /\ prober'.extended = prober.extended
  <2>1. /\ prober.pause \in Nat /\ Less(prober.pause) \in Nat
        /\ [s \in Scopes |-> Older(prober.age[s])] \in [Scopes -> 0..Oldest]
    BY ProberIs, Ages DEF Probers, Less
  <2>2. PICK suspects \in SUBSET Countries, spent \in SUBSET (0..Hour - 1) :
          prober' = [prober EXCEPT !.age = [s \in Scopes |-> Older(@[s])],
                       !.spent = spent, !.pause = Less(@), !.ready = TRUE, !.suspects = suspects]
    BY ProberIs, SpentIs DEF Pass, Probers
  <2> QED BY ZenonT(60), <2>1, <2>2, ProberIs DEF Probers
<1>4. TypeOK'
  <2>1. row' \in [Scopes -> Row]
    BY <1>1, <1>2
  <2>2. written' \in [Scopes -> 0..Oldest]
    BY Ages DEF Pass, HInv, TypeOK
  <2> QED BY <1>1, <1>3, <2>1, <2>2 DEF HInv, TypeOK, Probers, Rounds
<1>5. RoundOK' /\ LeftOK' /\ FailuresCounted'
  <2>1. RoundOK'
    BY <1>3 DEF HInv, RoundOK
  <2>2. LeftOK'
    <3> SUFFICES ASSUME NEW s \in Scopes
        PROVE row'[s].left <= STALE_ROUNDS * MaxCycle + mishaps * ThrottlePause
      BY <1>1 DEF LeftOK
    <3>1. row'[s].left <= row[s].left /\ row'[s].left \in Nat
      BY <1>2
    <3>2. /\ STALE_ROUNDS * MaxCycle \in Nat /\ mishaps * ThrottlePause \in Nat /\ row[s].left \in Nat
          /\ row[s].left <= STALE_ROUNDS * MaxCycle + mishaps * ThrottlePause
      BY RowsAre
    <3> QED BY <3>1, <3>2
  <2>3. FailuresCounted'
    <3> SUFFICES ASSUME NEW s \in Scopes PROVE Counted(row'[s], failed[s])
      BY <1>1 DEF FailuresCounted
    <3>1. row'[s].state = row[s].state /\ row'[s].failures = row[s].failures
      BY <1>2
    <3> QED BY <3>1, RowsAre DEF Counted
  <2> QED BY <2>1, <2>2, <2>3
<1>6. PausedIsIdle'
  BY <1>3 DEF HInv, PausedIsIdle, Less
<1>7. OutlastsPause'
  <2> SUFFICES ASSUME prober.extended, NEW s \in Scopes
      PROVE row'[s].left = 0 \/ row'[s].left > Less(prober.pause)
    BY <1>3 DEF OutlastsPause
  <2>1. row[s].left = 0 \/ row[s].left > prober.pause
    BY DEF HInv, OutlastsPause
  <2>2. row[s].left \in Nat /\ row'[s].left \in Nat
        /\ (row[s].left > 0 => row'[s].left = row[s].left - 1) /\ (row[s].left = 0 => row'[s].left = 0)
    BY <1>2, RowsAre
  <2> QED BY <1>3, <2>1, <2>2 DEF Less
<1> QED BY <1>4, <1>5, <1>6, <1>7 DEF HInv

LEMMA ThrottledHolds ==
  ASSUME HealthConstants, HInv, Throttled
  PROVE  HInv'
<1>1. PICK stored \in BOOLEAN :
        /\ row' = IF stored THEN [s \in Scopes |-> Extended(row[s])] ELSE row
        /\ prober' = [prober EXCEPT
                        !.ready = FALSE, !.spent = Spent, !.round = NoRound, !.extended = stored,
                        !.pause = IF stored \/ ThrottlePause > Interval THEN ThrottlePause ELSE Interval]
  BY DEF Throttled
<1>2. /\ UNCHANGED <<written, weather, failed>> /\ mishaps' = mishaps + 1 /\ mishaps' \in 0..MaxMishaps
      /\ ThrottlePause \in Nat /\ ThrottlePause > 0
  BY ProberIs DEF Throttled, Mishap, HealthConstants
<1>3. /\ prober' \in Probers /\ prober'.round = NoRound /\ prober'.extended = stored
      /\ stored => prober'.pause = ThrottlePause
  <2>1. (IF stored \/ ThrottlePause > Interval THEN ThrottlePause ELSE Interval) \in Nat
    BY <1>2, Ages
  <2> QED BY <1>1, <2>1, ProberIs, ScopesAre, SpentIs DEF Probers
<1>4. RoundOK' /\ PausedIsIdle'
  BY <1>3, ScopesAre DEF RoundOK, PausedIsIdle, NoRound, Scopes
<1>5. CASE ~stored
  BY <1>1, <1>2, <1>3, <1>4, <1>5, ProberIs, ProberSteps
<1>6. CASE stored
  <2>1. /\ mishaps' * ThrottlePause = mishaps * ThrottlePause + ThrottlePause
        /\ mishaps' * ThrottlePause \in Nat
        /\ STALE_ROUNDS * MaxCycle + mishaps' * ThrottlePause <= MaxLeft
    <3>1. mishaps' * ThrottlePause = mishaps * ThrottlePause + ThrottlePause
      BY <1>2, ProberIs, TimesNext
    <3> QED BY <3>1, <1>2, Cycles, Lefts
  <2>2. \A s \in Scopes :
          /\ row'[s] \in Row /\ row'[s].state = row[s].state /\ row'[s].failures = row[s].failures
          /\ row'[s].left = 0 \/ row'[s].left > ThrottlePause
          /\ row'[s].left <= STALE_ROUNDS * MaxCycle + mishaps' * ThrottlePause
    <3> SUFFICES ASSUME NEW s \in Scopes
        PROVE /\ row'[s] \in Row /\ row'[s].state = row[s].state /\ row'[s].failures = row[s].failures
              /\ row'[s].left = 0 \/ row'[s].left > ThrottlePause
              /\ row'[s].left <= STALE_ROUNDS * MaxCycle + mishaps' * ThrottlePause
      OBVIOUS
    <3> DEFINE more == IF row[s].left > 0 THEN row[s].left + ThrottlePause ELSE row[s].left
    <3>1. row'[s] = [row[s] EXCEPT !.left = more]
      BY <1>1, <1>6 DEF Extended
    <3>2. row'[s] = [state |-> row[s].state, failures |-> row[s].failures, left |-> more]
      BY <3>1, RowsAre DEF Row
    <3>3. row'[s].state = row[s].state /\ row'[s].failures = row[s].failures /\ row'[s].left = more
      BY <3>2
    <3>4. /\ row[s].left \in Nat /\ STALE_ROUNDS * MaxCycle \in Nat /\ mishaps * ThrottlePause \in Nat
          /\ row[s].left <= STALE_ROUNDS * MaxCycle + mishaps * ThrottlePause /\ MaxLeft \in Nat
          /\ row[s].state \in {"none", "up", "down"} /\ row[s].failures \in 0..FailuresToDown
      BY RowsAre
    <3>5. more \in Nat /\ (more = 0 \/ more > ThrottlePause)
          /\ more <= STALE_ROUNDS * MaxCycle + mishaps' * ThrottlePause
      BY <1>2, <2>1, <3>4
    <3>6. more \in 0..MaxLeft
      BY <2>1, <3>4, <3>5
    <3>7. row'[s] \in Row
      BY <3>2, <3>4, <3>6 DEF Row
    <3> QED BY <3>3, <3>5, <3>7
  <2>4. LeftOK'
    BY <2>2 DEF LeftOK
  <2>5. row' \in [Scopes -> Row]
    BY <1>1, <1>6, <2>2
  <2>6. TypeOK'
    BY <1>2, <1>3, <2>5 DEF HInv, TypeOK, Probers, Rounds
  <2>7. FailuresCounted'
    <3> SUFFICES ASSUME NEW s \in Scopes PROVE Counted(row'[s], failed[s])
      BY <1>2 DEF FailuresCounted
    <3>1. row'[s].state = row[s].state /\ row'[s].failures = row[s].failures
      BY <2>2
    <3> QED BY <3>1, RowsAre DEF Counted
  <2>8. OutlastsPause'
    BY <1>3, <2>2 DEF OutlastsPause
  <2> QED BY <1>4, <2>4, <2>6, <2>7, <2>8 DEF HInv
<1> QED BY <1>5, <1>6
-----------------------------------------------------------------------------
(* The end of a round: the one step that may mark a provider down. *)

LEMMA NextRoundIs ==
  ASSUME HealthConstants, NEW round \in Rounds, NEW rows, NEW found, NEW spent,
         round.scope \in Scopes
  PROVE  LET next == NextRound(round, rows, found, spent)
         IN /\ next \in Rounds /\ (next.scope = None => next = NoRound)
            /\ next.scope \in Countries => next.asked = 0
<1> DEFINE next == NextRound(round, rows, found, spent)
           again == Begun(round.scope, round.check, round.after)
           on == Begun(round.after, TRUE, None)
<1>1. \/ next = again
      \/ next = on /\ round.after # None
      \/ next = NoRound
  BY DEF NextRound
<1>2. again \in Rounds /\ again.scope # None /\ again.asked = 0
  BY ScopesAre DEF Begun, Rounds
<1>3. round.after # None => on \in Rounds /\ on.scope # None /\ on.asked = 0
  BY ScopesAre DEF Begun, Rounds, Scopes
<1>4. NoRound \in Rounds /\ NoRound.asked = 0
  BY ScopesAre DEF NoRound
<1> QED BY <1>1, <1>2, <1>3, <1>4

LEMMA ConcludesHolds ==
  ASSUME HealthConstants, HInv, prober.round # NoRound, UNCHANGED <<weather, mishaps>>,
         NEW found \in {"up", "down", "nothing"}, Concludes(found)
  PROVE  /\ HInv'
         /\ \A s \in Scopes :
              row[s].state # "down" /\ row'[s].state = "down" => failed'[s] >= FailuresToDown
<1> DEFINE scope == prober.round.scope
           left == STALE_ROUNDS * prober.cycle
           new == NextHealth(row[scope], found, left)
           count == IF found = "down" THEN AtMost(failed[scope] + 1, FailuresToDown) ELSE 0
<1>1.   /\ row' = [row EXCEPT ![scope] = new]
        /\ prober' = [prober EXCEPT !.ready = FALSE,
                        !.spent = Spent, !.round = NextRound(prober.round, row', found, Spent),
                        !.age = IF NextRound(prober.round, row', found, Spent).scope \in Countries
                                     /\ scope = Everywhere
                                THEN [@ EXCEPT ![NextRound(prober.round, row', found, Spent).scope] = 0]
                                ELSE @]
        /\ failed' = [failed EXCEPT ![scope] = count]
  BY DEF Concludes
<1> DEFINE next == NextRound(prober.round, row', found, Spent)
<1>2. mishaps' = mishaps /\ mishaps \in 0..MaxMishaps
  BY ProberIs DEF HealthConstants
<1>3. scope \in Scopes /\ prober.pause = 0 /\ prober.cycle \in Interval..MaxCycle
  BY ProberIs DEF HInv, RoundOK, PausedIsIdle, Rounds, Probers
<1>4. next \in Rounds /\ (next.scope = None => next = NoRound)
      /\ (next.scope \in Countries => next.asked = 0)
  BY <1>3, ProberIs, NextRoundIs
<1>5. /\ prober' \in Probers /\ prober'.round = next
      /\ prober'.pause = 0 /\ prober'.extended = prober.extended
  <2>1. PICK ages \in [Scopes -> 0..Oldest] :
          prober' = [prober EXCEPT !.ready = FALSE, !.spent = Spent, !.round = next, !.age = ages]
    BY <1>1, <1>4, ProberIs, Ages DEF Probers, Scopes
  <2> QED BY <1>3, <1>4, <2>1, ProberIs, SpentIs DEF Probers
<1>6. /\ left \in 0..MaxLeft /\ left > 0
      /\ left <= STALE_ROUNDS * MaxCycle
  BY <1>2, <1>3, Lefts, ProberIs
<1>7. /\ new \in Row /\ new.left \in {left, row[scope].left}
      /\ count \in 0..FailuresToDown /\ Counted(new, count)
      /\ row[scope].state # "down" /\ new.state = "down" => count >= FailuresToDown
  <2>1. row[scope] \in Row /\ failed[scope] \in 0..FailuresToDown /\ Counted(row[scope], failed[scope])
    BY <1>3, RowsAre
  <2> QED BY <1>6, <2>1, RoundLeaves
<1>8. /\ row'[scope] = new /\ failed'[scope] = count
      /\ \A s \in Scopes \ {scope} : row'[s] = row[s] /\ failed'[s] = failed[s]
  BY <1>1, <1>3 DEF HInv, TypeOK
<1>9. row' \in [Scopes -> Row] /\ failed' \in [Scopes -> 0..FailuresToDown]
  BY <1>1, <1>7 DEF HInv, TypeOK
<1>10. TypeOK'
  <2>1. written' \in [Scopes -> 0..Oldest]
    BY <1>3, Ages DEF Concludes, HInv, TypeOK
  <2> QED BY <1>2, <1>5, <1>9, <2>1 DEF HInv, TypeOK, Probers, Rounds
<1>11. RoundOK' /\ PausedIsIdle'
  <2>1. RoundOK'
    BY <1>4, <1>5 DEF RoundOK
  <2>2. PausedIsIdle'
    BY <1>5 DEF PausedIsIdle
  <2> QED BY <2>1, <2>2
<1>12. LeftOK'
  <2>1. \A s \in Scopes : row[s].left \in Nat /\ row[s].left <= STALE_ROUNDS * MaxCycle + mishaps * ThrottlePause
    BY RowsAre
  <2>2. mishaps * ThrottlePause \in Nat /\ STALE_ROUNDS * MaxCycle \in Nat
    BY <1>2, <1>3, Lefts
  <2> SUFFICES ASSUME NEW s \in Scopes
      PROVE row'[s].left <= STALE_ROUNDS * MaxCycle + mishaps' * ThrottlePause
    BY DEF LeftOK
  <2>3. row'[s].left = left \/ row'[s].left = row[s].left
    BY <1>7, <1>8
  <2> QED BY <1>2, <1>6, <2>1, <2>2, <2>3
<1>13. FailuresCounted'
  BY <1>7, <1>8 DEF HInv, FailuresCounted
<1>14. OutlastsPause'
  <2> SUFFICES ASSUME NEW s \in Scopes PROVE row'[s].left = 0 \/ row'[s].left > 0
    BY <1>5 DEF OutlastsPause
  <2>1. row'[s].left \in 0..MaxLeft
    BY <1>9 DEF Row
  <2> QED BY <2>1, <1>6
<1>15. \A s \in Scopes :
         row[s].state # "down" /\ row'[s].state = "down" => failed'[s] >= FailuresToDown
  BY <1>7, <1>8
<1> QED BY <1>10, <1>11, <1>12, <1>13, <1>14, <1>15 DEF HInv

LEMMA AskedIs ==
  ASSUME NEW round \in Rounds, NEW allDown \in BOOLEAN
  PROVE  LET asks == [round EXCEPT !.asked = 1, !.allDown = allDown]
         IN asks \in Rounds /\ asks.scope = round.scope
<1>1. [round EXCEPT !.asked = 1] \in Rounds /\ [round EXCEPT !.asked = 1].scope = round.scope
  BY DEF Rounds
<1>2. ASSUME NEW r \in Rounds
      PROVE  [r EXCEPT !.allDown = allDown] \in Rounds /\ [r EXCEPT !.allDown = allDown].scope = r.scope
  BY DEF Rounds
<1> QED BY <1>1, <1>2

LEMMA QuoteHolds ==
  ASSUME HealthConstants, HInv, Quote
  PROVE  /\ HInv'
         /\ \A s \in Scopes :
              row[s].state # "down" /\ row'[s].state = "down" => failed'[s] >= FailuresToDown
<1>1. \/ \E found \in {"up", "down", "nothing"} : Concludes(found)
      \/ /\ \E allDown \in BOOLEAN :
              prober' = [prober EXCEPT !.ready = FALSE, !.spent = Spent,
                                       !.round.asked = @ + 1, !.round.allDown = allDown]
         /\ prober.round.asked + 1 # Targets(prober.round.scope)
         /\ UNCHANGED <<row, written, failed>>
  BY ProberIs DEF Quote, Ends, Rounds
<1>2. prober.round # NoRound /\ UNCHANGED <<weather, mishaps>>
  BY DEF Quote
<1>3. CASE \E found \in {"up", "down", "nothing"} : Concludes(found)
  BY <1>2, <1>3, ConcludesHolds
<1>4. CASE /\ \E allDown \in BOOLEAN :
                prober' = [prober EXCEPT !.ready = FALSE, !.spent = Spent,
                                         !.round.asked = @ + 1, !.round.allDown = allDown]
           /\ prober.round.asked + 1 # Targets(prober.round.scope)
           /\ UNCHANGED <<row, written, failed>>
  <2>1. prober.round.scope = Everywhere /\ prober.round.asked = 0 /\ prober.pause = 0
    BY <1>2, <1>4, ProberIs DEF HInv, RoundOK, PausedIsIdle, Rounds, Probers, Targets, Scopes
  <2>2. PICK allDown \in BOOLEAN :
          prober' = [prober EXCEPT !.ready = FALSE, !.spent = Spent,
                                   !.round.asked = @ + 1, !.round.allDown = allDown]
    BY <1>4
  <2> DEFINE asks == [prober.round EXCEPT !.asked = 1, !.allDown = allDown]
  <2>3. asks \in Rounds /\ asks.scope = Everywhere
    <3>1. prober.round \in Rounds /\ prober.round.scope = Everywhere /\ allDown \in BOOLEAN
      BY <2>1, <2>2, ProberIs
    <3> QED BY <3>1, AskedIs
  <2>4. /\ prober' \in Probers /\ prober'.round.scope = Everywhere
        /\ prober'.pause = 0 /\ prober'.extended = prober.extended
    <3> DEFINE first == [prober EXCEPT !.ready = FALSE, !.spent = Spent, !.round.asked = @ + 1]
    <3>1. first = [prober EXCEPT !.ready = FALSE, !.spent = Spent,
                                   !.round = [prober.round EXCEPT !.asked = 1]]
      BY <2>1, ProberIs DEF Probers
    <3>2. first \in Probers /\ first.round = [prober.round EXCEPT !.asked = 1]
          /\ first.pause = prober.pause /\ first.extended = prober.extended
      <4>1. [prober.round EXCEPT !.asked = 1] \in Rounds
        BY ProberIs DEF Rounds
      <4> QED BY <3>1, <4>1, ProberIs, SpentIs DEF Probers
    <3>3. prober' = [first EXCEPT !.round.allDown = allDown]
      BY <2>2
    <3>4. prober' = [first EXCEPT !.round = [first.round EXCEPT !.allDown = allDown]]
      BY <3>2, <3>3 DEF Probers
    <3>5. [first.round EXCEPT !.allDown = allDown] = asks
      BY <3>2, ProberIs DEF Rounds
    <3>6. prober' = [first EXCEPT !.round = asks]
      BY <3>4, <3>5
    <3> QED BY <2>1, <2>3, <3>2, <3>6 DEF Probers
  <2>5. RoundOK'
    BY <2>4, ScopesAre DEF RoundOK
  <2>6. PausedIsIdle'
    BY <2>4 DEF PausedIsIdle
  <2>7. HInv'
    BY <1>2, <1>4, <2>1, <2>4, <2>5, <2>6, ProberIs, ProberSteps
  <2> QED BY <1>4, <2>7
<1> QED BY <1>1, <1>3, <1>4
-----------------------------------------------------------------------------
LEMMA HealthSteps == HealthConstants => (HInv /\ [Next]_vars => HInv')
<1> SUFFICES ASSUME HealthConstants, HInv, [Next]_vars PROVE HInv'
  OBVIOUS
<1>1. ASSUME NEW c \in Countries, TakeSuspect(c) PROVE HInv'
  BY <1>1, TakeSuspectHolds
<1>2. ASSUME NEW scope \in Scopes, TakeDue(scope) PROVE HInv'
  BY <1>2, TakeDueHolds
<1>3. CASE Settles \/ (\E c \in Countries : Report(c)) \/ UNCHANGED vars
  BY <1>3, WorldHolds
<1> QED BY <1>1, <1>2, <1>3, QuoteHolds, ThrottledHolds, StoreFailsHolds, RestartHolds, PassHolds DEF Next, Step

(* The prober's clocks, rounds and rows have their types: failures are     *)
(* counted no further than FailuresToDown, and no result lives longer than *)
(* its cycles and the pauses that prolonged it (transition.ts, probe.ts). *)
THEOREM HealthTypes ==
  ASSUME HealthConstants
  PROVE  Spec => []TypeOK
<1>1. Init => HInv
  BY StartHolds
<1>2. HInv /\ [Next]_vars => HInv'
  BY HealthSteps
<1>3. HInv => TypeOK
  BY DEF HInv
<1> QED BY <1>1, <1>2, <1>3, PTL DEF Spec

LEMMA HInvHolds ==
  ASSUME HealthConstants
  PROVE  Spec => []HInv
<1>1. Init => HInv
  BY StartHolds
<1>2. HInv /\ [Next]_vars => HInv'
  BY HealthSteps
<1> QED BY <1>1, <1>2, PTL DEF Spec

-----------------------------------------------------------------------------
(* The checks' share.  A round of a check has what it still asks paid for. *)
Asks == Targets(prober.round.scope) - prober.round.asked
ShareOK ==
  /\ Cardinality(prober.spent) <= Hour \div 2
  /\ prober.round # NoRound /\ prober.round.check =>
       Cardinality(prober.spent) + Asks <= Hour \div 2

(* Every quote still to be asked of a round, this one included.            *)
LEMMA AsksIs ==
  ASSUME HealthConstants, HInv, prober.round # NoRound
  PROVE  /\ Asks \in 1..2 /\ prober.round.asked \in 0..1
         /\ prober.round.scope \in Scopes
<1>1. prober.round.scope \in Scopes /\ prober.round.asked \in 0..1
  BY ProberIs DEF HInv, RoundOK, Rounds
<1> QED BY <1>1 DEF HInv, RoundOK, Asks, Targets, Scopes

(* A quote spends one at most; time spends none. *)
LEMMA Spends ==
  ASSUME HealthConstants, HInv
  PROVE  /\ IsFiniteSet(prober.spent) /\ Cardinality(prober.spent) \in Nat
         /\ Cardinality(Spent) \in Nat /\ Hour \div 2 \in Nat
         /\ prober.round.check => Cardinality(Spent) <= Cardinality(prober.spent) + 1
         /\ ~prober.round.check => Spent = prober.spent
         /\ LET later == {age + 1 : age \in prober.spent} \ {Hour}
            IN Cardinality(later) \in Nat /\ Cardinality(later) <= Cardinality(prober.spent)
<1>1. Hour \in Nat /\ prober.spent \in SUBSET (0..Hour - 1)
  BY ProberIs DEF Probers, HealthConstants
<1>2. IsFiniteSet(prober.spent) /\ Cardinality(prober.spent) \in Nat
  BY <1>1, FS_Interval, FS_Subset, FS_CardinalityType, 0 \in Int, Hour - 1 \in Int
<1>3. /\ IsFiniteSet(prober.spent \cup {0})
      /\ Cardinality(prober.spent \cup {0}) \in Nat
      /\ Cardinality(prober.spent \cup {0}) <= Cardinality(prober.spent) + 1
  <2>1. /\ IsFiniteSet(prober.spent \cup {0})
        /\ \/ Cardinality(prober.spent \cup {0}) = Cardinality(prober.spent)
           \/ Cardinality(prober.spent \cup {0}) = Cardinality(prober.spent) + 1
    BY <1>2, FS_AddElement
  <2> QED BY <1>2, <2>1
<1>4. LET later == {age + 1 : age \in prober.spent} \ {Hour}
      IN Cardinality(later) \in Nat /\ Cardinality(later) <= Cardinality(prober.spent)
  <2> DEFINE after == {age + 1 : age \in prober.spent}
             f == [age \in prober.spent |-> age + 1]
  <2>1. f \in Surjection(prober.spent, after)
    BY DEF Surjection
  <2>2. IsFiniteSet(after) /\ Cardinality(after) <= Cardinality(prober.spent)
    BY <1>2, <2>1, FS_Surjection
  <2>3. after \ {Hour} \subseteq after
    OBVIOUS
  <2>4. IsFiniteSet(after \ {Hour}) /\ Cardinality(after \ {Hour}) <= Cardinality(after)
    BY <2>2, <2>3, FS_Subset
  <2>5. Cardinality(after) \in Nat /\ Cardinality(after \ {Hour}) \in Nat
    BY <2>2, <2>4, FS_CardinalityType
  <2> HIDE DEF after
  <2>6. Cardinality(after \ {Hour}) <= Cardinality(prober.spent)
    BY <1>2, <2>2, <2>4, <2>5
  <2> QED BY <2>5, <2>6 DEF after
<1> QED BY <1>1, <1>2, <1>3, <1>4 DEF Spent

(* A check's next round is paid for to its last quote. *)
LEMMA NextIsPaid ==
  ASSUME HealthConstants, NEW round \in Rounds, NEW rows, NEW found, NEW spent,
         round.scope \in Scopes, Cardinality(spent) \in Nat,
         NextRound(round, rows, found, spent) # NoRound, NextRound(round, rows, found, spent).check
  PROVE  Cardinality(spent) + Targets(NextRound(round, rows, found, spent).scope)
           - NextRound(round, rows, found, spent).asked <= Hour \div 2
<1> DEFINE next == NextRound(round, rows, found, spent)
<1>1. \/ /\ next = Begun(round.scope, round.check, round.after)
         /\ round.check => Affordable(round.scope, spent)
      \/ /\ next = Begun(round.after, TRUE, None)
         /\ Affordable(round.after, spent)
  BY DEF NextRound
<1>2. next.asked = 0 /\ Affordable(next.scope, spent)
  BY <1>1 DEF Begun
<1>3. Targets(next.scope) \in Nat
  BY DEF Targets
<1>4. Cardinality(spent) + Targets(next.scope) <= Hour \div 2
  BY <1>2 DEF Affordable
<1>5. Cardinality(spent) + Targets(next.scope) = Cardinality(spent) + Targets(next.scope) - next.asked
  BY <1>2, <1>3
<1> QED BY <1>4, <1>5

LEMMA ShareSteps == HealthConstants => (HInv /\ ShareOK /\ [Next]_vars => ShareOK')
<1> SUFFICES ASSUME HealthConstants, HInv, ShareOK, [Next]_vars PROVE ShareOK'
  OBVIOUS
<1>0. prober.round # NoRound => Asks \in 1..2
  BY AsksIs
<1>1. /\ Cardinality(prober.spent) \in Nat /\ Cardinality(Spent) \in Nat /\ Hour \div 2 \in Nat
      /\ Cardinality(prober.spent) <= Hour \div 2
      /\ prober.round # NoRound => Cardinality(Spent) <= Hour \div 2
      /\ prober.round # NoRound /\ prober.round.check =>
           Cardinality(Spent) + Asks - 1 <= Hour \div 2
  BY <1>0, Spends, ProberIs DEF ShareOK, Rounds
(* No round is left, or none of a check: only the count matters. *)
<1>2. ASSUME prober'.spent \in {{}, prober.spent, Spent},
             prober'.spent = Spent => prober.round # NoRound,
             prober'.round = NoRound \/ ~prober'.round.check
      PROVE  ShareOK'
  <2>1. Cardinality(prober'.spent) <= Hour \div 2
    <3>1. CASE prober'.spent = {}
      BY <1>1, <3>1, FS_EmptySet
    <3>2. CASE prober'.spent # {}
      BY <1>1, <1>2, <3>2
    <3> QED BY <3>1, <3>2
  <2> QED BY <1>2, <2>1 DEF ShareOK
<1>3. ASSUME prober'.spent = prober.spent, prober'.round = prober.round PROVE ShareOK'
  BY <1>3 DEF ShareOK, Asks
<1>4. ASSUME NEW country \in Countries, TakeSuspect(country) PROVE ShareOK'
  <2> DEFINE scope == CheckScope(country)
  <2>1. /\ prober'.spent = prober.spent /\ prober'.round = Begun(scope, TRUE, country)
    BY <1>4, ProberIs DEF TakeSuspect, Probers
  <2>2. Affordable(scope, prober.spent)
    BY <1>4, ScopesAre DEF TakeSuspect, DueSuspects, CheckScope, HealthConstants
  <2>3. Targets(scope) \in Nat
    BY DEF Targets
  <2> QED BY <1>1, <2>1, <2>2, <2>3 DEF ShareOK, Asks, Affordable, Begun
<1>5. ASSUME NEW scope \in Scopes, TakeDue(scope) PROVE ShareOK'
  <2>1. prober'.spent = prober.spent /\ ~prober'.round.check
    BY <1>5, ProberIs DEF TakeDue, Probers, Begun
  <2> QED BY <1>2, <2>1, <1>1 DEF ShareOK
<1>6. CASE Quote
  <2>1. prober.round # NoRound /\ prober.round.scope \in Scopes /\ prober.round.asked \in 0..1
    BY <1>6, AsksIs DEF Quote
  <2>2. CASE \E found : Concludes(found)
    <3>1. PICK found : Concludes(found)
      BY <2>2
    <3> DEFINE next == NextRound(prober.round, row', found, Spent)
    <3>2. prober'.spent = Spent /\ prober'.round = next
      <4>1. PICK ages : prober' = [prober EXCEPT !.ready = FALSE, !.spent = Spent, !.round = next, !.age = ages]
        BY <3>1 DEF Concludes
      <4> QED BY <4>1, ProberIs DEF Probers
    <3>3. next # NoRound /\ next.check =>
            Cardinality(Spent) + Targets(next.scope) - next.asked <= Hour \div 2
      BY <1>1, <2>1, ProberIs, NextIsPaid
    <3>4. CASE next # NoRound /\ next.check
      <4>1. next.asked = 0 /\ Targets(next.scope) \in Nat
        BY <3>4 DEF NextRound, Begun, Targets
      <4> QED BY <1>1, <2>1, <3>2, <3>3, <3>4, <4>1 DEF ShareOK, Asks
    <3>5. CASE next = NoRound \/ ~next.check
      BY <1>2, <2>1, <3>2, <3>5
    <3> QED BY <3>4, <3>5
  <2>3. CASE \E allDown : prober' = [prober EXCEPT !.ready = FALSE, !.spent = Spent,
                                        !.round.asked = @ + 1, !.round.allDown = allDown]
    <3>1. PICK allDown : prober' = [prober EXCEPT !.ready = FALSE, !.spent = Spent,
                                      !.round.asked = @ + 1, !.round.allDown = allDown]
      BY <2>3
    <3> DEFINE first == [prober EXCEPT !.ready = FALSE, !.spent = Spent,
                                       !.round = [prober.round EXCEPT !.asked = @ + 1]]
               round == [prober.round EXCEPT !.asked = @ + 1]
    <3>2. first.spent = Spent /\ first.round = round
      BY ProberIs DEF Probers
    <3>3. /\ round.scope = prober.round.scope /\ round.check = prober.round.check
          /\ round.asked = prober.round.asked + 1
      BY ProberIs DEF Rounds
    <3>4. prober' = [first EXCEPT !.round = [round EXCEPT !.allDown = allDown]]
      BY <3>1, ProberIs DEF Probers, Rounds
    <3>5. prober'.spent = Spent /\ prober'.round = [round EXCEPT !.allDown = allDown]
      BY <3>2, <3>4, ProberIs DEF Probers
    <3>6. /\ prober'.round.scope = prober.round.scope /\ prober'.round.check = prober.round.check
          /\ prober'.round.asked = prober.round.asked + 1
      BY <3>3, <3>5, ProberIs DEF Rounds
    <3>7. Targets(prober.round.scope) \in Nat
      BY DEF Targets
    <3> QED BY <1>1, <2>1, <3>5, <3>6, <3>7 DEF ShareOK, Asks
  <2> QED BY <1>6, <2>2, <2>3 DEF Quote
<1>7. CASE Throttled
  <2>1. prober.round # NoRound /\ prober'.spent = Spent /\ prober'.round = NoRound
    BY <1>7, ProberIs DEF Throttled, Probers
  <2> QED BY <1>2, <2>1
<1>8. CASE StoreFails
  <2>1. CASE Idle /\ prober' = [prober EXCEPT !.pause = Interval, !.extended = FALSE]
    BY <1>3, <2>1, ProberIs DEF Probers
  <2>2. CASE prober.round # NoRound
             /\ prober' = [prober EXCEPT !.ready = FALSE, !.spent = Spent, !.round = NoRound,
                                         !.pause = Interval, !.extended = FALSE]
    <3>1. prober'.spent = Spent /\ prober'.round = NoRound
      BY <2>2, ProberIs DEF Probers
    <3> QED BY <1>2, <2>2, <3>1
  <2> QED BY <1>8, <2>1, <2>2 DEF StoreFails
<1>9. CASE Restart
  <2>1. prober'.spent = {} /\ prober'.round = NoRound
    BY <1>9 DEF Restart, Booted
  <2>2. ShareOK'
    BY <1>1, <2>1, FS_EmptySet DEF ShareOK
  <2> QED BY <2>2
<1>10. CASE Pass
  <2> DEFINE later == {age + 1 : age \in prober.spent} \ {Hour}
  <2>1. prober'.spent = later /\ prober'.round = prober.round
    BY <1>10, ProberIs DEF Pass, Probers
  <2>2. Cardinality(later) \in Nat /\ Cardinality(later) <= Cardinality(prober.spent)
    BY Spends
  <2> HIDE DEF later
  <2> QED BY <1>0, <1>1, <2>1, <2>2 DEF ShareOK, Asks
<1>11. CASE Settles \/ (\E c \in Countries : Report(c)) \/ UNCHANGED vars
  <2>1. prober'.spent = prober.spent /\ prober'.round = prober.round
    BY <1>11, ProberIs DEF Settles, Report, Probers, vars
  <2> QED BY <1>3, <2>1
<1> QED BY <1>4, <1>5, <1>6, <1>7, <1>8, <1>9, <1>10, <1>11 DEF Next, Step

(* Checks of what buyers report never take more than half of an hour's     *)
(* quotes, whatever they find and whatever fails or restarts in between: a *)
(* round begins only when all its quotes are covered (probe.ts, settle).   *)
THEOREM ChecksKeepTheirShare ==
  ASSUME HealthConstants
  PROVE  Spec => []HealthInv
<1>1. Init => ShareOK
  <2>1. HealthConstants => Hour \div 2 \in Nat
    BY DEF HealthConstants
  <2> QED BY <2>1, FS_EmptySet DEF Init, Booted, ShareOK
<1>2. HInv /\ ShareOK /\ [Next]_vars => ShareOK'
  BY ShareSteps
<1>3. HInv /\ ShareOK => HealthInv
  BY DEF ShareOK, CheckShareKept, HInv, HealthInv
<1> QED BY <1>1, <1>2, <1>3, HInvHolds, PTL DEF Spec
-----------------------------------------------------------------------------
(* Steps that leave every row's state as it is. *)
LEMMA StatesStand ==
  ASSUME HealthConstants, HInv, [Next]_vars, ~Quote, NEW s \in Scopes
  PROVE  row'[s].state = row[s].state
<1>1. row[s] \in Row /\ row \in [Scopes -> Row]
  BY RowsAre
<1>2. CASE Pass
  BY <1>1, <1>2 DEF Pass, Row
<1>3. CASE Throttled
  BY <1>1, <1>3 DEF Throttled, Extended, Row
<1>4. CASE ~Pass /\ ~Throttled
  BY <1>4 DEF Next, Step, TakeSuspect, TakeDue, StoreFails, Restart, Settles, Report, vars
<1> QED BY <1>2, <1>3, <1>4

(* No step marks a provider down before FailuresToDown rounds failed with  *)
(* none between them that says otherwise (transition.ts, nextHealth).      *)
THEOREM DownIsDeserved ==
  ASSUME HealthConstants
  PROVE  Spec => DownIsEarned
<1>1. HInv /\ [Next]_vars =>
        [\A scope \in Scopes :
           row[scope].state # "down" /\ row'[scope].state = "down" => failed'[scope] >= FailuresToDown]_vars
  BY QuoteHolds, StatesStand
<1> QED BY <1>1, HInvHolds, PTL DEF Spec, DownIsEarned

(* While a pause that was stored lasts, time is the only thing that        *)
(* touches a row, and every row that counts outlasts it (probe.ts).       *)
THEOREM PausesAreInvisible ==
  ASSUME HealthConstants
  PROVE  Spec => PauseHides
<1>1. HInv /\ [Next]_vars =>
        [prober.pause > 0 /\ prober.extended => \A c \in Countries : Hidden(c) => Hidden(c)']_vars
  <2> SUFFICES ASSUME HealthConstants, HInv, Next, prober.pause > 0, prober.extended,
                      NEW c \in Countries, Hidden(c)
               PROVE  Hidden(c)'
    OBVIOUS
  <2>1. PICK s \in {Everywhere, c} : row[s].state = "down" /\ row[s].left > 0
    BY DEF Hidden, DownNow
  <2>2. s \in Scopes /\ prober.round = NoRound
    BY DEF Scopes, HInv, PausedIsIdle
  <2>3. prober.pause \in Nat /\ row[s].left \in Nat /\ row[s].left > prober.pause
    <3>1. prober.pause \in Nat
      BY ProberIs DEF Probers
    <3>2. row[s].left \in Nat
      BY <2>2, RowsAre
    <3>3. row[s].left = 0 \/ row[s].left > prober.pause
      BY <2>2 DEF HInv, OutlastsPause
    <3> QED BY <2>1, <3>1, <3>2, <3>3
  <2>4. row'[s].state = "down" /\ row'[s].left > 0
    <3>1. CASE Pass
      <4>1. row'[s] = [row[s] EXCEPT !.left = Less(@)]
        BY <2>2, <3>1 DEF Pass
      <4>2. row'[s].state = row[s].state /\ row'[s].left = Less(row[s].left)
        BY <2>2, <4>1, RowsAre DEF Row
      <4> QED BY <2>1, <2>3, <4>2 DEF Less
    <3>2. CASE ~Pass
      <4>1. prober.pause # 0
        OBVIOUS
      <4>2. ~Quote /\ ~Throttled /\ ~StoreFails
        BY <2>2, <4>1 DEF Quote, Throttled, StoreFails, Idle
      <4>3. row' = row
        BY <3>2, <4>1, <4>2 DEF Next, Step, TakeSuspect, TakeDue, Idle, Restart, Settles, Report
      <4> QED BY <2>1, <4>3
    <3> QED BY <3>1, <3>2
  <2> QED BY <2>1, <2>4 DEF Hidden, DownNow
<1> QED BY <1>1, HInvHolds, PTL DEF Spec, PauseHides
=============================================================================
