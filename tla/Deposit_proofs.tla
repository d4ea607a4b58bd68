---------------------------- MODULE Deposit_proofs ----------------------------
(***************************************************************************)
(* What Deposit says of any number of replicas, accounts and spellings:    *)
(* one deposit at most is ever shown, never one that was withdrawn nor,    *)
(* but for a tick that was overtaken, one in dispute, and a conclusion     *)
(* brings none with it.                                                    *)
(***************************************************************************)
EXTENDS Deposit, FiniteSetTheorems, TLAPS

InFlight == {"session_opened", "transaction_seen"}
Deposits == [account : Accounts, terms : Terms]
Targets == {"transaction_seen"} \cup TERMINAL_STATES
News == [provider : Statuses, deposit : {None} \cup Disclosures]
Advances == [to : Targets, news : {None} \cup News]
TickRecord ==
  [pc : {"idle", "claim", "poll", "write"}, at : Floor .. 0, snap : {None} \cup Snapshots,
   next : {None} \cup [to : FUNDING_STATES, news : {None} \cup News]]

(* An advance decided: it says nothing of a deposit when it concludes.     *)
AdvanceOK(next) ==
  /\ next \in Advances
  /\ next.news # None /\ next.news.deposit # None => next.to \notin TERMINAL_STATES

(* A tick holds the copy it claimed until it has decided.                  *)
TickOK(tick) ==
  /\ tick.pc = "poll" => tick.snap \in Snapshots /\ tick.snap.status \in InFlight
  /\ tick.pc = "write" => AdvanceOK(tick.next)

(* The owner was told what the row still says.                             *)
ToldIsOnFile ==
  /\ told.cancelled => row.cancelled
  /\ told.shown # {} => row.deposit # None /\ told.shown = {row.deposit}

Inv ==
  /\ TypeOK
  /\ row.status \in InFlight \cup TERMINAL_STATES
  /\ \A w \in Workers : TickOK(wk[w])
  /\ ToldIsOnFile
  /\ NeverShownAndWithdrawn
-----------------------------------------------------------------------------
(* The operators *)

LEMMA InstantTypes ==
  ASSUME DepositConstants
  PROVE  /\ Floor \in Int /\ Floor < 0 /\ Floor = -(MaxTick + 1) /\ TTL \in Nat /\ MaxTick \in Nat
         /\ \A t \in Int : t >= Floor => Ago(t) \in Int /\ Floor <= Ago(t) /\ Ago(t) <= t
  BY DEF DepositConstants, Floor, Ago

LEMMA CanonicalType ==
  ASSUME DepositConstants, NEW d \in Disclosures, Canonical(d.address) # None
  PROVE  [account |-> Canonical(d.address), terms |-> d.terms] \in Deposits
  BY DEF DepositConstants, Disclosures, Deposits

(* A merge keeps the row a row, whatever the rail disclosed.               *)
LEMMA MergeType ==
  ASSUME DepositConstants, NEW rec \in Row, NEW d \in {None} \cup Disclosures, NEW at \in Floor .. 0
  PROVE  MergeDeposit(rec, d, at) \in Row
<1>1. CASE d = None
  BY <1>1 DEF MergeDeposit
<1>2. CASE d # None /\ Disagrees(rec, d)
  <2>1. d.address \in Addresses
    BY <1>2 DEF Disclosures
  <2>2. (rec.deposit # None /\ at >= rec.observedAt) \in BOOLEAN
    OBVIOUS
  <2>3. MergeDeposit(rec, d, at) =
          [rec EXCEPT !.conflict = d.address, !.conflictAt = at,
                      !.since = rec.deposit # None /\ at >= rec.observedAt]
    BY <1>2 DEF MergeDeposit
  <2> QED BY <2>1, <2>2, <2>3 DEF Row
<1>3. CASE d # None /\ ~Disagrees(rec, d) /\ rec.deposit = None
  <2>1. [account |-> Canonical(d.address), terms |-> d.terms] \in Deposits
    BY <1>3, CanonicalType DEF Disagrees
  <2>2. MergeDeposit(rec, d, at) =
          [rec EXCEPT !.deposit = [account |-> Canonical(d.address), terms |-> d.terms],
                      !.observedAt = at,
                      !.since = rec.conflict # None /\ rec.conflictAt >= at]
    BY <1>3 DEF MergeDeposit
  <2> QED BY <2>1, <2>2 DEF Row, Deposits
<1>4. CASE d # None /\ ~Disagrees(rec, d) /\ rec.deposit # None
  BY <1>4 DEF MergeDeposit
<1> QED BY <1>1, <1>2, <1>3, <1>4

(* A merge never revises a deposit, and touches nothing else of the row.   *)
LEMMA MergeKeeps ==
  ASSUME NEW rec \in Row, NEW d, NEW at
  PROVE  /\ MergeDeposit(rec, d, at).status = rec.status
         /\ MergeDeposit(rec, d, at).cancelled = rec.cancelled
         /\ rec.deposit # None => MergeDeposit(rec, d, at).deposit = rec.deposit
<1>1. CASE d = None
  BY <1>1 DEF MergeDeposit
<1>2. CASE d # None /\ Disagrees(rec, d)
  BY <1>2 DEF MergeDeposit, Row
<1>3. CASE d # None /\ ~Disagrees(rec, d) /\ rec.deposit = None
  BY <1>3 DEF MergeDeposit, Row
<1>4. CASE d # None /\ ~Disagrees(rec, d) /\ rec.deposit # None
  BY <1>4 DEF MergeDeposit
<1> QED BY <1>1, <1>2, <1>3, <1>4

LEMMA AdvancedFacts ==
  ASSUME DepositConstants, NEW next, AdvanceOK(next), NEW at \in Floor .. 0, row \in Row
  PROVE  /\ Advanced(row, next, at) \in Row
         /\ Advanced(row, next, at).status = next.to
         /\ Advanced(row, next, at).cancelled = row.cancelled
         /\ row.deposit # None => Advanced(row, next, at).deposit = row.deposit
         /\ next.to \in TERMINAL_STATES =>
              /\ Advanced(row, next, at).deposit = row.deposit
              /\ Advanced(row, next, at).conflict = row.conflict
<1> DEFINE moved == [row EXCEPT !.status = next.to, !.writes = ~@]
           merged == MergeDeposit(moved, next.news.deposit, at)
<1>1. next.to \in FUNDING_STATES
  BY DEF AdvanceOK, Advances, Targets, TERMINAL_STATES, FUNDING_STATES
<1>2. /\ moved \in Row /\ moved.status = next.to /\ moved.cancelled = row.cancelled
      /\ moved.deposit = row.deposit /\ moved.conflict = row.conflict
  BY <1>1 DEF Row
<1> HIDE DEF moved
<1>3. CASE next.news = None
  <2>1. Advanced(row, next, at) = moved
    BY <1>3 DEF Advanced, moved
  <2> QED BY <1>2, <2>1
<1>4. CASE next.news # None
  <2>1. next.news.deposit \in {None} \cup Disclosures /\ next.news.provider \in Statuses
    BY <1>4 DEF AdvanceOK, Advances, News
  <2>2. merged \in Row
    BY <1>2, <2>1, MergeType
  <2>3. /\ merged.status = moved.status /\ merged.cancelled = moved.cancelled
        /\ moved.deposit # None => merged.deposit = moved.deposit
    BY <1>2, MergeKeeps
  <2>4. next.to \in TERMINAL_STATES => merged = moved
    BY <1>4 DEF AdvanceOK, MergeDeposit
  <2>5. Advanced(row, next, at) = [merged EXCEPT !.provider = next.news.provider]
    BY <1>4 DEF Advanced, moved
  <2> HIDE DEF merged
  <2> QED BY <1>2, <2>1, <2>2, <2>3, <2>4, <2>5 DEF Row
<1> QED BY <1>3, <1>4
-----------------------------------------------------------------------------
(* The steps *)

LEMMA InitInv == DepositConstants /\ Init => Inv
<1> SUFFICES ASSUME DepositConstants, Init PROVE Inv
  OBVIOUS
<1>1. row \in Row
  BY InstantTypes DEF Init, NewRow, Row, FUNDING_STATES, Statuses
<1>2. wk = [w \in Workers |-> Idle] /\ 0 \in Floor .. 0
  BY InstantTypes DEF Init
<1>3. TypeOK
  BY <1>1, <1>2 DEF Init, TypeOK, DepositConstants, Idle
<1>4. \A w \in Workers : TickOK(wk[w])
  BY <1>2 DEF Idle, TickOK
<1> QED BY <1>3, <1>4 DEF Init, Inv, NewRow, InFlight, ToldIsOnFile, NeverShownAndWithdrawn

(* A copy of the row is a copy. *)
LEMMA SnapshotType == row \in Row => Snapshot \in Snapshots /\ Snapshot.status = row.status
  BY DEF Row, Snapshot, Snapshots

(* One replica's tick moves: the others' are as they were.                 *)
LEMMA OneTickMoves ==
  ASSUME TypeOK, \A v \in Workers : TickOK(wk[v]),
         NEW w \in Workers, NEW tick \in TickRecord, TickOK(tick), wk' = [wk EXCEPT ![w] = tick]
  PROVE  wk' \in [Workers -> TickRecord] /\ \A v \in Workers : TickOK(wk'[v])
<1>1. wk \in [Workers -> TickRecord]
  BY DEF TypeOK, TickRecord, News
<1>2. \A v \in Workers : wk'[v] = IF v = w THEN tick ELSE wk[v]
  BY <1>1
<1> QED BY <1>1, <1>2

(* So are the row, and what the owner was told.                            *)
LEMMA TickAloneKeepsInv ==
  ASSUME Inv, NEW w \in Workers, NEW tick \in TickRecord, TickOK(tick),
         wk' = [wk EXCEPT ![w] = tick], UNCHANGED <<order, row, told, past, changes>>
  PROVE  Inv'
<1>1. wk' \in [Workers -> TickRecord] /\ \A v \in Workers : TickOK(wk'[v])
  BY OneTickMoves DEF Inv
<1>2. TypeOK'
  BY <1>1 DEF Inv, TypeOK, TickRecord, News
<1> QED BY <1>1, <1>2 DEF Inv, ToldIsOnFile, NeverShownAndWithdrawn

LEMMA IdleIsATick == DepositConstants => Idle \in TickRecord /\ TickOK(Idle)
  BY InstantTypes DEF Idle, TickRecord, TickOK

(* The provider, the owner and the clock.                                  *)
LEMMA ProviderKeepsInv ==
  ASSUME DepositConstants, Inv, NEW status \in Statuses, NEW said \in Sayings,
         ProviderStates(status, said)
  PROVE  Inv'
<1>1. DepositFrom(said) \in {None} \cup Disclosures
  BY DEF DepositFrom, Sayings, Disclosures
<1>2. TypeOK'
  BY <1>1 DEF Inv, TypeOK, ProviderStates, DepositConstants
<1> QED BY <1>2 DEF Inv, ProviderStates, ToldIsOnFile, NeverShownAndWithdrawn

LEMMA ReadKeepsInv ==
  ASSUME Inv, Read
  PROVE  Inv'
<1>1. row.deposit # None /\ ~row.cancelled /\ row.deposit \in Deposits
  BY DEF Read, Disclosed, Live, Inv, TypeOK, Row, Deposits
<1>2. told' = [told EXCEPT !.shown = {row.deposit}]
  BY DEF Read, Inv, ToldIsOnFile
<1>3. TypeOK'
  BY <1>1, <1>2 DEF Inv, TypeOK, Read, Deposits
<1>4. ToldIsOnFile' /\ NeverShownAndWithdrawn'
  BY <1>1, <1>2 DEF Inv, TypeOK, Read, ToldIsOnFile, NeverShownAndWithdrawn
<1> QED BY <1>3, <1>4 DEF Inv, Read

LEMMA CancelKeepsInv ==
  ASSUME Inv, Cancel
  PROVE  Inv'
<1>1. row.deposit = None /\ told.shown = {}
  BY DEF Cancel, Withdrawn, Inv, ToldIsOnFile
<1>2. /\ row' = [row EXCEPT !.cancelled = TRUE, !.writes = ~@]
      /\ told' = [told EXCEPT !.cancelled = TRUE]
      /\ UNCHANGED <<order, wk, past, changes>>
  BY DEF Cancel, Withdrawn
<1>3. row' \in Row /\ row'.cancelled /\ row'.status = row.status
  BY <1>2 DEF Inv, TypeOK, Row
<1>4. TypeOK'
  BY <1>2, <1>3 DEF Inv, TypeOK
<1>5. told'.shown = {}
  BY <1>1, <1>2 DEF Inv, TypeOK
<1> QED BY <1>2, <1>3, <1>4, <1>5 DEF Inv, ToldIsOnFile, NeverShownAndWithdrawn

LEMMA PassKeepsInv ==
  ASSUME DepositConstants, Inv, Pass
  PROVE  Inv'
<1>1. row' \in Row
  <2>1. /\ Ago(row.observedAt) \in Floor .. 0 /\ Ago(row.conflictAt) \in Floor .. 0
        /\ Ago(row.until) \in Floor .. TTL
    BY InstantTypes DEF Inv, TypeOK, Row
  <2> QED BY <2>1 DEF Inv, TypeOK, Row, Pass
<1>2. ASSUME NEW w \in Workers
      PROVE  wk'[w] \in TickRecord /\ TickOK(wk'[w])
  <2>1. wk[w] \in TickRecord /\ TickOK(wk[w])
    BY DEF Inv, TypeOK, TickRecord, News
  <2>2. CASE wk[w].pc = "idle"
    BY <2>1, <2>2 DEF Pass
  <2>3. CASE wk[w].pc # "idle"
    <3>1. wk'[w] = [wk[w] EXCEPT !.at = @ - 1]
      BY <2>3 DEF Pass
    <3>2. wk[w].at - 1 \in Floor .. 0
      BY <2>1, <2>3, InstantTypes DEF Pass, TickRecord
    <3> QED BY <2>1, <3>1, <3>2 DEF TickRecord, TickOK
  <2> QED BY <2>2, <2>3
<1>3. wk' \in [Workers -> TickRecord]
  BY <1>2 DEF Pass
<1>4. TypeOK'
  BY <1>1, <1>3 DEF Inv, TypeOK, TickRecord, News, Pass
<1>5. row'.status = row.status /\ row'.cancelled = row.cancelled /\ row'.deposit = row.deposit
  BY DEF Pass, Inv, TypeOK, Row
<1> QED BY <1>2, <1>4, <1>5 DEF Inv, Pass, ToldIsOnFile, NeverShownAndWithdrawn

(* The tick.                                                               *)
LEMMA StartTickKeepsInv ==
  ASSUME Inv, NEW w \in Workers, StartTick(w)
  PROVE  Inv'
<1> DEFINE tick == [wk[w] EXCEPT !.pc = "claim"]
<1>1. wk[w] \in TickRecord
  BY DEF Inv, TypeOK, TickRecord, News
<1>2. tick \in TickRecord /\ TickOK(tick)
  BY <1>1 DEF TickRecord, TickOK
<1>3. wk' = [wk EXCEPT ![w] = tick]
  BY DEF StartTick, Inv, TypeOK
<1> HIDE DEF tick
<1> QED BY <1>2, <1>3, TickAloneKeepsInv DEF StartTick

LEMMA DoneKeepsInv ==
  ASSUME DepositConstants, Inv, NEW w \in Workers, Done(w),
         UNCHANGED <<order, row, told, past, changes>>
  PROVE  Inv'
  BY IdleIsATick, TickAloneKeepsInv DEF Done

(* A row that moves, with its status, its withdrawal and its deposit told  *)
(* apart: what a step of a replica has to keep of it.                      *)
LEMMA RowMoves ==
  ASSUME Inv, row' \in Row, row'.status \in InFlight \cup TERMINAL_STATES,
         row'.cancelled = row.cancelled, row.deposit # None => row'.deposit = row.deposit,
         wk' \in [Workers -> TickRecord], \A v \in Workers : TickOK(wk'[v]),
         past' \in [disagreed : BOOLEAN, overtaken : BOOLEAN],
         UNCHANGED <<order, told, changes>>
  PROVE  Inv'
<1>1. TypeOK'
  BY DEF Inv, TypeOK, TickRecord, News
<1> QED BY <1>1 DEF Inv, ToldIsOnFile, NeverShownAndWithdrawn

LEMMA ClaimKeepsInv ==
  ASSUME DepositConstants, Inv, NEW w \in Workers, Claim(w)
  PROVE  Inv'
<1>1. CASE row.status \notin TERMINAL_STATES /\ (row.by = None \/ row.until < wk[w].at)
  <2> DEFINE tick == [wk[w] EXCEPT !.pc = "poll", !.snap = Snapshot]
  <2>1. /\ row' = [row EXCEPT !.by = w, !.until = wk[w].at + TTL]
        /\ wk' = [wk EXCEPT ![w].pc = "poll", ![w].snap = Snapshot]
        /\ past' = [past EXCEPT !.overtaken =
                      @ \/ wk[w].at < row.observedAt \/ wk[w].at < row.conflictAt]
        /\ UNCHANGED <<order, told, changes>>
    BY <1>1 DEF Claim
  <2>2. wk[w] \in TickRecord /\ wk[w].at \in Floor .. 0 /\ row \in Row
    BY DEF Inv, TypeOK, TickRecord, News
  <2>3. wk[w].at + TTL \in Floor .. TTL
    BY <2>2, InstantTypes
  <2>4. /\ row' \in Row /\ row'.status = row.status /\ row'.cancelled = row.cancelled
        /\ row'.deposit = row.deposit
    BY <2>1, <2>2, <2>3 DEF Row
  <2>5. row.status \in InFlight
    BY <1>1 DEF Inv
  <2>6. tick \in TickRecord /\ TickOK(tick)
    BY <2>2, <2>5, SnapshotType DEF TickRecord, TickOK
  <2>7. wk' = [wk EXCEPT ![w] = tick]
    BY <2>1 DEF Inv, TypeOK
  <2> HIDE DEF tick
  <2>8. wk' \in [Workers -> TickRecord] /\ \A v \in Workers : TickOK(wk'[v])
    BY <2>6, <2>7, OneTickMoves DEF Inv
  <2>9. past' \in [disagreed : BOOLEAN, overtaken : BOOLEAN]
    <3>1. (past.overtaken \/ wk[w].at < row.observedAt \/ wk[w].at < row.conflictAt) \in BOOLEAN
      OBVIOUS
    <3> QED BY <2>1, <3>1 DEF Inv, TypeOK
  <2> QED BY <2>1, <2>4, <2>5, <2>8, <2>9, RowMoves
<1>2. CASE ~(row.status \notin TERMINAL_STATES /\ (row.by = None \/ row.until < wk[w].at))
  BY <1>2, DoneKeepsInv DEF Claim, Done
<1> QED BY <1>1, <1>2

(* What a poll decides says nothing of a deposit when it concludes.        *)
LEMMA DecideKeepsInv ==
  ASSUME DepositConstants, Inv, NEW w \in Workers, NEW to, NEW news,
         AdvanceOK([to |-> to, news |-> news]), Decide(w, to, news),
         UNCHANGED <<order, row, told, past, changes>>
  PROVE  Inv'
<1> DEFINE tick == [wk[w] EXCEPT !.pc = "write", !.snap = None,
                                 !.next = [to |-> to, news |-> news]]
<1>1. wk[w] \in TickRecord
  BY DEF Inv, TypeOK, TickRecord, News
<1>2. [to |-> to, news |-> news] \in [to : FUNDING_STATES, news : {None} \cup News]
  BY DEF AdvanceOK, Advances, Targets, TERMINAL_STATES, FUNDING_STATES
<1>3. tick \in TickRecord /\ TickOK(tick)
  BY <1>1, <1>2 DEF TickRecord, TickOK
<1>4. wk' = [wk EXCEPT ![w] = tick]
  BY DEF Decide, Inv, TypeOK
<1> HIDE DEF tick
<1> QED BY <1>3, <1>4, TickAloneKeepsInv

LEMMA PollAnswersKeepsInv ==
  ASSUME DepositConstants, Inv, NEW w \in Workers, PollAnswers(w)
  PROVE  Inv'
<1> DEFINE rec == wk[w].snap
           status == order.status
           fact == order.deposit # None /\ ~Ended(rec, status) /\ DepositIsNew(rec, order.deposit)
           to == IF rec.status = "session_opened" THEN "transaction_seen"
                 ELSE Mapped(IF status = None THEN rec.provider ELSE status)
           news == [provider |-> status, deposit |-> IF fact THEN order.deposit ELSE None]
<1>1. CASE Done(w)
  BY <1>1, DoneKeepsInv DEF PollAnswers
<1>2. CASE Decide(w, to, news)
  <2>1. rec \in Snapshots /\ rec.status \in InFlight
    BY DEF PollAnswers, Inv, TickOK
  <2>2. status \in Statuses /\ order.deposit \in {None} \cup Disclosures
    BY DEF PollAnswers, Inv, TypeOK
  <2>3. to \in Targets
    BY DEF Mapped, Targets, TERMINAL_STATES
  <2>4. fact => to \notin TERMINAL_STATES
    BY <2>1 DEF Ended, InFlight, TERMINAL_STATES
  <2>5. news \in News
    BY <2>2 DEF News
  <2> HIDE DEF fact, to
  <2>6. AdvanceOK([to |-> to, news |-> news])
    BY <2>3, <2>4, <2>5 DEF AdvanceOK, Advances
  <2> HIDE DEF news
  <2> QED BY <1>2, <2>6, DecideKeepsInv DEF PollAnswers
<1> QED BY <1>1, <1>2 DEF PollAnswers

LEMMA PollFindsNothingKeepsInv ==
  ASSUME DepositConstants, Inv, NEW w \in Workers, PollFindsNothing(w)
  PROVE  Inv'
<1>1. \A to \in TERMINAL_STATES : AdvanceOK([to |-> to, news |-> None])
  BY DEF AdvanceOK, Advances, Targets
<1>2. PICK to \in TERMINAL_STATES : Done(w) \/ Decide(w, to, None)
  BY DEF PollFindsNothing, Mapped, TERMINAL_STATES
<1> QED BY <1>1, <1>2, DoneKeepsInv, DecideKeepsInv DEF PollFindsNothing

(* What a write does to the row: nothing, or a legal advance.              *)
LEMMA WriteMeans ==
  ASSUME DepositConstants, Inv, NEW w \in Workers, Write(w)
  PROVE  /\ row' \in Row /\ row'.status \in InFlight \cup TERMINAL_STATES
         /\ row'.cancelled = row.cancelled
         /\ row.deposit # None => row'.deposit = row.deposit
         /\ row'.status \in TERMINAL_STATES =>
              row'.deposit = row.deposit /\ row'.conflict = row.conflict
<1> DEFINE next == wk[w].next
           at == wk[w].at
<1>1. AdvanceOK(next) /\ at \in Floor .. 0 /\ row \in Row
  BY DEF Write, Inv, TypeOK, TickOK
<1>2. next.to \in InFlight \cup TERMINAL_STATES
  BY <1>1 DEF AdvanceOK, Advances, Targets, InFlight
<1>3. row' = Advanced(row, next, at) \/ row' = row
  BY DEF Write
<1> HIDE DEF next, at
<1>4. CASE row' = Advanced(row, next, at)
  BY <1>1, <1>2, <1>4, AdvancedFacts
<1>5. CASE row' = row
  BY <1>1, <1>5 DEF Inv
<1> QED BY <1>3, <1>4, <1>5

LEMMA WriteKeepsInv ==
  ASSUME DepositConstants, Inv, NEW w \in Workers, Write(w)
  PROVE  Inv'
<1>1. wk' = [wk EXCEPT ![w] = Idle]
  BY DEF Write, Done
<1>2. wk' \in [Workers -> TickRecord] /\ \A v \in Workers : TickOK(wk'[v])
  BY <1>1, IdleIsATick, OneTickMoves DEF Inv
<1>3. past' \in [disagreed : BOOLEAN, overtaken : BOOLEAN]
  <2>1. PICK more \in BOOLEAN : past' = [past EXCEPT !.disagreed = @ \/ more]
    <3> DEFINE more == /\ Mergeable(row, wk[w].next) /\ row.by = w
                       /\ Disputes(row, wk[w].next)
    <3>1. past' = [past EXCEPT !.disagreed = @ \/ more]
      BY DEF Write
    <3>2. more \in BOOLEAN
      OBVIOUS
    <3> QED BY <3>1, <3>2
  <2> QED BY <2>1 DEF Inv, TypeOK
<1> QED BY <1>2, <1>3, WriteMeans, RowMoves DEF Write

LEMMA ReleaseMeans ==
  ASSUME DepositConstants, Inv, NEW w \in Workers, Release(w)
  PROVE  /\ row' \in Row /\ row'.status = row.status /\ row'.cancelled = row.cancelled
         /\ row'.deposit = row.deposit
<1>1. row \in Row /\ row' = [row EXCEPT !.by = None, !.until = Floor]
  BY DEF Release, Inv, TypeOK
<1>2. Floor \in Floor .. TTL
  BY InstantTypes
<1> QED BY <1>1, <1>2 DEF Row

LEMMA ReleaseKeepsInv ==
  ASSUME DepositConstants, Inv, NEW w \in Workers, Release(w)
  PROVE  Inv'
<1>1. wk' \in [Workers -> TickRecord] /\ (\A v \in Workers : TickOK(wk'[v]))
  BY DEF Release, Inv, TypeOK, TickRecord, News
<1>2. past' \in [disagreed : BOOLEAN, overtaken : BOOLEAN]
  BY DEF Release, Inv, TypeOK
<1> QED BY <1>1, <1>2, ReleaseMeans, RowMoves DEF Release, Inv

LEMMA NextKeepsInv == DepositConstants /\ Inv /\ [Next]_vars => Inv'
<1> SUFFICES ASSUME DepositConstants, Inv, [Next]_vars PROVE Inv'
  OBVIOUS
<1>1. ASSUME NEW status \in Statuses, NEW said \in Sayings, ProviderStates(status, said)
      PROVE  Inv'
  BY <1>1, ProviderKeepsInv
<1>2. CASE Read
  BY <1>2, ReadKeepsInv
<1>3. CASE Cancel
  BY <1>3, CancelKeepsInv
<1>4. CASE Pass
  BY <1>4, PassKeepsInv
<1>5. ASSUME NEW w \in Workers, Tick(w)
      PROVE  Inv'
  BY <1>5, StartTickKeepsInv, ClaimKeepsInv, PollAnswersKeepsInv, PollFindsNothingKeepsInv,
     WriteKeepsInv DEF Tick
<1>6. ASSUME NEW w \in Workers, Release(w)
      PROVE  Inv'
  BY <1>6, ReleaseKeepsInv
<1>7. CASE UNCHANGED vars
  BY <1>7 DEF vars, Inv, TypeOK, ToldIsOnFile, NeverShownAndWithdrawn
<1> QED BY <1>1, <1>2, <1>3, <1>4, <1>5, <1>6, <1>7 DEF Next
-----------------------------------------------------------------------------
(* The theorems *)

(* The inductive invariant: what the owner was told is still what the row  *)
(* says, and a decided conclusion carries no deposit, whatever the         *)
(* provider restates and however many replicas poll (worker.ts advanceOne, *)
(* merge.ts mergeDeposit).                                                 *)
THEOREM DepositInvariant == Spec => []Inv
<1>1. Init => Inv
  BY InitInv, DepositConstants
<1>2. Inv /\ [Next]_vars => Inv'
  BY NextKeepsInv, DepositConstants
<1> QED BY <1>1, <1>2, PTL DEF Spec

(* One deposit at most is ever shown, and never together with a withdrawal *)
(* (store.ts cancel, types.ts depositDisclosure), for any number of        *)
(* replicas, accounts, spellings and restatements.                         *)
THEOREM OneDepositIsShown == Spec => []DepositInv
<1>1. Inv => DepositInv
  <2> SUFFICES ASSUME Inv PROVE DepositInv
    OBVIOUS
  <2>1. told.shown = {} => OneDepositShown
    BY FS_EmptySet DEF OneDepositShown
  <2>2. told.shown = {row.deposit} => OneDepositShown
    <3>1. Cardinality({row.deposit}) = 1
      BY FS_Singleton, Zenon
    <3> QED BY <3>1 DEF OneDepositShown
  <2>3. OneDepositShown
    BY <2>1, <2>2 DEF Inv, ToldIsOnFile
  <2> QED BY <2>3 DEF Inv, DepositInv
<1> QED BY <1>1, DepositInvariant, PTL

(* The write that concludes a sale brings no address with it (worker.ts    *)
(* advanceOne asks for the ended status before the disclosure).            *)
THEOREM ConclusionsAreQuiet == Spec => ConclusionsBringNoDeposit
<1> DEFINE Quiet == row.status \notin TERMINAL_STATES /\ row'.status \in TERMINAL_STATES
                      => row'.deposit = row.deposit /\ row'.conflict = row.conflict
<1>1. Inv /\ [Next]_vars => [Quiet]_row
  <2> SUFFICES ASSUME Inv, [Next]_vars, row' # row PROVE Quiet
    BY DEF Quiet
  <2>1. CASE Cancel
    BY <2>1 DEF Cancel, Withdrawn, Inv, TypeOK, Row
  <2>2. CASE Pass
    BY <2>2 DEF Pass, Inv, TypeOK, Row
  <2>3. ASSUME NEW w \in Workers, Tick(w)
        PROVE  Quiet
    <3>1. CASE Claim(w)
      BY <3>1, <2>3 DEF Claim, Inv, TypeOK, Row
    <3>2. CASE Write(w)
      BY <3>2, WriteMeans, DepositConstants
    <3> QED BY <2>3, <3>1, <3>2 DEF Tick, StartTick, PollAnswers, PollFindsNothing
  <2>4. ASSUME NEW w \in Workers, Release(w)
        PROVE  Quiet
    BY <2>4, ReleaseMeans, DepositConstants
  <2> QED BY <2>1, <2>2, <2>3, <2>4 DEF Next, vars, ProviderStates, Read
<1> QED BY <1>1, DepositInvariant, PTL DEF Spec, ConclusionsBringNoDeposit
-----------------------------------------------------------------------------
(* Disputes.  The tick that holds the lease started no earlier than the    *)
(* deposit on file was recorded, unless one was overtaken; so the stamp of *)
(* a disagreement it writes is no older than the deposit's.                *)
Dated ==
  ~past.overtaken =>
    \A w \in Workers : row.by = w /\ wk[w].pc \in {"poll", "write"} => row.observedAt <= wk[w].at

Withheld == past.disagreed /\ ~past.overtaken => row.deposit # None /\ row.since

Disputed == Dated /\ Withheld

LEMMA MergeDates ==
  ASSUME NEW rec \in Row, NEW d, NEW at \in Floor .. 0, DepositConstants, rec.observedAt <= at
  PROVE  /\ MergeDeposit(rec, d, at).observedAt <= at
         /\ rec.deposit # None =>
              /\ MergeDeposit(rec, d, at).deposit # None
              /\ rec.since => MergeDeposit(rec, d, at).since
              /\ d # None /\ Disagrees(rec, d) => MergeDeposit(rec, d, at).since
<1>1. at \in Int /\ at <= at /\ rec.observedAt \in Int
  BY InstantTypes DEF Row
<1>2. CASE d = None
  BY <1>2 DEF MergeDeposit
<1>3. CASE d # None /\ Disagrees(rec, d)
  <2>1. MergeDeposit(rec, d, at) =
          [rec EXCEPT !.conflict = d.address, !.conflictAt = at,
                      !.since = rec.deposit # None /\ at >= rec.observedAt]
    BY <1>3 DEF MergeDeposit
  <2>2. /\ MergeDeposit(rec, d, at).observedAt = rec.observedAt
        /\ MergeDeposit(rec, d, at).deposit = rec.deposit
        /\ MergeDeposit(rec, d, at).since = (rec.deposit # None /\ at >= rec.observedAt)
    BY <2>1 DEF Row
  <2> QED BY <1>1, <2>2
<1>4. CASE d # None /\ ~Disagrees(rec, d) /\ rec.deposit = None
  <2>1. MergeDeposit(rec, d, at) =
          [rec EXCEPT !.deposit = [account |-> Canonical(d.address), terms |-> d.terms],
                      !.observedAt = at,
                      !.since = rec.conflict # None /\ rec.conflictAt >= at]
    BY <1>4 DEF MergeDeposit
  <2>2. MergeDeposit(rec, d, at).observedAt = at
    BY <2>1 DEF Row
  <2> QED BY <1>1, <1>4, <2>2
<1>5. CASE d # None /\ ~Disagrees(rec, d) /\ rec.deposit # None
  BY <1>5 DEF MergeDeposit
<1> QED BY <1>2, <1>3, <1>4, <1>5

LEMMA AdvancedDates ==
  ASSUME DepositConstants, row \in Row, NEW next, AdvanceOK(next), NEW at \in Floor .. 0,
         row.observedAt <= at
  PROVE  /\ Advanced(row, next, at).observedAt <= at
         /\ Advanced(row, next, at).by = row.by
         /\ row.deposit # None =>
              /\ Advanced(row, next, at).deposit # None
              /\ row.since => Advanced(row, next, at).since
              /\ Disputes(row, next) => Advanced(row, next, at).since
<1> DEFINE moved == [row EXCEPT !.status = next.to, !.writes = ~@]
           merged == MergeDeposit(moved, next.news.deposit, at)
<1>1. next.to \in FUNDING_STATES
  BY DEF AdvanceOK, Advances, Targets, TERMINAL_STATES, FUNDING_STATES
<1>2. /\ moved \in Row /\ moved.deposit = row.deposit /\ moved.observedAt = row.observedAt
      /\ moved.since = row.since /\ moved.by = row.by
  BY <1>1 DEF Row
<1> HIDE DEF moved
<1>3. CASE next.news = None
  <2>1. Advanced(row, next, at) = moved
    BY <1>3 DEF Advanced, moved
  <2> QED BY <1>2, <1>3, <2>1 DEF Disputes
<1>4. CASE next.news # None
  <2>1. next.news.deposit \in {None} \cup Disclosures
    BY <1>4 DEF AdvanceOK, Advances, News
  <2>2. /\ merged.observedAt <= at
        /\ moved.deposit # None =>
             /\ merged.deposit # None
             /\ moved.since => merged.since
             /\ next.news.deposit # None /\ Disagrees(moved, next.news.deposit) => merged.since
    BY <1>2, MergeDates
  <2>3. merged \in Row
    BY <1>2, <2>1, MergeType
  <2>4. merged.by = moved.by
    BY <1>2 DEF MergeDeposit, Row
  <2>5. Advanced(row, next, at) = [merged EXCEPT !.provider = next.news.provider]
    BY <1>4 DEF Advanced, moved
  <2>6. Disputes(row, next) => next.news.deposit # None /\ Disagrees(moved, next.news.deposit)
    BY <1>2 DEF Disputes, Disagrees, MatchesAccepted
  <2> HIDE DEF merged
  <2>7. /\ Advanced(row, next, at).observedAt = merged.observedAt
        /\ Advanced(row, next, at).deposit = merged.deposit
        /\ Advanced(row, next, at).since = merged.since
        /\ Advanced(row, next, at).by = merged.by
    BY <2>3, <2>5 DEF Row
  <2> QED BY <1>2, <2>2, <2>4, <2>6, <2>7
<1> QED BY <1>3, <1>4

LEMMA WriteDisputed ==
  ASSUME DepositConstants, Inv, Disputed, NEW w \in Workers, Write(w)
  PROVE  Disputed'
<1> DEFINE next == wk[w].next
           at == wk[w].at
           lands == Mergeable(row, next) /\ row.by = w
<1>1. /\ row' = IF lands THEN Advanced(row, next, at) ELSE row
      /\ past' = [past EXCEPT !.disagreed = @ \/ (lands /\ Disputes(row, next))]
      /\ wk' = [wk EXCEPT ![w] = Idle] /\ wk[w].pc = "write"
  BY DEF Write, Done
<1>2. /\ row \in Row /\ at \in Floor .. 0 /\ AdvanceOK(next)
      /\ wk \in [Workers -> TickRecord] /\ past \in [disagreed : BOOLEAN, overtaken : BOOLEAN]
  BY <1>1 DEF Inv, TypeOK, TickRecord, TickOK, News
<1>3. past'.overtaken = past.overtaken
      /\ (past'.disagreed => past.disagreed \/ (lands /\ Disputes(row, next)))
  BY <1>1, <1>2
<1>4. wk'[w].pc = "idle" /\ \A v \in Workers \ {w} : wk'[v] = wk[v]
  BY <1>1, <1>2 DEF Idle
<1>5. CASE ~lands
  <2>1. row' = row
    BY <1>1, <1>5
  <2> HIDE DEF lands
  <2> QED BY <1>3, <1>4, <1>5, <2>1 DEF Disputed, Dated, Withheld
<1>6. CASE lands /\ ~past.overtaken
  <2>1. row.by = w /\ row.observedAt <= at
    BY <1>1, <1>6 DEF Disputed, Dated
  <2>2. /\ row'.by = row.by
        /\ row.deposit # None =>
             /\ row'.deposit # None
             /\ row.since => row'.since
             /\ Disputes(row, next) => row'.since
    BY <1>1, <1>2, <1>6, <2>1, AdvancedDates
  <2>3. Disputes(row, next) => row.deposit # None
    BY DEF Disputes
  <2>4. Dated'
    BY <1>4, <2>1, <2>2 DEF Dated
  <2>5. Withheld'
    <3> HIDE DEF lands, next
    <3> QED BY <1>3, <2>2, <2>3 DEF Disputed, Withheld
  <2> QED BY <2>4, <2>5 DEF Disputed
<1>7. CASE past.overtaken
  BY <1>3, <1>7 DEF Disputed, Dated, Withheld
<1> QED BY <1>5, <1>6, <1>7

LEMMA ClaimDisputed ==
  ASSUME DepositConstants, Inv, Disputed, NEW w \in Workers, Claim(w)
  PROVE  Disputed'
<1>1. /\ row \in Row /\ wk \in [Workers -> TickRecord] /\ wk[w].at \in Floor .. 0
      /\ past \in [disagreed : BOOLEAN, overtaken : BOOLEAN]
  BY DEF Inv, TypeOK, TickRecord, News
<1>2. CASE row.status \notin TERMINAL_STATES /\ (row.by = None \/ row.until < wk[w].at)
  <2>1. /\ row' = [row EXCEPT !.by = w, !.until = wk[w].at + TTL]
        /\ wk' = [wk EXCEPT ![w].pc = "poll", ![w].snap = Snapshot]
        /\ past' = [past EXCEPT !.overtaken =
                      @ \/ wk[w].at < row.observedAt \/ wk[w].at < row.conflictAt]
    BY <1>2 DEF Claim
  <2>2. /\ row'.by = w /\ row'.observedAt = row.observedAt /\ row'.deposit = row.deposit
        /\ row'.since = row.since /\ wk'[w].at = wk[w].at
    BY <1>1, <2>1 DEF Row, TickRecord
  <2>3. past'.disagreed = past.disagreed
        /\ (~past'.overtaken => ~past.overtaken /\ ~(wk[w].at < row.observedAt))
    BY <1>1, <2>1
  <2>4. wk[w].at \in Int /\ row.observedAt \in Int
    BY <1>1, InstantTypes DEF Row
  <2>5. Dated'
    BY <2>2, <2>3, <2>4 DEF Dated
  <2> QED BY <2>2, <2>3, <2>5 DEF Disputed, Withheld
<1>3. CASE ~(row.status \notin TERMINAL_STATES /\ (row.by = None \/ row.until < wk[w].at))
  <2>1. wk' = [wk EXCEPT ![w] = Idle] /\ UNCHANGED <<row, past>>
    BY <1>3 DEF Claim
  <2>2. wk'[w].pc = "idle" /\ \A v \in Workers \ {w} : wk'[v] = wk[v]
    BY <1>1, <2>1 DEF Idle
  <2> QED BY <2>1, <2>2 DEF Disputed, Dated, Withheld
<1> QED BY <1>2, <1>3

LEMMA PassDisputed ==
  ASSUME DepositConstants, Inv, Disputed, Pass
  PROVE  Disputed'
<1>1. /\ row \in Row /\ wk \in [Workers -> TickRecord]
      /\ row' = [row EXCEPT !.observedAt = Ago(@), !.conflictAt = Ago(@), !.until = Ago(@)]
      /\ UNCHANGED past
      /\ \A w \in Workers : wk[w].pc # "idle" => wk[w].at > -MaxTick
      /\ \A w \in Workers : wk'[w] = IF wk[w].pc = "idle" THEN wk[w] ELSE [wk[w] EXCEPT !.at = @ - 1]
  BY DEF Pass, Inv, TypeOK, TickRecord, News
<1>2. /\ row'.by = row.by /\ row'.deposit = row.deposit /\ row'.since = row.since
      /\ row'.observedAt = Ago(row.observedAt)
  BY <1>1 DEF Row
<1>3. ASSUME ~past.overtaken, NEW w \in Workers, row.by = w, wk'[w].pc \in {"poll", "write"}
      PROVE  Ago(row.observedAt) <= wk'[w].at
  <2>1. wk[w].pc = wk'[w].pc /\ wk[w].pc # "idle"
    BY <1>1, <1>3 DEF TickRecord
  <2>2. wk'[w].at = wk[w].at - 1 /\ wk[w].at > -MaxTick /\ row.observedAt <= wk[w].at
    BY <1>1, <1>3, <2>1 DEF TickRecord, Disputed, Dated
  <2>3. wk[w].at \in Int /\ row.observedAt \in Int /\ row.observedAt >= Floor
    BY <1>1, InstantTypes DEF TickRecord, Row
  <2> QED BY <2>2, <2>3, InstantTypes DEF Ago
<1>4. Dated'
  BY <1>1, <1>2, <1>3 DEF Dated
<1> QED BY <1>1, <1>2, <1>4 DEF Disputed, Withheld

LEMMA NextDisputed == DepositConstants /\ Inv /\ Disputed /\ [Next]_vars => Disputed'
<1> SUFFICES ASSUME DepositConstants, Inv, Disputed, [Next]_vars PROVE Disputed'
  OBVIOUS
<1>1. row \in Row /\ wk \in [Workers -> TickRecord]
  BY DEF Inv, TypeOK, TickRecord, News
<1>2. ASSUME UNCHANGED <<wk, past>>, row'.by \in {row.by, None}, row'.observedAt = row.observedAt \/ row'.by = None,
             row'.deposit = row.deposit, row'.since = row.since
      PROVE  Disputed'
  BY <1>2 DEF Disputed, Dated, Withheld, DepositConstants
<1>3. CASE Cancel
  <2>1. row'.by = row.by /\ row'.observedAt = row.observedAt /\ row'.deposit = row.deposit
        /\ row'.since = row.since /\ UNCHANGED <<wk, past>>
    BY <1>1, <1>3 DEF Cancel, Withdrawn, Row
  <2> QED BY <1>2, <2>1
<1>4. ASSUME NEW w \in Workers, Release(w) PROVE Disputed'
  <2>1. row'.by = None /\ row'.deposit = row.deposit
        /\ row'.since = row.since /\ UNCHANGED <<wk, past>>
    BY <1>1, <1>4 DEF Release, Row
  <2> QED BY <1>2, <2>1
<1>5. ASSUME NEW w \in Workers, StartTick(w) \/ PollAnswers(w) \/ PollFindsNothing(w)
      PROVE  Disputed'
  <2>1. UNCHANGED <<row, past>>
    BY <1>5 DEF StartTick, PollAnswers, PollFindsNothing
  <2>2. \A v \in Workers \ {w} : wk'[v] = wk[v]
    BY <1>1, <1>5 DEF StartTick, PollAnswers, PollFindsNothing, Done, Decide
  <2>3. wk'[w].pc \in {"poll", "write"} => wk[w].pc = "poll" /\ wk'[w].at = wk[w].at
    <3>1. CASE StartTick(w)
      BY <1>1, <3>1 DEF StartTick, TickRecord
    <3>2. ASSUME wk[w].pc = "poll", NEW to, NEW news, Done(w) \/ Decide(w, to, news)
          PROVE  wk'[w].pc \in {"poll", "write"} => wk[w].pc = "poll" /\ wk'[w].at = wk[w].at
      BY <1>1, <3>2 DEF Done, Decide, Idle, TickRecord
    <3>3. CASE PollAnswers(w) \/ PollFindsNothing(w)
      <4>1. wk[w].pc = "poll" /\ \E to, news : Done(w) \/ Decide(w, to, news)
        BY <3>3 DEF PollAnswers, PollFindsNothing
      <4> QED BY <1>1, <3>2, <4>1
    <3> QED BY <1>5, <3>1, <3>3
  <2> QED BY <2>1, <2>2, <2>3 DEF Disputed, Dated, Withheld
<1>6. CASE Read \/ UNCHANGED vars \/ \E status \in Statuses, said \in Sayings : ProviderStates(status, said)
  <2>1. UNCHANGED <<row, wk, past>>
    BY <1>6 DEF Read, vars, ProviderStates
  <2> QED BY <1>2, <2>1
<1> QED BY <1>3, <1>4, <1>5, <1>6, WriteDisputed, ClaimDisputed, PassDisputed DEF Next, Tick

(* A disagreement with the deposit withholds it for good, unless a replica *)
(* claimed the row in a tick that had started before another one wrote it  *)
(* (mergeDeposit, depositDisclosure).                                      *)
THEOREM DisputesWithhold == Spec => []DisputedIsWithheld
<1>1. Init => Disputed
  BY DEF Init, Idle, Disputed, Dated, Withheld
<1>2. Inv /\ Disputed /\ [Next]_vars => Disputed'
  BY NextDisputed, DepositConstants
<1>3. Disputed => DisputedIsWithheld
  BY DEF Disputed, Withheld, DisputedIsWithheld, Disclosed
<1> QED BY <1>1, <1>2, <1>3, DepositInvariant, PTL DEF Spec
=============================================================================
