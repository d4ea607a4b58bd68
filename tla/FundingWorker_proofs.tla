-------------------------- MODULE FundingWorker_proofs --------------------------
(***************************************************************************)
(* What FundingWorker says of any number of requests and replicas, any     *)
(* window, lease and batch: a write under a lease lands on the row it was  *)
(* computed from, never early, and says of the money what is so; a planned *)
(* shutdown strands no lease.                                              *)
(***************************************************************************)
EXTENDS FundingWorker, FiniteSetTheorems, WellFoundedInduction, TLAPS

RowRecord ==
  [status : Statuses, txn : Transactions, by : Workers \cup {None, Gone},
   until : Int, deadline : Int]

TickRecord ==
  [phase : {"up", "stopping", "releasing", "stopped"}, pc : {"idle", "claim", "scan", "write"},
   now : -MaxTick .. 0, todo : SUBSET Snapshots, claimed : SUBSET Ids, failures : Nat,
   asking : BOOLEAN, next : Verdicts \cup {None}, handback : SUBSET Ids]

HeldOK(h) == DOMAIN h \subseteq Ids /\ \A id \in DOMAIN h : h[id] \in Int

Types ==
  /\ row \in [Ids -> RowRecord]
  /\ page \in [Ids -> Int] /\ window \in [Ids -> Int]
  /\ money \in [Ids -> Transactions]
  /\ wk \in [Workers -> TickRecord]
  /\ held = [w \in Workers |-> held[w]]
  /\ \A w \in Workers : HeldOK(held[w])
  /\ mishaps \in 0 .. MaxMishaps

(* The batch of one tick: what is left of it, and what is being written.   *)
Midway(w) == wk[w].pc \in {"scan", "write"}

BatchOK(w) ==
  /\ {snap.id : snap \in wk[w].todo} \subseteq wk[w].claimed
  /\ Cardinality(wk[w].claimed) <= BatchSize
  /\ wk[w].pc = "write" <=> wk[w].next # None
  /\ wk[w].pc = "write" => wk[w].todo # {}
  /\ ~Midway(w) => wk[w].todo = {} /\ wk[w].claimed = {}
  /\ \A s, t \in wk[w].todo : s.id = t.id => s = t

Batches == \A w \in Workers : BatchOK(w)
-----------------------------------------------------------------------------
(* The operators *)

LEMMA FloorType == Floor \in Int /\ Floor = -(MaxTick + 1) /\ MaxTick \in Nat
  BY WorkerConstants DEF Floor

LEMMA AgoType == ASSUME NEW t \in Int PROVE Ago(t) \in Int
  BY FloorType DEF Ago

LEMMA LeastOf ==
  ASSUME NEW S \in SUBSET Nat, S # {}
  PROVE  \E n \in S : \A m \in S : n <= m
<1>1. PICK n \in S : \A m \in S : ~ (<<m, n>> \in OpToRel(<, Nat))
  BY NatLessThanWellFounded, WFMin
<1>2. ASSUME NEW m \in S, m < n PROVE FALSE
  <2>1. <<m, n>> \in Nat \X Nat /\ <<m, n>>[1] < <<m, n>>[2]
    BY <1>2
  <2>2. <<m, n>> \in OpToRel(<, Nat)
    BY <2>1 DEF OpToRel
  <2> QED BY <1>1, <1>2, <2>2
<1>3. ASSUME NEW m \in S PROVE n <= m
  <2>1. n \in Int /\ m \in Int
    OBVIOUS
  <2> QED BY <1>2, <2>1
<1> QED BY <1>3

LEMMA IdleType ==
  ASSUME NEW phase \in {"up", "stopping", "releasing", "stopped"}
  PROVE  Idle(phase) \in TickRecord
  BY WorkerConstants DEF Idle, TickRecord

LEMMA SnapshotType ==
  ASSUME Types, NEW id \in Ids, row[id].status \in InFlight
  PROVE  Snapshot(id) \in Snapshots
  BY DEF Types, RowRecord, Snapshot, Snapshots

(* The record the loop is at is the oldest of those left. *)
Leads(w, snap) == \A other \in wk[w].todo : snap.id <= other.id

LEMMA HeadLeads ==
  ASSUME Types, NEW w \in Workers, wk[w].todo # {}
  PROVE  Head(w) \in wk[w].todo /\ Leads(w, Head(w))
<1>1. wk[w].todo \subseteq Snapshots
  BY DEF Types, TickRecord
<1> DEFINE ids == {snap.id : snap \in wk[w].todo}
<1>2. ids \in SUBSET Nat /\ ids # {}
  BY <1>1, WorkerConstants DEF Snapshots, Ids
<1>3. PICK least \in ids : \A id \in ids : least <= id
  BY <1>2, LeastOf
<1>4. PICK snap \in wk[w].todo : snap.id = least
  BY <1>3
<1>5. \E snap1 \in wk[w].todo : \A other \in wk[w].todo : snap1.id <= other.id
  BY <1>3, <1>4
<1> QED BY <1>5 DEF Head, Leads

(* A claim takes no more than a batch: of the rows it takes, all but the   *)
(* youngest are older than the youngest.                                   *)
LEMMA OldestFits ==
  ASSUME NEW ids \in SUBSET Ids
  PROVE  /\ Oldest(ids) \subseteq ids
         /\ Cardinality(Oldest(ids)) <= BatchSize
<1> DEFINE batch == Oldest(ids)
           before(id) == {older \in ids : older < id}
<1>1. IsFiniteSet(Ids) /\ ids \subseteq Ids /\ batch \subseteq ids
  BY FS_Interval, WorkerConstants DEF Ids, Oldest
<1>2. IsFiniteSet(batch)
  BY <1>1, FS_Subset
<1>3. CASE batch = {}
  BY <1>3, FS_EmptySet, WorkerConstants
<1>4. CASE batch # {}
  <2>0. \A id \in batch : id \in 1..Rows /\ Rows \in Nat
    BY <1>1, WorkerConstants DEF Ids
  <2> HIDE DEF batch
  <2> DEFINE mirror == {Rows - id : id \in batch}
  <2>1. mirror \in SUBSET Nat /\ mirror # {}
    BY <1>4, <2>0
  <2>2. PICK least \in mirror : \A m \in mirror : least <= m
    BY <2>1, LeastOf
  <2>3. PICK youngest \in batch : \A id \in batch : id <= youngest
    <3>1. PICK id \in batch : least = Rows - id
      BY <2>2
    <3>2. ASSUME NEW other \in batch PROVE other <= id
      <4>1. Rows - id <= Rows - other
        BY <2>2, <3>1
      <4> QED BY <2>0, <3>1, <4>1
    <3> QED BY <3>2
  <2>4. IsFiniteSet(before(youngest)) /\ before(youngest) \in SUBSET ids
    BY <1>1, FS_Subset
  <2>5. Cardinality(before(youngest)) < BatchSize
    BY <2>3 DEF Oldest, batch
  <2>6. batch \ {youngest} \in SUBSET before(youngest)
    <3>1. ASSUME NEW id \in batch \ {youngest} PROVE id \in ids /\ id < youngest
      BY <1>1, <2>0, <2>3
    <3> QED BY <3>1
  <2>7. Cardinality(batch \ {youngest}) <= Cardinality(before(youngest))
    BY <2>4, <2>6, FS_Subset
  <2>8. Cardinality(batch \ {youngest}) = Cardinality(batch) - 1
    BY <1>2, <2>3, FS_RemoveElement
  <2>9. /\ Cardinality(batch) \in Nat /\ Cardinality(before(youngest)) \in Nat
        /\ BatchSize \in Nat
    BY <1>2, <2>4, FS_CardinalityType, WorkerConstants
  <2> HIDE DEF before
  <2>10. Cardinality(batch) <= BatchSize
    BY <2>5, <2>7, <2>8, <2>9
  <2> QED BY <1>1, <2>10 DEF batch
<1> QED BY <1>1, <1>3, <1>4
-----------------------------------------------------------------------------
(* What the loop's steps do to the tick they belong to *)

(* Only the tick of w changes. *)
OnlyTick(w) == \A q \in Workers \ {w} : wk'[q] = wk[q]

LEMMA ProceedEffect ==
  ASSUME Types, NEW w \in Workers, wk[w].todo # {}, Proceed(w) \/ ProceedFailed(w)
  PROVE  /\ wk' \in [Workers -> TickRecord]
         /\ OnlyTick(w)
         /\ wk'[w].phase = wk[w].phase /\ wk'[w].pc = "scan" /\ wk'[w].now = wk[w].now
         /\ wk'[w].todo = wk[w].todo \ {Head(w)} /\ wk'[w].claimed = wk[w].claimed
         /\ wk'[w].next = None /\ wk'[w].handback = wk[w].handback
<1>1. wk[w] \in TickRecord /\ Head(w) \in wk[w].todo
  BY HeadLeads DEF Types
<1> DEFINE left == wk[w].todo \ {Head(w)}
<1>2. left \in SUBSET Snapshots
  BY <1>1 DEF TickRecord
<1>3. CASE Proceed(w)
  BY <1>1, <1>2, <1>3 DEF Proceed, Types, TickRecord, OnlyTick
<1>4. CASE ProceedFailed(w)
  BY <1>1, <1>2, <1>4 DEF ProceedFailed, Types, TickRecord, OnlyTick
<1> QED BY <1>3, <1>4

LEMMA DecideEffect ==
  ASSUME Types, NEW w \in Workers, NEW to \in FUNDING_STATES, NEW txn \in Transactions,
         Decide(w, to, txn)
  PROVE  /\ wk' \in [Workers -> TickRecord]
         /\ OnlyTick(w)
         /\ wk'[w].phase = wk[w].phase /\ wk'[w].pc = "write" /\ wk'[w].now = wk[w].now
         /\ wk'[w].todo = wk[w].todo /\ wk'[w].claimed = wk[w].claimed
         /\ wk'[w].next = [to |-> to, txn |-> txn] /\ wk'[w].handback = wk[w].handback
         /\ wk'[w].next \in Verdicts
<1>1. [to |-> to, txn |-> txn] \in Verdicts
  BY DEF Verdicts
<1> DEFINE tick == [wk[w] EXCEPT !.pc = "write", !.next = [to |-> to, txn |-> txn]]
<1>2. wk \in [Workers -> TickRecord] /\ wk[w] \in TickRecord
  BY DEF Types
<1>3. wk' = [wk EXCEPT ![w] = tick]
  BY <1>2 DEF Decide
<1>4. tick \in TickRecord
  BY <1>1, <1>2 DEF TickRecord
<1>5. /\ tick.phase = wk[w].phase /\ tick.pc = "write" /\ tick.now = wk[w].now
      /\ tick.todo = wk[w].todo /\ tick.claimed = wk[w].claimed
      /\ tick.next = [to |-> to, txn |-> txn] /\ tick.handback = wk[w].handback
  BY <1>2 DEF TickRecord
<1> HIDE DEF tick
<1>6. wk' \in [Workers -> TickRecord] /\ wk'[w] = tick /\ OnlyTick(w)
  BY <1>2, <1>3, <1>4 DEF OnlyTick
<1> QED BY <1>1, <1>5, <1>6

LEMMA SnapshotOf ==
  ASSUME Types, NEW w \in Workers, NEW snap \in wk[w].todo
  PROVE  /\ snap \in Snapshots /\ snap.id \in Ids /\ snap.status \in InFlight
         /\ snap.txn \in Transactions /\ snap.deadline \in Int
         /\ snap.status \in {"created", "session_opened", "transaction_seen"}
  BY DEF Types, TickRecord, Snapshots, InFlight, FUNDING_STATES, TERMINAL_STATES

(* A snapshot grown old is the same but for its deadline. *)
LEMMA LaterKeeps ==
  ASSUME NEW snap \in Snapshots
  PROVE  /\ Later(snap).id = snap.id /\ Later(snap).status = snap.status
         /\ Later(snap).txn = snap.txn /\ Later(snap).deadline = Ago(snap.deadline)
  BY DEF Later, Snapshots

LEMMA TickType == ASSUME Types, NEW w \in Workers PROVE wk[w] \in TickRecord
  BY Zenon DEF Types

(* What the passing of time does to a tick. *)
LEMMA PassEffect ==
  ASSUME Types, Pass, NEW w \in Workers
  PROVE  /\ wk'[w].todo = {Later(snap) : snap \in wk[w].todo}
         /\ wk'[w].pc = wk[w].pc /\ wk'[w].claimed = wk[w].claimed
         /\ wk'[w].next = wk[w].next
<1>1. wk[w] \in TickRecord
  BY TickType
<1>2. PICK now : wk'[w] = [wk[w] EXCEPT !.now = now, !.todo = {Later(snap) : snap \in @}]
  BY Zenon DEF Pass
<1> QED BY <1>1, <1>2 DEF TickRecord

(* What a step of the loop that does not write decides: nothing, a failure *)
(* to report, or an advance.                                               *)
Advances == {"transaction_seen", "settled", "failed", "expired", "unobserved"}

Asks(w) == AdvanceUnasked(w) \/ FinderThrows(w) \/ FinderAnswers(w)

LEMMA AskEffect ==
  ASSUME Types, NEW w \in Workers, Asks(w)
  PROVE  /\ wk[w].pc = "scan" /\ wk[w].todo # {} /\ Head(w) \in wk[w].todo
         /\ UNCHANGED <<row, page, window, money, held, mishaps>>
         /\ \/ Proceed(w) \/ ProceedFailed(w)
            \/ \E to \in Advances, txn \in Transactions :
                 /\ Decide(w, to, txn)
                 /\ Head(w).status = "created" \/ to \in {"expired", "unobserved"} =>
                      Aged(w, Head(w))
                 /\ to = "transaction_seen" =>
                      Head(w).status = to \/ money[Head(w).id] # "none"
                 /\ to \in {"settled", "failed"} => money[Head(w).id] = to
                 /\ to = "expired" =>
                      Head(w).status = "session_opened" /\ money[Head(w).id] = "none"
<1>1. wk[w].pc = "scan" /\ wk[w].todo # {} /\ UNCHANGED <<row, page, window, money, held, mishaps>>
  BY DEF Asks, AdvanceUnasked, FinderThrows, FinderAnswers, Scanning
<1>2. PICK snap \in wk[w].todo : snap = Head(w)
  BY <1>1, HeadLeads
<1>3. snap.txn \in Transactions /\ money[snap.id] \in Transactions
      /\ snap.status \in {"created", "session_opened", "transaction_seen"}
  BY SnapshotOf DEF Types
<1>4. CASE AdvanceUnasked(w)
  BY <1>1, <1>2, <1>3, <1>4 DEF AdvanceUnasked, Advances
<1>5. CASE FinderThrows(w)
  BY <1>1, <1>2, <1>3, <1>5 DEF FinderThrows, AsksRail, Advances
<1>6. CASE FinderAnswers(w)
  <2>1. CASE snap.status = "session_opened"
    BY <1>1, <1>2, <1>3, <1>6, <2>1 DEF FinderAnswers, Advances, Transactions
  <2>2. CASE snap.status = "transaction_seen"
    BY <1>1, <1>2, <1>3, <1>6, <2>2 DEF FinderAnswers, Mapped, Advances
  <2>3. snap.status # "created"
    BY <1>2, <1>6 DEF FinderAnswers, AsksRail
  <2> QED BY <1>3, <2>1, <2>2, <2>3
<1> QED BY <1>1, <1>2, <1>4, <1>5, <1>6 DEF Asks
-----------------------------------------------------------------------------
(* Type correctness *)

LEMMA InitTypes == Init => Types /\ Batches
<1> SUFFICES ASSUME Init PROVE Types /\ Batches
  OBVIOUS
<1>1. NoRow \in RowRecord
  BY FloorType DEF NoRow, RowRecord, Statuses, Transactions
<1>2. Idle("up") \in TickRecord
  BY IdleType
<1>3. Types
  <2>1. row \in [Ids -> RowRecord] /\ wk \in [Workers -> TickRecord]
    BY <1>1, <1>2 DEF Init
  <2>2. page \in [Ids -> Int] /\ window \in [Ids -> Int]
    <3>1. -1 \in Int /\ -2 \in Int
      OBVIOUS
    <3> QED BY <3>1 DEF Init, NoPage
  <2> QED BY <2>1, <2>2, WorkerConstants DEF Init, Types, HeldOK, NoneHeld, Transactions
<1>4. ASSUME NEW w \in Workers PROVE BatchOK(w)
  <2>1. /\ wk[w].pc = "idle" /\ wk[w].todo = {} /\ wk[w].claimed = {} /\ wk[w].next = None
    BY <1>4 DEF Init, Idle
  <2>2. Cardinality({}) <= BatchSize
    BY FS_EmptySet, WorkerConstants
  <2> QED BY <2>1, <2>2 DEF BatchOK, Midway
<1> QED BY <1>3, <1>4 DEF Batches

LEMMA AdvancedType ==
  ASSUME Types, NEW w \in Workers, NEW id \in Ids, NEW next \in Verdicts
  PROVE  /\ Advanced(w, id, next) \in [Ids -> RowRecord]
         /\ \A other \in Ids \ {id} : Advanced(w, id, next)[other] = row[other]
         /\ Advanced(w, id, next)[id].status = next.to
         /\ Advanced(w, id, next)[id].txn = next.txn
         /\ Advanced(w, id, next)[id].by = row[id].by
         /\ Advanced(w, id, next)[id].until = row[id].until
<1> DEFINE deadline == IF next.to = "transaction_seen" /\ row[id].status # next.to
                       THEN wk[w].now + MaxAge ELSE row[id].deadline
           new == [row[id] EXCEPT !.status = next.to, !.txn = next.txn, !.deadline = deadline]
<1>1. next.to \in Statuses /\ next.txn \in Transactions
  BY DEF Verdicts, Statuses
<1>2. deadline \in Int
  BY WorkerConstants DEF Types, TickRecord, RowRecord
<1>3. row[id] \in RowRecord
  BY DEF Types
<1>4. new \in RowRecord /\ new.status = next.to /\ new.txn = next.txn
      /\ new.by = row[id].by /\ new.until = row[id].until
  BY <1>1, <1>2, <1>3 DEF RowRecord
<1>5. Advanced(w, id, next) = [row EXCEPT ![id] = new]
  BY <1>3 DEF Advanced, Types, RowRecord
<1> QED BY <1>4, <1>5 DEF Types

LEMMA LeasedType ==
  ASSUME Types, NEW w \in Workers, NEW ids \in SUBSET Ids, NEW until \in Int
  PROVE  Leased(ids, w, until) \in [Ids -> RowRecord]
  BY DEF Types, Leased, RowRecord

LEMMA ReleasedType ==
  ASSUME Types, NEW w \in Workers, NEW ids \in SUBSET Ids
  PROVE  Released(ids, w) \in [Ids -> RowRecord]
  BY FloorType DEF Types, Released, RowRecord

LEMMA ServiceTypes ==
  ASSUME Types, NEW id \in Ids, Service(id)
  PROVE  Types'
<1> USE WorkerConstants
<1>1. CASE Submit(id)
  <2> DEFINE new == [row[id] EXCEPT !.status = "created", !.deadline = MaxAge]
  <2>0. row[id] \in RowRecord /\ "created" \in Statuses /\ MaxAge \in Int
    BY DEF Types, Statuses, FUNDING_STATES
  <2>1. new \in RowRecord
    BY <2>0 DEF RowRecord
  <2>2. row' = [row EXCEPT ![id] = new]
    BY <1>1 DEF Submit
  <2>3. row' \in [Ids -> RowRecord]
    BY <2>1, <2>2 DEF Types
  <2> QED BY <1>1, <2>3 DEF Submit, Types, HeldOK
<1>2. CASE OnrampRecords(id)
  <2>0. /\ row \in [Ids -> RowRecord] /\ row[id] \in RowRecord
        /\ {"session_opened", "refused", "unobserved"} \subseteq Statuses
    BY DEF Types, Statuses, FUNDING_STATES
  <2>1. row' \in [Ids -> RowRecord]
    <3>1. CASE \E to \in {"refused", "unobserved"} : row' = [row EXCEPT ![id].status = to]
      <4>1. PICK to \in Statuses : row' = [row EXCEPT ![id] = [row[id] EXCEPT !.status = to]]
        BY <2>0, <3>1
      <4>2. [row[id] EXCEPT !.status = to] \in RowRecord
        BY <2>0 DEF RowRecord
      <4> QED BY <2>0, <4>1, <4>2
    <3>2. ASSUME NEW e \in Expiries,
                 row' = [row EXCEPT ![id].status = "session_opened",
                                    ![id].deadline = DeadlineFor(e, @)]
          PROVE  <2>1
      <4> DEFINE later == DeadlineFor(e, row[id].deadline)
                 new == [row[id] EXCEPT !.status = "session_opened", !.deadline = later]
      <4>1. row[id].deadline \in Int /\ e \in Int
        BY <2>0 DEF RowRecord
      <4>2. new \in RowRecord /\ row' = [row EXCEPT ![id] = new]
        BY <2>0, <3>2, <4>1 DEF RowRecord, DeadlineFor
      <4> HIDE DEF new
      <4> QED BY <2>0, <4>2
    <3> QED BY <1>2, <3>1, <3>2 DEF OnrampRecords
  <2>2. page' \in [Ids -> Int]
    BY <1>2 DEF OnrampRecords, Types
  <2> QED BY <1>2, <2>1, <2>2 DEF OnrampRecords, Types, HeldOK
<1>3. CASE Pay(id)
  BY <1>3 DEF Pay, Types, HeldOK, Transactions
<1>4. CASE PaymentMoves(id)
  BY <1>4 DEF PaymentMoves, Types, HeldOK, Transactions
<1> QED BY <1>1, <1>2, <1>3, <1>4 DEF Service

LEMMA PassTypes ==
  ASSUME Types, Pass
  PROVE  Types'
<1>1. row' \in [Ids -> RowRecord]
  BY AgoType DEF Pass, Types, RowRecord
<1>2. page' \in [Ids -> Int] /\ window' \in [Ids -> Int]
  <2>1. \A t \in Int : Sooner(t) \in Int
    BY DEF Sooner
  <2>2. \A id \in Ids : page[id] \in Int /\ window[id] \in Int
    BY DEF Types
  <2>3. /\ page' = [id \in Ids |-> Sooner(page[id])]
        /\ window' = [id \in Ids |-> Sooner(window[id])]
    BY DEF Pass
  <2> QED BY <2>1, <2>2, <2>3
<1>3. wk' \in [Workers -> TickRecord]
  <2> SUFFICES ASSUME NEW w \in Workers PROVE wk'[w] \in TickRecord
    BY DEF Pass
  <2> DEFINE now == IF wk[w].pc = "idle" THEN 0 ELSE wk[w].now - 1
             todo == {Later(snap) : snap \in wk[w].todo}
  <2>1. now \in -MaxTick .. 0
    <3>1. wk[w].pc # "idle" => wk[w].now > -MaxTick
      BY DEF Pass
    <3>2. wk[w].now \in -MaxTick .. 0 /\ MaxTick \in Nat
      BY FloorType DEF Types, TickRecord
    <3> QED BY <3>1, <3>2
  <2>2. todo \in SUBSET Snapshots
    <3>1. ASSUME NEW snap \in Snapshots PROVE Later(snap) \in Snapshots
      BY AgoType DEF Later, Snapshots
    <3> QED BY <3>1, TickType DEF TickRecord
  <2>3. wk'[w] = [wk[w] EXCEPT !.now = now, !.todo = todo]
    BY DEF Pass
  <2> HIDE DEF now, todo
  <2> QED BY <2>1, <2>2, <2>3, TickType DEF TickRecord
<1>4. held' = [w \in Workers |-> held'[w]] /\ \A w \in Workers : HeldOK(held'[w])
  BY AgoType DEF Pass, Types, HeldOK
<1> QED BY <1>1, <1>2, <1>3, <1>4 DEF Pass, Types

(* A tick that ends leaves nothing of its batch. *)
LEMMA EndedBatch ==
  ASSUME NEW w \in Workers, wk'[w].pc \in {"idle", "claim"}, wk'[w].todo = {},
         wk'[w].claimed = {}, wk'[w].next = None
  PROVE  BatchOK(w)'
<1>1. Cardinality({}) <= BatchSize
  BY FS_EmptySet, WorkerConstants
<1> QED BY <1>1 DEF BatchOK, Midway

LEMMA OtherBatches ==
  ASSUME Batches, NEW w \in Workers, OnlyTick(w), BatchOK(w)'
  PROVE  Batches'
  BY DEF Batches, BatchOK, Midway, OnlyTick

LEMMA ProceedBatch ==
  ASSUME Types, Batches, NEW w \in Workers, wk[w].todo # {}, Midway(w),
         Proceed(w) \/ ProceedFailed(w)
  PROVE  Batches'
<1>1. BatchOK(w)'
  BY ProceedEffect DEF Batches, BatchOK, Midway
<1> QED BY <1>1, ProceedEffect, OtherBatches

LEMMA AskTypes ==
  ASSUME Types, Batches, NEW w \in Workers, Asks(w)
  PROVE  Types' /\ Batches'
<1>1. UNCHANGED <<row, page, window, money, held, mishaps>> /\ Midway(w) /\ wk[w].todo # {}
  BY AskEffect DEF Midway
<1>2. CASE Proceed(w) \/ ProceedFailed(w)
  BY <1>1, <1>2, ProceedEffect, ProceedBatch DEF Types, HeldOK
<1>3. ASSUME NEW to \in Advances, NEW txn \in Transactions, Decide(w, to, txn)
      PROVE  Types' /\ Batches'
  <2>1. to \in FUNDING_STATES
    BY DEF Advances, FUNDING_STATES
  <2>2. Types'
    BY <1>1, <1>3, <2>1, DecideEffect DEF Types, HeldOK
  <2>3. /\ OnlyTick(w)
        /\ wk'[w].pc = "write" /\ wk'[w].todo = wk[w].todo /\ wk'[w].claimed = wk[w].claimed
        /\ wk'[w].next \in Verdicts
    BY <1>3, <2>1, DecideEffect
  <2>4. wk'[w].next # None
    BY <2>3, WorkerConstants
  <2>5. BatchOK(w)'
    BY <1>1, <2>3, <2>4 DEF Batches, BatchOK, Midway
  <2> QED BY <2>2, <2>3, <2>5, OtherBatches
<1> QED BY <1>2, <1>3, AskEffect

(* A write, as far as the row goes: nothing, or the advance decided. *)
Writes(w) == Write(w) \/ WriteThrows(w) \/ WriteFaults(w)

LEMMA WriteEffect ==
  ASSUME Types, Batches, NEW w \in Workers, Writes(w)
  PROVE  /\ wk[w].pc = "write" /\ wk[w].todo # {} /\ Head(w) \in wk[w].todo
         /\ Leads(w, Head(w)) /\ Head(w).id \in Ids /\ wk[w].next \in Verdicts
         /\ Proceed(w) \/ ProceedFailed(w)
         /\ UNCHANGED <<page, window, money, held>>
         /\ mishaps' \in 0 .. MaxMishaps /\ mishaps' >= mishaps
         /\ \/ UNCHANGED row
            \/ /\ row[Head(w).id].by = w /\ row[Head(w).id].status # "pruned"
               /\ Mergeable(Head(w).id, wk[w].next)
               /\ row' = Advanced(w, Head(w).id, wk[w].next)
<1>1. wk[w].pc = "write"
  BY DEF Writes, Write, WriteThrows, WriteFaults, Writing
<1>2. wk[w].todo # {} /\ wk[w].next \in Verdicts
  BY <1>1 DEF Batches, BatchOK, Types, TickRecord
<1>3. Head(w) \in wk[w].todo /\ Leads(w, Head(w)) /\ Head(w).id \in Ids
  BY <1>2, HeadLeads, SnapshotOf
<1>4. mishaps' \in 0 .. MaxMishaps /\ mishaps' >= mishaps
  BY WorkerConstants DEF Writes, Write, WriteThrows, WriteFaults, Mishap, Types
<1>5. ASSUME Mergeable(Head(w).id, wk[w].next) PROVE row[Head(w).id].status # "pruned"
  BY <1>5 DEF Mergeable, CanMove, TRANSITIONS, InFlight, FUNDING_STATES, TERMINAL_STATES
<1> QED BY <1>1, <1>2, <1>3, <1>4, <1>5 DEF Writes, Write, WriteThrows, WriteFaults

LEMMA WriteTypes ==
  ASSUME Types, Batches, NEW w \in Workers, Writes(w)
  PROVE  Types' /\ Batches'
<1>1. row' \in [Ids -> RowRecord]
  BY WriteEffect, AdvancedType DEF Types
<1>2. Batches'
  BY WriteEffect, ProceedBatch DEF Midway
<1>3. wk' \in [Workers -> TickRecord]
  BY WriteEffect, ProceedEffect
<1> QED BY <1>1, <1>2, <1>3, WriteEffect DEF Types, HeldOK

(* The steps that leave a tick with nothing to do. *)
Ends(w) == ClaimFaults(w) \/ KeepBatch(w) \/ ReleaseBatch(w) \/ ReleaseFaults(w)

Resets(w) ==
  /\ OnlyTick(w)
  /\ wk'[w].pc = "idle" /\ wk'[w].now = 0 /\ wk'[w].todo = {} /\ wk'[w].claimed = {}
  /\ wk'[w].next = None

LEMMA EndEffect ==
  ASSUME Types, Batches, NEW w \in Workers, Ends(w)
  PROVE  /\ wk' \in [Workers -> TickRecord]
         /\ Resets(w)
         /\ wk'[w].phase = wk[w].phase
<1>1. wk[w].phase \in {"up", "stopping", "releasing", "stopped"} /\ wk[w].handback \in SUBSET Ids
  BY DEF Types, TickRecord
<1>2. CASE ClaimFaults(w)
  <2>1. wk' = [wk EXCEPT ![w] = Idle(wk[w].phase)]
    BY <1>2 DEF ClaimFaults
  <2> QED BY <1>1, <2>1, IdleType DEF Types, Resets, OnlyTick, Idle
<1>3. CASE KeepBatch(w) \/ ReleaseBatch(w) \/ ReleaseFaults(w)
  <2> DEFINE new == [Idle(wk[w].phase) EXCEPT !.handback = wk[w].handback]
  <2>1. wk' = [wk EXCEPT ![w] = new]
    BY <1>3 DEF KeepBatch, ReleaseBatch, ReleaseFaults
  <2>2. new \in TickRecord /\ new.pc = "idle" /\ new.now = 0 /\ new.todo = {} /\ new.claimed = {}
        /\ new.next = None /\ new.phase = wk[w].phase
    BY <1>1, IdleType DEF Idle, TickRecord
  <2> QED BY <2>1, <2>2 DEF Types, Resets, OnlyTick
<1> QED BY <1>2, <1>3 DEF Ends

LEMMA WithoutOK ==
  ASSUME NEW h, HeldOK(h), NEW ids PROVE HeldOK(Without(h, ids))
  BY DEF HeldOK, Without

(* One entry of `held' replaced by a good one. *)
LEMMA HeldReplaced ==
  ASSUME Types, NEW w \in Workers, NEW h, HeldOK(h), held' = [held EXCEPT ![w] = h]
  PROVE  held' = [q \in Workers |-> held'[q]] /\ \A q \in Workers : HeldOK(held'[q])
  BY DEF Types

LEMMA EndTypes ==
  ASSUME Types, Batches, NEW w \in Workers, Ends(w)
  PROVE  Types' /\ Batches'
<1>1. wk[w] \in TickRecord /\ HeldOK(held[w])
  BY DEF Types
<1>2. row' \in [Ids -> RowRecord]
  <2>1. Oldest(Claimable(wk[w].now)) \in SUBSET Ids
    BY DEF Oldest, Claimable
  <2>2. wk[w].now + TTL \in Int /\ wk[w].claimed \in SUBSET Ids
    BY <1>1, WorkerConstants DEF TickRecord
  <2>3. \/ row' = row
        \/ row' = Leased(Oldest(Claimable(wk[w].now)), w, wk[w].now + TTL)
        \/ row' = Released(wk[w].claimed, w)
    BY DEF Ends, ClaimFaults, KeepBatch, ReleaseBatch, ReleaseFaults
  <2>4. Leased(Oldest(Claimable(wk[w].now)), w, wk[w].now + TTL) \in [Ids -> RowRecord]
    BY <2>1, <2>2, LeasedType
  <2>5. Released(wk[w].claimed, w) \in [Ids -> RowRecord]
    BY <2>2, ReleasedType
  <2> QED BY <2>3, <2>4, <2>5 DEF Types
<1>3. held' = [q \in Workers |-> held'[q]] /\ \A q \in Workers : HeldOK(held'[q])
  <2>1. CASE ClaimFaults(w) \/ ReleaseBatch(w)
    BY <1>1, <2>1, WithoutOK, HeldReplaced DEF ClaimFaults, ReleaseBatch
  <2>2. CASE KeepBatch(w)
    <3> DEFINE kept == [id \in DOMAIN held[w] \cup wk[w].claimed |->
                          IF id \in wk[w].claimed THEN wk[w].now + TTL ELSE held[w][id]]
    <3>1. HeldOK(kept)
      BY <1>1, WorkerConstants DEF HeldOK, TickRecord
    <3>2. held' = [held EXCEPT ![w] = kept]
      BY <2>2 DEF KeepBatch
    <3> HIDE DEF kept
    <3> QED BY <3>1, <3>2, HeldReplaced
  <2>3. CASE ReleaseFaults(w)
    BY <2>3 DEF ReleaseFaults, Types, HeldOK
  <2> QED BY <2>1, <2>2, <2>3 DEF Ends
<1>4. mishaps' \in 0 .. MaxMishaps
  BY WorkerConstants DEF Ends, ClaimFaults, KeepBatch, ReleaseBatch, ReleaseFaults, Mishap, Types
<1>5. page' = page /\ window' = window /\ money' = money
  BY DEF Ends, ClaimFaults, KeepBatch, ReleaseBatch, ReleaseFaults
<1>6. Batches'
  BY EndEffect, EndedBatch, OtherBatches DEF Resets
<1> QED BY <1>2, <1>3, <1>4, <1>5, <1>6, EndEffect DEF Types

LEMMA ReplacedEffect ==
  ASSUME Types, NEW w \in Workers, Replaced(w)
  PROVE  /\ wk' \in [Workers -> TickRecord]
         /\ Resets(w)
         /\ wk'[w].phase = "up" /\ wk'[w].handback = {}
         /\ row' \in [Ids -> RowRecord]
         /\ held' = [held EXCEPT ![w] = NoneHeld]
         /\ UNCHANGED <<page, window, money>>
<1>1. Idle("up") \in TickRecord
  BY IdleType
<1>2. wk' = [wk EXCEPT ![w] = Idle("up")]
  BY DEF Replaced
<1>3. row' \in [Ids -> RowRecord]
  BY DEF Replaced, Types, RowRecord
<1> QED BY <1>1, <1>2, <1>3 DEF Replaced, Types, Resets, OnlyTick, Idle

LEMMA NoneHeldOK == HeldOK(NoneHeld)
  BY DEF HeldOK, NoneHeld

LEMMA ReplacedTypes ==
  ASSUME Types, Batches, NEW w \in Workers, Restart(w) \/ Crash(w)
  PROVE  Types' /\ Batches'
<1>1. Replaced(w) /\ mishaps' \in 0 .. MaxMishaps
  BY WorkerConstants DEF Restart, Crash, Mishap, Types
<1>2. held' = [q \in Workers |-> held'[q]] /\ \A q \in Workers : HeldOK(held'[q])
  BY <1>1, ReplacedEffect, NoneHeldOK, HeldReplaced
<1>3. Batches'
  BY <1>1, ReplacedEffect, EndedBatch, OtherBatches DEF Resets
<1> QED BY <1>1, <1>2, <1>3, ReplacedEffect DEF Types

(* stop(): the tick in flight goes on, whatever phase the process is in.   *)
SameTick(q) ==
  /\ wk'[q].pc = wk[q].pc /\ wk'[q].now = wk[q].now /\ wk'[q].todo = wk[q].todo
  /\ wk'[q].claimed = wk[q].claimed /\ wk'[q].next = wk[q].next

Stops(w) == Stop(w) \/ StopCollects(w) \/ StopReleases(w)

LEMMA StopEffect ==
  ASSUME Types, NEW w \in Workers, Stops(w)
  PROVE  wk' \in [Workers -> TickRecord] /\ OnlyTick(w) /\ \A q \in Workers : SameTick(q)
<1>1. wk[w] \in TickRecord /\ DOMAIN held[w] \in SUBSET Ids
  <2>1. HeldOK(held[w])
    BY ZenonT(60) DEF Types
  <2> QED BY <2>1, TickType DEF HeldOK
<1>2. PICK phase \in {"stopping", "releasing", "stopped"}, handback \in SUBSET Ids :
        wk' = [wk EXCEPT ![w] = [wk[w] EXCEPT !.phase = phase, !.handback = handback]]
  <2>1. CASE Stop(w)
    <3>1. wk' = [wk EXCEPT ![w] = [wk[w] EXCEPT !.phase = "stopping",
                                                !.handback = wk[w].handback]]
      BY <1>1, <2>1 DEF Stop, TickRecord
    <3> QED BY <1>1, <3>1 DEF TickRecord
  <2>2. CASE StopCollects(w)
    BY <1>1, <2>2 DEF StopCollects
  <2>3. CASE StopReleases(w)
    BY <2>3 DEF StopReleases
  <2> QED BY <2>1, <2>2, <2>3 DEF Stops
<1>3. /\ [wk[w] EXCEPT !.phase = phase, !.handback = handback] \in TickRecord
      /\ wk'[w] = [wk[w] EXCEPT !.phase = phase, !.handback = handback]
  BY <1>1, <1>2 DEF TickRecord, Types
<1>4. wk' \in [Workers -> TickRecord] /\ \A q \in Workers \ {w} : wk'[q] = wk[q]
  BY <1>2, <1>3 DEF Types
<1>5. SameTick(w)
  BY <1>1, <1>3 DEF TickRecord, SameTick
<1> QED BY <1>4, <1>5 DEF OnlyTick, SameTick

LEMMA StopTypes ==
  ASSUME Types, Batches, NEW w \in Workers, Stops(w)
  PROVE  Types' /\ Batches'
<1>1. row' \in [Ids -> RowRecord]
  <2>1. wk[w].handback \in SUBSET Ids
    BY DEF Types, TickRecord
  <2>2. row' = row \/ row' = Released(wk[w].handback, w)
    BY DEF Stops, Stop, StopCollects, StopReleases
  <2> QED BY <2>1, <2>2, ReleasedType DEF Types
<1>2. held' = [q \in Workers |-> held'[q]] /\ \A q \in Workers : HeldOK(held'[q])
  <2>1. held' = held \/ held' = [held EXCEPT ![w] = NoneHeld]
    BY DEF Stops, Stop, StopCollects, StopReleases
  <2> QED BY <2>1, NoneHeldOK, HeldReplaced DEF Types
<1>3. mishaps' \in 0 .. MaxMishaps /\ page' = page /\ window' = window /\ money' = money
  BY WorkerConstants DEF Stops, Stop, StopCollects, StopReleases, Mishap, Types
<1>4. Batches'
  BY StopEffect DEF SameTick, Batches, BatchOK, Midway
<1> QED BY <1>1, <1>2, <1>3, <1>4, StopEffect DEF Types

(* What pruneRefusals may do to a row. *)
Swept(id) ==
  \/ row'[id] = row[id]
  \/ row[id].status = "refused" /\ row'[id] = [row[id] EXCEPT !.status = "pruned"]

LEMMA StartEffect ==
  ASSUME Types, NEW w \in Workers, StartTick(w)
  PROVE  /\ wk' \in [Workers -> TickRecord] /\ OnlyTick(w)
         /\ wk[w].pc = "idle" /\ wk'[w].pc = "claim"
         /\ wk'[w].phase = wk[w].phase /\ wk'[w].now = wk[w].now /\ wk'[w].todo = wk[w].todo
         /\ wk'[w].claimed = wk[w].claimed /\ wk'[w].next = wk[w].next
         /\ wk'[w].handback = wk[w].handback
         /\ UNCHANGED <<page, window, money, held, mishaps>>
         /\ row' \in [Ids -> RowRecord] /\ \A id \in Ids : Swept(id)
<1>1. wk' = [wk EXCEPT ![w].pc = "claim"] /\ wk[w].pc = "idle"
      /\ UNCHANGED <<page, window, money, held, mishaps>>
  BY DEF StartTick
<1>2. wk[w] \in TickRecord
  BY DEF Types
<1> DEFINE new == [wk[w] EXCEPT !.pc = "claim"]
<1>3. /\ new \in TickRecord /\ new.pc = "claim" /\ new.phase = wk[w].phase /\ new.now = wk[w].now
      /\ new.todo = wk[w].todo /\ new.claimed = wk[w].claimed /\ new.next = wk[w].next
      /\ new.handback = wk[w].handback
  BY <1>2 DEF TickRecord
<1>4. wk' = [wk EXCEPT ![w] = new]
  BY <1>1, <1>2 DEF Types, TickRecord
<1> HIDE DEF new
<1>5. wk'[w] = new /\ wk' \in [Workers -> TickRecord] /\ OnlyTick(w)
  BY <1>3, <1>4 DEF Types, OnlyTick
<1>6. row' \in [Ids -> RowRecord] /\ \A id \in Ids : Swept(id)
  <2>1. CASE UNCHANGED row
    BY <2>1 DEF Types, Swept
  <2>2. ASSUME NEW ids \in SUBSET {id \in Ids : row[id].status = "refused"},
               row' = [id \in Ids |-> IF id \in ids THEN [row[id] EXCEPT !.status = "pruned"]
                                                    ELSE row[id]]
        PROVE  row' \in [Ids -> RowRecord] /\ \A id \in Ids : Swept(id)
    BY <2>2 DEF Types, RowRecord, Statuses, Swept
  <2> QED BY <2>1, <2>2 DEF StartTick
<1> QED BY <1>1, <1>3, <1>5, <1>6

LEMMA StartTypes ==
  ASSUME Types, Batches, NEW w \in Workers, StartTick(w)
  PROVE  Types' /\ Batches'
<1>1. wk'[w].pc = "claim" /\ wk'[w].todo = {} /\ wk'[w].claimed = {} /\ wk'[w].next = None
  BY StartEffect DEF Batches, BatchOK, Midway
<1>2. Batches'
  BY <1>1, StartEffect, EndedBatch, OtherBatches
<1> QED BY <1>2, StartEffect DEF Types, HeldOK

LEMMA ClaimEffect ==
  ASSUME Types, NEW w \in Workers, Claim(w)
  PROVE  LET now == wk[w].now
             ids == Oldest(Claimable(now))
         IN /\ ids \subseteq Claimable(now) /\ ids \subseteq Ids /\ Cardinality(ids) <= BatchSize
            /\ wk[w].pc = "claim"
            /\ wk' \in [Workers -> TickRecord] /\ OnlyTick(w)
            /\ wk'[w].phase = wk[w].phase /\ wk'[w].pc = "scan" /\ wk'[w].now = now
            /\ wk'[w].claimed = ids /\ wk'[w].todo = {Snapshot(id) : id \in ids}
            /\ wk'[w].next = wk[w].next /\ wk'[w].handback = wk[w].handback
            /\ held' = [held EXCEPT ![w] = Without(held[w], Expired(w, now))]
            /\ row' = Leased(ids, w, now + TTL)
            /\ UNCHANGED <<page, window, money, mishaps>>
<1> DEFINE now == wk[w].now
           ids == Oldest(Claimable(now))
           batch == {Snapshot(id) : id \in ids}
<1>1. Claimable(now) \in SUBSET Ids
  BY DEF Claimable
<1>2. ids \subseteq Claimable(now) /\ Cardinality(ids) <= BatchSize
  BY <1>1, OldestFits
<1>3. batch \in SUBSET Snapshots
  BY <1>1, <1>2, SnapshotType DEF Claimable
<1>4. /\ wk' = [wk EXCEPT ![w].pc = "scan", ![w].claimed = ids, ![w].todo = batch]
      /\ wk[w].pc = "claim"
      /\ held' = [held EXCEPT ![w] = Without(held[w], Expired(w, now))]
      /\ row' = Leased(ids, w, now + TTL)
      /\ UNCHANGED <<page, window, money, mishaps>>
  BY DEF Claim
<1>5. ids \in SUBSET Ids
  BY <1>1, <1>2
<1> HIDE DEF ids, batch
<1>6. /\ wk' \in [Workers -> TickRecord] /\ OnlyTick(w)
      /\ wk'[w].phase = wk[w].phase /\ wk'[w].pc = "scan" /\ wk'[w].now = now
      /\ wk'[w].claimed = ids /\ wk'[w].todo = batch
      /\ wk'[w].next = wk[w].next /\ wk'[w].handback = wk[w].handback
  <2> DEFINE new == [wk[w] EXCEPT !.pc = "scan", !.claimed = ids, !.todo = batch]
  <2>1. wk[w] \in TickRecord
    BY DEF Types
  <2>2. /\ new \in TickRecord /\ new.phase = wk[w].phase /\ new.pc = "scan" /\ new.now = now
        /\ new.claimed = ids /\ new.todo = batch
        /\ new.next = wk[w].next /\ new.handback = wk[w].handback
    BY <1>3, <1>5, <2>1 DEF TickRecord
  <2>3. wk' = [wk EXCEPT ![w] = new]
    BY <1>4, <2>1 DEF Types, TickRecord
  <2> HIDE DEF new
  <2> QED BY <2>2, <2>3 DEF Types, OnlyTick
<1> QED BY <1>2, <1>4, <1>5, <1>6 DEF ids, batch

LEMMA ClaimTypes ==
  ASSUME Types, Batches, NEW w \in Workers, Claim(w)
  PROVE  Types' /\ Batches'
<1> DEFINE ids == Oldest(Claimable(wk[w].now))
<1>1. wk[w].now + TTL \in Int /\ HeldOK(held[w])
  BY WorkerConstants DEF Types, TickRecord
<1>2. row' \in [Ids -> RowRecord]
  <2>1. ids \in SUBSET Ids /\ row' = Leased(ids, w, wk[w].now + TTL)
    BY ClaimEffect
  <2> HIDE DEF ids
  <2> QED BY <1>1, <2>1, LeasedType
<1>3. held' = [q \in Workers |-> held'[q]] /\ \A q \in Workers : HeldOK(held'[q])
  BY <1>1, ClaimEffect, WithoutOK, HeldReplaced
<1>4. wk[w].next = None
  BY ClaimEffect DEF Batches, BatchOK
<1>5. BatchOK(w)'
  <2>1. /\ wk'[w].todo = {Snapshot(id) : id \in ids} /\ wk'[w].claimed = ids
        /\ wk'[w].pc = "scan" /\ wk'[w].next = None /\ Cardinality(ids) <= BatchSize
    BY <1>4, ClaimEffect
  <2> HIDE DEF ids
  <2>2. {snap.id : snap \in wk'[w].todo} \subseteq ids
    BY <2>1 DEF Snapshot
  <2>3. \A s, t \in wk'[w].todo : s.id = t.id => s = t
    BY <2>1 DEF Snapshot
  <2> QED BY <2>1, <2>2, <2>3 DEF BatchOK, Midway
<1>6. Batches'
  BY <1>5, ClaimEffect, OtherBatches
<1> QED BY <1>2, <1>3, <1>6, ClaimEffect DEF Types

LEMMA PassBatches ==
  ASSUME Types, Batches, Pass
  PROVE  Batches'
<1> SUFFICES ASSUME NEW w \in Workers, BatchOK(w) PROVE BatchOK(w)'
  BY DEF Batches
<1>1. \A snap \in wk[w].todo : Later(snap).id = snap.id
  BY SnapshotOf, LaterKeeps
<1> QED BY <1>1, PassEffect DEF BatchOK, Midway

LEMMA StepTypes == Types /\ Batches /\ [Next]_vars => Types' /\ Batches'
<1>1. Types /\ Batches /\ UNCHANGED vars => Types' /\ Batches'
  BY DEF vars, Types, HeldOK, Batches, BatchOK, Midway
<1>2. ASSUME Types, Batches, NEW id \in Ids, Service(id)
      PROVE  Types' /\ Batches'
  <2>1. wk' = wk
    BY <1>2 DEF Service, Submit, OnrampRecords, Pay, PaymentMoves
  <2> QED BY <1>2, <2>1, ServiceTypes DEF Batches, BatchOK, Midway
<1>3. ASSUME Types, Batches, NEW w \in Workers, Tick(w) \/ Shutdown(w) \/ Mishaps(w)
      PROVE  Types' /\ Batches'
  BY <1>3, AskTypes, WriteTypes, EndTypes, ReplacedTypes, StopTypes, StartTypes, ClaimTypes
  DEF Tick, Shutdown, Mishaps, Asks, Writes, Ends, Stops
<1> QED BY <1>1, <1>2, <1>3, PassTypes, PassBatches DEF Next

LEMMA TypesHold == Spec => [](Types /\ Batches)
  BY InitTypes, StepTypes, PTL DEF Spec

(* Every variable keeps its type, a tick's batch is never larger than the  *)
(* configured one, and a tick that writes has something to write.          *)
THEOREM TypeCorrect == Spec => []TypeOK
<1>1. Types /\ Batches => TypeOK
  BY DEF Types, RowRecord, TickRecord, HeldOK, Batches, BatchOK, TypeOK
<1> QED BY <1>1, TypesHold, PTL
-----------------------------------------------------------------------------
(* A tick works on the row it claimed *)

(* While the lease stands, the copy the tick holds is the row; only Onramp *)
(* writes without a lease, to a reservation too young to be written off.   *)
Fresh(w, snap) ==
  LET r == row[snap.id]
  IN r.by = w =>
       \/ r.status = snap.status /\ r.txn = snap.txn /\ r.deadline = snap.deadline
       \/ snap.status = "created" /\ ~Aged(w, snap)

(* What is decided of the record the loop is at, until it is written.      *)
Planned(w, snap) ==
  LET to == wk[w].next.to
  IN /\ to \in Advances
     /\ snap.status = "created" \/ to \in {"expired", "unobserved"} => Aged(w, snap)
     /\ to = "transaction_seen" => snap.status = to \/ money[snap.id] # "none"
     /\ to \in {"settled", "failed"} => money[snap.id] = to
     /\ to = "expired" =>
          /\ snap.status = "session_opened"
          /\ row[snap.id].by = w => money[snap.id] = "none" /\ ~Payable(snap.id)

TickInv(w) ==
  \A snap \in wk[w].todo :
    Fresh(w, snap) /\ (wk[w].pc = "write" /\ Leads(w, snap) => Planned(w, snap))

(* The deadline of a row covers the closing of its page and, until a       *)
(* payment is seen, session_max_age_ms of its request.                     *)
PageInWindow(id) ==
  /\ row[id].status = "absent" => page[id] = NoPage
  /\ row[id].status = "session_opened" /\ page[id] >= 0 => page[id] <= row[id].deadline
  /\ row[id].status \in {"created", "session_opened"} /\ window[id] >= 0
       => window[id] <= row[id].deadline

IInv ==
  /\ Types /\ Batches
  /\ \A w \in Workers : TickInv(w)
  /\ \A id \in Ids : PageInWindow(id)

(* The provider's transaction never goes back. *)
MoneyMoves(id) ==
  \/ money'[id] = money[id]
  \/ money[id] = "none" /\ money'[id] = "pending" /\ Payable(id)
  \/ money[id] \in {"pending", "settling"} /\ money'[id] \in {"settling", "settled", "failed"}

(* A step of somebody else, seen from a tick that may hold the row's lease. *)
Undisturbed(q, id) ==
  /\ row'[id].by = q =>
       /\ row[id].by = q
       /\ \/ /\ row'[id].status = row[id].status /\ row'[id].txn = row[id].txn
             /\ row'[id].deadline = row[id].deadline
          \/ row[id].status \notin InFlight
          \/ row[id].status = "created" /\ row[id].deadline > 0
  /\ MoneyMoves(id)
  /\ Payable(id)' => Payable(id) \/ row[id].status \in {"absent", "created"}

LEMMA TickUndisturbed ==
  ASSUME Types, NEW q \in Workers, TickInv(q), SameTick(q), \A id \in Ids : Undisturbed(q, id)
  PROVE  TickInv(q)'
<1> SUFFICES ASSUME NEW snap \in wk[q].todo
             PROVE  /\ Fresh(q, snap)'
                    /\ wk[q].pc = "write" /\ Leads(q, snap) => Planned(q, snap)'
  BY DEF TickInv, SameTick, Leads
<1>1. /\ snap.id \in Ids /\ snap.deadline \in Int /\ wk[q].now <= 0
      /\ snap.status \in {"created", "session_opened", "transaction_seen"}
      /\ snap.status \in InFlight /\ wk[q].now \in Int
  BY SnapshotOf DEF Types, TickRecord
<1>2. Undisturbed(q, snap.id) /\ Fresh(q, snap)
  BY <1>1 DEF TickInv
<1>3. Aged(q, snap)' = Aged(q, snap)
  BY DEF Aged, SameTick
<1>4. Fresh(q, snap)'
  BY <1>1, <1>2, <1>3 DEF Undisturbed, Fresh, Aged
<1>5. ASSUME wk[q].pc = "write", Leads(q, snap)
      PROVE  Planned(q, snap)'
  <2>1. Planned(q, snap) /\ wk'[q].next = wk[q].next
    BY <1>5 DEF TickInv, SameTick
  <2>2. ASSUME wk[q].next.to = "expired", row'[snap.id].by = q
        PROVE  money'[snap.id] = "none" /\ ~Payable(snap.id)'
    <3>1. row[snap.id].by = q /\ money[snap.id] = "none" /\ ~Payable(snap.id)
      BY <1>2, <2>1, <2>2 DEF Undisturbed, Planned
    <3>2. row[snap.id].status = "session_opened"
      BY <1>2, <2>1, <2>2, <3>1 DEF Fresh, Planned
    <3> QED BY <1>2, <3>1, <3>2 DEF Undisturbed, MoneyMoves, Payable
  <2>3. money[snap.id] # "none" => money'[snap.id] # "none"
    BY <1>2 DEF Undisturbed, MoneyMoves, Payable
  <2>4. money[snap.id] \in {"settled", "failed"} => money'[snap.id] = money[snap.id]
    BY <1>2 DEF Undisturbed, MoneyMoves, Payable
  <2> QED BY <1>3, <2>1, <2>2, <2>3, <2>4 DEF Planned
<1> QED BY <1>4, <1>5

(* Aged compares two instants that grow old together. *)
LEMMA AgeingKeepsAged ==
  ASSUME Types, Pass, NEW w \in Workers, NEW snap \in wk[w].todo, wk[w].pc # "idle"
  PROVE  (wk'[w].now > Later(snap).deadline) = Aged(w, snap)
<1>1. snap.deadline \in Int /\ Later(snap).deadline = Ago(snap.deadline)
  BY SnapshotOf, LaterKeeps
<1>2. wk[w].now \in Int /\ wk[w].now > -MaxTick
  <2>1. wk[w].now > -MaxTick
    BY DEF Pass
  <2> QED BY <2>1, FloorType DEF Types, TickRecord
<1>3. wk'[w].now = wk[w].now - 1
  <2>1. wk[w] \in TickRecord
    BY TickType
  <2>2. wk'[w] = [wk[w] EXCEPT !.now = IF wk[w].pc = "idle" THEN 0 ELSE @ - 1,
                               !.todo = {Later(s) : s \in @}]
    BY Zenon DEF Pass
  <2> QED BY <2>1, <2>2 DEF TickRecord
<1> QED BY <1>1, <1>2, <1>3, FloorType DEF Aged, Ago

(* Time makes nothing payable. *)
LEMMA PassPayable ==
  ASSUME Types, Pass, NEW id \in Ids, Payable(id)'
  PROVE  Payable(id)
<1>1. /\ page[id] \in Int /\ window[id] \in Int
      /\ page'[id] = Sooner(page[id]) /\ window'[id] = Sooner(window[id])
  BY DEF Types, Pass
<1> QED BY <1>1 DEF Payable, Sooner, NoPage

LEMMA PassTick ==
  ASSUME Types, Batches, Pass, NEW w \in Workers, TickInv(w)
  PROVE  TickInv(w)'
<1>1. /\ wk'[w].todo = {Later(snap) : snap \in wk[w].todo} /\ wk'[w].pc = wk[w].pc
      /\ wk'[w].next = wk[w].next /\ money' = money
  BY PassEffect DEF Pass
<1> SUFFICES ASSUME NEW snap \in wk[w].todo
             PROVE  /\ Fresh(w, Later(snap))'
                    /\ wk'[w].pc = "write" /\ Leads(w, Later(snap))' => Planned(w, Later(snap))'
  BY <1>1 DEF TickInv
<1> DEFINE id == snap.id
<1>2. wk[w].pc # "idle"
  BY DEF Batches, BatchOK, Midway
<1>3. \A s \in wk[w].todo : Later(s).id = s.id /\ Later(s).status = s.status /\ Later(s).txn = s.txn
                            /\ Later(s).deadline = Ago(s.deadline)
  BY SnapshotOf, LaterKeeps
<1>4. /\ id \in Ids
      /\ row'[id].by = row[id].by /\ row'[id].status = row[id].status
      /\ row'[id].txn = row[id].txn /\ row'[id].deadline = Ago(row[id].deadline)
      /\ Payable(id)' => Payable(id)
  <2>1. id \in Ids /\ row[id] \in RowRecord
    BY SnapshotOf DEF Types
  <2>2. row'[id] = [row[id] EXCEPT !.until = Ago(@), !.deadline = Ago(@)]
    BY <2>1 DEF Pass
  <2> QED BY <2>1, <2>2, PassPayable DEF RowRecord
<1>5. Aged(w, Later(snap))' = Aged(w, snap)
  BY <1>2, AgeingKeepsAged DEF Aged
<1>6. Fresh(w, Later(snap))'
  BY <1>3, <1>4, <1>5 DEF TickInv, Fresh
<1>7. Leads(w, Later(snap))' => Leads(w, snap)
  BY <1>1, <1>3 DEF Leads
<1>8. Planned(w, snap) => Planned(w, Later(snap))'
  <2>1. /\ Later(snap).id = id /\ Later(snap).status = snap.status
        /\ wk'[w].next = wk[w].next /\ money' = money
    BY <1>1, <1>3
  <2> QED BY <1>4, <1>5, <2>1 DEF Planned
<1>9. wk'[w].pc = "write" /\ Leads(w, snap) => Planned(w, snap)
  BY <1>1 DEF TickInv
<1> QED BY ZenonT(60), <1>6, <1>7, <1>8, <1>9

LEMMA InFlightStates == InFlight = {"created", "session_opened", "transaction_seen"}
  BY DEF InFlight, FUNDING_STATES, TERMINAL_STATES

LEMMA ServiceDisturbsNobody ==
  ASSUME Types, NEW id \in Ids, Service(id), NEW q \in Workers, NEW other \in Ids
  PROVE  Undisturbed(q, other)
<1>1. CASE Submit(id)
  BY <1>1, InFlightStates DEF Submit, Types, RowRecord, Undisturbed, MoneyMoves, Payable
<1>2. CASE OnrampRecords(id)
  <2>1. /\ row[id].status = "created" /\ row[id].deadline > 0 /\ row'[id].by = row[id].by
        /\ money' = money
        /\ id # other => row'[other] = row[other] /\ page'[other] = page[other]
        /\ window' = window
    <3>1. row[id] \in RowRecord /\ row[id].deadline >= MaxAge - RailTime
      BY <1>2 DEF OnrampRecords, Types
    <3>2. row[id].deadline > 0
      BY <3>1, WorkerConstants DEF RowRecord
    <3> QED BY <1>2, <3>1, <3>2 DEF OnrampRecords, Types, RowRecord
  <2> QED BY <2>1 DEF Undisturbed, MoneyMoves, Payable
<1>3. CASE Pay(id)
  BY <1>3 DEF Pay, Types, Undisturbed, MoneyMoves, Payable
<1>4. CASE PaymentMoves(id)
  <2>1. money' = [money EXCEPT ![id] = money'[id]] /\ money[id] \in {"pending", "settling"}
        /\ money'[id] \in {"settling", "settled", "failed"}
    BY <1>4, WorkerConstants DEF PaymentMoves, Types
  <2>2. money'[other] = money[other] \/ other = id
    BY <2>1 DEF Types
  <2> QED BY <1>4, <2>1, <2>2 DEF PaymentMoves, Undisturbed, MoneyMoves, Payable
<1> QED BY <1>1, <1>2, <1>3, <1>4 DEF Service

(* A lease that goes to another, or to nobody, leaves the rest of the row. *)
SameFacts(id) ==
  /\ row'[id].status = row[id].status /\ row'[id].txn = row[id].txn
  /\ row'[id].deadline = row[id].deadline

LEMMA LeasesMoveAlone ==
  ASSUME Types, NEW w \in Workers, NEW id \in Ids, NEW ids \in SUBSET Ids, NEW until,
         \/ row' = row
         \/ row' = Leased(ids, w, until)
         \/ row' = Released(ids, w)
         \/ row' = [other \in Ids |-> IF row[other].by = w THEN [row[other] EXCEPT !.by = Gone]
                                                          ELSE row[other]]
  PROVE  /\ SameFacts(id)
         /\ \A q \in Workers \ {w} : row'[id].by = q => row[id].by = q
<1>1. row[id] \in RowRecord
  BY DEF Types
<1>2. None \notin Workers /\ Gone \notin Workers
  BY WorkerConstants
<1>3. CASE row' = Leased(ids, w, until)
  <2>1. row'[id] = row[id] \/ row'[id] = [row[id] EXCEPT !.by = w, !.until = until]
    BY <1>3 DEF Leased
  <2> QED BY <1>1, <2>1 DEF SameFacts, RowRecord
<1>4. CASE row' = Released(ids, w)
  <2>1. row'[id] = row[id] \/ row'[id] = [row[id] EXCEPT !.by = None, !.until = Floor]
    BY <1>4 DEF Released
  <2> QED BY <1>1, <1>2, <2>1 DEF SameFacts, RowRecord
<1>5. CASE row' = [other \in Ids |-> IF row[other].by = w THEN [row[other] EXCEPT !.by = Gone]
                                                         ELSE row[other]]
  <2>1. row'[id] = row[id] \/ row'[id] = [row[id] EXCEPT !.by = Gone]
    BY <1>5
  <2> QED BY <1>1, <1>2, <2>1 DEF SameFacts, RowRecord
<1>6. CASE row' = row
  BY <1>6 DEF SameFacts
<1> QED BY <1>3, <1>4, <1>5, <1>6

(* The steps that claim, hand back or lose leases. *)
LEMMA LeaseSteps ==
  ASSUME Types, NEW w \in Workers,
         Claim(w) \/ Ends(w) \/ Restart(w) \/ Crash(w) \/ Stops(w)
  PROVE  \E ids \in SUBSET Ids, until \in Int :
           \/ row' = row
           \/ row' = Leased(ids, w, until)
           \/ row' = Released(ids, w)
           \/ row' = [other \in Ids |-> IF row[other].by = w THEN [row[other] EXCEPT !.by = Gone]
                                                             ELSE row[other]]
<1>1. /\ Oldest(Claimable(wk[w].now)) \in SUBSET Ids /\ wk[w].claimed \in SUBSET Ids
      /\ wk[w].handback \in SUBSET Ids /\ wk[w].now + TTL \in Int
  BY WorkerConstants DEF Oldest, Claimable, Types, TickRecord
<1> QED BY <1>1 DEF Claim, Ends, ClaimFaults, KeepBatch, ReleaseBatch, ReleaseFaults,
           Restart, Crash, Replaced, Stops, Stop, StopCollects, StopReleases

(* No other replica's step disturbs a tick. *)
LEMMA OneTickAtATime ==
  ASSUME Types, Batches, NEW w \in Workers, Tick(w) \/ Shutdown(w) \/ Mishaps(w)
  PROVE  OnlyTick(w)
<1>1. CASE Asks(w)
  <2>1. Advances \subseteq FUNDING_STATES
    BY DEF Advances, FUNDING_STATES
  <2>2. ASSUME NEW to \in Advances, NEW txn \in Transactions, Decide(w, to, txn)
        PROVE  OnlyTick(w)
    BY <2>1, <2>2, DecideEffect
  <2> QED BY <1>1, <2>2, AskEffect, ProceedEffect
<1>2. CASE Writes(w)
  BY <1>2, WriteEffect, ProceedEffect
<1>3. CASE StartTick(w) \/ Claim(w) \/ Ends(w) \/ Restart(w) \/ Crash(w) \/ Stops(w)
  BY <1>3, StartEffect, ClaimEffect, EndEffect, ReplacedEffect, StopEffect
  DEF Resets, Restart, Crash
<1> QED BY <1>1, <1>2, <1>3 DEF Tick, Shutdown, Mishaps, Asks, Writes, Ends, Stops

LEMMA ReplicasDisturbNobody ==
  ASSUME Types, Batches, NEW w \in Workers, Tick(w) \/ Shutdown(w) \/ Mishaps(w),
         NEW q \in Workers \ {w}, NEW id \in Ids
  PROVE  Undisturbed(q, id)
<1>1. CASE Asks(w)
  BY <1>1, AskEffect DEF Undisturbed, MoneyMoves, Payable
<1>2. CASE Writes(w)
  <2>1. row'[id] = row[id] \/ row'[id].by = w
    <3>1. CASE row' = Advanced(w, Head(w).id, wk[w].next) /\ row[Head(w).id].by = w
      BY <1>2, <3>1, WriteEffect, AdvancedType
    <3> QED BY <1>2, <3>1, WriteEffect
  <2> QED BY <1>2, <2>1, WriteEffect DEF Undisturbed, MoneyMoves, Payable
<1>3. CASE StartTick(w)
  <2>1. row[id] \in RowRecord /\ Swept(id)
    BY <1>3, StartEffect DEF Types
  <2>2. row'[id] = row[id] \/ (row'[id].by = row[id].by /\ row[id].status \notin InFlight)
    <3>1. CASE row'[id] = [row[id] EXCEPT !.status = "pruned"] /\ row[id].status = "refused"
      <4>1. row'[id].by = row[id].by
        BY <2>1, <3>1 DEF RowRecord
      <4>2. row[id].status \notin InFlight
        BY <3>1, InFlightStates
      <4> QED BY <4>1, <4>2
    <3> QED BY <2>1, <3>1 DEF Swept
  <2> QED BY <1>3, <2>2, StartEffect DEF Undisturbed, MoneyMoves, Payable
<1>4. CASE Claim(w) \/ Ends(w) \/ Restart(w) \/ Crash(w) \/ Stops(w)
  <2>1. money' = money /\ page' = page /\ window' = window
    BY <1>4 DEF Claim, Ends, ClaimFaults, KeepBatch, ReleaseBatch, ReleaseFaults, Restart, Crash,
       Replaced, Stops, Stop, StopCollects, StopReleases
  <2>2. SameFacts(id) /\ (row'[id].by = q => row[id].by = q)
    BY <1>4, LeaseSteps, LeasesMoveAlone
  <2> QED BY <2>1, <2>2 DEF SameFacts, Undisturbed, MoneyMoves, Payable
<1> QED BY <1>1, <1>2, <1>3, <1>4 DEF Tick, Shutdown, Mishaps, Asks, Writes, Ends, Stops

(* The steps of the replica itself. *)

LEMMA NothingLeft ==
  ASSUME NEW w \in Workers, wk'[w].todo = {} PROVE TickInv(w)'
  BY DEF TickInv

(* A claim copies the rows it takes. *)
LEMMA ClaimTick ==
  ASSUME Types, NEW w \in Workers, Claim(w)
  PROVE  TickInv(w)'
<1> DEFINE ids == Oldest(Claimable(wk[w].now))
<1>1. ids \in SUBSET Ids /\ wk'[w].pc = "scan" /\ wk'[w].todo = {Snapshot(id) : id \in ids}
      /\ row' = Leased(ids, w, wk[w].now + TTL)
  BY ClaimEffect
<1> HIDE DEF ids
<1>2. ASSUME NEW snap \in wk'[w].todo
      PROVE  Fresh(w, snap)'
  <2>1. PICK id \in ids : snap = Snapshot(id)
    BY <1>1, <1>2
  <2>2. id \in Ids
    BY <1>1, <2>1
  <2>3. SameFacts(id)
    <3>1. PICK until \in Int : until = wk[w].now + TTL
      BY WorkerConstants DEF Types, TickRecord
    <3>2. row' = Leased(ids, w, until)
      BY <1>1, <3>1
    <3> QED BY <1>1, <2>2, <3>2, LeasesMoveAlone
  <2>4. snap.id = id /\ snap.status = row[id].status /\ snap.txn = row[id].txn
        /\ snap.deadline = row[id].deadline
    BY <2>1 DEF Snapshot
  <2> QED BY <2>3, <2>4 DEF Fresh, SameFacts
<1> QED BY <1>1, <1>2 DEF TickInv

(* Nothing that the tick asks moves a row; what it decides is true of the  *)
(* row it holds.                                                           *)
LEMMA AskTick ==
  ASSUME IInv, NEW w \in Workers, Asks(w)
  PROVE  TickInv(w)'
<1> USE DEF IInv
<1>1. /\ wk[w].pc = "scan" /\ Head(w) \in wk[w].todo
      /\ UNCHANGED <<row, page, window, money, held, mishaps>>
  BY AskEffect
<1>2. ASSUME NEW snap \in wk[w].todo, wk'[w].now = wk[w].now
      PROVE  Fresh(w, snap)'
  BY <1>1, <1>2 DEF TickInv, Fresh, Aged
<1>3. CASE Proceed(w) \/ ProceedFailed(w)
  <2>1. wk'[w].pc = "scan" /\ wk'[w].now = wk[w].now /\ wk'[w].todo \subseteq wk[w].todo
    BY <1>1, <1>3, ProceedEffect
  <2> QED BY <1>2, <2>1 DEF TickInv
<1>4. ASSUME NEW to \in Advances, NEW txn \in Transactions, Decide(w, to, txn),
             Head(w).status = "created" \/ to \in {"expired", "unobserved"} => Aged(w, Head(w)),
             to = "transaction_seen" => Head(w).status = to \/ money[Head(w).id] # "none",
             to \in {"settled", "failed"} => money[Head(w).id] = to,
             to = "expired" => Head(w).status = "session_opened" /\ money[Head(w).id] = "none"
      PROVE  TickInv(w)'
  <2>1. wk'[w].next.to = to /\ wk'[w].now = wk[w].now /\ wk'[w].todo = wk[w].todo
    <3>1. to \in FUNDING_STATES
      BY DEF Advances, FUNDING_STATES
    <3>2. /\ wk'[w].next = [to |-> to, txn |-> txn]
          /\ wk'[w].now = wk[w].now /\ wk'[w].todo = wk[w].todo
      BY ONLY Types, <1>4, <3>1, DecideEffect
    <3> QED BY <3>2
  <2>2. ASSUME NEW snap \in wk[w].todo, Leads(w, snap)
        PROVE  Planned(w, snap)'
    <3>1. snap = Head(w)
      <4>1. Leads(w, Head(w)) /\ snap.id \in Ids /\ Head(w).id \in Ids
        BY <1>1, HeadLeads, SnapshotOf
      <4>2. snap.id <= Head(w).id /\ Head(w).id <= snap.id
        BY <1>1, <2>2, <4>1 DEF Leads
      <4>3. snap.id = Head(w).id
        BY <4>1, <4>2, WorkerConstants DEF Ids
      <4> QED BY <1>1, <4>3 DEF Batches, BatchOK
    <3>2. Aged(w, snap)' = Aged(w, snap)
      BY <2>1 DEF Aged
    <3>3. ASSUME to = "expired", row[snap.id].by = w
          PROVE  ~Payable(snap.id)
      <4>1. snap.id \in Ids /\ snap.deadline \in Int /\ wk[w].now \in Int /\ wk[w].now <= 0
            /\ page[snap.id] \in Int /\ window[snap.id] \in Int
        BY SnapshotOf DEF Types, TickRecord
      <4>2. Fresh(w, snap) /\ Aged(w, snap) /\ snap.status = "session_opened"
        BY <1>4, <3>1, <3>3 DEF TickInv
      <4>3. row[snap.id].status = "session_opened" /\ row[snap.id].deadline = snap.deadline
        BY <3>3, <4>2 DEF Fresh
      <4>4. snap.deadline < 0
        BY <4>1, <4>2 DEF Aged
      <4>5. PageInWindow(snap.id)
        BY <4>1
      <4> QED BY <4>1, <4>3, <4>4, <4>5 DEF PageInWindow, Payable
    <3> QED BY <1>1, <1>4, <2>1, <3>1, <3>2, <3>3 DEF Planned, Payable
  <2>3. ASSUME NEW snap \in wk[w].todo, Leads(w, snap)'
        PROVE  Leads(w, snap)
    BY <2>1, <2>3 DEF Leads
  <2> QED BY <1>2, <2>1, <2>2, <2>3 DEF TickInv
<1> QED BY <1>3, <1>4, AskEffect

(* A write moves the row of the record it takes off the batch.             *)
LEMMA WriteTick ==
  ASSUME IInv, NEW w \in Workers, Writes(w)
  PROVE  TickInv(w)'
<1> USE DEF IInv
<1>1. /\ wk[w].todo # {} /\ Head(w) \in wk[w].todo /\ Head(w).id \in Ids
      /\ wk[w].next \in Verdicts
      /\ (Proceed(w) \/ ProceedFailed(w))
      /\ (row' = row \/ row' = Advanced(w, Head(w).id, wk[w].next))
  BY WriteEffect
<1>2. wk'[w].pc = "scan" /\ wk'[w].now = wk[w].now /\ wk'[w].todo = wk[w].todo \ {Head(w)}
  BY <1>1, ProceedEffect
<1>3. ASSUME NEW snap \in wk[w].todo \ {Head(w)}
      PROVE  Fresh(w, snap)'
  <2>1. snap.id # Head(w).id /\ snap.id \in Ids
    BY <1>1, <1>3, SnapshotOf DEF Batches, BatchOK
  <2>2. row'[snap.id] = row[snap.id]
    <3>1. Advanced(w, Head(w).id, wk[w].next)[snap.id] = row[snap.id]
      BY <1>1, <2>1, AdvancedType
    <3> QED BY <1>1, <3>1
  <2> QED BY <1>2, <2>2 DEF TickInv, Fresh, Aged
<1> QED BY <1>2, <1>3 DEF TickInv

LEMMA StopTick ==
  ASSUME IInv, NEW w \in Workers, Stops(w)
  PROVE  TickInv(w)'
<1> USE DEF IInv
<1>1. SameTick(w) /\ money' = money /\ page' = page /\ window' = window
  BY StopEffect DEF Stops, Stop, StopCollects, StopReleases
<1>2. ASSUME NEW id \in Ids PROVE Undisturbed(w, id)
  <2>1. wk[w].handback \in SUBSET Ids /\ row[id] \in RowRecord
    BY DEF Types, TickRecord
  <2>2. row' = row \/ row' = Released(wk[w].handback, w)
    BY DEF Stops, Stop, StopCollects, StopReleases
  <2>3. SameFacts(id)
    BY <2>1, <2>2, LeasesMoveAlone
  <2>4. row'[id].by = w => row[id].by = w
    <3>1. row'[id] = row[id] \/ row'[id] = [row[id] EXCEPT !.by = None, !.until = Floor]
      BY <2>2 DEF Released
    <3> QED BY <2>1, <3>1, WorkerConstants DEF RowRecord
  <2> QED BY <1>1, <2>3, <2>4 DEF SameFacts, Undisturbed, MoneyMoves, Payable
<1> QED BY <1>1, <1>2, TickUndisturbed

LEMMA TicksHold ==
  ASSUME IInv, Next, NEW q \in Workers
  PROVE  TickInv(q)'
<1> USE DEF IInv
<1>1. ASSUME NEW id \in Ids, Service(id) PROVE TickInv(q)'
  <2>1. SameTick(q)
    BY <1>1 DEF Service, Submit, OnrampRecords, Pay, PaymentMoves, SameTick
  <2> QED BY <1>1, <2>1, ServiceDisturbsNobody, TickUndisturbed
<1>2. ASSUME NEW w \in Workers, Tick(w) \/ Shutdown(w) \/ Mishaps(w), q # w
      PROVE  TickInv(q)'
  <2>1. SameTick(q)
    BY <1>2, OneTickAtATime DEF OnlyTick, SameTick
  <2>2. \A id \in Ids : Undisturbed(q, id)
    BY <1>2, ReplicasDisturbNobody
  <2> QED BY <2>1, <2>2, TickUndisturbed
<1>3. ASSUME Tick(q) \/ Shutdown(q) \/ Mishaps(q)
      PROVE  TickInv(q)'
  <2>1. CASE StartTick(q)
    <3>1. wk'[q].todo = {}
      BY <2>1, StartEffect DEF Batches, BatchOK, Midway
    <3> QED BY <3>1, NothingLeft
  <2>2. CASE Ends(q) \/ Restart(q) \/ Crash(q)
    BY <2>2, EndEffect, ReplacedEffect, NothingLeft DEF Resets, Restart, Crash
  <2> QED BY <1>3, <2>1, <2>2, ClaimTick, AskTick, WriteTick, StopTick
          DEF Tick, Shutdown, Mishaps, Asks, Writes, Ends, Stops
<1> QED BY <1>1, <1>2, <1>3, PassTick DEF Next

(* The whole of the invariant: one step after another.                     *)

(* A write that changes the row changes the one its tick claimed.          *)
LEMMA WriteLands ==
  ASSUME IInv, NEW w \in Workers, Writes(w), row' # row
  PROVE  LET snap == Head(w) IN
           /\ snap.id \in Ids /\ snap.deadline \in Int
           /\ row[snap.id].status = snap.status /\ row[snap.id].txn = snap.txn
           /\ row[snap.id].deadline = snap.deadline
           /\ row[snap.id].by = w
           /\ Planned(w, snap)
           /\ Mergeable(snap.id, wk[w].next)
           /\ row'[snap.id].status = wk[w].next.to
           /\ \A other \in Ids \ {snap.id} : row'[other] = row[other]
<1> DEFINE snap == Head(w)
<1>1. /\ wk[w].pc = "write" /\ snap \in wk[w].todo /\ snap.id \in Ids /\ Leads(w, snap)
      /\ wk[w].next \in Verdicts
      /\ row[snap.id].by = w /\ Mergeable(snap.id, wk[w].next)
      /\ row' = Advanced(w, snap.id, wk[w].next)
  BY WriteEffect DEF IInv
<1>2. snap.deadline \in Int
  BY <1>1, SnapshotOf DEF IInv
<1>3. Fresh(w, snap) /\ Planned(w, snap)
  BY <1>1 DEF IInv, TickInv
<1>4. /\ row[snap.id].status = snap.status /\ row[snap.id].txn = snap.txn
      /\ row[snap.id].deadline = snap.deadline
  BY <1>1, <1>3 DEF Fresh, Planned
<1>5. /\ row'[snap.id].status = wk[w].next.to
      /\ \A other \in Ids \ {snap.id} : row'[other] = row[other]
  BY <1>1, AdvancedType DEF IInv
<1> QED BY <1>1, <1>2, <1>3, <1>4, <1>5

(* What a replica's step may do to a row: nothing but its lease, the sweep *)
(* of a refusal, or an advance that lands.                                 *)
LEMMA ReplicaRow ==
  ASSUME IInv, NEW w \in Workers, Tick(w) \/ Shutdown(w) \/ Mishaps(w), NEW id \in Ids
  PROVE  \/ SameFacts(id)
         \/ row[id].status = "refused" /\ row'[id].status = "pruned"
         \/ Writes(w) /\ row' # row /\ id = Head(w).id
<1>1. CASE Asks(w)
  BY <1>1, AskEffect DEF IInv, SameFacts
<1>2. CASE Writes(w)
  BY <1>2, WriteLands DEF SameFacts
<1>3. CASE StartTick(w)
  <2>1. Swept(id) /\ row[id] \in RowRecord
    BY <1>3, StartEffect DEF IInv, Types
  <2> QED BY <2>1 DEF Swept, SameFacts, RowRecord
<1>4. CASE Claim(w) \/ Ends(w) \/ Restart(w) \/ Crash(w) \/ Stops(w)
  BY <1>4, LeaseSteps, LeasesMoveAlone DEF IInv
<1> QED BY <1>1, <1>2, <1>3, <1>4 DEF Tick, Shutdown, Mishaps, Asks, Writes, Ends, Stops

LEMMA ReplicaSparesMoney ==
  ASSUME NEW w \in Workers, Tick(w) \/ Shutdown(w) \/ Mishaps(w)
  PROVE  page' = page /\ window' = window /\ money' = money
  BY DEF Tick, Shutdown, Mishaps, StartTick, Claim, AdvanceUnasked, FinderThrows, FinderAnswers,
     Write, WriteThrows, KeepBatch, ReleaseBatch, StopCollects, StopReleases, Restart, Replaced,
     ClaimFaults, WriteFaults, ReleaseFaults, Stop, Crash

LEMMA PagesHold ==
  ASSUME IInv, Next, NEW id \in Ids
  PROVE  PageInWindow(id)'
<1>1. /\ PageInWindow(id) /\ row[id] \in RowRecord /\ page[id] \in Int
      /\ row[id].deadline \in Int /\ window[id] \in Int
  BY DEF IInv, Types, RowRecord
<1>2. ASSUME NEW other \in Ids, Service(other) PROVE PageInWindow(id)'
  <2>1. CASE Submit(other)
    BY <1>1, <2>1 DEF Submit, PageInWindow, RowRecord, IInv, Types
  <2>2. CASE OnrampRecords(other)
    <3>1. CASE other # id
      <4>1. row'[id] = row[id] /\ page'[id] = page[id] /\ window'[id] = window[id]
        BY <2>2, <3>1 DEF OnrampRecords, IInv, Types
      <4> QED BY <1>1, <4>1 DEF PageInWindow
    <3>2. ASSUME other = id, row'[id].status = "session_opened"
          PROVE  page'[id] <= row'[id].deadline /\ (window'[id] >= 0 => window'[id] <= row'[id].deadline)
      <4>1. PICK e \in Expiries : /\ page' = [page EXCEPT ![id] = e]
                                  /\ row' = [row EXCEPT ![id].status = "session_opened",
                                               ![id].deadline = DeadlineFor(e, @)]
                                  /\ window' = window /\ row[id].status = "created"
        BY <1>1, <2>2, <3>2 DEF OnrampRecords, IInv, Types, RowRecord
      <4>2. page'[id] = e /\ row'[id].deadline = DeadlineFor(e, row[id].deadline)
        BY <1>1, <4>1 DEF IInv, Types, RowRecord
      <4> QED BY <1>1, <4>1, <4>2, WorkerConstants DEF PageInWindow, DeadlineFor
    <3>3. other = id => row'[id].status \in {"session_opened", "refused", "unobserved"}
      BY <1>1, <2>2 DEF OnrampRecords, IInv, Types, RowRecord
    <3> QED BY <3>1, <3>2, <3>3 DEF PageInWindow
  <2>3. CASE Pay(other) \/ PaymentMoves(other)
    BY <1>1, <2>3 DEF Pay, PaymentMoves, PageInWindow
  <2> QED BY <1>2, <2>1, <2>2, <2>3 DEF Service
<1>3. ASSUME NEW w \in Workers, Tick(w) \/ Shutdown(w) \/ Mishaps(w)
      PROVE  PageInWindow(id)'
  <2>1. page' = page /\ window' = window
    BY <1>3, ReplicaSparesMoney
  <2>2. row'[id].status \in {"absent", "created", "session_opened"} => SameFacts(id)
    BY <1>3, ReplicaRow, WriteLands DEF Planned, Advances
  <2> QED BY <1>1, <2>1, <2>2 DEF PageInWindow, SameFacts
<1>4. CASE Pass
  <2>1. row'[id] = [row[id] EXCEPT !.until = Ago(@), !.deadline = Ago(@)]
        /\ page'[id] = Sooner(page[id]) /\ window'[id] = Sooner(window[id])
    BY <1>4 DEF Pass
  <2>2. row'[id].status = row[id].status /\ row'[id].deadline = Ago(row[id].deadline)
    BY <1>1, <2>1 DEF RowRecord
  <2> QED BY <1>1, <2>1, <2>2, FloorType DEF PageInWindow, Ago, Sooner, NoPage
<1> QED BY <1>2, <1>3, <1>4 DEF Next

LEMMA InitInv == Init => IInv
<1> SUFFICES ASSUME Init PROVE IInv
  OBVIOUS
<1>1. \A w \in Workers : wk[w].todo = {}
  BY DEF Init, Idle
<1>2. \A id \in Ids : row[id].status = "absent" /\ page[id] = NoPage
  BY DEF Init, NoRow
<1> QED BY <1>1, <1>2, InitTypes DEF IInv, TickInv, PageInWindow

LEMMA StepInv == IInv /\ [Next]_vars => IInv'
<1>1. IInv /\ Next => IInv'
  <2> SUFFICES ASSUME IInv, Next PROVE IInv'
    OBVIOUS
  <2>1. (Types /\ Batches)'
    BY StepTypes DEF IInv
  <2> QED BY <2>1, TicksHold, PagesHold DEF IInv
<1>2. IInv /\ UNCHANGED vars => IInv'
  <2> SUFFICES ASSUME IInv, UNCHANGED vars PROVE IInv'
    OBVIOUS
  <2>1. (Types /\ Batches)'
    BY StepTypes DEF IInv
  <2>2. \A w \in Workers : TickInv(w)'
    BY DEF IInv, vars, TickInv, Fresh, Planned, Leads, Aged, Payable
  <2> QED BY <2>1, <2>2 DEF IInv, vars, PageInWindow
<1> QED BY <1>1, <1>2

LEMMA IInvHolds == Spec => []IInv
  BY InitInv, StepInv, PTL DEF Spec
-----------------------------------------------------------------------------
(* The writes that land *)

LEMMA LandsWrites ==
  ASSUME IInv, [Next]_vars, NEW w \in Workers, Lands(w)
  PROVE  Writes(w) /\ row' # row
<1>1. /\ wk[w].pc = "write" /\ wk'[w].pc # "write" /\ Head(w).id \in Ids
      /\ ~SameFacts(Head(w).id)
  <2>1. wk[w].pc = "write" /\ wk'[w].pc # "write"
    BY DEF Lands, Writing
  <2>2. wk[w].todo # {}
    BY <2>1 DEF IInv, Batches, BatchOK
  <2>3. Head(w).id \in Ids
    BY <2>2, HeadLeads, SnapshotOf DEF IInv
  <2> QED BY <2>1, <2>3 DEF Lands, SameFacts
<1>2. ASSUME NEW id \in Ids, Service(id) PROVE FALSE
  BY <1>1, <1>2 DEF Service, Submit, OnrampRecords, Pay, PaymentMoves
<1>3. CASE Pass
  BY <1>1, <1>3 DEF Pass, IInv, Types, TickRecord
<1>4. ASSUME NEW q \in Workers \ {w}, Tick(q) \/ Shutdown(q) \/ Mishaps(q) PROVE FALSE
  BY <1>1, <1>4, OneTickAtATime DEF IInv, OnlyTick
<1>5. ASSUME Tick(w) \/ Shutdown(w) \/ Mishaps(w) PROVE Writes(w) /\ row' # row
  <2>1. row[Head(w).id].status # "refused"
    <3>1. CASE Asks(w) \/ StartTick(w)
      BY <1>1, <3>1, AskEffect, StartEffect DEF IInv
    <3>2. CASE Writes(w)
      BY <1>1, <3>2, WriteLands, InFlightStates DEF IInv, SameFacts, Mergeable, CanMove, TRANSITIONS
    <3>3. CASE Claim(w) \/ Ends(w) \/ Restart(w) \/ Crash(w) \/ Stops(w)
      <4>1. Types /\ Head(w).id \in Ids /\ ~SameFacts(Head(w).id)
        BY <1>1 DEF IInv
      <4> QED BY <3>3, <4>1, LeaseSteps, LeasesMoveAlone
    <3> QED BY <1>5, <3>1, <3>2, <3>3 DEF Tick, Shutdown, Mishaps, Asks, Writes, Ends, Stops
  <2> QED BY <1>1, <1>5, <2>1, ReplicaRow
<1>6. CASE UNCHANGED vars
  BY <1>1, <1>6 DEF vars
<1> QED BY <1>2, <1>3, <1>4, <1>5, <1>6 DEF Next

(* An advance that lands was computed from the row it lands on: the lease  *)
(* guard of FundingStore.update and the claim's snapshot keep apart two    *)
(* replicas, an abandoned tick and its successor, and the handler.         *)
THEOREM WritesAreFresh == Spec => NoStaleAdvance
<1>1. IInv /\ [Next]_vars =>
        [\A w \in Workers :
           Lands(w) => LET snap == Head(w)
                       IN row[snap.id].status = snap.status /\ row[snap.id].txn = snap.txn]_vars
  BY LandsWrites, WriteLands
<1> QED BY <1>1, IInvHolds, PTL DEF Spec, NoStaleAdvance

(* A row the worker writes off has outlived its window by the real clock,  *)
(* however long the tick that decided it has been running (deadlineFor).   *)
THEOREM ConclusionsAreDue == Spec => NoEarlyConclusion
<1>1. ASSUME IInv, [Next]_vars, NEW w \in Workers,
             Lands(w), wk[w].next.to \in {"expired", "unobserved"}
      PROVE  row[Head(w).id].deadline < 0
  <2> DEFINE snap == Head(w)
  <2>1. Planned(w, snap) /\ snap.deadline \in Int /\ row[snap.id].deadline = snap.deadline
    BY <1>1, LandsWrites, WriteLands
  <2>2. wk[w].now > snap.deadline
    BY <1>1, <2>1 DEF Planned, Aged
  <2>3. wk[w].now \in Int /\ wk[w].now <= 0
    BY <1>1, FloorType DEF IInv, Types, TickRecord
  <2> QED BY <2>1, <2>2, <2>3
<1>2. IInv /\ [Next]_vars =>
        [\A w \in Workers :
           Lands(w) /\ wk[w].next.to \in {"expired", "unobserved"} =>
             row[Head(w).id].deadline < 0]_vars
  BY <1>1
<1> QED BY <1>2, IInvHolds, PTL DEF Spec, NoEarlyConclusion
-----------------------------------------------------------------------------
(* The rows keep the promise of FundingLifecycle *)

(* What a row shows of its status: a swept row is gone. *)
Shown(status) == IF status = "pruned" THEN "absent" ELSE status

StatusSteps(id) ==
  LET from == Shown(row[id].status) to == Shown(row'[id].status)
  IN \/ from = to
     \/ from = "absent" /\ to \in {"created", "refused"}
     \/ /\ CanMove(from, to)
        /\ to = "transaction_seen" => money[id] # "none"
        /\ to \in {"settled", "failed"} => money[id] = to
        /\ to = "expired" => money[id] = "none" /\ ~Payable(id)
     \/ from = "refused" /\ to = "absent"

LEMMA WriteStatus ==
  ASSUME IInv, NEW w \in Workers, Writes(w), row' # row
  PROVE  StatusSteps(Head(w).id)
<1> DEFINE snap == Head(w)
           to == wk[w].next.to
<1>1. /\ row[snap.id].status = snap.status /\ row'[snap.id].status = to
      /\ Planned(w, snap) /\ row[snap.id].by = w /\ Mergeable(snap.id, wk[w].next)
  BY WriteLands
<1>2. to \in Advances
  BY <1>1 DEF Planned
<1>3. Shown(to) = to
  BY <1>2 DEF Advances, Shown
<1>4. CASE to = snap.status
  BY <1>1, <1>4 DEF StatusSteps
<1>5. CASE to # snap.status
  <2>1. CanMove(snap.status, to)
    BY <1>1, <1>5 DEF Mergeable
  <2>2. Shown(snap.status) = snap.status
    BY <2>1 DEF CanMove, TRANSITIONS, Shown
  <2> QED BY <1>1, <1>3, <1>5, <2>1, <2>2 DEF StatusSteps, Planned
<1> QED BY <1>4, <1>5

LEMMA StepStatus ==
  ASSUME IInv, Next, NEW id \in Ids
  PROVE  StatusSteps(id) /\ MoneyMoves(id)
<1>1. ASSUME NEW other \in Ids, Service(other)
      PROVE  StatusSteps(id) /\ MoneyMoves(id)
  <2>1. StatusSteps(id)
    <3>1. row[id] \in RowRecord /\ row \in [Ids -> RowRecord]
      BY DEF IInv, Types
    <3>2. CASE Submit(other)
      BY <3>1, <3>2 DEF Submit, StatusSteps, Shown, RowRecord
    <3>3. CASE OnrampRecords(other)
      <4>1. CASE other = id
        <5>1. row[id].status = "created"
              /\ row'[id].status \in {"session_opened", "refused", "unobserved"}
          BY <3>1, <3>3, <4>1 DEF OnrampRecords, RowRecord
        <5> QED BY <5>1 DEF StatusSteps, Shown, CanMove, TRANSITIONS
      <4>2. CASE other # id
        <5>1. row'[id] = row[id]
          BY <3>1, <3>3, <4>2 DEF OnrampRecords
        <5> QED BY <5>1 DEF StatusSteps
      <4> QED BY <4>1, <4>2
    <3>4. CASE Pay(other) \/ PaymentMoves(other)
      BY <3>4 DEF Pay, PaymentMoves, StatusSteps
    <3> QED BY <1>1, <3>2, <3>3, <3>4 DEF Service
  <2>2. MoneyMoves(id)
    <3>1. CASE Submit(other) \/ OnrampRecords(other)
      BY <3>1 DEF Submit, OnrampRecords, MoneyMoves
    <3>2. CASE Pay(other)
      BY <3>2 DEF Pay, MoneyMoves, IInv, Types
    <3>3. CASE PaymentMoves(other)
      <4>1. money' = [money EXCEPT ![other] = money'[other]] /\ money[other] \in {"pending", "settling"}
            /\ money'[other] \in {"settling", "settled", "failed"}
        BY <3>3, WorkerConstants DEF PaymentMoves, IInv, Types
      <4> QED BY <4>1 DEF MoneyMoves, IInv, Types
    <3> QED BY <1>1, <3>1, <3>2, <3>3 DEF Service
  <2> QED BY <2>1, <2>2
<1>2. ASSUME NEW w \in Workers, Tick(w) \/ Shutdown(w) \/ Mishaps(w)
      PROVE  StatusSteps(id) /\ MoneyMoves(id)
  <2>1. MoneyMoves(id)
    BY <1>2, ReplicaSparesMoney DEF MoneyMoves
  <2>2. CASE SameFacts(id)
    BY <2>1, <2>2 DEF SameFacts, StatusSteps
  <2>3. CASE row[id].status = "refused" /\ row'[id].status = "pruned"
    BY <2>1, <2>3 DEF StatusSteps, Shown
  <2>4. CASE Writes(w) /\ row' # row /\ id = Head(w).id
    BY <2>1, <2>4, WriteStatus
  <2> QED BY <1>2, <2>2, <2>3, <2>4, ReplicaRow
<1>3. CASE Pass
  <2>1. row[id] \in RowRecord /\ row'[id] = [row[id] EXCEPT !.until = Ago(@), !.deadline = Ago(@)]
    BY <1>3 DEF Pass, IInv, Types
  <2>2. row'[id].status = row[id].status /\ money' = money
    BY <1>3, <2>1 DEF Pass, RowRecord
  <2> QED BY <2>2 DEF StatusSteps, MoneyMoves
<1> QED BY <1>1, <1>2, <1>3 DEF Next

(* A request becomes payable while it is reserved. *)
LEMMA StepPage ==
  ASSUME IInv, Next, NEW id \in Ids, Payable(id)', ~Payable(id)
  PROVE  row[id].status = "created"
<1>1. page \in [Ids -> Int] /\ window \in [Ids -> Int] /\ row \in [Ids -> RowRecord]
      /\ PageInWindow(id)
  BY DEF IInv, Types
<1>2. ASSUME NEW other \in Ids, Service(other) PROVE row[id].status = "created"
  BY <1>1, <1>2 DEF Service, Submit, OnrampRecords, Pay, PaymentMoves, Payable, PageInWindow
<1>3. ASSUME Pass PROVE FALSE
  BY <1>3, PassPayable DEF IInv
<1>4. ASSUME NEW w \in Workers, Tick(w) \/ Shutdown(w) \/ Mishaps(w) PROVE FALSE
  BY <1>4, ReplicaSparesMoney DEF Payable
<1> QED BY <1>2, <1>3, <1>4 DEF Next

LEMMA StepRefines ==
  ASSUME IInv, Next
  PROVE  Lifecycle!Next
<1>1. Types'
  BY StepTypes DEF IInv
<1>2. [id \in Ids |-> IF row'[id].status = "pruned" THEN "absent" ELSE row'[id].status]
        \in [Ids -> FUNDING_STATES \cup {"absent"}]
  BY <1>1 DEF Types, RowRecord, Statuses
<1>3. [id \in Ids |-> Payable(id)'] \in [Ids -> BOOLEAN]
  BY Zenon DEF Payable
<1>4. money' \in [Ids -> {"none", "pending", "settling", "settled", "failed"}]
  BY <1>1 DEF Types, Transactions
<1>5. ASSUME NEW id \in Ids
      PROVE  Lifecycle!RowSteps(id) /\ Lifecycle!PageSteps(id) /\ Lifecycle!MoneySteps(id)
  <2>1. Lifecycle!RowSteps(id)
    <3> DEFINE from == Shown(row[id].status)
               to == Shown(row'[id].status)
    <3>1. StatusSteps(id)
      BY StepStatus
    <3>2. Lifecycle!CanMove(from, to) <=> CanMove(from, to)
      BY DEF Lifecycle!CanMove, Lifecycle!TRANSITIONS, CanMove, TRANSITIONS
    <3>3. /\ to = "transaction_seen" => money[id] # "none"
          /\ to \in {"settled", "failed"} => money[id] = to
          /\ to = "expired" => money[id] = "none" /\ ~Payable(id)
          => Lifecycle!MayConclude(id, to)
      <4>1. [other \in Ids |-> Payable(other)][id] = Payable(id)
        OBVIOUS
      <4> HIDE DEF to
      <4> QED BY <4>1, Zenon DEF Lifecycle!MayConclude
    <3>4. Lifecycle!RowSteps(id) <=>
            \/ from = to
            \/ from = "absent" /\ to \in {"created", "refused"}
            \/ Lifecycle!CanMove(from, to) /\ Lifecycle!MayConclude(id, to)
            \/ from = "refused" /\ to = "absent"
      BY DEF Shown, Lifecycle!RowSteps
    <3> QED BY <3>1, <3>2, <3>3, <3>4 DEF StatusSteps
  <2>2. Lifecycle!PageSteps(id)
    BY StepPage DEF Lifecycle!PageSteps
  <2>3. Lifecycle!MoneySteps(id)
    BY StepStatus DEF MoneyMoves, Lifecycle!MoneySteps
  <2> QED BY <2>1, <2>2, <2>3
<1> QED
  BY <1>2, <1>3, <1>4, <1>5 DEF Lifecycle!Next, Lifecycle!FUNDING_STATES, FUNDING_STATES

(* The worker implements the lifecycle: with any number of replicas, any   *)
(* lease, batch and window, and whatever of their statements and processes *)
(* fails, no row concludes what is not so of its money.                    *)
THEOREM WorkerImplementsLifecycle == Spec => ImplementsLifecycle
<1>1. UNCHANGED vars => UNCHANGED Lifecycle!vars
  BY DEF vars, Payable, Lifecycle!vars
<1>2. IInv /\ [Next]_vars => [Lifecycle!Next]_(Lifecycle!vars)
  BY <1>1, StepRefines
<1>3. Init => Lifecycle!Init
  <2> SUFFICES ASSUME Init PROVE Lifecycle!Init
    OBVIOUS
  <2>1. \A id \in Ids : row[id].status = "absent" /\ Payable(id) = FALSE
    BY DEF Init, NoRow, Payable
  <2>2. [id \in Ids |-> IF row[id].status = "pruned" THEN "absent" ELSE row[id].status] =
          [id \in Ids |-> "absent"]
    BY <2>1
  <2>3. [id \in Ids |-> Payable(id)] = [id \in Ids |-> FALSE]
    BY <2>1, Zenon
  <2>4. [id \in Ids |-> TRUE] \in [Ids -> BOOLEAN]
    OBVIOUS
  <2> QED BY <2>2, <2>3, <2>4 DEF Init, Lifecycle!Init
<1> QED BY <1>2, <1>3, IInvHolds, PTL DEF Spec, ImplementsLifecycle, Lifecycle!Spec

(* The inductive invariant of the lifecycle, of this table: that no payment *)
(* can still come is what keeps `nobody paid' true after the write.         *)
LifecycleInv == Lifecycle!TypeOK /\ Lifecycle!StatusIsTrue /\ Lifecycle!ExpiredIsUnpayable

LEMMA LifecycleStarts == Lifecycle!Init => LifecycleInv
  BY DEF Lifecycle!Init, LifecycleInv, Lifecycle!TypeOK, Lifecycle!StatusIsTrue,
     Lifecycle!ExpiredIsUnpayable, Lifecycle!FUNDING_STATES, Shown

LEMMA LifecycleSteps ==
  LifecycleInv /\ [Lifecycle!Next]_(Lifecycle!vars) => LifecycleInv'
<1> SUFFICES ASSUME LifecycleInv, [Lifecycle!Next]_(Lifecycle!vars) PROVE LifecycleInv'
  OBVIOUS
<1>1. CASE UNCHANGED Lifecycle!vars
  BY <1>1 DEF LifecycleInv, Lifecycle!TypeOK, Lifecycle!StatusIsTrue,
     Lifecycle!ExpiredIsUnpayable, Lifecycle!vars, Shown
<1>2. CASE Lifecycle!Next
  <2>1. Lifecycle!TypeOK'
    BY <1>2 DEF Lifecycle!Next, LifecycleInv, Lifecycle!TypeOK, Shown
  <2>2. ASSUME NEW id \in Ids, Shown(row'[id].status) = "expired"
        PROVE  money'[id] = "none" /\ ~Payable(id)'
    <3>1. /\ Lifecycle!RowSteps(id) /\ Lifecycle!PageSteps(id)
          /\ Lifecycle!MoneySteps(id)
      BY <1>2, <2>2 DEF Lifecycle!Next, Shown
    <3>2. money[id] = "none" /\ ~Payable(id)
      <4>1. CASE Shown(row[id].status) = "expired"
        BY <3>1, <4>1 DEF LifecycleInv, Lifecycle!StatusIsTrue, Lifecycle!ExpiredIsUnpayable, Shown
      <4>2. CASE Shown(row[id].status) # "expired"
        BY <2>2, <3>1, <4>2 DEF Lifecycle!RowSteps,
         Lifecycle!MayConclude, Shown
      <4> QED BY <4>1, <4>2
    <3>3. money'[id] = "none"
      BY <3>1, <3>2 DEF Lifecycle!MoneySteps, Shown
    <3>4. ~Payable(id)'
      <4>1. Shown(row[id].status) \notin {"created", "unobserved"}
        BY <2>2, <3>1 DEF Lifecycle!RowSteps, Lifecycle!CanMove, Lifecycle!TRANSITIONS, Shown
      <4> QED BY <3>1, <3>2, <4>1 DEF Lifecycle!PageSteps, Shown
    <3> QED BY <3>3, <3>4
  <2>3. ASSUME NEW id \in Ids, Shown(row'[id].status) = "transaction_seen"
        PROVE  money'[id] # "none"
    <3>1. Lifecycle!RowSteps(id) /\ Lifecycle!MoneySteps(id)
      BY <1>2 DEF Lifecycle!Next, Shown
    <3>2. money[id] # "none"
      BY <2>3, <3>1 DEF LifecycleInv, Lifecycle!StatusIsTrue, Lifecycle!RowSteps,
         Lifecycle!MayConclude, Shown
    <3> QED BY <3>1, <3>2 DEF Lifecycle!MoneySteps, Shown
  <2>4. ASSUME NEW id \in Ids, Shown(row'[id].status) \in {"settled", "failed"}
        PROVE  money'[id] = Shown(row'[id].status)
    <3>1. Lifecycle!RowSteps(id) /\ Lifecycle!MoneySteps(id)
      BY <1>2 DEF Lifecycle!Next, Shown
    <3>2. money[id] = Shown(row'[id].status)
      BY <2>4, <3>1 DEF LifecycleInv, Lifecycle!StatusIsTrue, Lifecycle!RowSteps,
         Lifecycle!MayConclude, Shown
    <3> QED BY <2>4, <3>1, <3>2 DEF Lifecycle!MoneySteps, Shown
  <2> QED BY <2>1, <2>2, <2>3, <2>4
          DEF LifecycleInv, Lifecycle!StatusIsTrue, Lifecycle!ExpiredIsUnpayable, Shown
<1> QED BY <1>1, <1>2

(* A row never misstates its buyer's money, from the write on: an expired  *)
(* request is not paid later either, nor by a transfer that settles after  *)
(* its page closed; a seen one was paid, a settled or failed one ended so  *)
(* (the conclusions advanceOne writes at deadlineFor).                     *)
RowsAreTrue ==
  \A id \in Ids :
    /\ row[id].status = "expired" => money[id] = "none"
    /\ row[id].status = "transaction_seen" => money[id] # "none"
    /\ row[id].status \in {"settled", "failed"} => money[id] = row[id].status

(* RowsAreTrue in every state the replicas, the service and a provider     *)
(* that reports a payment while Payable holds reach: no late settlement,   *)
(* late answer or stale copy makes a row lie of its money.                 *)
THEOREM RowsTellTheTruth == Spec => []RowsAreTrue
<1>1. LifecycleInv => RowsAreTrue
  BY DEF LifecycleInv, Lifecycle!StatusIsTrue, RowsAreTrue
<1> QED BY <1>1, LifecycleStarts, LifecycleSteps, WorkerImplementsLifecycle, PTL
        DEF ImplementsLifecycle, Lifecycle!Spec

(* No step revises a conclusion a row has reached, but for the sweep of a  *)
(* refusal (state.ts, TERMINAL_STATES; store.ts, pruneRefusals).           *)
THEOREM ConclusionsStand == Spec => Lifecycle!ConclusionsStand
<1>1. [Lifecycle!Next]_(Lifecycle!vars) => [Lifecycle!NothingRevised]_(Lifecycle!vars)
  BY DEF Lifecycle!Next, Lifecycle!RowSteps, Lifecycle!CanMove, Lifecycle!TRANSITIONS,
     Lifecycle!TERMINAL_STATES, Lifecycle!NothingRevised
<1> QED BY <1>1, WorkerImplementsLifecycle, PTL
        DEF ImplementsLifecycle, Lifecycle!Spec, Lifecycle!ConclusionsStand
-----------------------------------------------------------------------------
(* A planned shutdown strands nothing *)

(* No mishap yet but the shutdown of w itself. *)
Calm(w) == mishaps = IF wk[w].phase = "up" THEN 0 ELSE 1

(* Who will hand the lease of a row back: a tick or stop(), unless the     *)
(* lease has run out.                                                      *)
Covered(w, id) ==
  \/ id \in DOMAIN held[w] /\ row[id].until <= held[w][id]
  \/ id \in wk[w].claimed
  \/ id \in wk[w].handback
  \/ row[id].until <= 0

LeaseInv(w) ==
  /\ Midway(w) =>
       \A id \in wk[w].claimed : row[id].by = w => row[id].until = wk[w].now + TTL
  /\ wk[w].phase # "releasing" => wk[w].handback = {}
  /\ wk[w].phase # "up" => mishaps > 0
  /\ Calm(w) => \A id \in Ids : row[id].by = w => Covered(w, id)

LInv == Types /\ Batches /\ \A w \in Workers : LeaseInv(w)

(* A lease that is still w's is the one it had. *)
LeaseStands(w, id) ==
  row'[id].by = w => row[id].by = w /\ row'[id].until = row[id].until

(* A step that leaves a replica's books alone. *)
SameBooks(w) ==
  /\ wk'[w].phase = wk[w].phase /\ wk'[w].now = wk[w].now
  /\ wk'[w].claimed = wk[w].claimed /\ wk'[w].handback = wk[w].handback
  /\ Midway(w)' => Midway(w)
  /\ held'[w] = held[w]

LEMMA BooksCarryOver ==
  ASSUME LInv, NEW w \in Workers, SameBooks(w), \A id \in Ids : LeaseStands(w, id),
         mishaps' \in 0 .. MaxMishaps, mishaps' >= mishaps
  PROVE  LeaseInv(w)'
<1>1. LeaseInv(w) /\ mishaps \in Nat /\ mishaps' \in Nat /\ wk[w].claimed \subseteq Ids
  BY WorkerConstants DEF LInv, Types, TickRecord
<1>2. Calm(w)' => Calm(w)
  BY <1>1 DEF Calm, SameBooks, LeaseInv
<1>3. ASSUME NEW id \in Ids, Covered(w, id), row'[id].until = row[id].until
      PROVE  Covered(w, id)'
  BY <1>3 DEF Covered, SameBooks
<1>4. ASSUME Midway(w)', NEW id \in wk'[w].claimed, row'[id].by = w
      PROVE  row'[id].until = wk'[w].now + TTL
  BY <1>1, <1>4 DEF LeaseInv, SameBooks, LeaseStands
<1>5. ASSUME Calm(w)', NEW id \in Ids, row'[id].by = w
      PROVE  Covered(w, id)'
  <2>1. row[id].by = w /\ row'[id].until = row[id].until
    BY <1>5 DEF LeaseStands
  <2>2. Covered(w, id)
    BY <1>1, <1>2, <1>5, <2>1 DEF LeaseInv
  <2> QED BY <1>3, <2>1, <2>2
<1>6. /\ wk'[w].phase # "releasing" => wk'[w].handback = {}
      /\ wk'[w].phase # "up" => mishaps' > 0
  BY <1>1 DEF LeaseInv, SameBooks
<1> QED BY <1>4, <1>5, <1>6 DEF LeaseInv

LEMMA ServiceKeepsLeases ==
  ASSUME Types, NEW id \in Ids, Service(id), NEW w \in Workers, NEW other \in Ids
  PROVE  LeaseStands(w, other)
<1>1. row \in [Ids -> RowRecord]
  BY DEF Types
<1>2. CASE Submit(id)
  BY <1>1, <1>2 DEF Submit, RowRecord, LeaseStands
<1>3. CASE OnrampRecords(id)
  BY <1>1, <1>3 DEF OnrampRecords, RowRecord, LeaseStands
<1>4. CASE Pay(id) \/ PaymentMoves(id)
  BY <1>4 DEF Pay, PaymentMoves, LeaseStands
<1> QED BY <1>2, <1>3, <1>4 DEF Service

LEMMA LeasesMove ==
  ASSUME Types, NEW w \in Workers, NEW id \in Ids, NEW ids \in SUBSET Ids, NEW until \in Int,
         NEW q \in Workers,
         \/ row' = row
         \/ row' = Leased(ids, w, until) /\ q # w
         \/ row' = Released(ids, w)
         \/ row' = [other \in Ids |-> IF row[other].by = w THEN [row[other] EXCEPT !.by = Gone]
                                                          ELSE row[other]]
  PROVE  LeaseStands(q, id)
<1>1. row[id] \in RowRecord
  BY DEF Types
<1>2. \/ row'[id] = row[id]
      \/ row'[id] = [row[id] EXCEPT !.by = w, !.until = until] /\ q # w
      \/ row'[id] = [row[id] EXCEPT !.by = None, !.until = Floor]
      \/ row'[id] = [row[id] EXCEPT !.by = Gone]
  BY DEF Leased, Released
<1>3. None # q /\ Gone # q
  BY WorkerConstants
<1> QED BY <1>1, <1>2, <1>3 DEF LeaseStands, RowRecord

(* Nobody but the replica itself takes or moves a lease it holds.          *)
LEMMA ReplicasKeepLeases ==
  ASSUME Types, Batches, NEW w \in Workers, Tick(w) \/ Shutdown(w) \/ Mishaps(w),
         NEW q \in Workers, ~(w = q /\ (Claim(q) \/ ClaimFaults(q))), NEW id \in Ids
  PROVE  LeaseStands(q, id)
<1>1. CASE Asks(w)
  BY <1>1, AskEffect DEF LeaseStands
<1>2. CASE Writes(w)
  <2>1. CASE row' = Advanced(w, Head(w).id, wk[w].next)
    <3>1. row'[id].by = row[id].by /\ row'[id].until = row[id].until
      BY <1>2, <2>1, WriteEffect, AdvancedType
    <3> QED BY <3>1 DEF LeaseStands
  <2> QED BY <1>2, <2>1, WriteEffect DEF LeaseStands
<1>3. CASE StartTick(w)
  <2>1. row[id] \in RowRecord /\ Swept(id)
    BY <1>3, StartEffect DEF Types
  <2> QED BY <2>1 DEF Swept, RowRecord, LeaseStands
<1>4. CASE Claim(w) \/ Ends(w) \/ Restart(w) \/ Crash(w) \/ Stops(w)
  <2>1. /\ Oldest(Claimable(wk[w].now)) \in SUBSET Ids /\ wk[w].claimed \in SUBSET Ids
        /\ wk[w].handback \in SUBSET Ids /\ wk[w].now + TTL \in Int
    BY WorkerConstants DEF Oldest, Claimable, Types, TickRecord
  <2>2. \E ids \in SUBSET Ids, until \in Int :
          \/ row' = row
          \/ row' = Leased(ids, w, until) /\ q # w
          \/ row' = Released(ids, w)
          \/ row' = [other \in Ids |-> IF row[other].by = w THEN [row[other] EXCEPT !.by = Gone]
                                                            ELSE row[other]]
    BY <1>4, <2>1 DEF Claim, Ends, ClaimFaults, KeepBatch, ReleaseBatch, ReleaseFaults,
       Restart, Crash, Replaced, Stops, Stop, StopCollects, StopReleases
  <2> QED BY <2>2, LeasesMove
<1> QED BY <1>1, <1>2, <1>3, <1>4 DEF Tick, Shutdown, Mishaps, Asks, Writes, Ends, Stops

(* The count of mishaps only grows, and by the mishaps. *)
LEMMA MishapsGrow ==
  ASSUME Types, NEW w \in Workers, Tick(w) \/ Shutdown(w) \/ Mishaps(w)
  PROVE  /\ mishaps' \in 0 .. MaxMishaps /\ mishaps \in Nat /\ mishaps' \in Nat
         /\ mishaps' = mishaps \/ mishaps' = mishaps + 1
         /\ Mishaps(w) => mishaps' = mishaps + 1
  BY WorkerConstants
  DEF Types, Mishap, Tick, Shutdown, Mishaps, StartTick, Claim, AdvanceUnasked, FinderThrows,
     FinderAnswers, Write, WriteThrows, KeepBatch, ReleaseBatch, StopCollects, StopReleases,
     Restart, Replaced, ClaimFaults, WriteFaults, ReleaseFaults, Stop, Crash

LEMMA OtherBooks ==
  ASSUME Types, Batches, NEW w \in Workers, Tick(w) \/ Shutdown(w) \/ Mishaps(w),
         NEW q \in Workers \ {w}
  PROVE  SameBooks(q)
<1>1. wk'[q] = wk[q]
  BY OneTickAtATime DEF OnlyTick
<1>2. held = [r \in Workers |-> held[r]]
  BY DEF Types
<1>3. held' = held \/ \E h : held' = [held EXCEPT ![w] = h]
  BY DEF Tick, Shutdown, Mishaps, StartTick, Claim, AdvanceUnasked, FinderThrows, FinderAnswers,
     Write, WriteThrows, KeepBatch, ReleaseBatch, StopCollects, StopReleases, Restart, Replaced,
     ClaimFaults, WriteFaults, ReleaseFaults, Stop, Crash
<1>4. held'[q] = held[q]
  BY <1>2, <1>3
<1> QED BY <1>1, <1>4 DEF SameBooks, Midway

(* The replica's own steps on its books. *)

(* The sweep and the loop leave them alone. *)
LEMMA OwnBooks ==
  ASSUME LInv, NEW w \in Workers, StartTick(w) \/ Asks(w) \/ Writes(w)
  PROVE  SameBooks(w)
<1> USE DEF LInv
<1>1. CASE StartTick(w)
  BY <1>1, StartEffect DEF SameBooks, Midway
<1>2. CASE Asks(w)
  <2>1. Midway(w) /\ held' = held
    BY <1>2, AskEffect DEF Midway
  <2>2. /\ wk'[w].phase = wk[w].phase /\ wk'[w].now = wk[w].now
        /\ wk'[w].claimed = wk[w].claimed /\ wk'[w].handback = wk[w].handback
    <3>1. Advances \subseteq FUNDING_STATES
      BY DEF Advances, FUNDING_STATES
    <3>2. CASE Proceed(w) \/ ProceedFailed(w)
      BY <1>2, <3>2, AskEffect, ProceedEffect
    <3>3. ASSUME NEW to \in Advances, NEW txn \in Transactions, Decide(w, to, txn)
          PROVE  /\ wk'[w].phase = wk[w].phase /\ wk'[w].now = wk[w].now
                 /\ wk'[w].claimed = wk[w].claimed /\ wk'[w].handback = wk[w].handback
      BY <3>1, <3>3, DecideEffect
    <3> QED BY <1>2, <3>2, <3>3, AskEffect
  <2> QED BY <2>1, <2>2 DEF SameBooks
<1>3. CASE Writes(w)
  BY <1>3, WriteEffect, ProceedEffect DEF SameBooks, Midway
<1> QED BY <1>1, <1>2, <1>3

(* A claim: what it drains has run out, what it takes it lists. *)
LEMMA ClaimBooks ==
  ASSUME LInv, NEW w \in Workers, Claim(w)
  PROVE  LeaseInv(w)'
<1> USE DEF LInv
<1> DEFINE now == wk[w].now
           ids == Oldest(Claimable(now))
<1>1. /\ ids \subseteq Ids /\ wk[w].pc = "claim"
      /\ wk'[w].phase = wk[w].phase /\ wk'[w].now = now /\ wk'[w].claimed = ids
      /\ wk'[w].handback = wk[w].handback
      /\ held' = [held EXCEPT ![w] = Without(held[w], Expired(w, now))]
      /\ row' = Leased(ids, w, now + TTL)
      /\ mishaps' = mishaps
  BY ClaimEffect
<1> HIDE DEF ids
<1>2. now \in Int /\ now <= 0 /\ now + TTL \in Int /\ HeldOK(held[w])
  BY FloorType, WorkerConstants DEF Types, TickRecord
<1> HIDE DEF now
<1>3. LeaseInv(w) /\ wk[w].claimed = {}
  BY <1>1 DEF Batches, BatchOK, Midway
<1>4. ASSUME NEW id \in ids PROVE row'[id].until = now + TTL
  <2>1. row[id] \in RowRecord /\ row'[id] = [row[id] EXCEPT !.by = w, !.until = now + TTL]
    BY <1>1 DEF Leased, Types
  <2> QED BY <1>2, <2>1 DEF RowRecord
<1>5. ASSUME NEW id \in Ids \ ids PROVE row'[id] = row[id]
  BY <1>1 DEF Leased
<1>6. held'[w] = Without(held[w], Expired(w, now))
  BY <1>1 DEF Types
<1>7. ASSUME Calm(w)', NEW id \in Ids \ ids, row[id].by = w
      PROVE  Covered(w, id)'
  <2>1. Calm(w)
    BY <1>1, <1>7 DEF Calm
  <2>2. Covered(w, id)
    BY <1>3, <1>7, <2>1 DEF LeaseInv
  <2>3. row'[id].until = row[id].until /\ row[id].until \in Int
    BY <1>5 DEF Types, RowRecord
  <2>4. CASE id \in DOMAIN held[w] /\ row[id].until <= held[w][id]
    <3>1. CASE id \in Expired(w, now)
      <4>1. held[w][id] <= now /\ held[w][id] \in Int
        BY <1>2, <2>4, <3>1 DEF Expired, HeldOK
      <4>2. row[id].until <= 0
        BY <1>2, <2>3, <2>4, <4>1
      <4> QED BY <2>3, <4>2 DEF Covered
    <3>2. CASE id \notin Expired(w, now)
      <4>1. id \in DOMAIN held'[w] /\ held'[w][id] = held[w][id]
        BY <1>6, <2>4, <3>2 DEF Without
      <4> QED BY <2>3, <2>4, <4>1 DEF Covered
    <3> QED BY <3>1, <3>2
  <2>5. CASE id \in wk[w].handback
    BY <1>1, <2>5 DEF Covered
  <2>6. CASE row[id].until <= 0
    BY <2>3, <2>6 DEF Covered
  <2> QED BY <1>3, <2>2, <2>4, <2>5, <2>6 DEF Covered
<1>8. ASSUME Calm(w)', NEW id \in Ids, row'[id].by = w
      PROVE  Covered(w, id)'
  <2>1. CASE id \in ids
    BY <1>1, <2>1 DEF Covered
  <2>2. CASE id \notin ids
    BY <1>5, <1>7, <1>8, <2>2
  <2> QED BY <2>1, <2>2
<1> QED BY <1>1, <1>3, <1>4, <1>8 DEF LeaseInv

(* A tick that does not claim and ends: its leases are back, or remembered *)
(* under the expiry they have.                                             *)
LEMMA EndBooks ==
  ASSUME LInv, NEW w \in Workers, KeepBatch(w) \/ ReleaseBatch(w)
  PROVE  LeaseInv(w)'
<1> USE DEF LInv
<1>1. /\ wk[w].claimed \in SUBSET Ids /\ wk[w].now + TTL \in Int /\ LeaseInv(w) /\ Midway(w)
      /\ HeldOK(held[w]) /\ wk[w].handback \in SUBSET Ids
  BY WorkerConstants DEF Types, TickRecord, KeepBatch, ReleaseBatch, Finishing, Midway
<1>2. /\ ~Midway(w)' /\ wk'[w].claimed = {} /\ wk'[w].phase = wk[w].phase /\ mishaps' = mishaps
  BY EndEffect DEF Ends, Resets, KeepBatch, ReleaseBatch, Midway
<1>3. wk'[w].handback = wk[w].handback
  <2> DEFINE new == [Idle(wk[w].phase) EXCEPT !.handback = wk[w].handback]
  <2>1. wk' = [wk EXCEPT ![w] = new]
    BY DEF KeepBatch, ReleaseBatch
  <2>2. new.handback = wk[w].handback
    BY DEF Idle
  <2> HIDE DEF new
  <2> QED BY <2>1, <2>2 DEF Types
<1>4. ASSUME Calm(w)', NEW id \in Ids, row'[id].by = w
      PROVE  Covered(w, id)'
  <2>1. Calm(w)
    BY <1>2, <1>4 DEF Calm
  <2>2. row[id] \in RowRecord
    BY DEF Types
  <2>3. CASE KeepBatch(w)
    <3>1. row' = row
      BY <2>3 DEF KeepBatch
    <3>2. Covered(w, id)
      BY <1>1, <1>4, <2>1, <3>1 DEF LeaseInv
    <3> DEFINE kept == [other \in DOMAIN held[w] \cup wk[w].claimed |->
                          IF other \in wk[w].claimed THEN wk[w].now + TTL ELSE held[w][other]]
    <3>3. held'[w] = kept
      <4>1. held' = [held EXCEPT ![w] = kept]
        BY <2>3 DEF KeepBatch
      <4> HIDE DEF kept
      <4> QED BY <4>1 DEF Types
    <3>4. CASE id \in wk[w].claimed
      <4>1. row[id].until = wk[w].now + TTL
        BY <1>1, <1>4, <3>1, <3>4 DEF LeaseInv
      <4>2. id \in DOMAIN kept /\ kept[id] = wk[w].now + TTL
        BY <3>4
      <4> HIDE DEF kept
      <4>3. row'[id].until <= held'[w][id]
        BY <1>1, <3>1, <3>3, <4>1, <4>2
      <4> QED BY <3>3, <4>2, <4>3 DEF Covered
    <3>5. CASE id \notin wk[w].claimed
      <4>1. id \in DOMAIN held[w] => id \in DOMAIN kept /\ kept[id] = held[w][id]
        BY <3>5
      <4> HIDE DEF kept
      <4> QED BY <1>3, <3>1, <3>2, <3>3, <3>5, <4>1 DEF Covered
    <3> QED BY <3>4, <3>5
  <2>4. CASE ReleaseBatch(w)
    <3>1. row' = Released(wk[w].claimed, w) /\ held' = [held EXCEPT ![w] = Without(held[w], wk[w].claimed)]
      BY <2>4 DEF ReleaseBatch
    <3>2. row'[id] = row[id] /\ id \notin wk[w].claimed
      <4>1. id \notin wk[w].claimed \/ row[id].by # w
        <5>1. None # w
          BY WorkerConstants
        <5> QED BY <1>4, <2>2, <3>1, <5>1 DEF Released, RowRecord
      <4>2. row'[id] = row[id]
        BY <3>1, <4>1 DEF Released
      <4> QED BY <1>4, <4>1, <4>2
    <3>3. Covered(w, id)
      BY <1>1, <1>4, <2>1, <3>2 DEF LeaseInv
    <3>4. held'[w] = Without(held[w], wk[w].claimed)
      BY <3>1 DEF Types
    <3>5. id \in DOMAIN held[w] => id \in DOMAIN held'[w] /\ held'[w][id] = held[w][id]
      BY <3>2, <3>4 DEF Without
    <3> QED BY <1>3, <3>2, <3>3, <3>5 DEF Covered
  <2> QED BY <2>3, <2>4
<1> QED BY <1>1, <1>2, <1>3, <1>4 DEF LeaseInv

(* stop(): what `held' remembers goes to be handed back, and is.           *)
LEMMA StopBooks ==
  ASSUME LInv, NEW w \in Workers, Stops(w)
  PROVE  LeaseInv(w)'
<1> USE DEF LInv
<1>1. /\ LeaseInv(w) /\ SameTick(w) /\ wk[w] \in TickRecord /\ mishaps \in Nat
      /\ DOMAIN held[w] \subseteq Ids
  BY StopEffect, WorkerConstants DEF Types, HeldOK
<1>2. \A id \in Ids : LeaseStands(w, id)
  <2>1. row' = row \/ row' = Released(wk[w].handback, w)
    BY DEF Stops, Stop, StopCollects, StopReleases
  <2>2. wk[w].handback \in SUBSET Ids /\ 0 \in Int
    BY <1>1 DEF TickRecord
  <2> QED BY <2>1, <2>2, LeasesMove
<1>3. ASSUME Midway(w)', NEW id \in wk'[w].claimed, row'[id].by = w
      PROVE  row'[id].until = wk'[w].now + TTL
  <2>1. id \in Ids /\ id \in wk[w].claimed /\ Midway(w) /\ wk'[w].now = wk[w].now
    BY <1>1, <1>3 DEF SameTick, Midway, TickRecord
  <2> QED BY <1>1, <1>2, <1>3, <2>1 DEF LeaseInv, LeaseStands
<1>4. CASE Stop(w)
  <2>1. /\ wk'[w].phase = "stopping" /\ wk'[w].handback = wk[w].handback
        /\ wk[w].phase = "up" /\ held' = held /\ mishaps' = mishaps + 1
    BY <1>1, <1>4 DEF Stop, Mishap, Types, TickRecord
  <2>2. Calm(w)' => Calm(w)
    BY <1>1, <2>1 DEF Calm
  <2>3. ASSUME Calm(w)', NEW id \in Ids, row'[id].by = w
        PROVE  Covered(w, id)'
    BY <1>1, <1>2, <2>1, <2>2, <2>3 DEF LeaseInv, LeaseStands, Covered, SameTick
  <2> QED BY <1>1, <1>3, <2>1, <2>3 DEF LeaseInv
<1>5. CASE StopCollects(w)
  <2>1. /\ wk'[w].phase = "releasing" /\ wk'[w].handback = DOMAIN held[w]
        /\ wk[w].phase = "stopping" /\ mishaps' = mishaps
    BY <1>1, <1>5 DEF StopCollects, Types, TickRecord
  <2>2. Calm(w)' => Calm(w)
    BY <2>1 DEF Calm
  <2>3. ASSUME Calm(w)', NEW id \in Ids, row'[id].by = w
        PROVE  Covered(w, id)'
    <3>1. Covered(w, id) /\ wk[w].handback = {} /\ row'[id].until = row[id].until
      BY <1>1, <1>2, <2>1, <2>2, <2>3 DEF LeaseInv, LeaseStands
    <3> QED BY <1>1, <2>1, <3>1 DEF Covered, SameTick
  <2> QED BY <1>1, <1>3, <2>1, <2>3 DEF LeaseInv
<1>6. CASE StopReleases(w)
  <2>1. /\ wk'[w].phase = "stopped" /\ wk'[w].handback = {} /\ held' = held
        /\ wk[w].phase = "releasing" /\ mishaps' = mishaps
        /\ row' = Released(wk[w].handback, w)
    BY <1>1, <1>6 DEF StopReleases, Types, TickRecord
  <2>2. Calm(w)' => Calm(w)
    BY <2>1 DEF Calm
  <2>3. ASSUME Calm(w)', NEW id \in Ids, row'[id].by = w
        PROVE  Covered(w, id)'
    <3>1. id \notin wk[w].handback
      <4>1. row[id].by = w /\ row[id] \in RowRecord /\ None # w
        BY <1>2, <2>3, WorkerConstants DEF LeaseStands, Types
      <4> QED BY <2>1, <2>3, <4>1 DEF Released, RowRecord
    <3>2. Covered(w, id) /\ row'[id].until = row[id].until
      BY <1>1, <1>2, <2>2, <2>3 DEF LeaseInv, LeaseStands
    <3> QED BY <1>1, <2>1, <3>1, <3>2 DEF Covered, SameTick
  <2> QED BY <1>1, <1>3, <2>1, <2>3 DEF LeaseInv
<1> QED BY <1>4, <1>5, <1>6 DEF Stops

(* After a mishap of its own, nothing is claimed of a replica's leases.    *)
LEMMA MishapBooks ==
  ASSUME LInv, NEW w \in Workers,
         ClaimFaults(w) \/ ReleaseFaults(w) \/ Crash(w) \/ Restart(w)
  PROVE  LeaseInv(w)'
<1> USE DEF LInv
<1>1. mishaps \in Nat /\ mishaps' \in Nat /\ LeaseInv(w)
  BY MishapsGrow DEF Shutdown, Mishaps
<1>2. CASE ClaimFaults(w) \/ ReleaseFaults(w)
  <2>1. ~Midway(w)' /\ wk'[w].phase = wk[w].phase /\ mishaps' = mishaps + 1
    BY <1>2, EndEffect, MishapsGrow DEF Ends, Resets, Midway, Mishaps
  <2>2. wk'[w].handback = {} \/ wk'[w].handback = wk[w].handback
    <3> DEFINE new == [Idle(wk[w].phase) EXCEPT !.handback = wk[w].handback]
    <3>1. wk' = [wk EXCEPT ![w] = new] \/ wk' = [wk EXCEPT ![w] = Idle(wk[w].phase)]
      BY <1>2 DEF ClaimFaults, ReleaseFaults
    <3>2. new.handback = wk[w].handback /\ Idle(wk[w].phase).handback = {}
      BY DEF Idle
    <3> HIDE DEF new
    <3> QED BY <3>1, <3>2 DEF Types
  <2>3. ~Calm(w)'
    BY <1>1, <2>1 DEF Calm, LeaseInv
  <2> QED BY <1>1, <2>1, <2>2, <2>3 DEF LeaseInv
<1>3. CASE Crash(w) \/ Restart(w)
  <2>1. ~Midway(w)' /\ wk'[w].phase = "up" /\ wk'[w].handback = {}
    BY <1>3, ReplacedEffect DEF Crash, Restart, Resets, Midway
  <2>2. mishaps' > 0
    BY <1>1, <1>3 DEF Crash, Mishap, Restart, LeaseInv
  <2>3. ~Calm(w)'
    BY <1>1, <2>1, <2>2 DEF Calm
  <2> QED BY <2>1, <2>3 DEF LeaseInv
<1> QED BY <1>2, <1>3

(* Leases and the books age together. *)
LEMMA PassBooks ==
  ASSUME LInv, Pass, NEW w \in Workers
  PROVE  LeaseInv(w)'
<1> USE DEF LInv
<1>1. /\ LeaseInv(w) /\ mishaps' = mishaps /\ wk[w].claimed \subseteq Ids
      /\ wk'[w].phase = wk[w].phase /\ wk'[w].pc = wk[w].pc
      /\ wk'[w].claimed = wk[w].claimed /\ wk'[w].handback = wk[w].handback
      /\ wk[w].pc # "idle" => wk'[w].now = wk[w].now - 1 /\ wk[w].now > -MaxTick
      /\ wk[w].now \in Int /\ HeldOK(held[w])
  <2>1. wk[w] \in TickRecord /\ HeldOK(held[w])
    BY DEF Types
  <2>2. wk[w].now \in Int
    BY <2>1, FloorType DEF TickRecord
  <2> DEFINE new == [wk[w] EXCEPT !.now = IF wk[w].pc = "idle" THEN 0 ELSE @ - 1,
                                  !.todo = {Later(snap) : snap \in @}]
  <2>3. /\ new.phase = wk[w].phase /\ new.pc = wk[w].pc /\ new.claimed = wk[w].claimed
        /\ new.handback = wk[w].handback
        /\ wk[w].pc # "idle" => new.now = wk[w].now - 1
    BY <2>1 DEF TickRecord
  <2>4. wk'[w] = new /\ mishaps' = mishaps /\ (wk[w].pc # "idle" => wk[w].now > -MaxTick)
    BY DEF Pass
  <2>5. LeaseInv(w) /\ wk[w].claimed \subseteq Ids
    BY <2>1 DEF TickRecord
  <2> HIDE DEF new
  <2> QED BY <2>1, <2>2, <2>3, <2>4, <2>5
<1>2. ASSUME NEW id \in Ids
      PROVE  /\ row[id].until \in Int
             /\ row'[id].by = row[id].by /\ row'[id].until = Ago(row[id].until)
  <2>1. row[id] \in RowRecord /\ row'[id] = [row[id] EXCEPT !.until = Ago(@), !.deadline = Ago(@)]
    BY DEF Pass, Types
  <2> QED BY <2>1 DEF RowRecord
<1>3. DOMAIN held'[w] = DOMAIN held[w]
      /\ \A id \in DOMAIN held[w] : held'[w][id] = Ago(held[w][id])
  BY DEF Pass
<1>4. ASSUME Midway(w)', NEW id \in wk'[w].claimed, row'[id].by = w
      PROVE  row'[id].until = wk'[w].now + TTL
  <2>1. Midway(w) /\ wk[w].pc # "idle" /\ id \in Ids /\ row[id].by = w
    BY <1>1, <1>2, <1>4 DEF Midway
  <2>2. row[id].until = wk[w].now + TTL
    BY <1>1, <1>4, <2>1 DEF LeaseInv
  <2>3. row[id].until > Floor
    BY <1>1, <2>1, <2>2, FloorType, WorkerConstants
  <2>4. row'[id].until = row[id].until - 1
    BY <1>2, <2>1, <2>3 DEF Ago
  <2> QED BY <1>1, <2>1, <2>2, <2>4, WorkerConstants
<1>5. ASSUME Calm(w)', NEW id \in Ids, row'[id].by = w
      PROVE  Covered(w, id)'
  <2>1. Calm(w) /\ row[id].by = w
    BY <1>1, <1>2, <1>5 DEF Calm
  <2>2. Covered(w, id)
    BY <1>1, <2>1 DEF LeaseInv
  <2>3. CASE id \in DOMAIN held[w] /\ row[id].until <= held[w][id]
    <3>1. held[w][id] \in Int
      BY <1>1, <2>3 DEF HeldOK
    <3>2. Ago(row[id].until) <= Ago(held[w][id])
      BY <1>2, <2>3, <3>1, FloorType DEF Ago
    <3> QED BY <1>2, <1>3, <2>3, <3>2 DEF Covered
  <2>4. CASE row[id].until <= 0
    <3>1. Ago(row[id].until) <= 0
      BY <1>2, <2>4, FloorType DEF Ago
    <3> QED BY <1>2, <3>1 DEF Covered
  <2> QED BY <1>1, <2>2, <2>3, <2>4 DEF Covered
<1> QED BY <1>1, <1>4, <1>5 DEF LeaseInv

LEMMA LeasesHold == Spec => []LInv
<1>1. Init => LInv
  <2> SUFFICES ASSUME Init PROVE LInv
    OBVIOUS
  <2>1. ASSUME NEW w \in Workers PROVE LeaseInv(w)
    <3>1. wk[w].pc = "idle" /\ wk[w].phase = "up" /\ wk[w].handback = {}
      BY DEF Init, Idle
    <3>2. \A id \in Ids : row[id].by # w
      BY WorkerConstants DEF Init, NoRow
    <3> QED BY <3>1, <3>2 DEF LeaseInv, Midway
  <2> QED BY <2>1, InitTypes DEF LInv
<1>2. LInv /\ [Next]_vars => LInv'
  <2> SUFFICES ASSUME LInv, [Next]_vars, NEW q \in Workers PROVE LeaseInv(q)'
    BY StepTypes DEF LInv
  <2>1. ASSUME NEW id \in Ids, Service(id) PROVE LeaseInv(q)'
    <3>1. wk' = wk /\ held' = held /\ mishaps' = mishaps
      BY <2>1 DEF Service, Submit, OnrampRecords, Pay, PaymentMoves
    <3>2. mishaps \in 0 .. MaxMishaps /\ MaxMishaps \in Nat
      BY WorkerConstants DEF LInv, Types
    <3>3. SameBooks(q) /\ mishaps' \in 0 .. MaxMishaps /\ mishaps' >= mishaps
      BY <3>1, <3>2 DEF SameBooks, Midway
    <3>4. \A other \in Ids : LeaseStands(q, other)
      BY <2>1, ServiceKeepsLeases DEF LInv
    <3> QED BY <3>3, <3>4, BooksCarryOver
  <2>2. ASSUME NEW w \in Workers, Tick(w) \/ Shutdown(w) \/ Mishaps(w), SameBooks(q),
               ~(w = q /\ (Claim(q) \/ ClaimFaults(q)))
        PROVE  LeaseInv(q)'
    <3>1. mishaps' \in 0 .. MaxMishaps /\ mishaps' >= mishaps
      BY <2>2, MishapsGrow DEF LInv
    <3>2. \A id \in Ids : LeaseStands(q, id)
      BY <2>2, ReplicasKeepLeases DEF LInv
    <3> QED BY <2>2, <3>1, <3>2, BooksCarryOver
  <2>3. ASSUME NEW w \in Workers \ {q}, Tick(w) \/ Shutdown(w) \/ Mishaps(w)
        PROVE  LeaseInv(q)'
    <3>1. SameBooks(q)
      BY <2>3, OtherBooks DEF LInv
    <3> QED BY <2>2, <2>3, <3>1
  <2>4. ASSUME Tick(q) \/ Shutdown(q) \/ Mishaps(q) PROVE LeaseInv(q)'
    <3>1. CASE StartTick(q) \/ Asks(q) \/ Writes(q)
      <4>1. SameBooks(q)
        BY <3>1, OwnBooks
      <4>2. ~Claim(q) /\ ~ClaimFaults(q)
        BY <3>1, StartEffect, AskEffect, WriteEffect DEF LInv, Claim, ClaimFaults
      <4> QED BY <2>2, <2>4, <4>1, <4>2
    <3>2. CASE Claim(q) \/ KeepBatch(q) \/ ReleaseBatch(q) \/ Stops(q)
               \/ ClaimFaults(q) \/ ReleaseFaults(q) \/ Crash(q) \/ Restart(q)
      BY <3>2, ClaimBooks, EndBooks, StopBooks, MishapBooks
    <3> QED BY <2>4, <3>1, <3>2 DEF Tick, Shutdown, Mishaps, Asks, Writes, Stops
  <2>5. CASE UNCHANGED vars
    BY <2>5 DEF vars, LInv, LeaseInv, Calm, Covered, Midway
  <2> QED BY <2>1, <2>3, <2>4, <2>5, PassBooks DEF Next
<1> QED BY <1>1, <1>2, PTL DEF Spec

(* A planned shutdown strands nothing: when stop() has returned after its  *)
(* last tick, and nothing failed, no lease of the process stands past now  *)
(* (the `finally' of tick, and stop's hand-back of `held').                *)
THEOREM ShutdownStrandsNothing == Spec => []StopHandsBack
<1>1. LInv => StopHandsBack
  <2> SUFFICES ASSUME LInv, NEW w \in Workers, wk[w].phase = "stopped", wk[w].pc = "idle",
                      held[w] = NoneHeld, mishaps = 1, NEW id \in Ids, row[id].by = w
               PROVE  row[id].until <= 0
    BY DEF StopHandsBack
  <2>1. Calm(w) /\ wk[w].claimed = {} /\ wk[w].handback = {}
    BY DEF Calm, LInv, LeaseInv, Batches, BatchOK, Midway
  <2>2. Covered(w, id)
    BY <2>1 DEF LInv, LeaseInv
  <2>3. DOMAIN held[w] = {}
    BY DEF NoneHeld
  <2> QED BY <2>1, <2>2, <2>3 DEF Covered
<1> QED BY <1>1, LeasesHold, PTL
=============================================================================
