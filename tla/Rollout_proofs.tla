--------------------------- MODULE Rollout_proofs ---------------------------
(***************************************************************************)
(* What Rollout says of any number of pods, of any builds, over any        *)
(* database: boots never collide, nobody serves on an older shape, the     *)
(* pool outlives its users and a failed boot leaves nothing behind.        *)
(***************************************************************************)
EXTENDS Rollout, TLAPS

(* The types, with the records in full. *)
PodRecord ==
  [pc : {"down", "locking", "locked", "migrating", "building", "proving",
         "pricing", "opening", "listening", "serving", "failing"},
   version : Nat, fresh : BOOLEAN,
   pool : {"off", "open", "ending", "ended"}, out : SUBSET Users,
   part : [Parts -> {"off", "on", "busy", "adrift"}], closing : [Closers -> 0..Closed]]

Types ==
  /\ db \in [shape : Nat, version : Nat]
  /\ holder \in Pods \cup {None}
  /\ pod \in [Pods -> PodRecord]

(* The migration: what the lock, the stamps and the version check give.    *)

LockIsHeld == \A p \in Pods : holder = p <=> pod[p].pc \in {"locked", "migrating"}

(* A step and its stamp commit together. *)
StampIsTrue == db.version \in {0, db.shape}

(* What a pod read under the lock stays true while it holds it. *)
ReadIsCurrent ==
  \A p \in Pods : pod[p].pc = "migrating" =>
    pod[p].version = db.version /\ (pod[p].fresh <=> db.shape = 0)

(* Past the check of its version a pod has at least the shape it needs. *)
Checked == {"building", "proving", "pricing", "opening", "listening", "serving"}
CheckedIsEnough ==
  \A p \in Pods : pod[p].pc \in Checked => db.version = db.shape /\ db.version >= SCHEMA_VERSION[p]

MigrationPart == LockIsHeld /\ StampIsTrue /\ ReadIsCurrent /\ CheckedIsEnough

(* A pod's life, by its record alone. *)

(* Nothing runs before the port is open, nor after a failed boot. *)
OffUntilOpen(r) == r.pc \notin {"listening", "serving"} => \A x \in Parts : r.part[x] = "off"

NotClosingYet(r) == r.pc \notin {"failing", "serving"} => \A c \in Closers : r.closing[c] = 0

(* close() leaves a part behind only quiet, or past its grace. *)
PartStages == {1, 3, 4, 5}
PassedIsQuiet(r) ==
  \A c \in Closers, i \in PartStages : r.closing[c] > i => r.part[StopOrder[i]] \in {"off", "adrift"}

(* A pool that is ending has a close() that waits for it, and one that has *)
(* ended has every client back.                                            *)
PoolEndsLast(r) ==
  /\ r.pool = "off" <=> r.pc = "down"
  /\ r.pool = "open" => \A c \in Closers : r.closing[c] < Ending
  /\ r.pool = "ending" => \E c \in Closers : r.closing[c] = Ending
  /\ r.pool = "ended" => r.out = {} /\ \E c \in Closers : r.closing[c] = Closed

(* Only a pod that serves is closed by a signal. *)
SignalsOnlyServing(r) == r.pc # "serving" => \A c \in Closers \ {"boot"} : r.closing[c] = 0

LifeOK(r) ==
  /\ OffUntilOpen(r) /\ NotClosingYet(r) /\ PassedIsQuiet(r)
  /\ PoolEndsLast(r) /\ SignalsOnlyServing(r)
LifePart == \A p \in Pods : LifeOK(pod[p])

RolloutInv == Types /\ MigrationPart /\ LifePart
-----------------------------------------------------------------------------
(* The order of close(): where each part has its turn. *)
LEMMA StopOrderFacts ==
  /\ StopStages = 1..6
  /\ StopOrder[1] = "worker" /\ StopOrder[2] = "release" /\ StopOrder[3] = "probes"
  /\ StopOrder[4] = "refresh" /\ StopOrder[5] = "server" /\ StopOrder[6] = "pool"
  BY DEF StopStages, StopOrder

LEMMA TurnOfPart ==
  ASSUME NEW x \in Parts
  PROVE  \E i \in PartStages :
           /\ StopOrder[i] = x
           /\ \A j \in PartStages : StopOrder[j] = x => j = i
           /\ i = CHOOSE j \in StopStages : StopOrder[j] = x
<1>1. \E i \in PartStages : StopOrder[i] = x
  BY StopOrderFacts DEF Parts, Loops, PartStages
<1>2. \A i, j \in StopStages : StopOrder[i] = x /\ StopOrder[j] = x => i = j
  BY StopOrderFacts
<1>3. \E i \in StopStages : StopOrder[i] = x
  BY <1>1, StopOrderFacts DEF PartStages
<1>4. (CHOOSE j \in StopStages : StopOrder[j] = x) \in StopStages
      /\ StopOrder[CHOOSE j \in StopStages : StopOrder[j] = x] = x
  BY <1>3
<1> QED BY <1>1, <1>2, <1>4, StopOrderFacts DEF PartStages

(* A part that was asked to stop is one that a close() has come to. *)
LEMMA AskedMeans ==
  ASSUME NEW p \in Pods, NEW i \in PartStages, NEW x \in Parts, StopOrder[i] = x
  PROVE  Asked(p, x) <=> \E c \in Closers : pod[p].closing[c] >= i
<1>1. PICK j \in PartStages :
        /\ \A k \in PartStages : StopOrder[k] = x => k = j
        /\ j = CHOOSE k \in StopStages : StopOrder[k] = x
  BY TurnOfPart
<1>2. i = CHOOSE k \in StopStages : StopOrder[k] = x
  BY <1>1
<1> QED BY <1>2 DEF Asked

(* A step writes one pod's record: it is enough to look at that record.    *)
LEMMA SetWrites ==
  ASSUME Types, LifePart, NEW p \in Pods, NEW new, Set(p, new),
         new \in PodRecord, LifeOK(new)
  PROVE  /\ pod' \in [Pods -> PodRecord]
         /\ LifePart'
         /\ pod'[p] = new
         /\ \A q \in Pods \ {p} : pod'[q] = pod[q]
<1>1. /\ pod' \in [Pods -> PodRecord]
      /\ pod'[p] = new
      /\ \A q \in Pods \ {p} : pod'[q] = pod[q]
  BY DEF Types, Set
<1>2. \A q \in Pods : LifeOK(pod'[q])
  <2> TAKE q \in Pods
  <2>1. CASE q = p
    BY <1>1, <2>1
  <2>2. CASE q # p
    <3>1. pod'[q] = pod[q] /\ LifeOK(pod[q])
      BY <1>1, <2>2 DEF LifePart
    <3> QED BY <3>1
  <2> QED BY <2>1, <2>2
<1>3. LifePart'
  BY <1>2 DEF LifePart
<1> QED BY <1>1, <1>3

LEMMA DownIsSafe == Down \in PodRecord /\ LifeOK(Down)
<1>1. Down \in PodRecord
  BY DEF Down, PodRecord, Closed
<1>2. Down.pc = "down" /\ Down.pool = "off"
  BY DEF Down
<1>3. \A x \in Parts : Down.part[x] = "off"
  BY DEF Down
<1>4. \A c \in Closers : Down.closing[c] = 0
  BY DEF Down
<1> QED BY <1>1, <1>2, <1>3, <1>4 DEF LifeOK, OffUntilOpen, NotClosingYet, PassedIsQuiet, PoolEndsLast,
                                             SignalsOnlyServing, PartStages, Closed

(* The boot goes on, or fails with nothing running yet. *)
LEMMA GoesIsSafe ==
  ASSUME NEW r \in PodRecord, LifeOK(r), NEW pc,
         r.pc \in {"locking", "locked", "migrating", "building", "proving", "pricing", "opening"},
         pc \in {"locked", "migrating", "building", "proving", "pricing", "opening"}
  PROVE  [r EXCEPT !.pc = pc] \in PodRecord /\ LifeOK([r EXCEPT !.pc = pc])
  BY DEF PodRecord, LifeOK, OffUntilOpen, NotClosingYet, PassedIsQuiet, PoolEndsLast, SignalsOnlyServing

FailedRecord(r, stage) == [r EXCEPT !.pc = "failing", !.closing["boot"] = stage]

LEMMA FailsIsSafe ==
  ASSUME NEW r \in PodRecord, LifeOK(r), NEW stage \in 1..6,
         r.pc \in {"locking", "locked", "migrating", "building", "proving", "pricing", "opening"}
  PROVE  /\ FailedRecord(r, stage) \in PodRecord /\ LifeOK(FailedRecord(r, stage))
         /\ FailedRecord(r, stage).pc = "failing"
<1> DEFINE closing == [r.closing EXCEPT !["boot"] = stage]
           new == [r EXCEPT !.pc = "failing", !.closing = closing]
<1>1. FailedRecord(r, stage) = new
  BY DEF PodRecord, FailedRecord
<1>2. closing \in [Closers -> 0..Closed] /\ \A c \in Closers : closing[c] < Ending
  <2>1. r.closing \in [Closers -> 0..Closed]
    BY DEF PodRecord
  <2>2. \A c \in Closers : r.closing[c] = 0
    BY DEF LifeOK, NotClosingYet
  <2>3. Closed = 8 /\ Ending = 7
    BY DEF Closed, Ending
  <2>4. closing \in [Closers -> 0..Closed]
    <3>1. stage \in 0..Closed
      BY <2>3
    <3> QED BY <2>1, <3>1, Zenon
  <2>5. \A c \in Closers : closing[c] = IF c = "boot" THEN stage ELSE 0
    BY <2>1, <2>2
  <2> QED BY <2>3, <2>4, <2>5
<1>3. new \in PodRecord
  BY <1>2 DEF PodRecord
<1>4. /\ new.pc = "failing" /\ new.part = r.part /\ new.pool = r.pool /\ new.closing = closing
      /\ \A c \in Closers \ {"boot"} : closing[c] = 0
  BY DEF PodRecord, LifeOK, NotClosingYet
<1>5. \A x \in Parts : r.part[x] = "off"
  BY DEF LifeOK, OffUntilOpen
<1>6. r.pool = "open"
  BY DEF LifeOK, PoolEndsLast, NotClosingYet, Closed, Ending, PodRecord
<1>7. PassedIsQuiet(new)
  <2>1. \A i \in PartStages : StopOrder[i] \in Parts
    BY StopOrderFacts DEF Parts, Loops, PartStages
  <2> QED BY <1>4, <1>5, <2>1 DEF PassedIsQuiet
<1>8. OffUntilOpen(new) /\ NotClosingYet(new) /\ PoolEndsLast(new) /\ SignalsOnlyServing(new)
  BY <1>2, <1>4, <1>5, <1>6 DEF OffUntilOpen, NotClosingYet, PoolEndsLast, SignalsOnlyServing
<1> HIDE DEF new
<1> QED BY <1>1, <1>3, <1>4, <1>7, <1>8 DEF LifeOK
-----------------------------------------------------------------------------
(* The steps of the lock and the migration *)

(* A step that leaves the database alone, and the lock unless it frees it. *)
LEMMA QuietKeepsMigration ==
  ASSUME Types, MigrationPart, NEW p \in Pods, db' = db, holder' = holder,
         \A q \in Pods \ {p} : pod'[q] = pod[q],
         pod'[p].pc \in {"locked", "migrating"} <=> pod[p].pc \in {"locked", "migrating"},
         pod'[p].pc = "migrating" => pod'[p].version = db.version /\ (pod'[p].fresh <=> db.shape = 0),
         pod'[p].pc \in Checked => pod[p].pc \in Checked
  PROVE  MigrationPart'
<1> USE DEF MigrationPart
<1>1. LockIsHeld'
  BY DEF LockIsHeld
<1>2. StampIsTrue'
  BY DEF StampIsTrue
<1>3. ReadIsCurrent'
  BY DEF ReadIsCurrent
<1>4. CheckedIsEnough'
  BY DEF CheckedIsEnough
<1> QED BY <1>1, <1>2, <1>3, <1>4

LEMMA LeavingKeepsMigration ==
  ASSUME RolloutConstants, Types, MigrationPart, NEW p \in Pods, db' = db, Frees(p),
         \A q \in Pods \ {p} : pod'[q] = pod[q],
         pod'[p].pc \notin {"locked", "migrating"},
         pod'[p].pc \in Checked => db.version = db.shape /\ db.version >= SCHEMA_VERSION[p]
  PROVE  MigrationPart' /\ holder' \in Pods \cup {None}
<1> USE DEF MigrationPart
<1>1. LockIsHeld'
  BY DEF LockIsHeld, Frees, Types, RolloutConstants
<1>2. StampIsTrue'
  BY DEF StampIsTrue
<1>3. ReadIsCurrent'
  BY DEF ReadIsCurrent
<1>4. CheckedIsEnough'
  BY DEF CheckedIsEnough
<1> QED BY <1>1, <1>2, <1>3, <1>4 DEF Frees, Types

(* A step of the migration fits, and its commit leads to a version.        *)
LEMMA NextStepFits ==
  ASSUME RolloutConstants, Types, MigrationPart, NEW p \in Pods,
         pod[p].pc = "migrating", StepTo(p) # 0
  PROVE  Fits(p) /\ StepTo(p) \in Nat /\ StepTo(p) > db.version
<1>1. /\ pod[p] \in PodRecord /\ pod[p].version \in Nat
      /\ pod[p].version = db.version /\ (pod[p].fresh <=> db.shape = 0)
      /\ db.version \in {0, db.shape} /\ db.shape \in Nat
  BY DEF Types, PodRecord, MigrationPart, ReadIsCurrent, StampIsTrue
<1>2. SCHEMA_VERSION[p] \in Nat \ {0}
  BY DEF RolloutConstants
<1>3. CASE pod[p].fresh
  BY <1>1, <1>2, <1>3 DEF StepTo, Fits
<1>4. CASE ~pod[p].fresh
  BY <1>1, <1>2, <1>4 DEF StepTo, Fits
<1> QED BY <1>3, <1>4

LEMMA CommittedKeepsMigration ==
  ASSUME RolloutConstants, Types, MigrationPart, NEW p \in Pods,
         pod[p].pc = "migrating", StepTo(p) # 0,
         db' = Stamped(p), \A q \in Pods \ {p} : pod'[q] = pod[q],
         \/ /\ holder' = holder
            /\ pod'[p].pc = "migrating" /\ pod'[p].version = StepTo(p) /\ pod'[p].fresh = FALSE
         \/ Frees(p) /\ pod'[p].pc = "failing"
  PROVE  /\ MigrationPart'
         /\ db' \in [shape : Nat, version : Nat]
         /\ holder' \in Pods \cup {None}
<1>1. /\ StepTo(p) \in Nat /\ StepTo(p) > db.version /\ StepTo(p) > 0
      /\ db' = [shape |-> StepTo(p), version |-> StepTo(p)]
  BY NextStepFits DEF Stamped
<1>2. holder = p /\ \A q \in Pods \ {p} : pod[q].pc \notin {"locked", "migrating"}
  BY DEF MigrationPart, LockIsHeld
<1>3. db.version \in Nat
  BY DEF Types
<1>4. LockIsHeld'
  BY <1>2 DEF MigrationPart, LockIsHeld, Frees, RolloutConstants
<1>5. StampIsTrue'
  BY <1>1 DEF StampIsTrue
<1>6. ReadIsCurrent'
  BY <1>1, <1>2 DEF ReadIsCurrent
<1>7. CheckedIsEnough'
  <2> SUFFICES ASSUME NEW q \in Pods, pod'[q].pc \in Checked
               PROVE  db'.version = db'.shape /\ db'.version >= SCHEMA_VERSION[q]
    BY DEF CheckedIsEnough
  <2>1. q # p
    BY DEF Checked
  <2>2. db.version >= SCHEMA_VERSION[q]
    BY <2>1 DEF MigrationPart, CheckedIsEnough
  <2>3. SCHEMA_VERSION[q] \in Nat
    BY DEF RolloutConstants
  <2> QED BY <1>1, <1>3, <2>2, <2>3
<1>8. db' \in [shape : Nat, version : Nat] /\ holder' \in Pods \cup {None}
  BY <1>1, <1>2 DEF Frees
<1> QED BY <1>4, <1>5, <1>6, <1>7, <1>8 DEF MigrationPart

LEMMA MigrationSteps ==
  ASSUME RolloutConstants, RolloutInv, NEW p \in Pods,
         \/ Boot(p) \/ Lock(p) \/ LockTimeout(p) \/ ReadVersion(p) \/ Commit(p)
         \/ Rollback(p) \/ LoseConnection(p) \/ Unlock(p)
  PROVE  RolloutInv'
<1>1. Types /\ MigrationPart /\ LifePart
  BY DEF RolloutInv
<1>2. pod[p] \in PodRecord /\ LifeOK(pod[p])
  BY <1>1 DEF Types, LifePart
<1>3. ASSUME NEW stage \in 1..6, FailsAt(p, stage),
             pod[p].pc \in {"locking", "locked", "migrating", "building", "proving", "pricing", "opening"}
      PROVE  /\ pod' \in [Pods -> PodRecord] /\ LifePart' /\ pod'[p].pc = "failing"
             /\ \A q \in Pods \ {p} : pod'[q] = pod[q]
  <2> DEFINE new == FailedRecord(pod[p], stage)
  <2>1. new \in PodRecord /\ LifeOK(new) /\ new.pc = "failing"
    BY <1>2, <1>3, FailsIsSafe
  <2>2. Set(p, new)
    BY <1>3 DEF FailsAt, FailedRecord
  <2> HIDE DEF new
  <2> QED BY <1>1, <2>1, <2>2, SetWrites
<1>4. ASSUME NEW pc, Goes(p, pc), pc \in {"locked", "building"},
             pod[p].pc \in {"locking", "migrating"}
      PROVE  /\ pod' \in [Pods -> PodRecord] /\ LifePart' /\ pod'[p].pc = pc
             /\ \A q \in Pods \ {p} : pod'[q] = pod[q]
  <2>1. [pod[p] EXCEPT !.pc = pc] \in PodRecord /\ LifeOK([pod[p] EXCEPT !.pc = pc])
    BY <1>2, <1>4, GoesIsSafe
  <2>2. [pod[p] EXCEPT !.pc = pc].pc = pc
    BY <1>2 DEF PodRecord
  <2> QED BY <1>1, <1>4, <2>1, <2>2, SetWrites DEF Goes
<1>5. CASE Boot(p)
  <2> DEFINE new == [Down EXCEPT !.pc = "locking", !.pool = "open"]
  <2>0. /\ new.pc = "locking" /\ new.pool = "open"
        /\ \A x \in Parts : new.part[x] = "off"
        /\ \A c \in Closers : new.closing[c] = 0
    BY DEF Down
  <2>1. new \in PodRecord /\ LifeOK(new) /\ new.pc = "locking"
    <3>1. new \in PodRecord
      BY DownIsSafe DEF PodRecord
    <3> HIDE DEF new
    <3> QED BY <2>0, <3>1 DEF LifeOK, OffUntilOpen, NotClosingYet, PassedIsQuiet,
                              PoolEndsLast, SignalsOnlyServing, PartStages, Ending
  <2>2. Set(p, new) /\ pod[p].pc = "down" /\ db' = db /\ holder' = holder
    BY <1>5 DEF Boot, Is
  <2> HIDE DEF new
  <2>3. /\ pod' \in [Pods -> PodRecord] /\ LifePart' /\ pod'[p].pc = "locking"
        /\ \A q \in Pods \ {p} : pod'[q] = pod[q]
    BY <1>1, <2>1, <2>2, SetWrites
  <2>4. MigrationPart'
    BY <1>1, <2>2, <2>3, QuietKeepsMigration DEF Checked
  <2> QED BY <1>1, <2>2, <2>3, <2>4 DEF RolloutInv, Types
<1>6. CASE Lock(p)
  <2>1. /\ pod' \in [Pods -> PodRecord] /\ LifePart' /\ pod'[p].pc = "locked"
        /\ \A q \in Pods \ {p} : pod'[q] = pod[q]
    BY <1>4, <1>6 DEF Lock, Is
  <2>2. holder = None /\ holder' = p /\ db' = db
    BY <1>6 DEF Lock
  <2>3. LockIsHeld'
    BY <1>1, <2>1, <2>2 DEF MigrationPart, LockIsHeld, RolloutConstants
  <2>4. StampIsTrue' /\ ReadIsCurrent' /\ CheckedIsEnough'
    BY <1>1, <2>1, <2>2 DEF MigrationPart, StampIsTrue, ReadIsCurrent, CheckedIsEnough, Checked
  <2> QED BY <1>1, <2>1, <2>2, <2>3, <2>4 DEF RolloutInv, Types, MigrationPart
<1>7. CASE LockTimeout(p)
  <2>1. /\ pod' \in [Pods -> PodRecord] /\ LifePart' /\ pod'[p].pc = "failing"
        /\ \A q \in Pods \ {p} : pod'[q] = pod[q]
    BY <1>3, <1>7 DEF LockTimeout, Is, PoolStage
  <2>2. pod[p].pc = "locking" /\ db' = db /\ holder' = holder
    BY <1>7 DEF LockTimeout, Is
  <2>3. MigrationPart'
    BY <1>1, <2>1, <2>2, QuietKeepsMigration DEF Checked
  <2> QED BY <1>1, <2>1, <2>2, <2>3 DEF RolloutInv, Types
<1>8. CASE ReadVersion(p)
  <2> DEFINE new == [pod[p] EXCEPT !.pc = "migrating", !.version = db.version, !.fresh = db.shape = 0]
  <2>1. pod[p].pc = "locked" /\ Set(p, new) /\ db' = db /\ holder' = holder
    BY <1>8 DEF ReadVersion, Is
  <2>2. /\ new \in PodRecord /\ LifeOK(new)
        /\ new.pc = "migrating" /\ new.version = db.version /\ new.fresh = (db.shape = 0)
    BY <1>1, <1>2, <2>1
       DEF Types, PodRecord, LifeOK, OffUntilOpen, NotClosingYet, PassedIsQuiet, PoolEndsLast, SignalsOnlyServing
  <2> HIDE DEF new
  <2>3. /\ pod' \in [Pods -> PodRecord] /\ LifePart' /\ pod'[p] = new
        /\ \A q \in Pods \ {p} : pod'[q] = pod[q]
    BY <1>1, <2>1, <2>2, SetWrites
  <2>4. MigrationPart'
    BY <1>1, <2>1, <2>2, <2>3, QuietKeepsMigration DEF Checked
  <2> QED BY <1>1, <2>1, <2>3, <2>4 DEF RolloutInv, Types
<1>9. CASE Commit(p)
  <2> DEFINE new == [pod[p] EXCEPT !.version = StepTo(p), !.fresh = FALSE]
  <2>1. /\ pod[p].pc = "migrating" /\ StepTo(p) # 0 /\ db' = Stamped(p)
        /\ Set(p, new) /\ holder' = holder
    BY <1>9 DEF Commit, Is
  <2>2. StepTo(p) \in Nat
    BY <1>1, <2>1, NextStepFits
  <2>3. /\ new \in PodRecord /\ LifeOK(new)
        /\ new.pc = "migrating" /\ new.version = StepTo(p) /\ new.fresh = FALSE
    BY <1>2, <2>1, <2>2
       DEF PodRecord, LifeOK, OffUntilOpen, NotClosingYet, PassedIsQuiet, PoolEndsLast, SignalsOnlyServing
  <2> HIDE DEF new
  <2>4. /\ pod' \in [Pods -> PodRecord] /\ LifePart' /\ pod'[p] = new
        /\ \A q \in Pods \ {p} : pod'[q] = pod[q]
    BY <1>1, <2>1, <2>3, SetWrites
  <2>5. /\ MigrationPart' /\ db' \in [shape : Nat, version : Nat] /\ holder' \in Pods \cup {None}
    BY <1>1, <2>1, <2>3, <2>4, CommittedKeepsMigration
  <2> QED BY <2>4, <2>5 DEF RolloutInv, Types
<1>10. CASE Rollback(p)
  <2>1. /\ pod' \in [Pods -> PodRecord] /\ LifePart' /\ pod'[p].pc = "failing"
        /\ \A q \in Pods \ {p} : pod'[q] = pod[q]
    BY <1>3, <1>10 DEF Rollback, Is, PoolStage
  <2>2. db' = db /\ Frees(p)
    BY <1>10 DEF Rollback
  <2>3. MigrationPart' /\ holder' \in Pods \cup {None}
    BY <1>1, <2>1, <2>2, LeavingKeepsMigration DEF Checked
  <2> QED BY <1>1, <2>1, <2>2, <2>3 DEF RolloutInv, Types
<1>11. CASE LoseConnection(p)
  <2>1. /\ pod' \in [Pods -> PodRecord] /\ LifePart' /\ pod'[p].pc = "failing"
        /\ \A q \in Pods \ {p} : pod'[q] = pod[q]
    BY <1>3, <1>11 DEF LoseConnection, PoolStage
  <2>2. Frees(p) /\ (db' = db \/ (pod[p].pc = "migrating" /\ StepTo(p) # 0 /\ db' = Stamped(p)))
    BY <1>11 DEF LoseConnection, Is
  <2>3. CASE db' = db
    <3>1. Frees(p) /\ pod'[p].pc \notin Checked \cup {"locked", "migrating"}
      BY <2>1, <2>2 DEF Checked
    <3>2. MigrationPart' /\ holder' \in Pods \cup {None}
      BY <1>1, <2>1, <2>3, <3>1, LeavingKeepsMigration
    <3> QED BY <1>1, <2>1, <2>3, <3>2 DEF RolloutInv, Types
  <2>4. CASE pod[p].pc = "migrating" /\ StepTo(p) # 0 /\ db' = Stamped(p)
    <3>1. /\ MigrationPart' /\ db' \in [shape : Nat, version : Nat] /\ holder' \in Pods \cup {None}
      BY <1>1, <2>1, <2>2, <2>4, CommittedKeepsMigration
    <3> QED BY <2>1, <3>1 DEF RolloutInv, Types
  <2> QED BY <2>2, <2>3, <2>4
<1>12. CASE Unlock(p)
  <2>1. pod[p].pc = "migrating" /\ StepTo(p) = 0 /\ Frees(p) /\ db' = db
    BY <1>12 DEF Unlock, Is
  <2>2. CASE Acceptable(p)
    <3>1. /\ pod' \in [Pods -> PodRecord] /\ LifePart' /\ pod'[p].pc = "building"
          /\ \A q \in Pods \ {p} : pod'[q] = pod[q]
      BY <1>4, <1>12, <2>1, <2>2 DEF Unlock
    <3>2. db.version >= SCHEMA_VERSION[p] /\ db.version = db.shape
      BY <1>1, <2>1, <2>2 DEF Acceptable, MigrationPart, ReadIsCurrent, StampIsTrue, RolloutConstants
    <3>3. pod'[p].pc \notin {"locked", "migrating"}
      BY <3>1
    <3>4. MigrationPart' /\ holder' \in Pods \cup {None}
      BY <1>1, <2>1, <3>1, <3>2, <3>3, LeavingKeepsMigration
    <3> QED BY <1>1, <2>1, <3>1, <3>4 DEF RolloutInv, Types
  <2>3. CASE ~Acceptable(p)
    <3>1. /\ pod' \in [Pods -> PodRecord] /\ LifePart' /\ pod'[p].pc = "failing"
          /\ \A q \in Pods \ {p} : pod'[q] = pod[q]
      BY <1>3, <1>12, <2>1, <2>3 DEF Unlock, PoolStage
    <3>2. MigrationPart' /\ holder' \in Pods \cup {None}
      BY <1>1, <2>1, <3>1, LeavingKeepsMigration DEF Checked
    <3> QED BY <1>1, <2>1, <3>1, <3>2 DEF RolloutInv, Types
  <2> QED BY <2>2, <2>3
<1> QED BY <1>5, <1>6, <1>7, <1>8, <1>9, <1>10, <1>11, <1>12
-----------------------------------------------------------------------------
(* The steps of a pod's life *)

LEMMA PartIsSafe ==
  ASSUME NEW p \in Pods, pod[p] \in PodRecord, LifeOK(pod[p]), NEW x \in Parts, NEW state,
         state \in {"off", "on", "busy"}, pod[p].pc \in {"listening", "serving"},
         state # "off" => ~Asked(p, x)
  PROVE  /\ [pod[p] EXCEPT !.part[x] = state] \in PodRecord
         /\ LifeOK([pod[p] EXCEPT !.part[x] = state])
         /\ [pod[p] EXCEPT !.part[x] = state].pc = pod[p].pc
<1> DEFINE r == pod[p]
           part == [r.part EXCEPT ![x] = state]
           new == [r EXCEPT !.part = part]
<1>1. [pod[p] EXCEPT !.part[x] = state] = new
  BY DEF PodRecord
<1>2. part \in [Parts -> {"off", "on", "busy", "adrift"}]
  <2>1. r.part \in [Parts -> {"off", "on", "busy", "adrift"}]
    BY DEF PodRecord
  <2> QED BY <2>1
<1>3. new \in PodRecord
  BY <1>2 DEF PodRecord
<1>4. /\ new.pc = r.pc /\ new.pool = r.pool /\ new.closing = r.closing /\ new.part = part
      /\ new.out = r.out
  BY DEF PodRecord
<1>5. PassedIsQuiet(new)
  <2> SUFFICES ASSUME NEW c \in Closers, NEW i \in PartStages, r.closing[c] > i
               PROVE  part[StopOrder[i]] \in {"off", "adrift"}
    BY <1>4 DEF PassedIsQuiet
  <2>1. StopOrder[i] \in Parts /\ r.part[StopOrder[i]] \in {"off", "adrift"}
    BY StopOrderFacts DEF LifeOK, PassedIsQuiet, Parts, Loops, PartStages
  <2>2. CASE StopOrder[i] = x
    <3>1. r.closing[c] >= i
      BY DEF PodRecord, Closed, PartStages
    <3>2. Asked(p, x)
      BY <2>2, <3>1, AskedMeans
    <3> QED BY <1>2, <2>1, <2>2, <3>2
  <2>3. CASE StopOrder[i] # x
    <3>1. part[StopOrder[i]] = r.part[StopOrder[i]]
      BY <2>1, <2>3 DEF PodRecord
    <3> QED BY <2>1, <3>1
  <2> QED BY <2>2, <2>3
<1>6. OffUntilOpen(new) /\ NotClosingYet(new) /\ PoolEndsLast(new) /\ SignalsOnlyServing(new)
  BY <1>4 DEF LifeOK, OffUntilOpen, NotClosingYet, PoolEndsLast, SignalsOnlyServing
<1> HIDE DEF new
<1> QED BY <1>1, <1>3, <1>4, <1>5, <1>6 DEF LifeOK

(* A client handed back, or handed out by an open pool. *)
LEMMA ClientIsSafe ==
  ASSUME NEW r \in PodRecord, LifeOK(r), NEW out \in SUBSET Users,
         out \subseteq r.out \/ r.pool = "open"
  PROVE  /\ [r EXCEPT !.out = out] \in PodRecord /\ LifeOK([r EXCEPT !.out = out])
         /\ [r EXCEPT !.out = out].pc = r.pc
<1> DEFINE new == [r EXCEPT !.out = out]
<1>1. new \in PodRecord
  BY DEF PodRecord
<1>2. /\ new.pc = r.pc /\ new.pool = r.pool /\ new.part = r.part /\ new.closing = r.closing
      /\ new.out = out
  BY DEF PodRecord
<1> HIDE DEF new
<1>3. PoolEndsLast(new)
  BY <1>2 DEF LifeOK, PoolEndsLast
<1>4. LifeOK(new)
  BY <1>2, <1>3 DEF LifeOK, OffUntilOpen, NotClosingYet, PassedIsQuiet, SignalsOnlyServing
<1> QED BY <1>1, <1>2, <1>4 DEF new

(* A pod that serves keeps serving; one whose boot failed keeps failing.   *)
LEMMA ServingKeepsMigration ==
  ASSUME RolloutInv, NEW p \in Pods, NEW new, Set(p, new), db' = db, holder' = holder,
         new \in PodRecord, LifeOK(new),
         \/ pod[p].pc \in {"building", "proving", "pricing", "opening", "listening", "serving"}
         \/ pod[p].pc = "failing" /\ new.pc = "failing",
         new.pc \in {"proving", "pricing", "opening", "listening", "serving", "failing"}
  PROVE  RolloutInv'
<1>1. Types /\ MigrationPart /\ LifePart
  BY DEF RolloutInv
<1>2. /\ pod' \in [Pods -> PodRecord] /\ LifePart' /\ pod'[p] = new
      /\ \A q \in Pods \ {p} : pod'[q] = pod[q]
  BY <1>1, SetWrites
<1>3. MigrationPart'
  BY <1>1, <1>2, QuietKeepsMigration DEF Checked
<1> QED BY <1>1, <1>2, <1>3 DEF RolloutInv, Types

LEMMA ExitKeepsInv ==
  ASSUME RolloutConstants, RolloutInv, NEW p \in Pods, Set(p, Down), db' = db,
         \/ holder' = holder /\ pod[p].pc \in {"failing", "serving"}
         \/ Frees(p)
  PROVE  RolloutInv'
<1>1. Types /\ MigrationPart /\ LifePart
  BY DEF RolloutInv
<1>2. /\ pod' \in [Pods -> PodRecord] /\ LifePart' /\ pod'[p] = Down
      /\ \A q \in Pods \ {p} : pod'[q] = pod[q]
  BY <1>1, DownIsSafe, SetWrites
<1>3. pod'[p].pc = "down"
  BY <1>2 DEF Down
<1>4. pod'[p].pc \notin Checked \cup {"locked", "migrating"}
  BY <1>3 DEF Checked
<1>5. MigrationPart' /\ holder' \in Pods \cup {None}
  <2>1. CASE Frees(p)
    BY <1>1, <1>2, <1>4, <2>1, LeavingKeepsMigration
  <2>2. CASE holder' = holder /\ pod[p].pc \in {"failing", "serving"}
    <3>1. MigrationPart'
      BY <1>1, <1>2, <1>4, <2>2, QuietKeepsMigration
    <3> QED BY <1>1, <2>2, <3>1 DEF Types
  <2> QED BY <2>1, <2>2
<1> QED BY <1>1, <1>2, <1>5 DEF RolloutInv, Types

LEMMA BootSteps ==
  ASSUME RolloutInv, NEW p \in Pods,
         BuildServer(p) \/ VerifyKey(p) \/ VerifyAssetCodes(p) \/ Listen(p) \/ StartLoops(p)
  PROVE  RolloutInv'
<1>1. pod[p] \in PodRecord /\ LifeOK(pod[p])
  BY DEF RolloutInv, Types, LifePart
<1>2. ASSUME Fatal(p), db' = db, holder' = holder,
             pod[p].pc \in {"building", "proving", "pricing", "opening"}
      PROVE  RolloutInv'
  <2> DEFINE new == FailedRecord(pod[p], 1)
  <2>1. Set(p, new)
    BY <1>2 DEF Fatal, FailsAt, FailedRecord
  <2>2. new \in PodRecord /\ LifeOK(new) /\ new.pc = "failing"
    BY <1>1, <1>2, FailsIsSafe
  <2> HIDE DEF new
  <2> QED BY <1>2, <2>1, <2>2, ServingKeepsMigration
<1>3. ASSUME NEW pc \in {"proving", "pricing", "opening"}, Goes(p, pc), db' = db, holder' = holder,
             pod[p].pc \in {"building", "proving", "pricing"}
      PROVE  RolloutInv'
  <2> DEFINE new == [pod[p] EXCEPT !.pc = pc]
  <2>1. Set(p, new)
    BY <1>3 DEF Goes
  <2>2. new \in PodRecord /\ LifeOK(new)
    BY <1>1, <1>3, GoesIsSafe
  <2>3. new.pc = pc
    BY <1>1 DEF PodRecord
  <2> HIDE DEF new
  <2> QED BY <1>3, <2>1, <2>2, <2>3, ServingKeepsMigration
<1>4. CASE BuildServer(p)
  <2>1. pod[p].pc = "building" /\ db' = db /\ holder' = holder /\ (Goes(p, "proving") \/ Fatal(p))
    BY <1>4 DEF BuildServer, Is
  <2> QED BY <1>2, <1>3, <2>1
<1>5. CASE VerifyKey(p)
  <2>1. pod[p].pc = "proving" /\ db' = db /\ holder' = holder /\ (Goes(p, "pricing") \/ Fatal(p))
    BY <1>5 DEF VerifyKey, Is
  <2> QED BY <1>2, <1>3, <2>1
<1>6. CASE VerifyAssetCodes(p)
  <2>1. pod[p].pc = "pricing" /\ db' = db /\ holder' = holder /\ (Goes(p, "opening") \/ Fatal(p))
    BY <1>6 DEF VerifyAssetCodes, Is
  <2> QED BY <1>2, <1>3, <2>1
<1>7. CASE Listen(p)
  <2> DEFINE part == [pod[p].part EXCEPT !["server"] = "on"]
             new == [pod[p] EXCEPT !.pc = "listening", !.part = part]
  <2>1. pod[p].pc = "opening" /\ db' = db /\ holder' = holder
    BY <1>7 DEF Listen, Is
  <2>2. CASE Fatal(p)
    BY <1>2, <2>1, <2>2
  <2>3. CASE Set(p, [pod[p] EXCEPT !.pc = "listening", !.part["server"] = "on"])
    <3>1. Set(p, new)
      BY <1>1, <2>3 DEF PodRecord
    <3>2. part \in [Parts -> {"off", "on", "busy", "adrift"}]
      BY <1>1 DEF PodRecord
    <3>3. new \in PodRecord
      BY <1>1, <3>2 DEF PodRecord
    <3>4. /\ new.pc = "listening" /\ new.pool = pod[p].pool /\ new.out = pod[p].out
          /\ new.closing = pod[p].closing
      BY <1>1 DEF PodRecord
    <3>5. \A c \in Closers : pod[p].closing[c] = 0
      BY <1>1, <2>1 DEF LifeOK, NotClosingYet
    <3> HIDE DEF new
    <3>6. LifeOK(new)
      BY <1>1, <2>1, <3>4, <3>5
         DEF LifeOK, OffUntilOpen, NotClosingYet, PassedIsQuiet, PoolEndsLast,
             SignalsOnlyServing, PartStages
    <3> QED BY <2>1, <3>1, <3>3, <3>4, <3>6, ServingKeepsMigration
  <2> QED BY <1>7, <2>2, <2>3 DEF Listen
<1>8. CASE StartLoops(p)
  <2> DEFINE part == [x \in Parts |-> IF x \in Configured[p] THEN "on" ELSE pod[p].part[x]]
             new == [pod[p] EXCEPT !.pc = "serving", !.part = part]
  <2>1. pod[p].pc = "listening" /\ db' = db /\ holder' = holder /\ Set(p, new)
    BY <1>8 DEF StartLoops, Is
  <2>2. part \in [Parts -> {"off", "on", "busy", "adrift"}]
    BY <1>1 DEF PodRecord
  <2>3. new \in PodRecord
    BY <1>1, <2>2 DEF PodRecord
  <2>4. /\ new.pc = "serving" /\ new.pool = pod[p].pool /\ new.out = pod[p].out
        /\ new.closing = pod[p].closing
    BY <1>1 DEF PodRecord
  <2>5. \A c \in Closers : pod[p].closing[c] = 0
    BY <1>1, <2>1 DEF LifeOK, NotClosingYet
  <2> HIDE DEF new
  <2>6. LifeOK(new)
    BY <1>1, <2>1, <2>4, <2>5
       DEF LifeOK, OffUntilOpen, NotClosingYet, PassedIsQuiet, PoolEndsLast,
           SignalsOnlyServing, PartStages
  <2> QED BY <2>1, <2>3, <2>4, <2>6, ServingKeepsMigration
<1> QED BY <1>4, <1>5, <1>6, <1>7, <1>8

LEMMA PartSteps ==
  ASSUME RolloutInv, NEW p \in Pods, NEW x \in Parts, Work(p, x) \/ WorkDone(p, x)
  PROVE  RolloutInv'
<1>1. pod[p] \in PodRecord /\ LifeOK(pod[p])
  BY DEF RolloutInv, Types, LifePart
<1>2. pod[p].part[x] # "off" /\ db' = db /\ holder' = holder
  BY DEF Work, WorkDone
<1>3. pod[p].pc \in {"listening", "serving"}
  BY <1>1, <1>2 DEF LifeOK, OffUntilOpen
<1>4. ASSUME NEW state \in {"off", "on", "busy"}, state # "off" => ~Asked(p, x)
      PROVE  LET new == [pod[p] EXCEPT !.part[x] = state]
             IN new \in PodRecord /\ LifeOK(new) /\ new.pc = pod[p].pc
  BY <1>1, <1>3, <1>4, PartIsSafe
<1>5. CASE Work(p, x)
  <2> DEFINE new == [pod[p] EXCEPT !.part[x] = "busy"]
  <2>1. new \in PodRecord /\ LifeOK(new) /\ new.pc = pod[p].pc /\ Set(p, new)
    BY <1>4, <1>5 DEF Work
  <2> HIDE DEF new
  <2> QED BY <1>2, <1>3, <2>1, ServingKeepsMigration
<1>6. CASE WorkDone(p, x)
  <2> DEFINE state == IF Asked(p, x) THEN "off" ELSE "on"
             quiet == [pod[p] EXCEPT !.part[x] = state]
             new == [quiet EXCEPT !.out = pod[p].out \ {x}]
  <2>1. quiet \in PodRecord /\ LifeOK(quiet) /\ quiet.pc = pod[p].pc
    BY <1>4
  <2>2. Set(p, [pod[p] EXCEPT !.part[x] = state, !.out = @ \ {x}])
    BY <1>6 DEF WorkDone
  <2>3. quiet.out = pod[p].out /\ pod[p].out \in SUBSET Users
    BY <1>1 DEF PodRecord
  <2>4. Set(p, new)
    BY <1>1, <2>2 DEF PodRecord
  <2> HIDE DEF quiet, state
  <2>5. new \in PodRecord /\ LifeOK(new) /\ new.pc = pod[p].pc
    BY <2>1, <2>3, ClientIsSafe
  <2> HIDE DEF new
  <2> QED BY <1>2, <1>3, <2>4, <2>5, ServingKeepsMigration
<1> QED BY <1>5, <1>6

LEMMA QuerySteps ==
  ASSUME RolloutInv, NEW p \in Pods, NEW x \in Users,
         (x \in Parts /\ Query(p, x)) \/ QueryDone(p, x)
  PROVE  RolloutInv'
<1>1. pod[p] \in PodRecord /\ LifeOK(pod[p]) /\ Types /\ MigrationPart /\ LifePart
  BY DEF RolloutInv, Types, LifePart
<1>2. PICK out \in SUBSET Users :
        /\ out \subseteq pod[p].out \/ pod[p].pool = "open"
        /\ Set(p, [pod[p] EXCEPT !.out = out])
  <2>1. pod[p].out \in SUBSET Users
    BY <1>1 DEF PodRecord
  <2> QED BY <2>1 DEF Query, QueryDone
<1> DEFINE new == [pod[p] EXCEPT !.out = out]
<1>3. new \in PodRecord /\ LifeOK(new) /\ new.pc = pod[p].pc
      /\ new.version = pod[p].version /\ new.fresh = pod[p].fresh
  BY <1>1, <1>2, ClientIsSafe DEF PodRecord
<1>4. Set(p, new) /\ db' = db /\ holder' = holder
  BY <1>2 DEF Query, QueryDone
<1> HIDE DEF new
<1>5. /\ pod' \in [Pods -> PodRecord] /\ LifePart' /\ pod'[p] = new
      /\ \A q \in Pods \ {p} : pod'[q] = pod[q]
  BY <1>1, <1>3, <1>4, SetWrites
<1>6. MigrationPart'
  <2>1. pod[p].pc = "migrating" =>
          pod[p].version = db.version /\ (pod[p].fresh <=> db.shape = 0)
    BY <1>1 DEF MigrationPart, ReadIsCurrent
  <2> QED BY <1>1, <1>3, <1>4, <1>5, <2>1, QuietKeepsMigration
<1> QED BY <1>1, <1>4, <1>5, <1>6 DEF RolloutInv, Types

(* close() c goes to stage j. *)
ClosedTo(r, c, j, part, pool, out) ==
  [r EXCEPT !.closing[c] = j, !.part = part, !.pool = pool, !.out = out]

LEMMA CloseSteps ==
  ASSUME RolloutInv, RolloutConstants, NEW p \in Pods, NEW c \in Closers,
         Signal(p, c) \/ Close(p, c)
  PROVE  RolloutInv'
<1>1. pod[p] \in PodRecord /\ LifeOK(pod[p])
  BY DEF RolloutInv, Types, LifePart
<1>2. /\ pod[p].closing \in [Closers -> 0..8] /\ pod[p].part \in [Parts -> {"off", "on", "busy", "adrift"}]
      /\ pod[p].out \in SUBSET Users
      /\ Closed = 8 /\ Ending = 7
  BY <1>1 DEF PodRecord, Closed, Ending
<1>3. CASE Signal(p, c)
  <2> DEFINE closing == [pod[p].closing EXCEPT ![c] = 1]
             new == [pod[p] EXCEPT !.closing = closing]
  <2>1. /\ pod[p].pc = "serving" /\ db' = db /\ holder' = holder /\ pod[p].closing[c] = 0
    BY <1>3 DEF Signal, Is
  <2>2. Set(p, new)
    BY <1>1, <1>3 DEF Signal, PodRecord
  <2>3. closing \in [Closers -> 0..8] /\ \A d \in Closers : closing[d] = IF d = c THEN 1 ELSE pod[p].closing[d]
    BY <1>2
  <2>4. new \in PodRecord
    BY <1>1, <1>2, <2>3 DEF PodRecord
  <2>5. /\ new.pc = "serving" /\ new.pool = pod[p].pool /\ new.closing = closing
        /\ new.part = pod[p].part /\ new.out = pod[p].out
    BY <1>1, <2>1 DEF PodRecord
  <2> HIDE DEF closing, new
  <2>6. PassedIsQuiet(new)
    BY <1>1, <1>2, <2>3, <2>5 DEF LifeOK, PassedIsQuiet, PartStages
  <2>7. PoolEndsLast(new)
    BY <1>1, <1>2, <2>1, <2>3, <2>5 DEF LifeOK, PoolEndsLast
  <2>8. LifeOK(new)
    BY <2>5, <2>6, <2>7 DEF LifeOK, OffUntilOpen, NotClosingYet, SignalsOnlyServing
  <2> QED BY <2>1, <2>2, <2>4, <2>5, <2>8, ServingKeepsMigration
<1>4. ASSUME pod[p].closing[c] # 0
      PROVE  pod[p].pc \in {"failing", "serving"} /\ (pod[p].pc = "failing" => c = "boot")
  BY <1>1, <1>4 DEF LifeOK, NotClosingYet, SignalsOnlyServing
(* A close() goes from stage i to stage j, and leaves the parts quiet that *)
(* it has passed.                                                          *)
<1>5. ASSUME NEW i \in 1..7, NEW j \in 2..8, NEW part, NEW pool, NEW out,
             pod[p].closing[c] = i, db' = db, holder' = holder,
             part \in [Parts -> {"off", "on", "busy", "adrift"}],
             pool \in {"off", "open", "ending", "ended"}, out \in SUBSET Users,
             \A k \in PartStages : k < j => k < i \/ part[StopOrder[k]] \in {"off", "adrift"},
             \A x \in Parts : pod[p].part[x] \in {"off", "adrift"} =>
               part[x] \in {"off", "adrift"} /\ (pod[p].part[x] = "off" => part[x] = "off"),
             PoolEndsLast(ClosedTo(pod[p], c, j, part, pool, out)),
             Set(p, ClosedTo(pod[p], c, j, part, pool, out))
      PROVE  RolloutInv'
  <2> DEFINE closing == [pod[p].closing EXCEPT ![c] = j]
             new == [pod[p] EXCEPT !.closing = closing, !.part = part, !.pool = pool, !.out = out]
  <2>1. ClosedTo(pod[p], c, j, part, pool, out) = new /\ Set(p, new) /\ PoolEndsLast(new)
    BY <1>1, <1>5 DEF PodRecord, ClosedTo
  <2>2. pod[p].pc \in {"failing", "serving"} /\ (pod[p].pc = "failing" => c = "boot")
    BY <1>4, <1>5
  <2>3. /\ closing \in [Closers -> 0..8]
        /\ \A d \in Closers : closing[d] = IF d = c THEN j ELSE pod[p].closing[d]
    BY <1>2
  <2>4. new \in PodRecord
    BY <1>1, <1>2, <1>5, <2>3 DEF PodRecord
  <2>5. /\ new.pc = pod[p].pc /\ new.closing = closing /\ new.part = part
    BY <1>1 DEF PodRecord
  <2> HIDE DEF closing, new
  <2>6. PassedIsQuiet(new)
    <3> SUFFICES ASSUME NEW d \in Closers, NEW k \in PartStages, closing[d] > k
                 PROVE  part[StopOrder[k]] \in {"off", "adrift"}
      BY <2>5 DEF PassedIsQuiet
    <3>1. StopOrder[k] \in Parts /\ k \in Nat
      BY StopOrderFacts DEF Parts, Loops, PartStages
    <3>2. CASE pod[p].closing[d] > k
      <4>1. pod[p].part[StopOrder[k]] \in {"off", "adrift"}
        BY <1>1, <3>2 DEF LifeOK, PassedIsQuiet
      <4> QED BY <1>5, <3>1, <4>1
    <3>3. CASE ~(pod[p].closing[d] > k)
      <4>1. d = c /\ k < j /\ ~(k < i)
        BY <1>5, <2>3, <3>1, <3>3
      <4> QED BY <1>5, <4>1
    <3> QED BY <3>2, <3>3
  <2>7. OffUntilOpen(new)
    <3>1. pod[p].pc = "failing" => \A y \in Parts : pod[p].part[y] = "off"
      BY <1>1 DEF LifeOK, OffUntilOpen
    <3>2. pod[p].pc = "failing" => \A y \in Parts : part[y] = "off"
      BY <1>5, <3>1
    <3> QED BY <2>2, <2>5, <3>2 DEF OffUntilOpen
  <2>8. NotClosingYet(new) /\ SignalsOnlyServing(new)
    BY <1>1, <2>2, <2>3, <2>5 DEF LifeOK, NotClosingYet, SignalsOnlyServing
  <2>9. LifeOK(new)
    BY <2>1, <2>6, <2>7, <2>8 DEF LifeOK
  <2> QED BY <1>5, <2>1, <2>2, <2>4, <2>5, <2>9, ServingKeepsMigration
<1>6. CASE CloseStage(p, c)
  <2> DEFINE i == pod[p].closing[c]
             x == StopOrder[i]
             state == IF pod[p].part[x] \in {"busy", "adrift"} THEN "adrift" ELSE "off"
             part == [pod[p].part EXCEPT ![x] = state]
  <2>1. i \in 1..6 /\ x \in Parts /\ db' = db /\ holder' = holder
    BY <1>6, StopOrderFacts DEF CloseStage, AtStage, StageOf
  <2>2. i \in PartStages /\ i + 1 \in 2..8 /\ i \in 1..7 /\ i < 6
    BY <2>1, StopOrderFacts DEF Parts, Loops, PartStages
  <2>3. PICK mine \in SUBSET {c} :
          /\ mine # {} => pod[p].pool = "open"
          /\ Set(p, [pod[p] EXCEPT !.closing[c] = i + 1, !.part[x] = state, !.out = @ \cup mine])
    BY <1>6 DEF CloseStage, StageOf
  <2> DEFINE out == pod[p].out \cup mine
             new == ClosedTo(pod[p], c, i + 1, part, pod[p].pool, out)
  <2>4. Set(p, new)
    BY <1>1, <2>3 DEF PodRecord, ClosedTo
  <2>5. /\ part \in [Parts -> {"off", "on", "busy", "adrift"}]
        /\ \A y \in Parts : part[y] = IF y = x THEN state ELSE pod[p].part[y]
    BY <1>2
  <2>6. state \in {"off", "adrift"} /\ (pod[p].part[x] = "off" => state = "off")
    OBVIOUS
  <2>7. out \in SUBSET Users /\ (out = pod[p].out \/ pod[p].pool = "open")
    BY <1>2, <2>3 DEF Users
  <2>8. PoolEndsLast(new)
    <3>1. /\ new.pc = pod[p].pc /\ new.pool = pod[p].pool /\ new.out = out
          /\ \A d \in Closers : new.closing[d] = IF d = c THEN i + 1 ELSE pod[p].closing[d]
      BY <1>1, <1>2 DEF PodRecord, ClosedTo
    <3> HIDE DEF new, out, part, state
    <3> QED BY <1>1, <1>2, <2>2, <2>7, <3>1 DEF LifeOK, PoolEndsLast
  <2>9. \A k \in PartStages : k < i + 1 => k < i \/ part[StopOrder[k]] \in {"off", "adrift"}
    BY <2>1, <2>2, <2>5, <2>6 DEF PartStages
  <2>10. pod[p].pool \in {"off", "open", "ending", "ended"}
    BY <1>1 DEF PodRecord
  <2> HIDE DEF state, part, out, x
  <2>11. \A y \in Parts : pod[p].part[y] \in {"off", "adrift"} =>
           part[y] \in {"off", "adrift"} /\ (pod[p].part[y] = "off" => part[y] = "off")
    BY <2>5, <2>6
  <2> DEFINE j == i + 1
  <2>12. /\ i \in 1..7 /\ j \in 2..8 /\ pod[p].closing[c] = i
         /\ \A k \in PartStages : k < j => k < i \/ part[StopOrder[k]] \in {"off", "adrift"}
         /\ PoolEndsLast(ClosedTo(pod[p], c, j, part, pod[p].pool, out))
         /\ Set(p, ClosedTo(pod[p], c, j, part, pod[p].pool, out))
    BY <2>2, <2>4, <2>8, <2>9
  <2>13. out \in SUBSET Users /\ part \in [Parts -> {"off", "on", "busy", "adrift"}]
    BY <2>5, <2>7
  <2> HIDE DEF i, j
  <2> QED BY <1>5, <2>1, <2>10, <2>11, <2>12, <2>13
<1>7. CASE CloseReleased(p, c) \/ ClosePool(p, c) \/ PoolEnds(p, c)
  <2> DEFINE i == pod[p].closing[c]
             New(j, pool) == ClosedTo(pod[p], c, j, pod[p].part, pool, pod[p].out)
  <2>1. PICK j \in 2..8, pool \in {"off", "open", "ending", "ended"} :
          /\ Set(p, New(j, pool)) /\ i \in 1..7
          /\ \/ i = 2 /\ j = 3 /\ pool = pod[p].pool
             \/ i = 6 /\ pod[p].pool = "open" /\ j = 7 /\ pool = "ending"
             \/ i = 6 /\ pod[p].pool # "open" /\ j = 8 /\ pool = pod[p].pool
             \/ i = 7 /\ pod[p].out = {} /\ j = 8 /\ pool = "ended"
    <3>1. CASE CloseReleased(p, c)
      <4>1. i = 2 /\ Set(p, [pod[p] EXCEPT !.closing[c] = 3])
        BY <3>1, StopOrderFacts DEF CloseReleased, AtStage, StageOf
      <4>2. [pod[p] EXCEPT !.closing[c] = 3] = New(3, pod[p].pool) /\ pod[p].pool \in {"off", "open", "ending", "ended"}
        BY <1>1 DEF PodRecord, ClosedTo
      <4> HIDE DEF New
      <4> QED BY <4>1, <4>2
    <3>2. CASE ClosePool(p, c)
      <4>1. i = 6 /\ Set(p, IF pod[p].pool = "open"
                            THEN [pod[p] EXCEPT !.closing[c] = 7, !.pool = "ending"]
                            ELSE [pod[p] EXCEPT !.closing[c] = 8])
        BY <1>2, <3>2, StopOrderFacts DEF ClosePool, AtStage, StageOf
      <4>2. /\ [pod[p] EXCEPT !.closing[c] = 7, !.pool = "ending"] = New(7, "ending")
            /\ [pod[p] EXCEPT !.closing[c] = 8] = New(8, pod[p].pool)
            /\ pod[p].pool \in {"off", "open", "ending", "ended"}
        BY <1>1 DEF PodRecord, ClosedTo
      <4> HIDE DEF New
      <4> QED BY <4>1, <4>2
    <3>3. CASE PoolEnds(p, c)
      <4>1. i = 7 /\ pod[p].out = {} /\ Set(p, [pod[p] EXCEPT !.closing[c] = 8, !.pool = "ended"])
        BY <1>2, <3>3 DEF PoolEnds
      <4>2. [pod[p] EXCEPT !.closing[c] = 8, !.pool = "ended"] = New(8, "ended")
        BY <1>1 DEF PodRecord, ClosedTo
      <4> QED BY <4>1, <4>2
    <3> QED BY <1>7, <3>1, <3>2, <3>3
  <2>2. db' = db /\ holder' = holder
    BY <1>7 DEF CloseReleased, ClosePool, PoolEnds
  <2>3. /\ New(j, pool).pc = pod[p].pc /\ New(j, pool).pool = pool
        /\ New(j, pool).out = pod[p].out
        /\ \A d \in Closers : New(j, pool).closing[d] = IF d = c THEN j ELSE pod[p].closing[d]
    BY <1>1, <1>2 DEF PodRecord, ClosedTo
  <2>4. pod[p].pc \in {"failing", "serving"} /\ i \in 1..7
    BY <1>4, <2>1
  <2>5. PoolEndsLast(New(j, pool))
    <3> HIDE DEF New
    <3> QED BY <1>1, <1>2, <2>1, <2>3, <2>4 DEF LifeOK, PoolEndsLast
  <2>6. \A k \in PartStages : k < j => k < i
    BY <2>1 DEF PartStages
  <2>7. \A y \in Parts : pod[p].part[y] \in {"off", "adrift"} =>
          pod[p].part[y] \in {"off", "adrift"} /\ (pod[p].part[y] = "off" => pod[p].part[y] = "off")
    OBVIOUS
  <2>8. pod[p].closing[c] = i /\ Set(p, New(j, pool))
    BY <2>1
  <2> HIDE DEF i
  <2> QED BY <1>2, <1>5, <2>2, <2>4, <2>5, <2>6, <2>7, <2>8
<1> QED BY <1>3, <1>6, <1>7 DEF Close
-----------------------------------------------------------------------------
(* The invariant *)

LEMMA InitInv == RolloutConstants /\ Init => RolloutInv
<1> SUFFICES ASSUME RolloutConstants, Init PROVE RolloutInv
  OBVIOUS
<1>1. \A p \in Pods : pod[p] = Down
  BY DEF Init
<1>2. Down.pc = "down"
  BY DEF Down
<1>3. Types
  BY DownIsSafe DEF Init, Types, RolloutConstants
<1>4. LifePart
  BY <1>1, DownIsSafe DEF LifePart
<1>5. LockIsHeld /\ ReadIsCurrent /\ CheckedIsEnough
  BY <1>1, <1>2 DEF Init, RolloutConstants, LockIsHeld, ReadIsCurrent, CheckedIsEnough, Checked
<1>6. StampIsTrue
  BY DEF Init, RolloutConstants, StampIsTrue
<1> QED BY <1>3, <1>4, <1>5, <1>6 DEF RolloutInv, MigrationPart

LEMMA NextKeepsInv == RolloutConstants /\ RolloutInv /\ [Next]_vars => RolloutInv'
<1> SUFFICES ASSUME RolloutConstants, RolloutInv, [Next]_vars PROVE RolloutInv'
  OBVIOUS
<1>1. CASE UNCHANGED vars
  BY <1>1 DEF vars, RolloutInv, Types, MigrationPart, LockIsHeld, StampIsTrue, ReadIsCurrent,
              CheckedIsEnough, LifePart, LifeOK, OffUntilOpen, NotClosingYet, PassedIsQuiet, PoolEndsLast,
              SignalsOnlyServing
<1>2. ASSUME NEW p \in Pods, Exit(p) \/ Kill(p) PROVE RolloutInv'
  <2>1. Set(p, Down) /\ db' = db
    BY <1>2 DEF Exit, Kill
  <2>2. (holder' = holder /\ pod[p].pc \in {"failing", "serving"}) \/ Frees(p)
    BY <1>2 DEF Exit, Kill, Is
  <2> QED BY <2>1, <2>2, ExitKeepsInv
<1>3. CASE Next
  BY <1>2, <1>3, MigrationSteps, BootSteps, PartSteps, QuerySteps, CloseSteps DEF Next, Users
<1> QED BY <1>1, <1>3

(* The invariant of a rollout: one migrates at a time, over a shape it     *)
(* knows; past the check a pod has the shape it needs; nothing is at work  *)
(* before the port is open or once its turn in close() has gone by.        *)
THEOREM RolloutInvariant == Spec => []RolloutInv
  BY InitInv, NextKeepsInv, RolloutConstants, PTL DEF Spec

(* Boots never collide, for any number of pods of any builds: at most one  *)
(* migrates, and every step fits the shape it finds (store.ts:338-417).    *)
THEOREM MigrationsFit == Spec => []MigrationInv
<1>1. RolloutInv => TypeOK
  <2> SUFFICES ASSUME RolloutInv PROVE TypeOK
    OBVIOUS
  <2>1. \A p \in Pods : pod[p] \in PodRecord
    BY DEF RolloutInv, Types
  <2>2. \A p \in Pods : holder = p <=> pod[p].pc \in {"locked", "migrating"}
    BY DEF RolloutInv, MigrationPart, LockIsHeld
  <2> QED BY <2>1, <2>2 DEF RolloutInv, Types, PodRecord, TypeOK
<1>2. RolloutInv => StepsFit
  BY NextStepFits, RolloutConstants DEF RolloutInv, StepsFit, Is
<1>3. RolloutInv => MigrationInv
  BY <1>1, <1>2 DEF MigrationInv
<1> QED BY <1>3, RolloutInvariant, PTL

(* No pod of any build takes requests on a shape older than its own        *)
(* (store.ts:404-415).                                                     *)
THEOREM ServesOnItsShape == Spec => []NeverOnAnOlderShape
<1>1. RolloutInv => NeverOnAnOlderShape
  <2> SUFFICES ASSUME RolloutInv, NEW p \in Pods, pod[p].part["server"] # "off"
               PROVE  db.version = db.shape /\ db.version >= SCHEMA_VERSION[p]
    BY DEF NeverOnAnOlderShape
  <2>1. pod[p].pc \in {"listening", "serving"}
    BY DEF RolloutInv, LifePart, LifeOK, OffUntilOpen, Parts
  <2> QED BY <2>1 DEF RolloutInv, MigrationPart, CheckedIsEnough, Checked
<1> QED BY <1>1, RolloutInvariant, PTL

(* When the pool begins to end nothing is at work but what stop() gave up  *)
(* on, and once it is ended no client of it is out, for any number of pods *)
(* (startup.ts:349-363, store.ts:821-826).                                 *)
THEOREM PoolIsLast == Spec => []PoolOutlivesItsUsers
<1>1. RolloutInv => PoolOutlivesItsUsers
  <2> SUFFICES ASSUME RolloutInv, NEW p \in Pods
               PROVE  /\ pod[p].pool \in {"ending", "ended"} =>
                           \A x \in Parts : pod[p].part[x] \in {"off", "adrift"}
                      /\ pod[p].pool = "ended" => pod[p].out = {}
    BY DEF PoolOutlivesItsUsers
  <2>1. LifeOK(pod[p])
    BY DEF RolloutInv, LifePart
  <2>2. ASSUME pod[p].pool \in {"ending", "ended"}, NEW x \in Parts
        PROVE  pod[p].part[x] \in {"off", "adrift"}
    <3>1. PICK c \in Closers : pod[p].closing[c] \in {7, 8}
      BY <2>1, <2>2 DEF LifeOK, PoolEndsLast, Ending, Closed
    <3>2. PICK i \in PartStages : StopOrder[i] = x
      BY TurnOfPart
    <3>3. pod[p].closing[c] > i
      BY <3>1 DEF PartStages
    <3> QED BY <2>1, <3>2, <3>3 DEF LifeOK, PassedIsQuiet
  <2>3. pod[p].pool = "ended" => pod[p].out = {}
    BY <2>1 DEF LifeOK, PoolEndsLast
  <2> QED BY <2>2, <2>3
<1> QED BY <1>1, RolloutInvariant, PTL

(* A boot that fails ends its pool and leaves nothing at work              *)
(* (startup.ts:329-347).                                                   *)
THEOREM FailedBootIsClean == Spec => []FailedBootLeavesNothing
<1>1. RolloutInv => FailedBootLeavesNothing
  <2> SUFFICES ASSUME RolloutInv, NEW p \in Pods, pod[p].pc = "failing",
                      pod[p].closing["boot"] = Closed
               PROVE  pod[p].pool = "ended" /\ \A x \in Parts : pod[p].part[x] = "off"
    BY DEF FailedBootLeavesNothing, Is
  <2>1. LifeOK(pod[p]) /\ "boot" \in Closers /\ pod[p].pool \in {"off", "open", "ending", "ended"}
    BY DEF RolloutInv, LifePart, Closers, Types, PodRecord
  <2>2. \A c \in Closers : pod[p].closing[c] # Ending
    BY <2>1 DEF LifeOK, SignalsOnlyServing, Closed, Ending
  <2>3. pod[p].pool = "ended"
    BY <2>1, <2>2 DEF LifeOK, PoolEndsLast, Closed, Ending
  <2> QED BY <2>1, <2>3 DEF LifeOK, OffUntilOpen
<1> QED BY <1>1, RolloutInvariant, PTL
=============================================================================
