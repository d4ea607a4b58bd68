------------------------------ MODULE Rollout ------------------------------
(***************************************************************************)
(* Pods coming up and going down over one database: the migration that     *)
(* opens the store (src/funding/store.ts, schema.ts), the boot and the     *)
(* shutdown around it (src/startup.ts, main.ts).  Pods of several builds   *)
(* overlap in a rollout; any of them may be killed or lose its connection. *)
(***************************************************************************)
EXTENDS Integers, FiniteSets

CONSTANTS
  Pods,
  SCHEMA_VERSION,  \* the version each pod's build requires
  Configured,      \* the loops each pod's configuration names
  StoredShapes,    \* the databases a rollout may find
  Signals,         \* bound: the signals each pod may be sent
  None

ASSUME RolloutConstants ==
  /\ None \notin Pods
  /\ SCHEMA_VERSION \in [Pods -> Nat \ {0}]
  /\ Configured \in [Pods -> SUBSET {"worker", "probes", "refresh"}]
  /\ \A p \in Pods : "probes" \in Configured[p] => "refresh" \in Configured[p]
  /\ Signals \in [Pods -> SUBSET {"SIGTERM", "SIGINT"}]
  /\ StoredShapes \subseteq [shape : Nat, version : Nat]
  /\ \A stored \in StoredShapes : stored.version \in {0, stored.shape}

VARIABLES
  db,      \* the shape funding_requests has (0: no such table), and the
           \* version that schema_migrations records
  holder,  \* the session that holds the migration's advisory lock
  pod

vars == <<db, holder, pod>>
-----------------------------------------------------------------------------
Loops == {"worker", "probes", "refresh"}
Parts == Loops \cup {"server"}
Closers == {"boot", "SIGTERM", "SIGINT"}

(* Who may have a client of the pool checked out: a part, for a query of   *)
(* its work, and a close(), for the statement that hands back the leases.  *)
Users == Parts \cup Closers

(* What close() awaits, in order; the worker's stop() awaits its tick and  *)
(* then the release of its leases.                                         *)
StopOrderPoolEarly == <<"worker", "release", "probes", "refresh", "pool", "server">>
StopOrder == <<"worker", "release", "probes", "refresh", "server", "pool">>
StopStages == DOMAIN StopOrder
Ending == 7  \* awaiting the end of the pool
Closed == 8

(* A part is off, on (a loop asleep, a server without requests), at work,  *)
(* or adrift: still at work when stop() gave up on it.                     *)
Down ==
  [pc |-> "down", version |-> 0, fresh |-> FALSE, pool |-> "off", out |-> {},
   part |-> [x \in Parts |-> "off"], closing |-> [c \in Closers |-> 0]]

Init ==
  /\ db \in StoredShapes
  /\ holder = None
  /\ pod = [p \in Pods |-> Down]

Is(p, pc) == pod[p].pc = pc
Set(p, new) == pod' = [pod EXCEPT ![p] = new]
Goes(p, pc) == Set(p, [pod[p] EXCEPT !.pc = pc])
Frees(p) == holder' = IF holder = p THEN None ELSE holder

(* start() fails: its own catch closes everything, or, while the store is  *)
(* opened, only the pool, the migration's client handed back to it.        *)
PoolStage == 6
FailsAt(p, stage) ==
  Set(p, [pod[p] EXCEPT !.pc = "failing", !.closing["boot"] = stage])
-----------------------------------------------------------------------------
(* FundingStore.open and migrate *)

Boot(p) ==
  /\ Is(p, "down")
  /\ Set(p, [Down EXCEPT !.pc = "locking", !.pool = "open"])
  /\ UNCHANGED <<db, holder>>

LockAtOnce(p) ==
  /\ Is(p, "locking")
  /\ Goes(p, "locked")
  /\ holder' = p
  /\ UNCHANGED db
Lock(p) ==
  /\ Is(p, "locking")
  /\ holder = None
  /\ Goes(p, "locked")
  /\ holder' = p
  /\ UNCHANGED db

(* lock_timeout *)
LockTimeout(p) ==
  /\ Is(p, "locking")
  /\ FailsAt(p, PoolStage)
  /\ UNCHANGED <<db, holder>>

ReadVersion(p) ==
  /\ Is(p, "locked")
  /\ Set(p, [pod[p] EXCEPT !.pc = "migrating", !.version = db.version, !.fresh = db.shape = 0])
  /\ UNCHANGED <<db, holder>>

(* The step that is next: the whole schema, or the migration from the      *)
(* version reached, 0 if there is none.                                    *)
StepTo(p) ==
  IF pod[p].fresh THEN SCHEMA_VERSION[p]
  ELSE IF pod[p].version \in 1..(SCHEMA_VERSION[p] - 1) THEN pod[p].version + 1
  ELSE 0

(* The statements of a step were written for one shape. *)
Fits(p) == db.shape = IF pod[p].fresh THEN 0 ELSE pod[p].version

(* One transaction: the step and its stamp. *)
Stamped(p) == [shape |-> StepTo(p), version |-> StepTo(p)]

Commit(p) ==
  /\ Is(p, "migrating")
  /\ StepTo(p) # 0 /\ Fits(p)
  /\ db' = Stamped(p)
  /\ Set(p, [pod[p] EXCEPT !.version = StepTo(p), !.fresh = FALSE])
  /\ UNCHANGED holder

(* Statements that do not fit fail, and so may any other: rolled back. *)
Rollback(p) ==
  /\ Is(p, "migrating")
  /\ StepTo(p) # 0
  /\ FailsAt(p, PoolStage)
  /\ Frees(p)
  /\ UNCHANGED db

(* The connection is lost, and with it the lock; a commit on its way may   *)
(* or may not have arrived.                                                *)
LoseConnection(p) ==
  /\ pod[p].pc \in {"locking", "locked", "migrating"}
  /\ FailsAt(p, PoolStage)
  /\ Frees(p)
  /\ db' \in {db} \cup {committed \in {Stamped(p)} : Is(p, "migrating") /\ StepTo(p) # 0 /\ Fits(p)}

(* Exactly this build's version, or no start. *)
AcceptableUnlessNewer(p) == pod[p].version <= SCHEMA_VERSION[p]
Acceptable(p) == pod[p].version = SCHEMA_VERSION[p]

Unlock(p) ==
  /\ Is(p, "migrating")
  /\ StepTo(p) = 0
  /\ IF Acceptable(p) THEN Goes(p, "building") ELSE FailsAt(p, PoolStage)
  /\ Frees(p)
  /\ UNCHANGED db
-----------------------------------------------------------------------------
(* start(): build the server, prove the key and the codes, listen, and     *)
(* only then start the loops.  Everything after the store is guarded.      *)

FatalUnguarded(p) == FailsAt(p, Closed)
Fatal(p) == FailsAt(p, 1)

BuildServer(p) ==
  /\ Is(p, "building")
  /\ Goes(p, "proving") \/ Fatal(p)
  /\ UNCHANGED <<db, holder>>

(* verifyKey: an error status is fatal, no offers or no answer is not. *)
VerifyKey(p) ==
  /\ Is(p, "proving")
  /\ \E answer \in {"offers", "no_offers", "unreachable", "error_status"} :
       IF answer = "error_status" THEN Fatal(p) ELSE Goes(p, "pricing")
  /\ UNCHANGED <<db, holder>>

(* verifyAssetCodes: a code unknown to Meld or priced as another is fatal, *)
(* once every code has been asked.                                         *)
VerifyAssetCodes(p) ==
  /\ Is(p, "pricing")
  /\ \E answers \in SUBSET {"priced", "no_offers", "other_error", "unknown", "other_code"} :
       IF answers \cap {"unknown", "other_code"} # {} THEN Fatal(p) ELSE Goes(p, "opening")
  /\ UNCHANGED <<db, holder>>

Listen(p) ==
  /\ Is(p, "opening")
  /\ \/ Set(p, [pod[p] EXCEPT !.pc = "listening", !.part["server"] = "on"])
     \/ Fatal(p)
  /\ UNCHANGED <<db, holder>>

StartLoops(p) ==
  /\ Is(p, "listening")
  /\ Set(p, [pod[p] EXCEPT
               !.pc = "serving",
               !.part = [x \in Parts |-> IF x \in Configured[p] THEN "on" ELSE pod[p].part[x]]])
  /\ UNCHANGED <<db, holder>>
-----------------------------------------------------------------------------
(* The parts at work *)

(* stop() and close() take no new work on; a stopped loop never wakes.     *)
Asked(p, x) == \E c \in Closers : pod[p].closing[c] >= (CHOOSE i \in StopStages : StopOrder[i] = x)

Work(p, x) ==
  /\ pod[p].part[x] = "on"
  /\ ~Asked(p, x)
  /\ Set(p, [pod[p] EXCEPT !.part[x] = "busy"])
  /\ UNCHANGED <<db, holder>>

WorkDone(p, x) ==
  /\ pod[p].part[x] \in {"busy", "adrift"}
  /\ Set(p, [pod[p] EXCEPT !.part[x] = IF Asked(p, x) THEN "off" ELSE "on", !.out = @ \ {x}])
  /\ UNCHANGED <<db, holder>>

(* The work queries the database, what stop() gave up on too; a pool that  *)
(* is ending hands out no client.  Clients are counted from when the part  *)
(* is asked to stop: nothing looks at them earlier, and a query that was   *)
(* under way is as one that begins then.                                   *)
Query(p, x) ==
  /\ pod[p].part[x] \in {"busy", "adrift"} /\ Asked(p, x)
  /\ pod[p].pool = "open" /\ x \notin pod[p].out
  /\ Set(p, [pod[p] EXCEPT !.out = @ \cup {x}])
  /\ UNCHANGED <<db, holder>>

(* An answer, an error or statement_timeout: the client is handed back.    *)
QueryDone(p, x) ==
  /\ x \in pod[p].out
  /\ Set(p, [pod[p] EXCEPT !.out = @ \ {x}])
  /\ UNCHANGED <<db, holder>>
-----------------------------------------------------------------------------
(* close(), by the failed boot or once by each signal *)

Signal(p, c) ==
  /\ Is(p, "serving") /\ c \in Signals[p]
  /\ pod[p].closing[c] = 0
  /\ Set(p, [pod[p] EXCEPT !.closing[c] = 1])
  /\ UNCHANGED <<db, holder>>

StageOf(p, c) == StopOrder[pod[p].closing[c]]
AtStage(p, c) == pod[p].closing[c] \in StopStages

(* stop() settles with the loop's work, or gives up after its grace; the   *)
(* server waits for its requests.                                          *)
MaySettleOnly(p, x) == pod[p].part[x] # "busy"
MayReturn(p, x) == x = "server" => pod[p].part[x] # "busy"

CloseStage(p, c) ==
  /\ AtStage(p, c) /\ StageOf(p, c) \in Parts
  /\ MayReturn(p, StageOf(p, c))
  /\ \E mine \in SUBSET {c} :
       /\ mine # {} =>
            /\ StageOf(p, c) = "worker" /\ "worker" \in Configured[p]
            /\ Is(p, "serving") /\ pod[p].pool = "open"
       /\ Set(p, [pod[p] EXCEPT
                    !.closing[c] = @ + 1,
                    !.part[StageOf(p, c)] = IF @ \in {"busy", "adrift"} THEN "adrift" ELSE "off",
                    !.out = @ \cup mine])
  /\ UNCHANGED <<db, holder>>

(* The release of the leases, if any were held, has returned. *)
CloseReleased(p, c) ==
  /\ AtStage(p, c) /\ StageOf(p, c) = "release"
  /\ c \notin pod[p].out
  /\ Set(p, [pod[p] EXCEPT !.closing[c] = @ + 1])
  /\ UNCHANGED <<db, holder>>

(* FundingStore.close: the first to come ends the pool and awaits it, any  *)
(* other returns at once.                                                  *)
ClosePool(p, c) ==
  /\ AtStage(p, c) /\ StageOf(p, c) = "pool"
  /\ Set(p, IF pod[p].pool = "open"
            THEN [pod[p] EXCEPT !.closing[c] = Ending, !.pool = "ending"]
            ELSE [pod[p] EXCEPT !.closing[c] = Closed])
  /\ UNCHANGED <<db, holder>>

(* A pool ends once every client that was checked out is back. *)
PoolEnds(p, c) ==
  /\ pod[p].closing[c] = Ending
  /\ pod[p].out = {}
  /\ Set(p, [pod[p] EXCEPT !.closing[c] = Closed, !.pool = "ended"])
  /\ UNCHANGED <<db, holder>>

(* A boot that failed exits; a closed service ends once it is quiet.       *)
Exit(p) ==
  /\ \/ Is(p, "failing") /\ pod[p].closing["boot"] = Closed
     \/ /\ Is(p, "serving")
        /\ pod[p].pool = "ended"
        /\ \A x \in Parts : pod[p].part[x] = "off"
  /\ Set(p, Down)
  /\ UNCHANGED <<db, holder>>

(* A kill, or a signal before main.ts has taken the signals over. *)
Kill(p) ==
  /\ ~Is(p, "down")
  /\ Set(p, Down)
  /\ Frees(p)
  /\ UNCHANGED db
-----------------------------------------------------------------------------
Close(p, c) ==
  CloseStage(p, c) \/ CloseReleased(p, c) \/ ClosePool(p, c) \/ PoolEnds(p, c)

Next ==
  \E p \in Pods :
    \/ Boot(p) \/ Lock(p) \/ LockTimeout(p) \/ ReadVersion(p) \/ Commit(p)
    \/ Rollback(p) \/ LoseConnection(p) \/ Unlock(p)
    \/ BuildServer(p) \/ VerifyKey(p) \/ VerifyAssetCodes(p) \/ Listen(p) \/ StartLoops(p)
    \/ \E x \in Parts : Work(p, x) \/ WorkDone(p, x) \/ Query(p, x)
    \/ \E x \in Users : QueryDone(p, x)
    \/ \E c \in Closers : Signal(p, c) \/ Close(p, c)
    \/ Exit(p) \/ Kill(p)

Spec == Init /\ [][Next]_vars

(* Timers fire, a request ends by the timeouts of what it calls, and a     *)
(* query by statement_timeout, which the server keeps: this takes the      *)
(* connections of the pool to live.  A migration or a loop's work may      *)
(* hang: neither is bounded.                                               *)
FairSpec ==
  /\ Spec
  /\ \A p \in Pods :
       /\ WF_vars(LockTimeout(p))
       /\ WF_vars(WorkDone(p, "server"))
       /\ WF_vars(\E x \in Parts : QueryDone(p, x))
       /\ \A c \in Closers : WF_vars(Close(p, c) \/ QueryDone(p, c))
-----------------------------------------------------------------------------
(* The pods are what they should be, and a pod that migrates holds the     *)
(* lock (store.ts:338-417).                                                *)
TypeOK ==
  /\ db \in [shape : Nat, version : Nat]
  /\ holder \in Pods \cup {None}
  /\ \A p \in Pods :
       /\ pod[p].pc \in {"down", "locking", "locked", "migrating", "building", "proving",
                         "pricing", "opening", "listening", "serving", "failing"}
       /\ pod[p].pool \in {"off", "open", "ending", "ended"}
       /\ pod[p].out \subseteq Users
       /\ pod[p].part \in [Parts -> {"off", "on", "busy", "adrift"}]
       /\ pod[p].closing \in [Closers -> 0..Closed]
       /\ holder = p <=> pod[p].pc \in {"locked", "migrating"}

(* Two boots never collide: a step that is next was written for the shape  *)
(* the database has, whoever else boots, dies or hangs, unless no version  *)
(* was ever recorded (store.ts:338-361).                                   *)
StepsFit ==
  \A p \in Pods : Is(p, "migrating") /\ StepTo(p) # 0 => Fits(p)

(* The lock and the migration under it are sound together.                 *)
MigrationInv == TypeOK /\ StepsFit

(* A pod that takes requests never does so on a shape older than its       *)
(* build's, nor one it cannot name (store.ts:404-415).                     *)
NeverOnAnOlderShape ==
  \A p \in Pods :
    pod[p].part["server"] # "off" => db.version = db.shape /\ db.version >= SCHEMA_VERSION[p]

(* The pool outlives what uses it: when it begins to end nothing is at     *)
(* work but what stop() gave up on, and once it is ended no query of       *)
(* theirs, nor the release of the leases, is under way on it               *)
(* (startup.ts:349-363, store.ts:821-826).                                 *)
PoolOutlivesItsUsers ==
  \A p \in Pods :
    /\ pod[p].pool \in {"ending", "ended"} =>
         \A x \in Parts : pod[p].part[x] \in {"off", "adrift"}
    /\ pod[p].pool = "ended" => pod[p].out = {}

(* A boot that fails leaves no open pool, no port and no loop behind       *)
(* (startup.ts:329-347).                                                   *)
FailedBootLeavesNothing ==
  \A p \in Pods : Is(p, "failing") /\ pod[p].closing["boot"] = Closed =>
    pod[p].pool = "ended" /\ \A x \in Parts : pod[p].part[x] = "off"

(* A shutdown once begun ends, though a loop's work may hang: stop() gives *)
(* up on it after its grace, and what the end of the pool then waits for,  *)
(* the queries of that work and the release of the leases, ends by         *)
(* statement_timeout (background.ts:20-32, worker.ts:695-757,              *)
(* store.ts:821-826).                                                      *)
ShutdownEnds ==
  \A p \in Pods, c \in Closers : pod[p].closing[c] = 1 ~> pod[p].closing[c] \in {0, Closed}
=============================================================================
