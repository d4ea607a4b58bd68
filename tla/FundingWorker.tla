---------------------------- MODULE FundingWorker ----------------------------
(***************************************************************************)
(* The background worker (src/funding/worker.ts) and the store statements  *)
(* it runs: claim, update under a lease, release, pruneRefusals.  Several  *)
(* replicas run it over one table; any of them may die, be shut down and   *)
(* be replaced, and any statement may fail.                                *)
(*                                                                         *)
(* Time.  Every instant is kept relative to the real clock: 0 is now, a    *)
(* negative number is past.  Pass moves all of them back by one, down to   *)
(* Floor, which is older than anything a running tick compares with; so    *)
(* time has no end and the state space is finite.  A tick compares with    *)
(* the instant at which it started, as tick(store, now, ...) does.         *)
(*                                                                         *)
(* Deposit facts are left out: they ride on the same writes and never      *)
(* decide a status.                                                        *)
(***************************************************************************)
EXTENDS FundingState, Integers, FiniteSets

CONSTANTS
  Rows,            \* how many requests are ever submitted
  Workers,         \* the replicas
  MaxAge,          \* session_max_age_ms
  RailTime,        \* the longest a session creation takes; below MaxAge
  Expiries,        \* how long after it opens a session's page stays open,
                   \* which may be less or more than MaxAge
  TTL,             \* Lease.ttlMs
  BatchSize,       \* Lease.batch
  FAILURE_CEILING, \* 3 in the code
  Progress,        \* what a pending payment may become
  MaxTick,         \* bound: the longest a tick runs
  MaxMishaps,      \* bound: crashes, shutdowns and store faults
  None,            \* no value; no lease
  Gone             \* the holder of a lease whose process no longer exists

(* The provider's word for a transaction; what a tick decides to write.    *)
Transactions == {"none", "pending", "settling", "settled", "failed"}
Verdicts == [to : FUNDING_STATES, txn : Transactions]

ASSUME WorkerConstants ==
  /\ Rows \in Nat /\ MaxAge \in Nat /\ TTL \in Nat /\ MaxTick \in Nat /\ MaxMishaps \in Nat
  /\ RailTime \in Nat /\ RailTime < MaxAge
  /\ BatchSize \in Nat \ {0} /\ FAILURE_CEILING \in Nat \ {0}
  /\ Expiries \subseteq Nat
  /\ Progress \subseteq {"settling", "settled", "failed"}
  /\ None \notin Workers /\ Gone \notin Workers /\ None # Gone
  /\ None \notin Verdicts

VARIABLES
  row,      \* funding_requests, in created_at order
  page,     \* when the provider's page of each request closes; or NoPage
  window,   \* when each request is session_max_age_ms old
  money,    \* the provider's transaction for each request, as it reports it
  wk,       \* each replica: its phase and the state of the tick it is in
  held,     \* each replica's `held' map: request to lease expiry
  mishaps   \* crashes, shutdowns and store faults so far

vars == <<row, page, window, money, wk, held, mishaps>>
-----------------------------------------------------------------------------
Ids == 1..Rows
Floor == -(MaxTick + 1)
Ago(t) == IF t > Floor THEN t - 1 ELSE Floor

(* An instant of the provider's, a unit of time later: once past, past.    *)
Sooner(t) == IF t < 0 THEN t ELSE t - 1

NoPage == -2

NoRow == [status |-> "absent", txn |-> "none", by |-> None, until |-> Floor, deadline |-> Floor]

InFlight == FUNDING_STATES \ TERMINAL_STATES

(* A replica between two ticks.  `phase' is the process, `pc' its tick.    *)
Idle(phase) ==
  [phase |-> phase, pc |-> "idle", now |-> 0, todo |-> {}, claimed |-> {},
   failures |-> 0, asking |-> TRUE, next |-> None, handback |-> {}]

(* A tick's copy of a row, a unit of time later. *)
Later(snap) == [snap EXCEPT !.deadline = Ago(@)]

NoneHeld == [id \in {} |-> 0]
Without(h, ids) == [id \in DOMAIN h \ ids |-> h[id]]

(* What a tick read of a row when it claimed it. *)
Snapshot(id) ==
  [id |-> id, status |-> row[id].status, txn |-> row[id].txn, deadline |-> row[id].deadline]

Init ==
  /\ row = [id \in Ids |-> NoRow]
  /\ page = [id \in Ids |-> NoPage]
  /\ window = [id \in Ids |-> -1]
  /\ money = [id \in Ids |-> "none"]
  /\ wk = [w \in Workers |-> Idle("up")]
  /\ held = [w \in Workers |-> NoneHeld]
  /\ mishaps = 0

(* One more crash, shutdown or store fault, within the bound. *)
Mishap == mishaps < MaxMishaps /\ mishaps' = mishaps + 1
-----------------------------------------------------------------------------
(* The rest of the service and the provider *)

(* Onramp reserves a row; ids are drawn in created_at order. *)
Submit(id) ==
  /\ row[id].status = "absent"
  /\ \A older \in 1..(id - 1) : row[older].status # "absent"
  /\ row' = [row EXCEPT ![id].status = "created", ![id].deadline = MaxAge]
  /\ window' = [window EXCEPT ![id] = MaxAge]
  /\ UNCHANGED <<page, money, wk, held, mishaps>>

(* The capture page's closing taken as the deadline. *)
DeadlineOfPage(expires, local) == expires

(* deadlineFor: the later of the rail's expiry and created_at plus         *)
(* session_max_age_ms.                                                     *)
DeadlineFor(expires, local) == IF expires > local THEN expires ELSE local

(* Onramp writes the outcome of its rail call, unleased, while the call    *)
(* can still be running.  Not writing it at all is the orphan.             *)
OnrampRecords(id) ==
  /\ row[id].status = "created"
  /\ row[id].deadline >= MaxAge - RailTime
  /\ \/ \E e \in Expiries :
          /\ page' = [page EXCEPT ![id] = e]
          /\ row' = [row EXCEPT ![id].status = "session_opened",
                                ![id].deadline = DeadlineFor(e, @)]
     \/ /\ \E to \in {"refused", "unobserved"} : row' = [row EXCEPT ![id].status = to]
        /\ UNCHANGED page
  /\ UNCHANGED <<window, money, wk, held, mishaps>>

(* When the provider may first report a payment: while its page is open    *)
(* and, a bank transfer settling after it closed, until the request is as  *)
(* old as session_max_age_ms; the setting is chosen for that               *)
(* (helm/values.yaml).                                                     *)
Payable(id) == page[id] # NoPage /\ (page[id] >= 0 \/ window[id] >= 0)

Pay(id) ==
  /\ Payable(id)
  /\ money[id] = "none"
  /\ money' = [money EXCEPT ![id] = "pending"]
  /\ UNCHANGED <<row, page, window, wk, held, mishaps>>

PaymentMoves(id) ==
  /\ money[id] \in {"pending", "settling"}
  /\ \E status \in Progress \ {money[id]} : money' = [money EXCEPT ![id] = status]
  /\ UNCHANGED <<row, page, window, wk, held, mishaps>>

(* A unit of time.  No tick outlives MaxTick: each of its calls times out. *)
Pass ==
  /\ \A w \in Workers : wk[w].pc # "idle" => wk[w].now > -MaxTick
  /\ row' = [id \in Ids |-> [row[id] EXCEPT !.until = Ago(@), !.deadline = Ago(@)]]
  /\ page' = [id \in Ids |-> Sooner(page[id])]
  /\ window' = [id \in Ids |-> Sooner(window[id])]
  /\ wk' = [w \in Workers |->
              [wk[w] EXCEPT
                 !.now = IF wk[w].pc = "idle" THEN 0 ELSE @ - 1,
                 !.todo = {Later(snap) : snap \in @}]]
  /\ held' = [w \in Workers |-> [id \in DOMAIN held[w] |-> Ago(held[w][id])]]
  /\ UNCHANGED <<money, mishaps>>
-----------------------------------------------------------------------------
(* tick: the sweep, the drain and the claim *)

(* pruneRefusals, when a sweep is due and does not fail. *)
StartTick(w) ==
  /\ wk[w].phase = "up"
  /\ wk[w].pc = "idle"
  /\ wk' = [wk EXCEPT ![w].pc = "claim"]
  /\ \/ UNCHANGED row
     \/ \E ids \in SUBSET {id \in Ids : row[id].status = "refused"} :
          row' = [id \in Ids |-> IF id \in ids THEN [row[id] EXCEPT !.status = "pruned"] ELSE row[id]]
  /\ UNCHANGED <<page, window, money, held, mishaps>>

(* A claim that forgot to leave the concluded rows out. *)
ClaimableAll(now) ==
  {id \in Ids : row[id].status # "absent" /\ (row[id].by = None \/ row[id].until < now)}

Claimable(now) ==
  {id \in Ids : row[id].status \in InFlight /\ (row[id].by = None \/ row[id].until < now)}

(* The oldest rows first, BatchSize of them at most. *)
Oldest(ids) == {id \in ids : Cardinality({older \in ids : older < id}) < BatchSize}

Leased(ids, w, until) ==
  [id \in Ids |-> IF id \in ids THEN [row[id] EXCEPT !.by = w, !.until = until] ELSE row[id]]

Expired(w, now) == {id \in DOMAIN held[w] : held[w][id] <= now}

(* Expired entries of `held' are drained, then the batch is claimed. *)
Claim(w) ==
  /\ wk[w].pc = "claim"
  /\ LET now == wk[w].now
         ids == Oldest(Claimable(now))
     IN /\ held' = [held EXCEPT ![w] = Without(@, Expired(w, now))]
        /\ row' = Leased(ids, w, now + TTL)
        /\ wk' = [wk EXCEPT ![w].pc = "scan", ![w].claimed = ids,
                            ![w].todo = {Snapshot(id) : id \in ids}]
  /\ UNCHANGED <<page, window, money, mishaps>>

(* The claim throws and the tick with it; it may have been committed. *)
ClaimFaults(w) ==
  /\ wk[w].pc = "claim"
  /\ Mishap
  /\ held' = [held EXCEPT ![w] = Without(@, Expired(w, wk[w].now))]
  /\ \/ UNCHANGED row
     \/ row' = Leased(Oldest(Claimable(wk[w].now)), w, wk[w].now + TTL)
  /\ wk' = [wk EXCEPT ![w] = Idle(wk[w].phase)]
  /\ UNCHANGED <<page, window, money>>
-----------------------------------------------------------------------------
(* advanceOne: one record of the batch, oldest first *)

Head(w) == CHOOSE snap \in wk[w].todo : \A other \in wk[w].todo : snap.id <= other.id
Scanning(w) == wk[w].pc = "scan" /\ wk[w].todo # {}

(* deadlineFor, and for a seen transaction the instant seenSince gives. *)
Aged(w, snap) == wk[w].now > snap.deadline

(* A record that needs its rail asked: not a reservation, not a seen       *)
(* transaction past its window, and not once the tick has stopped asking.  *)
AsksRail(w, snap) ==
  /\ wk[w].asking
  /\ \/ snap.status = "session_opened"
     \/ snap.status = "transaction_seen" /\ ~Aged(w, snap)

(* The loop goes on to the next record: after an answer or a completed     *)
(* write the count of consecutive failures starts again, after a throw it  *)
(* grows, and at the ceiling the tick stops asking.                        *)
Proceed(w) ==
  wk' = [wk EXCEPT ![w].pc = "scan", ![w].todo = @ \ {Head(w)},
                   ![w].next = None, ![w].failures = 0]

ProceedFailed(w) ==
  wk' = [wk EXCEPT ![w].pc = "scan", ![w].todo = @ \ {Head(w)}, ![w].next = None,
                   ![w].failures = @ + 1,
                   ![w].asking = @ /\ wk[w].failures + 1 # FAILURE_CEILING]

Decide(w, to, txn) ==
  wk' = [wk EXCEPT ![w].pc = "write", ![w].next = [to |-> to, txn |-> txn]]

(* A tick that takes its own decision not to ask for an answer. *)
AdvanceUnaskedConcludes(w) ==
  /\ Scanning(w)
  /\ ~AsksRail(w, Head(w))
  /\ IF Aged(w, Head(w)) \/ Head(w).status = "session_opened"
     THEN Decide(w, "unobserved", Head(w).txn)
     ELSE Proceed(w)
  /\ UNCHANGED <<row, page, window, money, held, mishaps>>

(* No call: past its window the record concludes as unobserved, within it  *)
(* it waits, and that counts as an answer.                                 *)
AdvanceUnasked(w) ==
  /\ Scanning(w)
  /\ LET snap == Head(w)
     IN /\ ~AsksRail(w, snap)
        /\ IF Aged(w, snap)
           THEN Decide(w, "unobserved", snap.txn)
           ELSE Proceed(w)
  /\ UNCHANGED <<row, page, window, money, held, mishaps>>

(* The rail's mapper: only a recognised ending concludes. *)
Mapped(txn) == IF txn \in {"settled", "failed"} THEN txn ELSE "transaction_seen"

(* A lookup retried for as long as it fails. *)
FinderThrowsRetries(w) ==
  /\ Scanning(w)
  /\ AsksRail(w, Head(w))
  /\ ProceedFailed(w)
  /\ UNCHANGED <<row, page, window, money, held, mishaps>>

(* The finder throws: past the window evidence of nothing, within it a     *)
(* failure to report.  So does a rail that has no finder wired.            *)
FinderThrows(w) ==
  /\ Scanning(w)
  /\ AsksRail(w, Head(w))
  /\ IF Aged(w, Head(w))
     THEN Decide(w, "unobserved", Head(w).txn)
     ELSE ProceedFailed(w)
  /\ UNCHANGED <<row, page, window, money, held, mishaps>>

(* The finder answers with the provider's transaction, or with nothing.    *)
FinderAnswers(w) ==
  /\ Scanning(w)
  /\ AsksRail(w, Head(w))
  /\ LET snap == Head(w)
         txn == money[snap.id]
     IN IF snap.status = "session_opened"
        THEN IF txn # "none" THEN Decide(w, "transaction_seen", txn)
             ELSE IF Aged(w, snap) THEN Decide(w, "expired", "none")
             ELSE Proceed(w)
        ELSE IF Mapped(txn) # snap.status \/ txn # snap.txn
             THEN Decide(w, Mapped(txn), txn)
             ELSE Proceed(w)
  /\ UNCHANGED <<row, page, window, money, held, mishaps>>
-----------------------------------------------------------------------------
(* FundingStore.update under the lease *)

(* mergeAdvance: a move the machine allows, or a new provider status on a  *)
(* row that stays where it is.  Anything else throws before the lease is   *)
(* looked at.                                                              *)
Mergeable(id, next) ==
  \/ CanMove(row[id].status, next.to)
  \/ next.to = row[id].status /\ next.to \in InFlight /\ next.txn # row[id].txn

Advanced(w, id, next) ==
  [row EXCEPT ![id].status = next.to,
              ![id].txn = next.txn,
              ![id].deadline = IF next.to = "transaction_seen" /\ row[id].status # next.to
                               THEN wk[w].now + MaxAge ELSE @]

Writing(w) == wk[w].pc = "write"

(* A write that does not name its lease. *)
WriteUnleased(w) ==
  /\ Writing(w)
  /\ Mergeable(Head(w).id, wk[w].next)
  /\ row' = Advanced(w, Head(w).id, wk[w].next)
  /\ Proceed(w)
  /\ UNCHANGED <<page, window, money, held, mishaps>>

(* The write lands, or matches no row because the lease went elsewhere, or *)
(* finds the row deleted.  All three count as a completed write.           *)
Write(w) ==
  /\ Writing(w)
  /\ LET id == Head(w).id
     IN /\ row[id].status = "pruned" \/ Mergeable(id, wk[w].next)
        /\ row' = IF row[id].by = w /\ row[id].status # "pruned"
                  THEN Advanced(w, id, wk[w].next) ELSE row
  /\ Proceed(w)
  /\ UNCHANGED <<page, window, money, held, mishaps>>

(* IllegalTransition. *)
WriteThrows(w) ==
  /\ Writing(w)
  /\ row[Head(w).id].status # "pruned"
  /\ ~Mergeable(Head(w).id, wk[w].next)
  /\ ProceedFailed(w)
  /\ UNCHANGED <<row, page, window, money, held, mishaps>>

(* The store fails; it may have committed. *)
WriteFaults(w) ==
  /\ Writing(w)
  /\ Mishap
  /\ LET id == Head(w).id
     IN \/ UNCHANGED row
        \/ row[id].by = w /\ Mergeable(id, wk[w].next) /\ row' = Advanced(w, id, wk[w].next)
  /\ ProceedFailed(w)
  /\ UNCHANGED <<page, window, money, held>>
-----------------------------------------------------------------------------
(* tick: the `finally' *)

Released(ids, w) ==
  [id \in Ids |-> IF id \in ids /\ row[id].by = w
                  THEN [row[id] EXCEPT !.by = None, !.until = Floor] ELSE row[id]]

Finishing(w) == wk[w].pc = "scan" /\ wk[w].todo = {}
Saturated(w) == Cardinality(wk[w].claimed) >= BatchSize

(* A full batch kept and not remembered. *)
KeepBatchForgotten(w) ==
  /\ Finishing(w) /\ Saturated(w)
  /\ wk' = [wk EXCEPT ![w] = [Idle(@.phase) EXCEPT !.handback = wk[w].handback]]
  /\ UNCHANGED <<row, page, window, money, held, mishaps>>

(* A full batch keeps its leases, remembered in `held' for the shutdown.   *)
KeepBatch(w) ==
  /\ Finishing(w) /\ Saturated(w)
  /\ held' = [held EXCEPT ![w] =
                [id \in DOMAIN @ \cup wk[w].claimed |->
                   IF id \in wk[w].claimed THEN wk[w].now + TTL ELSE @[id]]]
  /\ wk' = [wk EXCEPT ![w] = [Idle(@.phase) EXCEPT !.handback = wk[w].handback]]
  /\ UNCHANGED <<row, page, window, money, mishaps>>

(* Any other hands its leases back. *)
ReleaseBatch(w) ==
  /\ Finishing(w) /\ ~Saturated(w)
  /\ row' = Released(wk[w].claimed, w)
  /\ held' = [held EXCEPT ![w] = Without(@, wk[w].claimed)]
  /\ wk' = [wk EXCEPT ![w] = [Idle(@.phase) EXCEPT !.handback = wk[w].handback]]
  /\ UNCHANGED <<page, window, money, mishaps>>

ReleaseFaults(w) ==
  /\ Finishing(w) /\ ~Saturated(w)
  /\ Mishap
  /\ wk' = [wk EXCEPT ![w] = [Idle(@.phase) EXCEPT !.handback = wk[w].handback]]
  /\ UNCHANGED <<row, page, window, money, held>>
-----------------------------------------------------------------------------
(* stop(), and the end of the process *)

(* The interval is cleared; a tick in flight goes on. *)
Stop(w) ==
  /\ wk[w].phase = "up"
  /\ Mishap
  /\ wk' = [wk EXCEPT ![w].phase = "stopping"]
  /\ UNCHANGED <<row, page, window, money, held>>

(* The tick ended or the grace ran out: `held' is emptied ...              *)
StopCollects(w) ==
  /\ wk[w].phase = "stopping"
  /\ wk' = [wk EXCEPT ![w].phase = "releasing", ![w].handback = DOMAIN held[w]]
  /\ held' = [held EXCEPT ![w] = NoneHeld]
  /\ UNCHANGED <<row, page, window, money, mishaps>>

(* ... and its leases are handed back. *)
StopReleases(w) ==
  /\ wk[w].phase = "releasing"
  /\ row' = Released(wk[w].handback, w)
  /\ wk' = [wk EXCEPT ![w].phase = "stopped", ![w].handback = {}]
  /\ UNCHANGED <<page, window, money, held, mishaps>>

(* A fresh process takes the replica's place, under a lease of its own.    *)
Replaced(w) ==
  /\ row' = [id \in Ids |-> IF row[id].by = w THEN [row[id] EXCEPT !.by = Gone] ELSE row[id]]
  /\ wk' = [wk EXCEPT ![w] = Idle("up")]
  /\ held' = [held EXCEPT ![w] = NoneHeld]
  /\ UNCHANGED <<page, window, money>>

Restart(w) == wk[w].phase = "stopped" /\ Replaced(w) /\ UNCHANGED mishaps

Crash(w) == Mishap /\ Replaced(w)
-----------------------------------------------------------------------------
Service(id) == Submit(id) \/ OnrampRecords(id) \/ Pay(id) \/ PaymentMoves(id)

Tick(w) ==
  \/ StartTick(w) \/ Claim(w)
  \/ AdvanceUnasked(w) \/ FinderThrows(w) \/ FinderAnswers(w)
  \/ Write(w) \/ WriteThrows(w)
  \/ KeepBatch(w) \/ ReleaseBatch(w)

Shutdown(w) == StopCollects(w) \/ StopReleases(w) \/ Restart(w)

Mishaps(w) ==
  ClaimFaults(w) \/ WriteFaults(w) \/ ReleaseFaults(w) \/ Stop(w) \/ Crash(w)

Next ==
  \/ \E id \in Ids : Service(id)
  \/ \E w \in Workers : Tick(w) \/ Shutdown(w) \/ Mishaps(w)
  \/ Pass

Spec == Init /\ [][Next]_vars

(* A live process keeps ticking and a shutdown comes to an end; time goes  *)
(* on.  Nothing is asked of the rail, which may throw for ever.            *)
Fairness == WF_vars(Pass) /\ \A w \in Workers : WF_vars(Tick(w)) /\ WF_vars(Shutdown(w))

FairSpec == Spec /\ Fairness
-----------------------------------------------------------------------------
(* Properties *)

Statuses == FUNDING_STATES \cup {"absent", "pruned"}
Snapshots == [id : Ids, status : InFlight, txn : Transactions, deadline : Int]

TypeOK ==
  /\ \A id \in Ids :
       /\ row[id].status \in Statuses /\ row[id].txn \in Transactions
       /\ row[id].by \in Workers \cup {None, Gone}
       /\ row[id].until \in Int /\ row[id].deadline \in Int
       /\ page[id] \in Int /\ window[id] \in Int /\ money[id] \in Transactions
  /\ \A w \in Workers :
       /\ wk[w].phase \in {"up", "stopping", "releasing", "stopped"}
       /\ wk[w].pc \in {"idle", "claim", "scan", "write"}
       /\ wk[w].now \in -MaxTick..0
       /\ wk[w].todo \in SUBSET Snapshots
       /\ {snap.id : snap \in wk[w].todo} \subseteq wk[w].claimed
       /\ wk[w].claimed \subseteq Ids /\ Cardinality(wk[w].claimed) <= BatchSize
       /\ wk[w].pc = "write" <=> wk[w].next # None
       /\ wk[w].next \in Verdicts \cup {None}
       /\ DOMAIN held[w] \subseteq Ids
  /\ mishaps \in 0..MaxMishaps

(* Whatever replicas, leases, faults and late answers do, the rows keep    *)
(* the promise of FundingLifecycle: a conclusion the worker writes is true *)
(* of the money, and `expired' stays true of it, also of a transfer that   *)
(* settles long after the page closed.                                     *)
Lifecycle == INSTANCE FundingLifecycle WITH
  Requests <- Ids,
  status <- [id \in Ids |-> IF row[id].status = "pruned" THEN "absent" ELSE row[id].status],
  payable <- [id \in Ids |-> Payable(id)],
  dated <- [id \in Ids |-> TRUE]

ImplementsLifecycle == Lifecycle!Spec

(* The worker's write lands on the row it holds. *)
Lands(w) ==
  /\ Writing(w) /\ ~Writing(w)'
  /\ LET id == Head(w).id
     IN row'[id].status # row[id].status \/ row'[id].txn # row[id].txn

(* The worker never concludes early, whatever its rail does and however    *)
(* often it stopped asking: a row it writes off has outlived its window by *)
(* the real clock.                                                         *)
NoEarlyConclusion ==
  [][\A w \in Workers :
       Lands(w) /\ wk[w].next.to \in {"expired", "unobserved"} =>
         row[Head(w).id].deadline < 0]_vars

(* An advance that lands was computed from the row it lands on: no other   *)
(* replica, and no request handler, moved the row between the claim that   *)
(* read it and the write.                                                  *)
NoStaleAdvance ==
  [][\A w \in Workers :
       Lands(w) => LET snap == Head(w)
                   IN row[snap.id].status = snap.status /\ row[snap.id].txn = snap.txn]_vars

(* A planned shutdown strands nothing: once stop() has returned, with no   *)
(* abandoned tick behind it and no statement failed, no row stays leased   *)
(* to the process that is about to end.                                    *)
StopHandsBack ==
  \A w \in Workers :
    wk[w].phase = "stopped" /\ wk[w].pc = "idle" /\ held[w] = NoneHeld /\ mishaps = 1 =>
      \A id \in Ids : row[id].by = w => row[id].until <= 0

(* Every request concludes, whether or not its rail ever answers and       *)
(* however its leases were left behind.                                    *)
EveryRequestConcludes ==
  \A id \in Ids :
    row[id].status # "absent" ~> row[id].status \in TERMINAL_STATES \cup {"pruned"}

=============================================================================
