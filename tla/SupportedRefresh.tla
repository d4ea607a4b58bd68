-------------------------- MODULE SupportedRefresh --------------------------
(***************************************************************************)
(* The corridor refresh (src/supported/refresh.ts) and the lock it shares  *)
(* with the provider prober (src/background.ts).  After a boot pass, one   *)
(* loop renews the catalogs (which countries a job serves) and one per     *)
(* direction renews the corridors; a job that wrote nothing is retried on  *)
(* its own.  Every pass and every probe quote takes the lock, the boot     *)
(* pass does not.  A shutdown may come at any point.                       *)
(*                                                                         *)
(* One job a direction.  How long a thread sleeps is left open: it may     *)
(* wake at any time.                                                       *)
(***************************************************************************)
EXTENDS Integers, Sequences, FiniteSets

CONSTANTS
  Jobs,            \* RefreshJob: what to buy or sell
  Countries,       \* the countries Meld may list
  CountryAnswers,  \* how a call for the country list may end
  MaxBackoff,      \* retries before the wait reaches the job's interval
  Slots,           \* bound: the retries of a job that may be under way at once
  None

ASSUME RefreshConstants ==
  /\ IsFiniteSet(Jobs) /\ IsFiniteSet(Countries)
  /\ CountryAnswers \subseteq {"listed", "failed", "unreadable"}
  /\ MaxBackoff \in Nat /\ Slots \subseteq Nat

VARIABLES
  catalogs,  \* by job: the countries the last good catalog pass found, or None
  backoff,   \* by job: how often the wait before a retry has doubled, or None
  th,        \* the threads of control, and the pass each is in
  lock,      \* the passes that hold or await the lock, in call order
  stop,      \* "no", "asked", and how stop() returned: "settled", "timedout"
  awaited,   \* the threads stop() waits for
  meld       \* what Meld answers: "any" thing, or from now on "everything"

vars == <<catalogs, backoff, th, lock, stop, awaited, meld>>
-----------------------------------------------------------------------------
Thread(role, job, slot) == [role |-> role, job |-> job, slot |-> slot]
Boot == Thread("boot", None, 0)
Prober == Thread("prober", None, 0)
CatalogLoop == Thread("catalog", None, 0)
RoutesLoop(job) == Thread("routes", job, 0)
Retry(job, slot) == Thread("retry", job, slot)

(* Retries of one job: one asleep, and those that wait for the lock or run. *)
Retries == {Retry(job, slot) : job \in Jobs, slot \in Slots}
Loops == {CatalogLoop} \cup {RoutesLoop(job) : job \in Jobs}
Refresh == {Boot} \cup Loops \cup Retries
Threads == Refresh \cup {Prober}

Item(kind, job) == [kind |-> kind, job |-> job]
CatalogPass == {Item("catalog", job) : job \in Jobs}
RoutesPass == {Item("routes", job) : job \in Jobs}
Pass(t) ==
  CASE t.role = "boot" -> CatalogPass \cup RoutesPass
    [] t.role = "catalog" -> CatalogPass
    [] t.role \in {"routes", "retry"} -> {Item("routes", t.job)}
    [] t.role = "prober" -> {}

(* `left' are the countries the walk has yet to reach, `prior' the catalog *)
(* it falls back on, `denied' those that Meld's answers ruled out.         *)
At(pc) ==
  [pc |-> pc, todo |-> {}, item |-> None, stage |-> "pick", left |-> {},
   prior |-> {}, found |-> {}, denied |-> {}, failed |-> FALSE, wrote |-> FALSE]
Started(t) == [At("running") EXCEPT !.todo = Pass(t)]

Init ==
  /\ catalogs = [job \in Jobs |-> None]
  /\ backoff = [job \in Jobs |-> None]
  /\ th = [t \in Threads |-> CASE t = Boot -> Started(Boot)
                               [] t = Prober -> At("asleep")
                               [] OTHER -> At("off")]
  /\ lock = <<>>
  /\ stop = "no"
  /\ awaited = {}
  /\ meld = "any"

Aborted == stop # "no"
-----------------------------------------------------------------------------
(* serial: passes run one at a time, in call order. *)

Wake(t) ==
  /\ th[t].pc = "asleep"
  /\ t = Prober \/ ~Aborted
  /\ th' = [th EXCEPT ![t] = At("queued")]
  /\ lock' = Append(lock, t)
  /\ UNCHANGED <<catalogs, backoff, stop, awaited, meld>>

(* The abort ends a sleep, and the loop or the retry with it. *)
WakeAborted(t) ==
  /\ t # Prober
  /\ th[t].pc = "asleep"
  /\ Aborted
  /\ th' = [th EXCEPT ![t] = At("off")]
  /\ UNCHANGED <<catalogs, backoff, lock, stop, awaited, meld>>

HasTurnUnlessRetry(t) == t.role = "retry" \/ Head(lock) = t
HasTurn(t) == Head(lock) = t

Enter(t) ==
  /\ th[t].pc = "queued"
  /\ HasTurn(t)
  /\ th' = [th EXCEPT ![t] = Started(t)]
  /\ UNCHANGED <<catalogs, backoff, lock, stop, awaited, meld>>

(* The lock passes on whether the pass it was held for failed or not; the  *)
(* boot pass never took it.                                                *)
Released(t) == lock' = IF t = Boot THEN lock ELSE Tail(lock)

(* The pass is over: a loop sleeps again, a retry is done, the boot pass   *)
(* hands over to the loops.                                                *)
OverUnarmed(t) ==
  [other \in Threads |->
     CASE other = t -> At(IF t = Prober THEN "asleep" ELSE "off")
       [] t = Boot /\ other \in Loops -> At("asleep")
       [] OTHER -> th[other]]
Over(t) ==
  [other \in Threads |->
     CASE other = t -> At(IF t \in Loops \cup {Prober} THEN "asleep" ELSE "off")
       [] t = Boot /\ other \in Loops -> At("asleep")
       [] OTHER -> th[other]]
-----------------------------------------------------------------------------
(* A pass picks its next job; the catalogs come before the routes. *)

Running(t, stage) == th[t].pc = "running" /\ th[t].stage = stage
PassStep(t, pass) ==
  /\ th' = [th EXCEPT ![t] = pass]
  /\ UNCHANGED <<catalogs, backoff, lock, stop, awaited, meld>>

NextItems(todo) ==
  IF \E item \in todo : item.kind = "catalog"
  THEN {item \in todo : item.kind = "catalog"} ELSE todo

(* The catalog a failed call falls back on; a rebuild has none. *)
PreviousNone(item) == {}
Previous(item) ==
  IF item.kind = "catalog" /\ catalogs[item.job] # None THEN catalogs[item.job] ELSE {}

Pick(t) ==
  /\ Running(t, "pick") /\ t # Prober
  /\ ~Aborted
  /\ \E item \in NextItems(th[t].todo) :
       LET builds == item.kind = "catalog" \/ catalogs[item.job] = None
       IN PassStep(t, [At("running") EXCEPT
            !.todo = th[t].todo \ {item}, !.item = item,
            !.stage = IF builds THEN "countries" ELSE "corridor",
            !.left = IF builds THEN {} ELSE catalogs[item.job],
            !.prior = IF builds THEN Previous(item) ELSE {}])

Finish(t) ==
  /\ Running(t, "pick") /\ t # Prober
  /\ Aborted \/ th[t].todo = {}
  /\ th' = Over(t)
  /\ Released(t)
  /\ UNCHANGED <<catalogs, backoff, stop, awaited, meld>>

(* The prober's quote, answered or failed. *)
Quote(t) ==
  /\ Running(t, "pick") /\ t = Prober
  /\ th' = Over(t)
  /\ Released(t)
  /\ UNCHANGED <<catalogs, backoff, stop, awaited, meld>>
-----------------------------------------------------------------------------
(* settle: a job that wrote nothing is retried, later each time, until the *)
(* wait reaches its interval; one retry at most is waiting out its sleep.  *)

Wait(job, wrote) ==
  IF wrote THEN None
  ELSE IF backoff[job] = None THEN 0
  ELSE IF backoff[job] < MaxBackoff THEN backoff[job] + 1 ELSE MaxBackoff

RetryDue(job, wrote) ==
  /\ ~wrote
  /\ Wait(job, wrote) < MaxBackoff
  /\ \A slot \in Slots : th[Retry(job, slot)].pc # "asleep"
  /\ ~Aborted

(* A retry settles as its last step, every other pass goes on. *)
Settle(t, job, wrote) ==
  LET ended == t.role = "retry"
      after == IF ended THEN Over(t)
               ELSE [th EXCEPT ![t] = [At("running") EXCEPT !.todo = th[t].todo]]
      free == {slot \in Slots : after[Retry(job, slot)].pc = "off"}
  IN /\ backoff' = [backoff EXCEPT ![job] = Wait(job, wrote)]
     /\ IF RetryDue(job, wrote)
        THEN \E slot \in free :
               /\ \A other \in free : slot <= other
               /\ th' = [after EXCEPT ![Retry(job, slot)] = At("asleep")]
        ELSE th' = after
     /\ IF ended THEN Released(t) ELSE UNCHANGED lock
     /\ UNCHANGED <<catalogs, stop, awaited, meld>>
-----------------------------------------------------------------------------
(* refreshCatalog *)

(* No catalog: the one there is stays, and routes without one end here. *)
NoCatalog(t) ==
  IF th[t].item.kind = "catalog"
  THEN PassStep(t, [At("running") EXCEPT !.todo = th[t].todo])
  ELSE Settle(t, th[t].item.job, FALSE)

(* The country list: listed, failed, or a body with no list in it, which   *)
(* discovery.countries hands over as an empty one.                         *)
CountriesAnswer(t) ==
  /\ Running(t, "countries")
  /\ \/ /\ meld = "any" /\ "failed" \in CountryAnswers
        /\ NoCatalog(t)
     \/ /\ meld = "any" /\ "unreadable" \in CountryAnswers
        /\ PassStep(t, [th[t] EXCEPT !.stage = "default"])
     \/ \E listed \in SUBSET Countries :
          /\ meld = "any" \/ listed = Countries
          /\ PassStep(t, [th[t] EXCEPT !.stage = "default", !.left = listed,
                                       !.denied = Countries \ listed])

(* One country's default fiat: named, none, or a failed call that keeps    *)
(* what was known.                                                         *)
DefaultAnswer(t) ==
  /\ Running(t, "default")
  /\ ~Aborted
  /\ \E country \in th[t].left, answer \in {"named", "none", "failed"} :
       /\ meld = "any" \/ answer = "named"
       /\ PassStep(t, [th[t] EXCEPT
            !.left = @ \ {country},
            !.found = @ \cup (CASE answer = "named" -> {country}
                                [] answer = "none" -> {}
                                [] answer = "failed" -> {country} \cap th[t].prior),
            !.denied = IF answer = "none" THEN @ \cup {country} ELSE @,
            !.failed = @ \/ answer = "failed"])

(* A walk cut short by a stop, or with nothing but failures to show, keeps *)
(* the catalog there was.                                                  *)
Kept(t) == Aborted \/ (th[t].found = {} /\ th[t].failed)

Built(t) ==
  /\ Running(t, "default")
  /\ Aborted \/ th[t].left = {}
  /\ IF Kept(t) THEN NoCatalog(t)
     ELSE /\ catalogs' = [catalogs EXCEPT ![th[t].item.job] = th[t].found]
          /\ th' = [th EXCEPT ![t] =
                 IF th[t].item.kind = "catalog"
                 THEN [At("running") EXCEPT !.todo = th[t].todo]
                 ELSE [th[t] EXCEPT !.stage = "corridor", !.left = th[t].found]]
          /\ UNCHANGED <<backoff, lock, stop, awaited, meld>>
-----------------------------------------------------------------------------
(* refreshRoutes: no methods and a failed call both leave the row alone. *)

CorridorAnswer(t) ==
  /\ Running(t, "corridor")
  /\ ~Aborted
  /\ \E country \in th[t].left, methods \in BOOLEAN :
       /\ meld = "any" \/ methods
       /\ PassStep(t, [th[t] EXCEPT !.left = @ \ {country},
                                    !.stage = IF methods THEN "write" ELSE "corridor"])

Upsert(t) ==
  /\ Running(t, "write")
  /\ ~Aborted
  /\ \E stored \in BOOLEAN :
       /\ meld = "any" \/ stored
       /\ PassStep(t, [th[t] EXCEPT !.stage = "corridor", !.wrote = @ \/ stored])

RoutesDone(t) ==
  /\ \/ Running(t, "corridor") /\ th[t].left = {}
     \/ th[t].stage \in {"corridor", "write"} /\ Aborted
  /\ Settle(t, th[t].item.job, th[t].wrote)
-----------------------------------------------------------------------------
(* stop(): abort, then await the loops and the retries there are, or the   *)
(* end of the grace.                                                       *)
AwaitedLoops == {Boot} \cup Loops
Awaited == {Boot} \cup Loops \cup {t \in Retries : th[t].pc # "off"}

Stop ==
  /\ stop = "no"
  /\ stop' = "asked"
  /\ awaited' = Awaited
  /\ UNCHANGED <<catalogs, backoff, th, lock, meld>>

Stopped ==
  /\ stop = "asked"
  /\ stop' \in {"timedout"} \cup {w \in {"settled"} : \A t \in awaited : th[t].pc = "off"}
  /\ UNCHANGED <<catalogs, backoff, th, lock, awaited, meld>>

MeldRecovers ==
  /\ meld = "any"
  /\ meld' = "everything"
  /\ UNCHANGED <<catalogs, backoff, th, lock, stop, awaited>>

Step(t) ==
  \/ Enter(t) \/ Pick(t) \/ Finish(t) \/ Quote(t) \/ CountriesAnswer(t)
  \/ DefaultAnswer(t) \/ Built(t) \/ CorridorAnswer(t) \/ Upsert(t) \/ RoutesDone(t)

Next ==
  \/ \E t \in Threads : Wake(t) \/ WakeAborted(t) \/ Step(t)
  \/ Stop \/ Stopped \/ MeldRecovers

Spec == Init /\ [][Next]_vars

(* Timers fire and every call ends: Meld's by its timeouts, the store's by *)
(* its own.                                                                *)
FairSpec == Spec /\ \A t \in Threads : WF_vars(Wake(t)) /\ WF_vars(Step(t))
-----------------------------------------------------------------------------
(* The threads and passes are what they should be, and no thread holds the *)
(* lock and awaits it (background.ts:8-18).                                *)
TypeOK ==
  /\ \A job \in Jobs : catalogs[job] = None \/ catalogs[job] \subseteq Countries
  /\ \A job \in Jobs : backoff[job] \in {None} \cup 0..MaxBackoff
  /\ \A t \in Threads :
       /\ th[t].pc \in {"off", "asleep", "queued", "running"}
       /\ th[t].stage \in {"pick", "countries", "default", "corridor", "write"}
       /\ th[t].left \subseteq Countries /\ th[t].found \subseteq Countries
       /\ (t = Boot => th[t].pc \in {"running", "off"})
  /\ lock \in Seq(Threads)
  /\ \A i, k \in DOMAIN lock : lock[i] = lock[k] => i = k
  /\ stop \in {"no", "asked", "settled", "timedout"}

(* Once the boot pass is over one pass calls Meld at a time: passes,       *)
(* retries and probes together (background.ts:6-18).                       *)
OneCallerAtATime ==
  th[Boot].pc = "off" => Cardinality({t \in Threads : th[t].pc = "running"}) <= 1

(* The lock keeps its shape, and keeps callers apart.                      *)
LockInv == TypeOK /\ OneCallerAtATime

(* When stop() says that all has settled no pass can touch Meld or the     *)
(* store any more: the pool may be closed (refresh.ts:292-296).            *)
StoppedIsQuiet == stop = "settled" => \A t \in Refresh : th[t].pc = "off"

(* A country leaves a catalog only on Meld's word, never over a failed     *)
(* call, a stop or a rebuild (refresh.ts:57-103).                          *)
KeptUnlessTold ==
  [][\A job \in Jobs :
       catalogs[job] # None =>
         \A country \in catalogs[job] :
           \/ country \in catalogs'[job]
           \/ \E t \in Threads : th[t].pc = "running" /\ th[t].item = Item("catalog", job)
                                 /\ country \in th[t].denied]_vars

(* Once Meld answers again every job's corridors are refreshed, and are    *)
(* again and again, whatever failed before (refresh.ts:213-252).           *)
RefreshedAgain ==
  <>[](meld = "everything" /\ stop = "no") =>
    \A job \in Jobs : []<>(\E t \in Threads : th[t].wrote /\ th[t].item.job = job)
=============================================================================
