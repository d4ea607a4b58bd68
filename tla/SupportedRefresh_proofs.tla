----------------------- MODULE SupportedRefresh_proofs -----------------------
(***************************************************************************)
(* What SupportedRefresh says of any jobs, countries and backoff, and of   *)
(* any number of retries under way: the lock keeps the passes and the      *)
(* probes apart, a settled stop leaves nothing running, and, as long as    *)
(* every country list Meld sends can be read, no country leaves a catalog  *)
(* but on Meld's word.                                                     *)
(***************************************************************************)
EXTENDS SupportedRefresh, FiniteSetTheorems, TLAPS

(* A thread's record; one that has no pass under way holds nothing of the  *)
(* last.                                                                   *)
ThreadRecord(t) ==
  [pc : {"off", "asleep", "queued", "running"}, todo : SUBSET Pass(t),
   item : Pass(t) \cup {None},
   stage : {"pick", "countries", "default", "corridor", "write"},
   left : SUBSET Countries, prior : SUBSET Countries, found : SUBSET Countries,
   denied : SUBSET Countries, failed : BOOLEAN, wrote : BOOLEAN]

ThreadType(t) ==
  /\ th[t] \in ThreadRecord(t)
  /\ th[t].stage # "pick" => th[t].item \in Pass(t)
  /\ th[t].stage \in {"corridor", "write"} => th[t].item.kind = "routes"
  /\ th[t].pc # "running" => th[t] = At(th[t].pc)

Types ==
  /\ catalogs \in [Jobs -> (SUBSET Countries) \cup {None}]
  /\ backoff \in [Jobs -> {None} \cup 0..MaxBackoff]
  /\ th = [t \in Threads |-> th[t]]
  /\ \A t \in Threads : ThreadType(t)
  /\ lock \in Seq(Threads)
  /\ stop \in {"no", "asked", "settled", "timedout"}

(* The lock lists the passes that await it, once each, the one that holds  *)
(* it first; the boot pass needs none because no loop is up yet.           *)
LockShape ==
  /\ th[Boot].pc \in {"running", "off"}
  /\ th[Boot].pc = "running" => \A t \in Loops : th[t].pc = "off"
  /\ \A i \in DOMAIN lock : lock[i] # Boot /\ th[lock[i]].pc \in {"queued", "running"}
  /\ \A i, k \in DOMAIN lock : lock[i] = lock[k] => i = k
  /\ \A t \in Threads \ {Boot} : th[t].pc = "queued" => \E i \in DOMAIN lock : lock[i] = t
  /\ \A t \in Threads \ {Boot} : th[t].pc = "running" => lock # <<>> /\ lock[1] = t

(* A retry may run beside the boot pass, which never again comes near its  *)
(* job: a job is armed for a retry once its routes are through, and those  *)
(* come after every catalog.                                               *)
BootDone(job) ==
  /\ \A item \in th[Boot].todo : item.kind # "catalog" /\ item # Item("routes", job)
  /\ th[Boot].stage # "pick" =>
       th[Boot].item.kind # "catalog" /\ th[Boot].item # Item("routes", job)

BootInv ==
  th[Boot].pc = "running" =>
    /\ th[Boot].stage # "pick" =>
         /\ th[Boot].item \notin th[Boot].todo
         /\ th[Boot].item.kind = "routes" => \A item \in th[Boot].todo : item.kind # "catalog"
    /\ \A r \in Retries : th[r].pc # "off" => BootDone(r.job)

(* Whatever is still up when stop() is called, or is let up after it, is   *)
(* among those it awaits.                                                  *)
AwaitInv ==
  /\ Aborted => /\ {Boot} \cup Loops \subseteq awaited
                /\ \A t \in Refresh : th[t].pc # "off" => t \in awaited
  /\ stop = "settled" => \A t \in Refresh : th[t].pc = "off"

IInv == Types /\ LockShape /\ BootInv /\ AwaitInv
-----------------------------------------------------------------------------
(* Who the threads are, and what their passes hold. *)

LEMMA Who ==
  /\ Boot \in Threads /\ Prober \in Threads /\ Prober \notin Refresh
  /\ Boot \notin Loops /\ Boot \notin Retries /\ Boot # Prober
  /\ \A t \in Loops : t \in Threads /\ t \notin Retries /\ t # Prober
  /\ \A t \in Retries :
       /\ t \in Threads /\ t # Prober /\ t.role = "retry"
       /\ t.job \in Jobs /\ Pass(t) = {Item("routes", t.job)}
  /\ \A t \in Threads : t.role = "retry" => t \in Retries
  /\ \A t \in Threads : t = Boot \/ t = Prober \/ t \in Loops \/ t \in Retries
  /\ \A job \in Jobs, slot \in Slots : Retry(job, slot) \in Retries /\ Retry(job, slot).job = job
<1>1. /\ Boot.role = "boot" /\ Prober.role = "prober"
      /\ \A t \in Loops : t.role \in {"catalog", "routes"}
      /\ \A t \in Retries : t.role = "retry" /\ t.job \in Jobs
  BY DEF Boot, Prober, CatalogLoop, RoutesLoop, Retry, Thread, Retries, Loops
<1>2. Threads = {Boot, Prober} \cup Loops \cup Retries
      /\ Refresh = {Boot} \cup Loops \cup Retries
  BY DEF Threads, Refresh
<1>3. \A t \in Retries : Pass(t) = {Item("routes", t.job)}
  BY <1>1 DEF Pass
<1>4. \A job \in Jobs, slot \in Slots : Retry(job, slot) \in Retries /\ Retry(job, slot).job = job
  BY DEF Retries, Retry, Thread
<1> QED BY <1>1, <1>2, <1>3, <1>4

LEMMA Items ==
  ASSUME NEW t \in Threads, NEW item \in Pass(t)
  PROVE  /\ item.job \in Jobs /\ item.kind \in {"catalog", "routes"}
         /\ item = Item(item.kind, item.job) /\ t # Prober
  BY DEF Pass, Threads, Refresh, Loops, Retries, Boot, Prober, CatalogLoop, RoutesLoop, Retry,
         Thread, CatalogPass, RoutesPass, Item

LEMMA BootRoutes ==
  ASSUME NEW item \in Pass(Boot), item.kind # "catalog"
  PROVE  item.job \in Jobs /\ item = Item("routes", item.job)
  BY Who, Items

LEMMA Ats ==
  ASSUME NEW t \in Threads, NEW pc \in {"off", "asleep", "queued", "running"}
  PROVE  /\ At(pc) \in ThreadRecord(t)
         /\ At(pc).pc = pc /\ At(pc).stage = "pick" /\ At(pc).todo = {}
  BY DEF At, ThreadRecord

(* Between two jobs a pass holds only what it has still to do. *)
Between(todo) == [At("running") EXCEPT !.todo = todo]

LEMMA Betweens ==
  ASSUME NEW t \in Threads, NEW todo \in SUBSET Pass(t)
  PROVE  /\ Between(todo) \in ThreadRecord(t)
         /\ Between(todo).pc = "running" /\ Between(todo).stage = "pick"
         /\ Between(todo).todo = todo
  BY DEF At, ThreadRecord, Between

LEMMA Begun ==
  ASSUME NEW t \in Threads
  PROVE  /\ Started(t) \in ThreadRecord(t)
         /\ Started(t).pc = "running" /\ Started(t).stage = "pick" /\ Started(t).todo = Pass(t)
  BY Betweens DEF Started, Between

LEMMA InitInv == Init => IInv
<1> SUFFICES ASSUME Init PROVE IInv
  OBVIOUS
<1>1. th = [t \in Threads |-> th[t]] /\ th[Boot] = Started(Boot)
      /\ \A t \in Threads \ {Boot} : th[t] = At("off") \/ (t = Prober /\ th[t] = At("asleep"))
  BY Who DEF Init
<1>2. Types
  <2>1. ASSUME NEW t \in Threads PROVE ThreadType(t)
    <3>1. CASE t = Boot
      BY <1>1, <3>1, Begun DEF ThreadType
    <3>2. CASE t # Boot
      BY <1>1, <3>2, Ats DEF ThreadType
    <3> QED BY <3>1, <3>2
  <2>2. catalogs \in [Jobs -> (SUBSET Countries) \cup {None}]
        /\ backoff \in [Jobs -> {None} \cup 0..MaxBackoff]
    BY DEF Init
  <2>3. lock \in Seq(Threads) /\ stop = "no"
    BY DEF Init
  <2> QED BY <1>1, <2>1, <2>2, <2>3 DEF Types
<1>3. th[Boot].pc = "running" /\ th[Boot].stage = "pick"
  BY <1>1, Begun, Who
<1>4. \A t \in Refresh \ {Boot} : th[t].pc = "off"
  BY <1>1, Ats, Who DEF Refresh, Threads
<1>5. LockShape
  <2>1. \A t \in Threads \ {Boot} : th[t].pc \in {"off", "asleep"}
    BY <1>1, Ats
  <2>2. \A t \in Loops : th[t].pc = "off"
    BY <1>4, Who DEF Refresh
  <2>3. lock = <<>>
    BY DEF Init
  <2> QED BY <1>3, <2>1, <2>2, <2>3 DEF LockShape
<1>6. BootInv
  BY <1>3, <1>4, Who DEF BootInv, Refresh
<1>7. AwaitInv
  BY DEF Init, AwaitInv, Aborted
<1> QED BY <1>2, <1>5, <1>6, <1>7 DEF IInv
-----------------------------------------------------------------------------
(* What a step of a pass may do to the threads: its own goes on or ends,   *)
(* and another is let up only as a loop by the boot pass, or as a retry of *)
(* the job whose routes have just failed.                                  *)
Arms(t, job) ==
  /\ ~Aborted
  /\ th[t].stage # "pick" /\ th[t].item = Item("routes", job)
  /\ t = Boot => th'[t] = Between(th[t].todo)

Undisturbed(t, u) ==
  \/ th'[u] = th[u]
  \/ /\ th[u].pc = "off" /\ th'[u] = At("asleep")
     /\ \/ u \in Loops /\ t = Boot /\ th'[Boot].pc = "off"
        \/ u \in Retries /\ Arms(t, u.job)

Goes(t) ==
  /\ th[t].pc = "running"
  /\ th' = [u \in Threads |-> th'[u]]
  /\ ThreadType(t)'
  /\ \A u \in Threads \ {t} : Undisturbed(t, u)
  /\ catalogs' \in [Jobs -> (SUBSET Countries) \cup {None}]
  /\ backoff' \in [Jobs -> {None} \cup 0..MaxBackoff]
  /\ UNCHANGED <<stop, awaited, meld>>

(* From one stage to the next, job by job. *)
Advances(t) ==
  \/ th'[t].stage = "pick" /\ th'[t].todo = th[t].todo
  \/ th[t].stage # "pick" /\ th'[t].item = th[t].item /\ th'[t].todo = th[t].todo
  \/ \E item \in NextItems(th[t].todo) : th'[t].item = item /\ th'[t].todo = th[t].todo \ {item}

RunsOn(t) == Goes(t) /\ th'[t].pc = "running" /\ Advances(t) /\ UNCHANGED lock

Ends(t) ==
  /\ Goes(t)
  /\ th'[t] \in {At("asleep"), At("off")}
  /\ t = Boot => th'[t] = At("off")
  /\ Released(t)

LEMMA PassSteps ==
  ASSUME IInv, NEW t \in Threads, th[t].pc = "running",
         NEW pass \in ThreadRecord(t), pass.pc = "running",
         pass.stage # "pick" => pass.item \in Pass(t),
         pass.stage \in {"corridor", "write"} => pass.item.kind = "routes",
         \/ pass.stage = "pick" /\ pass.todo = th[t].todo
         \/ th[t].stage # "pick" /\ pass.item = th[t].item /\ pass.todo = th[t].todo
         \/ \E item \in NextItems(th[t].todo) :
              pass.item = item /\ pass.todo = th[t].todo \ {item},
         PassStep(t, pass)
  PROVE  RunsOn(t)
<1>1. /\ th' = [u \in Threads |-> th'[u]]
      /\ th'[t] = pass /\ \A u \in Threads \ {t} : th'[u] = th[u]
      /\ UNCHANGED <<catalogs, backoff, lock, stop, awaited, meld>>
  BY DEF PassStep, IInv, Types
<1>2. ThreadType(t)'
  BY <1>1 DEF ThreadType
<1>3. Goes(t)
  BY <1>1, <1>2 DEF Goes, Undisturbed, IInv, Types
<1>4. Advances(t)
  BY <1>1 DEF Advances
<1> QED BY <1>1, <1>3, <1>4 DEF RunsOn

LEMMA Own ==
  ASSUME IInv, NEW t \in Threads
  PROVE  /\ th[t] \in ThreadRecord(t)
         /\ th[t].stage # "pick" => /\ th[t].item \in Pass(t) /\ th[t].item.job \in Jobs
                                    /\ th[t].item = Item(th[t].item.kind, th[t].item.job)
                                    /\ th[t].pc = "running" /\ t # Prober
         /\ th[t].stage \in {"corridor", "write"} => th[t].item.kind = "routes"
         /\ th[t].pc # "running" => th[t] = At(th[t].pc)
         /\ Between(th[t].todo) \in ThreadRecord(t)
<1>1. ThreadType(t)
  BY DEF IInv, Types
<1>2. th[t].pc \in {"off", "asleep", "queued", "running"} /\ th[t].todo \in SUBSET Pass(t)
  BY <1>1 DEF ThreadType, ThreadRecord
<1>3. th[t].stage # "pick" => th[t].pc = "running"
  BY <1>1, <1>2, Ats DEF ThreadType
<1> QED BY <1>1, <1>2, <1>3, Items, Betweens DEF ThreadType

LEMMA WaitType ==
  ASSUME IInv, NEW job \in Jobs, NEW wrote
  PROVE  Wait(job, wrote) \in {None} \cup 0..MaxBackoff
<1>1. backoff[job] \in {None} \cup 0..MaxBackoff /\ MaxBackoff \in Nat
  BY RefreshConstants DEF IInv, Types
<1> QED BY <1>1 DEF Wait

LEMMA Settles ==
  ASSUME IInv, NEW t \in Threads, th[t].stage # "pick", th[t].item.kind = "routes",
         NEW job, job = th[t].item.job, NEW wrote, Settle(t, job, wrote)
  PROVE  (RunsOn(t) \/ Ends(t)) /\ th'[t].stage = "pick" /\ UNCHANGED catalogs
<1> DEFINE ended == t.role = "retry"
           after == IF ended THEN Over(t) ELSE [th EXCEPT ![t] = Between(th[t].todo)]
           mine == IF ended THEN At("off") ELSE Between(th[t].todo)
           moved ==
             /\ th' = [u \in Threads |-> th'[u]]
             /\ \/ th'[t] = mine
                \/ ended /\ th'[t] = At("asleep")
             /\ \A u \in Threads \ {t} :
                  \/ th'[u] = th[u]
                  \/ /\ u \in Retries /\ u.job = job /\ ~Aborted
                     /\ th[u].pc = "off" /\ th'[u] = At("asleep") /\ th'[t] = mine
<1>1. /\ th[t].pc = "running" /\ job \in Jobs /\ th[t].item = Item("routes", job)
      /\ Between(th[t].todo) \in ThreadRecord(t) /\ th[t].todo \in SUBSET Pass(t)
  BY Own DEF ThreadRecord
<1>2. ended <=> t \in Retries
  BY Who
<1>3. /\ after = [u \in Threads |-> after[u]]
      /\ after[t] = mine /\ \A u \in Threads \ {t} : after[u] = th[u]
  BY <1>2, Who DEF Over, IInv, Types
<1>4. /\ backoff' = [backoff EXCEPT ![job] = Wait(job, wrote)]
      /\ UNCHANGED <<catalogs, stop, awaited, meld>>
      /\ IF ended THEN Released(t) ELSE UNCHANGED lock
      /\ \/ th' = after
         \/ \E slot \in Slots :
              /\ after[Retry(job, slot)].pc = "off" /\ ~Aborted
              /\ th' = [after EXCEPT ![Retry(job, slot)] = At("asleep")]
  BY DEF Settle, RetryDue, Between
<1> HIDE DEF after
<1>5. /\ catalogs' \in [Jobs -> (SUBSET Countries) \cup {None}]
      /\ backoff' \in [Jobs -> {None} \cup 0..MaxBackoff]
  BY <1>1, <1>4, WaitType DEF IInv, Types
<1>6. moved
  <2>1. CASE th' = after
    BY <1>3, <2>1
  <2>2. ASSUME NEW r \in Retries, r.job = job, after[r].pc = "off", ~Aborted,
               th' = [after EXCEPT ![r] = At("asleep")]
        PROVE  moved
    <3>1. r \in Threads /\ after[r].pc = "off"
      BY <2>2, Who
    <3>2. CASE r = t
      <4>1. ended
        BY <1>2, <3>2
      <4> QED BY <1>3, <2>2, <3>1, <3>2, <4>1
    <3>3. CASE r # t
      BY <1>3, <2>2, <3>1, <3>3
    <3> QED BY <3>2, <3>3
  <2>3. ASSUME NEW slot \in Slots, after[Retry(job, slot)].pc = "off", ~Aborted,
               th' = [after EXCEPT ![Retry(job, slot)] = At("asleep")]
        PROVE  moved
    <3>1. Retry(job, slot) \in Retries /\ Retry(job, slot).job = job
      BY <1>1, Who
    <3> HIDE DEF moved
    <3> QED BY <2>2, <2>3, <3>1
  <2> HIDE DEF moved
  <2> QED BY <1>4, <2>1, <2>3
<1>7. ThreadType(t)'
  <2>1. \/ th'[t] = Between(th[t].todo)
        \/ \E pc \in {"off", "asleep"} : th'[t] = At(pc)
    BY <1>6
  <2> QED BY <1>1, <2>1, Ats, Betweens DEF ThreadType
<1>8. Goes(t)
  <2>1. ASSUME NEW u \in Threads \ {t} PROVE Undisturbed(t, u)
    <3>1. t = Boot => mine = Between(th[t].todo)
      BY <1>2, Who
    <3> QED BY <1>1, <1>6, <3>1 DEF Undisturbed, Arms
  <2> QED BY <1>1, <1>4, <1>5, <1>6, <1>7, <2>1 DEF Goes
<1>9. th'[t].stage = "pick" /\ UNCHANGED catalogs
  <2>1. \/ th'[t] = Between(th[t].todo)
        \/ \E pc \in {"off", "asleep"} : th'[t] = At(pc)
    BY <1>6
  <2> QED BY <1>1, <1>4, <2>1, Ats, Betweens
<1>10. CASE ended
  <2>1. t # Boot /\ th'[t] \in {At("asleep"), At("off")} /\ Released(t)
    BY <1>2, <1>4, <1>6, <1>10, Who
  <2> QED BY <1>8, <1>9, <2>1 DEF Ends
<1>11. CASE ~ended
  <2>1. th'[t] = Between(th[t].todo) /\ UNCHANGED lock
    BY <1>4, <1>6, <1>11
  <2> QED BY <1>1, <1>8, <1>9, <2>1, Betweens DEF RunsOn, Advances
<1> QED BY <1>10, <1>11

LEMMA Overs ==
  ASSUME IInv, NEW t \in Threads, Running(t, "pick"), th' = Over(t), Released(t),
         UNCHANGED <<catalogs, backoff, stop, awaited, meld>>
  PROVE  Ends(t)
<1>1. /\ th[t].pc = "running" /\ th' = [u \in Threads |-> th'[u]]
      /\ th'[t] = At(IF t \in Loops \cup {Prober} THEN "asleep" ELSE "off")
      /\ \A u \in Threads \ {t} :
           th'[u] = IF t = Boot /\ u \in Loops THEN At("asleep") ELSE th[u]
  BY DEF Over, Running
<1>2. t = Boot => th'[t] = At("off")
  BY <1>1, Who
<1>3. ThreadType(t)'
  <2>1. \E pc \in {"off", "asleep"} : th'[t] = At(pc)
    BY <1>1
  <2> QED BY <2>1, Ats DEF ThreadType
<1>4. ASSUME NEW u \in Threads \ {t} PROVE Undisturbed(t, u)
  <2>1. CASE t = Boot /\ u \in Loops
    <3>1. th[u].pc = "off" /\ th'[u] = At("asleep")
      BY <1>1, <2>1 DEF IInv, LockShape
    <3>2. th'[Boot].pc = "off"
      BY <1>2, <2>1, Ats
    <3> QED BY <2>1, <3>1, <3>2 DEF Undisturbed
  <2>2. CASE ~(t = Boot /\ u \in Loops)
    BY <1>1, <2>2 DEF Undisturbed
  <2> QED BY <2>1, <2>2
<1>5. Goes(t)
  BY <1>1, <1>3, <1>4 DEF Goes, IInv, Types
<1>6. th'[t] \in {At("asleep"), At("off")}
  BY <1>1
<1> QED BY <1>2, <1>5, <1>6 DEF Ends

LEMMA NoCatalogs ==
  ASSUME IInv, NEW t \in Threads, th[t].stage # "pick", NoCatalog(t)
  PROVE  (RunsOn(t) \/ Ends(t)) /\ th'[t].stage = "pick" /\ UNCHANGED catalogs
<1>1. th[t].item.kind \in {"catalog", "routes"} /\ th[t].pc = "running"
  BY Own, Items
<1>2. CASE th[t].item.kind = "catalog"
  <2>1. PassStep(t, Between(th[t].todo))
    BY <1>2 DEF NoCatalog, Between
  <2>2. Between(th[t].todo).stage = "pick"
    BY Own, Betweens DEF ThreadRecord
  <2>3. th'[t].stage = "pick" /\ UNCHANGED catalogs
    BY <2>1, <2>2 DEF PassStep, IInv, Types
  <2>4. RunsOn(t)
    BY <1>1, <2>1, Own, Betweens, PassSteps DEF ThreadRecord
  <2> QED BY <2>3, <2>4
<1>3. CASE th[t].item.kind # "catalog"
  <2>1. Settle(t, th[t].item.job, FALSE)
    BY <1>3 DEF NoCatalog
  <2> QED BY <1>1, <1>3, <2>1, Settles
<1> QED BY <1>2, <1>3

LEMMA Picks ==
  ASSUME IInv, NEW t \in Threads, Pick(t)
  PROVE  RunsOn(t)
<1>1. PICK item \in NextItems(th[t].todo) :
        LET builds == item.kind = "catalog" \/ catalogs[item.job] = None
        IN PassStep(t, [At("running") EXCEPT
             !.todo = th[t].todo \ {item}, !.item = item,
             !.stage = IF builds THEN "countries" ELSE "corridor",
             !.left = IF builds THEN {} ELSE catalogs[item.job],
             !.prior = IF builds THEN Previous(item) ELSE {}])
  BY DEF Pick
<1> DEFINE builds == item.kind = "catalog" \/ catalogs[item.job] = None
           stage == IF builds THEN "countries" ELSE "corridor"
           left == IF builds THEN {} ELSE catalogs[item.job]
           prior == IF builds THEN Previous(item) ELSE {}
           pass == [At("running") EXCEPT !.todo = th[t].todo \ {item}, !.item = item,
                                         !.stage = stage, !.left = left, !.prior = prior]
<1>2. th[t].todo \in SUBSET Pass(t) /\ th[t].pc = "running"
  BY Own DEF ThreadRecord, Pick, Running
<1>3. item \in th[t].todo /\ item \in Pass(t) /\ item.job \in Jobs /\ item.kind \in {"catalog", "routes"}
  BY <1>2, Items DEF NextItems
<1>4. catalogs[item.job] \in (SUBSET Countries) \cup {None}
  BY <1>3 DEF IInv, Types
<1>5. left \in SUBSET Countries /\ prior \in SUBSET Countries
  BY <1>4 DEF Previous
<1>6. stage \in {"countries", "corridor"} /\ (stage = "corridor" => item.kind = "routes")
  BY <1>3
<1>7. PassStep(t, pass)
  BY <1>1
<1> HIDE DEF builds, stage, left, prior
<1>8. /\ pass \in ThreadRecord(t) /\ pass.pc = "running" /\ pass.stage = stage
      /\ pass.item = item /\ pass.todo = th[t].todo \ {item}
  BY <1>2, <1>3, <1>5, <1>6 DEF At, ThreadRecord
<1> HIDE DEF pass
<1> QED BY <1>2, <1>3, <1>6, <1>7, <1>8, PassSteps

LEMMA Countrys ==
  ASSUME IInv, NEW t \in Threads, CountriesAnswer(t)
  PROVE  RunsOn(t) \/ Ends(t)
<1>1. th[t].pc = "running" /\ th[t].stage = "countries" /\ th[t] \in ThreadRecord(t)
      /\ th[t].item \in Pass(t)
  BY Own DEF CountriesAnswer, Running
<1>2. CASE NoCatalog(t)
  BY <1>1, <1>2, NoCatalogs
<1>3. ASSUME NEW left \in SUBSET Countries, NEW denied \in SUBSET Countries,
             PassStep(t, [th[t] EXCEPT !.stage = "default", !.left = left, !.denied = denied])
      PROVE  RunsOn(t)
  <2> DEFINE pass == [th[t] EXCEPT !.stage = "default", !.left = left, !.denied = denied]
  <2>1. /\ pass \in ThreadRecord(t) /\ pass.pc = "running" /\ pass.stage = "default"
        /\ pass.item = th[t].item /\ pass.todo = th[t].todo
    BY <1>1 DEF ThreadRecord
  <2>2. PassStep(t, pass)
    BY <1>3
  <2> HIDE DEF pass
  <2> QED BY <1>1, <2>1, <2>2, PassSteps
<1>4. CASE PassStep(t, [th[t] EXCEPT !.stage = "default"])
  <2>1. th[t].left \in SUBSET Countries /\ th[t].denied \in SUBSET Countries
        /\ [th[t] EXCEPT !.stage = "default"]
             = [th[t] EXCEPT !.stage = "default", !.left = th[t].left, !.denied = th[t].denied]
    BY <1>1 DEF ThreadRecord
  <2> QED BY <1>3, <1>4, <2>1
<1>5. NoCatalog(t) \/ PassStep(t, [th[t] EXCEPT !.stage = "default"])
      \/ \E listed \in SUBSET Countries :
           PassStep(t, [th[t] EXCEPT !.stage = "default", !.left = listed,
                                     !.denied = Countries \ listed])
  BY DEF CountriesAnswer
<1> QED BY <1>2, <1>3, <1>4, <1>5

LEMMA Defaults ==
  ASSUME IInv, NEW t \in Threads, DefaultAnswer(t)
  PROVE  RunsOn(t)
<1>1. th[t].pc = "running" /\ th[t].stage = "default" /\ th[t] \in ThreadRecord(t)
      /\ th[t].item \in Pass(t)
  BY Own DEF DefaultAnswer, Running
<1>2. PICK left \in SUBSET Countries, found \in SUBSET Countries, denied \in SUBSET Countries,
           failed \in BOOLEAN :
        PassStep(t, [th[t] EXCEPT !.left = left, !.found = found, !.denied = denied,
                                  !.failed = failed])
  <2>1. PICK country \in th[t].left, answer \in {"named", "none", "failed"} :
          PassStep(t, [th[t] EXCEPT
            !.left = @ \ {country},
            !.found = @ \cup (CASE answer = "named" -> {country}
                                [] answer = "none" -> {}
                                [] answer = "failed" -> {country} \cap th[t].prior),
            !.denied = IF answer = "none" THEN @ \cup {country} ELSE @,
            !.failed = @ \/ answer = "failed"])
    BY DEF DefaultAnswer
  <2> DEFINE left == th[t].left \ {country}
             found == th[t].found \cup (CASE answer = "named" -> {country}
                                          [] answer = "none" -> {}
                                          [] answer = "failed" -> {country} \cap th[t].prior)
             denied == IF answer = "none" THEN th[t].denied \cup {country} ELSE th[t].denied
             failed == th[t].failed \/ answer = "failed"
  <2>2. left \in SUBSET Countries /\ found \in SUBSET Countries /\ denied \in SUBSET Countries
        /\ failed \in BOOLEAN
    BY <1>1 DEF ThreadRecord
  <2>3. PassStep(t, [th[t] EXCEPT !.left = left, !.found = found, !.denied = denied,
                                  !.failed = failed])
    BY <2>1
  <2> QED BY ZenonT(60), <2>2, <2>3
<1> DEFINE pass == [th[t] EXCEPT !.left = left, !.found = found, !.denied = denied,
                                 !.failed = failed]
<1>3. /\ pass \in ThreadRecord(t) /\ pass.pc = "running" /\ pass.stage = "default"
      /\ pass.item = th[t].item /\ pass.todo = th[t].todo
  BY <1>1 DEF ThreadRecord
<1>4. PassStep(t, pass)
  BY <1>2
<1> HIDE DEF pass
<1> QED BY <1>1, <1>3, <1>4, PassSteps

LEMMA Builts ==
  ASSUME IInv, NEW t \in Threads, Built(t)
  PROVE  RunsOn(t) \/ Ends(t)
<1>1. /\ th[t].pc = "running" /\ th[t].stage = "default" /\ th[t] \in ThreadRecord(t)
      /\ th[t].item \in Pass(t) /\ th[t].item.job \in Jobs
      /\ th[t].item.kind \in {"catalog", "routes"} /\ Between(th[t].todo) \in ThreadRecord(t)
  BY Own, Items DEF Built, Running
<1>2. CASE NoCatalog(t)
  BY <1>1, <1>2, NoCatalogs
<1>3. CASE ~NoCatalog(t)
  <2> DEFINE on == [th[t] EXCEPT !.stage = "corridor", !.left = th[t].found]
             pass == IF th[t].item.kind = "catalog" THEN Between(th[t].todo) ELSE on
  <2>1. /\ catalogs' = [catalogs EXCEPT ![th[t].item.job] = th[t].found]
        /\ th' = [th EXCEPT ![t] = pass]
        /\ UNCHANGED <<backoff, lock, stop, awaited, meld>>
    BY <1>3 DEF Built, Between
  <2>2. /\ on \in ThreadRecord(t) /\ on.pc = "running" /\ on.stage = "corridor"
        /\ on.item = th[t].item /\ on.todo = th[t].todo /\ th[t].found \in SUBSET Countries
    BY <1>1 DEF ThreadRecord
  <2>3. /\ pass \in ThreadRecord(t) /\ pass.pc = "running" /\ pass.todo = th[t].todo
        /\ \/ pass.stage = "pick"
           \/ pass.stage = "corridor" /\ pass.item = th[t].item /\ pass.item.kind = "routes"
    <3>1. Between(th[t].todo).pc = "running" /\ Between(th[t].todo).stage = "pick"
          /\ Between(th[t].todo).todo = th[t].todo
      BY <1>1, Betweens DEF ThreadRecord
    <3> QED BY <1>1, <2>2, <3>1
  <2> HIDE DEF on, pass
  <2>4. /\ th' = [u \in Threads |-> th'[u]]
        /\ th'[t] = pass /\ \A u \in Threads \ {t} : th'[u] = th[u]
    BY <2>1 DEF IInv, Types
  <2>5. ThreadType(t)'
    BY <1>1, <2>3, <2>4 DEF ThreadType
  <2>6. catalogs' \in [Jobs -> (SUBSET Countries) \cup {None}]
    BY <1>1, <2>1, <2>2 DEF IInv, Types
  <2>7. Goes(t)
    BY <1>1, <2>1, <2>4, <2>5, <2>6 DEF Goes, Undisturbed, IInv, Types
  <2>8. Advances(t)
    BY <1>1, <2>3, <2>4 DEF Advances
  <2> QED BY <2>1, <2>3, <2>4, <2>7, <2>8 DEF RunsOn
<1> QED BY <1>2, <1>3

LEMMA Corridor ==
  ASSUME IInv, NEW t \in Threads, CorridorAnswer(t) \/ Upsert(t)
  PROVE  RunsOn(t)
<1>1. /\ th[t].pc = "running" /\ th[t].stage \in {"corridor", "write"}
      /\ th[t] \in ThreadRecord(t) /\ th[t].item \in Pass(t) /\ th[t].item.kind = "routes"
  BY Own DEF CorridorAnswer, Upsert, Running
<1>2. PICK left \in SUBSET Countries, stage \in {"corridor", "write"}, wrote \in BOOLEAN :
        PassStep(t, [th[t] EXCEPT !.left = left, !.stage = stage, !.wrote = wrote])
  <2>1. CASE CorridorAnswer(t)
    <3>1. PICK country \in th[t].left, methods \in BOOLEAN :
            PassStep(t, [th[t] EXCEPT !.left = @ \ {country},
                                      !.stage = IF methods THEN "write" ELSE "corridor"])
      BY <2>1 DEF CorridorAnswer
    <3> DEFINE left == th[t].left \ {country}
               stage == IF methods THEN "write" ELSE "corridor"
    <3>2. left \in SUBSET Countries /\ stage \in {"corridor", "write"} /\ th[t].wrote \in BOOLEAN
      BY <1>1 DEF ThreadRecord
    <3>3. [th[t] EXCEPT !.left = left, !.stage = stage]
            = [th[t] EXCEPT !.left = left, !.stage = stage, !.wrote = th[t].wrote]
      BY <1>1 DEF ThreadRecord
    <3> QED BY <3>1, <3>2, <3>3
  <2>2. CASE Upsert(t)
    <3>1. PICK stored \in BOOLEAN :
            PassStep(t, [th[t] EXCEPT !.stage = "corridor", !.wrote = @ \/ stored])
      BY <2>2 DEF Upsert
    <3> DEFINE wrote == th[t].wrote \/ stored
    <3>2. wrote \in BOOLEAN /\ th[t].left \in SUBSET Countries
      BY <1>1 DEF ThreadRecord
    <3>3. [th[t] EXCEPT !.stage = "corridor", !.wrote = wrote]
            = [th[t] EXCEPT !.left = th[t].left, !.stage = "corridor", !.wrote = wrote]
      BY <1>1 DEF ThreadRecord
    <3> QED BY <3>1, <3>2, <3>3
  <2> QED BY <2>1, <2>2
<1> DEFINE pass == [th[t] EXCEPT !.left = left, !.stage = stage, !.wrote = wrote]
<1>3. /\ pass \in ThreadRecord(t) /\ pass.pc = "running" /\ pass.stage = stage
      /\ pass.item = th[t].item /\ pass.todo = th[t].todo
  BY <1>1 DEF ThreadRecord
<1>4. PassStep(t, pass)
  BY <1>2
<1> HIDE DEF pass
<1> QED BY <1>1, <1>3, <1>4, PassSteps

LEMMA Dones ==
  ASSUME IInv, NEW t \in Threads, RoutesDone(t)
  PROVE  RunsOn(t) \/ Ends(t)
<1>1. th[t].stage \in {"corridor", "write"} /\ Settle(t, th[t].item.job, th[t].wrote)
  BY DEF RoutesDone, Running
<1> QED BY <1>1, Own, Settles

(* Once it has the lock a pass goes on or ends. *)
LEMMA StepMoves ==
  ASSUME IInv, NEW t \in Threads, Step(t)
  PROVE  Enter(t) \/ RunsOn(t) \/ Ends(t)
<1>1. CASE Finish(t) \/ Quote(t)
  <2>1. /\ Running(t, "pick") /\ th' = Over(t) /\ Released(t)
        /\ UNCHANGED <<catalogs, backoff, stop, awaited, meld>>
    BY <1>1 DEF Finish, Quote
  <2> QED BY <2>1, Overs
<1> QED BY <1>1, Picks, Countrys, Defaults, Builts, Corridor, Dones DEF Step

LEMMA TypesKept ==
  ASSUME IInv, NEW t \in Threads, Goes(t), lock' \in Seq(Threads)
  PROVE  Types'
<1>1. ASSUME NEW u \in Threads PROVE ThreadType(u)'
  <2>1. CASE u = t
    BY <2>1 DEF Goes
  <2>2. CASE u # t
    <3>1. th'[u] = th[u] \/ th'[u] = At("asleep")
      BY <2>2 DEF Goes, Undisturbed
    <3>2. CASE th'[u] = th[u]
      BY <3>2 DEF ThreadType, IInv, Types
    <3>3. CASE th'[u] = At("asleep")
      BY <3>3, Ats DEF ThreadType
    <3> QED BY <3>1, <3>2, <3>3
  <2> QED BY <2>1, <2>2
<1> QED BY <1>1 DEF Goes, IInv, Types

LEMMA OnLock ==
  ASSUME IInv, NEW t \in Threads, RunsOn(t)
  PROVE  LockShape'
<1>1. \A u \in Threads : \/ u = t /\ th[u].pc = "running" /\ th'[u].pc = "running"
                         \/ u # t /\ th'[u] = th[u]
                         \/ /\ u # t /\ th[u].pc = "off" /\ th'[u].pc = "asleep"
                            /\ u \in Retries \/ (u \in Loops /\ t = Boot /\ th'[Boot].pc = "off")
  BY Ats DEF RunsOn, Goes, Undisturbed
<1>2. lock' = lock /\ lock \in Seq(Threads)
  BY DEF RunsOn, IInv, Types
<1>3. \A u \in Loops : th'[u] = th[u] \/ u = t
  BY <1>1, Who DEF RunsOn
<1>4. LockShape
  BY DEF IInv
<1>5. th'[Boot].pc = "running" => th[Boot].pc = "running" /\ t \notin Loops
  BY <1>1, <1>4, Who DEF LockShape
<1>6. th'[Boot].pc \in {"running", "off"}
  BY <1>1, <1>4, Who DEF LockShape
<1>7. \A i \in DOMAIN lock : lock[i] \in Threads
  BY <1>2
<1>8. \A i \in DOMAIN lock : th'[lock[i]].pc \in {"queued", "running"}
  BY <1>1, <1>4, <1>7 DEF LockShape
<1>9. \A u \in Threads : th'[u].pc \in {"queued", "running"} => th'[u].pc = th[u].pc
  BY <1>1
<1> QED BY <1>2, <1>3, <1>4, <1>5, <1>6, <1>8, <1>9, Who DEF LockShape

LEMMA OffLock ==
  ASSUME IInv, NEW t \in Threads, Ends(t)
  PROVE  lock' \in Seq(Threads) /\ LockShape'
<1>1. LockShape /\ lock \in Seq(Threads)
  BY DEF IInv, Types
<1>2. /\ th[t].pc = "running" /\ th'[t].pc \in {"asleep", "off"}
      /\ t = Boot => th'[Boot].pc = "off"
  BY Ats DEF Ends, Goes
<1>3. \A u \in Threads \ {t} :
        \/ th'[u] = th[u]
        \/ /\ th[u].pc = "off" /\ th'[u].pc = "asleep"
           /\ u \in Retries \/ (u \in Loops /\ t = Boot)
  BY Ats DEF Ends, Goes, Undisturbed
<1>4. \A u \in Threads : th'[u].pc \in {"queued", "running"} => u # t /\ th'[u].pc = th[u].pc
  BY <1>2, <1>3
<1>5. th'[Boot].pc \in {"running", "off"}
  BY <1>1, <1>2, <1>3, Who DEF LockShape
<1>6. th'[Boot].pc = "running" => \A u \in Loops : th'[u].pc = "off"
  <2>1. SUFFICES ASSUME th'[Boot].pc = "running", NEW u \in Loops PROVE th'[u].pc = "off"
    OBVIOUS
  <2>2. t # Boot /\ th[Boot].pc = "running" /\ u \in Threads /\ u \notin Retries
    BY <1>4, <2>1, Who
  <2>3. th[u].pc = "off" /\ u # t
    BY <1>1, <1>2, <2>2 DEF LockShape
  <2> QED BY <1>3, <2>2, <2>3
<1>7. CASE t = Boot
  <2>1. lock' = lock
    BY <1>7 DEF Ends, Released
  <2>2. \A i \in DOMAIN lock : th'[lock[i]].pc \in {"queued", "running"}
    <3>1. SUFFICES ASSUME NEW i \in DOMAIN lock PROVE th'[lock[i]].pc \in {"queued", "running"}
      OBVIOUS
    <3>2. lock[i] \in Threads \ {t} /\ th[lock[i]].pc \in {"queued", "running"}
      BY <1>1, <1>7 DEF LockShape
    <3> QED BY <1>3, <3>2
  <2> QED BY <1>1, <1>4, <1>5, <1>6, <2>1, <2>2 DEF LockShape
<1>8. CASE t # Boot
  <2>1. lock # <<>> /\ lock[1] = t /\ lock' = Tail(lock)
    BY <1>1, <1>2, <1>8 DEF LockShape, Ends, Released
  <2>2. /\ lock' \in Seq(Threads)
        /\ DOMAIN lock' = 1 .. Len(lock) - 1
        /\ \A i \in 1 .. Len(lock) - 1 : lock'[i] = lock[i + 1] /\ i + 1 \in DOMAIN lock
        /\ DOMAIN lock = 1 .. Len(lock) /\ Len(lock) \in Nat
    BY <1>1, <2>1
  <2>3. \A i \in DOMAIN lock' : lock'[i] # t /\ lock'[i] \in Threads
    BY <1>1, <2>1, <2>2 DEF LockShape
  <2>4. \A i \in DOMAIN lock' : lock'[i] # Boot /\ th'[lock'[i]].pc \in {"queued", "running"}
    <3>1. SUFFICES ASSUME NEW i \in DOMAIN lock'
                   PROVE  lock'[i] # Boot /\ th'[lock'[i]].pc \in {"queued", "running"}
      OBVIOUS
    <3>2. lock'[i] # Boot /\ th[lock'[i]].pc \in {"queued", "running"}
      BY <1>1, <2>2 DEF LockShape
    <3> QED BY <1>3, <2>3, <3>2
  <2>5. \A i, k \in DOMAIN lock' : lock'[i] = lock'[k] => i = k
    <3>1. SUFFICES ASSUME NEW i \in 1 .. Len(lock) - 1, NEW k \in 1 .. Len(lock) - 1,
                          lock[i + 1] = lock[k + 1]
                   PROVE  i = k
      BY <2>2
    <3>2. i + 1 = k + 1
      BY <1>1, <2>2, <3>1 DEF LockShape
    <3> QED BY <2>2, <3>2
  <2>6. ASSUME NEW u \in Threads \ {Boot}, th'[u].pc = "queued"
        PROVE  \E i \in DOMAIN lock' : lock'[i] = u
    <3>1. u # t /\ th[u].pc = "queued"
      BY <1>4, <2>6
    <3>2. PICK i \in DOMAIN lock : lock[i] = u
      BY <1>1, <3>1 DEF LockShape
    <3>3. i \in 2 .. Len(lock)
      BY <2>1, <2>2, <3>1, <3>2
    <3>4. i - 1 \in DOMAIN lock' /\ lock'[i - 1] = lock[(i - 1) + 1]
      BY <2>2, <3>3
    <3> QED BY <3>2, <3>3, <3>4
  <2>7. \A u \in Threads \ {Boot} : th'[u].pc # "running"
    BY <1>1, <1>4, <2>1 DEF LockShape
  <2> QED BY <1>5, <1>6, <2>2, <2>4, <2>5, <2>6, <2>7 DEF LockShape
<1>9. lock' \in Seq(Threads)
  BY <1>1, <1>2 DEF LockShape, Ends, Released
<1> QED BY <1>7, <1>8, <1>9

(* The boot pass and the retries bear each other out. *)
LEMMA BootKept ==
  ASSUME IInv, NEW t \in Threads, RunsOn(t) \/ Ends(t)
  PROVE  BootInv'
<1> SUFFICES ASSUME th'[Boot].pc = "running"
             PROVE  /\ th'[Boot].stage # "pick" =>
                         /\ th'[Boot].item \notin th'[Boot].todo
                         /\ th'[Boot].item.kind = "routes" =>
                              \A item \in th'[Boot].todo : item.kind # "catalog"
                    /\ \A r \in Retries : th'[r].pc # "off" => BootDone(r.job)'
  BY DEF BootInv
<1>1. /\ th[t].pc = "running" /\ \A u \in Threads \ {t} : Undisturbed(t, u)
      /\ th[Boot] \in ThreadRecord(Boot) /\ th[Boot].todo \in SUBSET Pass(Boot)
      /\ th[Boot].stage # "pick" => th[Boot].item \in Pass(Boot)
  BY Own, Who DEF RunsOn, Ends, Goes, ThreadRecord
<1>2. th[Boot].pc = "running" /\ BootInv /\ \A u \in Loops : th[u].pc = "off"
  <2>1. t # Boot => th'[Boot] = th[Boot] \/ th'[Boot] = At("asleep")
    BY <1>1, Who DEF Undisturbed
  <2> QED BY <1>1, <2>1, Ats DEF IInv, LockShape
<1>3. CASE t # Boot
  <2>1. th'[Boot] = th[Boot]
    BY <1>1, <1>2, <1>3, Who DEF Undisturbed
  <2>2. ASSUME NEW r \in Retries, th'[r].pc # "off" PROVE BootDone(r.job)
    <3>1. CASE th[r].pc # "off"
      BY <1>2, <3>1 DEF BootInv
    <3>2. CASE th[r].pc = "off"
      <4>1. r # t /\ r \in Threads /\ th'[r] # th[r]
        BY <1>1, <2>2, <3>2, Who
      <4>2. Arms(t, r.job)
        BY <1>1, <1>3, <2>2, <4>1, Who DEF Undisturbed
      <4>3. t \in Retries /\ t.job = r.job
        <5>1. th[t].item \in Pass(t) /\ t # Prober /\ th[t].item = Item("routes", r.job)
          BY <4>2, Own DEF Arms
        <5>2. t \in Retries
          BY <1>1, <1>2, <1>3, <5>1, Who
        <5>3. Item("routes", t.job) = Item("routes", r.job)
          BY <5>1, <5>2, Who
        <5> QED BY <5>2, <5>3 DEF Item
      <4> QED BY <1>1, <1>2, <4>3 DEF BootInv
    <3> QED BY <3>1, <3>2
  <2> QED BY <1>2, <2>1, <2>2 DEF BootInv, BootDone
<1>4. CASE t = Boot
  <2>1. RunsOn(Boot)
    <3>1. Ends(Boot) => th'[Boot].pc = "off"
      BY Ats, Who DEF Ends
    <3> QED BY <1>4, <3>1
  <2>2. th'[Boot].stage # "pick" =>
          /\ th'[Boot].item \notin th'[Boot].todo
          /\ th'[Boot].item.kind = "routes" =>
               \A item \in th'[Boot].todo : item.kind # "catalog"
    <3>1. SUFFICES ASSUME th'[Boot].stage # "pick"
                   PROVE  /\ th'[Boot].item \notin th'[Boot].todo
                          /\ th'[Boot].item.kind = "routes" =>
                               \A item \in th'[Boot].todo : item.kind # "catalog"
      OBVIOUS
    <3>2. CASE th[Boot].stage # "pick" /\ th'[Boot].item = th[Boot].item
               /\ th'[Boot].todo = th[Boot].todo
      BY <1>2, <3>2 DEF BootInv
    <3>3. ASSUME NEW item \in NextItems(th[Boot].todo), th'[Boot].item = item,
                 th'[Boot].todo = th[Boot].todo \ {item}
          PROVE  /\ th'[Boot].item \notin th'[Boot].todo
                 /\ th'[Boot].item.kind = "routes" =>
                      \A other \in th'[Boot].todo : other.kind # "catalog"
      BY <3>3 DEF NextItems
    <3> QED BY <2>1, <3>1, <3>2, <3>3 DEF RunsOn, Advances
  <2>3. ASSUME NEW r \in Retries, th'[r].pc # "off" PROVE BootDone(r.job)'
    <3>1. CASE th[r].pc # "off"
      <4>1. BootDone(r.job)
        BY <1>2, <3>1 DEF BootInv
      <4>2. th'[Boot].todo \subseteq th[Boot].todo
            /\ \/ th'[Boot].stage = "pick"
               \/ th[Boot].stage # "pick" /\ th'[Boot].item = th[Boot].item
               \/ th'[Boot].item \in th[Boot].todo
        BY <2>1 DEF RunsOn, Advances, NextItems
      <4> QED BY <4>1, <4>2 DEF BootDone
    <3>2. CASE th[r].pc = "off"
      <4>1. r # Boot /\ r \in Threads /\ th'[r] # th[r]
        BY <2>3, <3>2, Who
      <4>2. Arms(Boot, r.job)
        BY <1>1, <1>4, <2>3, <4>1, Who DEF Undisturbed
      <4>3. th[Boot].item \notin th[Boot].todo /\ th[Boot].item = Item("routes", r.job)
            /\ \A item \in th[Boot].todo : item.kind # "catalog"
        BY <1>2, <4>2 DEF Arms, BootInv, Item
      <4>4. th'[Boot].todo = th[Boot].todo /\ th'[Boot].stage = "pick"
        BY <1>1, <4>2, Betweens, Who DEF Arms
      <4> QED BY <4>3, <4>4 DEF BootDone
    <3> QED BY <3>1, <3>2
  <2> QED BY <2>2, <2>3
<1> QED BY <1>3, <1>4

LEMMA AwaitKept ==
  ASSUME IInv, NEW t \in Threads, RunsOn(t) \/ Ends(t)
  PROVE  AwaitInv'
<1>1. /\ th[t].pc = "running" /\ \A u \in Threads \ {t} : Undisturbed(t, u)
      /\ UNCHANGED <<stop, awaited>> /\ AwaitInv
  BY DEF RunsOn, Ends, Goes, IInv
<1>2. \A u \in Refresh : u \in Threads
  BY DEF Threads
<1>3. ASSUME Aborted, NEW u \in Refresh, th'[u].pc # "off" PROVE u \in awaited
  <2>1. CASE th[u].pc # "off"
    BY <1>1, <1>3, <2>1 DEF AwaitInv
  <2>2. CASE th[u].pc = "off"
    BY <1>1, <1>2, <1>3, <2>2, Who DEF AwaitInv, Undisturbed, Arms
  <2> QED BY <2>1, <2>2
<1>4. ASSUME stop = "settled", NEW u \in Refresh PROVE th'[u].pc = "off"
  <2>1. th[u].pc = "off" /\ Boot \in Refresh /\ th[Boot].pc = "off" /\ u # t /\ t # Boot
    BY <1>1, <1>4 DEF AwaitInv, Refresh
  <2>2. Aborted
    BY <1>4 DEF Aborted
  <2> QED BY <1>1, <1>2, <2>1, <2>2 DEF Undisturbed, Arms
<1>5. Aborted' <=> Aborted
  BY <1>1 DEF Aborted
<1> QED BY <1>1, <1>3, <1>4, <1>5 DEF AwaitInv

(* The steps that change one thread and the lock. *)
LEMMA WakeInv ==
  ASSUME IInv, NEW t \in Threads, Wake(t)
  PROVE  IInv'
<1>1. /\ th[t].pc = "asleep" /\ (t = Prober \/ ~Aborted)
      /\ th' = [th EXCEPT ![t] = At("queued")] /\ lock' = Append(lock, t)
      /\ UNCHANGED <<catalogs, backoff, stop, awaited>>
  BY DEF Wake
<1>2. /\ th' = [u \in Threads |-> th'[u]]
      /\ th'[t] = At("queued") /\ \A u \in Threads \ {t} : th'[u] = th[u]
      /\ Types /\ LockShape /\ lock \in Seq(Threads)
  BY <1>1 DEF IInv, Types
<1>3. t # Boot /\ th[Boot] = th'[Boot] /\ (t \in Retries => t.job \in Jobs)
  BY <1>1, <1>2, Who DEF LockShape
<1>4. Types'
  <2>1. ASSUME NEW u \in Threads PROVE ThreadType(u)'
    <3>1. CASE u = t
      BY <1>2, <3>1, Ats DEF ThreadType
    <3>2. CASE u # t
      BY <1>2, <3>2 DEF ThreadType, Types
    <3> QED BY <3>1, <3>2
  <2>2. lock' \in Seq(Threads)
    BY <1>1, <1>2
  <2> QED BY <1>1, <1>2, <2>1, <2>2 DEF Types
<1>5. LockShape'
  <2>1. /\ DOMAIN lock = 1 .. Len(lock) /\ Len(lock) \in Nat
        /\ DOMAIN lock' = 1 .. Len(lock) + 1
        /\ lock'[Len(lock) + 1] = t /\ \A i \in 1 .. Len(lock) : lock'[i] = lock[i]
    BY <1>1, <1>2
  <2>2. \A i \in DOMAIN lock : lock[i] # t /\ lock[i] \in Threads
    BY <1>1, <1>2 DEF LockShape
  <2>3. th'[t].pc = "queued"
    BY <1>2, Ats
  <2>4. th'[Boot].pc \in {"running", "off"}
    BY <1>2, <1>3 DEF LockShape
  <2>5. th'[Boot].pc = "running" => \A u \in Loops : th'[u].pc = "off"
    BY <1>1, <1>2, <1>3, Who DEF LockShape
  <2>6. \A i \in DOMAIN lock' : lock'[i] # Boot /\ th'[lock'[i]].pc \in {"queued", "running"}
    <3>1. SUFFICES ASSUME NEW i \in 1 .. Len(lock) + 1
                   PROVE  lock'[i] # Boot /\ th'[lock'[i]].pc \in {"queued", "running"}
      BY <2>1
    <3>2. CASE i = Len(lock) + 1
      BY <1>3, <2>1, <2>3, <3>2
    <3>3. CASE i # Len(lock) + 1
      <4>1. i \in DOMAIN lock /\ lock'[i] = lock[i]
        BY <2>1, <3>3
      <4> QED BY <1>2, <2>2, <4>1 DEF LockShape
    <3> QED BY <3>2, <3>3
  <2>7. \A i, k \in DOMAIN lock' : lock'[i] = lock'[k] => i = k
    <3>1. SUFFICES ASSUME NEW i \in 1 .. Len(lock) + 1, NEW k \in 1 .. Len(lock) + 1,
                          lock'[i] = lock'[k]
                   PROVE  i = k
      BY <2>1
    <3>2. CASE i \in DOMAIN lock /\ k \in DOMAIN lock
      BY <1>2, <2>1, <3>1, <3>2 DEF LockShape
    <3>3. CASE i \notin DOMAIN lock \/ k \notin DOMAIN lock
      BY <2>1, <2>2, <3>1, <3>3
    <3> QED BY <3>2, <3>3
  <2>8. ASSUME NEW u \in Threads \ {Boot}, th'[u].pc = "queued"
        PROVE  \E i \in DOMAIN lock' : lock'[i] = u
    <3>1. CASE u = t
      BY <2>1, <3>1
    <3>2. CASE u # t
      <4>1. PICK i \in DOMAIN lock : lock[i] = u
        BY <1>2, <2>8, <3>2 DEF LockShape
      <4> QED BY <2>1, <4>1
    <3> QED BY <3>1, <3>2
  <2>9. \A u \in Threads \ {Boot} : th'[u].pc = "running" => lock' # <<>> /\ lock'[1] = u
    <3>1. SUFFICES ASSUME NEW u \in Threads \ {Boot}, th'[u].pc = "running"
                   PROVE  lock' # <<>> /\ lock'[1] = u
      OBVIOUS
    <3>2. lock # <<>> /\ lock[1] = u
      BY <1>2, <2>3, <3>1 DEF LockShape
    <3>3. 1 \in DOMAIN lock
      BY <1>2, <2>1, <3>2
    <3> QED BY <2>1, <3>2, <3>3
  <2> QED BY <2>4, <2>5, <2>6, <2>7, <2>8, <2>9 DEF LockShape
<1>6. BootInv'
  <2>1. \A r \in Retries : th'[r].pc # "off" => th[r].pc # "off"
    BY <1>1, <1>2, Who
  <2> QED BY <1>3, <2>1 DEF IInv, BootInv, BootDone
<1>7. AwaitInv'
  <2>1. \A u \in Refresh : u \in Threads
    BY DEF Threads
  <2>2. \A u \in Refresh : th'[u].pc # "off" => th[u].pc # "off"
    BY <1>1, <1>2, <2>1
  <2> QED BY <1>1, <2>2 DEF IInv, AwaitInv, Aborted
<1> QED BY <1>4, <1>5, <1>6, <1>7 DEF IInv

LEMMA EnterInv ==
  ASSUME IInv, NEW t \in Threads, Enter(t)
  PROVE  IInv'
<1>1. /\ th[t].pc = "queued" /\ th' = [th EXCEPT ![t] = Started(t)] /\ Head(lock) = t
      /\ UNCHANGED <<catalogs, backoff, lock, stop, awaited>>
  BY DEF Enter, HasTurn
<1>2. /\ th' = [u \in Threads |-> th'[u]]
      /\ th'[t] = Started(t) /\ \A u \in Threads \ {t} : th'[u] = th[u]
      /\ th'[t].pc = "running"
      /\ Types /\ LockShape /\ lock \in Seq(Threads)
  BY <1>1, Begun DEF IInv, Types
<1>3. t # Boot /\ th[Boot] = th'[Boot]
  BY <1>1, <1>2, Who DEF LockShape
<1>4. Types'
  <2>1. ASSUME NEW u \in Threads PROVE ThreadType(u)'
    <3>1. CASE u = t
      BY <1>2, <3>1, Begun DEF ThreadType
    <3>2. CASE u # t
      BY <1>2, <3>2 DEF ThreadType, Types
    <3> QED BY <3>1, <3>2
  <2> QED BY <1>1, <1>2, <2>1 DEF Types
<1>5. LockShape'
  <2>1. lock # <<>> /\ lock[1] = t
    BY <1>1, <1>2, <1>3 DEF LockShape
  <2>2. \A i \in DOMAIN lock : lock[i] \in Threads
    BY <1>2
  <2>3. \A u \in Threads \ {Boot, t} : th[u].pc # "running"
    BY <1>2, <2>1 DEF LockShape
  <2>4. \A i \in DOMAIN lock : th'[lock[i]].pc \in {"queued", "running"}
    BY <1>2, <2>2 DEF LockShape
  <2>5. th'[Boot].pc = "running" => \A u \in Loops : th'[u].pc = "off"
    BY <1>1, <1>2, <1>3, Who DEF LockShape
  <2> QED BY <1>1, <1>2, <1>3, <2>1, <2>3, <2>4, <2>5 DEF LockShape
<1>6. BootInv'
  <2>1. \A r \in Retries : th'[r].pc # "off" => th[r].pc # "off"
    BY <1>1, <1>2, Who
  <2> QED BY <1>3, <2>1 DEF IInv, BootInv, BootDone
<1>7. AwaitInv'
  <2>1. \A u \in Refresh : u \in Threads
    BY DEF Threads
  <2>2. \A u \in Refresh : th'[u].pc # "off" => th[u].pc # "off"
    BY <1>1, <1>2, <2>1
  <2> QED BY <1>1, <2>2 DEF IInv, AwaitInv, Aborted
<1> QED BY <1>4, <1>5, <1>6, <1>7 DEF IInv

LEMMA WakeAbortedInv ==
  ASSUME IInv, NEW t \in Threads, WakeAborted(t)
  PROVE  IInv'
<1>1. /\ th[t].pc = "asleep" /\ th' = [th EXCEPT ![t] = At("off")]
      /\ UNCHANGED <<catalogs, backoff, lock, stop, awaited>>
  BY DEF WakeAborted
<1>2. /\ th' = [u \in Threads |-> th'[u]]
      /\ th'[t] = At("off") /\ \A u \in Threads \ {t} : th'[u] = th[u]
      /\ th'[t].pc = "off"
      /\ Types /\ LockShape /\ lock \in Seq(Threads)
  BY <1>1, Ats DEF IInv, Types
<1>3. t # Boot /\ th[Boot] = th'[Boot]
  BY <1>1, <1>2, Who DEF LockShape
<1>4. Types'
  <2>1. ASSUME NEW u \in Threads PROVE ThreadType(u)'
    <3>1. CASE u = t
      BY <1>2, <3>1, Ats DEF ThreadType
    <3>2. CASE u # t
      BY <1>2, <3>2 DEF ThreadType, Types
    <3> QED BY <3>1, <3>2
  <2> QED BY <1>1, <1>2, <2>1 DEF Types
<1>5. LockShape'
  <2>1. \A i \in DOMAIN lock : lock[i] \in Threads /\ lock[i] # t
    BY <1>1, <1>2 DEF LockShape
  <2>2. th'[Boot].pc = "running" => \A u \in Loops : th'[u].pc = "off"
    BY <1>2, <1>3, Who DEF LockShape
  <2>3. \A i \in DOMAIN lock : th'[lock[i]] = th[lock[i]]
    BY <1>2, <2>1
  <2> QED BY <1>1, <1>2, <1>3, <2>2, <2>3 DEF LockShape
<1>6. BootInv'
  <2>1. \A r \in Retries : th'[r].pc # "off" => th[r].pc # "off"
    BY <1>1, <1>2, Who
  <2> QED BY <1>3, <2>1 DEF IInv, BootInv, BootDone
<1>7. AwaitInv'
  <2>1. \A u \in Refresh : u \in Threads
    BY DEF Threads
  <2>2. \A u \in Refresh : th'[u].pc # "off" => th[u].pc # "off"
    BY <1>1, <1>2, <2>1
  <2> QED BY <1>1, <2>2 DEF IInv, AwaitInv, Aborted
<1> QED BY <1>4, <1>5, <1>6, <1>7 DEF IInv

(* A step that moves no thread keeps what is known of the threads. *)
LEMMA ThreadsRest ==
  ASSUME Types, LockShape, BootInv, UNCHANGED <<catalogs, backoff, th, lock>>,
         stop' \in {"no", "asked", "settled", "timedout"}
  PROVE  Types' /\ LockShape' /\ BootInv'
<1>1. \A t \in Threads : ThreadType(t)'
  BY DEF Types, ThreadType
<1>2. th' = [t \in Threads |-> th'[t]]
  BY DEF Types
<1>3. Types'
  BY <1>1, <1>2 DEF Types
<1>4. LockShape'
  BY DEF LockShape
<1>5. BootInv'
  BY DEF BootInv, BootDone
<1> QED BY <1>3, <1>4, <1>5

LEMMA NextInv == IInv /\ [Next]_vars => IInv'
<1> SUFFICES ASSUME IInv, [Next]_vars PROVE IInv'
  OBVIOUS
<1>1. ASSUME NEW t \in Threads, Step(t) PROVE IInv'
  <2>1. CASE Enter(t)
    BY <2>1, EnterInv
  <2>2. CASE RunsOn(t)
    <3>1. Goes(t) /\ lock' \in Seq(Threads)
      BY <2>2 DEF RunsOn, IInv, Types
    <3> QED BY <2>2, <3>1, TypesKept, OnLock, BootKept, AwaitKept DEF IInv
  <2>3. CASE Ends(t)
    <3>1. Goes(t)
      BY <2>3 DEF Ends
    <3> QED BY <2>3, <3>1, TypesKept, OffLock, BootKept, AwaitKept DEF IInv
  <2> QED BY <1>1, <2>1, <2>2, <2>3, StepMoves
<1>2. CASE Stop
  <2>1. AwaitInv'
    <3>1. stop' = "asked" /\ awaited' = Awaited /\ th' = th
      BY <1>2 DEF Stop
    <3>2. \A t \in Refresh : th[t].pc # "off" => t \in Awaited
      BY DEF Refresh, Awaited
    <3> QED BY <3>1, <3>2 DEF AwaitInv, Awaited
  <2> QED BY <1>2, <2>1, ThreadsRest DEF Stop, IInv
<1>3. CASE Stopped
  <2>1. AwaitInv'
    <3>1. /\ stop = "asked" /\ UNCHANGED <<th, awaited>>
          /\ stop' = "settled" => \A t \in awaited : th[t].pc = "off"
      BY <1>3 DEF Stopped
    <3>2. Aborted /\ AwaitInv
      BY <3>1 DEF Aborted, IInv
    <3> QED BY <3>1, <3>2 DEF AwaitInv
  <2>2. stop' \in {"no", "asked", "settled", "timedout"}
    BY <1>3 DEF Stopped
  <2> QED BY <1>3, <2>1, <2>2, ThreadsRest DEF Stopped, IInv
<1>4. CASE MeldRecovers \/ UNCHANGED vars
  <2>1. UNCHANGED <<catalogs, backoff, th, lock, stop, awaited>>
    BY <1>4 DEF MeldRecovers, vars
  <2>2. AwaitInv'
    BY <2>1 DEF IInv, AwaitInv, Aborted
  <2>3. stop' \in {"no", "asked", "settled", "timedout"}
    BY <2>1 DEF IInv, Types
  <2> QED BY <2>1, <2>2, <2>3, ThreadsRest DEF IInv
<1> QED BY <1>1, <1>2, <1>3, <1>4, WakeInv, WakeAbortedInv DEF Next
-----------------------------------------------------------------------------
LEMMA Always == Spec => []IInv
  BY InitInv, NextInv, PTL DEF Spec

(* The lock keeps its shape, and once the boot pass is over one pass calls *)
(* Meld at a time, retries and probes included (background.ts:6-18): all   *)
(* that run but the boot pass are at the head of the lock.                 *)
THEOREM OneCaller == Spec => []LockInv
<1>1. ASSUME IInv PROVE LockInv
  <2>1. TypeOK
    <3>1. \A t \in Threads :
            /\ th[t].pc \in {"off", "asleep", "queued", "running"}
            /\ th[t].stage \in {"pick", "countries", "default", "corridor", "write"}
            /\ th[t].left \subseteq Countries /\ th[t].found \subseteq Countries
      BY <1>1, Own DEF ThreadRecord
    <3>2. \A job \in Jobs : catalogs[job] = None \/ catalogs[job] \subseteq Countries
      BY <1>1 DEF IInv, Types
    <3> QED BY <1>1, <3>1, <3>2 DEF IInv, Types, LockShape, TypeOK
  <2>2. ASSUME th[Boot].pc = "off" PROVE Cardinality({t \in Threads : th[t].pc = "running"}) <= 1
    <3> DEFINE running == {t \in Threads : th[t].pc = "running"}
    <3>1. \A t \in running : t = lock[1]
      BY <1>1, <2>2 DEF IInv, LockShape
    <3>2. CASE running = {}
      BY <3>2, FS_EmptySet
    <3>3. CASE running # {}
      <4>1. running = {lock[1]}
        BY <3>1, <3>3
      <4>2. Cardinality(running) = 1
        BY <4>1, FS_Singleton
      <4> QED BY <4>2
    <3> QED BY <3>2, <3>3
  <2> QED BY <2>1, <2>2 DEF LockInv, OneCallerAtATime
<1> QED BY <1>1, Always, PTL

(* Once stop() says that all has settled no pass is left to touch Meld or  *)
(* the store (refresh.ts:292-296): a retry let up after the call would     *)
(* need a pass that had not seen the abort.                                *)
THEOREM SettledIsQuiet == Spec => []StoppedIsQuiet
<1>1. IInv => StoppedIsQuiet
  BY DEF IInv, AwaitInv, StoppedIsQuiet
<1> QED BY <1>1, Always, PTL
-----------------------------------------------------------------------------
(* The walk over the countries: `prior' is the catalog that stands, and    *)
(* each of its countries is still to come, kept, or denied.                *)
Walking(t) ==
  th[t].stage \in {"countries", "default"} =>
    /\ th[t].item.kind = "catalog" /\ catalogs[th[t].item.job] # None =>
         th[t].prior = catalogs[th[t].item.job]
    /\ th[t].item.kind = "routes" => catalogs[th[t].item.job] = None
    /\ th[t].stage = "default" => th[t].prior \subseteq th[t].left \cup th[t].found \cup th[t].denied

WalkInv == \A t \in Threads : Walking(t)

(* No two passes are ever at the same job. *)
LEMMA Apart ==
  ASSUME IInv, NEW t \in Threads, NEW u \in Threads, t # u,
         th[t].stage # "pick", th[u].stage # "pick"
  PROVE  th[t].item.job # th[u].item.job
<1>1. th[t].pc = "running" /\ th[u].pc = "running" /\ t # Prober /\ u # Prober
  BY Own
<1>2. ASSUME NEW r \in Threads \ {Boot}, th[r].pc = "running", r # Prober, th[r].stage # "pick",
             th[Boot].pc = "running", th[Boot].stage # "pick"
      PROVE  th[r].item.job # th[Boot].item.job
  <2>1. r \in Retries
    BY <1>2, Who DEF IInv, LockShape
  <2>2. th[r].item = Item("routes", r.job)
    BY <1>2, <2>1, Own, Who
  <2>3. th[Boot].item.kind # "catalog" /\ th[Boot].item # Item("routes", r.job)
    BY <1>2, <2>1 DEF IInv, BootInv, BootDone
  <2>4. th[Boot].item = Item("routes", th[Boot].item.job)
    BY <1>2, <2>3, Own, Who, BootRoutes
  <2>5. th[Boot].item.job # r.job
    BY <2>3, <2>4
  <2> QED BY <2>2, <2>5 DEF Item
<1>3. t = Boot \/ u = Boot
  BY <1>1 DEF IInv, LockShape
<1> QED BY <1>1, <1>2, <1>3

LEMMA CatalogSteps ==
  ASSUME IInv, [Next]_vars
  PROVE  \/ UNCHANGED catalogs
         \/ \E t \in Threads : Built(t) /\ ~Kept(t)
<1>1. ASSUME NEW t \in Threads, Step(t)
      PROVE  UNCHANGED catalogs \/ (Built(t) /\ ~Kept(t))
  <2>1. CASE Built(t) \/ CountriesAnswer(t)
    <3>1. ASSUME NoCatalog(t) PROVE UNCHANGED catalogs
      <4>1. th[t].stage # "pick"
        BY <2>1 DEF Built, CountriesAnswer, Running
      <4> QED BY <3>1, <4>1, NoCatalogs
    <3> QED BY <2>1, <3>1 DEF Built, CountriesAnswer, PassStep
  <2>2. CASE RoutesDone(t)
    BY <2>2 DEF RoutesDone, Settle
  <2>3. CASE ~(Built(t) \/ CountriesAnswer(t) \/ RoutesDone(t))
    <3>1. Enter(t) \/ Finish(t) \/ Quote(t) => UNCHANGED catalogs
      BY SMTT(60) DEF Enter, Finish, Quote
    <3>2. Pick(t) \/ DefaultAnswer(t) => UNCHANGED catalogs
      BY DEF Pick, DefaultAnswer, PassStep
    <3>3. CorridorAnswer(t) \/ Upsert(t) => UNCHANGED catalogs
      BY DEF CorridorAnswer, Upsert, PassStep
    <3> QED BY <1>1, <2>3, <3>1, <3>2, <3>3 DEF Step
  <2> QED BY <2>1, <2>2, <2>3
<1>2. (\E t \in Threads : Wake(t) \/ WakeAborted(t)) => UNCHANGED catalogs
  BY DEF Wake, WakeAborted
<1>3. Stop \/ Stopped \/ MeldRecovers \/ UNCHANGED vars => UNCHANGED catalogs
  BY DEF Stop, Stopped, MeldRecovers, vars
<1> QED BY <1>1, <1>2, <1>3 DEF Next

(* The walker's own step. *)
LEMMA WalkOwn ==
  ASSUME IInv, "unreadable" \notin CountryAnswers, NEW t \in Threads, Walking(t), Step(t)
  PROVE  Walking(t)'
<1>1. /\ th[t] \in ThreadRecord(t) /\ th = [u \in Threads |-> th[u]]
      /\ th[t].stage # "pick" => th[t].item \in Pass(t) /\ th[t].item.kind \in {"catalog", "routes"}
  BY Own, Items DEF IInv, Types
<1>2. CASE Enter(t)
  BY <1>1, <1>2, Begun DEF Enter, Walking
<1>3. CASE Finish(t) \/ Quote(t)
  <2>1. Ends(t)
    BY <1>3, Overs DEF Finish, Quote
  <2> QED BY <2>1, Ats DEF Ends, Walking
<1>4. CASE RoutesDone(t)
  <2>1. th'[t].stage = "pick"
    BY <1>4, Own, Settles DEF RoutesDone, Running
  <2> QED BY <2>1 DEF Walking
<1>5. CASE NoCatalog(t) /\ th[t].stage # "pick"
  <2>1. th'[t].stage = "pick"
    BY <1>5, NoCatalogs
  <2> QED BY <2>1 DEF Walking
<1>6. CASE CorridorAnswer(t) \/ Upsert(t)
  <2>1. th'[t].stage \in {"corridor", "write"}
    <3>1. CASE CorridorAnswer(t)
      <4>1. PICK country \in th[t].left, methods \in BOOLEAN :
              PassStep(t, [th[t] EXCEPT !.left = @ \ {country},
                                        !.stage = IF methods THEN "write" ELSE "corridor"])
        BY <3>1 DEF CorridorAnswer
      <4>2. th'[t] = [th[t] EXCEPT !.left = th[t].left \ {country},
                                   !.stage = IF methods THEN "write" ELSE "corridor"]
        BY <1>1, <4>1 DEF PassStep
      <4> QED BY <1>1, <4>2 DEF ThreadRecord
    <3>2. CASE Upsert(t)
      <4>1. PICK stored \in BOOLEAN :
              PassStep(t, [th[t] EXCEPT !.stage = "corridor", !.wrote = @ \/ stored])
        BY <3>2 DEF Upsert
      <4>2. th'[t] = [th[t] EXCEPT !.stage = "corridor", !.wrote = th[t].wrote \/ stored]
        BY <1>1, <4>1 DEF PassStep
      <4> QED BY <1>1, <4>2 DEF ThreadRecord
    <3> QED BY <1>6, <3>1, <3>2
  <2> QED BY <2>1 DEF Walking
<1>7. CASE Pick(t)
  <2>1. PICK item \in NextItems(th[t].todo) :
          LET builds == item.kind = "catalog" \/ catalogs[item.job] = None
          IN PassStep(t, [At("running") EXCEPT
               !.todo = th[t].todo \ {item}, !.item = item,
               !.stage = IF builds THEN "countries" ELSE "corridor",
               !.left = IF builds THEN {} ELSE catalogs[item.job],
               !.prior = IF builds THEN Previous(item) ELSE {}])
    BY <1>7 DEF Pick
  <2> DEFINE builds == item.kind = "catalog" \/ catalogs[item.job] = None
             stage == IF builds THEN "countries" ELSE "corridor"
             left == IF builds THEN {} ELSE catalogs[item.job]
             prior == IF builds THEN Previous(item) ELSE {}
             pass == [At("running") EXCEPT !.todo = th[t].todo \ {item}, !.item = item,
                                           !.stage = stage, !.left = left, !.prior = prior]
  <2>2. PassStep(t, pass)
    BY <2>1
  <2>3. pass.stage = stage /\ pass.item = item /\ pass.prior = prior
    BY DEF At
  <2>4. th'[t] = pass /\ UNCHANGED catalogs
    BY <1>1, <2>2 DEF PassStep
  <2>5. /\ stage = "countries" => builds
        /\ stage # "default"
        /\ builds /\ item.kind = "catalog" /\ catalogs[item.job] # None => prior = catalogs[item.job]
        /\ builds /\ item.kind = "routes" => catalogs[item.job] = None
    BY DEF Previous
  <2> HIDE DEF builds, stage, left, prior, pass
  <2> QED BY <2>3, <2>4, <2>5 DEF Walking
<1>8. CASE CountriesAnswer(t) /\ ~NoCatalog(t)
  <2>1. PICK listed \in SUBSET Countries :
          PassStep(t, [th[t] EXCEPT !.stage = "default", !.left = listed,
                                    !.denied = Countries \ listed])
    BY <1>8 DEF CountriesAnswer
  <2>2. th[t].stage = "countries" /\ th[t].prior \subseteq Countries
    BY <1>1, <1>8 DEF CountriesAnswer, Running, ThreadRecord
  <2>3. /\ th'[t] = [th[t] EXCEPT !.stage = "default", !.left = listed,
                                  !.denied = Countries \ listed]
        /\ UNCHANGED catalogs
    BY <1>1, <2>1 DEF PassStep
  <2>4. /\ th'[t].item = th[t].item /\ th'[t].prior = th[t].prior
        /\ th'[t].left = listed /\ th'[t].denied = Countries \ listed
    BY <1>1, <2>3 DEF ThreadRecord
  <2>5. th'[t].prior \subseteq th'[t].left \cup th'[t].found \cup th'[t].denied
    BY <2>2, <2>4
  <2> QED BY <2>2, <2>3, <2>4, <2>5 DEF Walking
<1>9. CASE DefaultAnswer(t)
  <2>1. PICK country \in th[t].left, answer \in {"named", "none", "failed"} :
          PassStep(t, [th[t] EXCEPT
            !.left = @ \ {country},
            !.found = @ \cup (CASE answer = "named" -> {country}
                                [] answer = "none" -> {}
                                [] answer = "failed" -> {country} \cap th[t].prior),
            !.denied = IF answer = "none" THEN @ \cup {country} ELSE @,
            !.failed = @ \/ answer = "failed"])
    BY <1>9 DEF DefaultAnswer
  <2> DEFINE left == th[t].left \ {country}
             found == th[t].found \cup (CASE answer = "named" -> {country}
                                          [] answer = "none" -> {}
                                          [] answer = "failed" -> {country} \cap th[t].prior)
             denied == IF answer = "none" THEN th[t].denied \cup {country} ELSE th[t].denied
             failed == th[t].failed \/ answer = "failed"
             pass == [th[t] EXCEPT !.left = left, !.found = found, !.denied = denied,
                                   !.failed = failed]
  <2>2. PassStep(t, pass)
    BY <2>1
  <2>3. th[t].stage = "default" /\ th[t].prior \subseteq th[t].left \cup th[t].found \cup th[t].denied
    BY <1>9 DEF DefaultAnswer, Running, Walking
  <2>4. th[t].prior \subseteq left \cup found \cup denied
    <3>1. answer = "named" => country \in found
      OBVIOUS
    <3>2. answer = "none" => country \in denied
      OBVIOUS
    <3>3. answer = "failed" => (country \in th[t].prior => country \in found)
      OBVIOUS
    <3>4. th[t].found \subseteq found /\ th[t].denied \subseteq denied
      OBVIOUS
    <3> HIDE DEF found, denied
    <3> QED BY <2>3, <3>1, <3>2, <3>3, <3>4
  <2> HIDE DEF left, found, denied, failed
  <2>5. /\ pass.stage = th[t].stage /\ pass.item = th[t].item /\ pass.prior = th[t].prior
        /\ pass.left = left /\ pass.found = found /\ pass.denied = denied
    BY <1>1 DEF ThreadRecord
  <2>6. th'[t] = pass /\ UNCHANGED catalogs
    BY <1>1, <2>2 DEF PassStep
  <2> HIDE DEF pass
  <2> QED BY SMTT(60), <2>3, <2>4, <2>5, <2>6 DEF Walking
<1>10. CASE Built(t) /\ ~NoCatalog(t)
  <2>1. th'[t].stage \in {"pick", "corridor"}
    <3>1. th' = [th EXCEPT ![t] = IF th[t].item.kind = "catalog" THEN Between(th[t].todo)
                                  ELSE [th[t] EXCEPT !.stage = "corridor", !.left = th[t].found]]
      BY <1>10 DEF Built, Between
    <3>2. th'[t] = IF th[t].item.kind = "catalog" THEN Between(th[t].todo)
                   ELSE [th[t] EXCEPT !.stage = "corridor", !.left = th[t].found]
      BY <1>1, <3>1
    <3>3. Between(th[t].todo).stage = "pick"
      BY <1>1, Betweens DEF ThreadRecord
    <3>4. [th[t] EXCEPT !.stage = "corridor", !.left = th[t].found].stage = "corridor"
      BY <1>1 DEF ThreadRecord
    <3> QED BY <3>2, <3>3, <3>4
  <2> QED BY <2>1 DEF Walking
<1>11. Built(t) \/ CountriesAnswer(t) => th[t].stage # "pick"
  BY DEF Built, CountriesAnswer, Running
<1> QED BY <1>2, <1>3, <1>4, <1>5, <1>6, <1>7, <1>8, <1>9, <1>10, <1>11 DEF Step

(* The others' steps leave a walk and its catalog alone. *)
LEMMA WalkOthers ==
  ASSUME IInv, NEW u \in Threads, Walking(u), [Next]_vars, ~Step(u)
  PROVE  Walking(u)'
<1>1. CASE th'[u].stage = "pick"
  BY <1>1 DEF Walking
<1>2. CASE th'[u] = th[u]
  <2>1. CASE UNCHANGED catalogs
    BY <1>2, <2>1 DEF Walking
  <2>2. ASSUME NEW t \in Threads, Built(t), ~Kept(t)
        PROVE  Walking(u)'
    <3>1. t # u /\ th[t].stage # "pick"
      BY <2>2 DEF Step, Built, Running
    <3>2. catalogs' = [catalogs EXCEPT ![th[t].item.job] = th[t].found]
      BY <2>2 DEF Built
    <3>3. th[u].stage # "pick" => th[u].item.job # th[t].item.job /\ th[u].item.job \in Jobs
      BY <3>1, Apart, Own
    <3>4. th[u].stage # "pick" => catalogs'[th[u].item.job] = catalogs[th[u].item.job]
      BY <3>2, <3>3 DEF IInv, Types
    <3> QED BY <1>2, <3>4 DEF Walking
  <2> QED BY <2>1, <2>2, CatalogSteps
<1>3. th'[u] = th[u] \/ th'[u].stage = "pick"
  <2>1. ASSUME NEW t \in Threads, Step(t) PROVE th'[u] = th[u] \/ th'[u].stage = "pick"
    <3>1. t # u
      BY <2>1
    <3>2. CASE Enter(t)
      BY <3>1, <3>2 DEF Enter, IInv, Types
    <3>3. CASE RunsOn(t) \/ Ends(t)
      BY <3>1, <3>3, Ats DEF RunsOn, Ends, Goes, Undisturbed
    <3> QED BY <2>1, <3>2, <3>3, StepMoves
  <2>2. ASSUME NEW t \in Threads, Wake(t) \/ WakeAborted(t) PROVE th'[u] = th[u] \/ th'[u].stage = "pick"
    <3>1. t # u => th'[u] = th[u]
      BY <2>2 DEF Wake, WakeAborted, IInv, Types
    <3>2. \E pc \in {"queued", "off"} : th' = [th EXCEPT ![t] = At(pc)]
      BY <2>2 DEF Wake, WakeAborted
    <3>3. \E pc \in {"queued", "off"} : th'[t] = At(pc)
      BY <3>2 DEF IInv, Types
    <3> QED BY <3>1, <3>3, Ats
  <2>3. CASE Stop \/ Stopped \/ MeldRecovers \/ UNCHANGED vars
    BY <2>3 DEF Stop, Stopped, MeldRecovers, vars
  <2> QED BY <2>1, <2>2, <2>3 DEF Next
<1> QED BY <1>1, <1>2, <1>3

(* A country leaves a catalog only on Meld's word, never over a failed     *)
(* call, a stop or a rebuild (refresh.ts:57-103).  The one answer it does  *)
(* not survive is a country list that cannot be read, which the code takes *)
(* for an empty one: then the walk has nothing left and nothing denied.    *)
THEOREM CatalogsAreKept ==
  ASSUME "unreadable" \notin CountryAnswers
  PROVE  Spec => KeptUnlessTold
<1> DEFINE Told ==
      \A job \in Jobs :
        catalogs[job] # None =>
          \A country \in catalogs[job] :
            \/ country \in catalogs'[job]
            \/ \E t \in Threads : th[t].pc = "running" /\ th[t].item = Item("catalog", job)
                                  /\ country \in th[t].denied
<1>1. Init => WalkInv
  <2>1. SUFFICES ASSUME Init, NEW t \in Threads PROVE Walking(t)
    BY DEF WalkInv
  <2>2. th[t].stage = "pick"
    BY <2>1, Begun, Ats, Who DEF Init
  <2> QED BY <2>2 DEF Walking
<1>2. IInv /\ WalkInv /\ [Next]_vars => WalkInv'
  <2>1. SUFFICES ASSUME IInv, WalkInv, [Next]_vars, NEW t \in Threads PROVE Walking(t)'
    BY DEF WalkInv
  <2>2. Walking(t)
    BY <2>1 DEF WalkInv
  <2> QED BY <2>1, <2>2, WalkOwn, WalkOthers
<1>3. IInv /\ WalkInv /\ [Next]_vars => Told
  <2>1. SUFFICES ASSUME IInv, WalkInv, NEW t \in Threads, Built(t), ~Kept(t) PROVE Told
    BY CatalogSteps
  <2>2. /\ th[t].stage = "default" /\ th[t].pc = "running" /\ th[t].left = {}
        /\ catalogs' = [catalogs EXCEPT ![th[t].item.job] = th[t].found]
    BY <2>1 DEF Built, Running, Kept
  <2>3. th[t].item.job \in Jobs /\ th[t].item = Item(th[t].item.kind, th[t].item.job)
        /\ th[t].item.kind \in {"catalog", "routes"}
    <3>1. th[t].item \in Pass(t)
      BY <2>1, <2>2, Own
    <3> QED BY <3>1, Items
  <2>4. Walking(t)
    BY <2>1 DEF WalkInv
  <2>5. ASSUME NEW job \in Jobs, catalogs[job] # None, NEW country \in catalogs[job],
               country \notin catalogs'[job]
        PROVE  th[t].item = Item("catalog", job) /\ country \in th[t].denied
    <3>1. job = th[t].item.job /\ catalogs'[job] = th[t].found
      BY <2>2, <2>3, <2>5 DEF IInv, Types
    <3>2. th[t].item.kind = "catalog" /\ th[t].prior = catalogs[job]
      BY <2>2, <2>3, <2>4, <2>5, <3>1 DEF Walking
    <3> QED BY <2>2, <2>3, <2>4, <2>5, <3>1, <3>2 DEF Walking
  <2> QED BY <2>2, <2>5
<1>4. IInv /\ IInv' /\ WalkInv /\ [Next]_vars => [Told]_vars
  BY <1>3
<1> QED BY <1>1, <1>2, <1>4, Always, PTL DEF Spec, KeptUnlessTold
=============================================================================
