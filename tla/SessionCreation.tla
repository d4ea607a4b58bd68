--------------------------- MODULE SessionCreation ---------------------------
(***************************************************************************)
(* POST /session under an idempotency key: Onramp.createSession,           *)
(* FundingStore.reserve and update, the rail call between them, the        *)
(* caller's cancel, the worker's writes to the same rows and the retention *)
(* sweep.                                                                  *)
(*                                                                         *)
(* One element of Requests is one call of POST /session together with the  *)
(* funding id that call draws (newId), so the row, the upstream session    *)
(* and the handler of a call share its name.  A client that retries is a   *)
(* second element with the same key.  Every `await' of the handler is a    *)
(* step boundary: between two of its steps any other handler, the worker,  *)
(* the rail or the caller may run, and the process may die.                *)
(*                                                                         *)
(* Clocks appear only through what they decide: whether a rail's page has  *)
(* closed (rail = "closed") and whether a row is older than                *)
(* session_max_age_ms (aged).                                              *)
(***************************************************************************)
EXTENDS FundingState

CONSTANTS
  Requests,   \* calls of POST /session, each with the funding id it draws
  Keys,       \* idempotency keys, each scoped to one caller and product
  Terms,      \* the committed terms a replay is compared on
  SellTerms,  \* the terms whose rail session carries no expiry (a sell's)
  None        \* no value

ASSUME ConstantsAssumption ==
  /\ None \notin Keys
  /\ None \notin Requests
  /\ SellTerms \subseteq Terms

VARIABLES
  call,    \* what each call asked for: its key and its terms
  pc,      \* where each call's handler is
  found,   \* the row a handler read back for its key, as it stood then
  db,      \* the funding_requests table
  rail,    \* what the provider did with the session each call asked for
  money,   \* the provider's transaction against that session, as it reports it
  aged,    \* session_max_age_ms has passed since the row was written
  verdict, \* the worker's decision for a row, before it is written
  answer   \* what the caller of each call was told, and about which row

vars == <<call, pc, found, db, rail, money, aged, verdict, answer>>
handlerVars == <<call, pc, found, answer>>
-----------------------------------------------------------------------------
(* Values *)

Row ==
  [status    : FUNDING_STATES \cup {"absent"},
   ref       : Keys \cup {None},   \* client_reference
   session   : BOOLEAN,            \* provider_session_id and widget_url recorded
   cancelled : BOOLEAN]            \* cancelled_at set

NoRow == [status |-> "absent", ref |-> None, session |-> FALSE, cancelled |-> FALSE]

NothingFound == [id |-> None, row |-> NoRow]

(* A row as newRecord builds it. *)
NewRow(status, ref) ==
  [status |-> status, ref |-> ref, session |-> FALSE, cancelled |-> FALSE]

Stages ==
  {"idle", "reserve", "read", "retry", "reread", "found", "call", "calling",
   "opened", "declined", "unsure", "respond", "done", "dead"}

Codes ==
  {"none", "SESSION", "REFUSED", "RAIL_REFUSED", "PROVIDER_TIMEOUT", "FAULT",
   "REQUEST_IN_FLIGHT", "REQUEST_OUTCOME_UNKNOWN", "REQUEST_ALREADY_SETTLED",
   "REQUEST_CONCLUDED", "REQUEST_CANCELLED", "IDEMPOTENCY_KEY_REUSED",
   "REQUEST_SURFACE_EXPIRED", "CORRUPT"}

(* What a worker may decide. *)
Verdicts == {"none", "transaction_seen", "settled", "failed", "expired", "unobserved"}

(* The provider has, or may yet have, a settlement surface for the call.   *)
(* "sent" stays here for ever: a call that timed out may still be served.  *)
Outstanding(r) == rail[r] \in {"sent", "opened", "closed"}

(* The rows the unique index over (caller, product, client_reference)      *)
(* counts against a key: every row that carries it.                        *)
Holders(k) == {id \in Requests : db[id].ref = k}
-----------------------------------------------------------------------------
Init ==
  /\ call \in [Requests -> [key : Keys, terms : Terms]]
  /\ pc = [r \in Requests |-> "idle"]
  /\ found = [r \in Requests |-> NothingFound]
  /\ db = [r \in Requests |-> NoRow]
  /\ rail = [r \in Requests |-> "idle"]
  /\ money = [r \in Requests |-> "none"]
  /\ aged = [r \in Requests |-> FALSE]
  /\ verdict = [r \in Requests |-> "none"]
  /\ answer = [r \in Requests |-> [code |-> "none", about |-> None]]

Goto(r, stage) == pc' = [pc EXCEPT ![r] = stage]

(* The handler ends: the caller hears `code' about row `id'. *)
Reply(r, code, id) ==
  /\ Goto(r, "done")
  /\ answer' = [answer EXCEPT ![r] = [code |-> code, about |-> id]]

(* Two updates the store must not perform: one that frees the key of every *)
(* row it concludes, one that does not validate the move.                  *)
UpdateFreesConcluded(id, to, release, opened) ==
  /\ CanMove(db[id].status, to)
  /\ db' = [db EXCEPT ![id] =
              [status    |-> to,
               ref       |-> IF release \/ to \in TERMINAL_STATES THEN None ELSE @.ref,
               session   |-> @.session \/ opened,
               cancelled |-> @.cancelled]]

UpdateUnchecked(id, to, release, opened) ==
  db' = [db EXCEPT ![id] =
           [status    |-> to,
            ref       |-> IF release THEN None ELSE @.ref,
            session   |-> @.session \/ opened,
            cancelled |-> @.cancelled]]

(* FundingStore.update: the move is validated against the row as it is     *)
(* under the row lock; an illegal one throws and nothing is written.       *)
Update(id, to, release, opened) ==
  /\ CanMove(db[id].status, to)
  /\ db' = [db EXCEPT ![id] =
              [status    |-> to,
               ref       |-> IF release THEN None ELSE @.ref,
               session   |-> @.session \/ opened,
               cancelled |-> @.cancelled]]
-----------------------------------------------------------------------------
(* createSession, before the reservation *)

(* The kill switch or validate() refuses.  refuse() files a `refused' row  *)
(* that claims no key, and swallows a store that cannot take it.           *)
Refuse(r) ==
  /\ pc[r] = "idle"
  /\ \/ db' = [db EXCEPT ![r] = NewRow("refused", None)]
     \/ UNCHANGED db
  /\ Reply(r, "REFUSED", r)
  /\ UNCHANGED <<call, found, rail, money, aged, verdict>>

Accept(r) ==
  /\ pc[r] = "idle"
  /\ Goto(r, "reserve")
  /\ UNCHANGED <<call, found, db, rail, money, aged, verdict, answer>>
-----------------------------------------------------------------------------
(* FundingStore.reserve: four statements, no transaction around them *)

Inserting(r) == pc[r] \in {"reserve", "retry"}
Reading(r) == pc[r] \in {"read", "reread"}

(* RESERVE_QUERY inserts: nobody holds the key under the unique index. *)
ReserveInserts(r) ==
  /\ Inserting(r)
  /\ Holders(call[r].key) = {}
  /\ db' = [db EXCEPT ![r] = NewRow("created", call[r].key)]
  /\ Goto(r, "call")
  /\ UNCHANGED <<call, found, rail, money, aged, verdict, answer>>

(* ON CONFLICT DO NOTHING: the key is held, read the holder next. *)
ReserveConflicts(r) ==
  /\ Inserting(r)
  /\ Holders(call[r].key) # {}
  /\ Goto(r, IF pc[r] = "reserve" THEN "read" ELSE "reread")
  /\ UNCHANGED <<call, found, db, rail, money, aged, verdict, answer>>

(* byReference finds the holder; the handler keeps this copy of its row. *)
ReadFinds(r) ==
  /\ Reading(r)
  /\ \E id \in Holders(call[r].key) :
       found' = [found EXCEPT ![r] = [id |-> id, row |-> db[id]]]
  /\ Goto(r, "found")
  /\ UNCHANGED <<call, db, rail, money, aged, verdict, answer>>

(* byReference finds nobody: the holder released the key in between.  The  *)
(* first time the insert is tried once more, the second time reserve       *)
(* throws.                                                                 *)
ReadMisses(r) ==
  /\ Reading(r)
  /\ Holders(call[r].key) = {}
  /\ \/ pc[r] = "read" /\ Goto(r, "retry") /\ UNCHANGED answer
     \/ pc[r] = "reread" /\ Reply(r, "FAULT", None)
  /\ UNCHANGED <<call, found, db, rail, money, aged, verdict>>

(* A store that fails inside reserve.  An insert whose acknowledgement was *)
(* lost may have committed: its row then holds the key with no handler.    *)
ReserveFaults(r) ==
  /\ Inserting(r) \/ Reading(r)
  /\ \/ UNCHANGED db
     \/ /\ Inserting(r)
        /\ Holders(call[r].key) = {}
        /\ db' = [db EXCEPT ![r] = NewRow("created", call[r].key)]
  /\ Reply(r, "FAULT", None)
  /\ UNCHANGED <<call, found, rail, money, aged, verdict>>
-----------------------------------------------------------------------------
(* The key belongs to an earlier request: refuseIfOver, the comparison of  *)
(* terms, replay.  The copy read back is a local: it goes with the answer. *)

Concluded(status) ==
  CASE status = "unobserved" -> "REQUEST_OUTCOME_UNKNOWN"
    [] status = "settled"    -> "REQUEST_ALREADY_SETTLED"
    [] OTHER                 -> "REQUEST_CONCLUDED"

(* replay(): only a live, un-withdrawn row committed to these terms.  The  *)
(* expiry is the rail's, so it is known only for a session that has one.   *)
Replay(row, closed) ==
  IF ~row.session THEN "CORRUPT"
  ELSE IF closed THEN "REQUEST_SURFACE_EXPIRED"
  ELSE "SESSION"

(* What the row found under the key makes of the call. *)
Judge(row, sameTerms, closed) ==
  IF row.status = "created" THEN "REQUEST_IN_FLIGHT"
  ELSE IF row.status \in TERMINAL_STATES THEN Concluded(row.status)
  ELSE IF row.cancelled THEN "REQUEST_CANCELLED"
  ELSE IF ~sameTerms THEN "IDEMPOTENCY_KEY_REUSED"
  ELSE Replay(row, closed)

AnswerExisting(r) ==
  /\ pc[r] = "found"
  /\ LET id == found[r].id
     IN Reply(r, Judge(found[r].row,
                       call[r].terms = call[id].terms,
                       rail[id] = "closed" /\ call[id].terms \notin SellTerms), id)
  /\ found' = [found EXCEPT ![r] = NothingFound]
  /\ UNCHANGED <<call, db, rail, money, aged, verdict>>
-----------------------------------------------------------------------------
(* The rail call *)

CallRail(r) ==
  /\ pc[r] = "call"
  /\ Goto(r, "calling")
  /\ rail' = [rail EXCEPT ![r] = "sent"]
  /\ UNCHANGED <<call, found, db, money, aged, verdict, answer>>

(* The rail's answer reaches the handler ... *)
RailAnswersOpened(r) ==
  /\ pc[r] = "calling"
  /\ rail[r] \in {"opened", "closed"}
  /\ Goto(r, "opened")
  /\ UNCHANGED <<call, found, db, rail, money, aged, verdict, answer>>

RailAnswersDeclined(r) ==
  /\ pc[r] = "calling"
  /\ rail[r] = "declined"
  /\ Goto(r, "declined")
  /\ UNCHANGED <<call, found, db, rail, money, aged, verdict, answer>>

(* ... or it does not: a timeout, a reset, a 5xx, an unreadable body.      *)
(* railRefusal makes all of them ProviderTimeout, whatever the rail did.   *)
RailAnswerLost(r) ==
  /\ pc[r] = "calling"
  /\ Goto(r, "unsure")
  /\ UNCHANGED <<call, found, db, rail, money, aged, verdict, answer>>

(* Definitive refusal: the row is closed as `refused' and the key released. *)
(* The compensating write may fail; the refusal is answered either way.     *)
CloseRefused(r) ==
  /\ pc[r] = "declined"
  /\ Update(r, "refused", TRUE, FALSE) \/ UNCHANGED db
  /\ Reply(r, "RAIL_REFUSED", r)
  /\ UNCHANGED <<call, found, rail, money, aged, verdict>>

(* Freeing the key on an indefinite failure. *)
CloseUnsureFreesKey(r) ==
  /\ pc[r] = "unsure"
  /\ Update(r, "unobserved", TRUE, FALSE) \/ UNCHANGED db
  /\ Reply(r, "PROVIDER_TIMEOUT", r)
  /\ UNCHANGED <<call, found, rail, money, aged, verdict>>

(* Indefinite failure: the row concludes `unobserved' and keeps the key. *)
CloseUnsure(r) ==
  /\ pc[r] = "unsure"
  /\ Update(r, "unobserved", FALSE, FALSE) \/ UNCHANGED db
  /\ Reply(r, "PROVIDER_TIMEOUT", r)
  /\ UNCHANGED <<call, found, rail, money, aged, verdict>>

(* The opened session is recorded on the row. *)
Record(r) ==
  /\ pc[r] = "opened"
  /\ Update(r, "session_opened", FALSE, TRUE)
  /\ Goto(r, "respond")
  /\ UNCHANGED <<call, found, rail, money, aged, verdict, answer>>

(* session.orphaned: the write threw, because the row had moved or the     *)
(* store failed, and a failed store may have committed it.                 *)
RecordFails(r) ==
  /\ pc[r] = "opened"
  /\ Update(r, "session_opened", FALSE, TRUE) \/ UNCHANGED db
  /\ Reply(r, "FAULT", r)
  /\ UNCHANGED <<call, found, rail, money, aged, verdict>>

Respond(r) ==
  /\ pc[r] = "respond"
  /\ Reply(r, "SESSION", r)
  /\ UNCHANGED <<call, found, db, rail, money, aged, verdict>>

(* The process serving the call dies: no answer, nothing undone, what the  *)
(* handler had read is gone.                                               *)
Die(r) ==
  /\ pc[r] \notin {"idle", "done", "dead"}
  /\ Goto(r, "dead")
  /\ found' = [found EXCEPT ![r] = NothingFound]
  /\ UNCHANGED <<call, db, rail, money, aged, verdict, answer>>
-----------------------------------------------------------------------------
(* The other writers of the table *)

(* A withdrawal as a ninth state instead of a column. *)
CancelAsState(id) ==
  /\ db[id].status \in {"created", "session_opened"}
  /\ db' = [db EXCEPT ![id].status = "cancelled", ![id].cancelled = TRUE]
  /\ UNCHANGED <<handlerVars, rail, money, aged, verdict>>

(* FundingStore.cancel: one conditional UPDATE.  No deposit address exists *)
(* before a transaction is seen on a row this statement still matches.     *)
Cancel(id) ==
  /\ db[id].status \in {"created", "session_opened"}
  /\ ~db[id].cancelled
  /\ db' = [db EXCEPT ![id].cancelled = TRUE]
  /\ UNCHANGED <<handlerVars, rail, money, aged, verdict>>

(* Two windows that are too short: the rail's expiry taken as the          *)
(* deadline, the local window alone.                                       *)
WindowToPageExpiry(id) == rail[id] = "closed" \/ call[id].terms \in SellTerms

WindowLocal(id) == aged[id]

(* deadlineFor: session_max_age_ms after the row was written, or the       *)
(* closing of the page if that is later.  A row with no session recorded   *)
(* and a sell's have no expiry.                                            *)
WindowOver(id) ==
  /\ aged[id]
  /\ db[id].session /\ call[id].terms \notin SellTerms => rail[id] = "closed"

(* A worker that closes an aged reservation as refused. *)
ConclusionsRefuse(id) ==
  IF db[id].status = "created" /\ WindowOver(id) THEN {"refused"} ELSE {}

(* What advanceOne may conclude about a row, from its snapshot and from    *)
(* what the rail answers.                                                  *)
Conclusions(id) ==
  CASE db[id].status = "created" -> IF WindowOver(id) THEN {"unobserved"} ELSE {}
    [] db[id].status = "session_opened" ->
         (IF money[id] # "none" THEN {"transaction_seen"}
          ELSE IF WindowOver(id) THEN {"expired"} ELSE {})
         \cup (IF WindowOver(id) THEN {"unobserved"} ELSE {})
    [] db[id].status = "transaction_seen" ->
         {"unobserved"} \cup ({money[id]} \cap {"settled", "failed"})
    [] OTHER -> {}

(* A decision is taken on a snapshot and written later ... *)
WorkerDecides(id) ==
  /\ verdict[id] = "none"
  /\ \E to \in Conclusions(id) : verdict' = [verdict EXCEPT ![id] = to]
  /\ UNCHANGED <<handlerVars, db, rail, money, aged>>

(* ... against the row as it then is; an illegal move is logged, no more. *)
WorkerWrites(id) ==
  /\ verdict[id] # "none"
  /\ \/ Update(id, verdict[id], FALSE, FALSE)
     \/ ~CanMove(db[id].status, verdict[id]) /\ UNCHANGED db
  /\ verdict' = [verdict EXCEPT ![id] = "none"]
  /\ UNCHANGED <<handlerVars, rail, money, aged>>

(* The decision is lost: the worker died, the store failed, or the lease   *)
(* went to another worker.                                                 *)
WorkerLoses(id) ==
  /\ verdict[id] # "none"
  /\ verdict' = [verdict EXCEPT ![id] = "none"]
  /\ UNCHANGED <<handlerVars, db, rail, money, aged>>

(* pruneRefusals: only refused rows are ever deleted. *)
Prune(id) ==
  /\ db[id].status = "refused"
  /\ db' = [db EXCEPT ![id] = NoRow]
  /\ UNCHANGED <<handlerVars, rail, money, aged, verdict>>
-----------------------------------------------------------------------------
(* The clock, and the provider: external.  It serves or declines a call it *)
(* was sent, also after the caller stopped waiting; its page closes at     *)
(* some point; a payment settles or fails.                                 *)

Ages(id) ==
  /\ db[id].status # "absent"
  /\ ~aged[id]
  /\ aged' = [aged EXCEPT ![id] = TRUE]
  /\ UNCHANGED <<handlerVars, db, rail, money, verdict>>

(* When a payment may first be reported: while the page is open and, a     *)
(* bank transfer settling after it closed, until the request is as old as  *)
(* session_max_age_ms; the setting is chosen for that (helm/values.yaml).  *)
(* Of a sell, whose page has no expiry, nothing is assumed.                *)
Payable(id) ==
  \/ rail[id] = "opened"
  \/ rail[id] = "closed" /\ (~aged[id] \/ call[id].terms \in SellTerms)

RailServes(r) ==
  /\ rail[r] = "sent"
  /\ \E outcome \in {"opened", "declined"} : rail' = [rail EXCEPT ![r] = outcome]
  /\ UNCHANGED <<handlerVars, db, money, aged, verdict>>

PageCloses(r) ==
  /\ rail[r] = "opened"
  /\ rail' = [rail EXCEPT ![r] = "closed"]
  /\ UNCHANGED <<handlerVars, db, money, aged, verdict>>

Pay(r) ==
  /\ Payable(r)
  /\ money[r] = "none"
  /\ money' = [money EXCEPT ![r] = "pending"]
  /\ UNCHANGED <<handlerVars, db, rail, aged, verdict>>

PaymentEnds(r) ==
  /\ money[r] = "pending"
  /\ \E ending \in {"settled", "failed"} : money' = [money EXCEPT ![r] = ending]
  /\ UNCHANGED <<handlerVars, db, rail, aged, verdict>>
-----------------------------------------------------------------------------
Handler(r) ==
  \/ Refuse(r) \/ Accept(r)
  \/ ReserveInserts(r) \/ ReserveConflicts(r) \/ ReadFinds(r) \/ ReadMisses(r)
  \/ ReserveFaults(r)
  \/ AnswerExisting(r)
  \/ CallRail(r) \/ RailAnswersOpened(r) \/ RailAnswersDeclined(r) \/ RailAnswerLost(r)
  \/ CloseRefused(r) \/ CloseUnsure(r) \/ Record(r) \/ RecordFails(r) \/ Respond(r)
  \/ Die(r)

Others(id) ==
  \/ Cancel(id) \/ WorkerDecides(id) \/ WorkerWrites(id) \/ WorkerLoses(id) \/ Prune(id)

Provider(r) == RailServes(r) \/ PageCloses(r) \/ Pay(r) \/ PaymentEnds(r) \/ Ages(r)

Next == \E r \in Requests : Handler(r) \/ Others(r) \/ Provider(r)

Spec == Init /\ [][Next]_vars
-----------------------------------------------------------------------------
(* Properties *)

TypeOK ==
  /\ call \in [Requests -> [key : Keys, terms : Terms]]
  /\ pc \in [Requests -> Stages]
  /\ found \in [Requests -> [id : Requests \cup {None}, row : Row]]
  /\ db \in [Requests -> Row]
  /\ rail \in [Requests -> {"idle", "sent", "opened", "closed", "declined"}]
  /\ money \in [Requests -> {"none", "pending", "settled", "failed"}]
  /\ aged \in [Requests -> BOOLEAN]
  /\ verdict \in [Requests -> Verdicts]
  /\ answer \in [Requests -> [code : Codes, about : Requests \cup {None}]]

(* One buyer intent, one settlement surface: two calls under one key are   *)
(* never both outstanding at the provider, whatever was retried, timed     *)
(* out, crashed or aged in between (onramp.ts, the reservation; threat     *)
(* model T14).                                                             *)
OneSurfacePerKey ==
  \A a, b \in Requests :
    call[a].key = call[b].key /\ Outstanding(a) /\ Outstanding(b) => a = b

(* A surface the row does not record is never denied: while the provider   *)
(* may hold one that no write recorded, the row keeps the key and says     *)
(* `created' or `unobserved', so a retry meets REQUEST_IN_FLIGHT or        *)
(* REQUEST_OUTCOME_UNKNOWN and never a licence to start another.           *)
OrphanStaysUnknown ==
  \A r \in Requests :
    Outstanding(r) /\ ~db[r].session =>
      db[r].ref = call[r].key /\ db[r].status \in {"created", "unobserved"}

(* A caller told REQUEST_CONCLUDED starts another request.  No dated       *)
(* request so answered was paid, or ever will be, also not by a transfer   *)
(* that settles after its page closed (onramp.ts, refuseIfOver, replay).   *)
ConcludedIsSafe ==
  \A r \in Requests :
    /\ answer[r].code = "REQUEST_CONCLUDED"
    /\ call[answer[r].about].terms \notin SellTerms
    => money[answer[r].about] \in {"none", "failed"}

(* A 201, first or replayed, names a session the provider did open, whose  *)
(* row records it under the caller's own key and terms.                    *)
SessionIsTheCallers ==
  \A r \in Requests :
    answer[r].code = "SESSION" =>
      LET id == answer[r].about
      IN /\ rail[id] \in {"opened", "closed"}
         /\ db[id].session
         /\ call[id] = call[r]
         /\ db[id].ref = call[r].key

(* A live row under a key always has both halves of the handoff: the 500   *)
(* of replay() is corruption, not a state the lifecycle reaches.           *)
ReplayNeverCorrupt == \A r \in Requests : answer[r].code # "CORRUPT"

(* A row refused by the rail, or a caller told so, has no surface; the     *)
(* refusal is the provider's own word, never a guess from a lost answer.   *)
RefusedHasNoSurface ==
  \A r \in Requests :
    answer[r].code = "RAIL_REFUSED" \/ db[r].status = "refused" => ~Outstanding(r)

(* What a caller of POST /session is told is true: its own session, a      *)
(* request no longer payable, the provider's refusal, never a corruption.  *)
AnswersAreTrue ==
  SessionIsTheCallers /\ ConcludedIsSafe /\ ReplayNeverCorrupt /\ RefusedHasNoSurface

(* A key is given back only once the provider has declined the call it was *)
(* taken for.                                                              *)
ReleasedOnlyWhenDeclined ==
  [][\A id \in Requests :
       db[id].ref # None /\ db'[id].ref # db[id].ref => rail[id] = "declined"]_vars

(* What a row has said for good stays said: a concluded status never       *)
(* changes (a refused row may be deleted), a recorded session and a        *)
(* withdrawal are never lost.                                              *)
RowsNeverRetract ==
  [][\A id \in Requests :
       LET old == db[id] new == db'[id]
       IN /\ old.status \in TERMINAL_STATES =>
               new.status = old.status \/ (old.status = "refused" /\ new = NoRow)
          /\ old.session => new.session
          /\ old.cancelled => new.cancelled \/ new = NoRow]_vars

(* Cancelling takes the settlement surface away (docs/api.md), and a 201   *)
(* for a withdrawn request would hand it back (onramp.ts, refuseIfOver):   *)
(* a handler that finds its row withdrawn when it records the session must *)
(* not go on to answer with the surface.                                   *)
WithdrawnNeverHandedOver ==
  [][\A r \in Requests : db[r].cancelled /\ pc[r] = "opened" => pc'[r] # "respond"]_vars

(* Why one key never has two surfaces, as facts every step preserves: a    *)
(* key is on one row at most, a call has no row before it reserves, and    *)
(* from its reservation to the provider's refusal its key stays on it.     *)
FreshUntilReserved ==
  \A r \in Requests :
    /\ pc[r] \in {"idle", "reserve", "read", "retry", "reread", "found"} =>
         rail[r] = "idle" /\ db[r] = NoRow
    /\ pc[r] = "call" => rail[r] = "idle"

KeyHeldOnce ==
  \A a, b \in Requests : db[a].ref # None /\ db[a].ref = db[b].ref => a = b

KeyIsTheCalls == \A r \in Requests : db[r].ref \in {None, call[r].key}

KeylessRows == \A r \in Requests : db[r].status \in {"absent", "refused"} => db[r].ref = None

CallHoldsKey ==
  \A r \in Requests :
    pc[r] \in {"call", "calling", "opened", "unsure", "respond"} \/ Outstanding(r) =>
      db[r].ref = call[r].key

DeclinedByTheRail ==
  \A r \in Requests :
    pc[r] = "declined" \/ answer[r].code = "RAIL_REFUSED" => rail[r] = "declined"

OpenedIsRecorded ==
  \A r \in Requests :
    /\ db[r].status \in {"absent", "created", "refused", "unobserved"} \/ db[r].session
    /\ db[r].status \in {"absent", "created", "refused"} => ~db[r].session

SurfaceInv ==
  /\ FreshUntilReserved /\ KeyHeldOnce /\ KeyIsTheCalls /\ KeylessRows
  /\ CallHoldsKey /\ DeclinedByTheRail /\ OpenedIsRecorded

(* The table under all of this is the lifecycle every row promises         *)
(* (FundingLifecycle): no interleaving of handlers, worker, sweep and      *)
(* provider makes a row say something of the money that is not so.         *)
Lifecycle == INSTANCE FundingLifecycle WITH
  status  <- [id \in Requests |-> db[id].status],
  payable <- [id \in Requests |-> Payable(id)],
  dated   <- [id \in Requests |-> call[id].terms \notin SellTerms]

ImplementsLifecycle == Lifecycle!Spec
=============================================================================
