------------------------------- MODULE Deposit -------------------------------
(***************************************************************************)
(* The deposit leg of one sell: the address the provider names, the seller *)
(* sends crypto to, and nobody can take back.  The worker reads it off the *)
(* provider's transaction (src/meld/rail.ts depositFrom), folds it into    *)
(* the row (src/funding/merge.ts mergeDeposit) and the request's owner     *)
(* reads it (src/funding/types.ts depositDisclosure) or cancels            *)
(* (src/funding/store.ts cancel).  Several replicas poll the one row, each *)
(* from the copy it claimed and with the instant its tick started at.      *)
(*                                                                         *)
(* Instants are relative to the clock, as in FundingWorker: 0 is now, Pass *)
(* moves them back, Floor is older than the start of any running tick.     *)
(***************************************************************************)
EXTENDS FundingState, Integers, FiniteSets

CONSTANTS
  Workers,     \* the replicas
  Accounts,    \* accounts on the deposit's chain
  Addresses,   \* what a rail may write where an account belongs
  Canonical(_), \* canonicalizeDisclosedAddress: the account, or None
  Terms,       \* amount and currency together, by value
  Endings,     \* how the provider's transaction may end
  TTL,         \* Lease.ttlMs
  MaxTick,     \* bound: the longest a tick runs
  MaxChanges,  \* bound: how often the provider restates its transaction
  None         \* no value; no lease

ASSUME DepositConstants ==
  /\ TTL \in Nat /\ MaxTick \in Nat /\ MaxChanges \in Nat
  /\ \A address \in Addresses : Canonical(address) \in Accounts \cup {None}
  /\ Endings \subseteq {"settled", "failed"}
  /\ None \notin Workers /\ None \notin Accounts /\ None \notin Addresses /\ None \notin Terms
  /\ None \notin [account : Accounts, terms : Terms] \cup [address : Addresses, terms : Terms]

VARIABLES
  order,    \* the provider's transaction: the status it gives and its deposit
  row,      \* the sell's row
  wk,       \* each replica's tick
  told,     \* what the owner has been told: deposits shown, a cancel granted
  past,     \* what the row went through: a disagreement, a tick overtaken
  changes   \* restatements so far

vars == <<order, row, wk, told, past, changes>>
-----------------------------------------------------------------------------
Floor == -(MaxTick + 1)
Ago(t) == IF t > Floor THEN t - 1 ELSE Floor

Sayings == [named : Addresses \cup {None}, former : Addresses \cup {None}, terms : Terms \cup {None}]

Disclosures == [address : Addresses, terms : Terms]
Statuses == {None, "pending"} \cup Endings

SameAccount(a, b) == Canonical(a) # None /\ Canonical(a) = Canonical(b)

(* The disclosure in a transaction: the address under its new name or its  *)
(* former one, withheld when the two differ or the terms are not there.    *)
DepositFrom(said) ==
  LET address == IF said.named # None THEN said.named ELSE said.former
      torn == said.named # None /\ said.former # None /\ ~SameAccount(said.named, said.former)
  IN IF torn \/ address = None \/ said.terms = None
     THEN None
     ELSE [address |-> address, terms |-> said.terms]

(* The rail's mapper. *)
Mapped(status) == IF status \in {"settled", "failed"} THEN status ELSE "transaction_seen"
-----------------------------------------------------------------------------
(* The row.  `since' is deposit_conflict_at >= deposit_observed_at, the    *)
(* one comparison the code makes of the two; `writes' changes with         *)
(* updated_at.                                                             *)
Row ==
  [status : FUNDING_STATES, provider : Statuses,
   deposit : {None} \cup [account : Accounts, terms : Terms], observedAt : Floor..0,
   conflict : {None} \cup Addresses, conflictAt : Floor..0, since : BOOLEAN,
   cancelled : BOOLEAN, by : Workers \cup {None}, until : Floor..TTL,
   writes : BOOLEAN]

Snapshots ==
  [status : FUNDING_STATES, provider : Statuses, deposit : {None} \cup [account : Accounts, terms : Terms],
   conflict : {None} \cup Addresses, since : BOOLEAN]

NewRow ==
  [status |-> "session_opened", provider |-> None, deposit |-> None, observedAt |-> Floor,
   conflict |-> None, conflictAt |-> Floor, since |-> FALSE, cancelled |-> FALSE,
   by |-> None, until |-> Floor, writes |-> FALSE]

Idle == [pc |-> "idle", at |-> 0, snap |-> None, next |-> None]

(* What a tick uses of the row it claimed. *)
Snapshot ==
  [status |-> row.status, provider |-> row.provider, deposit |-> row.deposit,
   conflict |-> row.conflict, since |-> row.since]

Init ==
  /\ order = [status |-> "absent", deposit |-> None]
  /\ row = NewRow
  /\ wk = [w \in Workers |-> Idle]
  /\ told = [shown |-> {}, cancelled |-> FALSE]
  /\ past = [disagreed |-> FALSE, overtaken |-> FALSE]
  /\ changes = 0

(* What the owner is shown: toFundingRequestDto's `live' and the rest of   *)
(* depositDisclosure.                                                      *)
Live == row.status \notin TERMINAL_STATES /\ ~row.cancelled
DisclosedDespiteCancel == row.status \notin TERMINAL_STATES /\ row.deposit # None /\ ~row.since
Disclosed == Live /\ row.deposit # None /\ ~row.since
-----------------------------------------------------------------------------
(* The provider and the owner *)

(* The transaction appears, is restated, or ends.  A status may be left    *)
(* out at any time, also of one that has ended.                            *)
ProviderStates(status, said) ==
  /\ changes < MaxChanges
  /\ order.status \in Endings => status \in {order.status, None}
  /\ order' = [status |-> status, deposit |-> DepositFrom(said)]
  /\ order' # order
  /\ changes' = changes + 1
  /\ UNCHANGED <<row, wk, told, past>>

(* GET of the request. *)
Read ==
  /\ Disclosed
  /\ told' = [told EXCEPT !.shown = @ \cup {row.deposit}]
  /\ UNCHANGED <<order, row, wk, past, changes>>

Withdrawn(guard) ==
  /\ row.status \in {"created", "session_opened"}
  /\ ~row.cancelled
  /\ guard
  /\ row' = [row EXCEPT !.cancelled = TRUE, !.writes = ~@]
  /\ told' = [told EXCEPT !.cancelled = TRUE]
  /\ UNCHANGED <<order, wk, past, changes>>

(* FundingStore.cancel: one conditional statement. *)
Cancel == Withdrawn(row.deposit = None)

Pass ==
  /\ \A w \in Workers : wk[w].pc # "idle" => wk[w].at > -MaxTick
  /\ row' = [row EXCEPT !.observedAt = Ago(@), !.conflictAt = Ago(@), !.until = Ago(@)]
  /\ wk' = [w \in Workers |-> IF wk[w].pc = "idle" THEN wk[w] ELSE [wk[w] EXCEPT !.at = @ - 1]]
  /\ UNCHANGED <<order, told, past, changes>>
-----------------------------------------------------------------------------
(* The worker's tick *)

StartTick(w) ==
  /\ wk[w].pc = "idle"
  /\ row.status \notin TERMINAL_STATES
  /\ wk' = [wk EXCEPT ![w].pc = "claim"]
  /\ UNCHANGED <<order, row, told, past, changes>>

(* The claim compares with the instant the tick started at, which another  *)
(* replica may have written the row after.                                 *)
Claim(w) ==
  /\ wk[w].pc = "claim"
  /\ IF row.status \notin TERMINAL_STATES /\ (row.by = None \/ row.until < wk[w].at)
     THEN /\ row' = [row EXCEPT !.by = w, !.until = wk[w].at + TTL]
          /\ wk' = [wk EXCEPT ![w].pc = "poll", ![w].snap = Snapshot]
          /\ past' = [past EXCEPT !.overtaken =
                        @ \/ wk[w].at < row.observedAt \/ wk[w].at < row.conflictAt]
     ELSE /\ wk' = [wk EXCEPT ![w] = Idle]
          /\ UNCHANGED <<row, past>>
  /\ UNCHANGED <<order, told, changes>>

Done(w) == wk' = [wk EXCEPT ![w] = Idle]

Decide(w, to, news) ==
  wk' = [wk EXCEPT ![w].pc = "write", ![w].snap = None, ![w].next = [to |-> to, news |-> news]]

(* Whether a disclosure says something the record does not have: neither   *)
(* the deposit it holds nor the disagreement recorded since that landed.   *)
MatchesAccepted(rec, d) ==
  /\ rec.deposit # None
  /\ Canonical(d.address) = rec.deposit.account
  /\ d.terms = rec.deposit.terms
DepositIsNewUnlessOnFile(rec, d) == ~MatchesAccepted(rec, d) /\ rec.conflict # d.address
DepositIsNewUnlessSpeltAlike(rec, d) ==
  /\ ~(MatchesAccepted(rec, d) /\ d.address = Canonical(d.address))
  /\ ~(rec.conflict = d.address /\ (rec.deposit = None \/ rec.since))
DepositIsNew(rec, d) ==
  /\ ~MatchesAccepted(rec, d)
  /\ ~(rec.conflict = d.address /\ (rec.deposit = None \/ rec.since))

(* A transaction that has ended, by the status the poll concludes on: the  *)
(* answer's own, and past the discovery the one on file when it has none.  *)
EndedByAnswer(rec, status) == Mapped(status) \in TERMINAL_STATES
Ended(rec, status) ==
  Mapped(IF status = None /\ rec.status = "transaction_seen" THEN rec.provider ELSE status)
    \in TERMINAL_STATES

(* The rail answers with the transaction; a tick without news is done.     *)
PollAnswers(w) ==
  /\ wk[w].pc = "poll"
  /\ order.status # "absent"
  /\ LET rec == wk[w].snap
         status == order.status
         fact == order.deposit # None /\ ~Ended(rec, status) /\ DepositIsNew(rec, order.deposit)
         to == IF rec.status = "session_opened" THEN "transaction_seen"
               ELSE Mapped(IF status = None THEN rec.provider ELSE status)
     IN IF to = rec.status /\ ~fact /\ status = rec.provider
        THEN Done(w)
        ELSE Decide(w, to, [provider |-> status, deposit |-> IF fact THEN order.deposit ELSE None])
  /\ UNCHANGED <<order, row, told, past, changes>>

(* No answer: the row waits, or its window is over and it concludes.  An   *)
(* answer of nothing: the status on file decides, or the window `expired'. *)
PollFindsNothing(w) ==
  /\ wk[w].pc = "poll"
  /\ \/ Done(w)
     \/ Decide(w, "unobserved", None)
     \/ wk[w].snap.status = "session_opened" /\ Decide(w, "expired", None)
     \/ /\ wk[w].snap.status = "transaction_seen"
        /\ Mapped(wk[w].snap.provider) # "transaction_seen"
        /\ Decide(w, Mapped(wk[w].snap.provider), None)
  /\ UNCHANGED <<order, row, told, past, changes>>

(* mergeDeposit *)
Disagrees(rec, d) ==
  \/ Canonical(d.address) = None
  \/ rec.deposit # None /\ ~MatchesAccepted(rec, d)

MergeDepositRevising(rec, d, at) ==
  IF d = None \/ Canonical(d.address) = None THEN rec
  ELSE [rec EXCEPT !.deposit = [account |-> Canonical(d.address), terms |-> d.terms],
                   !.observedAt = at]

MergeDeposit(rec, d, at) ==
  CASE d = None -> rec
    [] d # None /\ Disagrees(rec, d) ->
         [rec EXCEPT !.conflict = d.address, !.conflictAt = at,
                     !.since = rec.deposit # None /\ at >= rec.observedAt]
    [] d # None /\ ~Disagrees(rec, d) /\ rec.deposit = None ->
         [rec EXCEPT !.deposit = [account |-> Canonical(d.address), terms |-> d.terms],
                     !.observedAt = at,
                     !.since = rec.conflict # None /\ rec.conflictAt >= at]
    [] OTHER -> rec

(* mergeAdvance accepts a legal move, or news about a row still in flight. *)
Mergeable(rec, next) ==
  \/ CanMove(rec.status, next.to)
  \/ /\ next.to = rec.status
     /\ rec.status \notin TERMINAL_STATES
     /\ next.news # None
     /\ next.news.deposit # None \/ next.news.provider # rec.provider

Advanced(rec, next, at) ==
  LET moved == [rec EXCEPT !.status = next.to, !.writes = ~@]
  IN IF next.news = None
     THEN moved
     ELSE [MergeDeposit(moved, next.news.deposit, at) EXCEPT !.provider = next.news.provider]

Disputes(rec, next) ==
  /\ rec.deposit # None /\ next.news # None
  /\ next.news.deposit # None /\ Disagrees(rec, next.news.deposit)

(* FundingStore.update under the lease; an illegal move throws.            *)
Write(w) ==
  /\ wk[w].pc = "write"
  /\ LET next == wk[w].next
         lands == Mergeable(row, next) /\ row.by = w
     IN /\ row' = IF lands THEN Advanced(row, next, wk[w].at) ELSE row
        /\ past' = [past EXCEPT !.disagreed = @ \/ (lands /\ Disputes(row, next))]
  /\ Done(w)
  /\ UNCHANGED <<order, told, changes>>

(* After its tick a replica hands the lease back; not doing so is a full   *)
(* batch, a release that fails or a replica that died.                     *)
Release(w) ==
  /\ wk[w].pc = "idle"
  /\ row.by = w
  /\ row' = [row EXCEPT !.by = None, !.until = Floor]
  /\ UNCHANGED <<order, wk, told, past, changes>>
-----------------------------------------------------------------------------
Tick(w) ==
  \/ StartTick(w) \/ Claim(w) \/ PollAnswers(w) \/ PollFindsNothing(w) \/ Write(w)

Next ==
  \/ \E status \in Statuses, said \in Sayings : ProviderStates(status, said)
  \/ Read \/ Cancel \/ Pass
  \/ \E w \in Workers : Tick(w) \/ Release(w)

Spec == Init /\ [][Next]_vars

(* Replicas keep ticking and time passes; a provider that keeps a          *)
(* transaction does not fail every lookup of it for ever.                  *)
FairSpec ==
  /\ Spec
  /\ SF_vars(Pass)
  /\ \A w \in Workers : WF_vars(Tick(w)) /\ SF_vars(PollAnswers(w))
-----------------------------------------------------------------------------
(* Properties *)

TypeOK ==
  /\ order \in [status : Statuses \cup {"absent"}, deposit : Disclosures \cup {None}]
  /\ row \in Row
  /\ wk \in [Workers -> [pc : {"idle", "claim", "poll", "write"}, at : Floor..0,
                         snap : {None} \cup Snapshots,
                         next : {None} \cup [to : FUNDING_STATES,
                                             news : {None} \cup [provider : Statuses,
                                                                 deposit : {None} \cup Disclosures]]]]
  /\ told \in [shown : SUBSET [account : Accounts, terms : Terms], cancelled : BOOLEAN]
  /\ past \in [disagreed : BOOLEAN, overtaken : BOOLEAN]
  /\ changes \in 0..MaxChanges

(* The owner is never both shown where to send the crypto and told that    *)
(* the sale is withdrawn, in either order and whatever a worker was doing  *)
(* at the time (the cancel's deposit_address IS NULL; `live').             *)
NeverShownAndWithdrawn == ~(told.shown # {} /\ told.cancelled)

(* However the provider restates itself, and whichever replica's poll      *)
(* lands first, at most one deposit is ever shown: no client is sent to a  *)
(* second account or asked for a second amount (mergeDeposit).             *)
OneDepositShown == Cardinality(told.shown) <= 1

(* All of it: the types, one deposit at most, and never one withdrawn.     *)
DepositInv == TypeOK /\ NeverShownAndWithdrawn /\ OneDepositShown

(* A disagreement with the deposit withholds it for good, unless a replica *)
(* claimed the row in a tick that had started before another one wrote it. *)
DisputedIsWithheld == past.disagreed /\ ~past.overtaken => ~Disclosed

(* The write that concludes a sale brings no address with it, nor a word   *)
(* about one: a concluded row carries nothing nobody was shown.            *)
ConclusionsBringNoDeposit ==
  [][row.status \notin TERMINAL_STATES /\ row'.status \in TERMINAL_STATES
       => row'.deposit = row.deposit /\ row'.conflict = row.conflict]_row

(* A provider that has stopped changing its mind stops costing writes:     *)
(* the same answer poll after poll, however it spells the account and      *)
(* whether or not it was once disputed, is no news (depositIsNew).         *)
SteadyAnswersAreQuiet == <>[][row'.writes = row.writes]_row

(* A provider that goes on naming another deposit than the one on file     *)
(* has it withheld in the end, also when a stale instant undid the first   *)
(* disagreement.                                                           *)
Contradicted ==
  /\ row.deposit # None
  /\ order.status \in {None, "pending"} /\ order.deposit # None
  /\ ~MatchesAccepted(row, order.deposit)
DisputeIsHeeded == <>[]Contradicted => <>[]~Disclosed
=============================================================================
