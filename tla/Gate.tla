------------------------------- MODULE Gate -------------------------------
(***************************************************************************)
(* The personhood gate: a redeem walks the People collections in order,    *)
(* reads each ring root through one table of coalesced reads with a        *)
(* ceiling, and mints a token that protected requests present later.  The  *)
(* People chain rebuilds rings meanwhile, reads fail or never answer, and  *)
(* the pod restarts with another allowlist.                                *)
(*                                                                         *)
(* A proof is named by the ring it was made in and the revision of that    *)
(* ring's root; it opens against that root and no other.  The bytes, the   *)
(* MAC and the signature are left out: a challenge is its issue time, a    *)
(* token its subject, audience and expiry.                                 *)
(***************************************************************************)
EXTENDS Integers, Sequences, FiniteSets

CONSTANTS
    Rings,          \* the accepted collections, in the order they are tried
    Indices,        \* ring indices a caller may name
    Populated,      \* the <<collection, index>> pairs the chain has a ring for
    Products,       \* product ids
    Redeems,        \* concurrent redeem requests
    MaxRedeems,     \* MAX_IN_FLIGHT_REDEEMS
    ChallengeTtl,   \* challenge_ttl_ms
    TokenTtl,       \* token_ttl_s
    ReadTime,       \* the reader's timeout
    MaxRevision,    \* bound on the rebuilds of a ring
    MaxTime         \* bound on the clock

Collections == {Rings[i] : i \in DOMAIN Rings}
Keys == Collections \X Indices

ASSUME GateAssumption ==
    /\ Rings \in Seq(Collections) /\ Len(Rings) > 0
    /\ IsFiniteSet(Keys) /\ Populated \subseteq Keys
    /\ MaxRedeems \in Nat \ {0} /\ MaxRevision \in Nat \ {0}
    /\ {ChallengeTtl, TokenTtl, ReadTime, MaxTime} \subseteq Nat

VARIABLES
    clock,
    roots,      \* the chain: the revision of each ring's root, 0 for none
    allowed,    \* allowed_products of the running pod
    inFlight,   \* the table of open reads, by storage key
    active,     \* the counter the ceiling is held against
    redeem,     \* each redeem request
    token,      \* the newest token, as its holder keeps it
    rebuilt     \* history: when each ring was last rebuilt

vars == <<clock, roots, allowed, inFlight, active, redeem, token, rebuilt>>

NoRead == [opened |-> -1]
Idle == [phase |-> "idle"]
NoToken == [exp |-> 0]
Silent == -1    \* the chain has not answered yet
Failed == -2    \* an error, a timeout, or bytes that are not a RingRoot's
NoString == -3  \* a result that is no string, which reads as no root at all

\* A rebuild too long ago to matter to any read.
LongAgo == -(ReadTime + 1)

\* commitmentsFrom: the bound on sockets
Ceiling == MaxRedeems * Len(Rings)

\* What a caller sends: a proof from ring `home' whose root was at `revision'.
Proofs == [home : Populated, revision : 1 .. MaxRevision]
KeyOf(q) == <<Rings[q.at], q.ring>>

\* verifyChallenge: the age of an authentic challenge, on one clock that only
\* moves forward, so the tolerance for a future issue time never applies
ChallengeStands(issued) == clock - issued <= ChallengeTtl

\* verifyToken under the allowlist of the pod that runs now
Accepted(t) == t # NoToken /\ clock < t.exp /\ t.aud \in allowed

Init ==
    /\ clock = 0
    /\ roots = [k \in Keys |-> IF k \in Populated THEN 1 ELSE 0]
    /\ allowed = Products
    /\ inFlight = [k \in Keys |-> NoRead]
    /\ active = 0
    /\ redeem = [r \in Redeems |-> Idle]
    /\ token = NoToken
    /\ rebuilt = [k \in Keys |-> LongAgo]

(***************************************************************************)
(* One redeem.  Its turns run between two events of the process, so nothing *)
(* else moves while one is due.                                            *)
(***************************************************************************)
InTurn(r) == redeem[r].phase \in {"turn", "told"}
Quiet == \A r \in Redeems : ~ InTurn(r)

\* The challenge and the product are checked before any read; a request that
\* fails either is answered 401 at once and leaves nothing behind.  `still'
\* (history): the proof's ring was last rebuilt more than a read's length ago.
Redeem(r, issued, product, ring, proof) ==
    /\ Quiet
    /\ redeem[r].phase # "waiting"
    /\ ChallengeStands(issued)
    /\ product \in allowed
    /\ proof.revision <= roots[proof.home]
    /\ redeem' = [redeem EXCEPT ![r] =
            [phase |-> "turn", at |-> 1, product |-> product, ring |-> ring,
             proof |-> proof, read |-> NoRead, unavailable |-> FALSE,
             still |-> rebuilt[proof.home] + ReadTime < clock, misread |-> FALSE]]
    /\ UNCHANGED <<clock, roots, allowed, inFlight, active, token, rebuilt>>

\* As if the first collection alone decided what a failure means.
OnwardFirstDecides(q, unavailable, misread) ==
    [q EXCEPT !.phase = "turn", !.at = @ + 1, !.read = NoRead,
              !.unavailable = IF q.at = 1 THEN unavailable ELSE @, !.misread = @ \/ misread]

\* The collection did not give a person: remember why and try the next one.
\* `misread' (history): for the proof's own ring the chain's endpoint gave no
\* string.
Onward(q, unavailable, misread) ==
    [q EXCEPT !.phase = "turn", !.at = @ + 1, !.read = NoRead,
              !.unavailable = @ \/ unavailable, !.misread = @ \/ misread]

Waiting(q) == [q EXCEPT !.phase = "waiting"]

\* An open read of the same ring is shared.
Join(r) ==
    LET q == redeem[r] IN
    /\ q.phase = "turn" /\ q.at <= Len(Rings)
    /\ inFlight[KeyOf(q)] # NoRead
    /\ redeem' = [redeem EXCEPT ![r] = Waiting(q)]
    /\ UNCHANGED <<clock, roots, allowed, inFlight, active, token, rebuilt>>

\* At the ceiling the read is declined, which counts as unavailable.
Shed(r) ==
    LET q == redeem[r] IN
    /\ q.phase = "turn" /\ q.at <= Len(Rings)
    /\ inFlight[KeyOf(q)] = NoRead
    /\ active >= Ceiling
    /\ redeem' = [redeem EXCEPT ![r] = Onward(q, TRUE, FALSE)]
    /\ UNCHANGED <<clock, roots, allowed, inFlight, active, token, rebuilt>>

Open(r) ==
    LET q == redeem[r] IN
    /\ q.phase = "turn" /\ q.at <= Len(Rings)
    /\ inFlight[KeyOf(q)] = NoRead
    /\ active < Ceiling
    /\ inFlight' = [inFlight EXCEPT ![KeyOf(q)] =
            [opened |-> clock, value |-> Silent]]
    /\ active' = active + 1
    /\ redeem' = [redeem EXCEPT ![r] = Waiting(q)]
    /\ UNCHANGED <<clock, roots, allowed, token, rebuilt>>

\* verifyRingMembership on what the read gave
Opens(q) == KeyOf(q) = q.proof.home /\ q.read.value = q.proof.revision

\* The proof opened: mint the token for the person it names.
Mint(r) ==
    LET q == redeem[r] IN
    /\ q.phase = "told" /\ Opens(q)
    /\ token' = [sub |-> q.proof.home, aud |-> q.product, exp |-> clock + TokenTtl,
                 proved |-> q.read.opened]
    /\ redeem' = [redeem EXCEPT ![r] = Idle]
    /\ UNCHANGED <<clock, roots, allowed, inFlight, active, rebuilt>>

\* The proof did not open here, or the read failed.
PassOver(r) ==
    LET q == redeem[r] IN
    /\ q.phase = "told" /\ ~ Opens(q)
    /\ redeem' = [redeem EXCEPT ![r] =
            Onward(q, q.read.value = Failed,
                  KeyOf(q) = q.proof.home /\ q.read.value = NoString)]
    /\ UNCHANGED <<clock, roots, allowed, inFlight, active, token, rebuilt>>

\* No collection opened: one that would not answer outranks one that refused.
Verdict(q) == IF q.unavailable THEN "unavailable" ELSE "unauthorized"

Refuse(r) ==
    LET q == redeem[r] IN
    /\ q.phase = "turn" /\ q.at > Len(Rings)
    /\ redeem' = [redeem EXCEPT ![r] = [phase |-> Verdict(q)]]
    /\ UNCHANGED <<clock, roots, allowed, inFlight, active, token, rebuilt>>

(***************************************************************************)
(* The reads                                                               *)
(***************************************************************************)

\* The chain reads its state for an open read; the answer travels back.
Answer(k) ==
    /\ Quiet
    /\ inFlight[k] # NoRead /\ inFlight[k].value = Silent
    /\ inFlight' = [inFlight EXCEPT ![k].value = roots[k]]
    /\ UNCHANGED <<clock, roots, allowed, active, redeem, token, rebuilt>>

\* As if only an answered read were let go of.
SettledIfAnswered(k) ==
    /\ active' = IF inFlight[k].value = Silent THEN active ELSE active - 1
    /\ inFlight' = [inFlight EXCEPT ![k] = NoRead]

\* The read settles: the table and the counter let go of it first, then
\* everyone who shared it is told.
Settled(k) ==
    /\ active' = active - 1
    /\ inFlight' = [inFlight EXCEPT ![k] = NoRead]

Told(k, v) ==
    [r \in Redeems |->
        IF redeem[r].phase = "waiting" /\ KeyOf(redeem[r]) = k
        THEN [redeem[r] EXCEPT !.phase = "told", !.read = [inFlight[k] EXCEPT !.value = v]]
        ELSE redeem[r]]

Arrive(k) ==
    /\ Quiet
    /\ inFlight[k] # NoRead /\ inFlight[k].value # Silent
    /\ Settled(k)
    /\ redeem' = Told(k, inFlight[k].value)
    /\ UNCHANGED <<clock, roots, allowed, token, rebuilt>>

\* The socket errs, the endpoint reports an error, the bytes have another
\* length, or the timer runs out.
Fail(k) ==
    /\ Quiet
    /\ inFlight[k] # NoRead
    /\ Settled(k)
    /\ redeem' = Told(k, Failed)
    /\ UNCHANGED <<clock, roots, allowed, token, rebuilt>>

\* The endpoint answers with a result that is no string; it is taken for None.
Misread(k) ==
    /\ Quiet
    /\ inFlight[k] # NoRead
    /\ Settled(k)
    /\ redeem' = Told(k, NoString)
    /\ UNCHANGED <<clock, roots, allowed, token, rebuilt>>

(***************************************************************************)
(* The world                                                               *)
(***************************************************************************)
Rebuild(k) ==
    /\ Quiet
    /\ roots[k] < MaxRevision
    /\ roots' = [roots EXCEPT ![k] = @ + 1]
    /\ rebuilt' = [rebuilt EXCEPT ![k] = clock]
    /\ UNCHANGED <<clock, allowed, inFlight, active, redeem, token>>

\* A pod restarts, perhaps with another allowlist; a token stays with its holder.
Restart(products) ==
    /\ Quiet
    /\ allowed' = products
    /\ inFlight' = [k \in Keys |-> NoRead]
    /\ active' = 0
    /\ redeem' = [r \in Redeems |-> Idle]
    /\ UNCHANGED <<clock, roots, token, rebuilt>>

\* As if no timer ran beside a read.
TickUntimed ==
    /\ Quiet
    /\ clock < MaxTime
    /\ clock' = clock + 1
    /\ UNCHANGED <<roots, allowed, inFlight, active, redeem, token, rebuilt>>

\* Time passes; the timer of a read is never late.
Tick ==
    /\ Quiet
    /\ clock < MaxTime
    /\ \A k \in Keys : inFlight[k] # NoRead => clock < inFlight[k].opened + ReadTime
    /\ clock' = clock + 1
    /\ UNCHANGED <<roots, allowed, inFlight, active, redeem, token, rebuilt>>

Turn(r) == Join(r) \/ Shed(r) \/ Open(r) \/ Mint(r) \/ PassOver(r) \/ Refuse(r)

Next ==
    \/ \E r \in Redeems : Turn(r)
    \/ \E r \in Redeems, issued \in 0 .. clock, product \in Products,
          ring \in Indices, proof \in Proofs : Redeem(r, issued, product, ring, proof)
    \/ \E k \in Keys : Answer(k) \/ Arrive(k) \/ Fail(k) \/ Misread(k)
    \/ \E k \in Populated : Rebuild(k)
    \/ \E products \in SUBSET Products : Restart(products)
    \/ Tick

Spec == Init /\ [][Next]_vars

(***************************************************************************)
(* Properties                                                              *)
(***************************************************************************)

Reading == {k \in Keys : inFlight[k] # NoRead}

Reads == {NoRead} \cup [opened : 0 .. MaxTime, value : NoString .. MaxRevision]

\* Every variable stays in its type.
TypeOK ==
    /\ clock \in 0 .. MaxTime
    /\ roots \in [Keys -> 0 .. MaxRevision]
    /\ allowed \subseteq Products
    /\ inFlight \in [Keys -> Reads]
    /\ active \in 0 .. Ceiling
    /\ \A r \in Redeems :
          \/ redeem[r].phase \in {"idle", "unauthorized", "unavailable"}
          \/ /\ redeem[r].phase \in {"turn", "waiting", "told"}
             /\ redeem[r].at \in 1 .. Len(Rings) + 1
             /\ redeem[r].proof \in Proofs
             /\ redeem[r].read \in Reads
    /\ token # NoToken => token.sub \in Populated /\ token.aud \in Products
    /\ \A k \in Keys : rebuilt[k] \in LongAgo .. clock

\* The counter the ceiling is held against is the number of sockets that are
\* open, whatever way earlier reads ended: a read that is counted and never let
\* go of would in time turn every redeem away, and one let go of twice would
\* lift the ceiling.  And nobody waits for a read that is not open.
ReadsAreCounted ==
    /\ active = Cardinality(Reading)
    /\ \A r \in Redeems : redeem[r].phase = "waiting" => KeyOf(redeem[r]) \in Reading

\* The reads and their count keep their shape.
GateInv == TypeOK /\ ReadsAreCounted

\* The redeem asked for the ring its proof is from, whose root stood still from
\* one read's length before the redeem began, and the endpoint's answers for
\* that ring, if any came, were answers.
StoodStill(q) ==
    /\ q.ring = q.proof.home[2]
    /\ roots[q.proof.home] = q.proof.revision
    /\ q.still /\ ~ q.misread

\* A person whose ring root stood still, from one read's length before they
\* asked until they are told, is never told they are not a person: if they were
\* not let in, it is a failure they can retry, whichever collections refused
\* them, in whatever order, and whoever shared their reads.  A root that moved
\* within that length may be refused though it stood still since they asked: the
\* read they shared was answered before it moved.  So may one whose endpoint
\* answered with a result that is no string (chain.ts:83).
MemberIsNotRefused ==
    [][\A r \in Redeems : redeem[r].phase = "turn" /\ StoodStill(redeem[r])
            => redeem[r]'.phase # "unauthorized"]_vars

\* A token a protected route accepts stands on a chain read of its own lifetime:
\* membership was looked up at most one read before the token was minted, however
\* many redeems shared that read and whatever the pod did in between.
AcceptedIsRecent == Accepted(token) => clock < token.proved + ReadTime + TokenTtl
=============================================================================
