---------------------------- MODULE Gate_proofs ----------------------------
(***************************************************************************)
(* What Gate says of any number of redeems, collections and rings: the     *)
(* reads are counted, a member whose ring stood still is not refused, and  *)
(* an accepted token stands on a recent read.                              *)
(***************************************************************************)
EXTENDS Gate, FiniteSetTheorems, TLAPS

Phases == {"turn", "waiting", "told"}

(* A redeem under way, with every field. *)
UnderWay ==
  [phase : Phases, at : 1 .. Len(Rings) + 1, product : Products, ring : Indices,
   proof : Proofs, read : Reads, unavailable : BOOLEAN, still : BOOLEAN,
   misread : BOOLEAN]
Ended == [phase : {"idle", "unauthorized", "unavailable"}]

Tokens == [sub : Populated, aud : Products, exp : Nat, proved : Nat]

Types ==
  /\ clock \in 0 .. MaxTime
  /\ roots \in [Keys -> 0 .. MaxRevision]
  /\ allowed \subseteq Products
  /\ inFlight \in [Keys -> Reads]
  /\ active \in 0 .. Ceiling
  /\ redeem \in [Redeems -> UnderWay \cup Ended]
  /\ token \in Tokens \cup {NoToken}
  /\ rebuilt \in [Keys -> Int]
  /\ \A k \in Keys : LongAgo <= rebuilt[k] /\ rebuilt[k] <= clock

(* A read, open or told, that was answered saw the root its ring has, or   *)
(* the ring was rebuilt since the read was opened.                         *)
SawTheRoot(read, k) ==
  read # NoRead /\ read.value \notin {Silent, Failed, NoString} =>
    /\ read.value <= roots[k]
    /\ read.value # roots[k] => read.opened <= rebuilt[k]

ReadsAreTrue ==
  /\ \A k \in Keys : SawTheRoot(inFlight[k], k)
  /\ \A r \in Redeems : redeem[r].phase = "told" =>
       /\ redeem[r].at <= Len(Rings)
       /\ redeem[r].read # NoRead /\ redeem[r].read.value # Silent
       /\ SawTheRoot(redeem[r].read, KeyOf(redeem[r]))

(* Whoever waits does so for a read that is open. *)
WaitersHaveARead ==
  \A r \in Redeems : redeem[r].phase = "waiting" =>
    redeem[r].at <= Len(Rings) /\ inFlight[KeyOf(redeem[r])] # NoRead

(* The proof's ring has stood still since the redeem began, and before.    *)
Standing(q) == q.still /\ roots[q.proof.home] = q.proof.revision

(* The walk has passed the ring the proof is from.                         *)
PastHome(q) ==
  /\ q.ring = q.proof.home[2]
  /\ \E i \in 1 .. Len(Rings) : i < q.at /\ Rings[i] = q.proof.home[1]

(* A ring that stands still was last rebuilt before any read that may now  *)
(* be told was opened; passing it then takes a read that failed, or one    *)
(* that was misread.                                                       *)
Witnessed(q) ==
  /\ q.proof.revision <= roots[q.proof.home]
  /\ Standing(q) => rebuilt[q.proof.home] + ReadTime < clock
  /\ Standing(q) /\ PastHome(q) => q.unavailable \/ q.misread

RedeemsAreWitnessed == \A r \in Redeems : redeem[r].phase \in Phases => Witnessed(redeem[r])

(* A read is answered or failed before its timer; nothing waits in a turn. *)
ReadsAreShort ==
  /\ \A k \in Keys : inFlight[k] # NoRead =>
       inFlight[k].opened <= clock /\ clock <= inFlight[k].opened + ReadTime
  /\ \A r \in Redeems : redeem[r].phase = "told" =>
       redeem[r].read.opened <= clock /\ clock <= redeem[r].read.opened + ReadTime

TokenIsRecent == token # NoToken => token.exp <= token.proved + ReadTime + TokenTtl

Inv ==
  /\ Types /\ ReadsAreTrue /\ WaitersHaveARead /\ RedeemsAreWitnessed
  /\ ReadsAreShort /\ TokenIsRecent /\ active = Cardinality(Reading)
-----------------------------------------------------------------------------
LEMMA CeilingIsNat == GateAssumption => Ceiling \in Nat
<1> SUFFICES ASSUME GateAssumption PROVE Ceiling \in Nat
  OBVIOUS
<1>1. MaxRedeems \in Nat /\ Len(Rings) \in Nat
  BY DEF GateAssumption
<1> QED BY <1>1 DEF Ceiling

LEMMA KeyType ==
  ASSUME GateAssumption, NEW q \in UnderWay, q.at <= Len(Rings)
  PROVE  KeyOf(q) \in Keys
<1>1. q.at \in DOMAIN Rings
  BY DEF UnderWay, GateAssumption
<1>2. Rings[q.at] \in Collections
  BY <1>1 DEF Collections
<1> QED BY <1>2 DEF KeyOf, Keys, UnderWay

LEMMA ReadingIsFinite ==
  ASSUME GateAssumption
  PROVE  IsFiniteSet(Reading) /\ Cardinality(Reading) \in Nat
<1>1. Reading \subseteq Keys /\ IsFiniteSet(Keys)
  BY DEF Reading, GateAssumption
<1> QED BY <1>1, FS_Subset, FS_CardinalityType

(* A read that is opened is counted once, one that settles no longer.      *)
LEMMA OpenedIsCounted ==
  ASSUME GateAssumption, inFlight \in [Keys -> Reads], NEW k \in Keys, NEW read, read # NoRead,
         inFlight[k] = NoRead, inFlight' = [inFlight EXCEPT ![k] = read],
         active = Cardinality(Reading), active' = active + 1
  PROVE  active' = Cardinality(Reading')
<1>1. Reading' = Reading \cup {k} /\ k \notin Reading
  BY DEF Reading
<1> QED BY <1>1, ReadingIsFinite, FS_AddElement

LEMMA SettledIsUncounted ==
  ASSUME GateAssumption, inFlight \in [Keys -> Reads], NEW k \in Keys, inFlight[k] # NoRead,
         Settled(k), active = Cardinality(Reading)
  PROVE  active' = Cardinality(Reading') /\ active' \in Nat /\ active' <= active
<1>1. Reading' = Reading \ {k} /\ k \in Reading
  BY DEF Reading, Settled
<1>2. Cardinality(Reading') = Cardinality(Reading) - 1 /\ Cardinality(Reading') \in Nat
  BY <1>1, ReadingIsFinite, FS_RemoveElement, FS_CardinalityType
<1>3. active' = active - 1 /\ active \in Nat
  BY ReadingIsFinite DEF Settled
<1> QED BY <1>2, <1>3

LEMMA SameReadsSameCount ==
  ASSUME inFlight' = inFlight, active' = active, active = Cardinality(Reading)
  PROVE  active' = Cardinality(Reading')
  BY DEF Reading

LEMMA OnwardType ==
  ASSUME GateAssumption, NEW q \in UnderWay, q.at <= Len(Rings),
         NEW unavailable \in BOOLEAN, NEW misread \in BOOLEAN
  PROVE  LET n == Onward(q, unavailable, misread) IN
         /\ n \in UnderWay /\ n.phase = "turn" /\ n.at = q.at + 1
         /\ n.ring = q.ring /\ n.proof = q.proof /\ n.still = q.still
         /\ n.misread = (q.misread \/ misread)
         /\ n.unavailable = (q.unavailable \/ unavailable)
<1>1. q.at + 1 \in 1 .. Len(Rings) + 1
  BY DEF UnderWay, GateAssumption
<1>2. NoRead \in Reads /\ "turn" \in Phases
  BY DEF Reads, Phases
<1> QED BY <1>1, <1>2 DEF Onward, UnderWay

LEMMA WaitingType ==
  ASSUME NEW q \in UnderWay
  PROVE  /\ Waiting(q) \in UnderWay /\ Waiting(q).phase = "waiting"
         /\ Waiting(q).at = q.at /\ KeyOf(Waiting(q)) = KeyOf(q)
         /\ Waiting(q).ring = q.ring /\ Waiting(q).proof = q.proof /\ Waiting(q).still = q.still
         /\ Waiting(q).misread = q.misread /\ Waiting(q).unavailable = q.unavailable
  BY DEF Waiting, UnderWay, Phases, KeyOf

(* Waiting and being told change nothing of what a redeem has seen.        *)
LEMMA WitnessKept ==
  ASSUME NEW q, NEW n, Witnessed(q), n.at = q.at, n.ring = q.ring, n.proof = q.proof,
         n.still = q.still, n.misread = q.misread, n.unavailable = q.unavailable
  PROVE  Witnessed(n)
  BY DEF Witnessed, Standing, PastHome

LEMMA UnderWayByPhase ==
  ASSUME Types, NEW r \in Redeems, redeem[r].phase \in Phases
  PROVE  redeem[r] \in UnderWay
  BY DEF Types, Ended, Phases
-----------------------------------------------------------------------------
(* A step of one redeem that leaves the chain, the reads and the clock be: *)
(* the other redeems are as they were.                                     *)
LEMMA OneRedeemMoves ==
  ASSUME GateAssumption, Inv, NEW r \in Redeems, NEW q \in UnderWay \cup Ended,
         redeem' = [redeem EXCEPT ![r] = q],
         UNCHANGED <<clock, roots, allowed, inFlight, active, token, rebuilt>>,
         q.phase # "told",
         q.phase = "waiting" => q.at <= Len(Rings) /\ inFlight[KeyOf(q)] # NoRead,
         q.phase \in Phases => Witnessed(q)
  PROVE  Inv'
<1> USE DEF Inv
<1>1. Types'
  BY DEF Types
<1>2. redeem' \in [Redeems -> UnderWay \cup Ended] /\ redeem'[r] = q
      /\ \A o \in Redeems \ {r} : redeem'[o] = redeem[o]
  BY DEF Types
<1>3. ReadsAreTrue'
  <2>1. \A k \in Keys : SawTheRoot(inFlight[k], k)'
    BY DEF ReadsAreTrue, SawTheRoot
  <2>2. ASSUME NEW o \in Redeems, redeem'[o].phase = "told"
        PROVE  /\ redeem'[o].at <= Len(Rings)
               /\ redeem'[o].read # NoRead /\ redeem'[o].read.value # Silent
               /\ SawTheRoot(redeem[o].read, KeyOf(redeem[o]))'
    <3>1. o # r /\ redeem'[o] = redeem[o]
      BY <1>2, <2>2
    <3> QED BY <2>2, <3>1 DEF ReadsAreTrue, SawTheRoot, KeyOf
  <2> QED BY <2>1, <2>2 DEF ReadsAreTrue
<1>4. WaitersHaveARead'
  BY <1>2 DEF WaitersHaveARead, KeyOf
<1>5. RedeemsAreWitnessed'
  BY <1>2 DEF RedeemsAreWitnessed, Witnessed, Standing, PastHome
<1>6. ReadsAreShort'
  BY <1>2 DEF ReadsAreShort
<1>7. TokenIsRecent' /\ active' = Cardinality(Reading')
  BY SameReadsSameCount DEF TokenIsRecent
<1> QED BY <1>1, <1>3, <1>4, <1>5, <1>6, <1>7

LEMMA TurnsKeepInv ==
  ASSUME GateAssumption, Inv, NEW r \in Redeems, Turn(r)
  PROVE  Inv'
<1> DEFINE q == redeem[r]
<1>1. q.phase \in {"turn", "told"} /\ q \in UnderWay
  <2>1. q.phase \in {"turn", "told"}
    BY DEF Turn, Join, Shed, Open, Mint, PassOver, Refuse
  <2> QED BY <2>1, UnderWayByPhase DEF Phases, Inv
<1>2. q.unavailable \in BOOLEAN /\ q.misread \in BOOLEAN /\ q.at \in Nat /\ Witnessed(q)
  BY <1>1 DEF UnderWay, Inv, RedeemsAreWitnessed, Phases, GateAssumption
<1>3. CASE Join(r)
  <2>1. q.at <= Len(Rings) /\ inFlight[KeyOf(q)] # NoRead /\ redeem' = [redeem EXCEPT ![r] = Waiting(q)]
        /\ UNCHANGED <<clock, roots, allowed, inFlight, active, token, rebuilt>>
    BY <1>3 DEF Join
  <2>2. Waiting(q) \in UnderWay /\ Waiting(q).phase = "waiting" /\ Waiting(q).at = q.at
        /\ KeyOf(Waiting(q)) = KeyOf(q) /\ Witnessed(Waiting(q))
    BY <1>1, <1>2, WaitingType, WitnessKept
  <2> HIDE DEF q
  <2> QED BY <1>2, <2>1, <2>2, OneRedeemMoves
<1>4. CASE Shed(r)
  <2> DEFINE n == Onward(q, TRUE, FALSE)
  <2>1. q.at <= Len(Rings) /\ redeem' = [redeem EXCEPT ![r] = n]
        /\ UNCHANGED <<clock, roots, allowed, inFlight, active, token, rebuilt>>
    BY <1>4 DEF Shed
  <2>2. n \in UnderWay /\ n.phase = "turn" /\ n.unavailable /\ n.proof = q.proof /\ n.still = q.still
    BY <1>1, <2>1, OnwardType
  <2> HIDE DEF n
  <2>3. Witnessed(n)
    BY <1>2, <2>2 DEF Witnessed, Standing
  <2> QED BY <2>1, <2>2, <2>3, OneRedeemMoves
<1>5. CASE Open(r)
  <2> DEFINE k == KeyOf(q)
             read == [opened |-> clock, value |-> Silent]
  <2>1. /\ q.at <= Len(Rings) /\ inFlight[k] = NoRead /\ active < Ceiling
        /\ inFlight' = [inFlight EXCEPT ![k] = read] /\ active' = active + 1
        /\ redeem' = [redeem EXCEPT ![r] = Waiting(q)]
        /\ UNCHANGED <<clock, roots, allowed, token, rebuilt>>
    BY <1>5 DEF Open
  <2>2. k \in Keys
    BY <1>1, <2>1, KeyType
  <2>3. clock \in 0 .. MaxTime /\ roots \in [Keys -> 0 .. MaxRevision] /\ MaxTime \in Nat /\ MaxRevision \in Nat
    BY DEF Inv, Types, GateAssumption
  <2>4. read \in Reads /\ read # NoRead
    BY <2>2, <2>3 DEF Reads, NoRead, NoString, Silent
  <2>5. /\ Waiting(q) \in UnderWay /\ Waiting(q).phase = "waiting" /\ Waiting(q).at = q.at
        /\ KeyOf(Waiting(q)) = k /\ Witnessed(Waiting(q))
    BY <1>1, <1>2, WaitingType, WitnessKept
  <2>6. /\ inFlight \in [Keys -> Reads] /\ inFlight' \in [Keys -> Reads] /\ inFlight'[k] = read
        /\ \A o \in Keys \ {k} : inFlight'[o] = inFlight[o]
    BY <2>1, <2>2, <2>4 DEF Inv, Types
  <2>7. /\ redeem' \in [Redeems -> UnderWay \cup Ended] /\ redeem'[r] = Waiting(q)
        /\ \A o \in Redeems \ {r} : redeem'[o] = redeem[o]
    BY <2>1, <2>5 DEF Inv, Types
  <2>8. active' = Cardinality(Reading')
    BY <2>1, <2>2, <2>4, <2>6, OpenedIsCounted DEF Inv
  <2>9. read.value = Silent /\ read.opened = clock
    OBVIOUS
  <2> HIDE DEF read, k, q
  <2>10. Types'
    <3>1. active \in 0 .. Ceiling /\ Ceiling \in Nat
      BY CeilingIsNat DEF Inv, Types
    <3>2. active' \in 0 .. Ceiling
      BY <2>1, <3>1
    <3> QED BY <2>1, <2>6, <2>7, <3>2 DEF Inv, Types
  <2>11. ReadsAreTrue'
    <3>1. \A o \in Keys : SawTheRoot(inFlight[o], o)'
      BY <2>1, <2>2, <2>3, <2>6, <2>9 DEF Inv, ReadsAreTrue, SawTheRoot, Silent
    <3>2. ASSUME NEW o \in Redeems, redeem'[o].phase = "told"
          PROVE  /\ redeem'[o].at <= Len(Rings)
                 /\ redeem'[o].read # NoRead /\ redeem'[o].read.value # Silent
                 /\ SawTheRoot(redeem[o].read, KeyOf(redeem[o]))'
      <4>1. redeem'[o] = redeem[o]
        BY <2>5, <2>7, <3>2
      <4> QED BY <2>1, <3>2, <4>1 DEF Inv, ReadsAreTrue, SawTheRoot, KeyOf
    <3> QED BY <3>1, <3>2 DEF ReadsAreTrue
  <2>12. WaitersHaveARead'
    <3> SUFFICES ASSUME NEW o \in Redeems, redeem'[o].phase = "waiting"
                 PROVE  redeem'[o].at <= Len(Rings) /\ inFlight'[KeyOf(redeem'[o])] # NoRead
      BY DEF WaitersHaveARead, KeyOf
    <3>1. CASE o = r
      BY <2>1, <2>4, <2>5, <2>6, <2>7, <3>1
    <3>2. CASE o # r
      <4>1. redeem'[o] = redeem[o]
        BY <2>7, <3>2
      <4>2. redeem[o] \in UnderWay
        BY <4>1, UnderWayByPhase DEF Inv, Phases
      <4>3. redeem[o].at <= Len(Rings) /\ inFlight[KeyOf(redeem[o])] # NoRead
        BY <4>1 DEF Inv, WaitersHaveARead
      <4>4. KeyOf(redeem[o]) \in Keys
        BY <4>2, <4>3, KeyType
      <4> QED BY <2>4, <2>6, <4>1, <4>3, <4>4
    <3> QED BY <3>1, <3>2
  <2>13. RedeemsAreWitnessed'
    BY <2>1, <2>5, <2>7 DEF Inv, RedeemsAreWitnessed, Witnessed, Standing, PastHome
  <2>14. ReadsAreShort'
    <3>1. ReadTime \in Nat
      BY DEF GateAssumption
    <3> QED BY <2>1, <2>3, <2>5, <2>6, <2>7, <2>9, <3>1 DEF Inv, ReadsAreShort
  <2>15. TokenIsRecent'
    BY <2>1 DEF Inv, TokenIsRecent
  <2> QED BY <2>8, <2>10, <2>11, <2>12, <2>13, <2>14, <2>15 DEF Inv
<1>6. CASE Mint(r)
  <2> DEFINE t == [sub |-> q.proof.home, aud |-> q.product, exp |-> clock + TokenTtl,
                   proved |-> q.read.opened]
  <2>1. /\ q.phase = "told" /\ token' = t /\ redeem' = [redeem EXCEPT ![r] = Idle]
        /\ UNCHANGED <<clock, roots, allowed, inFlight, active, rebuilt>>
    BY <1>6 DEF Mint
  <2>2. /\ q.read.opened <= clock /\ clock <= q.read.opened + ReadTime
        /\ q.read \in Reads /\ q.read # NoRead
    BY <1>1, <2>1 DEF Inv, ReadsAreShort, ReadsAreTrue, UnderWay
  <2>3. clock \in Nat /\ TokenTtl \in Nat /\ ReadTime \in Nat /\ q.read.opened \in Nat
    BY <2>2 DEF Inv, Types, GateAssumption, Reads
  <2>4. t \in Tokens /\ t.exp <= t.proved + ReadTime + TokenTtl
    <3>1. q.proof \in Proofs /\ q.product \in Products
      BY <1>1 DEF UnderWay
    <3>2. q.proof.home \in Populated
      BY <3>1 DEF Proofs
    <3>3. clock + TokenTtl \in Nat /\ clock + TokenTtl <= q.read.opened + ReadTime + TokenTtl
      BY <2>2, <2>3
    <3> QED BY <2>3, <3>1, <3>2, <3>3 DEF Tokens
  <2>5. /\ redeem' \in [Redeems -> UnderWay \cup Ended] /\ redeem'[r].phase = "idle"
        /\ \A o \in Redeems \ {r} : redeem'[o] = redeem[o]
    BY <2>1 DEF Inv, Types, Idle, Ended
  <2> HIDE DEF q, t
  <2>6. Types'
    BY <2>1, <2>4, <2>5 DEF Inv, Types
  <2>7. ReadsAreTrue'
    <3>1. \A o \in Keys : SawTheRoot(inFlight[o], o)'
      BY <2>1 DEF Inv, ReadsAreTrue, SawTheRoot
    <3>2. ASSUME NEW o \in Redeems, redeem'[o].phase = "told"
          PROVE  /\ redeem'[o].at <= Len(Rings)
                 /\ redeem'[o].read # NoRead /\ redeem'[o].read.value # Silent
                 /\ SawTheRoot(redeem[o].read, KeyOf(redeem[o]))'
      <4>1. redeem'[o] = redeem[o]
        BY <2>5, <3>2
      <4> QED BY <2>1, <3>2, <4>1 DEF Inv, ReadsAreTrue, SawTheRoot, KeyOf
    <3> QED BY <3>1, <3>2 DEF ReadsAreTrue
  <2>8. WaitersHaveARead'
    BY <2>1, <2>5 DEF Inv, WaitersHaveARead, KeyOf
  <2>9. RedeemsAreWitnessed'
    BY <2>1, <2>5 DEF Inv, RedeemsAreWitnessed, Phases, Witnessed, Standing, PastHome
  <2>10. ReadsAreShort'
    BY <2>1, <2>5 DEF Inv, ReadsAreShort
  <2>11. TokenIsRecent' /\ active' = Cardinality(Reading')
    BY <2>1, <2>4, SameReadsSameCount DEF Inv, TokenIsRecent
  <2> QED BY <2>6, <2>7, <2>8, <2>9, <2>10, <2>11 DEF Inv
<1>7. CASE PassOver(r)
  <2> DEFINE k == KeyOf(q)
             unavailable == q.read.value = Failed
             misread == k = q.proof.home /\ q.read.value = NoString
             n == Onward(q, unavailable, misread)
  <2>1. /\ q.phase = "told" /\ ~Opens(q) /\ redeem' = [redeem EXCEPT ![r] = n]
        /\ UNCHANGED <<clock, roots, allowed, inFlight, active, token, rebuilt>>
    BY <1>7 DEF PassOver
  <2>2. /\ q.at <= Len(Rings) /\ q.read \in Reads /\ q.read # NoRead /\ q.read.value # Silent
        /\ SawTheRoot(q.read, k) /\ clock <= q.read.opened + ReadTime
    BY <1>1, <2>1 DEF Inv, ReadsAreTrue, ReadsAreShort, UnderWay
  <2>3. /\ k \in Keys /\ q.read.opened \in Int /\ rebuilt[k] \in Int /\ clock \in Int /\ ReadTime \in Int
    BY <1>1, <2>2, KeyType DEF Inv, Types, Reads, NoRead, GateAssumption
  <2>4. ASSUME Standing(q), k = q.proof.home PROVE unavailable \/ misread
    <3> SUFFICES ASSUME q.read.value \notin {Silent, Failed, NoString} PROVE FALSE
      BY <2>2, <2>4
    <3>1. rebuilt[k] + ReadTime < clock
      BY <1>2, <2>4 DEF Witnessed
    <3>2. q.read.value = roots[k]
      BY <2>2, <2>3, <3>1 DEF SawTheRoot
    <3> QED BY <2>1, <2>4, <3>2 DEF Opens, Standing
  <2>5. /\ n \in UnderWay /\ n.phase = "turn" /\ n.at = q.at + 1 /\ n.ring = q.ring
        /\ n.proof = q.proof /\ n.still = q.still
        /\ n.unavailable = (q.unavailable \/ unavailable) /\ n.misread = (q.misread \/ misread)
    <3>1. unavailable \in BOOLEAN /\ misread \in BOOLEAN
      OBVIOUS
    <3> HIDE DEF unavailable, misread
    <3> QED BY <1>1, <2>2, <3>1, OnwardType
  <2>6. ASSUME PastHome(n), ~PastHome(q) PROVE k = q.proof.home
    <3>1. PICK i \in 1 .. Len(Rings) : i < q.at + 1 /\ Rings[i] = q.proof.home[1]
      BY <2>5, <2>6 DEF PastHome
    <3>2. i = q.at /\ q.ring = q.proof.home[2]
      BY <1>2, <2>5, <2>6, <3>1 DEF PastHome, GateAssumption
    <3>3. q.proof.home \in Collections \X Indices
      BY <1>1 DEF UnderWay, Proofs, GateAssumption, Keys
    <3>4. q.proof.home = <<q.proof.home[1], q.proof.home[2]>>
      BY <3>3
    <3> QED BY <3>1, <3>2, <3>4 DEF KeyOf
  <2> HIDE DEF n, k, q, unavailable, misread
  <2>7. Witnessed(n)
    <3>1. Standing(n) = Standing(q)
      BY <2>5 DEF Standing
    <3>2. ASSUME Standing(n), PastHome(n) PROVE n.unavailable \/ n.misread
      <4>1. CASE PastHome(q)
        BY <1>2, <2>5, <3>1, <3>2, <4>1 DEF Witnessed
      <4>2. CASE ~PastHome(q)
        BY <2>4, <2>5, <2>6, <3>1, <3>2, <4>2
      <4> QED BY <4>1, <4>2
    <3> QED BY <1>2, <2>5, <3>1, <3>2 DEF Witnessed
  <2> QED BY <2>1, <2>5, <2>7, OneRedeemMoves
<1>8. CASE Refuse(r)
  <2> DEFINE n == [phase |-> Verdict(q)]
  <2>1. redeem' = [redeem EXCEPT ![r] = n] /\ UNCHANGED <<clock, roots, allowed, inFlight, active, token, rebuilt>>
    BY <1>8 DEF Refuse
  <2>2. n \in Ended /\ n.phase \notin Phases
    BY DEF Verdict, Ended, Phases
  <2> HIDE DEF n
  <2> QED BY <2>1, <2>2, OneRedeemMoves DEF Phases
<1> QED BY <1>3, <1>4, <1>5, <1>6, <1>7, <1>8 DEF Turn
-----------------------------------------------------------------------------
(* The reads *)

(* A read settles, and everyone who shared it is told the same thing.      *)
LEMMA TellingKeepsInv ==
  ASSUME GateAssumption, Inv, NEW k \in Keys, NEW v,
         inFlight[k] # NoRead, Settled(k), redeem' = Told(k, v),
         v \in {Failed, NoString, inFlight[k].value}, v # Silent,
         UNCHANGED <<clock, roots, allowed, token, rebuilt>>
  PROVE  Inv'
<1> DEFINE read == [inFlight[k] EXCEPT !.value = v]
<1>1. /\ inFlight \in [Keys -> Reads] /\ inFlight[k] \in Reads /\ roots \in [Keys -> 0 .. MaxRevision]
      /\ MaxRevision \in Nat /\ redeem \in [Redeems -> UnderWay \cup Ended]
  BY DEF Inv, Types, GateAssumption
<1>2. /\ read \in Reads /\ read # NoRead /\ read.value = v
      /\ read.opened = inFlight[k].opened
  <2>1. inFlight[k] \in [opened : 0 .. MaxTime, value : NoString .. MaxRevision]
    BY <1>1 DEF Reads
  <2>2. v \in NoString .. MaxRevision
    BY <1>1, <2>1 DEF Failed, NoString
  <2>3. read \in [opened : 0 .. MaxTime, value : NoString .. MaxRevision]
    BY <2>1, <2>2
  <2>4. read # NoRead
    BY <2>3 DEF NoRead
  <2> QED BY <2>1, <2>3, <2>4 DEF Reads
<1>3. SawTheRoot(read, k)
  <2>1. SawTheRoot(inFlight[k], k)
    BY DEF Inv, ReadsAreTrue
  <2> HIDE DEF read
  <2> QED BY <1>2, <2>1 DEF SawTheRoot
<1>4. ASSUME NEW r \in Redeems, redeem[r].phase = "waiting", KeyOf(redeem[r]) = k
      PROVE  /\ redeem'[r] \in UnderWay
             /\ redeem'[r].phase = "told" /\ redeem'[r].read = read /\ redeem'[r].at = redeem[r].at
             /\ KeyOf(redeem'[r]) = k
             /\ redeem'[r].ring = redeem[r].ring /\ redeem'[r].proof = redeem[r].proof
             /\ redeem'[r].still = redeem[r].still /\ redeem'[r].misread = redeem[r].misread
             /\ redeem'[r].unavailable = redeem[r].unavailable
  <2>1. redeem[r] \in UnderWay
    BY <1>4, UnderWayByPhase DEF Inv, Phases
  <2>2. redeem'[r] = [redeem[r] EXCEPT !.phase = "told", !.read = read]
    BY <1>4 DEF Told
  <2> HIDE DEF read
  <2> QED BY <1>2, <1>4, <2>1, <2>2 DEF UnderWay, Phases, KeyOf
<1>5. ASSUME NEW r \in Redeems, ~(redeem[r].phase = "waiting" /\ KeyOf(redeem[r]) = k)
      PROVE  redeem'[r] = redeem[r]
  BY <1>5 DEF Told
<1>6. redeem' \in [Redeems -> UnderWay \cup Ended]
  <2>1. \A r \in Redeems : redeem'[r] \in UnderWay \cup Ended
    BY <1>1, <1>4, <1>5
  <2>2. redeem' = [r \in Redeems |-> redeem'[r]]
    BY DEF Told
  <2> QED BY <2>1, <2>2
<1>7. /\ active' = Cardinality(Reading') /\ active' \in Nat /\ active' <= active
  BY <1>1, SettledIsUncounted DEF Inv
<1>8. /\ inFlight' \in [Keys -> Reads] /\ inFlight'[k] = NoRead
      /\ \A o \in Keys \ {k} : inFlight'[o] = inFlight[o]
  BY <1>1 DEF Settled, Reads
<1> HIDE DEF read
<1>9. Types'
  <2>1. active \in 0 .. Ceiling /\ Ceiling \in Nat
    BY CeilingIsNat DEF Inv, Types
  <2>2. active' \in 0 .. Ceiling
    BY <1>7, <2>1
  <2> QED BY <1>6, <1>8, <2>2 DEF Inv, Types
<1>10. ReadsAreTrue'
  <2>1. \A o \in Keys : SawTheRoot(inFlight[o], o)'
    BY <1>8 DEF Inv, ReadsAreTrue, SawTheRoot
  <2>2. ASSUME NEW r \in Redeems, redeem'[r].phase = "told"
        PROVE  /\ redeem'[r].at <= Len(Rings)
               /\ redeem'[r].read # NoRead /\ redeem'[r].read.value # Silent
               /\ SawTheRoot(redeem[r].read, KeyOf(redeem[r]))'
    <3>1. CASE redeem[r].phase = "waiting" /\ KeyOf(redeem[r]) = k
      <4>1. redeem[r].at <= Len(Rings)
        BY <3>1 DEF Inv, WaitersHaveARead
      <4>2. redeem'[r].read = read /\ redeem'[r].at = redeem[r].at /\ KeyOf(redeem'[r]) = k
        BY <1>4, <3>1
      <4>3. SawTheRoot(redeem[r].read, KeyOf(redeem[r]))'
        BY <1>3, <4>2 DEF SawTheRoot, KeyOf
      <4> QED BY <1>2, <4>1, <4>2, <4>3
    <3>2. CASE ~(redeem[r].phase = "waiting" /\ KeyOf(redeem[r]) = k)
      <4>1. redeem'[r] = redeem[r]
        BY <1>5, <3>2
      <4> QED BY <2>2, <4>1 DEF Inv, ReadsAreTrue, SawTheRoot, KeyOf
    <3> QED BY <3>1, <3>2
  <2> QED BY <2>1, <2>2 DEF ReadsAreTrue
<1>11. WaitersHaveARead'
  <2> SUFFICES ASSUME NEW r \in Redeems, redeem'[r].phase = "waiting"
               PROVE  redeem'[r].at <= Len(Rings) /\ inFlight'[KeyOf(redeem'[r])] # NoRead
    BY DEF WaitersHaveARead, KeyOf
  <2>1. ~(redeem[r].phase = "waiting" /\ KeyOf(redeem[r]) = k)
    BY <1>4
  <2>2. redeem'[r] = redeem[r] /\ KeyOf(redeem[r]) # k
    BY <1>5, <2>1
  <2>3. redeem[r] \in UnderWay
    BY <2>2, UnderWayByPhase DEF Inv, Phases
  <2>4. redeem[r].at <= Len(Rings) /\ inFlight[KeyOf(redeem[r])] # NoRead
    BY <2>2 DEF Inv, WaitersHaveARead
  <2>5. KeyOf(redeem[r]) \in Keys
    BY <2>3, <2>4, KeyType
  <2> QED BY <1>8, <2>2, <2>4, <2>5
<1>12. RedeemsAreWitnessed'
  <2> SUFFICES ASSUME NEW r \in Redeems, redeem'[r].phase \in Phases
               PROVE  Witnessed(redeem[r])'
    BY DEF RedeemsAreWitnessed
  <2>1. CASE redeem[r].phase = "waiting" /\ KeyOf(redeem[r]) = k
    <3>1. Witnessed(redeem[r])
      BY <2>1 DEF Inv, RedeemsAreWitnessed, Phases
    <3>2. /\ redeem'[r].ring = redeem[r].ring /\ redeem'[r].proof = redeem[r].proof
          /\ redeem'[r].at = redeem[r].at /\ redeem'[r].still = redeem[r].still
          /\ redeem'[r].misread = redeem[r].misread /\ redeem'[r].unavailable = redeem[r].unavailable
      BY <1>4, <2>1
    <3>3. Standing(redeem[r])' = Standing(redeem[r])
      BY <3>2 DEF Standing
    <3>4. PastHome(redeem[r])' = PastHome(redeem[r])
      BY <3>2 DEF PastHome
    <3> QED BY <3>1, <3>2, <3>3, <3>4 DEF Witnessed
  <2>2. CASE ~(redeem[r].phase = "waiting" /\ KeyOf(redeem[r]) = k)
    BY <1>5, <2>2 DEF Inv, RedeemsAreWitnessed, Witnessed, Standing, PastHome
  <2> QED BY <2>1, <2>2
<1>13. ReadsAreShort'
  <2>1. \A o \in Keys : inFlight'[o] # NoRead =>
          inFlight'[o].opened <= clock' /\ clock' <= inFlight'[o].opened + ReadTime
    BY <1>8 DEF Inv, ReadsAreShort
  <2>2. ASSUME NEW r \in Redeems, redeem'[r].phase = "told"
        PROVE  redeem'[r].read.opened <= clock' /\ clock' <= redeem'[r].read.opened + ReadTime
    <3>1. CASE redeem[r].phase = "waiting" /\ KeyOf(redeem[r]) = k
      <4>1. redeem'[r].read.opened = inFlight[k].opened
        BY <1>2, <1>4, <3>1
      <4> QED BY <4>1 DEF Inv, ReadsAreShort
    <3>2. CASE ~(redeem[r].phase = "waiting" /\ KeyOf(redeem[r]) = k)
      BY <1>5, <2>2, <3>2 DEF Inv, ReadsAreShort
    <3> QED BY <3>1, <3>2
  <2> QED BY <2>1, <2>2 DEF ReadsAreShort
<1>14. TokenIsRecent'
  BY DEF Inv, TokenIsRecent
<1> QED BY <1>7, <1>9, <1>10, <1>11, <1>12, <1>13, <1>14 DEF Inv

LEMMA AnswerKeepsInv ==
  ASSUME GateAssumption, Inv, NEW k \in Keys, Answer(k)
  PROVE  Inv'
<1> DEFINE read == [inFlight[k] EXCEPT !.value = roots[k]]
<1>1. /\ inFlight \in [Keys -> Reads] /\ inFlight[k] \in Reads /\ roots[k] \in 0 .. MaxRevision
      /\ MaxRevision \in Nat
  BY DEF Inv, Types, GateAssumption
<1>2. /\ Quiet /\ inFlight[k] # NoRead /\ inFlight' = [inFlight EXCEPT ![k] = read]
      /\ UNCHANGED <<clock, roots, allowed, active, redeem, token, rebuilt>>
  BY <1>1 DEF Answer
<1>3. /\ read \in Reads /\ read # NoRead /\ read.value = roots[k]
      /\ read.opened = inFlight[k].opened
  <2> DEFINE Made == [opened : 0 .. MaxTime, value : NoString .. MaxRevision]
  <2>1. inFlight[k] \in Made
    BY <1>1, <1>2 DEF Reads
  <2>2. roots[k] \in NoString .. MaxRevision
    BY <1>1 DEF NoString
  <2>3. /\ read \in Made /\ read.value = roots[k]
        /\ read.opened = inFlight[k].opened
    BY <2>1, <2>2
  <2>4. read.opened # -1
    BY <2>1, <2>3
  <2>5. read # NoRead
    BY <2>4 DEF NoRead
  <2> QED BY <2>3, <2>5 DEF Reads
<1>4. SawTheRoot(read, k)
  <2>1. SawTheRoot(inFlight[k], k)
    BY DEF Inv, ReadsAreTrue
  <2> HIDE DEF read
  <2> QED BY <1>1, <1>2, <1>3, <2>1 DEF SawTheRoot
<1> HIDE DEF read
<1>5. /\ inFlight' \in [Keys -> Reads] /\ inFlight'[k] = read
      /\ \A o \in Keys \ {k} : inFlight'[o] = inFlight[o]
  BY <1>1, <1>2, <1>3
<1>6. Types' /\ TokenIsRecent'
  BY <1>2, <1>5 DEF Inv, Types, TokenIsRecent
<1>7. ReadsAreTrue'
  <2>1. \A o \in Keys : SawTheRoot(inFlight[o], o)'
    BY <1>2, <1>4, <1>5 DEF Inv, ReadsAreTrue, SawTheRoot
  <2>2. \A r \in Redeems : redeem'[r].phase # "told"
    BY <1>2 DEF Quiet, InTurn
  <2> QED BY <2>1, <2>2 DEF ReadsAreTrue
<1>8. WaitersHaveARead'
  <2> SUFFICES ASSUME NEW r \in Redeems, redeem[r].phase = "waiting"
               PROVE  redeem[r].at <= Len(Rings) /\ inFlight'[KeyOf(redeem[r])] # NoRead
    BY <1>2 DEF WaitersHaveARead, KeyOf
  <2>1. redeem[r].at <= Len(Rings) /\ inFlight[KeyOf(redeem[r])] # NoRead
    BY DEF Inv, WaitersHaveARead
  <2>2. KeyOf(redeem[r]) \in Keys
    BY <2>1, UnderWayByPhase, KeyType DEF Inv, Phases
  <2> QED BY <1>3, <1>5, <2>1, <2>2
<1>9. RedeemsAreWitnessed'
  BY <1>2 DEF Inv, RedeemsAreWitnessed, Witnessed, Standing, PastHome
<1>10. ReadsAreShort'
  BY <1>2, <1>3, <1>5 DEF Inv, ReadsAreShort
<1>11. active' = Cardinality(Reading')
  <2>1. Reading' = Reading
    BY <1>2, <1>3, <1>5 DEF Reading
  <2> QED BY <1>2, <2>1 DEF Inv
<1> QED BY <1>6, <1>7, <1>8, <1>9, <1>10, <1>11 DEF Inv

LEMMA ReadsKeepInv ==
  ASSUME GateAssumption, Inv, NEW k \in Keys, Answer(k) \/ Arrive(k) \/ Fail(k) \/ Misread(k)
  PROVE  Inv'
<1>1. CASE Arrive(k)
  <2>1. /\ inFlight[k] # NoRead /\ Settled(k) /\ redeem' = Told(k, inFlight[k].value)
        /\ inFlight[k].value # Silent /\ UNCHANGED <<clock, roots, allowed, token, rebuilt>>
    BY <1>1 DEF Arrive
  <2> QED BY <2>1, TellingKeepsInv
<1>2. CASE Fail(k)
  <2>1. /\ inFlight[k] # NoRead /\ Settled(k) /\ redeem' = Told(k, Failed)
        /\ UNCHANGED <<clock, roots, allowed, token, rebuilt>>
    BY <1>2 DEF Fail
  <2>2. Failed # Silent
    BY DEF Failed, Silent
  <2> QED BY <2>1, <2>2, TellingKeepsInv
<1>3. CASE Misread(k)
  <2>1. /\ inFlight[k] # NoRead /\ Settled(k) /\ redeem' = Told(k, NoString)
        /\ UNCHANGED <<clock, roots, allowed, token, rebuilt>>
    BY <1>3 DEF Misread
  <2>2. NoString # Silent
    BY DEF NoString, Silent
  <2> QED BY <2>1, <2>2, TellingKeepsInv
<1> QED BY <1>1, <1>2, <1>3, AnswerKeepsInv
-----------------------------------------------------------------------------
(* The world *)

LEMMA RedeemKeepsInv ==
  ASSUME GateAssumption, Inv, NEW r \in Redeems, NEW issued, NEW product \in Products,
         NEW ring \in Indices, NEW proof \in Proofs, Redeem(r, issued, product, ring, proof)
  PROVE  Inv'
<1> DEFINE n == [phase |-> "turn", at |-> 1, product |-> product, ring |-> ring,
                 proof |-> proof, read |-> NoRead, unavailable |-> FALSE,
                 still |-> rebuilt[proof.home] + ReadTime < clock, misread |-> FALSE]
<1>1. /\ proof.revision <= roots[proof.home] /\ redeem' = [redeem EXCEPT ![r] = n]
      /\ UNCHANGED <<clock, roots, allowed, inFlight, active, token, rebuilt>>
  BY DEF Redeem
<1>2. 1 \in 1 .. Len(Rings) + 1 /\ NoRead \in Reads
  BY DEF GateAssumption, Reads
<1>3. n \in UnderWay /\ n.phase = "turn"
  BY <1>2 DEF UnderWay, Phases
<1>4. /\ n.proof = proof /\ n.at = 1
      /\ n.still = (rebuilt[proof.home] + ReadTime < clock)
  OBVIOUS
<1> HIDE DEF n
<1>5. Witnessed(n)
  <2>1. ~PastHome(n)
    <3>1. \A i \in 1 .. Len(Rings) : ~(i < n.at)
      BY <1>4 DEF GateAssumption
    <3> QED BY <3>1 DEF PastHome
  <2>2. Standing(n) => rebuilt[n.proof.home] + ReadTime < clock
    BY <1>4 DEF Standing
  <2> QED BY <1>1, <1>4, <2>1, <2>2 DEF Witnessed
<1> QED BY <1>1, <1>3, <1>5, OneRedeemMoves

LEMMA RebuildKeepsInv ==
  ASSUME GateAssumption, Inv, NEW k \in Keys, Rebuild(k)
  PROVE  Inv'
<1>1. /\ Quiet /\ roots' = [roots EXCEPT ![k] = roots[k] + 1] /\ roots[k] < MaxRevision
      /\ rebuilt' = [rebuilt EXCEPT ![k] = clock]
      /\ UNCHANGED <<clock, allowed, inFlight, active, redeem, token>>
  BY DEF Rebuild
<1>2. /\ roots \in [Keys -> 0 .. MaxRevision] /\ MaxRevision \in Nat /\ inFlight \in [Keys -> Reads]
      /\ rebuilt \in [Keys -> Int] /\ clock \in Nat
  BY DEF Inv, Types, GateAssumption
<1>3. /\ roots' \in [Keys -> 0 .. MaxRevision]
      /\ \A o \in Keys : roots[o] \in Nat /\ roots'[o] = IF o = k THEN roots[o] + 1 ELSE roots[o]
      /\ rebuilt' \in [Keys -> Int]
      /\ \A o \in Keys : rebuilt'[o] = IF o = k THEN clock ELSE rebuilt[o]
  BY <1>1, <1>2
<1>4. Types' /\ WaitersHaveARead' /\ ReadsAreShort' /\ TokenIsRecent'
  <2>1. LongAgo <= clock
    BY <1>2 DEF LongAgo, GateAssumption
  <2>2. \A o \in Keys : LongAgo <= rebuilt'[o] /\ rebuilt'[o] <= clock
    <3> SUFFICES ASSUME NEW o \in Keys PROVE LongAgo <= rebuilt'[o] /\ rebuilt'[o] <= clock
      OBVIOUS
    <3>1. LongAgo <= rebuilt[o] /\ rebuilt[o] <= clock
      BY DEF Inv, Types
    <3>2. rebuilt'[o] \in {clock, rebuilt[o]}
      BY <1>3
    <3>3. clock <= clock
      BY <1>2
    <3> QED BY <2>1, <3>1, <3>2, <3>3
  <2>3. LongAgo' = LongAgo
    BY DEF LongAgo
  <2>4. Types'
    BY <1>1, <1>3, <2>2, <2>3 DEF Inv, Types
  <2> QED BY <1>1, <2>4 DEF Inv, WaitersHaveARead, KeyOf, ReadsAreShort, TokenIsRecent
<1>5. ReadsAreTrue'
  <2>1. ASSUME NEW o \in Keys PROVE SawTheRoot(inFlight[o], o)'
    <3> SUFFICES ASSUME inFlight[o] # NoRead, inFlight[o].value \notin {Silent, Failed, NoString}
                 PROVE  /\ inFlight[o].value <= roots'[o]
                        /\ inFlight[o].value # roots'[o] => inFlight[o].opened <= rebuilt'[o]
      BY <1>1 DEF SawTheRoot
    <3>1. inFlight[o].opened \in Int /\ inFlight[o].value \in Int
      BY <1>2 DEF Reads, NoRead, NoString, GateAssumption
    <3>2. SawTheRoot(inFlight[o], o) /\ inFlight[o].opened <= clock
      BY DEF Inv, ReadsAreTrue, ReadsAreShort
    <3> QED BY <1>2, <1>3, <3>1, <3>2 DEF SawTheRoot
  <2>2. \A r \in Redeems : redeem'[r].phase # "told"
    BY <1>1 DEF Quiet, InTurn
  <2> QED BY <2>1, <2>2 DEF ReadsAreTrue
<1>6. RedeemsAreWitnessed'
  <2> SUFFICES ASSUME NEW r \in Redeems, redeem[r].phase \in Phases
               PROVE  Witnessed(redeem[r])'
    BY <1>1 DEF RedeemsAreWitnessed
  <2> DEFINE home == redeem[r].proof.home
  <2>1. Witnessed(redeem[r])
    BY DEF Inv, RedeemsAreWitnessed
  <2>2. home \in Keys /\ redeem[r].proof.revision \in Int
    BY UnderWayByPhase DEF Inv, UnderWay, Proofs, GateAssumption
  <2>3. CASE home = k
    <3>1. redeem[r].proof.revision < roots'[home]
      BY <1>3, <2>1, <2>2, <2>3 DEF Witnessed
    <3>2. ~Standing(redeem[r])' /\ redeem[r].proof.revision <= roots'[home]
      BY <1>1, <1>3, <2>2, <3>1 DEF Standing
    <3> QED BY <1>1, <3>2 DEF Witnessed
  <2>4. CASE home # k
    <3>1. roots'[home] = roots[home] /\ rebuilt'[home] = rebuilt[home]
      BY <1>3, <2>2, <2>4
    <3> QED BY <1>1, <2>1, <3>1 DEF Witnessed, Standing, PastHome
  <2> QED BY <2>3, <2>4
<1>7. active' = Cardinality(Reading')
  BY <1>1, SameReadsSameCount DEF Inv
<1> QED BY <1>4, <1>5, <1>6, <1>7 DEF Inv

LEMMA RestartKeepsInv ==
  ASSUME GateAssumption, Inv, NEW products \in SUBSET Products, Restart(products)
  PROVE  Inv'
<1>1. /\ allowed' = products /\ inFlight' = [k \in Keys |-> NoRead] /\ active' = 0
      /\ redeem' = [r \in Redeems |-> Idle] /\ UNCHANGED <<clock, roots, token, rebuilt>>
  BY DEF Restart
<1>2. Idle.phase = "idle" /\ Idle \in Ended
  BY DEF Idle, Ended
<1>3. 0 \in 0 .. Ceiling
  BY CeilingIsNat
<1>4. Types'
  BY <1>1, <1>2, <1>3 DEF Inv, Types, Reads
<1>5. ReadsAreTrue' /\ WaitersHaveARead' /\ RedeemsAreWitnessed' /\ ReadsAreShort' /\ TokenIsRecent'
  BY <1>1, <1>2 DEF Inv, ReadsAreTrue, SawTheRoot, WaitersHaveARead, RedeemsAreWitnessed, Phases,
                    ReadsAreShort, TokenIsRecent
<1>6. active' = Cardinality(Reading')
  <2>1. Reading' = {}
    BY <1>1 DEF Reading
  <2> QED BY <1>1, <2>1, FS_EmptySet
<1> QED BY <1>4, <1>5, <1>6 DEF Inv

LEMMA TickKeepsInv ==
  ASSUME GateAssumption, Inv, Tick
  PROVE  Inv'
<1>1. /\ Quiet /\ clock < MaxTime /\ clock' = clock + 1
      /\ \A k \in Keys : inFlight[k] # NoRead => clock < inFlight[k].opened + ReadTime
      /\ UNCHANGED <<roots, allowed, inFlight, active, redeem, token, rebuilt>>
  BY DEF Tick
<1>2. clock \in 0 .. MaxTime /\ MaxTime \in Nat /\ ReadTime \in Nat /\ inFlight \in [Keys -> Reads]
  BY DEF Inv, Types, GateAssumption
<1>3. \A r \in Redeems : redeem[r].phase # "told"
  BY <1>1 DEF Quiet, InTurn
<1>4. Types'
  <2>1. \A k \in Keys : rebuilt[k] \in Int /\ LongAgo <= rebuilt[k] /\ rebuilt[k] <= clock + 1
    BY <1>2 DEF Inv, Types
  <2> QED BY <1>1, <1>2, <2>1 DEF Inv, Types, LongAgo
<1>5. WaitersHaveARead' /\ TokenIsRecent' /\ ReadsAreTrue'
  BY <1>1 DEF Inv, WaitersHaveARead, KeyOf, TokenIsRecent, ReadsAreTrue, SawTheRoot
<1>6. RedeemsAreWitnessed'
  <2> SUFFICES ASSUME NEW r \in Redeems, redeem[r].phase \in Phases
               PROVE  Witnessed(redeem[r])'
    BY <1>1 DEF RedeemsAreWitnessed
  <2>1. Witnessed(redeem[r])
    BY DEF Inv, RedeemsAreWitnessed
  <2>2. rebuilt[redeem[r].proof.home] \in Int
    BY UnderWayByPhase DEF Inv, Types, UnderWay, Proofs, GateAssumption
  <2> QED BY <1>1, <1>2, <2>1, <2>2 DEF Witnessed, Standing, PastHome
<1>7. ReadsAreShort'
  <2>1. ASSUME NEW k \in Keys, inFlight[k] # NoRead
        PROVE  inFlight[k].opened <= clock + 1 /\ clock + 1 <= inFlight[k].opened + ReadTime
    <3>1. inFlight[k].opened \in Int
      BY <1>2, <2>1 DEF Reads, NoRead
    <3>2. inFlight[k].opened <= clock /\ clock < inFlight[k].opened + ReadTime
      BY <1>1, <2>1 DEF Inv, ReadsAreShort
    <3> QED BY <1>2, <3>1, <3>2
  <2> QED BY <1>1, <1>3, <2>1 DEF ReadsAreShort
<1>8. active' = Cardinality(Reading')
  BY <1>1, SameReadsSameCount DEF Inv
<1> QED BY <1>4, <1>5, <1>6, <1>7, <1>8 DEF Inv
-----------------------------------------------------------------------------
LEMMA InitInv ==
  ASSUME GateAssumption, Init
  PROVE  Inv
<1>1. Idle.phase = "idle" /\ Idle \in Ended
  BY DEF Idle, Ended
<1>2. 0 \in 0 .. Ceiling /\ MaxTime \in Nat
  BY CeilingIsNat DEF GateAssumption
<1>3. /\ clock = 0 /\ allowed = Products /\ inFlight = [k \in Keys |-> NoRead] /\ active = 0
      /\ redeem = [r \in Redeems |-> Idle] /\ token = NoToken
      /\ roots \in [Keys -> {0, 1}] /\ rebuilt = [k \in Keys |-> LongAgo]
  BY DEF Init
<1>4. Types
  <2>1. {0, 1} \subseteq 0 .. MaxRevision
    BY DEF GateAssumption
  <2>2. LongAgo \in Int /\ LongAgo <= 0
    BY DEF LongAgo, GateAssumption
  <2> QED BY <1>1, <1>2, <1>3, <2>1, <2>2 DEF Types, Reads
<1>5. ReadsAreTrue /\ WaitersHaveARead /\ RedeemsAreWitnessed /\ ReadsAreShort /\ TokenIsRecent
  BY <1>1, <1>3 DEF ReadsAreTrue, SawTheRoot, WaitersHaveARead, RedeemsAreWitnessed, Phases,
                    ReadsAreShort, TokenIsRecent
<1>6. active = Cardinality(Reading)
  <2>1. Reading = {}
    BY <1>3 DEF Reading
  <2> QED BY <1>3, <2>1, FS_EmptySet
<1> QED BY <1>4, <1>5, <1>6 DEF Inv

LEMMA NextKeepsInv ==
  ASSUME GateAssumption, Inv, [Next]_vars
  PROVE  Inv'
<1>1. CASE UNCHANGED vars
  BY <1>1, SameReadsSameCount
     DEF vars, Inv, Types, ReadsAreTrue, SawTheRoot, WaitersHaveARead, KeyOf, RedeemsAreWitnessed,
         Witnessed, Standing, PastHome, ReadsAreShort, TokenIsRecent, LongAgo
<1>2. CASE Next
  <2>1. Populated \subseteq Keys
    BY DEF GateAssumption
  <2> QED BY <1>2, <2>1, TurnsKeepInv, RedeemKeepsInv, ReadsKeepInv, RebuildKeepsInv,
             RestartKeepsInv, TickKeepsInv DEF Next
<1> QED BY <1>1, <1>2

(* The invariant of the gate: reads are counted and true to a root of      *)
(* their lifetime, waiters have one, and tokens are recent.                *)
THEOREM GateInvariant == Spec => []Inv
  BY InitInv, NextKeepsInv, GateAssumption, PTL DEF Spec

(* The ceiling is held against the reads that are open, for any number of  *)
(* redeems, collections and rings, and nobody waits for one that is not.   *)
THEOREM ReadsStayCounted == Spec => []GateInv
<1>1. Inv => TypeOK
  <2> SUFFICES ASSUME Inv PROVE TypeOK
    OBVIOUS
  <2>1. \A r \in Redeems : redeem[r] \in UnderWay \cup Ended
    BY DEF Inv, Types
  <2>2. token # NoToken => token.sub \in Populated /\ token.aud \in Products
    BY DEF Inv, Types, Tokens
  <2>3. \A k \in Keys : rebuilt[k] \in LongAgo .. clock
    BY GateAssumption DEF Inv, Types, LongAgo, GateAssumption
  <2> QED BY <2>1, <2>2, <2>3 DEF Inv, Types, TypeOK, UnderWay, Ended, Phases
<1>2. Inv => ReadsAreCounted
  <2> SUFFICES ASSUME Inv, NEW r \in Redeems, redeem[r].phase = "waiting"
               PROVE  KeyOf(redeem[r]) \in Reading
    BY DEF Inv, ReadsAreCounted
  <2>1. redeem[r].at <= Len(Rings) /\ inFlight[KeyOf(redeem[r])] # NoRead
    BY DEF Inv, WaitersHaveARead
  <2>2. KeyOf(redeem[r]) \in Keys
    BY <2>1, UnderWayByPhase, KeyType, GateAssumption DEF Inv, Phases
  <2> QED BY <2>1, <2>2 DEF Reading
<1>3. Inv => GateInv
  BY <1>1, <1>2 DEF GateInv
<1> QED BY <1>3, GateInvariant, PTL

(* Nobody whose own ring stood still, from one read's length before they   *)
(* asked, is refused as no person, whichever collections are walked and    *)
(* whoever shares their reads, unless the endpoint's answer for that ring  *)
(* was no string.                                                          *)
THEOREM MembersAreNotRefused == Spec => MemberIsNotRefused
<1>1. Inv /\ [Next]_vars =>
        [\A r \in Redeems : redeem[r].phase = "turn" /\ StoodStill(redeem[r])
            => redeem[r]'.phase # "unauthorized"]_vars
  <2> SUFFICES ASSUME Inv, Next, NEW r \in Redeems, redeem[r].phase = "turn", StoodStill(redeem[r])
               PROVE  redeem'[r].phase # "unauthorized"
    OBVIOUS
  <2>1. redeem[r] \in UnderWay /\ Witnessed(redeem[r]) /\ ~Quiet
    BY UnderWayByPhase DEF Inv, RedeemsAreWitnessed, Phases, Quiet, InTurn
  <2>2. PICK o \in Redeems : Turn(o)
    BY <2>1 DEF Next, Redeem, Answer, Arrive, Fail, Misread, Rebuild, Restart, Tick
  <2>3. redeem \in [Redeems -> UnderWay \cup Ended]
    BY DEF Inv, Types
  <2>4. CASE o # r
    <3>1. redeem'[r] = redeem[r]
      BY <2>2, <2>3, <2>4 DEF Turn, Join, Shed, Open, Mint, PassOver, Refuse
    <3> QED BY <3>1
  <2>5. CASE o = r
    <3>1. CASE Join(r) \/ Open(r)
      BY <2>1, <2>3, <3>1 DEF Join, Open, Waiting, UnderWay
    <3>2. CASE Shed(r)
      BY <2>1, <2>3, <3>2 DEF Shed, Onward, UnderWay
    <3>3. CASE Mint(r) \/ PassOver(r)
      BY <3>3 DEF Mint, PassOver
    <3>4. CASE Refuse(r)
      <4>1. redeem[r].at > Len(Rings) /\ redeem'[r] = [phase |-> Verdict(redeem[r])]
        BY <2>3, <3>4 DEF Refuse
      <4>2. redeem[r].proof.home[1] \in Collections
        BY <2>1, GateAssumption DEF UnderWay, Proofs, GateAssumption, Keys
      <4>3. PICK i \in 1 .. Len(Rings) : Rings[i] = redeem[r].proof.home[1]
        <5>1. DOMAIN Rings = 1 .. Len(Rings)
          BY GateAssumption DEF GateAssumption
        <5> QED BY <4>2, <5>1 DEF Collections
      <4>4. PastHome(redeem[r])
        <5>1. redeem[r].at \in Int /\ Len(Rings) \in Nat
          BY <2>1, GateAssumption DEF UnderWay, GateAssumption
        <5>2. i < redeem[r].at
          BY <4>1, <5>1
        <5> QED BY <4>3, <5>2 DEF PastHome, StoodStill
      <4>5. redeem[r].unavailable
        BY <2>1, <4>4 DEF Witnessed, Standing, StoodStill
      <4> QED BY <4>1, <4>5 DEF Verdict
    <3> QED BY <2>2, <2>5, <3>1, <3>2, <3>3, <3>4 DEF Turn
  <2> QED BY <2>4, <2>5
<1> QED BY <1>1, GateInvariant, PTL DEF Spec, MemberIsNotRefused

(* An accepted token stands on a chain read at most one read and one       *)
(* token's life old, for any lifetimes.                                    *)
THEOREM AcceptedTokensAreRecent == Spec => []AcceptedIsRecent
<1>1. Inv => AcceptedIsRecent
  <2> SUFFICES ASSUME Inv, token # NoToken, clock < token.exp
               PROVE  clock < token.proved + ReadTime + TokenTtl
    BY DEF AcceptedIsRecent, Accepted
  <2>1. token.exp <= token.proved + ReadTime + TokenTtl /\ token.exp \in Nat /\ token.proved \in Nat
    BY DEF Inv, Types, TokenIsRecent, Tokens
  <2>2. clock \in Int /\ ReadTime \in Nat /\ TokenTtl \in Nat
    BY GateAssumption DEF Inv, Types, GateAssumption
  <2> QED BY <2>1, <2>2
<1> QED BY <1>1, GateInvariant, PTL
=============================================================================
