------------------------- MODULE Corridors_proofs -------------------------
(***************************************************************************)
(* What a buyer is told of the corridors, for any countries, providers,    *)
(* limits, lives and windows: it is Meld's word and a recent one, the      *)
(* charge gate keeps the operator's bound and refuses nobody over it, and  *)
(* the list of countries is neither stale nor needlessly empty.            *)
(***************************************************************************)
EXTENDS Corridors, FiniteSetTheorems, WellFoundedInduction, TLAPS

(* The age of each answer, by what it has been through.                    *)
CallInv(x) ==
  /\ call[x].pc \in {"idle", "asking", "answered", "known"}
  /\ ~IsPc(x, "idle") =>
       /\ call[x].country \in Countries
       /\ call[x].sent \in 0 .. now /\ now - call[x].sent <= CallTime
  /\ IsPc(x, "answered") =>
       call[x].listed \subseteq Serves[call[x].country] /\ call[x].saw \in call[x].sent .. now
  /\ IsPc(x, "known") =>
       /\ call[x].listed \subseteq Serves[call[x].country]
       /\ call[x].outage \in BOOLEAN /\ (call[x].outage => call[x].listed = {})
       /\ call[x].saw \in 0 .. now /\ call[x].saw >= call[x].sent - TTL - CallTime

CacheInv(c) ==
  cache[c] # None =>
    /\ cache[c].listed \subseteq Serves[c] /\ cache[c].listed = cache[c].said
    /\ cache[c].at \in 0 .. now /\ cache[c].saw \in 0 .. cache[c].at
    /\ cache[c].saw >= cache[c].at - CallTime

TableInv(c) ==
  table[c] # None =>
    /\ table[c].at \in 0 .. now /\ table[c].saw \in 0 .. table[c].at
    /\ table[c].saw >= table[c].at - TTL - 2 * CallTime

Shapes ==
  /\ now \in 0 .. MaxTime
  /\ call = [x \in Callers |-> call[x]]
  /\ cache = [c \in Countries |-> cache[c]]
  /\ table = [c \in Countries |-> table[c]]
  /\ reader.pc \in {"idle", "fallback", "served"}
  /\ retired \subseteq Countries

IInv ==
  /\ Shapes
  /\ \A x \in Callers : CallInv(x)
  /\ \A c \in Countries : CacheInv(c) /\ TableInv(c)

LEMMA Times ==
  /\ TTL \in Nat /\ CallTime \in Nat /\ Window \in Nat /\ Grace \in Nat /\ MaxTime \in Nat
  /\ Refresh \in Callers /\ Refresh \notin Buyers
  BY CorridorsConstants DEF Callers

LEMMA InitInv == Init => IInv
<1> SUFFICES ASSUME Init PROVE IInv
  OBVIOUS
<1>1. Shapes
  BY Times DEF Init, Shapes, Idle
<1>2. \A x \in Callers : CallInv(x)
  BY DEF Init, CallInv, IsPc, Idle
<1>3. \A c \in Countries : CacheInv(c) /\ TableInv(c)
  BY DEF Init, CacheInv, TableInv
<1> QED BY <1>1, <1>2, <1>3 DEF IInv

LEMMA NextReaderType ==
  ASSUME Shapes PROVE NextReader.pc \in {"idle", "fallback", "served"}
  BY DEF Shapes, NextReader, Idle

(* A call's step replaces the caller's record. *)
LEMMA Went ==
  ASSUME Shapes, NEW x \in Callers, NEW new, Goes(x, new)
  PROVE  /\ now' = now /\ reader'.pc \in {"idle", "fallback", "served"}
         /\ call' = [y \in Callers |-> call'[y]]
         /\ call'[x] = new /\ \A y \in Callers \ {x} : call'[y] = call[y]
<1>1. reader'.pc \in {"idle", "fallback", "served"}
  BY NextReaderType DEF Goes
<1> QED BY <1>1 DEF Goes, Shapes

LEMMA OthersCalls ==
  ASSUME NEW x \in Callers, CallInv(x), now' = now, call'[x] = call[x]
  PROVE  CallInv(x)'
  BY DEF CallInv, IsPc

LEMMA TickInv ==
  ASSUME IInv, Tick
  PROVE  IInv'
<1>1. now \in Nat /\ now' = now + 1 /\ now' \in 0 .. MaxTime
      /\ UNCHANGED <<cache, table, call, retired>> /\ reader' = NextReader
  BY Times DEF IInv, Shapes, Tick
<1>2. Shapes'
  BY <1>1, NextReaderType DEF IInv, Shapes
<1>3. ASSUME NEW x \in Callers PROVE CallInv(x)'
  <2>1. CallInv(x)
    BY DEF IInv
  <2>2. call[x].pc # "idle" => now - call[x].sent < CallTime
    BY DEF Tick
  <2> QED BY <1>1, <2>1, <2>2, Times DEF CallInv, IsPc
<1>4. ASSUME NEW c \in Countries PROVE CacheInv(c)' /\ TableInv(c)'
  <2>1. CacheInv(c) /\ TableInv(c)
    BY DEF IInv
  <2> QED BY <1>1, <2>1 DEF CacheInv, TableInv
<1> QED BY <1>2, <1>3, <1>4 DEF IInv

LEMMA AskInv ==
  ASSUME IInv, NEW x \in Callers, NEW c \in Countries, Ask(x, c)
  PROVE  IInv'
<1> DEFINE hit == cache[c]
           known == [pc |-> "known", country |-> c, sent |-> now,
                     listed |-> hit.listed, outage |-> FALSE, saw |-> hit.saw]
           asking == [pc |-> "asking", country |-> c, sent |-> now]
<1>1. UNCHANGED <<cache, table, retired>> /\ Goes(x, IF Fresh(hit) THEN known ELSE asking)
  BY DEF Ask
<1>2. /\ now' = now /\ reader'.pc \in {"idle", "fallback", "served"}
      /\ call' = [y \in Callers |-> call'[y]]
      /\ call'[x] = IF Fresh(hit) THEN known ELSE asking
      /\ \A y \in Callers \ {x} : call'[y] = call[y]
  BY <1>1, Went DEF IInv
<1>3. now \in Nat
  BY DEF IInv, Shapes
<1>4. CallInv(x)'
  <2>1. CASE Fresh(hit)
    <3>1. /\ hit.listed \subseteq Serves[c] /\ hit.saw \in 0 .. now
          /\ hit.saw >= now - TTL - CallTime
      <4>1. CacheInv(c) /\ hit # None /\ now - hit.at <= TTL
        BY <2>1 DEF IInv, Fresh
      <4> QED BY <1>3, <4>1, Times DEF CacheInv
    <3>2. call'[x].pc = "known" /\ call'[x].country = c /\ call'[x].sent = now
          /\ call'[x].listed = hit.listed /\ call'[x].outage = FALSE /\ call'[x].saw = hit.saw
      BY <1>2, <2>1
    <3> QED BY <1>2, <1>3, <3>1, <3>2, Times DEF CallInv, IsPc
  <2>2. CASE ~Fresh(hit)
    <3>1. call'[x].pc = "asking" /\ call'[x].country = c /\ call'[x].sent = now
      BY <1>2, <2>2
    <3> QED BY <1>2, <1>3, <3>1, Times DEF CallInv, IsPc
  <2> QED BY <2>1, <2>2
<1>5. \A y \in Callers : CallInv(y)'
  BY <1>2, <1>4, OthersCalls DEF IInv
<1>6. Shapes'
  BY <1>1, <1>2 DEF IInv, Shapes
<1> QED BY <1>1, <1>2, <1>5, <1>6 DEF IInv, CacheInv, TableInv

(* The steps of a call that leave the cache and the table alone.           *)
LEMMA CallStep ==
  ASSUME IInv, NEW x \in Callers, NEW new, Goes(x, new), UNCHANGED <<cache, table, retired>>,
         CallInv(x)'
  PROVE  IInv'
<1>1. /\ now' = now /\ reader'.pc \in {"idle", "fallback", "served"}
      /\ call' = [y \in Callers |-> call'[y]]
      /\ \A y \in Callers \ {x} : call'[y] = call[y]
  BY Went DEF IInv
<1>2. \A y \in Callers : CallInv(y)'
  BY <1>1, OthersCalls DEF IInv
<1> QED BY <1>1, <1>2 DEF IInv, Shapes, CacheInv, TableInv

LEMMA AnswersInv ==
  ASSUME IInv, NEW x \in Callers, MeldAnswers(x) \/ CallFails(x) \/ Gate(x)
  PROVE  IInv'
<1>1. CallInv(x) /\ now \in Nat /\ UNCHANGED <<cache, table, retired>>
  <2>1. CallInv(x) /\ now \in Nat
    BY DEF IInv, Shapes
  <2>2. UNCHANGED <<cache, table, retired>>
    BY DEF MeldAnswers, CallFails, Gate
  <2> QED BY <2>1, <2>2
<1>2. CASE MeldAnswers(x)
  <2>1. PICK listed \in SUBSET Serves[call[x].country] :
          Goes(x, [pc |-> "answered", country |-> call[x].country, sent |-> call[x].sent,
                   listed |-> listed, saw |-> now])
    BY <1>2 DEF MeldAnswers
  <2>2. /\ call'[x].pc = "answered" /\ call'[x].country = call[x].country
        /\ call'[x].sent = call[x].sent /\ call'[x].listed = listed /\ call'[x].saw = now
        /\ now' = now
    BY <2>1, Went DEF IInv
  <2>3. call[x].pc = "asking"
    BY <1>2 DEF MeldAnswers, IsPc
  <2>4. CallInv(x)'
    BY <1>1, <2>2, <2>3 DEF CallInv, IsPc
  <2> QED BY <1>1, <2>1, <2>4, CallStep
<1>3. CASE CallFails(x)
  <2>1. Goes(x, Known(x, {}, TRUE, call[x].sent)) /\ call[x].pc \in {"asking", "answered"}
    BY <1>3 DEF CallFails
  <2>2. /\ call'[x].pc = "known" /\ call'[x].country = call[x].country
        /\ call'[x].sent = call[x].sent /\ call'[x].listed = {} /\ call'[x].outage = TRUE
        /\ call'[x].saw = call[x].sent /\ now' = now
    BY <2>1, Went DEF IInv, Known
  <2>3. /\ call[x].country \in Countries
        /\ call[x].sent \in 0 .. now /\ now - call[x].sent <= CallTime
        /\ call[x].sent >= call[x].sent - TTL - CallTime
    <3>1. /\ call[x].country \in Countries
          /\ call[x].sent \in 0 .. now /\ now - call[x].sent <= CallTime
      BY <1>1, <2>1 DEF CallInv, IsPc
    <3> QED BY <1>1, <3>1, Times
  <2>4. CallInv(x)'
    BY <2>2, <2>3 DEF CallInv, IsPc
  <2> QED BY <1>1, <2>1, <2>4, CallStep
<1>4. CASE Gate(x)
  <2>1. Goes(x, Idle)
    BY <1>4 DEF Gate
  <2>2. call'[x].pc = "idle"
    BY <2>1, Went DEF IInv, Idle
  <2>3. CallInv(x)'
    BY <2>2 DEF CallInv, IsPc
  <2> QED BY <1>1, <2>1, <2>3, CallStep
<1> QED BY <1>2, <1>3, <1>4

LEMMA ReceiveInv ==
  ASSUME IInv, NEW x \in Callers, Receive(x)
  PROVE  IInv'
<1>1. PICK listed \in SUBSET call[x].listed, whole \in BOOLEAN :
        /\ whole => listed = call[x].listed
        /\ Goes(x, Known(x, listed, FALSE, call[x].saw))
        /\ cache' = Caches(x, listed, whole)
  BY DEF Receive
<1>2. call[x].pc = "answered" /\ UNCHANGED <<table, retired>> /\ CallInv(x) /\ now \in Nat
  BY DEF Receive, IsPc, IInv, Shapes
<1> DEFINE country == call[x].country
<1>3. /\ country \in Countries /\ call[x].sent \in 0 .. now /\ now - call[x].sent <= CallTime
      /\ call[x].listed \subseteq Serves[country] /\ call[x].saw \in call[x].sent .. now
  BY <1>2 DEF CallInv, IsPc
<1>4. /\ now' = now /\ reader'.pc \in {"idle", "fallback", "served"}
      /\ call' = [y \in Callers |-> call'[y]]
      /\ \A y \in Callers \ {x} : call'[y] = call[y]
      /\ call'[x] = Known(x, listed, FALSE, call[x].saw)
  BY <1>1, Went DEF IInv
<1>5. CallInv(x)'
  <2>1. /\ call'[x].pc = "known" /\ call'[x].country = call[x].country
        /\ call'[x].sent = call[x].sent /\ call'[x].listed = listed /\ call'[x].outage = FALSE
        /\ call'[x].saw = call[x].saw
    BY <1>4 DEF Known
  <2>2. call[x].saw \in 0 .. now /\ call[x].saw >= call[x].sent - TTL - CallTime
    BY <1>2, <1>3, Times
  <2>3. listed \subseteq Serves[country]
    BY <1>3
  <2> QED BY <1>3, <1>4, <2>1, <2>2, <2>3 DEF CallInv, IsPc
<1>6. \A y \in Callers : CallInv(y)'
  BY <1>4, <1>5, OthersCalls DEF IInv
<1>7. ASSUME NEW c \in Countries PROVE CacheInv(c)'
  <2>1. CacheInv(c)
    BY DEF IInv
  <2>2. CASE cache'[c] = cache[c] \/ cache'[c] = None
    BY <1>4, <2>1, <2>2 DEF CacheInv
  <2>3. CASE cache'[c] = Entry(listed, x) /\ c = country /\ whole
    <3>1. /\ cache'[c].at = now /\ cache'[c].listed = listed /\ cache'[c].saw = call[x].saw
          /\ cache'[c].said = call[x].listed
      BY <2>3 DEF Entry
    <3>2. call[x].saw \in 0 .. now /\ call[x].saw >= now - CallTime
      BY <1>2, <1>3, Times
    <3>3. listed \subseteq Serves[c] /\ listed = call[x].listed
      BY <1>1, <1>3, <2>3
    <3> QED BY <1>2, <1>4, <3>1, <3>2, <3>3 DEF CacheInv
  <2>4. \/ cache'[c] = cache[c] \/ cache'[c] = None
        \/ cache'[c] = Entry(listed, x) /\ c = country /\ whole
    BY <1>1 DEF Caches, Evicted
  <2> QED BY <2>2, <2>3, <2>4
<1>8. Shapes'
  <2>1. cache' = [c \in Countries |-> cache'[c]]
    BY <1>1 DEF Caches, Evicted, IInv, Shapes
  <2> QED BY <1>2, <1>4, <2>1 DEF IInv, Shapes
<1> QED BY <1>2, <1>4, <1>6, <1>7, <1>8 DEF IInv, TableInv

LEMMA UpsertInv ==
  ASSUME IInv, NEW x \in Callers, Upsert(x)
  PROVE  IInv'
<1>1. Goes(x, Idle) /\ cache' = cache /\ IsPc(x, "known") /\ CallInv(x) /\ now \in Nat
  BY DEF Upsert, IInv, Shapes
<1>2. /\ now' = now /\ reader'.pc \in {"idle", "fallback", "served"}
      /\ call' = [y \in Callers |-> call'[y]]
      /\ \A y \in Callers \ {x} : call'[y] = call[y]
      /\ call'[x] = Idle
  BY <1>1, Went DEF IInv
<1>3. CallInv(x)'
  BY <1>2 DEF CallInv, IsPc, Idle
<1>4. \A y \in Callers : CallInv(y)'
  BY <1>2, <1>3, OthersCalls DEF IInv
<1>5. \/ UNCHANGED <<table, retired>>
      \/ /\ table' = [table EXCEPT ![call[x].country] = Row(x)]
         /\ retired' = retired \ {call[x].country}
  BY DEF Upsert
<1>6. ASSUME NEW c \in Countries PROVE TableInv(c)'
  <2>1. TableInv(c)
    BY DEF IInv
  <2>2. CASE table'[c] = table[c]
    BY <1>2, <2>1, <2>2 DEF TableInv
  <2>3. CASE table'[c] = Row(x)
    <3>1. table'[c].at = now /\ table'[c].saw = call[x].saw
      BY <2>3 DEF Row
    <3>2. call[x].saw \in 0 .. now /\ call[x].saw >= now - TTL - 2 * CallTime
      BY <1>1, Times DEF CallInv, IsPc
    <3> QED BY <1>1, <1>2, <3>1, <3>2 DEF TableInv
  <2> QED BY <1>5, <2>2, <2>3 DEF IInv, Shapes
<1>7. Shapes'
  <2>1. table' = [c \in Countries |-> table'[c]] /\ retired' \subseteq Countries
    BY <1>5 DEF IInv, Shapes
  <2> QED BY <1>1, <1>2, <2>1 DEF IInv, Shapes
<1> QED BY <1>1, <1>2, <1>4, <1>6, <1>7 DEF IInv, CacheInv

LEMMA ReadInv ==
  ASSUME IInv, ReadFresh \/ ReadFallback
  PROVE  IInv'
<1>1. UNCHANGED <<now, cache, table, call>> /\ reader'.pc \in {"fallback", "served"}
      /\ retired' \subseteq Countries
  BY DEF ReadFresh, ReadFallback, Serve, RowsFrom, IInv, Shapes
<1> QED BY <1>1 DEF IInv, Shapes, CallInv, IsPc, CacheInv, TableInv

LEMMA IInvHolds == Spec => []IInv
<1>1. IInv /\ [Next]_vars => IInv'
  <2> SUFFICES ASSUME IInv, [Next]_vars PROVE IInv'
    OBVIOUS
  <2>1. CASE UNCHANGED vars
    BY <2>1 DEF vars, IInv, Shapes, CallInv, IsPc, CacheInv, TableInv
  <2>2. CASE Next
    BY <2>2, TickInv, AskInv, AnswersInv, ReceiveInv, UpsertInv, ReadInv DEF Next
  <2> QED BY <2>1, <2>2
<1> QED BY <1>1, InitInv, PTL DEF Spec

(* What a caller knows of a corridor is Meld's word, not older than the    *)
(* cache's life and two calls, and a damaged answer is never cached.       *)
THEOREM CatalogIsMelds == Spec => []CatalogInv
<1>1. IInv => CatalogInv
  <2> SUFFICES ASSUME IInv PROVE CatalogInv
    OBVIOUS
  <2>1. TypeOK
    BY DEF IInv, Shapes, CallInv, IsPc, CacheInv, TableInv, TypeOK
  <2>2. CachedWasSaid
    BY DEF IInv, CacheInv, CachedWasSaid
  <2>3. ASSUME NEW x \in Callers, IsPc(x, "known")
        PROVE  call[x].saw >= now - TTL - 2 * CallTime
    <3>1. CallInv(x) /\ now \in Nat
      BY DEF IInv, Shapes
    <3> QED BY <2>3, <3>1, Times DEF CallInv, IsPc
  <2> QED BY <2>1, <2>2, <2>3 DEF CatalogInv, AnswerIsRecent
<1> QED BY <1>1, IInvHolds, PTL
-----------------------------------------------------------------------------
(* The bounds *)

LEMMA LeastOf ==
  ASSUME NEW S \in SUBSET Nat, S # {}
  PROVE  \E n \in S : \A m \in S : n <= m
<1>1. PICK n \in S : \A m \in S : ~ (<<m, n>> \in OpToRel(<, Nat))
  BY NatLessThanWellFounded, WFMin
<1>2. ASSUME NEW m \in S, m < n PROVE FALSE
  <2>1. <<m, n>> \in Nat \X Nat /\ <<m, n>>[1] < <<m, n>>[2]
    BY <1>2
  <2>2. <<m, n>> \in OpToRel(<, Nat)
    BY <2>1 DEF OpToRel
  <2> QED BY <1>1, <1>2, <2>2
<1>3. ASSUME NEW m \in S PROVE n <= m
  <2>1. n \in Int /\ m \in Int
    OBVIOUS
  <2> QED BY <1>2, <2>1
<1> QED BY <1>3

(* A finite set of numbers has a greatest: take the smallest that had none *)
(* and a member away.                                                      *)
HasGreatest(S) == \E m \in S : \A k \in S : k <= m

LEMMA GreatestOf ==
  ASSUME NEW S \in SUBSET Nat, IsFiniteSet(S), S # {}
  PROVE  HasGreatest(S)
<1> DEFINE Bad(T) == IsFiniteSet(T) /\ T # {} /\ ~HasGreatest(T)
           sizes == {n \in Nat : \E T \in SUBSET Nat : Bad(T) /\ Cardinality(T) = n}
<1>1. ASSUME Bad(S) PROVE FALSE
  <2>1. Cardinality(S) \in sizes
    BY <1>1, FS_CardinalityType
  <2> HIDE DEF Bad
  <2>2. PICK n \in sizes : \A m \in sizes : n <= m
    BY <2>1, LeastOf
  <2>3. PICK T \in SUBSET Nat : Bad(T) /\ Cardinality(T) = n
    BY <2>2
  <2>4. PICK t \in T : TRUE
    BY <2>3 DEF Bad
  <2> DEFINE rest == T \ {t}
  <2>5. IsFiniteSet(rest) /\ Cardinality(rest) = n - 1 /\ n \in Nat
    BY <2>2, <2>3, <2>4, FS_RemoveElement DEF Bad
  <2>6. Cardinality(rest) \in Nat /\ rest \in SUBSET Nat
    BY <2>5, FS_CardinalityType
  <2>7. ~Bad(rest)
    <3>1. CASE Bad(rest)
      <4>1. n - 1 \in sizes
        BY <2>5, <2>6, <3>1
      <4> QED BY <2>2, <2>5, <4>1
    <3> QED BY <3>1
  <2>8. CASE rest = {}
    <3>1. \A k \in T : k = t
      BY <2>8
    <3>2. HasGreatest(T)
      BY <2>4, <3>1 DEF HasGreatest
    <3> QED BY <2>3, <3>2 DEF Bad
  <2>9. CASE rest # {}
    <3>1. PICK m \in rest : \A k \in rest : k <= m
      BY <2>5, <2>7, <2>9 DEF Bad, HasGreatest
    <3>2. m \in Nat /\ t \in Nat /\ m \in T
      BY <2>4, <3>1
    <3>3. CASE t <= m
      <4>1. \A k \in T : k <= m
        BY <3>1, <3>3
      <4> QED BY <2>3, <3>2, <4>1 DEF Bad, HasGreatest
    <3>4. CASE m <= t
      <4>1. ASSUME NEW k \in T PROVE k <= t
        <5>1. k \in Nat
          OBVIOUS
        <5>2. k = t \/ k <= m
          BY <3>1
        <5> QED BY <3>2, <3>4, <5>1, <5>2
      <4> QED BY <2>3, <2>4, <4>1 DEF Bad, HasGreatest
    <3> QED BY <3>2, <3>3, <3>4
  <2> QED BY <2>8, <2>9
<1> QED BY <1>1

(* widestBound spans the bounds it is given. *)
LEMMA WidestSpans ==
  ASSUME NEW listed \in SUBSET Providers, listed # {}
  PROVE  /\ Widest(listed).min \in Nat /\ Widest(listed).max \in Nat
         /\ \A p \in listed : /\ Limit[p].min \in Nat /\ Limit[p].max \in Nat
                              /\ Widest(listed).min <= Limit[p].min
                              /\ Limit[p].max <= Widest(listed).max
         /\ \E p \in listed : Widest(listed).min = Limit[p].min
         /\ \E p \in listed : Widest(listed).max = Limit[p].max
<1> DEFINE bounds == {Limit[p] : p \in listed}
           mins == {bound.min : bound \in bounds}
           maxs == {bound.max : bound \in bounds}
<1>1. \A bound \in bounds : bound.min \in Nat /\ bound.max \in Nat
  BY CorridorsConstants DEF Bounds
<1>2. bounds # {} /\ \A p \in listed : Limit[p] \in bounds
  OBVIOUS
<1>3. IsFiniteSet(maxs)
  <2> DEFINE f == [p \in listed |-> Limit[p].max]
  <2>1. IsFiniteSet(listed)
    BY FS_Subset, CorridorsConstants
  <2>2. f \in [listed -> maxs] /\ \A m \in maxs : \E p \in listed : f[p] = m
    OBVIOUS
  <2>3. f \in Surjection(listed, maxs)
    BY <2>2 DEF Surjection
  <2> QED BY <2>1, <2>3, FS_Surjection
<1> HIDE DEF bounds
<1>4. mins \in SUBSET Nat /\ mins # {} /\ maxs \in SUBSET Nat /\ maxs # {}
  BY <1>1, <1>2
<1>6. PICK least \in mins : \A m \in mins : least <= m
  BY <1>4, LeastOf
<1>7. PICK greatest \in maxs : \A m \in maxs : m <= greatest
  BY <1>3, <1>4, GreatestOf DEF HasGreatest
<1>8. MinOf(bounds) \in mins /\ \A bound \in bounds : MinOf(bounds) <= bound.min
  <2>1. \E b \in mins : \A bound \in bounds : b <= bound.min
    BY <1>6
  <2> QED BY <2>1 DEF MinOf
<1>9. MaxOf(bounds) \in maxs /\ \A bound \in bounds : MaxOf(bounds) >= bound.max
  <2>1. \A bound \in bounds : greatest >= bound.max
    BY <1>1, <1>4, <1>7
  <2>2. \E b \in maxs : \A bound \in bounds : b >= bound.max
    BY <1>7, <2>1
  <2> QED BY <2>2 DEF MaxOf
<1>10. Widest(listed).min = MinOf(bounds) /\ Widest(listed).max = MaxOf(bounds)
  BY DEF Widest, bounds
<1>11. MaxOf(bounds) \in Nat /\ MinOf(bounds) \in Nat
  BY <1>4, <1>8, <1>9
<1>12. /\ \E p \in listed : Widest(listed).min = Limit[p].min
       /\ \E p \in listed : Widest(listed).max = Limit[p].max
  BY <1>8, <1>9, <1>10 DEF bounds
<1> QED BY <1>1, <1>2, <1>8, <1>9, <1>10, <1>11, <1>12

LEMMA FloorBound == Floor # None => Floor.min \in Nat /\ Floor.max \in Nat
  BY CorridorsConstants DEF Bounds

LEMMA OfferedSpans ==
  ASSUME NEW listed \in SUBSET Providers, listed # {}, NEW down, NEW chosen
  PROVE  /\ Offered(listed, down, chosen).min \in Nat /\ Offered(listed, down, chosen).max \in Nat
         /\ \A p \in listed :
              p \notin down \/ p = chosen \/ (listed \subseteq down /\ chosen \notin listed) =>
                /\ Limit[p].min \in Nat /\ Limit[p].max \in Nat
                /\ Offered(listed, down, chosen).min <= Limit[p].min
                /\ Limit[p].max <= Offered(listed, down, chosen).max
<1> DEFINE up == Answering(listed, down, chosen)
           asked == IF up = {} THEN listed ELSE up
<1>1. asked \in SUBSET Providers /\ asked # {}
  BY DEF Answering
<1>2. ASSUME NEW p \in listed,
             p \notin down \/ p = chosen \/ (listed \subseteq down /\ chosen \notin listed)
      PROVE  p \in asked
  <2>1. CASE p \notin down \/ p = chosen
    BY <2>1 DEF Answering
  <2>2. CASE listed \subseteq down /\ chosen \notin listed
    BY <2>2 DEF Answering
  <2> QED BY <1>2, <2>1, <2>2
<1>3. Offered(listed, down, chosen) = Widest(asked)
  BY DEF Offered
<1> HIDE DEF asked
<1> QED BY <1>1, <1>2, <1>3, WidestSpans

(* No session exceeds the operator's bound (buyLimit and its callers).     *)
THEOREM OperatorsBoundHolds == Spec => []FloorIsACeiling
<1>1. IInv => FloorIsACeiling
  <2> SUFFICES ASSUME IInv, NEW x \in Buyers, IsPc(x, "known"),
                      NEW chosen \in Choices, NEW down \in SUBSET call[x].listed,
                      NEW amount \in Admitted(x, chosen, down), Floor # None
               PROVE  Within(Floor, amount)
    BY DEF FloorIsACeiling, WithinFloor
  <2> DEFINE bound == BuyLimit(x, down, chosen)
  <2>1. amount \in Nat /\ bound.min <= amount /\ amount <= bound.max
    BY CorridorsConstants DEF Admitted, Within
  <2>2. CallInv(x) /\ call[x].listed \in SUBSET Providers
    BY DEF IInv, Callers, CallInv, IsPc, Providers
  <2>3. CASE call[x].outage
    BY <2>1, <2>3, FloorBound DEF BuyLimit, Within
  <2>4. CASE ~call[x].outage /\ call[x].listed = {}
    <3>1. bound.min = 1 /\ bound.max = 0
      BY <2>4 DEF BuyLimit, Refused
    <3> QED BY <2>1, <3>1
  <2>5. CASE ~call[x].outage /\ call[x].listed # {}
    <3> DEFINE live == Offered(call[x].listed, down, chosen)
    <3>1. live.min \in Nat /\ live.max \in Nat
      BY <2>2, <2>5, OfferedSpans
    <3>2. bound = Tightened(live, Floor)
      BY <2>5 DEF BuyLimit, Floored
    <3> HIDE DEF live
    <3>3. Floor.min <= bound.min /\ bound.max <= Floor.max
          /\ bound.min \in Nat /\ bound.max \in Nat
      BY <3>1, <3>2, FloorBound DEF Tightened
    <3> HIDE DEF bound
    <3> QED BY <2>1, <3>3, FloorBound DEF Within
  <2> QED BY <2>3, <2>4, <2>5
<1> QED BY <1>1, IInvHolds, PTL

(* What health leaves is within what the corridor offers.                  *)
LEMMA OfferedWithin ==
  ASSUME NEW listed \in SUBSET Providers, listed # {}, NEW down, NEW chosen
  PROVE  /\ Offered(listed, {}, chosen).min <= Offered(listed, down, chosen).min
         /\ Offered(listed, down, chosen).max <= Offered(listed, {}, chosen).max
<1> DEFINE up == Answering(listed, down, chosen)
           asked == IF up = {} THEN listed ELSE up
<1>1. asked \in SUBSET listed /\ asked # {}
  BY DEF Answering
<1>2. Offered(listed, {}, chosen) = Widest(listed)
  <2>1. Answering(listed, {}, chosen) = listed
    BY DEF Answering
  <2> QED BY <2>1 DEF Offered
<1>3. Offered(listed, down, chosen) = Widest(asked)
  BY DEF Offered
<1> HIDE DEF asked
<1>4. PICK least \in asked : Widest(asked).min = Limit[least].min
  BY <1>1, WidestSpans
<1>5. PICK most \in asked : Widest(asked).max = Limit[most].max
  BY <1>1, WidestSpans
<1>6. Widest(listed).min <= Limit[least].min /\ Limit[most].max <= Widest(listed).max
  BY <1>1, WidestSpans
<1> QED BY <1>2, <1>3, <1>4, <1>5, <1>6

(* The operator's bound keeps the order of the bounds it narrows.          *)
LEMMA FlooredKeepsOrder ==
  ASSUME NEW inner, NEW outer, inner.min \in Nat, inner.max \in Nat, outer.min \in Nat, outer.max \in Nat,
         outer.min <= inner.min, inner.max <= outer.max
  PROVE  Floored(outer).min <= Floored(inner).min /\ Floored(inner).max <= Floored(outer).max
<1>1. CASE Floor = None
  BY <1>1 DEF Floored
<1>2. CASE Floor # None
  BY <1>2, FloorBound DEF Floored, Tightened
<1> QED BY <1>1, <1>2

(* Provider health lets through nothing the corridor would not, refuses    *)
(* nothing that a provider it does not hide takes, or the one the buyer    *)
(* chose, and hides nobody when it would hide all (HealthView.apply, then  *)
(* buyLimit).                                                              *)
THEOREM HealthNarrowsOnly == Spec => []HealthOnlyNarrows
<1>1. IInv => HealthOnlyNarrows
  <2> DEFINE Counts(x, chosen, down) ==
               IF call[x].listed \subseteq down /\ chosen \notin call[x].listed THEN call[x].listed
               ELSE {p \in call[x].listed : p \notin down \/ p = chosen}
  <2> SUFFICES ASSUME IInv, NEW x \in Buyers, IsPc(x, "known"),
                      NEW chosen \in Choices, NEW down \in SUBSET call[x].listed
               PROVE  /\ Admitted(x, chosen, down) \subseteq Admitted(x, chosen, {})
                      /\ \A p \in Counts(x, chosen, down), amount \in Amounts :
                           Within(Limit[p], amount) /\ WithinFloor(amount)
                             => amount \in Admitted(x, chosen, down)
    BY DEF HealthOnlyNarrows
  <2> DEFINE listed == call[x].listed
             live == Offered(listed, down, chosen)
             whole == Offered(listed, {}, chosen)
  <2>1. CallInv(x) /\ listed \in SUBSET Providers
    BY DEF IInv, Callers, CallInv, IsPc, Providers
  <2>2. CASE call[x].outage \/ listed = {}
    <3>1. BuyLimit(x, down, chosen) = BuyLimit(x, {}, chosen)
      BY <2>2 DEF BuyLimit
    <3>2. listed = {}
      BY <2>1, <2>2 DEF CallInv, IsPc
    <3>3. Counts(x, chosen, down) = {}
      BY <3>2
    <3> QED BY <3>1, <3>3 DEF Admitted
  <2>3. CASE ~call[x].outage /\ listed # {}
    <3>1. BuyLimit(x, down, chosen) = Floored(live) /\ BuyLimit(x, {}, chosen) = Floored(whole)
      BY <2>3 DEF BuyLimit
    <3>2. live.min \in Nat /\ live.max \in Nat /\ whole.min \in Nat /\ whole.max \in Nat
      BY <2>1, <2>3, OfferedSpans
    <3>3. whole.min <= live.min /\ live.max <= whole.max
      BY <2>1, <2>3, OfferedWithin
    <3>4. \A p \in Counts(x, chosen, down) :
             /\ Limit[p].min \in Nat /\ Limit[p].max \in Nat
             /\ live.min <= Limit[p].min /\ Limit[p].max <= live.max
      <4>1. \A p \in Counts(x, chosen, down) :
               p \in listed /\ (p \notin down \/ p = chosen \/ (listed \subseteq down /\ chosen \notin listed))
        OBVIOUS
      <4> HIDE DEF Counts
      <4> QED BY <2>1, <2>3, <4>1, OfferedSpans
    <3> HIDE DEF live, whole, Counts
    <3>5. /\ Floored(live).min \in Nat /\ Floored(live).max \in Nat
          /\ Floored(whole).min \in Nat /\ Floored(whole).max \in Nat
      BY <3>2, FloorBound DEF Floored, Tightened
    <3>6. Floored(whole).min <= Floored(live).min /\ Floored(live).max <= Floored(whole).max
      BY <3>2, <3>3, FlooredKeepsOrder
    <3>7. Admitted(x, chosen, down) \subseteq Admitted(x, chosen, {})
      <4> SUFFICES ASSUME NEW amount \in Admitted(x, chosen, down)
                   PROVE  amount \in Admitted(x, chosen, {})
        OBVIOUS
      <4>1. amount \in Amounts /\ amount \in Nat
            /\ Floored(live).min <= amount /\ amount <= Floored(live).max
        BY <3>1, CorridorsConstants DEF Admitted, Within
      <4>2. Floored(whole).min <= amount /\ amount <= Floored(whole).max
        BY <3>5, <3>6, <4>1
      <4> QED BY <3>1, <4>1, <4>2 DEF Admitted, Within
    <3>8. ASSUME NEW p \in Counts(x, chosen, down), NEW amount \in Amounts,
                 Within(Limit[p], amount), WithinFloor(amount)
          PROVE  amount \in Admitted(x, chosen, down)
      <4>1. amount \in Nat
        BY CorridorsConstants
      <4>2. live.min <= amount /\ amount <= live.max
        BY <3>2, <3>4, <3>8, <4>1 DEF Within
      <4>3. Floored(live).min <= amount /\ amount <= Floored(live).max
        BY <3>2, <3>8, <4>1, <4>2, FloorBound DEF Floored, Tightened, WithinFloor, Within
      <4> QED BY <3>1, <4>3 DEF Admitted, Within
    <3> QED BY <3>7, <3>8
  <2> QED BY <2>2, <2>3
<1> QED BY <1>1, IInvHolds, PTL
-----------------------------------------------------------------------------
(* The list of countries *)

(* The last catalog written is not empty while a row is within the grace.  *)
LEMMA LastCatalogKept ==
  ASSUME IInv, NEW c \in Countries, table[c] # None, table[c].at >= now - Window - Grace
  PROVE  LastCatalog # {}
<1> DEFINE all == RowsFrom(now - Window - Grace)
           ages == {now - table[d].at : d \in all}
<1>1. now \in Nat /\ \A d \in all : d \in Countries /\ table[d].at \in 0 .. now
  BY DEF IInv, Shapes, TableInv, RowsFrom
<1>2. c \in all
  BY DEF RowsFrom
<1> HIDE DEF all
<1>3. ages \in SUBSET Nat /\ ages # {}
  BY <1>1, <1>2
<1>4. PICK least \in ages : \A age \in ages : least <= age
  BY <1>3, LeastOf
<1>5. PICK d \in all : least = now - table[d].at
  BY <1>4
<1>6. ASSUME NEW other \in all PROVE table[d].at >= table[other].at - Window
  <2>1. now - table[d].at <= now - table[other].at
    BY <1>4, <1>5
  <2> QED BY <1>1, <2>1, Times
<1> QED BY <1>5, <1>6 DEF LastCatalog, all

LEMMA ServedIsTrue ==
  ASSUME IInv, Next, reader' # reader, reader'.pc = "served"
  PROVE  /\ \A c \in reader'.served : table[c].saw >= now - Window - Grace - TTL - 2 * CallTime
         /\ reader'.served = {} =>
              \A c \in Countries : table[c] # None => table[c].at < now - Window - Grace
<1>1. ASSUME reader' = NextReader PROVE FALSE
  BY <1>1 DEF NextReader, Idle
<1>2. ASSUME NEW c \in Countries, table[c] # None, table[c].at >= now - Window - Grace
      PROVE  table[c].saw >= now - Window - Grace - TTL - 2 * CallTime
  <2>1. TableInv(c) /\ now \in Nat
    BY DEF IInv, Shapes
  <2> QED BY <1>2, <2>1, Times DEF TableInv
<1>3. CASE ReadFresh
  <2> DEFINE rows == RowsFrom(now - Window)
  <2>1. reader'.served = rows /\ rows # {}
    BY <1>3 DEF ReadFresh, Serve
  <2>2. ASSUME NEW c \in rows
        PROVE  c \in Countries /\ table[c] # None /\ table[c].at >= now - Window - Grace
    <3>1. c \in Countries /\ table[c] # None /\ table[c].at >= now - Window
      BY DEF RowsFrom
    <3>2. now \in Nat /\ TableInv(c)
      BY <3>1 DEF IInv, Shapes
    <3> QED BY <3>1, <3>2, Times DEF TableInv
  <2> QED BY <1>2, <2>1, <2>2
<1>4. CASE ReadFallback
  <2>1. reader'.served = LastCatalog
    BY <1>4 DEF ReadFallback, Serve
  <2>2. \A c \in LastCatalog :
          c \in Countries /\ table[c] # None /\ table[c].at >= now - Window - Grace
    BY DEF LastCatalog, RowsFrom
  <2>3. ASSUME LastCatalog = {}, NEW c \in Countries, table[c] # None
        PROVE  table[c].at < now - Window - Grace
    <3>1. ~(table[c].at >= now - Window - Grace)
      BY <2>3, LastCatalogKept
    <3>2. now \in Nat /\ table[c].at \in Int
      BY <2>3 DEF IInv, Shapes, TableInv
    <3> QED BY <3>1, <3>2, Times
  <2> QED BY <1>2, <2>1, <2>2, <2>3
<1>5. ReadFresh \/ ReadFallback \/ reader' = NextReader
  BY DEF Next, Tick, Ask, MeldAnswers, Receive, CallFails, Upsert, Gate, Goes
<1> QED BY <1>1, <1>3, <1>4, <1>5

(* What GET /supported/corridors serves Meld routed lately, and it serves  *)
(* nothing only if nothing was written for a window and the grace.         *)
THEOREM ServedListIsTrue == Spec => ListIsTrue
<1>1. IInv /\ [Next]_vars =>
        [reader' # reader /\ reader'.pc = "served" =>
           /\ \A c \in reader'.served :
                table[c].saw >= now - Window - Grace - TTL - 2 * CallTime
           /\ reader'.served = {} =>
                \A c \in Countries : table[c] # None => table[c].at < now - Window - Grace]_vars
  BY ServedIsTrue
<1> QED BY <1>1, IInvHolds, PTL DEF Spec, ListIsTrue
=============================================================================
