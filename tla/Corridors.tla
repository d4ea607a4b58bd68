----------------------------- MODULE Corridors -----------------------------
(***************************************************************************)
(* What a buyer is told about a corridor.  Discovery reads Meld's routes   *)
(* through a cache (src/meld/discovery.ts); the charge gate bounds a       *)
(* purchase by what it finds (src/onramp.ts); the refresh stores what it   *)
(* finds, and GET /supported/corridors serves the rows that are recent     *)
(* (src/onramp.ts, src/funding/store.ts).  Meld changes its routes, a call *)
(* may fail, and an answer may be damaged, or late.                        *)
(*                                                                         *)
(* One crypto, one direction (buy), one payment method, one currency; an   *)
(* answer is the set of providers it lists, each with its limits.          *)
(***************************************************************************)
EXTENDS Integers, FiniteSets

CONSTANTS
  Countries,
  Serves,    \* the providers that may route to each country
  Limit,     \* a provider's bound on the amount
  Floor,     \* the configured bound, or None
  Buyers, Refresh,
  Amounts,
  TTL,       \* routes_cache_ttl_ms
  CallTime,  \* the bound on a call to Meld
  Window,    \* STALE_PASSES passes
  Grace,     \* FALLBACK_GRACE_MS
  MaxTime,   \* bound on the clock
  None

Callers == Buyers \cup {Refresh}
Providers == UNION {Serves[c] : c \in Countries}
Bounds == [min : Amounts, max : Amounts]

ASSUME CorridorsConstants ==
  /\ IsFiniteSet(Countries) /\ IsFiniteSet(Providers) /\ Refresh \notin Buyers
  /\ Amounts \subseteq Nat
  /\ Limit \in [Providers -> Bounds] /\ Floor \in Bounds \cup {None}
  /\ {TTL, CallTime, Window, Grace, MaxTime} \subseteq Nat

VARIABLES
  now,
  cache,   \* corridorCache, by country
  table,   \* supported_corridors, by country: when it was written, and
           \* when Meld had said so
  call,    \* a caller and the corridor it asks for
  reader,  \* a GET /supported/corridors
  retired  \* the rows readers saw others outlive, not written since

vars == <<now, cache, table, call, reader, retired>>
-----------------------------------------------------------------------------
Idle == [pc |-> "idle"]

Init ==
  /\ now = 0
  /\ cache = [c \in Countries |-> None]
  /\ table = [c \in Countries |-> None]
  /\ call = [x \in Callers |-> Idle]
  /\ reader = Idle
  /\ retired = {}

(* A reader that was served is gone by the next step. *)
NextReader == IF reader.pc = "served" THEN Idle ELSE reader

(* A call ends within its bound. *)
Tick ==
  /\ now < MaxTime
  /\ \A x \in Callers : call[x].pc # "idle" => now - call[x].sent < CallTime
  /\ now' = now + 1
  /\ reader' = NextReader
  /\ UNCHANGED <<cache, table, call, retired>>

-----------------------------------------------------------------------------
(* MeldDiscovery.corridor.  Concurrent callers each ask for themselves;    *)
(* an answer is cached when it arrives, whatever came before it.           *)

IsPc(x, pc) == call[x].pc = pc
Goes(x, new) ==
  /\ call' = [call EXCEPT ![x] = new]
  /\ reader' = NextReader
  /\ UNCHANGED now

Fresh(entry) == entry # None /\ now - entry.at <= TTL

(* What the caller has: the providers listed, or an outage; when Meld said *)
(* so.                                                                     *)
Known(x, listed, outage, saw) ==
  [pc |-> "known", country |-> call[x].country, sent |-> call[x].sent,
   listed |-> listed, outage |-> outage, saw |-> saw]

Ask(x, c) ==
  /\ IsPc(x, "idle")
  /\ LET hit == cache[c]
     IN Goes(x, IF Fresh(hit)
                THEN [pc |-> "known", country |-> c, sent |-> now,
                      listed |-> hit.listed, outage |-> FALSE, saw |-> hit.saw]
                ELSE [pc |-> "asking", country |-> c, sent |-> now])
  /\ UNCHANGED <<cache, table, retired>>

MeldAnswers(x) ==
  /\ IsPc(x, "asking")
  /\ \E listed \in SUBSET Serves[call[x].country] :
       Goes(x, [pc |-> "answered", country |-> call[x].country, sent |-> call[x].sent,
                listed |-> listed, saw |-> now])
  /\ UNCHANGED <<cache, table, retired>>

Entry(listed, x) == [at |-> now, listed |-> listed, saw |-> call[x].saw, said |-> call[x].listed]

Evicted == [c \in Countries |-> IF Fresh(cache[c]) THEN cache[c] ELSE None]
CachesAnything(x, listed, whole) == [Evicted EXCEPT ![call[x].country] = Entry(listed, x)]
Caches(x, listed, whole) ==
  IF whole THEN [Evicted EXCEPT ![call[x].country] = Entry(listed, x)] ELSE cache

(* Of a damaged body the entries that parse are salvaged for this caller.  *)
Receive(x) ==
  /\ IsPc(x, "answered")
  /\ \E listed \in SUBSET call[x].listed, whole \in BOOLEAN :
       /\ whole => listed = call[x].listed
       /\ Goes(x, Known(x, listed, FALSE, call[x].saw))
       /\ cache' = Caches(x, listed, whole)
  /\ UNCHANGED <<table, retired>>

CallFails(x) ==
  /\ call[x].pc \in {"asking", "answered"}
  /\ Goes(x, Known(x, {}, TRUE, call[x].sent))
  /\ UNCHANGED <<cache, table, retired>>
-----------------------------------------------------------------------------
(* buyLimit: the bound on a session's amount. *)

MinOf(bounds) == CHOOSE b \in {bound.min : bound \in bounds} : \A bound \in bounds : b <= bound.min
MaxOf(bounds) == CHOOSE b \in {bound.max : bound \in bounds} : \A bound \in bounds : b >= bound.max

(* widestBound *)
Widest(listed) ==
  [min |-> MinOf({Limit[p] : p \in listed}), max |-> MaxOf({Limit[p] : p \in listed})]

(* HealthView.apply: the providers not down, and the one the buyer chose;  *)
(* all of them if none is left.                                            *)
AnsweringOnly(listed, down, chosen) == listed \ down
Answering(listed, down, chosen) ==
  {p \in listed : p \notin down \/ p = chosen}
Offered(listed, down, chosen) ==
  LET up == Answering(listed, down, chosen)
  IN Widest(IF up = {} THEN listed ELSE up)

Tightened(bound, floor) ==
  [min |-> IF floor.min > bound.min THEN floor.min ELSE bound.min,
   max |-> IF floor.max < bound.max THEN floor.max ELSE bound.max]

Refused == [min |-> 1, max |-> 0]

(* The configured bound narrows the live one; a range they do not share is *)
(* refused, not routed around.  Without the catalog it stands alone.       *)
RoutedAround(bound) ==
  IF Floor = None \/ Tightened(bound, Floor).min > Tightened(bound, Floor).max
  THEN bound ELSE Tightened(bound, Floor)
Floored(bound) == IF Floor = None THEN bound ELSE Tightened(bound, Floor)

BuyLimit(x, down, chosen) ==
  IF call[x].outage THEN (IF Floor = None THEN Refused ELSE Floor)
  ELSE IF call[x].listed = {} THEN Refused
  ELSE Floored(Offered(call[x].listed, down, chosen))

Within(bound, amount) == bound.min <= amount /\ amount <= bound.max

(* What the gate lets through; `down' is what provider health says by then. *)
Admitted(x, chosen, down) ==
  LET bound == BuyLimit(x, down, chosen)
  IN {amount \in Amounts : Within(bound, amount)}

Gate(x) ==
  /\ IsPc(x, "known") /\ x # Refresh
  /\ Goes(x, Idle)
  /\ UNCHANGED <<cache, table, retired>>
-----------------------------------------------------------------------------
(* refreshRoutes stores a corridor that has methods; nothing is deleted.   *)

Row(x) == [at |-> now, saw |-> call[x].saw]

Upsert(x) ==
  /\ IsPc(x, "known") /\ x = Refresh
  /\ Goes(x, Idle)
  /\ IF ~call[x].outage /\ call[x].listed # {}
     THEN /\ table' = [table EXCEPT ![call[x].country] = Row(x)]
          /\ retired' = retired \ {call[x].country}
     ELSE UNCHANGED <<table, retired>>
  /\ UNCHANGED cache
-----------------------------------------------------------------------------
(* supportedCorridors: the rows of the last passes or, if there are none,  *)
(* the last catalog written, for a time.                                   *)

RowsFrom(t) == {c \in Countries : table[c] # None /\ table[c].at >= t}

Serve(served) ==
  /\ reader' = [pc |-> "served", served |-> served]
  /\ UNCHANGED <<now, cache, table, call>>

ReadFresh ==
  /\ reader.pc # "fallback"
  /\ IF RowsFrom(now - Window) # {}
     THEN /\ Serve(RowsFrom(now - Window))
          /\ retired' = retired \cup (RowsFrom(0) \ RowsFrom(now - Window))
     ELSE /\ reader' = [pc |-> "fallback"]
          /\ UNCHANGED <<now, cache, table, call, retired>>

(* Rows may be written between the two reads. *)
LastCatalogFresh == RowsFrom(now - Window)
LastCatalog ==
  LET all == RowsFrom(now - Window - Grace)
  IN {c \in all : \A other \in all : table[c].at >= table[other].at - Window}

ReadFallback ==
  /\ reader.pc = "fallback"
  /\ Serve(LastCatalog)
  /\ UNCHANGED retired
-----------------------------------------------------------------------------
Next ==
  \/ Tick
  \/ \E x \in Callers :
       \/ \E c \in Countries : Ask(x, c)
       \/ MeldAnswers(x) \/ Receive(x) \/ CallFails(x) \/ Upsert(x) \/ Gate(x)
  \/ ReadFresh \/ ReadFallback

Spec == Init /\ [][Next]_vars
-----------------------------------------------------------------------------
TypeOK ==
  /\ now \in 0..MaxTime
  /\ \A c \in Countries :
       /\ cache[c] # None => cache[c].listed \subseteq Serves[c] /\ cache[c].at \in 0..now
       /\ table[c] # None => table[c].at \in 0..now /\ table[c].saw \in 0..table[c].at
  /\ \A x \in Callers : call[x].pc \in {"idle", "asking", "answered", "known"}
  /\ reader.pc \in {"idle", "fallback", "served"}
  /\ retired \subseteq Countries

(* The cache holds what Meld said and nothing else: a damaged answer       *)
(* refuses one buyer, not every buyer for a while (discovery.ts:325-337).  *)
CachedWasSaid == \A c \in Countries : cache[c] # None => cache[c].listed = cache[c].said

(* A corridor is never older than a cache's life and the calls around it   *)
(* allow (discovery.ts:285-322).                                           *)
AnswerIsRecent ==
  \A x \in Callers : IsPc(x, "known") => call[x].saw >= now - TTL - 2 * CallTime

(* What a caller knows of a corridor is Meld's word, and a recent one.     *)
CatalogInv == TypeOK /\ CachedWasSaid /\ AnswerIsRecent

(* The list is neither stale nor needlessly empty: what it serves Meld     *)
(* routed within the window, the grace and the age of an answer, and it is *)
(* empty only if nothing was written within the window and the grace       *)
(* (onramp.ts:80-87, 230-241).                                             *)
ListIsTrue ==
  [][reader' # reader /\ reader'.pc = "served" =>
       /\ \A c \in reader'.served : table[c].saw >= now - Window - Grace - TTL - 2 * CallTime
       /\ reader'.served = {} =>
            \A c \in Countries : table[c] # None => table[c].at < now - Window - Grace]_vars

(* No session exceeds the operator's bound, whatever Meld lists or hides,  *)
(* answers or not (onramp.ts:1189-1216).                                   *)
Choices == {None} \cup Providers
WithinFloor(amount) == Floor # None => Within(Floor, amount)
FloorIsACeiling ==
  \A x \in Buyers : IsPc(x, "known") =>
    \A chosen \in Choices, down \in SUBSET call[x].listed :
      \A amount \in Admitted(x, chosen, down) : WithinFloor(amount)

(* Health narrows a bound and does no more.  It lets through no amount the *)
(* corridor would not.  An amount that a provider it does not hide takes,  *)
(* or the one that made the buyer's offer, is refused only by the          *)
(* operator's bound; and when it hides every provider listed, and none of  *)
(* them made the offer, so is an amount any of them takes.  An amount that *)
(* only hidden providers take while another answers is refused             *)
(* (docs/api.md:62-76; view.ts:14-40, onramp.ts:1173-1187).                *)
HealthOnlyNarrows ==
  \A x \in Buyers : IsPc(x, "known") =>
    \A chosen \in Choices, down \in SUBSET call[x].listed :
      LET listed == call[x].listed
          counts == IF listed \subseteq down /\ chosen \notin listed THEN listed
                    ELSE {p \in listed : p \notin down \/ p = chosen}
          admitted == Admitted(x, chosen, down)
      IN /\ admitted \subseteq Admitted(x, chosen, {})
         /\ \A p \in counts, amount \in Amounts :
              Within(Limit[p], amount) /\ WithinFloor(amount) => amount \in admitted

(* A country that readers saw retired comes back only when it is written   *)
(* again (onramp.ts:231-234).                                              *)
RetiredStaysRetired ==
  [][reader' # reader /\ reader'.pc = "served" => reader'.served \cap retired = {}]_vars
=============================================================================
