--------------------------- MODULE TokenGrantsProofs ---------------------------
(***************************************************************************)
(* Proofs about TokenGrants, for any number of slots, scopes, commands and *)
(* calls, and any size of the cache.                                       *)
(***************************************************************************)
EXTENDS TokenGrants, FiniteSetTheorems, WellFoundedInduction, TLAPS

-----------------------------------------------------------------------------
(* The inductive invariant. *)

RequestRecord == [scope: Scope \cup {None}, generation: Nat, on: BOOLEAN,
                  read: SUBSET Slot, keys: Keys, grant: Grant \cup {None},
                  failure: Failed \cup {None}]

CheckRecord == [snapshot: Keys, plan: Health \cup {None}, expected: Nat, attempt: 0 .. MaxAttempts]

SaveRecord == [replace: SUBSET Slot, clear: SUBSET Slot, enabled: BOOLEAN, seen: Nat]

Label == {"idle", "lookup", "row", "slots", "exchange", "publish", "recheck", "markRead",
          "markWrite", "stamp", "commit", "evict", "done"}

RowOK == /\ live \in BOOLEAN /\ enabled \in BOOLEAN /\ health \in Health
         /\ updatedAt \in Nat /\ bound \in SUBSET Slot /\ revision \in [Slot -> Nat]

CacheOK == /\ entries \in SUBSET Entry /\ latest \in [Scope -> Nat \cup {None}]
           /\ generation \in Nat

PastOK == offered \in SUBSET Keys /\ proved \in Keys

\* A command is between a commit that changed credentials and the eviction that follows.
Evicting == \E w \in Saver : pc[w] = "evict"

OneSlot == \A s, t \in Slot : s = t

\* With one slot, the revision a grant reports is that of its credential.
Honest(g) == OneSlot => \A s \in Slot : g.keys[s] = g.revision

\* What a caller at label l knows.  An exchange that began before no eviction, while none is
\* pending, has read only credentials the instance still has.
RequestFits(l, r) ==
    /\ r.generation <= generation
    /\ l \in {"idle", "lookup", "row"} => r.read = {}
    /\ l = "idle" => r = NoRequest
    /\ l \in {"lookup", "row", "slots", "exchange", "publish"} => r.scope \in Scope
    /\ l \in {"exchange", "publish"} => r.read = Slot
    /\ l = "publish" => r.grant \in Grant /\ r.grant.keys = r.keys /\ Honest(r.grant)
    /\ r.grant # None => Honest(r.grant)
    /\ l \in {"slots", "exchange", "publish"} /\ r.generation = generation /\ ~Evicting
          => live /\ \A s \in r.read : r.keys[s] = Snapshot[s]

RequestsFit == \A a \in Caller : RequestFits(pc[a], request[a])

\* The labels of a caller up to its answer.
Early == {"idle", "lookup", "row", "slots", "exchange", "publish", "recheck"}

\* A validation about to write "ready" has a grant whose revision is every slot's; its attempts
\* are those of persist_validation_health.
ChecksFit ==
    \A v \in Validator :
        /\ pc[v] = "stamp" /\ check[v].plan = "ready" =>
              request[v].grant # None /\ Matches(request[v].grant, check[v].snapshot)
        /\ pc[v] = "stamp" => check[v].plan \in Health
        /\ pc[v] \in Early => check[v].attempt = 0
        /\ pc[v] = "markRead" => check[v].attempt < MaxAttempts

CacheFits ==
    /\ IsFiniteSet(entries)
    /\ \A e \in entries : Honest(e)
    /\ CacheIndexed
    /\ CacheIsSound

HealthFits == ClearedIsUnconfigured /\ (OneSlot => ReadyIsProved)

IInv == TypeOK /\ RequestsFit /\ ChecksFit /\ CacheFits /\ HealthFits

-----------------------------------------------------------------------------
(* Facts about constants and helpers. *)

LEMMA Nulls ==
    /\ NoKeys \in Keys /\ NoRequest \in RequestRecord /\ NoCheck \in CheckRecord
    /\ NoSave \in SaveRecord
    /\ None \notin Nat /\ None \notin Scope
    /\ \A a \in Caller : a \in Actor /\ a \notin Saver
    /\ \A w \in Saver : w \in Actor /\ w \notin Caller
    /\ \A a \in Acquirer : a \in Caller /\ a \notin Validator
    /\ \A v \in Validator : v \in Caller /\ v \notin Acquirer
BY GrantsAssumption DEF NoKeys, Keys, NoRequest, Answer, RequestRecord, NoCheck, CheckRecord, NoSave,
   SaveRecord, Caller, Actor

LEMMA TypeParts ==
    TypeOK <=> /\ RowOK /\ CacheOK /\ PastOK
               /\ pc \in [Actor -> Label]
               /\ request \in [Caller -> RequestRecord]
               /\ check \in [Validator -> CheckRecord]
               /\ save \in [Saver -> SaveRecord]
BY DEF TypeOK, RowOK, CacheOK, PastOK, Label, RequestRecord, CheckRecord, SaveRecord

LEMMA TypePartsNext ==
    TypeOK' <=> /\ RowOK' /\ CacheOK' /\ PastOK'
                /\ pc' \in [Actor -> Label]
                /\ request' \in [Caller -> RequestRecord]
                /\ check' \in [Validator -> CheckRecord]
                /\ save' \in [Saver -> SaveRecord]
BY DEF TypeOK, RowOK, CacheOK, PastOK, Label, RequestRecord, CheckRecord, SaveRecord

\* A finite set of numbers has a largest one: the element with the fewest above it.
LEMMA MaxIsThere ==
    ASSUME NEW S \in SUBSET Nat, IsFiniteSet(S), S # {}
    PROVE  Max(S) \in S /\ \A y \in S : Max(S) >= y
<1> DEFINE Above(x) == {y \in S : y > x}
           T == {Cardinality(Above(x)) : x \in S}
           R == OpToRel(<, Nat)
<1>1. \A x \in S : IsFiniteSet(Above(x)) /\ Cardinality(Above(x)) \in Nat
  BY FS_Subset, FS_CardinalityType
<1>2. T \subseteq Nat /\ T # {}
  BY <1>1
<1>3. \E n \in T : \A m \in T : <<m, n>> \notin R
  <2> HIDE DEF T, R
  <2>1. IsWellFoundedOn(R, Nat)
    BY NatLessThanWellFounded DEF R
  <2> QED BY <1>2, <2>1, WFMin
<1>4. PICK x \in S : \A y \in S : ~(Cardinality(Above(y)) < Cardinality(Above(x)))
  BY <1>1, <1>3 DEF OpToRel
<1>5. \A y \in S : x >= y
  <2> SUFFICES ASSUME NEW y \in S, y > x PROVE FALSE
    OBVIOUS
  <2>1. Above(y) \in SUBSET Above(x)
    <3> SUFFICES ASSUME NEW z \in S, z > y PROVE z > x
      OBVIOUS
    <3>1. x \in Nat /\ y \in Nat /\ z \in Nat
      OBVIOUS
    <3> QED BY <3>1
  <2>3. y \in Above(x) /\ y \notin Above(y)
    OBVIOUS
  <2> HIDE DEF Above
  <2>2. Cardinality(Above(y)) < Cardinality(Above(x))
    BY <1>1, <2>1, <2>3, FS_Subset
  <2> QED BY <1>4, <2>2
<1> QED BY <1>5 DEF Max

LEMMA SnapshotType == ASSUME RowOK PROVE Snapshot \in Keys
BY DEF RowOK, Snapshot, Keys

-----------------------------------------------------------------------------
(* What the steps of callers have in common. *)

\* A caller's step on its own request.  The cache is the business of who cites this.
LEMMA CallerStepOn ==
    ASSUME IInv, NEW a \in Caller, NEW r \in RequestRecord, NEW l \in Label \cap Early, pc[a] \in Early,
           request' = [request EXCEPT ![a] = r], pc' = [pc EXCEPT ![a] = l],
           UNCHANGED <<row, slots, generation, save, past>>, RequestFits(l, r),
           check' \in [Validator -> CheckRecord],
           \A v \in Validator : /\ check'[v].attempt = check[v].attempt
                                /\ v # a => check'[v] = check[v]
    PROVE  /\ RowOK' /\ PastOK' /\ generation' \in Nat
           /\ pc' \in [Actor -> Label] /\ request' \in [Caller -> RequestRecord]
           /\ save' \in [Saver -> SaveRecord]
           /\ RequestsFit' /\ ChecksFit' /\ HealthFits'
           /\ Evicting' = Evicting /\ Snapshot' = Snapshot /\ live' = live
<1>1. /\ RowOK /\ PastOK /\ generation \in Nat
      /\ pc \in [Actor -> Label] /\ request \in [Caller -> RequestRecord]
      /\ check \in [Validator -> CheckRecord] /\ save \in [Saver -> SaveRecord]
  BY TypeParts DEF IInv, CacheOK
<1>2. /\ live' = live /\ enabled' = enabled /\ health' = health /\ updatedAt' = updatedAt
      /\ bound' = bound /\ revision' = revision /\ generation' = generation
      /\ save' = save /\ offered' = offered /\ proved' = proved
  BY DEF row, slots, past
<1>3. RowOK' /\ PastOK' /\ generation' \in Nat
  BY <1>1, <1>2 DEF RowOK, PastOK
<1>4. pc' \in [Actor -> Label] /\ request' \in [Caller -> RequestRecord]
  BY <1>1, Nulls
<1>5. /\ \A b \in Caller : pc'[b] = (IF b = a THEN l ELSE pc[b])
      /\ \A b \in Caller : request'[b] = (IF b = a THEN r ELSE request[b])
      /\ \A w \in Saver : pc'[w] = pc[w]
  BY <1>1, Nulls
<1>6. Evicting' = Evicting
  BY <1>5 DEF Evicting
<1>7. Snapshot' = Snapshot
  BY <1>2 DEF Snapshot
<1>8. RequestsFit'
  <2> SUFFICES ASSUME NEW b \in Caller PROVE RequestFits(pc[b], request[b])'
    BY DEF RequestsFit
  <2>1. CASE b = a
    <3>1. pc'[b] = l /\ request'[b] = r
      BY <1>5, <2>1
    <3> QED BY <1>2, <1>6, <1>7, <3>1 DEF RequestFits, Honest, OneSlot
  <2>2. CASE b # a
    <3>1. pc'[b] = pc[b] /\ request'[b] = request[b]
      BY <1>5, <2>2
    <3>2. RequestFits(pc[b], request[b])
      BY DEF IInv, RequestsFit
    <3> QED BY <1>2, <1>6, <1>7, <3>1, <3>2 DEF RequestFits, Honest, OneSlot
  <2> QED BY <2>1, <2>2
<1>9. ChecksFit'
  <2> SUFFICES ASSUME NEW v \in Validator
               PROVE  /\ pc'[v] = "stamp" /\ check'[v].plan = "ready" =>
                            request'[v].grant # None /\ Matches(request'[v].grant, check'[v].snapshot)
                      /\ pc'[v] = "stamp" => check'[v].plan \in Health
                      /\ pc'[v] \in Early => check'[v].attempt = 0
                      /\ pc'[v] = "markRead" => check'[v].attempt < MaxAttempts
    BY DEF ChecksFit, Matches
  <2>1. CASE v = a
    <3>1. pc'[v] = l
      BY <1>5, <2>1, Nulls
    <3> QED BY <2>1, <3>1 DEF IInv, ChecksFit, Early
  <2>2. CASE v # a
    <3>1. pc'[v] = pc[v] /\ request'[v] = request[v] /\ check'[v] = check[v]
      BY <1>5, <2>2, Nulls
    <3> QED BY <3>1 DEF IInv, ChecksFit
  <2> QED BY <2>1, <2>2
<1>10. HealthFits'
  BY <1>2, <1>7 DEF IInv, HealthFits, ClearedIsUnconfigured, ReadyIsProved, OneSlot
<1> QED BY <1>1, <1>2, <1>3, <1>4, <1>6, <1>7, <1>8, <1>9, <1>10

LEMMA CallerStep ==
    ASSUME IInv, NEW a \in Caller, NEW r \in RequestRecord, NEW l \in Label \cap Early, pc[a] \in Early,
           request' = [request EXCEPT ![a] = r], pc' = [pc EXCEPT ![a] = l],
           UNCHANGED <<row, slots, generation, check, save, past>>, RequestFits(l, r)
    PROVE  /\ RowOK' /\ PastOK' /\ generation' \in Nat
           /\ pc' \in [Actor -> Label] /\ request' \in [Caller -> RequestRecord]
           /\ check' \in [Validator -> CheckRecord] /\ save' \in [Saver -> SaveRecord]
           /\ RequestsFit' /\ ChecksFit' /\ HealthFits'
           /\ Evicting' = Evicting /\ Snapshot' = Snapshot /\ live' = live
<1>1. check' = check /\ check' \in [Validator -> CheckRecord]
  BY TypeParts DEF IInv
<1> QED BY <1>1, CallerStepOn

\* A step that neither touches the cache nor what its entries are compared with.
LEMMA CacheStays ==
    ASSUME IInv, UNCHANGED cache, Evicting' = Evicting, Snapshot' = Snapshot, live' = live
    PROVE  CacheOK' /\ CacheFits'
<1>1. entries' = entries /\ latest' = latest /\ generation' = generation
  BY DEF cache
<1>2. CacheOK'
  BY <1>1, TypeParts DEF IInv, CacheOK
<1>3. CacheIndexed' /\ CacheBounded'
  BY <1>1 DEF IInv, CacheFits, CacheIndexed, CacheIsSound, CacheBounded, SameKey
<1>4. CacheIsCurrent'
  BY <1>1 DEF IInv, CacheFits, CacheIsSound, CacheIsCurrent, Current, Evicting
<1> QED BY <1>1, <1>2, <1>3, <1>4 DEF IInv, CacheFits, CacheIsSound, Honest, OneSlot

LEMMA CallerStepUncached ==
    ASSUME IInv, NEW a \in Caller, NEW r \in RequestRecord, NEW l \in Label \cap Early, pc[a] \in Early,
           request' = [request EXCEPT ![a] = r], pc' = [pc EXCEPT ![a] = l],
           UNCHANGED <<row, slots, cache, check, save, past>>, RequestFits(l, r)
    PROVE  IInv'
<1>1. generation' = generation
  BY DEF cache
<1>2. /\ RowOK' /\ PastOK'
      /\ pc' \in [Actor -> Label] /\ request' \in [Caller -> RequestRecord]
      /\ check' \in [Validator -> CheckRecord] /\ save' \in [Saver -> SaveRecord]
      /\ RequestsFit' /\ ChecksFit' /\ HealthFits'
      /\ Evicting' = Evicting /\ Snapshot' = Snapshot /\ live' = live
  BY <1>1, CallerStep
<1>3. CacheOK' /\ CacheFits'
  BY <1>2, CacheStays
<1> QED BY <1>2, <1>3, TypePartsNext DEF IInv

\* The answer of an acquire.
LEMMA ReturnStep ==
    ASSUME IInv, NEW a \in Caller, NEW g \in Grant \cup {None}, NEW f \in Failed \cup {None},
           g # None => Honest(g), Return(a, g, f)
    PROVE  \E r \in RequestRecord, l \in Label :
              /\ l \in Early /\ RequestFits(l, r)
              /\ request' = [request EXCEPT ![a] = r] /\ pc' = [pc EXCEPT ![a] = l]
<1>1. generation \in Nat
  BY TypeParts DEF IInv, CacheOK
<1>2. CASE a \in Validator
  <2> DEFINE r == Answer(g, f)
  <2>2. r \in RequestRecord
    BY Nulls DEF RequestRecord, Answer
  <2>4. "recheck" \in Label \cap Early
    BY DEF Label, Early
  <2>5. request' = [request EXCEPT ![a] = r] /\ pc' = [pc EXCEPT ![a] = "recheck"]
    BY <1>2 DEF Return, Goto
  <2>3. RequestFits("recheck", r)
    BY <1>1 DEF RequestFits, Answer
  <2> HIDE DEF r
  <2> QED BY <2>2, <2>3, <2>4, <2>5
<1>3. CASE a \notin Validator
  <2>1. RequestFits("idle", NoRequest)
    BY <1>1 DEF RequestFits, NoRequest, Answer
  <2>2. "idle" \in Label \cap Early
    BY DEF Label, Early
  <2>3. request' = [request EXCEPT ![a] = NoRequest] /\ pc' = [pc EXCEPT ![a] = "idle"]
    BY <1>3 DEF Return, Goto
  <2> QED BY <2>1, <2>2, <2>3, Nulls
<1> QED BY <1>2, <1>3

LEMMA ReturnInv ==
    ASSUME IInv, NEW a \in Caller, NEW g \in Grant \cup {None}, NEW f \in Failed \cup {None},
           g # None => Honest(g), Return(a, g, f), pc[a] \in Early,
           UNCHANGED <<row, slots, cache, check, save, past>>
    PROVE  IInv'
BY ReturnStep, CallerStepUncached

\* What a caller's request is before its step.
LEMMA RequestBefore ==
    ASSUME IInv, NEW a \in Caller
    PROVE  request[a] \in RequestRecord /\ RequestFits(pc[a], request[a])
           /\ generation \in Nat /\ request[a].generation \in Nat /\ Snapshot \in Keys
<1>1. request[a] \in RequestRecord /\ generation \in Nat /\ RowOK
  BY TypeParts DEF IInv, CacheOK
<1> QED BY <1>1, SnapshotType DEF IInv, RequestsFit, RequestRecord

-----------------------------------------------------------------------------
(* The steps of an acquire. *)

LEMMA AcquireInv ==
    ASSUME IInv, NEW a \in Caller, Acquire(a)
    PROVE  IInv'
<1>1. PICK p \in Scope : request' = [request EXCEPT ![a].scope = p]
  BY DEF Acquire
<1> DEFINE r == [request[a] EXCEPT !.scope = p]
<1>2. request[a] \in RequestRecord /\ RequestFits("idle", request[a])
  BY RequestBefore DEF Acquire
<1>3. request' = [request EXCEPT ![a] = r]
  BY <1>1
<1>4. r \in RequestRecord
  BY <1>2 DEF RequestRecord
<1>5. RequestFits("lookup", r)
  BY <1>2 DEF RequestFits, RequestRecord
<1>6. "lookup" \in Label
  BY DEF Label
<1> HIDE DEF r
<1> QED BY <1>3, <1>4, <1>5, <1>6, CallerStepUncached DEF Acquire, Goto, Early

LEMMA LookupInv ==
    ASSUME IInv, NEW a \in Caller, Lookup(a)
    PROVE  IInv'
<1>1. pc[a] \in Early /\ UNCHANGED <<row, slots, cache, check, save, past>>
  BY DEF Lookup, Early
<1>2. CASE \E e \in entries : Return(a, [revision |-> e.revision, keys |-> e.keys], None)
  <2>1. PICK e \in entries : Return(a, [revision |-> e.revision, keys |-> e.keys], None)
    BY <1>2
  <2>2. e \in Entry /\ Honest(e)
    BY TypeParts DEF IInv, CacheOK, CacheFits
  <2> DEFINE g == [revision |-> e.revision, keys |-> e.keys]
  <2>3. g \in Grant
    BY <2>2 DEF Entry, Grant
  <2>4. Honest(g)
    BY <2>2 DEF Honest
  <2> HIDE DEF g
  <2>5. Return(a, g, None)
    BY <2>1 DEF g
  <2> QED BY <1>1, <2>3, <2>4, <2>5, ReturnInv
<1>3. CASE /\ request' = [request EXCEPT ![a].generation = generation]
           /\ Goto(a, "row")
  <2> DEFINE r == [request[a] EXCEPT !.generation = generation]
  <2>1. request[a] \in RequestRecord /\ RequestFits("lookup", request[a]) /\ generation \in Nat
    BY RequestBefore DEF Lookup
  <2>2. request' = [request EXCEPT ![a] = r]
    BY <1>3
  <2>3. r \in RequestRecord
    BY <2>1 DEF RequestRecord
  <2>4. RequestFits("row", r)
    BY <2>1 DEF RequestFits, RequestRecord
  <2>5. "row" \in Label
    BY DEF Label
  <2> HIDE DEF r
  <2> QED BY <1>1, <1>3, <2>2, <2>3, <2>4, <2>5, CallerStepUncached DEF Goto, Early
<1> QED BY <1>2, <1>3 DEF Lookup

LEMMA LoadRowInv ==
    ASSUME IInv, NEW a \in Caller, LoadRow(a)
    PROVE  IInv'
<1>1. pc[a] \in Early /\ UNCHANGED <<row, slots, cache, check, save, past>>
  BY DEF LoadRow, Early
<1>2. CASE live
  <2> DEFINE r == [request[a] EXCEPT !.on = enabled]
  <2>1. request[a] \in RequestRecord /\ RequestFits("row", request[a])
    BY RequestBefore DEF LoadRow
  <2>2. request' = [request EXCEPT ![a] = r] /\ Goto(a, "slots")
    BY <1>2 DEF LoadRow
  <2>3. enabled \in BOOLEAN
    BY TypeParts DEF IInv, RowOK
  <2>4. r \in RequestRecord
    BY <2>1, <2>3 DEF RequestRecord
  <2>5. RequestFits("slots", r)
    BY <1>2, <2>1 DEF RequestFits, RequestRecord
  <2>6. "slots" \in Label
    BY DEF Label
  <2> HIDE DEF r
  <2> QED BY <1>1, <2>2, <2>4, <2>5, <2>6, CallerStepUncached DEF Goto, Early
<1>3. CASE ~live
  <2>1. Return(a, None, "degraded")
    BY <1>3 DEF LoadRow
  <2>2. "degraded" \in Failed
    BY DEF Failed
  <2> QED BY <1>1, <2>1, <2>2, ReturnInv
<1> QED BY <1>2, <1>3

LEMMA LoadSlotInv ==
    ASSUME IInv, NEW a \in Caller, LoadSlot(a)
    PROVE  IInv'
<1>1. pc[a] \in Early /\ UNCHANGED <<row, slots, cache, check, save, past>>
  BY DEF LoadSlot, Early
<1>2. PICK s \in Slot \ request[a].read :
         request' = [request EXCEPT ![a].read = @ \cup {s},
                                    ![a].keys[s] = IF s \in bound THEN revision[s] ELSE None]
  BY DEF LoadSlot
<1> DEFINE old == request[a]
           keys == [old.keys EXCEPT ![s] = Snapshot[s]]
           r == [old EXCEPT !.read = @ \cup {s}, !.keys = keys]
<1>3. old \in RequestRecord /\ RequestFits("slots", old) /\ Snapshot \in Keys
  BY RequestBefore DEF LoadSlot
<1>4. Snapshot[s] = IF s \in bound THEN revision[s] ELSE None
  BY DEF Snapshot
<1>5. request' = [request EXCEPT ![a] = r]
  BY <1>2, <1>3, <1>4 DEF RequestRecord
<1>6. keys \in Keys
  BY <1>3 DEF RequestRecord, Keys
<1>7. /\ r \in RequestRecord
      /\ r.scope = old.scope /\ r.generation = old.generation /\ r.grant = old.grant
      /\ r.read = old.read \cup {s} /\ r.keys = keys
  <2> DEFINE once == [old EXCEPT !.read = @ \cup {s}]
  <2>1. /\ once \in RequestRecord
        /\ once.scope = old.scope /\ once.generation = old.generation /\ once.grant = old.grant
        /\ once.read = old.read \cup {s}
    BY <1>3 DEF RequestRecord
  <2>2. r = [once EXCEPT !.keys = keys]
    OBVIOUS
  <2> HIDE DEF once, keys, r
  <2> QED BY <1>6, <2>1, <2>2 DEF RequestRecord
<1>9. \A t \in Slot : keys[t] = IF t = s THEN Snapshot[s] ELSE old.keys[t]
  BY <1>3 DEF RequestRecord, Keys
<1> DEFINE l == IF r.read = Slot THEN "exchange" ELSE "slots"
<1>10. RequestFits(l, r)
  BY <1>3, <1>7, <1>9 DEF RequestFits, RequestRecord
<1>11. request'[a].read = r.read
  BY <1>5, TypeParts DEF IInv
<1>12. pc' = [pc EXCEPT ![a] = l]
  BY <1>11 DEF LoadSlot, Goto
<1>13. l \in Label /\ l \in Early
  BY DEF Label, Early
<1> HIDE DEF r, l
<1> QED BY <1>1, <1>5, <1>7, <1>10, <1>12, <1>13, CallerStepUncached

LEMMA ExchangeInv ==
    ASSUME IInv, NEW a \in Caller, Exchange(a)
    PROVE  IInv'
<1> DEFINE old == request[a]
           ks == {old.keys[s] : s \in Slot}
           g == [revision |-> Max(ks), keys |-> old.keys]
           r == [old EXCEPT !.grant = g]
<1>1. old \in RequestRecord /\ RequestFits("exchange", old)
  BY RequestBefore DEF Exchange
<1>2. \A s \in Slot : old.keys[s] \in Nat
  BY <1>1 DEF Exchange, Loaded, RequestRecord, Keys
<1>3. ks \in SUBSET Nat /\ ks # {} /\ IsFiniteSet(ks)
  <2>1. ks \in SUBSET Nat /\ ks # {}
    BY <1>2, GrantsAssumption
  <2> DEFINE f == [s \in Slot |-> old.keys[s]]
  <2>2. f \in Surjection(Slot, ks)
    BY DEF Surjection
  <2> HIDE DEF f, ks
  <2>3. IsFiniteSet(ks)
    BY <2>2, GrantsAssumption, FS_Surjection
  <2> QED BY <2>1, <2>3
<1>4. Max(ks) \in ks
  <2> HIDE DEF ks
  <2> QED BY <1>3, MaxIsThere
<1>5. g \in Grant
  BY <1>1, <1>3, <1>4 DEF Grant, RequestRecord
<1>6. Honest(g)
  BY <1>4 DEF Honest, OneSlot
<1>7. r = [scope |-> old.scope, generation |-> old.generation, on |-> old.on,
           read |-> old.read, keys |-> old.keys, grant |-> g, failure |-> old.failure]
  BY <1>1 DEF RequestRecord
<1>8. g.keys = old.keys
  OBVIOUS
<1>9. request' = [request EXCEPT ![a] = r] /\ pc' = [pc EXCEPT ![a] = "publish"]
  BY DEF Exchange, Goto
<1> HIDE DEF g
<1>10. r \in RequestRecord
  BY <1>1, <1>5, <1>7 DEF RequestRecord
<1>11. RequestFits("publish", r)
  BY <1>1, <1>5, <1>6, <1>7, <1>8 DEF RequestFits
<1>12. "publish" \in Label
  BY DEF Label
<1> HIDE DEF r
<1> QED BY <1>9, <1>10, <1>11, <1>12, CallerStepUncached DEF Exchange, Early

LEMMA FailInv ==
    ASSUME IInv, NEW a \in Caller, ExchangeFails(a) \/ Abandon(a)
    PROVE  IInv'
<1>1. pc[a] \in Early /\ UNCHANGED <<row, slots, cache, check, save, past>>
  BY DEF ExchangeFails, Abandon, Early
<1>2. \E f \in Failed : Return(a, None, f)
  BY DEF ExchangeFails, Abandon, Failed
<1> QED BY <1>1, <1>2, ReturnInv

\* What a publication leaves in the cache.
LEMMA PublishCache ==
    ASSUME IInv, NEW a \in Caller, Publish(a),
           ~Outdated(request[a].scope, request[a].grant.revision, request[a].generation),
           Evicting' = Evicting, Snapshot' = Snapshot, live' = live
    PROVE  CacheOK' /\ CacheFits'
<1> DEFINE p == request[a].scope
           g == request[a].grant
           fresh == [scope |-> p, revision |-> g.revision, keys |-> g.keys, expired |-> FALSE]
<1>1. /\ request[a] \in RequestRecord /\ RequestFits("publish", request[a])
      /\ generation \in Nat
  BY RequestBefore DEF Publish
<1>2. /\ p \in Scope /\ g \in Grant /\ g.keys = request[a].keys /\ Honest(g)
      /\ request[a].read = Slot
  BY <1>1 DEF RequestFits
<1>3. g.revision \in Nat /\ g.keys \in Keys
  BY <1>2 DEF Grant
<1>4. PICK kept \in SUBSET entries :
         /\ Room(kept, p, g.revision)
         /\ entries' = {e \in kept : ~SameKey(e, p, g.revision)} \cup {fresh}
         /\ latest' = [IndexOf(kept) EXCEPT ![p] = g.revision]
  BY DEF Publish
<1>5. generation' = generation
  BY DEF Publish
<1>6. entries \in SUBSET Entry /\ latest \in [Scope -> Nat \cup {None}] /\ IsFiniteSet(entries)
      /\ (\A e \in entries : Honest(e)) /\ CacheIndexed /\ CacheIsCurrent /\ CacheBounded
      /\ Cardinality(entries) \in Nat
  <2>1. CacheOK /\ CacheFits
    BY TypeParts DEF IInv
  <2> QED BY <2>1, FS_CardinalityType DEF CacheOK, CacheFits, CacheIsSound
<1>7. fresh \in Entry /\ fresh.scope = p /\ fresh.revision = g.revision /\ fresh.keys = g.keys
  BY <1>2, <1>3 DEF Entry
<1> HIDE DEF fresh
<1>8. /\ IndexOf(kept) \in [Scope -> Nat \cup {None}]
      /\ \A q \in Scope : IndexOf(kept)[q] # None =>
            /\ IndexOf(kept)[q] = latest[q]
            /\ ~\E e \in entries \ kept : e.scope = q /\ Indexed(e)
  BY <1>6 DEF IndexOf
<1>9. CacheOK'
  <2>1. entries' \in SUBSET Entry
    BY <1>4, <1>6, <1>7
  <2>2. latest' \in [Scope -> Nat \cup {None}]
    <3> HIDE DEF p, g
    <3> QED BY <1>2, <1>3, <1>4, <1>8
  <2> QED BY <1>1, <1>5, <2>1, <2>2 DEF CacheOK
<1>10. \A e \in entries' : Honest(e)
  BY <1>2, <1>4, <1>6, <1>7 DEF Honest
<1>11. CacheIndexed'
  <2> SUFFICES ASSUME NEW q \in Scope, latest'[q] # None
               PROVE  \E e \in entries' : SameKey(e, q, latest'[q])
    BY DEF CacheIndexed, SameKey
  <2>1. CASE q = p
    <3>1. latest'[q] = g.revision
      BY <1>2, <1>4, <1>8, <2>1
    <3>2. fresh \in entries'
      BY <1>4
    <3> QED BY <1>7, <2>1, <3>1, <3>2 DEF SameKey
  <2>2. CASE q # p
    <3>1. latest'[q] = IndexOf(kept)[q]
      BY <1>4, <1>8, <2>2
    <3>2. latest'[q] = latest[q] /\ latest[q] # None
      BY <1>8, <3>1
    <3>3. PICK e \in entries : SameKey(e, q, latest[q])
      BY <1>6, <3>2 DEF CacheIndexed
    <3>4. e \in kept
      BY <1>8, <3>1, <3>3 DEF SameKey, Indexed
    <3>5. e \in entries'
      BY <1>4, <2>2, <3>3, <3>4 DEF SameKey
    <3> QED BY <3>2, <3>3, <3>5 DEF SameKey
  <2> QED BY <2>1, <2>2
<1>12. CacheIsCurrent'
  <2> SUFFICES ASSUME ~Evicting', NEW e \in entries' PROVE Current(e)'
    BY DEF CacheIsCurrent, Evicting, Current
  <2>1. CASE e \in entries
    BY <1>6, <2>1 DEF CacheIsCurrent, Current, Evicting
  <2>2. CASE e = fresh
    <3>1. request[a].generation = generation
      BY DEF Outdated
    <3>2. live /\ \A s \in Slot : request[a].keys[s] = Snapshot[s]
      BY <1>1, <1>2, <3>1 DEF RequestFits
    <3>3. request[a].keys = Snapshot
      <4>1. request[a].keys \in Keys /\ Snapshot \in Keys
        BY <1>1, RequestBefore DEF RequestRecord
      <4> QED BY <3>2, <4>1 DEF Keys
    <3> QED BY <1>2, <1>7, <2>2, <3>2, <3>3 DEF Current
  <2> QED BY <1>4, <2>1, <2>2
<1>13. IsFiniteSet(entries') /\ CacheBounded'
  <2> DEFINE rest == {e \in kept : ~SameKey(e, p, g.revision)}
  <2>1. rest \in SUBSET entries
    OBVIOUS
  <2>2. IsFiniteSet(rest) /\ Cardinality(rest) \in Nat
    BY <1>6, <2>1, FS_Subset, FS_CardinalityType
  <2>3. entries' = rest \cup {fresh}
    BY <1>4
  <2>4. IsFiniteSet(entries') /\ Cardinality(entries') <= Cardinality(rest) + 1
    <3> HIDE DEF rest
    <3>1. /\ IsFiniteSet(rest \cup {fresh})
          /\ Cardinality(rest \cup {fresh}) = IF fresh \in rest THEN Cardinality(rest)
                                              ELSE Cardinality(rest) + 1
      BY <2>2, FS_AddElement
    <3> QED BY <2>2, <2>3, <3>1
  <2>5. Cardinality(rest) < MaxEntries
    <3>1. CASE Cardinality(entries) < MaxEntries
      <4>1. Cardinality(rest) <= Cardinality(entries)
        BY <1>6, <2>1, FS_Subset
      <4> QED BY <1>6, <2>2, <3>1, <4>1, GrantsAssumption
    <3>2. CASE \E e \in entries : rest \subseteq entries \ {e}
      <4>1. PICK e \in entries : rest \subseteq entries \ {e}
        BY <3>2
      <4>2. IsFiniteSet(entries \ {e}) /\ Cardinality(entries \ {e}) = Cardinality(entries) - 1
        BY <1>6, FS_RemoveElement
      <4>3. Cardinality(rest) <= Cardinality(entries \ {e})
        <5> HIDE DEF rest
        <5> QED BY <4>1, <4>2, FS_Subset
      <4> QED BY <1>6, <2>2, <4>2, <4>3, GrantsAssumption DEF CacheBounded
    <3>3. ASSUME ~(Cardinality(entries) < MaxEntries)
          PROVE  \E e \in entries : rest \subseteq entries \ {e}
      <4>1. CASE \E e \in entries : SameKey(e, p, g.revision)
        BY <4>1
      <4>2. CASE ~\E e \in entries : SameKey(e, p, g.revision)
        <5>1. PICK e \in entries : kept = entries \ {e}
          BY <1>4, <3>3, <4>2 DEF Room
        <5> QED BY <5>1
      <4> QED BY <4>1, <4>2
    <3> QED BY <3>1, <3>2, <3>3
  <2>6. Cardinality(entries') \in Nat
    BY <2>4, FS_CardinalityType
  <2> QED BY <2>2, <2>4, <2>5, <2>6, GrantsAssumption DEF CacheBounded
<1> QED BY <1>9, <1>10, <1>11, <1>12, <1>13 DEF CacheFits, CacheIsSound, Honest, OneSlot

LEMMA PublishInv ==
    ASSUME IInv, NEW a \in Caller, Publish(a)
    PROVE  IInv'
<1> DEFINE g == request[a].grant
<1>1. RequestFits("publish", request[a])
  BY RequestBefore DEF Publish
<1>2. g \in Grant /\ Honest(g)
  BY <1>1 DEF RequestFits
<1>3. /\ pc[a] \in Early /\ Return(a, g, None)
      /\ UNCHANGED <<row, slots, generation, check, save, past>>
  BY DEF Publish, Early
<1>4. CASE Outdated(request[a].scope, g.revision, request[a].generation)
  <2>1. UNCHANGED <<row, slots, cache, check, save, past>>
    BY <1>3, <1>4 DEF Publish, cache
  <2> HIDE DEF g
  <2> QED BY <1>2, <1>3, <2>1, ReturnInv
<1>5. CASE ~Outdated(request[a].scope, g.revision, request[a].generation)
  <2>1. \E r \in RequestRecord, l \in Label :
           /\ l \in Early /\ RequestFits(l, r)
           /\ request' = [request EXCEPT ![a] = r] /\ pc' = [pc EXCEPT ![a] = l]
    <3> HIDE DEF g
    <3> QED BY <1>2, <1>3, ReturnStep
  <2>2. /\ RowOK' /\ PastOK'
        /\ pc' \in [Actor -> Label] /\ request' \in [Caller -> RequestRecord]
        /\ check' \in [Validator -> CheckRecord] /\ save' \in [Saver -> SaveRecord]
        /\ RequestsFit' /\ ChecksFit' /\ HealthFits'
        /\ Evicting' = Evicting /\ Snapshot' = Snapshot /\ live' = live
    BY <1>3, <2>1, CallerStep
  <2>3. CacheOK' /\ CacheFits'
    BY <1>5, <2>2, PublishCache
  <2> QED BY <2>2, <2>3, TypePartsNext DEF IInv
<1> QED BY <1>4, <1>5

LEMMA ExpireInv == ASSUME IInv, Expire PROVE IInv'
<1>1. PICK e \in entries : ~e.expired /\ entries' = (entries \ {e}) \cup {[e EXCEPT !.expired = TRUE]}
  BY DEF Expire
<1> DEFINE new == [e EXCEPT !.expired = TRUE]
<1>2. /\ live' = live /\ enabled' = enabled /\ health' = health /\ updatedAt' = updatedAt
      /\ bound' = bound /\ revision' = revision /\ generation' = generation /\ latest' = latest
      /\ check' = check /\ save' = save /\ offered' = offered /\ proved' = proved
      /\ pc' = pc /\ request' = request
  BY DEF Expire, row, slots, past
<1>3. entries \in SUBSET Entry /\ IsFiniteSet(entries) /\ CacheFits
  BY TypeParts DEF IInv, CacheOK, CacheFits
<1>4. /\ new \in Entry
      /\ new.scope = e.scope /\ new.revision = e.revision /\ new.keys = e.keys
  BY <1>3 DEF Entry
<1>5. entries' = (entries \ {e}) \cup {new}
  BY <1>1
<1> HIDE DEF new
<1>6. TypeOK'
  <2>1. entries' \in SUBSET Entry
    BY <1>3, <1>4, <1>5
  <2> QED BY <1>2, <2>1 DEF IInv, TypeOK
<1>7. Snapshot' = Snapshot /\ Evicting' = Evicting
  BY <1>2 DEF Snapshot, Evicting
<1>8. RequestsFit' /\ ChecksFit' /\ HealthFits'
  <2>1. RequestsFit'
    BY <1>2, <1>7 DEF IInv, RequestsFit, RequestFits, Honest, OneSlot
  <2>2. ChecksFit' /\ HealthFits'
    BY <1>2, <1>7 DEF IInv, ChecksFit, Matches, HealthFits, ClearedIsUnconfigured, ReadyIsProved, OneSlot
  <2> QED BY <2>1, <2>2
<1>9. CacheFits'
  <2>1. IsFiniteSet(entries') /\ CacheBounded'
    <3>1. IsFiniteSet(entries \ {e}) /\ Cardinality(entries \ {e}) = Cardinality(entries) - 1
      BY <1>1, <1>3, FS_RemoveElement
    <3>2. Cardinality(entries) \in Nat /\ Cardinality(entries \ {e}) \in Nat
      BY <1>3, <3>1, FS_CardinalityType
    <3>3. /\ IsFiniteSet(entries')
          /\ Cardinality(entries') \in {Cardinality(entries \ {e}), Cardinality(entries \ {e}) + 1}
      BY <1>5, <3>1, FS_AddElement
    <3> QED BY <1>3, <3>1, <3>2, <3>3, GrantsAssumption DEF CacheFits, CacheIsSound, CacheBounded
  <2>2. \A d \in entries' : Honest(d)
    BY <1>3, <1>4, <1>5 DEF CacheFits, Honest
  <2>3. CacheIndexed'
    <3> SUFFICES ASSUME NEW q \in Scope, latest[q] # None
                 PROVE  \E d \in entries' : SameKey(d, q, latest[q])
      BY <1>2 DEF CacheIndexed, SameKey
    <3>1. PICK d \in entries : SameKey(d, q, latest[q])
      BY <1>3 DEF CacheFits, CacheIndexed
    <3>2. CASE d = e
      BY <1>4, <1>5, <3>1, <3>2 DEF SameKey
    <3>3. CASE d # e
      BY <1>5, <3>1, <3>3
    <3> QED BY <3>2, <3>3
  <2>4. CacheIsCurrent'
    BY <1>2, <1>3, <1>4, <1>5, <1>7
       DEF CacheFits, CacheIsSound, CacheIsCurrent, Current, Evicting
  <2> QED BY <2>1, <2>2, <2>3, <2>4 DEF CacheFits, CacheIsSound, Honest, OneSlot
<1> QED BY <1>6, <1>8, <1>9 DEF IInv

-----------------------------------------------------------------------------
(* The steps of savers. *)

\* A saver's step leaves callers, cache and history of proofs alone.  Either an eviction is
\* pending after it, or the credentials are what they were.
LEMMA SaverStep ==
    ASSUME IInv, NEW w \in Saver, NEW l \in Label, pc' = [pc EXCEPT ![w] = l], pc[w] # "evict",
           UNCHANGED <<cache, request, check, proved>>,
           save' \in [Saver -> SaveRecord], RowOK', offered' \in SUBSET Keys,
           l = "evict" \/ (Snapshot' = Snapshot /\ live' = live)
    PROVE  TypeOK' /\ RequestsFit' /\ ChecksFit' /\ CacheFits'
<1>1. /\ CacheOK /\ PastOK /\ pc \in [Actor -> Label]
      /\ request \in [Caller -> RequestRecord] /\ check \in [Validator -> CheckRecord]
  BY TypeParts DEF IInv
<1>2. /\ entries' = entries /\ latest' = latest /\ generation' = generation
      /\ request' = request /\ check' = check /\ proved' = proved
  BY DEF cache
<1>3. pc' \in [Actor -> Label] /\ \A a \in Caller : pc'[a] = pc[a]
  BY <1>1, Nulls
<1>4. TypeOK'
  BY <1>1, <1>2, <1>3, TypePartsNext DEF CacheOK, PastOK
<1>5. Evicting' \/ (~Evicting /\ Snapshot' = Snapshot /\ live' = live)
      \/ (Evicting /\ Evicting')
  <2>1. pc'[w] = l /\ \A x \in Saver : x # w => pc'[x] = pc[x]
    BY <1>1, Nulls
  <2>2. CASE l = "evict"
    BY <2>1, <2>2 DEF Evicting
  <2>3. CASE l # "evict"
    <3>1. Evicting' = Evicting
      BY <2>1, <2>3 DEF Evicting
    <3> QED BY <2>3, <3>1
  <2> QED BY <2>2, <2>3
<1>6. RequestsFit'
  <2> SUFFICES ASSUME NEW a \in Caller PROVE RequestFits(pc[a], request[a])'
    BY DEF RequestsFit
  <2>1. RequestFits(pc[a], request[a])
    BY DEF IInv, RequestsFit
  <2> QED BY <1>2, <1>3, <1>5, <2>1 DEF RequestFits, Honest, OneSlot
<1>7. ChecksFit'
  BY <1>2, <1>3, Nulls DEF IInv, ChecksFit, Matches
<1>8. CacheFits'
  <2>1. CacheIndexed' /\ CacheBounded'
    BY <1>2 DEF IInv, CacheFits, CacheIndexed, CacheIsSound, CacheBounded, SameKey
  <2>2. CacheIsCurrent'
    BY <1>2, <1>5 DEF IInv, CacheFits, CacheIsSound, CacheIsCurrent, Current, Evicting
  <2> QED BY <1>2, <2>1, <2>2 DEF IInv, CacheFits, CacheIsSound, Honest, OneSlot
<1> QED BY <1>4, <1>6, <1>7, <1>8

LEMMA SaverBefore ==
    ASSUME IInv, NEW w \in Saver
    PROVE  /\ RowOK /\ offered \in SUBSET Keys /\ save \in [Saver -> SaveRecord]
           /\ save[w] \in SaveRecord /\ Snapshot \in Keys
           /\ "done" \in Label /\ "commit" \in Label /\ "evict" \in Label
BY TypeParts, SnapshotType DEF IInv, PastOK, Label

LEMMA BeginSaveInv ==
    ASSUME IInv, NEW w \in Saver, BeginSave(w)
    PROVE  IInv'
<1>1. PICK r \in SUBSET Slot, on \in BOOLEAN : \E c \in SUBSET (bound \ r) :
         save' = [save EXCEPT ![w] = [replace |-> r, clear |-> c, enabled |-> on,
                                      seen |-> updatedAt]]
  BY DEF BeginSave
<1>2. PICK c \in SUBSET (bound \ r) :
         save' = [save EXCEPT ![w] = [replace |-> r, clear |-> c, enabled |-> on,
                                      seen |-> updatedAt]]
  BY <1>1
<1>3. [replace |-> r, clear |-> c, enabled |-> on, seen |-> updatedAt] \in SaveRecord
  BY SaverBefore DEF RowOK, SaveRecord
<1>4. save' \in [Saver -> SaveRecord]
  BY <1>2, <1>3, SaverBefore
<1>5. /\ live' = live /\ enabled' = enabled /\ health' = health /\ updatedAt' = updatedAt
      /\ bound' = bound /\ revision' = revision
      /\ offered' = offered /\ proved' = proved
  BY DEF BeginSave, row, slots, past
<1>6. RowOK' /\ Snapshot' = Snapshot /\ offered' \in SUBSET Keys
  BY <1>5, SaverBefore DEF RowOK, Snapshot
<1>7. TypeOK' /\ RequestsFit' /\ ChecksFit' /\ CacheFits'
  <2>1. pc[w] # "evict" /\ pc' = [pc EXCEPT ![w] = "commit"] /\ UNCHANGED <<cache, request, check, proved>>
    BY <1>5 DEF BeginSave, Goto
  <2> QED BY <1>4, <1>5, <1>6, <2>1, SaverBefore, SaverStep
<1>8. HealthFits'
  BY <1>5, <1>6 DEF IInv, HealthFits, ClearedIsUnconfigured, ReadyIsProved, OneSlot
<1> QED BY <1>7, <1>8 DEF IInv

LEMMA SaveInv ==
    ASSUME IInv, NEW w \in Saver, Save(w)
    PROVE  IInv'
<1> DEFINE s == save[w]
           mutated == s.replace \cup s.clear
<1>1. s \in SaveRecord /\ RowOK
  BY SaverBefore
<1>2. /\ enabled' = s.enabled /\ bound' = (bound \cup s.replace) \ s.clear
      /\ revision' = [x \in Slot |-> IF x \in mutated THEN revision[x] + 1 ELSE revision[x]]
      /\ health' = LocalHealth(enabled', bound') /\ updatedAt' = updatedAt + 1
      /\ live /\ live' = live
      /\ offered' = offered \cup {Snapshot'} /\ proved' = proved
  BY DEF Save
<1>3. RowOK'
  <2>1. health' \in Health
    BY <1>2 DEF LocalHealth, Health
  <2>2. bound' \in SUBSET Slot /\ revision' \in [Slot -> Nat] /\ enabled' \in BOOLEAN
    BY <1>1, <1>2 DEF RowOK, SaveRecord
  <2> QED BY <1>1, <1>2, <2>1, <2>2 DEF RowOK
<1>4. Snapshot' \in Keys
  BY <1>3 DEF RowOK, Snapshot, Keys
<1>5. save' \in [Saver -> SaveRecord]
  BY SaverBefore, Nulls DEF Save
<1>6. mutated = {} => Snapshot' = Snapshot
  <2> SUFFICES ASSUME mutated = {} PROVE Snapshot' = Snapshot
    OBVIOUS
  <2>1. s.replace = {} /\ s.clear = {}
    OBVIOUS
  <2>2. bound' = bound
    BY <1>2, <2>1
  <2>3. \A x \in Slot : revision'[x] = revision[x]
    BY <1>2
  <2> QED BY <2>2, <2>3 DEF Snapshot
<1>7. TypeOK' /\ RequestsFit' /\ ChecksFit' /\ CacheFits'
  <2> DEFINE l == IF mutated # {} THEN "evict" ELSE "done"
  <2>1. /\ pc[w] # "evict" /\ pc' = [pc EXCEPT ![w] = l]
        /\ UNCHANGED <<cache, request, check, proved>>
    BY DEF Save, Goto
  <2>2. offered' \in SUBSET Keys
    BY <1>2, <1>4, SaverBefore
  <2>3. l \in Label /\ (l = "evict" \/ Snapshot' = Snapshot)
    BY <1>6 DEF Label
  <2> HIDE DEF l
  <2> QED BY <1>2, <1>3, <1>5, <2>1, <2>2, <2>3, SaverStep
<1>8. HealthFits'
  BY <1>2 DEF HealthFits, ClearedIsUnconfigured, ReadyIsProved, LocalHealth
<1> QED BY <1>7, <1>8 DEF IInv

LEMMA SaveFailsInv ==
    ASSUME IInv, NEW w \in Saver, SaveFails(w)
    PROVE  IInv'
<1>1. save' \in [Saver -> SaveRecord]
  BY SaverBefore, Nulls DEF SaveFails
<1>2. /\ live' = live /\ enabled' = enabled /\ health' = health /\ updatedAt' = updatedAt
      /\ bound' = bound /\ revision' = revision
      /\ offered' = offered /\ proved' = proved
  BY DEF SaveFails, row, slots, past
<1>3. RowOK' /\ Snapshot' = Snapshot /\ offered' \in SUBSET Keys
  BY <1>2, SaverBefore DEF RowOK, Snapshot
<1>4. TypeOK' /\ RequestsFit' /\ ChecksFit' /\ CacheFits'
  <2>1. pc[w] # "evict" /\ pc' = [pc EXCEPT ![w] = "done"] /\ UNCHANGED <<cache, request, check, proved>>
    BY <1>2 DEF SaveFails, Goto
  <2> QED BY <1>1, <1>2, <1>3, <2>1, SaverBefore, SaverStep
<1>5. HealthFits'
  BY <1>2, <1>3 DEF IInv, HealthFits, ClearedIsUnconfigured, ReadyIsProved, OneSlot
<1> QED BY <1>4, <1>5 DEF IInv

LEMMA SetEnabledInv ==
    ASSUME IInv, NEW w \in Saver, SetEnabled(w)
    PROVE  IInv'
<1>1. /\ live' = live /\ enabled' \in BOOLEAN /\ health' = health /\ updatedAt' = updatedAt + 1
      /\ bound' = bound /\ revision' = revision /\ save' = save
      /\ offered' = offered /\ proved' = proved
  BY DEF SetEnabled, slots, past
<1>2. RowOK' /\ Snapshot' = Snapshot /\ offered' \in SUBSET Keys /\ save' \in [Saver -> SaveRecord]
  <2>1. RowOK /\ offered \in SUBSET Keys /\ save \in [Saver -> SaveRecord]
    BY SaverBefore
  <2>2. updatedAt' \in Nat
    BY <1>1, <2>1 DEF RowOK
  <2>3. RowOK'
    BY <1>1, <2>1, <2>2 DEF RowOK
  <2>4. Snapshot' = Snapshot
    BY <1>1 DEF Snapshot
  <2> QED BY <1>1, <2>1, <2>3, <2>4
<1>3. TypeOK' /\ RequestsFit' /\ ChecksFit' /\ CacheFits'
  <2> DEFINE l == IF enabled' THEN "done" ELSE "evict"
  <2>1. pc[w] # "evict" /\ pc' = [pc EXCEPT ![w] = l] /\ UNCHANGED <<cache, request, check, proved>>
    BY <1>1 DEF SetEnabled, Goto
  <2>2. l \in Label
    BY DEF Label
  <2> HIDE DEF l
  <2> QED BY <1>1, <1>2, <2>1, <2>2, SaverStep
<1>4. HealthFits'
  BY <1>1, <1>2 DEF IInv, HealthFits, ClearedIsUnconfigured, ReadyIsProved, OneSlot
<1> QED BY <1>3, <1>4 DEF IInv

LEMMA DeleteInv ==
    ASSUME IInv, NEW w \in Saver, Delete(w)
    PROVE  IInv'
<1>1. /\ live' = FALSE /\ enabled' = enabled /\ health' = health /\ updatedAt' = updatedAt
      /\ bound' = {} /\ revision' = revision /\ save' = save
      /\ offered' = offered /\ proved' = proved
  BY DEF Delete, past
<1>2. RowOK' /\ offered' \in SUBSET Keys /\ save' \in [Saver -> SaveRecord]
  BY <1>1, SaverBefore DEF RowOK
<1>3. TypeOK' /\ RequestsFit' /\ ChecksFit' /\ CacheFits'
  <2>1. pc[w] # "evict" /\ pc' = [pc EXCEPT ![w] = "evict"] /\ UNCHANGED <<cache, request, check, proved>>
    BY <1>1 DEF Delete, Goto
  <2> QED BY <1>2, <2>1, SaverBefore, SaverStep
<1>4. HealthFits'
  BY <1>1 DEF HealthFits, ClearedIsUnconfigured, ReadyIsProved
<1> QED BY <1>3, <1>4 DEF IInv

\* An eviction empties the cache and makes every exchange under way outdated.
LEMMA EvictInv ==
    ASSUME IInv, NEW w \in Saver, Evict(w)
    PROVE  IInv'
<1>1. /\ live' = live /\ enabled' = enabled /\ health' = health /\ updatedAt' = updatedAt
      /\ bound' = bound /\ revision' = revision
      /\ offered' = offered /\ proved' = proved
      /\ request' = request /\ check' = check /\ save' = save
      /\ entries' = {} /\ latest' = [p \in Scope |-> None] /\ generation' = generation + 1
      /\ pc' = [pc EXCEPT ![w] = "done"]
  BY DEF Evict, Goto, row, slots, past
<1>2. /\ RowOK /\ PastOK /\ generation \in Nat /\ pc \in [Actor -> Label]
      /\ request \in [Caller -> RequestRecord] /\ check \in [Validator -> CheckRecord]
      /\ save \in [Saver -> SaveRecord]
  BY TypeParts DEF IInv, CacheOK
<1>3. pc' \in [Actor -> Label] /\ \A a \in Caller : pc'[a] = pc[a]
  BY <1>1, <1>2, Nulls DEF Label
<1>4. TypeOK'
  BY <1>1, <1>2, <1>3, TypePartsNext DEF RowOK, PastOK, CacheOK
<1>5. RequestsFit'
  <2> SUFFICES ASSUME NEW a \in Caller PROVE RequestFits(pc[a], request[a])'
    BY DEF RequestsFit
  <2>1. RequestFits(pc[a], request[a]) /\ request[a].generation \in Nat
    BY RequestBefore
  <2> QED BY <1>1, <1>2, <1>3, <2>1 DEF RequestFits, Honest, OneSlot
<1>6. ChecksFit'
  BY <1>1, <1>3, Nulls DEF IInv, ChecksFit, Matches
<1>7. CacheFits'
  <2>1. IsFiniteSet({}) /\ Cardinality({}) = 0
    BY FS_EmptySet
  <2> QED BY <1>1, <2>1, GrantsAssumption
          DEF CacheFits, CacheIndexed, CacheIsSound, CacheIsCurrent, CacheBounded
<1>8. HealthFits'
  <2>1. Snapshot' = Snapshot
    BY <1>1 DEF Snapshot
  <2> QED BY <1>1, <2>1 DEF IInv, HealthFits, ClearedIsUnconfigured, ReadyIsProved, OneSlot
<1> QED BY <1>4, <1>5, <1>6, <1>7, <1>8 DEF IInv

-----------------------------------------------------------------------------
(* The steps of validations. *)

\* A validation after its acquire: it changes its check, its label and the health.
LEMMA ValidatorStep ==
    ASSUME IInv, NEW v \in Validator, NEW c \in CheckRecord,
           NEW l \in {"markRead", "markWrite", "stamp", "done"},
           check' = [check EXCEPT ![v] = c], pc' = [pc EXCEPT ![v] = l],
           UNCHANGED <<live, enabled, slots, cache, request, save, offered>>,
           health' \in Health, updatedAt' \in Nat, proved' \in Keys, HealthFits',
           l = "stamp" /\ c.plan = "ready" =>
              request[v].grant # None /\ Matches(request[v].grant, c.snapshot),
           l = "stamp" => c.plan \in Health,
           l = "markRead" => c.attempt < MaxAttempts
    PROVE  IInv'
<1>1. /\ RowOK /\ PastOK /\ pc \in [Actor -> Label]
      /\ request \in [Caller -> RequestRecord] /\ check \in [Validator -> CheckRecord]
      /\ save \in [Saver -> SaveRecord]
  BY TypeParts DEF IInv
<1>2. /\ live' = live /\ enabled' = enabled /\ bound' = bound /\ revision' = revision
      /\ generation' = generation /\ request' = request /\ save' = save /\ offered' = offered
  BY DEF slots, cache
<1>3. l \in Label /\ l \notin Early
  BY DEF Label, Early
<1>4. /\ pc' \in [Actor -> Label] /\ check' \in [Validator -> CheckRecord]
      /\ \A a \in Caller : pc'[a] = (IF a = v THEN l ELSE pc[a])
      /\ \A w \in Saver : pc'[w] = pc[w]
      /\ \A x \in Validator : check'[x] = (IF x = v THEN c ELSE check[x])
  BY <1>1, <1>3, Nulls
<1>5. Evicting' = Evicting /\ Snapshot' = Snapshot
  BY <1>2, <1>4 DEF Evicting, Snapshot
<1>6. CacheOK' /\ CacheFits'
  BY <1>2, <1>5, CacheStays
<1>7. TypeOK'
  <2>1. RowOK' /\ PastOK'
    BY <1>1, <1>2 DEF RowOK, PastOK
  <2> QED BY <1>1, <1>2, <1>4, <1>6, <2>1, TypePartsNext
<1>8. RequestsFit'
  <2> SUFFICES ASSUME NEW a \in Caller PROVE RequestFits(pc[a], request[a])'
    BY DEF RequestsFit
  <2>1. RequestFits(pc[a], request[a])
    BY DEF IInv, RequestsFit
  <2>2. CASE a = v
    <3>1. pc'[a] = l
      BY <1>4, <2>2
    <3> QED BY <1>2, <2>1, <3>1 DEF RequestFits, Honest, OneSlot
  <2>3. CASE a # v
    <3>1. pc'[a] = pc[a]
      BY <1>4, <2>3
    <3> QED BY <1>2, <1>5, <2>1, <3>1 DEF RequestFits, Honest, OneSlot
  <2> QED BY <2>2, <2>3
<1>9. ChecksFit'
  <2> SUFFICES ASSUME NEW x \in Validator
               PROVE  /\ pc'[x] = "stamp" /\ check'[x].plan = "ready" =>
                            request[x].grant # None /\ Matches(request[x].grant, check'[x].snapshot)
                      /\ pc'[x] = "stamp" => check'[x].plan \in Health
                      /\ pc'[x] \in Early => check'[x].attempt = 0
                      /\ pc'[x] = "markRead" => check'[x].attempt < MaxAttempts
    BY <1>2 DEF ChecksFit, Matches
  <2>1. CASE x = v
    <3>1. pc'[x] = l /\ check'[x] = c
      BY <1>4, <2>1, Nulls
    <3> QED BY <1>3, <2>1, <3>1
  <2>2. CASE x # v
    <3>1. pc'[x] = pc[x] /\ check'[x] = check[x]
      BY <1>4, <2>2, Nulls
    <3> QED BY <3>1 DEF IInv, ChecksFit
  <2> QED BY <2>1, <2>2
<1> QED BY <1>6, <1>7, <1>8, <1>9 DEF IInv

LEMMA ValidatorBefore ==
    ASSUME IInv, NEW v \in Validator
    PROVE  /\ RowOK /\ proved \in Keys /\ Snapshot \in Keys /\ health \in Health /\ updatedAt \in Nat
           /\ check \in [Validator -> CheckRecord] /\ check[v] \in CheckRecord
           /\ request[v] \in RequestRecord /\ RequestFits(pc[v], request[v])
BY TypeParts, SnapshotType, RequestBefore, Nulls DEF IInv, RowOK, PastOK

\* A step that writes no row leaves the health as earned as it was.
LEMMA HealthStays ==
    ASSUME IInv, UNCHANGED <<row, slots, proved>>
    PROVE  HealthFits'
<1>1. live' = live /\ health' = health /\ bound' = bound /\ revision' = revision /\ proved' = proved
  BY DEF row, slots
<1>2. Snapshot' = Snapshot
  BY <1>1 DEF Snapshot
<1> QED BY <1>1, <1>2 DEF IInv, HealthFits, ClearedIsUnconfigured, ReadyIsProved, OneSlot

LEMMA BeginValidationInv ==
    ASSUME IInv, NEW v \in Validator, BeginValidation(v)
    PROVE  IInv'
<1>1. pc[v] = "idle" /\ v \in Caller /\ UNCHANGED <<row, slots, cache, save, past>>
  BY Nulls DEF BeginValidation
<1>2. check[v].attempt = 0 /\ pc[v] \in Early
  BY <1>1 DEF IInv, ChecksFit, Early
<1>3. CASE bound = Slot
  <2>1. PICK p \in Scope : request' = [request EXCEPT ![v].scope = p]
    BY <1>3 DEF BeginValidation
  <2> DEFINE r == [request[v] EXCEPT !.scope = p]
             c == [check[v] EXCEPT !.snapshot = Snapshot]
  <2>2. request' = [request EXCEPT ![v] = r] /\ check' = [check EXCEPT ![v] = c]
        /\ pc' = [pc EXCEPT ![v] = "lookup"]
    BY <1>3, <2>1 DEF BeginValidation, Goto
  <2>3. r \in RequestRecord
    BY ValidatorBefore DEF RequestRecord
  <2>4. RequestFits("lookup", r)
    BY <1>1, ValidatorBefore DEF RequestFits, RequestRecord
  <2>5. c \in CheckRecord /\ c.attempt = check[v].attempt
    BY ValidatorBefore DEF CheckRecord
  <2>6. "lookup" \in Label \cap Early
    BY DEF Label, Early
  <2>7. generation' = generation
    BY <1>1 DEF cache
  <2> HIDE DEF r, c
  <2>8. /\ check' \in [Validator -> CheckRecord]
        /\ \A x \in Validator : /\ check'[x].attempt = check[x].attempt
                                /\ x # v => check'[x] = check[x]
    BY <2>2, <2>5, ValidatorBefore
  <2>9. /\ RowOK' /\ PastOK'
        /\ pc' \in [Actor -> Label] /\ request' \in [Caller -> RequestRecord]
        /\ save' \in [Saver -> SaveRecord]
        /\ RequestsFit' /\ ChecksFit' /\ HealthFits'
        /\ Evicting' = Evicting /\ Snapshot' = Snapshot /\ live' = live
    BY <1>1, <1>2, <2>2, <2>3, <2>4, <2>6, <2>7, <2>8, CallerStepOn
  <2>10. CacheOK' /\ CacheFits'
    BY <1>1, <2>9, CacheStays
  <2> QED BY <2>8, <2>9, <2>10, TypePartsNext DEF IInv
<1>4. CASE bound # Slot
  <2>1. /\ check' = check /\ request' = request /\ pc' = [pc EXCEPT ![v] = "markRead"]
        /\ UNCHANGED <<live, enabled, slots, cache, request, save, offered>>
        /\ health' = health /\ updatedAt' = updatedAt /\ proved' = proved
        /\ UNCHANGED <<row, slots, proved>>
    BY <1>1, <1>4 DEF BeginValidation, Goto, row, past
  <2>2. check' = [check EXCEPT ![v] = check[v]]
    BY <2>1, ValidatorBefore
  <2>3. HealthFits'
    BY <2>1, HealthStays
  <2>4. check[v].attempt < MaxAttempts
    BY <1>2, GrantsAssumption
  <2> QED BY <2>1, <2>2, <2>3, <2>4, ValidatorBefore, ValidatorStep
<1> QED BY <1>3, <1>4

LEMMA RecheckInv ==
    ASSUME IInv, NEW v \in Validator, Recheck(v)
    PROVE  IInv'
<1>1. /\ pc[v] = "recheck" /\ UNCHANGED <<live, enabled, slots, cache, request, save, offered>>
      /\ health' = health /\ updatedAt' = updatedAt /\ proved' = proved
      /\ UNCHANGED <<row, slots, proved>>
  BY DEF Recheck, row, past
<1>2. HealthFits'
  BY <1>1, HealthStays
<1>3. check[v].attempt = 0
  BY <1>1 DEF IInv, ChecksFit, Early
<1>4. CASE bound # Slot
  <2>1. check' = [check EXCEPT ![v] = check[v]] /\ pc' = [pc EXCEPT ![v] = "markRead"]
    BY <1>4, ValidatorBefore DEF Recheck, Goto
  <2>2. check[v].attempt < MaxAttempts
    BY <1>3, GrantsAssumption
  <2> QED BY <1>1, <1>2, <2>1, <2>2, ValidatorBefore, ValidatorStep
<1>5. CASE bound = Slot
  <2> DEFINE g == request[v].grant
             plan == IF Snapshot # check[v].snapshot THEN "unvalidated"
                     ELSE IF request[v].failure = "invalid" THEN "unconfigured"
                     ELSE IF g = None THEN "degraded"
                     ELSE IF Matches(g, check[v].snapshot) THEN "ready"
                     ELSE "unvalidated"
             c == [check[v] EXCEPT !.plan = plan]
  <2>1. check' = [check EXCEPT ![v] = c] /\ pc' = [pc EXCEPT ![v] = "stamp"]
    BY <1>5 DEF Recheck, Goto
  <2>2. plan \in Health /\ (plan = "ready" => g # None /\ Matches(g, check[v].snapshot))
    BY DEF Health
  <2>3. c \in CheckRecord /\ c.plan = plan /\ c.snapshot = check[v].snapshot
    <3> HIDE DEF plan
    <3> QED BY <2>2, ValidatorBefore DEF CheckRecord
  <2> HIDE DEF plan, c
  <2> QED BY <1>1, <1>2, <2>1, <2>2, <2>3, ValidatorBefore, ValidatorStep
<1> QED BY <1>4, <1>5

LEMMA MarkReadInv ==
    ASSUME IInv, NEW v \in Validator, MarkRead(v)
    PROVE  IInv'
<1>1. /\ pc[v] = "markRead" /\ UNCHANGED <<live, enabled, slots, cache, request, save, offered>>
      /\ health' = health /\ updatedAt' = updatedAt /\ proved' = proved
      /\ UNCHANGED <<row, slots, proved>> /\ pc' = [pc EXCEPT ![v] = "markWrite"]
  BY DEF MarkRead, row, past, Goto
<1>2. HealthFits'
  BY <1>1, HealthStays
<1>3. check[v].attempt < MaxAttempts
  BY <1>1 DEF IInv, ChecksFit
<1> DEFINE once == [check[v] EXCEPT !.expected = updatedAt]
           c == [once EXCEPT !.attempt = @ + 1]
<1>4. once \in CheckRecord /\ once.attempt = check[v].attempt
  BY ValidatorBefore DEF CheckRecord
<1>5. check' = [check EXCEPT ![v] = c]
  BY DEF MarkRead
<1> HIDE DEF once
<1>6. c \in CheckRecord
  BY <1>3, <1>4, GrantsAssumption DEF CheckRecord
<1> HIDE DEF c
<1> QED BY <1>1, <1>2, <1>5, <1>6, ValidatorBefore, ValidatorStep

LEMMA MarkWriteInv ==
    ASSUME IInv, NEW v \in Validator, MarkWrite(v)
    PROVE  IInv'
<1>1. /\ pc[v] = "markWrite" /\ UNCHANGED <<live, enabled, slots, cache, request, save, offered>>
      /\ check' = check /\ proved' = proved
  BY DEF MarkWrite, past
<1>2. check' = [check EXCEPT ![v] = check[v]]
  BY <1>1, ValidatorBefore
<1>3. CASE updatedAt = check[v].expected
  <2>1. health' = "unconfigured" /\ updatedAt' = updatedAt + 1 /\ pc' = [pc EXCEPT ![v] = "done"]
    BY <1>3 DEF MarkWrite, Goto
  <2>2. HealthFits'
    BY <2>1 DEF HealthFits, ClearedIsUnconfigured, ReadyIsProved
  <2>3. health' \in Health /\ updatedAt' \in Nat
    BY <2>1, ValidatorBefore DEF Health
  <2> QED BY <1>1, <1>2, <2>1, <2>2, <2>3, ValidatorBefore, ValidatorStep
<1>4. CASE updatedAt # check[v].expected
  <2>1. health' = health /\ updatedAt' = updatedAt /\ UNCHANGED <<row, slots, proved>>
        /\ pc' = [pc EXCEPT ![v] = IF check[v].attempt < MaxAttempts THEN "markRead" ELSE "done"]
    BY <1>1, <1>4 DEF MarkWrite, Goto, row
  <2>2. HealthFits'
    BY <2>1, HealthStays
  <2> QED BY <1>1, <1>2, <2>1, <2>2, ValidatorBefore, ValidatorStep
<1> QED BY <1>3, <1>4

\* What a validation stamps is true of the credentials at that moment.
LEMMA StampInv ==
    ASSUME IInv, NEW v \in Validator, Stamp(v)
    PROVE  IInv'
<1>1. /\ pc[v] = "stamp" /\ UNCHANGED <<live, enabled, slots, cache, request, save, offered>>
      /\ check' = check /\ pc' = [pc EXCEPT ![v] = "done"]
      /\ health' = Stamped(v) /\ updatedAt' = updatedAt + 1
      /\ proved' = IF health' = "ready" THEN request[v].grant.keys ELSE proved
  BY DEF Stamp, Goto
<1>2. check' = [check EXCEPT ![v] = check[v]]
  BY <1>1, ValidatorBefore
<1>3. PICK plan : health' = plan /\ (plan = "ready" =>
         bound = Slot /\ Snapshot = check[v].snapshot /\ check[v].plan = "ready")
  BY <1>1 DEF Stamped
<1>4. health' = "ready" =>
         /\ bound = Slot /\ Snapshot = check[v].snapshot
         /\ request[v].grant # None /\ Matches(request[v].grant, Snapshot)
  BY <1>1, <1>3 DEF IInv, ChecksFit
<1>5. request[v].grant # None => request[v].grant \in Grant /\ Honest(request[v].grant)
  BY ValidatorBefore DEF RequestFits, RequestRecord
<1>6. proved' \in Keys
  BY <1>1, <1>4, <1>5, ValidatorBefore DEF Grant
<1>7. bound' = bound /\ live' = live /\ Snapshot' = Snapshot
  BY <1>1 DEF slots, Snapshot
<1>8. health' \in Health
  <2>1. check[v].plan \in Health
    BY <1>1 DEF IInv, ChecksFit
  <2> QED BY <1>1, <2>1 DEF Stamped, Health
<1>9. HealthFits'
  <2>1. ClearedIsUnconfigured'
    BY <1>1, <1>7 DEF ClearedIsUnconfigured, Stamped
  <2>2. ASSUME OneSlot PROVE ReadyIsProved'
    <3> SUFFICES ASSUME health' = "ready" PROVE request[v].grant.keys = Snapshot
      BY <1>1, <1>7 DEF ReadyIsProved
    <3>1. request[v].grant.keys \in Keys /\ Snapshot \in Keys
      BY <1>4, <1>5, ValidatorBefore DEF Grant
    <3>2. \A s \in Slot : request[v].grant.keys[s] = Snapshot[s]
      BY <1>4, <1>5, <2>2 DEF Honest, Matches
    <3> QED BY <3>1, <3>2 DEF Keys
  <2> QED BY <2>1, <2>2 DEF HealthFits, OneSlot
<1>10. updatedAt' \in Nat
  BY <1>1, ValidatorBefore
<1> QED BY <1>1, <1>2, <1>6, <1>8, <1>9, <1>10, ValidatorBefore, ValidatorStep

LEMMA ValidationFailsInv ==
    ASSUME IInv, NEW v \in Validator, ValidationFails(v)
    PROVE  IInv'
<1>1. /\ UNCHANGED <<live, enabled, slots, cache, request, save, offered>> /\ check' = check
      /\ health' = health /\ updatedAt' = updatedAt /\ proved' = proved
      /\ UNCHANGED <<row, slots, proved>> /\ pc' = [pc EXCEPT ![v] = "done"]
  BY DEF ValidationFails, row, past, Goto
<1>2. HealthFits'
  BY <1>1, HealthStays
<1>3. check' = [check EXCEPT ![v] = check[v]]
  BY <1>1, ValidatorBefore
<1> QED BY <1>1, <1>2, <1>3, ValidatorBefore, ValidatorStep

-----------------------------------------------------------------------------
(* The theorems. *)

LEMMA InitInv == ASSUME Init PROVE IInv
<1>1. RowOK /\ CacheOK /\ PastOK
  <2>1. RowOK
    BY DEF Init, RowOK, LocalHealth, Health
  <2>2. Snapshot \in Keys
    BY <2>1, SnapshotType
  <2> QED BY <2>1, <2>2, Nulls DEF Init, CacheOK, PastOK
<1>2. TypeOK
  BY <1>1, Nulls, TypeParts DEF Init, Label
<1>3. RequestsFit
  <2>1. RequestFits("idle", NoRequest)
    BY DEF Init, RequestFits, NoRequest, Answer
  <2> QED BY <2>1, Nulls DEF Init, RequestsFit
<1>4. ChecksFit
  BY Nulls DEF Init, ChecksFit, NoCheck
<1>5. CacheFits
  <2>1. IsFiniteSet({}) /\ Cardinality({}) = 0
    BY FS_EmptySet
  <2> QED BY <2>1, GrantsAssumption
          DEF Init, CacheFits, CacheIndexed, CacheIsSound, CacheIsCurrent, CacheBounded
<1>6. HealthFits
  BY DEF Init, HealthFits, ClearedIsUnconfigured, ReadyIsProved, LocalHealth
<1> QED BY <1>2, <1>3, <1>4, <1>5, <1>6 DEF IInv

LEMMA NextInv == ASSUME IInv, [Next]_vars PROVE IInv'
<1>1. ASSUME NEW a \in Caller, AcquireStep(a) PROVE IInv'
  BY <1>1, LookupInv, LoadRowInv, LoadSlotInv, ExchangeInv, FailInv, PublishInv DEF AcquireStep
<1>2. CASE \E a \in Acquirer : Acquire(a) \/ AcquireStep(a)
  BY <1>1, <1>2, AcquireInv, Nulls
<1>3. CASE \E w \in Saver : BeginSave(w) \/ SetEnabled(w) \/ Delete(w) \/ SaveStep(w)
  BY <1>3, BeginSaveInv, SetEnabledInv, DeleteInv, SaveInv, SaveFailsInv, EvictInv DEF SaveStep
<1>4. CASE \E v \in Validator : BeginValidation(v) \/ ValidateStep(v)
  BY <1>1, <1>4, BeginValidationInv, RecheckInv, MarkReadInv, MarkWriteInv, StampInv,
     ValidationFailsInv, Nulls DEF ValidateStep
<1>5. CASE Expire
  BY <1>5, ExpireInv
<1>6. CASE UNCHANGED vars
  <2>1. /\ UNCHANGED <<row, slots, cache, past>>
        /\ pc' = pc /\ request' = request /\ check' = check /\ save' = save
    BY <1>6 DEF vars
  <2>2. /\ live' = live /\ enabled' = enabled /\ health' = health /\ updatedAt' = updatedAt
        /\ bound' = bound /\ revision' = revision /\ generation' = generation
        /\ offered' = offered /\ proved' = proved
    BY <2>1 DEF row, slots, cache, past
  <2>3. Evicting' = Evicting /\ Snapshot' = Snapshot
    BY <2>1, <2>2 DEF Evicting, Snapshot
  <2>4. CacheOK' /\ CacheFits'
    BY <2>1, <2>2, <2>3, CacheStays
  <2>5. TypeOK'
    BY <2>1, <2>2, <2>4, TypeParts, TypePartsNext DEF IInv, RowOK, PastOK
  <2>6. RequestsFit'
    BY <2>1, <2>2, <2>3 DEF IInv, RequestsFit, RequestFits, Honest, OneSlot
  <2>7. ChecksFit' /\ HealthFits'
    BY <2>1, <2>2, <2>3
       DEF IInv, ChecksFit, Matches, HealthFits, ClearedIsUnconfigured, ReadyIsProved, OneSlot
  <2> QED BY <2>4, <2>5, <2>6, <2>7 DEF IInv
<1> QED BY <1>2, <1>3, <1>4, <1>5, <1>6 DEF Next

LEMMA Invariance == Spec => []IInv
BY InitInv, NextInv, PTL DEF Spec

\* Rows, bindings, cache and the state of every command keep their form
\* (services/token_grant.rs, services/service_integrations.rs).
THEOREM TypeCorrect == Spec => []TypeOK
<1>1. IInv => TypeOK
  BY DEF IInv
<1> QED BY <1>1, Invariance, PTL

\* Outside the moment between a commit and its eviction no cached token is of credentials that
\* were replaced, cleared or deleted, whatever exchange was in flight; and the cache keeps its
\* bound (publish_grant and evict_instance, token_grant.rs).
THEOREM CachedGrantsAreSound == Spec => []CacheIsSound
<1>1. IInv => CacheIsSound
  BY DEF IInv, CacheFits
<1> QED BY <1>1, Invariance, PTL

\* A revision the index names is in the cache: an eviction for room takes its index along.
THEOREM IndexNeverDangles == Spec => []CacheIndexed
<1>1. IInv => CacheIndexed
  BY DEF IInv, CacheFits
<1> QED BY <1>1, Invariance, PTL

\* With one credential slot, "ready" is only ever about the credentials the instance has, and
\* without a required credential it is unconfigured (persist_remote_validation_health).
THEOREM HealthIsTrue == OneSlot => (Spec => []HealthIsEarned)
<1>1. OneSlot /\ IInv => HealthIsEarned
  BY DEF IInv, HealthFits, HealthIsEarned
<1>2. ASSUME OneSlot PROVE Spec => []HealthIsEarned
  <2>1. IInv => HealthIsEarned
    BY <1>1, <1>2
  <2> QED BY <2>1, Invariance, PTL
<1> QED BY <1>2
=============================================================================
