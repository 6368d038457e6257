----------------------------- MODULE TokenGrants -----------------------------
(***************************************************************************)
(* Access-token grants of one integration instance, and its health.        *)
(*                                                                         *)
(* TokenGrantService caches a token per scope and credential revision.  An *)
(* acquire looks the cache up under the lock, exchanges the credentials    *)
(* without it, and publishes under it again.  Meanwhile saves, disables    *)
(* and deletes commit to SQLite first and evict the cache afterwards, and  *)
(* validate_instance acquires a grant to stamp a health on the row.        *)
(*                                                                         *)
(* SQLite reads outside a transaction are autocommit statements, one       *)
(* action each.  A credential is identified by its slot's revision, which  *)
(* every replace and clear increments.  The vault and its journal are      *)
(* CredentialJournal's subject: here a mutation is its commit.             *)
(***************************************************************************)
EXTENDS Naturals, FiniteSetsExt

CONSTANTS
    Slot,        \* the credential slots the manifest requires
    Scope,       \* normalized scope sets
    Saver,       \* save, set_enabled and delete commands, one each
    Acquirer,    \* capability calls, over and over
    Validator,   \* validate_instance commands, one each
    AnyPair,     \* may the endpoint accept credentials never saved together?
    MaxEntries,  \* TOKEN_CACHE_MAX_ENTRIES
    MaxAttempts, \* VALIDATION_HEALTH_WRITE_MAX_ATTEMPTS
    None

Caller == Acquirer \cup Validator
Actor  == Caller \cup Saver

ASSUME GrantsAssumption ==
    /\ Slot # {} /\ IsFiniteSet(Slot) /\ Scope # {}
    /\ AnyPair \in BOOLEAN
    /\ MaxEntries \in Nat \ {0} /\ MaxAttempts \in Nat \ {0}
    /\ None \notin Nat \cup Scope
    /\ Acquirer \cap Validator = {} /\ Caller \cap Saver = {}

Health == {"unconfigured", "unvalidated", "ready", "degraded"}
Keys   == [Slot -> Nat \cup {None}]
Grant  == [revision: Nat, keys: Keys]
Entry  == [scope: Scope, revision: Nat, keys: Keys, expired: BOOLEAN]
Failed == {"invalid", "degraded"}

VARIABLES
    live,       \* the instance row exists
    enabled,
    health,     \* health_status
    updatedAt,  \* version of the row: how often it was written
    bound,      \* slots whose credential_ref is set
    revision,   \* credential_revision of each slot
    entries,    \* the cache
    latest,     \* the revision indexed for each scope
    generation, \* evictions of the instance
    pc,
    request,    \* the acquire a caller is in: what it read so far, and its grant
    check,      \* a validation: its snapshot and what it is about to write
    save,       \* a save in flight
    offered,    \* history: the credentials the instance has had
    proved      \* history: the keys of the grant the last "ready" rested on

row   == <<live, enabled, health, updatedAt>>
slots == <<bound, revision>>
cache == <<entries, latest, generation>>
past  == <<offered, proved>>
vars  == <<row, slots, cache, pc, request, check, save, past>>

NoKeys    == [s \in Slot |-> None]

\* Of a request that has been answered, the grant or the failure is left.
Answer(grant, failure) == [scope |-> None, generation |-> 0, on |-> FALSE, read |-> {},
                           keys |-> NoKeys, grant |-> grant, failure |-> failure]

NoRequest == Answer(None, None)
NoCheck   == [snapshot |-> NoKeys, plan |-> None, expected |-> 0, attempt |-> 0]
NoSave    == [replace |-> {}, clear |-> {}, enabled |-> FALSE, seen |-> 0]

TypeOK ==
    /\ live \in BOOLEAN /\ enabled \in BOOLEAN
    /\ health \in Health
    /\ updatedAt \in Nat
    /\ bound \in SUBSET Slot /\ revision \in [Slot -> Nat]
    /\ entries \in SUBSET Entry
    /\ latest \in [Scope -> Nat \cup {None}]
    /\ generation \in Nat
    /\ pc \in [Actor -> {"idle", "lookup", "row", "slots", "exchange", "publish", "recheck",
                         "markRead", "markWrite", "stamp", "commit", "evict", "done"}]
    /\ request \in [Caller -> [scope: Scope \cup {None}, generation: Nat, on: BOOLEAN,
                               read: SUBSET Slot, keys: Keys, grant: Grant \cup {None},
                               failure: Failed \cup {None}]]
    /\ check \in [Validator -> [snapshot: Keys, plan: Health \cup {None}, expected: Nat,
                                attempt: 0 .. MaxAttempts]]
    /\ save \in [Saver -> [replace: SUBSET Slot, clear: SUBSET Slot, enabled: BOOLEAN, seen: Nat]]
    /\ offered \in SUBSET Keys /\ proved \in Keys

\* Mutant: a disabled instance is stored as one more health.
LocalHealthDisabled(on, present) ==
    IF ~on THEN "disabled" ELSE IF present = Slot THEN "unvalidated" ELSE "unconfigured"

\* compute_local_health of a remotely authenticated plug-in with a valid configuration.
LocalHealth(on, present) == IF present = Slot THEN "unvalidated" ELSE "unconfigured"

\* snapshot_required_credentials: which credential each slot has now.
Snapshot == [s \in Slot |-> IF s \in bound THEN revision[s] ELSE None]

Init ==
    /\ live = TRUE
    /\ enabled \in BOOLEAN
    /\ bound \in SUBSET Slot
    /\ health = LocalHealth(enabled, bound)
    /\ updatedAt = 0
    /\ revision = [s \in Slot |-> 0]
    /\ entries = {}
    /\ latest = [p \in Scope |-> None]
    /\ generation = 0
    /\ pc = [a \in Actor |-> "idle"]
    /\ request = [a \in Caller |-> NoRequest]
    /\ check = [v \in Validator |-> NoCheck]
    /\ save = [w \in Saver |-> NoSave]
    /\ offered = {Snapshot}
    /\ proved = NoKeys

Goto(a, label) == pc' = [pc EXCEPT ![a] = label]

-----------------------------------------------------------------------------
(* TokenGrantService::acquire, by a capability call or a validation. *)

\* The caller has its answer: a grant, or else how the exchange failed.
Return(a, grant, failure) ==
    IF a \in Validator
    THEN /\ request' = [request EXCEPT ![a] = Answer(grant, failure)]
         /\ Goto(a, "recheck")
    ELSE /\ request' = [request EXCEPT ![a] = NoRequest]
         /\ Goto(a, "idle")

Acquire(a) ==
    /\ a \in Acquirer
    /\ pc[a] = "idle"
    /\ \E p \in Scope : request' = [request EXCEPT ![a].scope = p]
    /\ Goto(a, "lookup")
    /\ UNCHANGED <<row, slots, cache, check, save, past>>

Indexed(e) == latest[e.scope] = e.revision

Lookup(a) ==
    LET hits == {e \in entries : e.scope = request[a].scope /\ Indexed(e) /\ ~e.expired} IN
    /\ pc[a] = "lookup"
    /\ \/ \E e \in hits : Return(a, [revision |-> e.revision, keys |-> e.keys], None)
       \/ /\ hits = {}
          /\ request' = [request EXCEPT ![a].generation = generation]
          /\ Goto(a, "row")
    /\ UNCHANGED <<row, slots, cache, check, save, past>>

\* The exchanger loads the instance, then each binding.
LoadRow(a) ==
    /\ pc[a] = "row"
    /\ IF live
       THEN request' = [request EXCEPT ![a].on = enabled] /\ Goto(a, "slots")
       ELSE Return(a, None, "degraded")
    /\ UNCHANGED <<row, slots, cache, check, save, past>>

LoadSlot(a) ==
    /\ pc[a] = "slots"
    /\ \E s \in Slot \ request[a].read :
          request' = [request EXCEPT ![a].read = @ \cup {s},
                                     ![a].keys[s] = IF s \in bound THEN revision[s] ELSE None]
    /\ Goto(a, IF request'[a].read = Slot THEN "exchange" ELSE "slots")
    /\ UNCHANGED <<row, slots, cache, check, save, past>>

Loaded(a) == request[a].on /\ \A s \in Slot : request[a].keys[s] # None

\* The vault read and the token endpoint: a token, or a failure of either.
Exchange(a) ==
    /\ pc[a] = "exchange"
    /\ Loaded(a)
    /\ AnyPair \/ request[a].keys \in offered
    /\ request' = [request EXCEPT ![a].grant =
                      [revision |-> Max({request[a].keys[s] : s \in Slot}), keys |-> request[a].keys]]
    /\ Goto(a, "publish")
    /\ UNCHANGED <<row, slots, cache, check, save, past>>

ExchangeFails(a) ==
    /\ pc[a] = "exchange"
    /\ IF Loaded(a)
       THEN \E failure \in Failed : Return(a, None, failure)
       ELSE Return(a, None, IF request[a].on THEN "invalid" ELSE "degraded")
    /\ UNCHANGED <<row, slots, cache, check, save, past>>

\* The validation timeout, or the cancellation of a call: the acquire is dropped.
Abandon(a) ==
    /\ pc[a] \in {"row", "slots", "exchange"}
    /\ Return(a, None, "degraded")
    /\ UNCHANGED <<row, slots, cache, check, save, past>>

SameKey(e, p, rev) == e.scope = p /\ e.revision = rev

\* What stays when an entry for this key is inserted: at the bound, a victim goes,
\* an expired one if there is any.
Room(kept, p, rev) ==
    IF Cardinality(entries) < MaxEntries \/ \E e \in entries : SameKey(e, p, rev)
    THEN kept = entries
    ELSE \E e \in entries :
            /\ e.expired \/ \A d \in entries : ~d.expired
            /\ kept = entries \ {e}

\* Mutant: the index of a victim stays.
IndexKept(kept) == latest

\* The victim leaves the index too, if the index names it.
IndexOf(kept) ==
    [p \in Scope |-> IF \E e \in entries \ kept : e.scope = p /\ Indexed(e) THEN None ELSE latest[p]]

\* Mutant: what was evicted during the exchange does not matter.
OutdatedIgnored(p, rev, before) == latest[p] # None /\ latest[p] > rev

\* An eviction, or a newer revision, came between: the grant is not cached.
Outdated(p, rev, before) ==
    \/ generation # before
    \/ latest[p] # None /\ latest[p] > rev

Publish(a) ==
    LET p == request[a].scope
        g == request[a].grant
        fresh == [scope |-> p, revision |-> g.revision, keys |-> g.keys, expired |-> FALSE]
    IN
    /\ pc[a] = "publish"
    /\ IF Outdated(p, g.revision, request[a].generation)
       THEN UNCHANGED <<entries, latest>>
       ELSE \E kept \in SUBSET entries :
               /\ Room(kept, p, g.revision)
               /\ entries' = {e \in kept : ~SameKey(e, p, g.revision)} \cup {fresh}
               /\ latest' = [IndexOf(kept) EXCEPT ![p] = g.revision]
    /\ Return(a, g, None)
    /\ UNCHANGED <<row, slots, generation, check, save, past>>

\* Time passes.
Expire ==
    /\ \E e \in entries :
          ~e.expired /\ entries' = (entries \ {e}) \cup {[e EXCEPT !.expired = TRUE]}
    /\ UNCHANGED <<row, slots, latest, generation, pc, request, check, save, past>>

-----------------------------------------------------------------------------
(* save, set_enabled and delete. *)

\* Mutant: the cache is emptied of tokens, its index and its entries kept.
EvictLookupsOnly(w) ==
    /\ pc[w] = "evict"
    /\ latest' = [p \in Scope |-> None]
    /\ generation' = generation + 1
    /\ Goto(w, "done")
    /\ UNCHANGED <<row, slots, entries, request, check, save, past>>

Evict(w) ==
    /\ pc[w] = "evict"
    /\ entries' = {}
    /\ latest' = [p \in Scope |-> None]
    /\ generation' = generation + 1
    /\ Goto(w, "done")
    /\ UNCHANGED <<row, slots, request, check, save, past>>

\* A save reads the row it was opened on; the bindings it reads next can only have
\* changed together with the version.
BeginSave(w) ==
    /\ pc[w] = "idle"
    /\ live
    /\ \E r \in SUBSET Slot, on \in BOOLEAN : \E c \in SUBSET (bound \ r) :
          save' = [save EXCEPT ![w] = [replace |-> r, clear |-> c, enabled |-> on,
                                       seen |-> updatedAt]]
    /\ Goto(w, "commit")
    /\ UNCHANGED <<row, slots, cache, request, check, past>>

Save(w) ==
    LET mutated == save[w].replace \cup save[w].clear IN
    /\ pc[w] = "commit"
    /\ live /\ updatedAt = save[w].seen
    /\ enabled' = save[w].enabled
    /\ bound' = (bound \cup save[w].replace) \ save[w].clear
    /\ revision' = [s \in Slot |-> IF s \in mutated THEN revision[s] + 1 ELSE revision[s]]
    /\ health' = LocalHealth(enabled', bound')
    /\ updatedAt' = updatedAt + 1
    /\ offered' = offered \cup {Snapshot'}
    /\ save' = [save EXCEPT ![w] = NoSave]
    /\ Goto(w, IF mutated # {} THEN "evict" ELSE "done")
    /\ UNCHANGED <<live, cache, request, check, proved>>

\* The compare-and-set on updated_at, a binding's, or SQLite refuses.
SaveFails(w) ==
    /\ pc[w] = "commit"
    /\ save' = [save EXCEPT ![w] = NoSave]
    /\ Goto(w, "done")
    /\ UNCHANGED <<row, slots, cache, request, check, past>>

SetEnabled(w) ==
    /\ pc[w] = "idle"
    /\ live
    /\ enabled' \in BOOLEAN
    /\ updatedAt' = updatedAt + 1
    /\ Goto(w, IF enabled' THEN "done" ELSE "evict")
    /\ UNCHANGED <<live, health, slots, cache, request, check, save, past>>

Delete(w) ==
    /\ pc[w] = "idle"
    /\ live
    /\ live' = FALSE
    /\ bound' = {}
    /\ Goto(w, "evict")
    /\ UNCHANGED <<enabled, health, updatedAt, revision, cache, request, check, save, past>>

-----------------------------------------------------------------------------
(* validate_instance. *)

BeginValidation(v) ==
    /\ pc[v] = "idle"
    /\ live
    /\ IF bound = Slot
       THEN /\ check' = [check EXCEPT ![v].snapshot = Snapshot]
            /\ \E p \in Scope : request' = [request EXCEPT ![v].scope = p]
            /\ Goto(v, "lookup")
       ELSE /\ Goto(v, "markRead")
            /\ UNCHANGED <<request, check>>
    /\ UNCHANGED <<row, slots, cache, save, past>>

\* grant_matches_credential_snapshot: one revision stands for every slot.
Matches(g, snapshot) == \A s \in Slot : snapshot[s] = g.revision

\* Mutant: a refused answer starts the validation over.
RecheckAgain(v) ==
    LET g == request[v].grant
        plan == IF g = None THEN "degraded"
                ELSE IF Matches(g, check[v].snapshot) THEN "ready" ELSE "unvalidated"
    IN
    /\ pc[v] = "recheck"
    /\ check' = [check EXCEPT ![v].plan = plan]
    /\ Goto(v, IF plan = "unvalidated" THEN "idle" ELSE "stamp")
    /\ UNCHANGED <<row, slots, cache, request, save, past>>

\* The bindings are read again, and the answer becomes the health to write.
Recheck(v) ==
    LET g == request[v].grant
        plan == IF Snapshot # check[v].snapshot THEN "unvalidated"
                ELSE IF request[v].failure = "invalid" THEN "unconfigured"
                ELSE IF g = None THEN "degraded"
                ELSE IF Matches(g, check[v].snapshot) THEN "ready"
                ELSE "unvalidated"
    IN
    /\ pc[v] = "recheck"
    /\ live
    /\ IF bound # Slot
       THEN Goto(v, "markRead") /\ UNCHANGED check
       ELSE Goto(v, "stamp") /\ check' = [check EXCEPT ![v].plan = plan]
    /\ UNCHANGED <<row, slots, cache, request, save, past>>

\* persist_validation_health: read the version, then compare and set, some times over.
MarkRead(v) ==
    /\ pc[v] = "markRead"
    /\ live
    /\ check' = [check EXCEPT ![v].expected = updatedAt, ![v].attempt = @ + 1]
    /\ Goto(v, "markWrite")
    /\ UNCHANGED <<row, slots, cache, request, save, past>>

MarkWrite(v) ==
    /\ pc[v] = "markWrite"
    /\ live
    /\ IF updatedAt = check[v].expected
       THEN /\ health' = "unconfigured"
            /\ updatedAt' = updatedAt + 1
            /\ Goto(v, "done")
       ELSE /\ Goto(v, IF check[v].attempt < MaxAttempts THEN "markRead" ELSE "done")
            /\ UNCHANGED <<health, updatedAt>>
    /\ UNCHANGED <<live, enabled, slots, cache, request, check, save, past>>

\* Mutant: the transaction writes what the earlier read had decided.
StampedTrusting(v) == IF bound # Slot THEN "unconfigured" ELSE check[v].plan

\* The health that persist_remote_validation_health writes, decided in its transaction.
Stamped(v) ==
    IF bound # Slot THEN "unconfigured"
    ELSE IF Snapshot # check[v].snapshot THEN "unvalidated"
    ELSE check[v].plan

Stamp(v) ==
    /\ pc[v] = "stamp"
    /\ live
    /\ health' = Stamped(v)
    /\ updatedAt' = updatedAt + 1
    /\ proved' = IF health' = "ready" THEN request[v].grant.keys ELSE proved
    /\ Goto(v, "done")
    /\ UNCHANGED <<live, enabled, slots, cache, request, check, save, offered>>

\* The row is gone, or SQLite fails.
ValidationFails(v) ==
    /\ pc[v] \in {"recheck", "markRead", "markWrite", "stamp"}
    /\ Goto(v, "done")
    /\ UNCHANGED <<row, slots, cache, request, check, save, past>>

-----------------------------------------------------------------------------
AcquireStep(a) ==
    Lookup(a) \/ LoadRow(a) \/ LoadSlot(a) \/ Exchange(a) \/ ExchangeFails(a) \/ Abandon(a)
        \/ Publish(a)

SaveStep(w) == Save(w) \/ SaveFails(w) \/ Evict(w)

ValidateStep(v) ==
    AcquireStep(v) \/ Recheck(v) \/ MarkRead(v) \/ MarkWrite(v) \/ Stamp(v) \/ ValidationFails(v)

Next ==
    \/ \E a \in Acquirer : Acquire(a) \/ AcquireStep(a)
    \/ \E w \in Saver : BeginSave(w) \/ SetEnabled(w) \/ Delete(w) \/ SaveStep(w)
    \/ \E v \in Validator : BeginValidation(v) \/ ValidateStep(v)
    \/ Expire

Spec == Init /\ [][Next]_vars

\* Commands in flight go on; the network is bounded by its timeouts.
FairSpec ==
    /\ Spec
    /\ \A w \in Saver : WF_vars(SaveStep(w))
    /\ \A v \in Validator : WF_vars(ValidateStep(v))

-----------------------------------------------------------------------------
(* Properties. *)

Current(e) == live /\ e.keys = Snapshot

\* A cached token comes from the credentials the instance has now, unless a command is
\* between its commit and its eviction: no exchange in flight brings an old one back.
CacheIsCurrent == \A e \in entries : Current(e) \/ \E w \in Saver : pc[w] = "evict"

\* The index never dangles: an indexed revision of a scope is in the cache.
CacheIndexed ==
    \A p \in Scope : latest[p] # None => \E e \in entries : SameKey(e, p, latest[p])

\* TOKEN_CACHE_MAX_ENTRIES bounds the tokens held in memory.
CacheBounded == Cardinality(entries) <= MaxEntries

\* What is in the cache is current and no more than its capacity, whichever exchange ends
\* last and whichever entry makes room.
CacheIsSound == CacheIsCurrent /\ CacheBounded

\* Never ready on a stale secret: "ready" is written for the very credentials that the
\* token was exchanged for, whatever is replaced while the validation runs.
ReadyIsProved == live /\ health = "ready" => proved = Snapshot

\* A validation never talks over a concurrent clear: without a required credential the
\* instance is unconfigured.
ClearedIsUnconfigured == live /\ bound # Slot => health = "unconfigured"

\* What the user is told of the credentials is true of those the instance has.
HealthIsEarned == ReadyIsProved /\ ClearedIsUnconfigured

\* A validation is answered, whatever the endpoint and the other commands do.
ValidationEnds == \A v \in Validator : pc[v] # "idle" ~> pc[v] = "done"

\* Tokens of replaced, cleared or deleted credentials do not stay in memory.
StaleGrantsGo == (\E e \in entries : ~Current(e)) ~> (\A e \in entries : Current(e))

-----------------------------------------------------------------------------
(* What documents and comments say and the code does not keep: see the README. *)

\* "credentials changed during validation; re-run validation" (service_integrations.rs:37):
\* that answer is given when they did change.
ChangedMeansChanged ==
    [][\A v \in Validator :
          pc[v] = "recheck" /\ pc'[v] = "stamp" /\ check'[v].plan = "unvalidated"
             => Snapshot # check[v].snapshot]_vars
=============================================================================
