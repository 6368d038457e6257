---------------------------- MODULE ImportPreviews ----------------------------
(***************************************************************************)
(* Import of a configuration in two commands.  The first builds a plan     *)
(* against the database and leaves a session in memory: the document, and  *)
(* a baseline of the local rows the plan would touch.  The second names    *)
(* the session, claims it, and applies it in one transaction that rebuilds *)
(* the plan and compares baselines.  The store of sessions is bounded in   *)
(* number and bytes, and sessions expire.                                  *)
(*                                                                         *)
(* A critical section of the store's mutex, a database snapshot and a      *)
(* transaction are actions.  A session has the number of the command that  *)
(* previewed, in the order of their expires_at; the version of a row is    *)
(* the command that wrote it last.                                         *)
(***************************************************************************)
EXTENDS Naturals, SequencesExt, FiniteSetsExt

CONSTANTS
    Previewer, Importer, Writer, \* commands: previews, imports, local saves
    Row,         \* local rows
    Doc,         \* documents with an import mode
    Compared,    \* the rows whose versions are in the baseline of each document
    Written,     \* the rows its import writes
    Bytes,       \* its size
    MaxSessions, \* IMPORT_PREVIEW_SESSION_MAX
    Budget,      \* IMPORT_PREVIEW_TOTAL_BUDGET_BYTES
    None

ASSUME PreviewAssumption ==
    /\ Previewer \subseteq Nat /\ IsFiniteSet(Previewer)
    /\ Previewer \cap (Importer \cup Writer) = {} /\ Importer \cap Writer = {}
    /\ None \notin Previewer \cup Importer \cup Writer
    /\ Compared \in [Doc -> SUBSET Row] /\ Written \in [Doc -> SUBSET Row]
    /\ Bytes \in [Doc -> 1 .. Budget]
    /\ MaxSessions \in Nat \ {0} /\ Budget \in Nat

VARIABLES
    version,  \* who wrote each row last
    plan,     \* what each preview keeps: document and the versions it saw
    expired,  \* the previews whose time has passed
    sessions, \* PreviewSessionStore: the keys of the map,
    inFlight, \* those of them that are claimed,
    order,    \* the insertion order,
    total,    \* and the bytes accounted for
    claimed,  \* the session each import has claimed
    pc

store == <<sessions, inFlight, order, total>>
vars  == <<version, plan, expired, store, claimed, pc>>

Command == Previewer \cup Importer \cup Writer

TypeOK ==
    /\ version \in [Row -> Command \cup {None}]
    /\ plan \in [Previewer -> [doc: Doc, base: [Row -> Command \cup {None}]] \cup {None}]
    /\ expired \subseteq Previewer
    /\ sessions \subseteq Previewer
    /\ inFlight \subseteq sessions
    /\ order \in Seq(Previewer)
    /\ total \in 0 .. Budget
    /\ claimed \in [Importer -> Previewer \cup {None}]
    /\ pc \in [Command -> {"idle", "insert", "apply", "consume", "ok", "refused"}]

Init ==
    /\ version = [r \in Row |-> None]
    /\ plan = [p \in Previewer |-> None]
    /\ expired = {}
    /\ sessions = {} /\ inFlight = {} /\ order = <<>> /\ total = 0
    /\ claimed = [i \in Importer |-> None]
    /\ pc = [c \in Command |-> "idle"]

Goto(c, label) == pc' = [pc EXCEPT ![c] = label]

\* The documents of sessions, byte by byte, and their size.
Content(ps) == {b \in ps \X (1 .. Budget) : b[2] <= Bytes[plan[b[1]].doc]}
Size(ps) == Cardinality(Content(ps))

Live == sessions \ expired

\* What is left of an order without some of its sessions.
Without(s, gone) ==
    LET left[n \in 0 .. Len(s)] ==
          IF n = 0 THEN <<>>
          ELSE IF s[n] \in gone THEN left[n - 1]
          ELSE Append(left[n - 1], s[n])
    IN left[Len(s)]

-----------------------------------------------------------------------------
(* The previewing command. *)

\* preview_with_session up to the lock: a valid plan, seen in one read snapshot; expires_at
\* is computed here.
Preview(p, d) ==
    /\ pc[p] = "idle" /\ \A q \in Previewer : q < p => pc[q] # "idle"
    /\ plan' = [plan EXCEPT ![p] = [doc |-> d, base |-> version]]
    /\ Goto(p, "insert")
    /\ UNCHANGED <<version, expired, store, claimed>>

\* Sessions live for one and the same time.
Expire(p) ==
    /\ pc[p] # "idle" /\ p \notin expired
    /\ \A q \in Previewer : q < p => q \in expired
    /\ expired' = expired \cup {p}
    /\ UNCHANGED <<version, plan, store, claimed, pc>>

\* Mutant: the oldest sessions make room, claimed or not.
EvictableAll == Without(order, Previewer \ Live)

\* The sessions that may make room, the oldest first.
Evictable == Without(order, Previewer \ (Live \ inFlight))

\* Mutant: the bytes of a session that makes room or expires stay accounted for.
LeavesCounted(ps) == 0

\* The bytes that leave with sessions.
Leaves(ps) == Size(ps)

\* There is room for a session once others are gone.
Fits(gone, p) ==
    /\ Cardinality(sessions \ gone) < MaxSessions
    /\ total - Leaves(gone) + Bytes[plan[p].doc] <= Budget

\* insert_bounded: expired sessions go, then ready ones until there is room; if that is not
\* enough they have gone all the same.
Insert(p) ==
    LET gone(n) == (sessions \cap expired) \cup {Evictable[k] : k \in 1 .. n}
        enough == {n \in 0 .. Len(Evictable) : Fits(gone(n), p)}
        drop == gone(IF enough = {} THEN Len(Evictable) ELSE Min(enough))
        kept == Without(order, drop)
    IN
    /\ pc[p] = "insert"
    /\ inFlight' = inFlight \ drop
    /\ IF enough = {}
       THEN /\ sessions' = sessions \ drop
            /\ order' = kept
            /\ total' = total - Leaves(drop)
            /\ Goto(p, "refused")
       ELSE /\ sessions' = (sessions \ drop) \cup {p}
            /\ order' = Append(kept, p)
            /\ total' = total - Leaves(drop) + Bytes[plan[p].doc]
            /\ Goto(p, "ok")
    /\ UNCHANGED <<version, plan, expired, claimed>>

-----------------------------------------------------------------------------
(* The importing command. *)

Drop(ps) ==
    /\ sessions' = sessions \ ps
    /\ order' = Without(order, ps)
    /\ total' = total - Leaves(ps \cap sessions)

\* A claim that succeeds, besides pruning what has expired.
ClaimOf(i, p) ==
    /\ pc[i] = "idle" /\ pc[p] = "ok"
    /\ Drop(sessions \cap expired)
    /\ inFlight' = (inFlight \ expired) \cup {p}
    /\ claimed' = [claimed EXCEPT ![i] = p]
    /\ Goto(i, "apply")
    /\ UNCHANGED <<version, plan, expired>>

\* Mutant: the expiry of the session itself is not looked at.
ClaimExpired(i, p) == p \in sessions \ inFlight /\ ClaimOf(i, p)

\* claim
Claim(i, p) == p \in Live \ inFlight /\ ClaimOf(i, p)

\* An expired session is removed and reported, before the others are looked at; for an
\* unknown or claimed one they are pruned.
ClaimRefused(i, p) ==
    /\ pc[i] = "idle" /\ pc[p] = "ok"
    /\ p \notin Live \ inFlight
    /\ IF p \in sessions \cap expired
       THEN Drop({p}) /\ inFlight' = inFlight \ {p}
       ELSE Drop(sessions \cap expired) /\ inFlight' = inFlight \ expired
    /\ Goto(i, "refused")
    /\ UNCHANGED <<version, plan, expired, claimed>>

\* Mutant: the rebuilt plan is not compared with the previewed one.
UnmovedAnyway(s) == TRUE

\* compute_plan_cas_baseline of the rebuilt plan is the session's.
Unmoved(s) == \A r \in Compared[s.doc] : version[r] = s.base[r]

\* apply_preview_session: one transaction writes every row of the plan.
Apply(i) ==
    LET p == claimed[i] IN
    /\ pc[i] = "apply"
    /\ Unmoved(plan[p])
    /\ version' = [r \in Row |-> IF r \in Written[plan[p].doc] THEN i ELSE version[r]]
    /\ Goto(i, "consume")
    /\ UNCHANGED <<plan, expired, store, claimed>>

\* A preflight or the transaction fails: a busy owner, a moved baseline, a plan that is no
\* longer valid, an error of the database.
ApplyFails(i) ==
    /\ pc[i] = "apply"
    /\ Goto(i, "consume")
    /\ UNCHANGED <<version, plan, expired, store, claimed>>

\* Mutant: only a success removes the session.
ConsumeApplied(i) ==
    /\ pc[i] = "consume"
    /\ IF \E r \in Row : version[r] = i
       THEN Drop({claimed[i]}) /\ inFlight' = inFlight \ {claimed[i]}
       ELSE UNCHANGED store
    /\ Goto(i, "ok")
    /\ UNCHANGED <<version, plan, expired, claimed>>

\* The claimed session is removed whatever the outcome; it may be gone already.
Consume(i) ==
    /\ pc[i] = "consume"
    /\ Drop({claimed[i]})
    /\ inFlight' = inFlight \ {claimed[i]}
    /\ Goto(i, "ok")
    /\ UNCHANGED <<version, plan, expired, claimed>>

\* A local save, creation or deletion of a row; an import without a preview.
Change(w, r) ==
    /\ pc[w] = "idle"
    /\ version' = [version EXCEPT ![r] = w]
    /\ Goto(w, "ok")
    /\ UNCHANGED <<plan, expired, store, claimed>>

-----------------------------------------------------------------------------
ImportStep(i) == Apply(i) \/ ApplyFails(i) \/ Consume(i)

Next ==
    \/ \E p \in Previewer :
          Insert(p) \/ Expire(p) \/ \E d \in Doc : Preview(p, d)
    \/ \E i \in Importer :
          ImportStep(i) \/ \E p \in Previewer : Claim(i, p) \/ ClaimRefused(i, p)
    \/ \E w \in Writer, r \in Row : Change(w, r)

Spec == Init /\ [][Next]_vars

\* A command that has begun is run to its end.
FairSpec ==
    /\ Spec
    /\ \A p \in Previewer : WF_vars(Insert(p))
    /\ \A i \in Importer : WF_vars(ImportStep(i))

-----------------------------------------------------------------------------
(* Properties. *)

\* The store's three fields agree and keep both bounds, whatever is evicted, pruned by
\* another command or consumed after it was pruned: bytes that leaked here would refuse
\* every later preview.
Accounted ==
    /\ ToSet(order) = sessions /\ IsInjective(order)
    /\ total = Size(sessions)
    /\ Cardinality(sessions) <= MaxSessions
    /\ total <= Budget

\* "Unknown, expired, and reused ids are rejected": of the imports that name a preview one
\* gets past the claim, to the credential recovery and the transaction, although the session
\* may expire, be pruned or be consumed in between.
ClaimedOnce == \A i, j \in Importer : i # j /\ claimed[i] = claimed[j] => claimed[i] = None

\* A session that an import is working on stays claimed until the import consumes it; only
\* its expiry takes it away earlier.
ClaimedStays ==
    \A i \in Importer : pc[i] \in {"apply", "consume"} => claimed[i] \in inFlight \cup expired

\* A claim is for one import, as long as it works.
ClaimIsExclusive == ClaimedOnce /\ ClaimedStays

\* A local save made after the preview is never overwritten by the import, if its row
\* belongs to the baseline.
SavesSurvive ==
    [][\A i \in Importer : pc[i] = "apply" /\ pc'[i] # "apply" =>
          LET s == plan[claimed[i]] IN
          \A r \in Compared[s.doc] : version[r] = s.base[r] \/ version'[r] = version[r]]_vars

\* No claim is for ever, since a claimed session never becomes ready again: the store cannot
\* fill up with claimed sessions and refuse every preview.
ClaimsEnd == []<>(inFlight = {})

-----------------------------------------------------------------------------
(* What documents and comments say and the code does not keep: see the README. *)

\* "every local row and credential ownership the plan would touch" (import_validation.rs:1078):
\* the rows written were all as the user saw them.
NothingUnseenIsOverwritten ==
    [][\A i \in Importer : pc[i] = "apply" /\ pc'[i] # "apply" =>
          LET s == plan[claimed[i]] IN
          \A r \in Written[s.doc] : version[r] = s.base[r] \/ version'[r] = version[r]]_vars
=============================================================================
