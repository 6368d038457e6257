-------------------------- MODULE CredentialJournal --------------------------
(***************************************************************************)
(* The credential journal: SQLite and the operating system vault kept      *)
(* consistent without a common transaction.  A command (one Tauri call on  *)
(* its own blocking thread) journals its intent, writes the vault, commits *)
(* the row, and finalizes: vault clean-up, then the journal row.  Every    *)
(* mutation first recovers a journal that an earlier one left behind, and  *)
(* start-up recovers them all.                                             *)
(*                                                                         *)
(* Each SQLite transaction, each autocommit read and each vault call is    *)
(* one action; a crash may fall between any two.  An operation's UUID also *)
(* names the vault account it allocates (provider_ref(owner, op)), so a    *)
(* reference is an element of Op, and None is SQL NULL.                    *)
(***************************************************************************)
EXTENDS Naturals

CONSTANTS
    Op,         \* commands, each with its operation UUID
    Provider,   \* provider owners (row identifiers, fresh or reused)
    Proxy,      \* the global proxy: its row always exists, and has no version
    Boot,       \* the start-up recovery
    None,
    Overlap,    \* may two commands on one owner run at the same time?
    MaxCrashes  \* bound on the process crashes of a behaviour

Owner == Provider \cup Proxy
Actor == Op \cup {Boot}
Ref   == Op \cup {None}

JournalRow == [id: Op, owner: Owner, old: Ref, new: Ref, state: {"prepared", "db_committed"}]

ASSUME ConstantsAssumption ==
    /\ None \notin Op /\ None \notin Owner /\ None \notin JournalRow
    /\ Boot \notin Op
    /\ Provider \cap Proxy = {}
    /\ Overlap \in BOOLEAN
    /\ MaxCrashes \in Nat

Kind == {"create", "insert", "replace", "clear", "keep", "enable", "delete", "import"}

\* The kinds of ProviderService::update, which give the updated_at they expect.
Update == {"replace", "clear", "keep"}

Finished == {"ok", "error", "lost"}
Step     == {"preflight", "probe", "read", "prepare", "store", "abort", "commit", "reread",
             "reload", "bind", "cleanup", "drop"}
PC       == {"idle", "list", "pick", "serving"} \cup Step \cup Finished

\* Where finalization may lead: the answer, the rest of the command, the next row.
Resume   == {"idle", "pick", "read", "commit", "reload", "ok", "error"}

VARIABLES
    live,       \* owners whose row exists
    ref,        \* credential_ref of each row; None for an absent row
    updatedAt,  \* optimistic version of a provider row: the command that last wrote it
    journal,    \* the unfinished credential operation of each owner
    vault,      \* accounts that hold a secret
    pc,         \* where each command, and the start-up recovery, stands
    cmd,        \* what a command is for, the version it expects, and what it read
    fin,        \* the finalization an actor is in: journal row, target, continuation
    unlisted,   \* rows start-up recovery has listed and not yet finalized
    deferred,   \* report.deferred_owners of the start-up recovery
    crashes

database == <<live, ref, updatedAt, journal>>
boot     == <<unlisted, deferred>>
vars     == <<database, vault, pc, cmd, fin, boot, crashes>>

NoCmd == [kind |-> None, owner |-> None, old |-> None, seen |-> None]
NoFin == [row |-> None, target |-> None, then |-> "idle"]

TypeOK ==
    /\ live \in SUBSET Owner
    /\ ref \in [Owner -> Ref]
    /\ updatedAt \in [Owner -> Ref]
    /\ journal \in [Owner -> JournalRow \cup {None}]
    /\ vault \in SUBSET Op
    /\ pc \in [Actor -> PC]
    /\ cmd \in [Op -> [kind: Kind \cup {None}, owner: Owner \cup {None}, old: Ref, seen: Ref]]
    /\ fin \in [Actor -> [row: JournalRow \cup {None}, target: Ref, then: Resume]]
    /\ unlisted \in SUBSET JournalRow
    /\ deferred \in SUBSET Owner
    /\ crashes \in 0 .. MaxCrashes

\* Providers without a secret may be there from before.
Init ==
    /\ live \in {l \in SUBSET Owner : Proxy \subseteq l}
    /\ ref = [o \in Owner |-> None]
    /\ updatedAt = [o \in Owner |-> None]
    /\ journal = [o \in Owner |-> None]
    /\ vault = {}
    /\ pc = [a \in Actor |-> IF a = Boot THEN "list" ELSE "idle"]
    /\ cmd = [c \in Op |-> NoCmd]
    /\ fin = [a \in Actor |-> NoFin]
    /\ unlisted = {}
    /\ deferred = {}
    /\ crashes = 0

-----------------------------------------------------------------------------
(* Commands and their operations. *)

Running(c) == pc[c] \in Step

\* A replace or a create stores a secret under its own reference.
NewRef(c) == IF cmd[c].kind \in {"replace", "create"} THEN c ELSE None

\* Mutant: the owner and operation identifiers (both strings in SQL) change places.
PreparedMixedUp(c) == [id |-> c, owner |-> c, old |-> cmd[c].old, new |-> NewRef(c),
                       state |-> "prepared"]

Prepared(c) == [id |-> c, owner |-> cmd[c].owner, old |-> cmd[c].old, new |-> NewRef(c),
                state |-> "prepared"]

Committed(row) == [id |-> row.id, owner |-> row.owner, old |-> row.old, new |-> row.new,
                   state |-> "db_committed"]

\* The operation c has a journal row (mark_db_committed finds it by id).
Journaled(c) ==
    LET row == journal[cmd[c].owner] IN row # None /\ row.id = c

\* What follows a preflight that found or left nothing unfinished.
AfterPreflight(c) == IF cmd[c].kind \in {"keep", "import"} THEN "commit" ELSE "read"

\* Mutant: a committed operation removes the secret it has just bound.
CleanupTargetOfNew(row, current) ==
    IF row.state = "db_committed" THEN row.new
    ELSE IF row.new # None THEN IF current = row.new THEN row.old ELSE row.new
    ELSE IF current # row.old /\ current = None THEN row.old ELSE None

\* Which secret must go before a journal row may: coordinator::cleanup_target.
CleanupTarget(row, current) ==
    IF row.state = "db_committed" THEN row.old
    ELSE IF row.new # None THEN IF current = row.new THEN row.old ELSE row.new
    ELSE IF current # row.old /\ current = None THEN row.old ELSE None

\* A creation has no earlier row to recover, set_enabled none to change.
Entry(k) ==
    IF k = "create" THEN "prepare"
    ELSE IF k \in {"insert", "enable"} THEN "commit" ELSE "preflight"

Goto(a, label) == pc' = [pc EXCEPT ![a] = label]

\* Enter finalize_operation on a journal row, to continue at a label.
Finalize(a, row, label) ==
    /\ fin' = [fin EXCEPT ![a] = [row |-> row, target |-> None, then |-> label]]
    /\ Goto(a, "bind")

Deleted(row) ==
    [journal EXCEPT ![row.owner] = IF @ # None /\ @.id = row.id THEN None ELSE @]

-----------------------------------------------------------------------------
(* Start-up recovery: recover_all, before the first command is served. *)

BootList ==
    /\ pc[Boot] = "list"
    /\ unlisted' = {journal[o] : o \in Owner} \ {None}
    /\ deferred' = {}
    /\ Goto(Boot, "pick")
    /\ UNCHANGED <<database, vault, cmd, fin, crashes>>

\* The journal cannot be read: the report stays empty and the application starts.
BootListFails ==
    /\ pc[Boot] = "list"
    /\ deferred' = {}
    /\ Goto(Boot, "serving")
    /\ UNCHANGED <<database, vault, cmd, fin, unlisted, crashes>>

BootPick ==
    /\ pc[Boot] = "pick"
    /\ \E row \in unlisted :
          /\ unlisted' = unlisted \ {row}
          /\ Finalize(Boot, row, "pick")
    /\ UNCHANGED <<database, vault, cmd, deferred, crashes>>

BootServe ==
    /\ pc[Boot] = "pick"
    /\ unlisted = {}
    /\ Goto(Boot, "serving")
    /\ UNCHANGED <<database, vault, cmd, fin, boot, crashes>>

-----------------------------------------------------------------------------
(* finalize_operation, run by a command or by the start-up recovery. *)

ReadBinding(a) ==
    /\ pc[a] = "bind"
    /\ fin' = [fin EXCEPT ![a] = [row |-> fin[a].row,
                                  target |-> CleanupTarget(fin[a].row, ref[fin[a].row.owner]),
                                  then |-> fin[a].then]]
    /\ Goto(a, "cleanup")
    /\ UNCHANGED <<database, vault, cmd, boot, crashes>>

\* vault.delete succeeded, found no entry, or had no target.
CleanupVault(a) ==
    /\ pc[a] = "cleanup"
    /\ vault' = vault \ {fin[a].target}
    /\ Goto(a, "drop")
    /\ UNCHANGED <<database, cmd, fin, boot, crashes>>

\* Mutant: start-up recovery skips what it cannot finish without reporting it.
DeferUnreported(a, preflightLabel) ==
    /\ IF a = Boot
       THEN Goto(a, "pick")
       ELSE Goto(a, IF fin[a].then \in {"read", "commit"} THEN preflightLabel ELSE fin[a].then)
    /\ UNCHANGED deferred

\* What an actor does when finalization stops short and the journal row stays.
Defer(a, preflightLabel) ==
    IF a = Boot
    THEN /\ deferred' = deferred \cup {fin[a].row.owner}
         /\ Goto(a, "pick")
    ELSE /\ Goto(a, IF fin[a].then \in {"read", "commit"} THEN preflightLabel ELSE fin[a].then)
         /\ UNCHANGED deferred

\* Mutant: an unavailable vault no longer blocks its owner, the journal row is dropped.
CleanupFailsUnblocking(a) ==
    /\ pc[a] = "cleanup"
    /\ fin[a].target # None
    /\ journal' = Deleted(fin[a].row)
    /\ Goto(a, fin[a].then)
    /\ UNCHANGED <<live, ref, updatedAt, vault, cmd, fin, boot, crashes>>

\* Mutant: clean-up is retried until the vault answers.
CleanupFailsRetrying(a) ==
    /\ pc[a] = "cleanup"
    /\ fin[a].target # None
    /\ vault' \in {vault, vault \ {fin[a].target}}
    /\ IF a = Boot THEN Finalize(a, fin[a].row, fin[a].then) ELSE Defer(a, "probe") /\ UNCHANGED fin
    /\ UNCHANGED <<database, cmd, boot, crashes>>

\* vault.delete failed (it may still have removed the overflow file).
CleanupFails(a) ==
    /\ pc[a] = "cleanup"
    /\ fin[a].target # None
    /\ vault' \in {vault, vault \ {fin[a].target}}
    /\ Defer(a, "probe")
    /\ UNCHANGED <<database, cmd, fin, unlisted, crashes>>

DropJournal(a) ==
    /\ pc[a] = "drop"
    /\ journal' = Deleted(fin[a].row)
    /\ Goto(a, fin[a].then)
    /\ UNCHANGED <<live, ref, updatedAt, vault, cmd, fin, boot, crashes>>

\* A SQLite error in finalize_operation: a preflight returns it, the rest ignore it.
FinalizeFails(a) ==
    /\ pc[a] \in {"bind", "drop"}
    /\ Defer(a, "error")
    /\ UNCHANGED <<database, vault, cmd, fin, unlisted, crashes>>

-----------------------------------------------------------------------------
(* Commands. *)

Fresh(o) == o \notin live /\ \A d \in Op : cmd[d].owner # o

\* A client can name an owner once its creation has shown: not one in the making.
Known(o) ==
    o \in live \/ \A d \in Op : cmd[d].owner = o /\ cmd[d].kind \in {"create", "insert"} => pc[d] = "ok"

\* The expected version is that of the row as the client shows it; one that is older still is
\* never met again, see Refuse.
Begin(c, k, o) ==
    /\ pc[Boot] = "serving"
    /\ pc[c] = "idle"
    /\ o \in Proxy => k \in {"replace", "clear", "keep", "import"}
    /\ IF k \in {"create", "insert"} THEN Fresh(o) ELSE Known(o)
    /\ Overlap \/ \A d \in Op : cmd[d].owner = o => ~Running(d)
    /\ cmd' = [cmd EXCEPT ![c] = [kind |-> k, owner |-> o, old |-> None,
                                   seen |-> IF k \in Update THEN updatedAt[o] ELSE None]]
    /\ Goto(c, Entry(k))
    /\ UNCHANGED <<database, vault, fin, boot, crashes>>

\* preflight_owner: finalize whatever journal row the owner still has.
Preflight(c) ==
    LET row == journal[cmd[c].owner] IN
    /\ pc[c] = "preflight"
    /\ IF row = None
       THEN Goto(c, AfterPreflight(c)) /\ UNCHANGED fin
       ELSE Finalize(c, row, AfterPreflight(c))
    /\ UNCHANGED <<database, vault, cmd, boot, crashes>>

\* Mutant: the command goes on with the unfinished row still there.
ProbeIgnored(c) ==
    /\ pc[c] = "probe"
    /\ Goto(c, fin[c].then)
    /\ UNCHANGED <<database, vault, cmd, fin, boot, crashes>>

\* Mutant: the command starts its preflight over until the row is gone.
ProbeRetrying(c) ==
    /\ pc[c] = "probe"
    /\ Goto(c, IF journal[cmd[c].owner] = None THEN fin[c].then ELSE "preflight")
    /\ UNCHANGED <<database, vault, cmd, fin, boot, crashes>>

\* A deferred clean-up: refuse (busy or unavailable) unless the row is gone by now.
Probe(c) ==
    /\ pc[c] = "probe"
    /\ Goto(c, IF journal[cmd[c].owner] = None THEN fin[c].then ELSE "error")
    /\ UNCHANGED <<database, vault, cmd, fin, boot, crashes>>

\* ensure_expected_version; the proxy has no version, a deletion expects none.
Expected(c) ==
    cmd[c].owner \in Provider /\ cmd[c].kind \in Update => updatedAt[cmd[c].owner] = cmd[c].seen

\* The row is read before the transaction that will change it.
ReadExisting(c) ==
    LET o == cmd[c].owner IN
    /\ pc[c] = "read"
    /\ IF o \in live /\ Expected(c)
       THEN /\ cmd' = [cmd EXCEPT ![c] = [kind |-> cmd[c].kind, owner |-> o,
                                     old |-> ref[o], seen |-> cmd[c].seen]]
            /\ Goto(c, IF cmd[c].kind = "delete" THEN "commit" ELSE "prepare")
       ELSE Goto(c, "error") /\ UNCHANGED cmd
    /\ UNCHANGED <<database, vault, fin, boot, crashes>>

\* insert_prepared, refused by the UNIQUE constraint while the owner has a row.
Prepare(c) ==
    LET o == cmd[c].owner IN
    /\ pc[c] = "prepare"
    /\ IF journal[o] = None
       THEN /\ journal' = [journal EXCEPT ![o] = Prepared(c)]
            /\ Goto(c, IF NewRef(c) # None THEN "store" ELSE "commit")
       ELSE Goto(c, "error") /\ UNCHANGED journal
    /\ UNCHANGED <<live, ref, updatedAt, vault, cmd, fin, boot, crashes>>

Store(c) ==
    /\ pc[c] = "store"
    /\ vault' = vault \cup {c}
    /\ Goto(c, "commit")
    /\ UNCHANGED <<database, cmd, fin, boot, crashes>>

StoreFails(c) ==
    /\ pc[c] = "store"
    /\ Goto(c, "abort")
    /\ UNCHANGED <<database, vault, cmd, fin, boot, crashes>>

\* The vault refused the secret: drop the journal row, ignoring a database error.
Abort(c) ==
    /\ pc[c] = "abort"
    /\ journal' \in {journal, Deleted(Prepared(c))}
    /\ Goto(c, "error")
    /\ UNCHANGED <<live, ref, updatedAt, vault, cmd, fin, boot, crashes>>

-----------------------------------------------------------------------------
(* The commit transactions. *)

\* Mutant: the transaction removes the journal row, and the old secret is forgotten.
CommitUpdateForgetting(c) ==
    LET o == cmd[c].owner IN
    /\ pc[c] = "commit"
    /\ cmd[c].kind \in {"replace", "clear"}
    /\ o \in live
    /\ Expected(c)
    /\ ref[o] = cmd[c].old
    /\ Journaled(c)
    /\ ref' = [ref EXCEPT ![o] = NewRef(c)]
    /\ updatedAt' = [updatedAt EXCEPT ![o] = IF o \in Proxy THEN @ ELSE c]
    /\ journal' = Deleted(journal[o])
    /\ Goto(c, "reload")
    /\ UNCHANGED <<live, vault, cmd, fin, boot, crashes>>

\* compare_and_set_credential_ref and mark_db_committed in one transaction.
CommitUpdate(c) ==
    LET o == cmd[c].owner IN
    /\ pc[c] = "commit"
    /\ cmd[c].kind \in {"replace", "clear"}
    /\ o \in live
    /\ Expected(c)
    /\ ref[o] = cmd[c].old
    /\ Journaled(c)
    /\ ref' = [ref EXCEPT ![o] = NewRef(c)]
    /\ updatedAt' = [updatedAt EXCEPT ![o] = IF o \in Proxy THEN @ ELSE c]
    /\ journal' = [journal EXCEPT ![o] = Committed(journal[o])]
    /\ Finalize(c, Committed(journal[o]), "reload")
    /\ UNCHANGED <<live, vault, cmd, boot, crashes>>

CommitCreate(c) ==
    LET o == cmd[c].owner IN
    /\ pc[c] = "commit"
    /\ cmd[c].kind = "create"
    /\ o \notin live
    /\ Journaled(c)
    /\ live' = live \cup {o}
    /\ ref' = [ref EXCEPT ![o] = c]
    /\ updatedAt' = [updatedAt EXCEPT ![o] = c]
    /\ journal' = [journal EXCEPT ![o] = Committed(journal[o])]
    /\ Finalize(c, Committed(journal[o]), "ok")
    /\ UNCHANGED <<vault, cmd, boot, crashes>>

\* Rolled back: a check failed or SQLite did.  The prepared copy is finalized.
CommitFails(c) ==
    /\ pc[c] = "commit"
    /\ cmd[c].kind \in {"replace", "create", "clear"}
    /\ IF cmd[c].kind = "clear"
       THEN Goto(c, "reread") /\ UNCHANGED fin
       ELSE Finalize(c, Prepared(c), "error")
    /\ UNCHANGED <<database, vault, cmd, boot, crashes>>

\* A failed clear looks its operation up by id before finalizing it.
Reread(c) ==
    /\ pc[c] = "reread"
    /\ IF Journaled(c)
       THEN Finalize(c, journal[cmd[c].owner], "error")
       ELSE Goto(c, "error") /\ UNCHANGED fin
    /\ UNCHANGED <<database, vault, cmd, boot, crashes>>

\* insert_db_committed of an operation whose row change is in the same transaction.
JournalRemoval(c, o, old) ==
    LET row == [id |-> c, owner |-> o, old |-> old, new |-> None, state |-> "db_committed"] IN
    IF old = None
    THEN Goto(c, "ok") /\ UNCHANGED <<journal, fin>>
    ELSE /\ journal[o] = None
         /\ journal' = [journal EXCEPT ![o] = row]
         /\ Finalize(c, row, "ok")

Delete(c) ==
    LET o == cmd[c].owner IN
    /\ pc[c] = "commit"
    /\ cmd[c].kind = "delete"
    /\ o \in live
    /\ JournalRemoval(c, o, cmd[c].old)
    /\ live' = live \ {o}
    /\ ref' = [ref EXCEPT ![o] = None]
    /\ updatedAt' = [updatedAt EXCEPT ![o] = None]
    /\ UNCHANGED <<vault, cmd, boot, crashes>>

\* One imported owner: its credential is cleared, or its row inserted without one.
Import(c) ==
    LET o == cmd[c].owner IN
    /\ pc[c] = "commit"
    /\ cmd[c].kind = "import"
    /\ journal[o] = None
    /\ JournalRemoval(c, o, ref[o])
    /\ live' = live \cup {o}
    /\ ref' = [ref EXCEPT ![o] = None]
    /\ updatedAt' = [updatedAt EXCEPT ![o] = IF o \in Proxy THEN @ ELSE c]
    /\ UNCHANGED <<vault, cmd, boot, crashes>>

\* Mutant: the version is not compared, as the credential stays anyway.
KeepUnchecked(c) ==
    LET o == cmd[c].owner IN
    /\ pc[c] = "commit"
    /\ cmd[c].kind = "keep"
    /\ journal[o] = None
    /\ o \in live
    /\ updatedAt' = [updatedAt EXCEPT ![o] = IF o \in Proxy THEN @ ELSE c]
    /\ Goto(c, IF o \in Proxy THEN "reload" ELSE "ok")
    /\ UNCHANGED <<live, ref, journal, vault, cmd, fin, boot, crashes>>

\* update_keep: journal, version and write in one transaction.
Keep(c) ==
    LET o == cmd[c].owner IN
    /\ pc[c] = "commit"
    /\ cmd[c].kind = "keep"
    /\ journal[o] = None
    /\ o \in live
    /\ Expected(c)
    /\ updatedAt' = [updatedAt EXCEPT ![o] = IF o \in Proxy THEN @ ELSE c]
    /\ Goto(c, IF o \in Proxy THEN "reload" ELSE "ok")
    /\ UNCHANGED <<live, ref, journal, vault, cmd, fin, boot, crashes>>

SetEnabled(c) ==
    LET o == cmd[c].owner IN
    /\ pc[c] = "commit"
    /\ cmd[c].kind = "enable"
    /\ o \in live
    /\ updatedAt' = [updatedAt EXCEPT ![o] = c]
    /\ Goto(c, "ok")
    /\ UNCHANGED <<live, ref, journal, vault, cmd, fin, boot, crashes>>

\* Create without a secret: no journal.
Insert(c) ==
    LET o == cmd[c].owner IN
    /\ pc[c] = "commit"
    /\ cmd[c].kind = "insert"
    /\ o \notin live
    /\ live' = live \cup {o}
    /\ updatedAt' = [updatedAt EXCEPT ![o] = c]
    /\ Goto(c, "ok")
    /\ UNCHANGED <<ref, journal, vault, cmd, fin, boot, crashes>>

\* The row is read back for the answer; that read may fail after the commit.
Reload(c) ==
    /\ pc[c] = "reload"
    /\ \E answer \in {"ok", "error"} : Goto(c, answer)
    /\ UNCHANGED <<database, vault, cmd, fin, boot, crashes>>

\* An early return before any change of this command's own: validation, a stale
\* expected_updated_at, a missing row, a busy owner, a SQLite error.
Refuse(c) ==
    /\ \/ pc[c] \in {"preflight", "probe", "read", "prepare", "reread"}
       \/ pc[c] = "commit" /\ cmd[c].kind \in {"keep", "enable", "insert", "delete", "import"}
    /\ Goto(c, "error")
    /\ UNCHANGED <<database, vault, cmd, fin, boot, crashes>>

-----------------------------------------------------------------------------
\* The process dies: threads are gone, SQLite and the vault stay.
Crash ==
    /\ crashes < MaxCrashes
    /\ crashes' = crashes + 1
    /\ pc' = [a \in Actor |->
                 IF a = Boot THEN "list" ELSE IF Running(a) THEN "lost" ELSE pc[a]]
    /\ fin' = [a \in Actor |-> NoFin]
    /\ unlisted' = {}
    /\ deferred' = {}
    /\ UNCHANGED <<database, vault, cmd>>

Commit(c) ==
    \/ CommitUpdate(c) \/ CommitCreate(c) \/ CommitFails(c)
    \/ Delete(c) \/ Import(c) \/ Keep(c) \/ SetEnabled(c) \/ Insert(c)

Work(c) ==
    \/ Preflight(c) \/ Probe(c) \/ ReadExisting(c) \/ Prepare(c)
    \/ Store(c) \/ StoreFails(c) \/ Abort(c) \/ Commit(c) \/ Reread(c)
    \/ Reload(c) \/ Refuse(c)

FinalizeStep(a) ==
    ReadBinding(a) \/ CleanupVault(a) \/ CleanupFails(a) \/ DropJournal(a) \/ FinalizeFails(a)

BootStep == BootList \/ BootListFails \/ BootPick \/ BootServe

Next ==
    \/ BootStep
    \/ \E c \in Op, k \in Kind, o \in Owner : Begin(c, k, o)
    \/ \E c \in Op : Work(c)
    \/ \E a \in Actor : FinalizeStep(a)
    \/ Crash

Spec == Init /\ [][Next]_vars

\* Threads are scheduled and vault and SQLite calls return, with success or without.
Fairness ==
    /\ WF_vars(BootStep)
    /\ \A c \in Op : WF_vars(Work(c))
    /\ \A a \in Actor : WF_vars(FinalizeStep(a))

FairSpec == Spec /\ Fairness

-----------------------------------------------------------------------------
(* Properties. *)

\* A row never refers to a secret that is not in the vault: whatever crashes and
\* vault failures happen, the stored credential of a provider stays usable.
BoundSecretPresent ==
    \A o \in Owner : ref[o] # None => ref[o] \in vault

\* No secret is forgotten: what the vault holds is bound to a row, or a journal row
\* still names it and a later recovery will remove it.
SecretAccountedFor ==
    \A s \in vault : \E o \in Owner :
        \/ ref[o] = s
        \/ journal[o] # None /\ s \in {journal[o].old, journal[o].new}

\* Recovery before a mutation leaves the owner free: a command that got past its
\* preflight is never refused as busy because of what an earlier one left behind.
PreflightFreesOwner ==
    \A c \in Op : pc[c] = "prepare" => journal[cmd[c].owner] = None

\* Two saves that started from the same version of a provider are not both accepted, whether
\* they replace its credential, clear it or keep it.
NoLostUpdate ==
    \A c, d \in Op :
        /\ c # d
        /\ pc[c] = "ok" /\ pc[d] = "ok"
        /\ cmd[c].owner = cmd[d].owner /\ cmd[c].owner \in Provider
        /\ cmd[c].kind \in Update /\ cmd[d].kind \in Update
        => cmd[c].seen # cmd[d].seen

\* A start-up that read the journal and deferred nothing leaves no debris of the runs
\* before it: the journal is empty, and the vault holds exactly the bound secrets.
AllClearStartupCleans ==
    [][pc[Boot] = "pick" /\ pc'[Boot] = "serving" /\ deferred = {}
         => /\ \A o \in Owner : journal[o] = None
            /\ vault = {ref[o] : o \in Owner} \ {None}]_vars

\* The secrets that the journal names and no row is bound to.
Owed ==
    {s \in Op : \E o \in Owner : journal[o] # None /\ s \in {journal[o].old, journal[o].new}}
        \ {ref[o] : o \in Owner}

Secrets == INSTANCE SecretStore WITH Secret <- Op, current <- ref, stored <- vault, owed <- Owed

\* Database, vault and journal together are one store: a row turns from secret to secret
\* in one step, only to one that is there, and each step leaves to the journal what is no
\* longer, or not yet, referred to.
OneStore == Secrets!Spec

\* Start-up is never held up by an unavailable vault: commands are served in the end.
StartupServes == <>[](pc[Boot] = "serving")

\* Every command is answered: recovery and refusal replace waiting for one another.
EveryCommandAnswered == \A c \in Op : Running(c) ~> ~Running(c)
=============================================================================
