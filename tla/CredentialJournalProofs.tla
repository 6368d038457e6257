----------------------- MODULE CredentialJournalProofs -----------------------
(***************************************************************************)
(* Proofs about CredentialJournal: type correctness; that no update of a   *)
(* provider is lost, however commands overlap; and, when at most one       *)
(* command runs on an owner at a time, that bound secrets are present and  *)
(* no secret is forgotten, that journal, database and vault implement      *)
(* SecretStore, and what a start-up recovery that defers nothing has       *)
(* achieved, whatever crashes and failures happen.                         *)
(***************************************************************************)
EXTENDS CredentialJournal, TLAPS

-----------------------------------------------------------------------------
(* Type correctness.  A running command has an owner, and an actor that    *)
(* finalizes has a row: without these two, a step could leave the types.   *)

Finalizing(a) == pc[a] \in {"bind", "cleanup", "drop"}

TypeInv ==
    /\ TypeOK
    /\ \A c \in Op : Running(c) => cmd[c].owner \in Owner /\ cmd[c].kind \in Kind
    /\ \A a \in Actor : Finalizing(a) => fin[a].row \in JournalRow
    /\ pc[Boot] \in {"list", "pick", "serving", "bind", "cleanup", "drop"}
    /\ Finalizing(Boot) => fin[Boot].then = "pick"

\* Which secret clean-up removes, if any, is one of the two the row names.
LEMMA CleanupTargetType ==
    ASSUME NEW row \in JournalRow, NEW current \in Ref
    PROVE  CleanupTarget(row, current) \in {row.old, row.new, None}
  BY DEF CleanupTarget, JournalRow, Ref

LEMMA PreparedType ==
    ASSUME NEW c \in Op, TypeOK, cmd[c].owner \in Owner
    PROVE  Prepared(c) \in JournalRow
  BY DEF Prepared, JournalRow, NewRef, TypeOK, Ref

LEMMA TypeInit == Init => TypeInv
  <1> USE ConstantsAssumption DEF Owner, Ref, Actor, PC, Resume, Step, Finished
  <1> SUFFICES ASSUME Init PROVE TypeInv
    OBVIOUS
  <1>1. TypeOK
    BY DEF Init, TypeOK, NoCmd, NoFin
  <1>2. /\ \A c \in Op : ~Running(c)
        /\ \A a \in Actor : ~Finalizing(a)
        /\ pc[Boot] = "list"
    BY DEF Init, Running, Finalizing
  <1> QED
    BY <1>1, <1>2 DEF TypeInv

\* Every step of a command keeps the types.
LEMMA TypeWork ==
    ASSUME TypeInv, NEW c \in Op, Work(c)
    PROVE  TypeInv'
  <1> USE ConstantsAssumption
      DEF TypeInv, TypeOK, Running, Finalizing, Actor, Owner, Ref, PC, Resume, Step, Finished,
          Kind, Goto, Finalize, database, boot
  <1>1. CASE Preflight(c)
    BY <1>1 DEF Preflight, AfterPreflight
  <1>2. CASE Probe(c)
    BY <1>2 DEF Probe
  <1>3. CASE ReadExisting(c)
    BY <1>3 DEF ReadExisting
  <1>4. CASE Prepare(c)
    <2>1. cmd[c].owner \in Owner /\ Prepared(c) \in JournalRow
      BY <1>4, PreparedType DEF Prepare
    <2>2. journal' \in [Owner -> JournalRow \cup {None}]
      BY <1>4, <2>1 DEF Prepare
    <2>3. pc' \in {[pc EXCEPT ![c] = "store"], [pc EXCEPT ![c] = "commit"], [pc EXCEPT ![c] = "error"]}
      BY <1>4 DEF Prepare
    <2> QED
      BY <1>4, <2>2, <2>3 DEF Prepare
  <1>5. CASE Store(c)
    BY <1>5 DEF Store
  <1>6. CASE StoreFails(c)
    BY <1>6 DEF StoreFails
  <1>7. CASE Abort(c)
    BY <1>7 DEF Abort, Deleted
  <1>8. CASE CommitUpdate(c)
    BY <1>8 DEF CommitUpdate, Committed, Journaled, NewRef, JournalRow
  <1>9. CASE CommitCreate(c)
    BY <1>9 DEF CommitCreate, Committed, Journaled, JournalRow
  <1>10. CASE CommitFails(c)
    BY <1>10, PreparedType DEF CommitFails
  <1>11. CASE Delete(c)
    <2>1. CASE cmd[c].old = None
      BY <1>11, <2>1 DEF Delete, JournalRemoval, JournalRow
    <2>2. CASE cmd[c].old # None
      BY <1>11, <2>2 DEF Delete, JournalRemoval, JournalRow
    <2> QED
      BY <2>1, <2>2
  <1>12. CASE Import(c)
    <2>1. CASE ref[cmd[c].owner] = None
      BY <1>12, <2>1 DEF Import, JournalRemoval, JournalRow
    <2>2. CASE ref[cmd[c].owner] # None
      BY <1>12, <2>2 DEF Import, JournalRemoval, JournalRow
    <2> QED
      BY <2>1, <2>2
  <1>13. CASE Keep(c)
    BY <1>13 DEF Keep
  <1>14. CASE SetEnabled(c)
    BY <1>14 DEF SetEnabled
  <1>15. CASE Insert(c)
    BY <1>15 DEF Insert
  <1>16. CASE Reread(c)
    BY <1>16 DEF Reread, Journaled
  <1>17. CASE Reload(c)
    BY <1>17 DEF Reload
  <1>18. CASE Refuse(c)
    BY <1>18 DEF Refuse
  <1> QED
    BY <1>1, <1>2, <1>3, <1>4, <1>5, <1>6, <1>7, <1>8, <1>9, <1>10, <1>11, <1>12, <1>13,
       <1>14, <1>15, <1>16, <1>17, <1>18 DEF Work, Commit

\* So does every step of a finalization.
LEMMA TypeFinalizeStep ==
    ASSUME TypeInv, NEW a \in Actor, FinalizeStep(a)
    PROVE  TypeInv'
  <1> USE ConstantsAssumption
      DEF TypeInv, TypeOK, Running, Finalizing, Actor, Owner, Ref, PC, Resume, Step, Finished,
          Kind, Goto, Finalize, database, boot
  <1>1. CASE ReadBinding(a)
    BY <1>1, CleanupTargetType DEF ReadBinding, JournalRow
  <1>2. CASE CleanupVault(a)
    BY <1>2 DEF CleanupVault
  <1>3. CASE CleanupFails(a)
    BY <1>3 DEF CleanupFails, Defer, JournalRow
  <1>4. CASE DropJournal(a)
    BY <1>4 DEF DropJournal, Deleted, JournalRow
  <1>5. CASE FinalizeFails(a)
    BY <1>5 DEF FinalizeFails, Defer, JournalRow
  <1> QED
    BY <1>1, <1>2, <1>3, <1>4, <1>5 DEF FinalizeStep

LEMMA TypeNext == TypeInv /\ [Next]_vars => TypeInv'
  <1> SUFFICES ASSUME TypeInv, [Next]_vars PROVE TypeInv'
    OBVIOUS
  <1> USE ConstantsAssumption
      DEF TypeInv, TypeOK, Running, Finalizing, Actor, Owner, Ref, PC, Resume, Step, Finished,
          Kind, Goto, Finalize, database, boot
  <1>1. CASE BootList
    BY <1>1 DEF BootList
  <1>2. CASE BootPick
    BY <1>2 DEF BootPick
  <1>3. CASE BootServe \/ BootListFails
    BY <1>3 DEF BootServe, BootListFails
  <1>4. ASSUME NEW c \in Op, NEW k \in Kind, NEW o \in Owner, Begin(c, k, o) PROVE TypeInv'
    BY <1>4 DEF Begin, Entry
  <1>5. ASSUME NEW c \in Op, Work(c) PROVE TypeInv'
    BY <1>5, TypeWork
  <1>6. ASSUME NEW a \in Actor, FinalizeStep(a) PROVE TypeInv'
    BY <1>6, TypeFinalizeStep
  <1>7. CASE Crash
    BY <1>7 DEF Crash, NoFin
  <1>8. CASE UNCHANGED vars
    BY <1>8 DEF vars
  <1> QED
    BY <1>1, <1>2, <1>3, <1>4, <1>5, <1>6, <1>7, <1>8 DEF Next, BootStep

\* Every reachable state is well typed, whether or not commands overlap.
THEOREM TypeCorrect == Spec => []TypeOK
  <1>1. Spec => []TypeInv
    BY TypeInit, TypeNext, PTL DEF Spec
  <1> QED
    BY <1>1, PTL DEF TypeInv

-----------------------------------------------------------------------------
(* Optimistic versions, for commands that overlap as they like.  A version *)
(* is the command that wrote it, and a command writes once: so a version   *)
(* that a save has replaced never comes back, and no later save that has   *)
(* read it commits.                                                        *)

\* A command that has not written its row, and may still do so.
MayCommit(c) ==
    \/ pc[c] \in {"idle", "preflight", "probe", "read", "prepare", "store", "commit"}
    \/ Finalizing(c) /\ fin[c].then \in {"read", "commit"}

\* A save of a provider whose transaction has been committed.
Saved(c) ==
    /\ cmd[c].kind \in Update /\ cmd[c].owner \in Provider
    /\ pc[c] \in {"reload", "ok"} \/ (Finalizing(c) /\ fin[c].then = "reload")

\* The versions in the table, and those that commands have read, are of commands that
\* write no more.
VersionsAreOld ==
    /\ \A o \in Owner, c \in Op : updatedAt[o] = c => ~MayCommit(c)
    /\ \A c, d \in Op : cmd[c].seen = d => ~MayCommit(d)

\* Only a committed save goes on to its answer.
SavesCommit ==
    /\ \A c \in Op : pc[c] = "probe" => fin[c].then \in {"read", "commit"}
    /\ \A c \in Op : Finalizing(c) =>
          fin[c].then # "idle" /\ (cmd[c].kind \in Update => fin[c].then # "ok")

\* The version that a save has replaced is gone.
ReplacedForGood ==
    \A c \in Op : Saved(c) /\ cmd[c].owner \in live => updatedAt[cmd[c].owner] # cmd[c].seen

\* Of two saves from one version one is committed.
SavedOnce ==
    \A c, d \in Op : c # d /\ Saved(c) /\ Saved(d) /\ cmd[c].owner = cmd[d].owner =>
        cmd[c].seen # cmd[d].seen

VInv == TypeInv /\ VersionsAreOld /\ SavesCommit /\ ReplacedForGood /\ SavedOnce

LEMMA VersionInit == Init => VInv
  <1> SUFFICES ASSUME Init PROVE VInv
    OBVIOUS
  <1>1. \A c \in Op : /\ pc[c] = "idle" /\ cmd[c] = NoCmd
                      /\ ~Saved(c) /\ ~Finalizing(c)
    BY ConstantsAssumption DEF Init, Actor, NoCmd, Saved, Finalizing
  <1>2. \A o \in Owner : updatedAt[o] = None
    BY DEF Init, Owner
  <1>3. VersionsAreOld
    BY <1>1, <1>2, ConstantsAssumption DEF VersionsAreOld, NoCmd
  <1>4. SavesCommit /\ ReplacedForGood /\ SavedOnce
    BY <1>1 DEF SavesCommit, ReplacedForGood, SavedOnce
  <1> QED
    BY <1>3, <1>4, TypeInit DEF VInv

\* A step that writes no row and commits no save.
LEMMA VersionQuiet ==
    ASSUME VInv, TypeInv', UNCHANGED <<live, updatedAt, cmd>>,
           \A c \in Op : MayCommit(c)' => MayCommit(c),
           \A c \in Op : Saved(c)' => Saved(c),
           SavesCommit'
    PROVE  VInv'
  <1>1. VersionsAreOld'
    BY DEF VInv, VersionsAreOld
  <1>2. ReplacedForGood'
    BY DEF VInv, ReplacedForGood
  <1>3. SavedOnce'
    BY DEF VInv, SavedOnce
  <1> QED
    BY <1>1, <1>2, <1>3 DEF VInv

\* A step of one command that goes nowhere near a commit.
LEMMA VersionMove ==
    ASSUME VInv, TypeInv', UNCHANGED <<live, updatedAt, cmd>>, NEW a \in Actor,
           \A b \in Actor : b # a => pc'[b] = pc[b] /\ fin'[b] = fin[b],
           a \in Op =>
              /\ MayCommit(a)' => MayCommit(a)
              /\ Saved(a)' => Saved(a)
              /\ pc'[a] = "probe" => fin'[a].then \in {"read", "commit"}
              /\ Finalizing(a)' =>
                    /\ fin'[a].then # "idle"
                    /\ cmd[a].kind \in Update => fin'[a].then # "ok"
    PROVE  VInv'
  <1>1. \A c \in Op : c # a => /\ MayCommit(c)' <=> MayCommit(c)
                               /\ Saved(c)' <=> Saved(c)
                               /\ Finalizing(c)' <=> Finalizing(c)
    BY DEF MayCommit, Saved, Finalizing, Actor
  <1>2. SavesCommit'
    BY <1>1 DEF VInv, SavesCommit, Actor
  <1> QED
    BY <1>1, <1>2, VersionQuiet

\* A transaction writes a row: under the version of its command, or none if the row goes.
LEMMA VersionWrite ==
    ASSUME VInv, TypeInv', NEW c \in Op, MayCommit(c), ~MayCommit(c)',
           UNCHANGED cmd, cmd[c].owner \in Owner,
           \A b \in Actor : b # c => pc'[b] = pc[b] /\ fin'[b] = fin[b],
           \A o \in Owner : o # cmd[c].owner =>
              updatedAt'[o] = updatedAt[o] /\ (o \in live' <=> o \in live),
           \/ updatedAt'[cmd[c].owner] = c
           \/ updatedAt'[cmd[c].owner] = None /\ cmd[c].owner \notin live'
           \/ updatedAt'[cmd[c].owner] = updatedAt[cmd[c].owner] /\ cmd[c].owner \in Proxy,
           Saved(c)' => cmd[c].owner \in live /\ updatedAt[cmd[c].owner] = cmd[c].seen,
           pc'[c] # "probe",
           Finalizing(c)' =>
              /\ fin'[c].then # "idle"
              /\ cmd[c].kind \in Update => fin'[c].then # "ok"
    PROVE  VInv'
  <1> USE ConstantsAssumption
  <1>1. \A d \in Op : d # c => /\ MayCommit(d)' <=> MayCommit(d)
                               /\ Saved(d)' <=> Saved(d)
                               /\ Finalizing(d)' <=> Finalizing(d)
    BY DEF MayCommit, Saved, Finalizing, Actor
  <1>2. \A d \in Op : cmd[d].seen # c
    BY DEF VInv, VersionsAreOld
  <1>3. \A d \in Op : MayCommit(d)' => MayCommit(d) /\ d # c
    BY <1>1
  <1>4. VersionsAreOld'
    <2>1. ASSUME NEW o \in Owner, NEW d \in Op, updatedAt'[o] = d PROVE ~MayCommit(d)'
      BY <2>1, <1>3 DEF VInv, VersionsAreOld, Owner
    <2>2. ASSUME NEW e \in Op, NEW d \in Op, cmd[e].seen = d PROVE ~MayCommit(d)'
      BY <2>2, <1>3 DEF VInv, VersionsAreOld
    <2> QED
      BY <2>1, <2>2 DEF VersionsAreOld
  <1>5. SavesCommit'
    BY <1>1 DEF VInv, SavesCommit, Actor
  <1>6. ReplacedForGood'
    <2> SUFFICES ASSUME NEW d \in Op, Saved(d)', cmd[d].owner \in live'
                 PROVE  updatedAt'[cmd[d].owner] # cmd[d].seen
      BY DEF ReplacedForGood
    <2>1. cmd[d].owner \in Provider
      BY DEF Saved
    <2>2. CASE cmd[d].owner = cmd[c].owner
      BY <2>1, <2>2, <1>2
    <2>3. CASE cmd[d].owner # cmd[c].owner
      BY <2>1, <2>3, <1>1 DEF VInv, ReplacedForGood, Owner
    <2> QED
      BY <2>2, <2>3
  <1>7. SavedOnce'
    <2>1. ASSUME NEW d \in Op, d # c, Saved(c)', Saved(d)', cmd[c].owner = cmd[d].owner
          PROVE  cmd[c].seen # cmd[d].seen
      BY <2>1, <1>1 DEF VInv, ReplacedForGood
    <2> QED
      BY <2>1, <1>1 DEF VInv, SavedOnce
  <1> QED
    BY <1>4, <1>5, <1>6, <1>7 DEF VInv

\* A command begins, or reads its row: what it sees is in the table.
LEMMA VersionSeen ==
    ASSUME VInv, TypeInv', NEW c \in Op, UNCHANGED <<live, updatedAt>>,
           MayCommit(c),
           \A d \in Op : d # c => cmd'[d] = cmd[d] /\ pc'[d] = pc[d],
           UNCHANGED fin, ~Saved(c)', ~Finalizing(c)', pc'[c] # "probe",
           \/ cmd'[c].seen \in {None, cmd[c].seen}
           \/ \E o \in Owner : cmd'[c].seen = updatedAt[o]
    PROVE  VInv'
  <1> USE ConstantsAssumption
  <1>1. \A d \in Op : d # c => /\ MayCommit(d)' <=> MayCommit(d)
                               /\ Saved(d)' <=> Saved(d)
                               /\ Finalizing(d)' <=> Finalizing(d)
    BY DEF MayCommit, Saved, Finalizing
  <1>2. \A d \in Op : MayCommit(d)' => MayCommit(d)
    BY <1>1
  <1>3. \A d \in Op : Saved(d)' => Saved(d) /\ d # c
    BY <1>1
  <1>4. VersionsAreOld'
    BY <1>2 DEF VInv, VersionsAreOld
  <1>5. SavesCommit'
    BY <1>1 DEF VInv, SavesCommit
  <1>6. ReplacedForGood'
    BY <1>3 DEF VInv, ReplacedForGood
  <1>7. SavedOnce'
    BY <1>3 DEF VInv, SavedOnce
  <1> QED
    BY <1>4, <1>5, <1>6, <1>7 DEF VInv

-----------------------------------------------------------------------------
(* Each step keeps the versions old. *)

LEMMA VersionBegin ==
    ASSUME VInv, TypeInv', NEW c \in Op, NEW k \in Kind, NEW o \in Owner, Begin(c, k, o)
    PROVE  VInv'
  <1> USE DEF VInv, TypeInv, TypeOK, Actor
  <1>1. MayCommit(c) /\ UNCHANGED <<live, updatedAt, fin>>
    BY DEF Begin, MayCommit, database
  <1>2. /\ \A d \in Op : d # c => cmd'[d] = cmd[d] /\ pc'[d] = pc[d]
        /\ cmd'[c].seen \in {None, updatedAt[o]}
        /\ pc'[c] \in {"prepare", "commit", "preflight"}
    BY DEF Begin, Goto, Entry
  <1>3. ~Saved(c)' /\ ~Finalizing(c)' /\ pc'[c] # "probe"
    BY <1>2 DEF Saved, Finalizing
  <1> QED
    BY <1>1, <1>2, <1>3, VersionSeen

LEMMA VersionReadExisting ==
    ASSUME VInv, TypeInv', NEW c \in Op, ReadExisting(c)
    PROVE  VInv'
  <1> USE ConstantsAssumption DEF VInv, TypeInv, TypeOK, Actor
  <1>1. MayCommit(c) /\ UNCHANGED <<live, updatedAt, fin>> /\ cmd[c].owner \in Owner
    BY DEF ReadExisting, MayCommit, database, Running, Step
  <1>2. /\ \A d \in Op : d # c => cmd'[d] = cmd[d] /\ pc'[d] = pc[d]
        /\ pc'[c] \in {"prepare", "commit", "error"}
    BY DEF ReadExisting, Goto
  <1>3. ~Saved(c)' /\ ~Finalizing(c)' /\ pc'[c] # "probe"
    BY <1>2 DEF Saved, Finalizing
  <1>4. CASE cmd[c].owner \in live /\ Expected(c)
    <2>1. cmd'[c].seen = cmd[c].seen
      BY <1>4 DEF ReadExisting
    <2> QED
      BY <1>1, <1>2, <1>3, <2>1, VersionSeen
  <1>5. CASE ~(cmd[c].owner \in live /\ Expected(c))
    <2>1. UNCHANGED cmd /\ \A b \in Actor : b # c => pc'[b] = pc[b] /\ fin'[b] = fin[b]
      BY <1>5, <1>1 DEF ReadExisting, Goto
    <2>2. pc'[c] = "error"
      BY <1>5 DEF ReadExisting, Goto
    <2>3. ~MayCommit(c)'
      BY <2>2 DEF MayCommit, Finalizing
    <2> QED
      BY <1>1, <1>3, <2>1, <2>2, <2>3, VersionMove
  <1> QED
    BY <1>4, <1>5

\* A command moves on without a commit.
LEMMA VersionWork ==
    ASSUME VInv, TypeInv', NEW c \in Op, Work(c), ~Commit(c), ~ReadExisting(c)
    PROVE  VInv'
  <1> USE ConstantsAssumption DEF VInv, TypeInv, TypeOK, Actor, Goto, Finalize
  <1>1. UNCHANGED <<live, updatedAt, cmd>>
    BY DEF Work, Preflight, Probe, Prepare, Store, StoreFails, Abort, Reread, Reload, Refuse,
           database
  <1>2. \A b \in Actor : b # c => pc'[b] = pc[b] /\ fin'[b] = fin[b]
    BY DEF Work, Preflight, Probe, Prepare, Store, StoreFails, Abort, Reread, Reload, Refuse
  <1>3. pc'[c] # "probe"
    BY DEF Work, Preflight, Probe, Prepare, Store, StoreFails, Abort, Reread, Reload, Refuse,
           AfterPreflight, SavesCommit
  <1>4. Finalizing(c)' => fin'[c].then \in {"read", "commit", "error"}
    BY DEF Work, Preflight, Probe, Prepare, Store, StoreFails, Abort, Reread, Reload, Refuse,
           AfterPreflight, SavesCommit, Finalizing
  <1>5. MayCommit(c)' => MayCommit(c)
    BY DEF Work, Preflight, Probe, Prepare, Store, StoreFails, Abort, Reread, Reload, Refuse,
           AfterPreflight, SavesCommit, MayCommit, Finalizing
  <1>6. Saved(c)' => Saved(c)
    BY <1>1, <1>4 DEF Work, Preflight, Probe, Prepare, Store, StoreFails, Abort, Reread, Reload,
           Refuse, AfterPreflight, SavesCommit, Saved
  <1> QED
    BY <1>1, <1>2, <1>3, <1>4, <1>5, <1>6, VersionMove

LEMMA VersionCommit ==
    ASSUME VInv, TypeInv', NEW c \in Op, Commit(c)
    PROVE  VInv'
  <1> USE ConstantsAssumption DEF VInv, TypeInv, TypeOK, Actor, Goto, Finalize
  <1>1. MayCommit(c) /\ cmd[c].owner \in Owner /\ UNCHANGED cmd
    BY DEF Commit, CommitUpdate, CommitCreate, CommitFails, Delete, Import, Keep, SetEnabled,
           Insert, MayCommit, Running, Step
  <1>2. \A b \in Actor : b # c => pc'[b] = pc[b] /\ fin'[b] = fin[b]
    BY DEF Commit, CommitUpdate, CommitCreate, CommitFails, Delete, Import, Keep, SetEnabled,
           Insert, JournalRemoval
  <1>3. CASE CommitUpdate(c)
    <2>1. pc'[c] = "bind" /\ fin'[c].then = "reload"
      BY <1>3 DEF CommitUpdate
    <2>2. /\ cmd[c].owner \in live
          /\ cmd[c].owner \in Proxy \/ updatedAt[cmd[c].owner] = cmd[c].seen
          /\ UNCHANGED live
          /\ updatedAt' = [updatedAt EXCEPT ![cmd[c].owner] =
                              IF cmd[c].owner \in Proxy THEN @ ELSE c]
      BY <1>3 DEF CommitUpdate, Expected, Owner, Update
    <2>3. ~MayCommit(c)' /\ (Saved(c)' => updatedAt[cmd[c].owner] = cmd[c].seen)
      BY <1>1, <2>1, <2>2 DEF MayCommit, Finalizing, Saved
    <2> QED
      BY <1>1, <1>2, <2>1, <2>2, <2>3, VersionWrite
  <1>4. CASE CommitFails(c)
    <2>1. /\ UNCHANGED <<live, updatedAt>>
          /\ pc'[c] = "reread" \/ (pc'[c] = "bind" /\ fin'[c].then = "error")
      BY <1>4 DEF CommitFails, database
    <2>2. ~MayCommit(c)' /\ ~Saved(c)' /\ (Finalizing(c)' => fin'[c].then = "error")
      BY <2>1 DEF MayCommit, Saved, Finalizing
    <2> QED
      BY <1>1, <1>2, <2>1, <2>2, VersionMove
  <1>5. ASSUME cmd[c].kind \notin Update,
               pc'[c] \in {"ok", "reload"} \/ (pc'[c] = "bind" /\ fin'[c].then = "ok"),
               \A o \in Owner : o # cmd[c].owner =>
                  updatedAt'[o] = updatedAt[o] /\ (o \in live' <=> o \in live),
               \/ updatedAt'[cmd[c].owner] = c
               \/ updatedAt'[cmd[c].owner] = None /\ cmd[c].owner \notin live'
               \/ updatedAt'[cmd[c].owner] = updatedAt[cmd[c].owner] /\ cmd[c].owner \in Proxy
        PROVE  VInv'
    <2>1. /\ ~MayCommit(c)' /\ ~Saved(c)' /\ pc'[c] # "probe"
          /\ Finalizing(c)' => fin'[c].then = "ok"
      BY <1>1, <1>5 DEF MayCommit, Saved, Finalizing
    <2> QED
      BY <1>1, <1>2, <1>5, <2>1, VersionWrite
  <1>6. CASE CommitCreate(c)
    BY <1>1, <1>5, <1>6 DEF CommitCreate, Update
  <1>7. CASE Delete(c)
    BY <1>1, <1>5, <1>7 DEF Delete, JournalRemoval, Update
  <1>8. CASE Import(c)
    BY <1>1, <1>5, <1>8 DEF Import, JournalRemoval, Update
  <1>9. CASE Keep(c)
    <2>1. pc'[c] \in {"ok", "reload"}
      BY <1>9 DEF Keep
    <2>2. /\ cmd[c].owner \in live /\ UNCHANGED live
          /\ cmd[c].owner \in Proxy \/ updatedAt[cmd[c].owner] = cmd[c].seen
          /\ updatedAt' = [updatedAt EXCEPT ![cmd[c].owner] =
                              IF cmd[c].owner \in Proxy THEN @ ELSE c]
      BY <1>1, <1>9 DEF Keep, Expected, Owner, Update
    <2>3. ~MayCommit(c)' /\ ~Finalizing(c)' /\ (Saved(c)' => updatedAt[cmd[c].owner] = cmd[c].seen)
      BY <1>1, <2>1, <2>2 DEF MayCommit, Finalizing, Saved
    <2> QED
      BY <1>1, <1>2, <2>1, <2>2, <2>3, VersionWrite
  <1>10. CASE SetEnabled(c)
    BY <1>1, <1>5, <1>10 DEF SetEnabled, Update
  <1>11. CASE Insert(c)
    BY <1>1, <1>5, <1>11 DEF Insert, Update
  <1> QED
    BY <1>3, <1>4, <1>6, <1>7, <1>8, <1>9, <1>10, <1>11 DEF Commit

LEMMA VersionFinalizeStep ==
    ASSUME VInv, TypeInv', NEW a \in Actor, FinalizeStep(a)
    PROVE  VInv'
  <1> USE ConstantsAssumption DEF VInv, TypeInv, TypeOK, Actor, Goto
  <1>1. UNCHANGED <<live, updatedAt, cmd>>
    BY DEF FinalizeStep, ReadBinding, CleanupVault, CleanupFails, DropJournal, FinalizeFails,
           Defer, database
  <1>2. \A b \in Actor : b # a => pc'[b] = pc[b] /\ fin'[b] = fin[b]
    BY DEF FinalizeStep, ReadBinding, CleanupVault, CleanupFails, DropJournal, FinalizeFails, Defer
  <1>3. Finalizing(a) /\ fin'[a].then = fin[a].then
    BY DEF FinalizeStep, ReadBinding, CleanupVault, CleanupFails, DropJournal, FinalizeFails,
           Defer, Finalizing
  <1>4. a \in Op => \/ pc'[a] \in {"cleanup", "drop"}
                    \/ pc'[a] = fin[a].then
                    \/ pc'[a] \in {"probe", "error"} /\ fin[a].then \in {"read", "commit"}
    BY DEF FinalizeStep, ReadBinding, CleanupVault, CleanupFails, DropJournal, FinalizeFails, Defer
  <1>5. fin[a].then \in Resume
    OBVIOUS
  <1>6. ASSUME a \in Op PROVE MayCommit(a)' => MayCommit(a)
    BY <1>3, <1>4, <1>5, <1>6 DEF MayCommit, Finalizing, Resume, SavesCommit
  <1>7. ASSUME a \in Op PROVE Saved(a)' => Saved(a)
    BY <1>1, <1>3, <1>4, <1>5, <1>7 DEF Saved, Finalizing, Resume, SavesCommit
  <1>8. a \in Op /\ pc'[a] = "probe" => fin'[a].then \in {"read", "commit"}
    BY <1>3, <1>4, <1>5 DEF Resume
  <1>9. a \in Op /\ Finalizing(a)' =>
           /\ fin'[a].then # "idle"
           /\ cmd[a].kind \in Update => fin'[a].then # "ok"
    BY <1>3 DEF SavesCommit
  <1> QED
    BY <1>1, <1>2, <1>6, <1>7, <1>8, <1>9, VersionMove

LEMMA VersionNext == VInv /\ [Next]_vars => VInv'
  <1> SUFFICES ASSUME VInv, [Next]_vars PROVE VInv'
    OBVIOUS
  <1>1. TypeInv'
    BY TypeNext DEF VInv
  <1>2. CASE BootStep
    <2>1. UNCHANGED <<live, updatedAt, cmd>>
      BY <1>2 DEF BootStep, BootList, BootListFails, BootPick, BootServe, database
    <2>2. \A b \in Actor : b # Boot => pc'[b] = pc[b] /\ fin'[b] = fin[b]
      BY <1>2 DEF BootStep, BootList, BootListFails, BootPick, BootServe, Goto, Finalize, VInv,
                  TypeInv, TypeOK
    <2> QED
      BY <1>1, <2>1, <2>2, ConstantsAssumption, VersionMove DEF Actor
  <1>3. ASSUME NEW c \in Op, NEW k \in Kind, NEW o \in Owner, Begin(c, k, o) PROVE VInv'
    BY <1>1, <1>3, VersionBegin
  <1>4. ASSUME NEW c \in Op, Work(c) PROVE VInv'
    BY <1>1, <1>4, VersionWork, VersionCommit, VersionReadExisting
  <1>5. ASSUME NEW a \in Actor, FinalizeStep(a) PROVE VInv'
    BY <1>1, <1>5, VersionFinalizeStep
  <1>6. CASE Crash
    <2>1. UNCHANGED <<live, updatedAt, cmd>>
      BY <1>6 DEF Crash, database
    <2>2. \A c \in Op : pc'[c] = IF Running(c) THEN "lost" ELSE pc[c]
      BY <1>6, ConstantsAssumption DEF Crash, Actor
    <2>3. \A c \in Op : ~Finalizing(c)' /\ pc'[c] # "probe"
      BY <2>2 DEF Finalizing, Running, Step
    <2>4. \A c \in Op : (MayCommit(c)' => MayCommit(c)) /\ (Saved(c)' => Saved(c))
      BY <2>1, <2>2, <2>3 DEF MayCommit, Saved, Running, Step
    <2> QED
      BY <1>1, <2>1, <2>3, <2>4, VersionQuiet DEF SavesCommit
  <1>7. CASE UNCHANGED vars
    <2>1. \A c \in Op : /\ MayCommit(c)' <=> MayCommit(c)
                        /\ Saved(c)' <=> Saved(c)
      BY <1>7 DEF vars, MayCommit, Saved, Finalizing
    <2>2. SavesCommit'
      BY <1>7 DEF vars, VInv, SavesCommit, Finalizing
    <2> QED
      BY <1>1, <1>7, <2>1, <2>2, VersionQuiet DEF vars, database
  <1> QED
    BY <1>2, <1>3, <1>4, <1>5, <1>6, <1>7 DEF Next

\* Two saves that started from the same version of a provider are never both accepted,
\* however commands overlap and wherever the process dies.
THEOREM UpdatesAreNotLost == Spec => []NoLostUpdate
  <1>1. VInv => NoLostUpdate
    BY DEF VInv, SavedOnce, NoLostUpdate, Saved
  <1>2. Spec => []VInv
    BY VersionInit, VersionNext, PTL DEF Spec
  <1> QED
    BY <1>1, <1>2, PTL

-----------------------------------------------------------------------------
(* The inductive invariant. *)

\* A command that has not committed: nothing refers to its secret but its own row.
Uncommitted(c) ==
    \/ pc[c] \in {"idle", "preflight", "probe", "read", "prepare", "store", "abort", "commit"}
    \/ Finalizing(c) /\ fin[c].then \in {"read", "commit"}

\* Its secret is not in the vault either.
Unstored(c) ==
    \/ pc[c] \in {"idle", "preflight", "probe", "read", "prepare", "store", "abort"}
    \/ Finalizing(c) /\ fin[c].then \in {"read", "commit"}

\* Commands have an owner, run one at a time on it, and only after start-up.
Scheduling ==
    /\ \A c \in Op : pc[c] \in {"idle"} \cup Step \cup Finished
    /\ \A c \in Op : pc[c] = "idle" => cmd[c].owner = None
    /\ \A c \in Op : Running(c) => cmd[c].owner \in Owner /\ cmd[c].kind \in Kind
    /\ \A c \in Op : Running(c) => pc[Boot] = "serving"
    /\ \A c, d \in Op : Running(c) /\ Running(d) /\ cmd[c].owner = cmd[d].owner => c = d
    /\ pc[Boot] \in {"list", "pick", "serving", "bind", "cleanup", "drop"}

\* A reference is used by the owner of the command that allocated it, and not before
\* that command commits.
References ==
    /\ \A o \in Owner : ref[o] # None => cmd[ref[o]].owner = o
    /\ \A o \in Owner, c \in Op : Uncommitted(c) => ref[o] # c
    /\ \A c \in Op : Unstored(c) => c \notin vault
    /\ \A o \in Owner : o \notin live => ref[o] = None

\* What a journal row says of the row it is about.
JournalMatches ==
    \A o \in Owner : journal[o] # None =>
        LET row == journal[o] IN
        /\ row.owner = o
        /\ cmd[row.id].owner = o
        /\ row.new \in {None, row.id}
        /\ row.old # None => row.old # row.id /\ cmd[row.old].owner = o
        /\ row.state = "prepared" => ref[o] = row.old
        /\ row.state = "db_committed" => ref[o] = row.new

\* What a running command relies on.
Progress ==
    \A c \in Op :
        LET o == cmd[c].owner IN
        /\ pc[c] \in {"read", "prepare"} => journal[o] = None
        /\ pc[c] = "prepare" => cmd[c].kind \in {"create", "replace", "clear"} /\ cmd[c].old = ref[o]
        /\ pc[c] = "read" => cmd[c].kind \in {"replace", "clear", "delete"}
        /\ pc[c] = "preflight" => cmd[c].kind \notin {"create", "insert", "enable"}
        /\ pc[c] \in {"store", "abort"} => cmd[c].kind \in {"create", "replace"}
        /\ pc[c] \in {"store", "abort", "reread"} => journal[o] = Prepared(c)
        /\ pc[c] = "reread" => cmd[c].kind = "clear"
        /\ pc[c] = "commit" /\ cmd[c].kind \in {"create", "replace", "clear"}
              => journal[o] = Prepared(c) /\ (cmd[c].kind # "clear" => c \in vault)
        /\ pc[c] = "commit" /\ cmd[c].kind = "delete" => journal[o] = None /\ cmd[c].old = ref[o]
        /\ pc[c] = "commit" /\ cmd[c].kind = "insert" => journal[o] = None

\* What an actor that finalizes relies on: it works on the current row of the journal.
Cleaning ==
    \A a \in Actor :
        Finalizing(a) =>
            LET row == fin[a].row IN
            /\ row # None
            /\ journal[row.owner] = row
            /\ a \in Op => row.owner = cmd[a].owner
            /\ pc[a] \in {"cleanup", "drop"} => fin[a].target = CleanupTarget(row, ref[row.owner])
            /\ pc[a] = "drop" => fin[a].target \notin vault

\* Where an actor goes after finalization.
Continuation ==
    /\ Finalizing(Boot) => fin[Boot].then = "pick" /\ fin[Boot].row \notin unlisted
    /\ \A c \in Op : Finalizing(c) \/ pc[c] = "probe" =>
          \/ fin[c].then \in {"ok", "error", "reload"} /\ pc[c] # "probe"
          \/ fin[c].then = AfterPreflight(c) /\ cmd[c].kind \notin {"create", "insert", "enable"}

\* What start-up recovery has still to do.
Listing ==
    /\ \A row \in unlisted : journal[row.owner] = row
    /\ pc[Boot] \in {"list", "serving"} => unlisted = {}

IInv ==
    /\ TypeInv
    /\ Scheduling
    /\ References
    /\ JournalMatches
    /\ Progress
    /\ Cleaning
    /\ Continuation
    /\ Listing
    /\ BoundSecretPresent
    /\ SecretAccountedFor

-----------------------------------------------------------------------------
(* Each step keeps the invariant: start-up, crash and the steps of a command. *)

\* Start-up lists the rows of the journal.
LEMMA SafeBootList ==
    ASSUME ~Overlap, IInv, TypeInv', BootList
    PROVE  IInv'
  <1> USE ConstantsAssumption
  <1>1. Scheduling'
    BY DEF BootList, Goto, database, boot, IInv, TypeInv, TypeOK, Actor, Scheduling, Running, Step
  <1>2. References'
    BY DEF BootList, Goto, database, boot, IInv, TypeInv, TypeOK, Actor, References, Uncommitted,
        Unstored, Finalizing
  <1>3. JournalMatches'
    BY DEF BootList, Goto, database, boot, IInv, TypeInv, TypeOK, Actor, JournalMatches
  <1>4. Progress'
    BY DEF BootList, Goto, database, boot, IInv, TypeInv, TypeOK, Actor, Progress, Prepared, NewRef
  <1>5. Cleaning'
    BY DEF BootList, Goto, database, boot, IInv, TypeInv, TypeOK, Actor, Cleaning, Finalizing
  <1>6. Continuation'
    BY DEF BootList, Goto, database, boot, IInv, TypeInv, TypeOK, Actor, Continuation, Finalizing,
        AfterPreflight
  <1>7. Listing'
    <2>1. \A row \in unlisted' : \E o \in Owner : row = journal[o] /\ row # None
      BY DEF BootList
    <2>2. \A row \in unlisted' : journal[row.owner] = row
      BY <2>1 DEF IInv, JournalMatches
    <2> QED
      BY <2>2 DEF BootList, Goto, Listing, database, IInv, TypeInv, TypeOK, Actor
  <1>8. BoundSecretPresent'
    BY DEF BootList, Goto, database, boot, IInv, TypeInv, TypeOK, Actor, BoundSecretPresent
  <1>9. SecretAccountedFor'
    BY DEF BootList, Goto, database, boot, IInv, TypeInv, TypeOK, Actor, SecretAccountedFor
  <1> QED
    BY <1>1, <1>2, <1>3, <1>4, <1>5, <1>6, <1>7, <1>8, <1>9 DEF IInv

LEMMA SafeBootListFails ==
    ASSUME ~Overlap, IInv, TypeInv', BootListFails
    PROVE  IInv'
  <1> USE ConstantsAssumption
  <1>1. Scheduling'
    BY DEF BootListFails, Goto, database, boot, IInv, TypeInv, TypeOK, Actor, Scheduling, Running,
        Step
  <1>2. References'
    BY DEF BootListFails, Goto, database, boot, IInv, TypeInv, TypeOK, Actor, References,
        Uncommitted, Unstored, Finalizing
  <1>3. JournalMatches'
    BY DEF BootListFails, Goto, database, boot, IInv, TypeInv, TypeOK, Actor, JournalMatches
  <1>4. Progress'
    BY DEF BootListFails, Goto, database, boot, IInv, TypeInv, TypeOK, Actor, Progress, Prepared,
        NewRef
  <1>5. Cleaning'
    BY DEF BootListFails, Goto, database, boot, IInv, TypeInv, TypeOK, Actor, Cleaning, Finalizing
  <1>6. Continuation'
    BY DEF BootListFails, Goto, database, boot, IInv, TypeInv, TypeOK, Actor, Continuation,
        Finalizing, AfterPreflight
  <1>7. Listing'
    BY DEF BootListFails, Goto, database, boot, IInv, TypeInv, TypeOK, Actor, Listing
  <1>8. BoundSecretPresent'
    BY DEF BootListFails, Goto, database, boot, IInv, TypeInv, TypeOK, Actor, BoundSecretPresent
  <1>9. SecretAccountedFor'
    BY DEF BootListFails, Goto, database, boot, IInv, TypeInv, TypeOK, Actor, SecretAccountedFor
  <1> QED
    BY <1>1, <1>2, <1>3, <1>4, <1>5, <1>6, <1>7, <1>8, <1>9 DEF IInv

\* Start-up turns to one of them.
LEMMA SafeBootPick ==
    ASSUME ~Overlap, IInv, TypeInv', BootPick
    PROVE  IInv'
  <1> USE ConstantsAssumption
  <1>1. Scheduling'
    BY DEF BootPick, Goto, Finalize, database, boot, IInv, TypeInv, TypeOK, Actor, Scheduling,
        Running, Step
  <1>2. References'
    BY DEF BootPick, Goto, Finalize, database, boot, IInv, TypeInv, TypeOK, Actor, References,
        Uncommitted, Unstored, Finalizing
  <1>3. JournalMatches'
    BY DEF BootPick, Goto, Finalize, database, boot, IInv, TypeInv, TypeOK, Actor, JournalMatches
  <1>4. Progress'
    BY DEF BootPick, Goto, Finalize, database, boot, IInv, TypeInv, TypeOK, Actor, Progress,
        Prepared, NewRef
  <1>5. Cleaning'
    <2>1. PICK row \in unlisted : Finalize(Boot, row, "pick")
      BY DEF BootPick
    <2>2. row # None /\ journal[row.owner] = row
      BY <2>1 DEF IInv, Listing, TypeInv, TypeOK
    <2> QED
      BY <2>1, <2>2
      DEF BootPick, Finalize, Goto, Cleaning, Finalizing, database, IInv, TypeInv, TypeOK, Actor
  <1>6. Continuation'
    BY DEF BootPick, Goto, Finalize, database, boot, IInv, TypeInv, TypeOK, Actor, Continuation,
        Finalizing, AfterPreflight
  <1>7. Listing'
    BY DEF BootPick, Goto, Finalize, database, boot, IInv, TypeInv, TypeOK, Actor, Listing
  <1>8. BoundSecretPresent'
    BY DEF BootPick, Goto, Finalize, database, boot, IInv, TypeInv, TypeOK, Actor,
        BoundSecretPresent
  <1>9. SecretAccountedFor'
    BY DEF BootPick, Goto, Finalize, database, boot, IInv, TypeInv, TypeOK, Actor,
        SecretAccountedFor
  <1> QED
    BY <1>1, <1>2, <1>3, <1>4, <1>5, <1>6, <1>7, <1>8, <1>9 DEF IInv

\* Start-up is over.
LEMMA SafeBootServe ==
    ASSUME ~Overlap, IInv, TypeInv', BootServe
    PROVE  IInv'
  <1> USE ConstantsAssumption
  <1>1. Scheduling'
    BY DEF BootServe, Goto, database, boot, IInv, TypeInv, TypeOK, Actor, Scheduling, Running, Step
  <1>2. References'
    BY DEF BootServe, Goto, database, boot, IInv, TypeInv, TypeOK, Actor, References, Uncommitted,
        Unstored, Finalizing
  <1>3. JournalMatches'
    BY DEF BootServe, Goto, database, boot, IInv, TypeInv, TypeOK, Actor, JournalMatches
  <1>4. Progress'
    BY DEF BootServe, Goto, database, boot, IInv, TypeInv, TypeOK, Actor, Progress, Prepared,
        NewRef
  <1>5. Cleaning'
    BY DEF BootServe, Goto, database, boot, IInv, TypeInv, TypeOK, Actor, Cleaning, Finalizing
  <1>6. Continuation'
    BY DEF BootServe, Goto, database, boot, IInv, TypeInv, TypeOK, Actor, Continuation,
        Finalizing, AfterPreflight
  <1>7. Listing'
    BY DEF BootServe, Goto, database, boot, IInv, TypeInv, TypeOK, Actor, Listing
  <1>8. BoundSecretPresent'
    BY DEF BootServe, Goto, database, boot, IInv, TypeInv, TypeOK, Actor, BoundSecretPresent
  <1>9. SecretAccountedFor'
    BY DEF BootServe, Goto, database, boot, IInv, TypeInv, TypeOK, Actor, SecretAccountedFor
  <1> QED
    BY <1>1, <1>2, <1>3, <1>4, <1>5, <1>6, <1>7, <1>8, <1>9 DEF IInv

\* A crash loses the running commands; what they rely on is forgotten with them.
LEMMA SafeCrash ==
    ASSUME ~Overlap, IInv, TypeInv', Crash
    PROVE  IInv'
  <1> USE ConstantsAssumption
  <1>1. Scheduling'
    BY DEF Crash, database, boot, IInv, TypeInv, Actor, Running, Step, Finished, Scheduling
  <1>2. References'
    BY DEF Crash, NoFin, database, boot, IInv, TypeInv, TypeOK, Actor, References, Uncommitted,
        Unstored, Finalizing
  <1>3. JournalMatches'
    BY DEF Crash, NoFin, database, boot, IInv, TypeInv, TypeOK, Actor, JournalMatches
  <1>4. Progress'
    BY DEF Crash, NoFin, database, boot, IInv, TypeInv, TypeOK, Actor, Progress, Prepared, NewRef
  <1>5. Cleaning'
    BY DEF Crash, NoFin, database, boot, IInv, TypeInv, TypeOK, Actor, Cleaning, Finalizing
  <1>6. Continuation'
    BY DEF Crash, database, boot, IInv, TypeInv, Actor, Running, Finalizing, Step, Continuation
  <1>7. Listing'
    BY DEF Crash, NoFin, database, boot, IInv, TypeInv, TypeOK, Actor, Listing
  <1>8. BoundSecretPresent'
    BY DEF Crash, NoFin, database, boot, IInv, TypeInv, TypeOK, Actor, BoundSecretPresent
  <1>9. SecretAccountedFor'
    BY DEF Crash, NoFin, database, boot, IInv, TypeInv, TypeOK, Actor, SecretAccountedFor
  <1> QED
    BY <1>1, <1>2, <1>3, <1>4, <1>5, <1>6, <1>7, <1>8, <1>9 DEF IInv

\* A new command is alone on its owner, and a fresh owner has nothing yet.
LEMMA SafeBegin ==
    ASSUME ~Overlap, IInv, TypeInv', NEW c \in Op, NEW k \in Kind, NEW o \in Owner, Begin(c, k, o)
    PROVE  IInv'
  <1> USE ConstantsAssumption
  <1>1. Scheduling'
    BY DEF Begin, Goto, Entry, Fresh, Known, database, boot, IInv, TypeInv, TypeOK, Actor,
        Scheduling, Running, Step
  <1>2. References'
    BY DEF Begin, Goto, Entry, Fresh, Known, database, boot, IInv, TypeInv, TypeOK, Actor,
        References, Uncommitted, Unstored, Finalizing
  <1>3. JournalMatches'
    BY DEF Begin, Goto, database, boot, IInv, TypeInv, JournalMatches, Scheduling
  <1>4. Progress'
    <2>1. k \in {"create", "insert"} => journal[o] = None /\ ref[o] = None
      BY DEF Begin, Fresh, IInv, JournalMatches, References, TypeInv, TypeOK, JournalRow
    <2>2. \A d \in Op : d # c => cmd'[d] = cmd[d] /\ pc'[d] = pc[d] /\ Prepared(d)' = Prepared(d)
      BY DEF Begin, Goto, Prepared, NewRef, IInv, TypeInv, TypeOK, Actor
    <2>3. /\ cmd'[c].kind = k /\ cmd'[c].owner = o /\ cmd'[c].old = None
          /\ pc'[c] = Entry(k)
      BY DEF Begin, Goto, IInv, TypeInv, TypeOK, Actor
    <2> QED
      BY <2>1, <2>2, <2>3 DEF Begin, Entry, Progress, Kind, database, IInv
  <1>5. Cleaning'
    BY DEF Begin, Goto, Entry, Fresh, Known, database, boot, IInv, TypeInv, TypeOK, Actor,
        Cleaning, Finalizing
  <1>6. Continuation'
    BY DEF Begin, Goto, Entry, Fresh, Known, database, boot, IInv, TypeInv, TypeOK, Actor,
        Continuation, Finalizing, AfterPreflight
  <1>7. Listing'
    BY DEF Begin, Goto, Entry, Fresh, Known, database, boot, IInv, TypeInv, TypeOK, Actor, Listing
  <1>8. BoundSecretPresent'
    BY DEF Begin, Goto, Entry, Fresh, Known, database, boot, IInv, TypeInv, TypeOK, Actor,
        BoundSecretPresent
  <1>9. SecretAccountedFor'
    BY DEF Begin, Goto, Entry, Fresh, Known, database, boot, IInv, TypeInv, TypeOK, Actor,
        SecretAccountedFor
  <1> QED
    BY <1>1, <1>2, <1>3, <1>4, <1>5, <1>6, <1>7, <1>8, <1>9 DEF IInv

LEMMA SafePreflight ==
    ASSUME ~Overlap, IInv, TypeInv', NEW c \in Op, Preflight(c)
    PROVE  IInv'
  <1> USE ConstantsAssumption
  <1>1. Scheduling'
    BY DEF Preflight, Goto, Finalize, database, boot, IInv, TypeInv, TypeOK, Actor, Ref, Running,
        Step, AfterPreflight, Scheduling
  <1>2. References'
    BY DEF Preflight, Goto, Finalize, AfterPreflight, database, boot, IInv, TypeInv, TypeOK,
        Actor, References, Uncommitted, Unstored, Finalizing
  <1>3. JournalMatches'
    BY DEF Preflight, Goto, Finalize, AfterPreflight, database, boot, IInv, TypeInv, TypeOK,
        Actor, JournalMatches
  <1>4. Progress'
    BY DEF Preflight, Goto, Finalize, database, boot, IInv, TypeInv, TypeOK, Actor, Running, Step,
        Kind, AfterPreflight, Progress, Prepared, NewRef
  <1>5. Cleaning'
    BY DEF Preflight, Goto, Finalize, database, boot, IInv, TypeInv, TypeOK, Running, Finalizing,
        Step, AfterPreflight, Cleaning, JournalMatches
  <1>6. Continuation'
    BY DEF Preflight, Goto, Finalize, database, boot, IInv, TypeInv, TypeOK, Actor, Finalizing,
        AfterPreflight, Continuation, Progress
  <1>7. Listing'
    BY DEF Preflight, Goto, Finalize, AfterPreflight, database, boot, IInv, TypeInv, TypeOK,
        Actor, Listing
  <1>8. BoundSecretPresent'
    BY DEF Preflight, Goto, Finalize, AfterPreflight, database, boot, IInv, TypeInv, TypeOK,
        Actor, BoundSecretPresent
  <1>9. SecretAccountedFor'
    BY DEF Preflight, Goto, Finalize, AfterPreflight, database, boot, IInv, TypeInv, TypeOK,
        Actor, SecretAccountedFor
  <1> QED
    BY <1>1, <1>2, <1>3, <1>4, <1>5, <1>6, <1>7, <1>8, <1>9 DEF IInv

LEMMA SafeProbe ==
    ASSUME ~Overlap, IInv, TypeInv', NEW c \in Op, Probe(c)
    PROVE  IInv'
  <1> USE ConstantsAssumption
  <1>1. Scheduling'
    BY DEF Probe, Goto, database, boot, IInv, TypeInv, Running, Step, Finished, Scheduling,
        Continuation, AfterPreflight
  <1>2. References'
    BY DEF Probe, Goto, database, boot, IInv, TypeInv, TypeOK, Actor, References, Uncommitted,
        Unstored, Finalizing
  <1>3. JournalMatches'
    BY DEF Probe, Goto, database, boot, IInv, TypeInv, TypeOK, Actor, JournalMatches
  <1>4. Progress'
    BY DEF Probe, Goto, database, boot, IInv, TypeInv, Running, Step, Kind, Progress,
        Continuation, AfterPreflight, Prepared, NewRef
  <1>5. Cleaning'
    BY DEF Probe, Goto, database, boot, IInv, TypeInv, TypeOK, Finalizing, Resume, Cleaning,
        CleanupTarget
  <1>6. Continuation'
    BY DEF Probe, Goto, database, boot, IInv, TypeInv, TypeOK, Actor, Continuation, Finalizing,
        AfterPreflight
  <1>7. Listing'
    BY DEF Probe, Goto, database, boot, IInv, TypeInv, TypeOK, Actor, Listing
  <1>8. BoundSecretPresent'
    BY DEF Probe, Goto, database, boot, IInv, TypeInv, TypeOK, Actor, BoundSecretPresent
  <1>9. SecretAccountedFor'
    BY DEF Probe, Goto, database, boot, IInv, TypeInv, TypeOK, Actor, SecretAccountedFor
  <1> QED
    BY <1>1, <1>2, <1>3, <1>4, <1>5, <1>6, <1>7, <1>8, <1>9 DEF IInv

LEMMA SafeReadExisting ==
    ASSUME ~Overlap, IInv, TypeInv', NEW c \in Op, ReadExisting(c)
    PROVE  IInv'
  <1> USE ConstantsAssumption
  <1>1. Scheduling'
    <2>1. /\ UNCHANGED fin /\ pc[c] = "read" /\ cmd' \in [Op -> [kind: Kind \cup {None},
                owner: Owner \cup {None}, old: Ref, seen: Ref]]
          /\ \E l \in {"prepare", "commit", "error"} : pc' = [pc EXCEPT ![c] = l]
          /\ \A d \in Op : cmd'[d].owner = cmd[d].owner /\ (d # c => cmd'[d] = cmd[d])
      BY DEF ReadExisting, Goto, IInv, TypeInv, TypeOK
    <2> QED
      BY <2>1 DEF IInv, TypeInv, TypeOK, Actor, Running, Finalizing, Step, Finished, Scheduling
  <1>2. References'
    BY DEF ReadExisting, Goto, database, boot, IInv, TypeInv, TypeOK, Actor, Ref, Finalizing,
        References, Uncommitted, Unstored, Cleaning, AfterPreflight
  <1>3. JournalMatches'
    BY DEF ReadExisting, Goto, database, boot, IInv, TypeInv, TypeOK, Ref, Running,
        JournalMatches, References, Cleaning, JournalRow
  <1>4. Progress'
    <2>1. \A d \in Op : d # c => cmd'[d] = cmd[d] /\ pc'[d] = pc[d] /\ Prepared(d)' = Prepared(d)
      BY DEF ReadExisting, Goto, Prepared, NewRef, IInv, TypeInv, TypeOK, Actor
    <2>2. journal[cmd[c].owner] = None /\ cmd[c].kind \in {"replace", "clear", "delete"}
      BY DEF ReadExisting, IInv, Progress
    <2>3. CASE cmd[c].owner \in live
      BY <2>1, <2>2, <2>3
      DEF ReadExisting, Goto, Progress, database, IInv, TypeInv, TypeOK, Actor
    <2>4. CASE cmd[c].owner \notin live
      BY <2>1, <2>2, <2>4
      DEF ReadExisting, Goto, Progress, database, IInv, TypeInv, TypeOK, Actor
    <2> QED
      BY <2>3, <2>4
  <1>5. Cleaning'
    BY DEF ReadExisting, Goto, database, boot, IInv, TypeInv, TypeOK, Actor, Cleaning, Finalizing
  <1>6. Continuation'
    BY DEF ReadExisting, Goto, database, boot, IInv, TypeInv, TypeOK, Actor, Continuation,
        Finalizing, AfterPreflight
  <1>7. Listing'
    BY DEF ReadExisting, Goto, database, boot, IInv, TypeInv, TypeOK, Actor, Listing
  <1>8. BoundSecretPresent'
    BY DEF ReadExisting, Goto, database, boot, IInv, TypeInv, TypeOK, Actor, BoundSecretPresent
  <1>9. SecretAccountedFor'
    BY DEF ReadExisting, Goto, database, boot, IInv, TypeInv, TypeOK, Actor, SecretAccountedFor
  <1> QED
    BY <1>1, <1>2, <1>3, <1>4, <1>5, <1>6, <1>7, <1>8, <1>9 DEF IInv

LEMMA SafePrepare ==
    ASSUME ~Overlap, IInv, TypeInv', NEW c \in Op, Prepare(c)
    PROVE  IInv'
  <1> USE ConstantsAssumption
  <1>1. Scheduling'
    BY DEF Prepare, Goto, database, boot, IInv, TypeInv, TypeOK, Actor, Ref, Running, Step,
        Finished, Scheduling
  <1>2. References'
    BY DEF Prepare, Goto, Prepared, NewRef, database, boot, IInv, TypeInv, TypeOK, Actor,
        References, Uncommitted, Unstored, Finalizing
  <1>3. JournalMatches'
    BY DEF Prepare, Goto, database, boot, IInv, TypeInv, TypeOK, Prepared, NewRef, JournalMatches,
        References, Uncommitted, Progress
  <1>4. Progress'
    BY DEF Prepare, Goto, database, boot, IInv, TypeInv, TypeOK, Actor, Running, Step, Prepared,
        NewRef, Progress, Scheduling
  <1>5. Cleaning'
    BY DEF Prepare, Goto, database, boot, IInv, TypeInv, TypeOK, Actor, Running, Finalizing, Step,
        Cleaning, Scheduling
  <1>6. Continuation'
    BY DEF Prepare, Goto, Prepared, NewRef, database, boot, IInv, TypeInv, TypeOK, Actor,
        Continuation, Finalizing, AfterPreflight
  <1>7. Listing'
    BY DEF Prepare, Goto, database, boot, IInv, TypeInv, Running, Step, Listing, Scheduling
  <1>8. BoundSecretPresent'
    BY DEF Prepare, Goto, Prepared, NewRef, database, boot, IInv, TypeInv, TypeOK, Actor,
        BoundSecretPresent
  <1>9. SecretAccountedFor'
    BY DEF Prepare, Goto, Prepared, NewRef, database, boot, IInv, TypeInv, TypeOK, Actor,
        SecretAccountedFor
  <1> QED
    BY <1>1, <1>2, <1>3, <1>4, <1>5, <1>6, <1>7, <1>8, <1>9 DEF IInv

LEMMA SafeStore ==
    ASSUME ~Overlap, IInv, TypeInv', NEW c \in Op, Store(c)
    PROVE  IInv'
  <1> USE ConstantsAssumption
  <1>1. Scheduling'
    BY DEF Store, Goto, database, boot, IInv, TypeInv, TypeOK, Actor, Scheduling, Running, Step
  <1>2. References'
    BY DEF Store, Goto, database, boot, IInv, TypeInv, TypeOK, Actor, References, Uncommitted,
        Unstored, Finalizing
  <1>3. JournalMatches'
    BY DEF Store, Goto, database, boot, IInv, TypeInv, TypeOK, Actor, JournalMatches
  <1>4. Progress'
    BY DEF Store, Goto, database, boot, IInv, TypeInv, TypeOK, Actor, Progress, Prepared, NewRef
  <1>5. Cleaning'
    BY DEF Store, Goto, database, boot, IInv, TypeInv, Actor, Running, Finalizing, Step, Cleaning,
        Scheduling, JournalMatches, CleanupTarget
  <1>6. Continuation'
    BY DEF Store, Goto, database, boot, IInv, TypeInv, TypeOK, Actor, Continuation, Finalizing,
        AfterPreflight
  <1>7. Listing'
    BY DEF Store, Goto, database, boot, IInv, TypeInv, TypeOK, Actor, Listing
  <1>8. BoundSecretPresent'
    BY DEF Store, Goto, database, boot, IInv, TypeInv, TypeOK, Actor, BoundSecretPresent
  <1>9. SecretAccountedFor'
    <2>1. cmd[c].owner \in Owner /\ journal[cmd[c].owner] = Prepared(c) /\ NewRef(c) = c
      BY DEF Store, NewRef, IInv, TypeInv, Running, Step, Progress
    <2>2. Prepared(c) # None /\ Prepared(c).new = c
      BY <2>1, PreparedType DEF IInv, TypeInv, Prepared
    <2> QED
      BY <2>1, <2>2 DEF Store, SecretAccountedFor, database, IInv
  <1> QED
    BY <1>1, <1>2, <1>3, <1>4, <1>5, <1>6, <1>7, <1>8, <1>9 DEF IInv

LEMMA SafeStoreFails ==
    ASSUME ~Overlap, IInv, TypeInv', NEW c \in Op, StoreFails(c)
    PROVE  IInv'
  <1> USE ConstantsAssumption
  <1>1. Scheduling'
    BY DEF StoreFails, Goto, database, boot, IInv, TypeInv, TypeOK, Actor, Scheduling, Running,
        Step
  <1>2. References'
    BY DEF StoreFails, Goto, database, boot, IInv, TypeInv, TypeOK, Actor, References,
        Uncommitted, Unstored, Finalizing
  <1>3. JournalMatches'
    BY DEF StoreFails, Goto, database, boot, IInv, TypeInv, TypeOK, Actor, JournalMatches
  <1>4. Progress'
    BY DEF StoreFails, Goto, database, boot, IInv, TypeInv, TypeOK, Actor, Progress, Prepared,
        NewRef
  <1>5. Cleaning'
    BY DEF StoreFails, Goto, database, boot, IInv, TypeInv, TypeOK, Actor, Cleaning, Finalizing
  <1>6. Continuation'
    BY DEF StoreFails, Goto, database, boot, IInv, TypeInv, TypeOK, Actor, Continuation,
        Finalizing, AfterPreflight
  <1>7. Listing'
    BY DEF StoreFails, Goto, database, boot, IInv, TypeInv, TypeOK, Actor, Listing
  <1>8. BoundSecretPresent'
    BY DEF StoreFails, Goto, database, boot, IInv, TypeInv, TypeOK, Actor, BoundSecretPresent
  <1>9. SecretAccountedFor'
    BY DEF StoreFails, Goto, database, boot, IInv, TypeInv, TypeOK, Actor, SecretAccountedFor
  <1> QED
    BY <1>1, <1>2, <1>3, <1>4, <1>5, <1>6, <1>7, <1>8, <1>9 DEF IInv

LEMMA SafeAbort ==
    ASSUME ~Overlap, IInv, TypeInv', NEW c \in Op, Abort(c)
    PROVE  IInv'
  <1> USE ConstantsAssumption
  <1>1. Scheduling'
    BY DEF Abort, Goto, database, boot, IInv, TypeInv, Running, Finished, Scheduling
  <1>2. References'
    BY DEF Abort, Goto, Deleted, Prepared, database, boot, IInv, TypeInv, TypeOK, Actor,
        References, Uncommitted, Unstored, Finalizing
  <1>3. JournalMatches'
    BY DEF Abort, Goto, Deleted, Prepared, database, boot, IInv, TypeInv, TypeOK, Actor,
        JournalMatches
  <1>4. Progress'
    BY DEF Abort, Goto, database, boot, IInv, TypeInv, TypeOK, Running, Step, Deleted, Prepared,
        Progress, NewRef
  <1>5. Cleaning'
    BY DEF Abort, Goto, database, boot, IInv, TypeInv, TypeOK, Actor, Running, Finalizing, Step,
        Deleted, Prepared, Cleaning, Scheduling
  <1>6. Continuation'
    BY DEF Abort, Goto, Deleted, Prepared, database, boot, IInv, TypeInv, TypeOK, Actor,
        Continuation, Finalizing, AfterPreflight
  <1>7. Listing'
    BY DEF Abort, Goto, database, boot, IInv, TypeInv, Running, Step, Listing, Scheduling
  <1>8. BoundSecretPresent'
    BY DEF Abort, Goto, Deleted, Prepared, database, boot, IInv, TypeInv, TypeOK, Actor,
        BoundSecretPresent
  <1>9. SecretAccountedFor'
    <2>1. cmd[c].owner \in Owner /\ journal[cmd[c].owner] = Prepared(c) /\ c \notin vault
      BY DEF Abort, IInv, TypeInv, Running, Step, Progress, References, Unstored
    <2>2. Prepared(c) # None
      BY <2>1, PreparedType DEF IInv, TypeInv
    <2>3. ref[cmd[c].owner] = cmd[c].old
      BY <2>1, <2>2 DEF IInv, JournalMatches, Prepared
    <2>4. \A o \in Owner : o # cmd[c].owner => journal'[o] = journal[o]
      BY <2>1 DEF Abort, Deleted, Prepared, IInv, TypeInv, TypeOK
    <2>5. \A s \in vault : s \in {Prepared(c).old, Prepared(c).new} => s = ref[cmd[c].owner]
      BY <2>1, <2>3 DEF Prepared, NewRef, IInv, TypeInv, TypeOK
    <2>6. vault' = vault /\ ref' = ref
      BY DEF Abort
    <2> QED
      BY <2>1, <2>4, <2>5, <2>6 DEF SecretAccountedFor, IInv
  <1> QED
    BY <1>1, <1>2, <1>3, <1>4, <1>5, <1>6, <1>7, <1>8, <1>9 DEF IInv

\* What a running command may rely on: it is alone on its owner, and recovery is over.
LEMMA Alone ==
    ASSUME IInv, NEW c \in Op, Running(c)
    PROVE  /\ cmd[c].owner \in Owner /\ pc[Boot] = "serving" /\ unlisted = {}
           /\ \A d \in Op : d # c /\ Running(d) => cmd[d].owner # cmd[c].owner
           /\ \A a \in Actor : a # c /\ Finalizing(a)
                 => a \in Op /\ fin[a].row.owner # cmd[c].owner
  <1>1. cmd[c].owner \in Owner /\ pc[Boot] = "serving" /\ unlisted = {}
    BY DEF IInv, Scheduling, Listing
  <1>2. \A d \in Op : d # c /\ Running(d) => cmd[d].owner # cmd[c].owner
    BY DEF IInv, Scheduling
  <1>3. \A a \in Actor : a # c /\ Finalizing(a) => a \in Op /\ fin[a].row.owner # cmd[c].owner
    BY <1>1, <1>2 DEF IInv, Cleaning, Finalizing, Running, Step, Actor
  <1> QED
    BY <1>1, <1>2, <1>3

\* The transaction that changes a reference puts the old one in a committed journal row:
\* the common part of a replacement, a clear, a creation, a deletion and an import.
LEMMA SafeRowChange ==
    ASSUME ~Overlap, IInv, TypeInv', NEW c \in Op, pc[c] = "commit",
           NEW o \in Owner, o = cmd[c].owner,
           NEW new \in {None, c}, new # None => new \in vault /\ o \in live',
           NEW label \in {"ok", "reload"},
           NEW row, row = [id |-> c, owner |-> o, old |-> ref[o], new |-> new,
                           state |-> "db_committed"],
           journal[o] = None \/ (journal[o] = Prepared(c) /\ new = NewRef(c)),
           \A p \in Owner : p # o => (p \in live <=> p \in live'),
           ref' = [ref EXCEPT ![o] = new],
           journal' = [journal EXCEPT ![o] = row],
           fin' = [fin EXCEPT ![c] = [row |-> row, target |-> None, then |-> label]],
           pc' = [pc EXCEPT ![c] = "bind"],
           UNCHANGED <<vault, cmd, unlisted>>
    PROVE  IInv'
  <1> USE ConstantsAssumption
  <1>1. /\ pc[Boot] = "serving" /\ unlisted = {}
        /\ \A d \in Op : d # c /\ Running(d) => cmd[d].owner # o
        /\ \A a \in Actor : a # c /\ Finalizing(a) => a \in Op /\ fin[a].row.owner # o
    BY Alone DEF Running, Step
  <1>2. \A p \in Owner : ref[p] # c
    BY DEF IInv, References, Uncommitted
  <1>3. /\ row.id = c /\ row.owner = o /\ row.old = ref[o] /\ row.new = new
        /\ row.state = "db_committed" /\ row # None
    <2>1. row \in JournalRow
      BY DEF JournalRow, IInv, TypeInv, TypeOK, Ref
    <2> QED
      BY <2>1
  <1>4. \A d \in Op : Prepared(d)' = Prepared(d)
    BY DEF Prepared, NewRef
  <1>5. \A s \in vault : journal[o] # None /\ s \in {journal[o].old, journal[o].new}
                            => s \in {ref[o], new}
    BY DEF IInv, JournalMatches, Prepared
  <1>7. Scheduling'
    BY <1>1 DEF Scheduling, IInv, TypeInv, TypeOK, Running, Step, Actor
  <1>8. References'
    BY <1>1, <1>2 DEF References, IInv, TypeInv, TypeOK, Actor, Uncommitted, Unstored, Finalizing, Ref
  <1>9. JournalMatches'
    BY <1>2, <1>3 DEF JournalMatches, IInv, TypeInv, TypeOK, References, Ref
  <1>10. Progress'
    BY <1>1, <1>4 DEF Progress, IInv, TypeInv, TypeOK, Actor, Running, Step
  <1>11. Cleaning'
    BY <1>1, <1>3 DEF Cleaning, IInv, TypeInv, TypeOK, Actor, Finalizing
  <1>12. Continuation'
    BY <1>1 DEF Continuation, IInv, TypeInv, TypeOK, Actor, Finalizing, AfterPreflight
  <1>13. Listing'
    BY <1>1 DEF Listing, IInv, TypeInv, TypeOK, Actor
  <1>14. BoundSecretPresent'
    BY DEF BoundSecretPresent, IInv, TypeInv, TypeOK
  <1>15. SecretAccountedFor'
    BY <1>3, <1>5 DEF SecretAccountedFor, IInv, TypeInv, TypeOK
  <1> QED
    BY <1>7, <1>8, <1>9, <1>10, <1>11, <1>12, <1>13, <1>14, <1>15 DEF IInv

\* Without a reference to retire, a deletion or an import leaves the journal alone.
LEMMA SafePlainRowChange ==
    ASSUME ~Overlap, IInv, TypeInv', NEW c \in Op, pc[c] = "commit",
           NEW o \in Owner, o = cmd[c].owner, ref[o] = None,
           \A p \in Owner : p # o => (p \in live <=> p \in live'),
           ref' = [ref EXCEPT ![o] = None],
           pc' = [pc EXCEPT ![c] = "ok"],
           UNCHANGED <<journal, vault, cmd, fin, unlisted>>
    PROVE  IInv'
  <1> USE ConstantsAssumption
  <1>1. ref' = ref
    BY DEF IInv, TypeInv, TypeOK
  <1>2. \A d \in Op : Prepared(d)' = Prepared(d)
    BY DEF Prepared, NewRef
  <1>3. Scheduling'
    BY DEF Scheduling, IInv, TypeInv, TypeOK, Running, Step, Finished, Actor
  <1>4. References'
    BY <1>1 DEF References, IInv, TypeInv, TypeOK, Actor, Uncommitted, Unstored, Finalizing
  <1>5. JournalMatches' /\ BoundSecretPresent' /\ SecretAccountedFor'
    BY <1>1 DEF JournalMatches, BoundSecretPresent, SecretAccountedFor, IInv
  <1>6. Progress'
    BY <1>1, <1>2 DEF Progress, IInv, TypeInv, TypeOK, Actor
  <1>7. Cleaning' /\ Continuation' /\ Listing'
    BY <1>1 DEF Cleaning, Continuation, Listing, Finalizing, AfterPreflight, IInv, TypeInv, TypeOK, Actor
  <1> QED
    BY <1>3, <1>4, <1>5, <1>6, <1>7 DEF IInv

LEMMA SafeCommitUpdate ==
    ASSUME ~Overlap, IInv, TypeInv', NEW c \in Op, CommitUpdate(c)
    PROVE  IInv'
  <1> DEFINE o == cmd[c].owner
  <1>1. /\ o \in Owner /\ pc[c] = "commit" /\ ref[o] = cmd[c].old
        /\ journal[o] = Prepared(c)
        /\ NewRef(c) \in {None, c} /\ (NewRef(c) # None => NewRef(c) \in vault /\ o \in live')
    BY DEF CommitUpdate, IInv, TypeInv, Running, Step, Progress, NewRef
  <1>2. Committed(journal[o]) =
           [id |-> c, owner |-> o, old |-> ref[o], new |-> NewRef(c), state |-> "db_committed"]
    BY <1>1 DEF Committed, Prepared
  <1> QED
    BY <1>1, <1>2, SafeRowChange DEF CommitUpdate, Finalize, Goto, boot

LEMMA SafeCommitCreate ==
    ASSUME ~Overlap, IInv, TypeInv', NEW c \in Op, CommitCreate(c)
    PROVE  IInv'
  <1> USE ConstantsAssumption
  <1> DEFINE o == cmd[c].owner
  <1>1. /\ o \in Owner /\ pc[c] = "commit" /\ NewRef(c) = c /\ c \in vault
        /\ journal[o] = Prepared(c)
    BY DEF CommitCreate, IInv, TypeInv, Running, Step, Progress, NewRef
  <1>2. ref[o] = cmd[c].old
    <2>1. Prepared(c) # None
      BY <1>1, PreparedType DEF IInv, TypeInv
    <2> QED
      BY <1>1, <2>1 DEF IInv, JournalMatches, Prepared
  <1>3. Committed(journal[o]) =
           [id |-> c, owner |-> o, old |-> ref[o], new |-> c, state |-> "db_committed"]
    BY <1>1, <1>2 DEF Committed, Prepared
  <1>4. o \in live' /\ \A p \in Owner : p # o => (p \in live <=> p \in live')
    BY DEF CommitCreate
  <1> QED
    BY <1>1, <1>3, <1>4, SafeRowChange DEF CommitCreate, Finalize, Goto, boot

LEMMA SafeDelete ==
    ASSUME ~Overlap, IInv, TypeInv', NEW c \in Op, Delete(c)
    PROVE  IInv'
  <1> USE ConstantsAssumption
  <1> DEFINE o == cmd[c].owner
  <1>1. /\ o \in Owner /\ pc[c] = "commit" /\ cmd[c].old = ref[o] /\ journal[o] = None
        /\ \A p \in Owner : p # o => (p \in live <=> p \in live')
    BY DEF Delete, IInv, TypeInv, Running, Step, Progress
  <1>2. CASE ref[o] = None
    BY <1>1, <1>2, SafePlainRowChange DEF Delete, JournalRemoval, Goto, boot
  <1>3. CASE ref[o] # None
    BY <1>1, <1>3, SafeRowChange DEF Delete, JournalRemoval, Finalize, Goto, boot
  <1> QED
    BY <1>2, <1>3

LEMMA SafeImport ==
    ASSUME ~Overlap, IInv, TypeInv', NEW c \in Op, Import(c)
    PROVE  IInv'
  <1> USE ConstantsAssumption
  <1> DEFINE o == cmd[c].owner
  <1>1. /\ o \in Owner /\ pc[c] = "commit" /\ journal[o] = None
        /\ \A p \in Owner : p # o => (p \in live <=> p \in live')
    BY DEF Import, IInv, TypeInv, Running, Step
  <1>2. CASE ref[o] = None
    BY <1>1, <1>2, SafePlainRowChange DEF Import, JournalRemoval, Goto, boot
  <1>3. CASE ref[o] # None
    BY <1>1, <1>3, SafeRowChange DEF Import, JournalRemoval, Finalize, Goto, boot
  <1> QED
    BY <1>2, <1>3

LEMMA SafeCommitFails ==
    ASSUME ~Overlap, IInv, TypeInv', NEW c \in Op, CommitFails(c)
    PROVE  IInv'
  <1> USE ConstantsAssumption
  <1>1. Scheduling'
    BY DEF CommitFails, Goto, Finalize, Prepared, NewRef, database, boot, IInv, TypeInv, TypeOK,
        Actor, Scheduling, Running, Step
  <1>2. References'
    BY DEF CommitFails, Goto, Finalize, Prepared, NewRef, database, boot, IInv, TypeInv, TypeOK,
        Actor, References, Uncommitted, Unstored, Finalizing
  <1>3. JournalMatches'
    BY DEF CommitFails, Goto, Finalize, Prepared, NewRef, database, boot, IInv, TypeInv, TypeOK,
        Actor, JournalMatches
  <1>4. Progress'
    BY DEF CommitFails, Goto, Finalize, Prepared, NewRef, database, boot, IInv, TypeInv, TypeOK,
        Actor, Progress
  <1>5. Cleaning'
    <2>1. CASE cmd[c].kind = "clear"
      BY <2>1 DEF CommitFails, Goto, Cleaning, Finalizing, database, IInv, TypeInv, TypeOK, Actor
    <2>2. CASE cmd[c].kind # "clear"
      <3>1. cmd[c].owner \in Owner /\ journal[cmd[c].owner] = Prepared(c)
        BY <2>2 DEF CommitFails, IInv, TypeInv, Running, Step, Progress
      <3>2. Prepared(c) # None /\ Prepared(c).owner = cmd[c].owner
        BY <3>1, PreparedType DEF IInv, TypeInv, Prepared
      <3>3. /\ fin' = [fin EXCEPT ![c] = [row |-> Prepared(c), target |-> None, then |-> "error"]]
            /\ pc' = [pc EXCEPT ![c] = "bind"]
            /\ UNCHANGED <<ref, journal, vault, cmd>>
        BY <2>2 DEF CommitFails, Finalize, Goto, database
      <3> QED
        BY <3>1, <3>2, <3>3 DEF Cleaning, Finalizing, IInv, TypeInv, TypeOK, Actor
    <2> QED
      BY <2>1, <2>2
  <1>6. Continuation'
    BY DEF CommitFails, Goto, Finalize, database, boot, IInv, TypeInv, TypeOK, Actor, Owner,
        Finalizing, Prepared, Continuation, AfterPreflight
  <1>7. Listing'
    BY DEF CommitFails, Goto, Finalize, Prepared, NewRef, database, boot, IInv, TypeInv, TypeOK,
        Actor, Listing
  <1>8. BoundSecretPresent'
    BY DEF CommitFails, Goto, Finalize, Prepared, NewRef, database, boot, IInv, TypeInv, TypeOK,
        Actor, BoundSecretPresent
  <1>9. SecretAccountedFor'
    BY DEF CommitFails, Goto, Finalize, Prepared, NewRef, database, boot, IInv, TypeInv, TypeOK,
        Actor, SecretAccountedFor
  <1> QED
    BY <1>1, <1>2, <1>3, <1>4, <1>5, <1>6, <1>7, <1>8, <1>9 DEF IInv

LEMMA SafeKeep ==
    ASSUME ~Overlap, IInv, TypeInv', NEW c \in Op, Keep(c)
    PROVE  IInv'
  <1> USE ConstantsAssumption
  <1>1. Scheduling'
    BY DEF Keep, Goto, database, boot, IInv, TypeInv, Running, Step, Finished, Scheduling
  <1>2. References'
    BY DEF Keep, Goto, database, boot, IInv, TypeInv, TypeOK, Actor, References, Uncommitted,
        Unstored, Finalizing
  <1>3. JournalMatches'
    BY DEF Keep, Goto, database, boot, IInv, TypeInv, TypeOK, Actor, JournalMatches
  <1>4. Progress'
    BY DEF Keep, Goto, database, boot, IInv, TypeInv, TypeOK, Actor, Progress, Prepared, NewRef
  <1>5. Cleaning'
    BY DEF Keep, Goto, database, boot, IInv, TypeInv, TypeOK, Actor, Cleaning, Finalizing
  <1>6. Continuation'
    BY DEF Keep, Goto, database, boot, IInv, TypeInv, TypeOK, Actor, Continuation, Finalizing,
        AfterPreflight
  <1>7. Listing'
    BY DEF Keep, Goto, database, boot, IInv, TypeInv, TypeOK, Actor, Listing
  <1>8. BoundSecretPresent'
    BY DEF Keep, Goto, database, boot, IInv, TypeInv, TypeOK, Actor, BoundSecretPresent
  <1>9. SecretAccountedFor'
    BY DEF Keep, Goto, database, boot, IInv, TypeInv, TypeOK, Actor, SecretAccountedFor
  <1> QED
    BY <1>1, <1>2, <1>3, <1>4, <1>5, <1>6, <1>7, <1>8, <1>9 DEF IInv

LEMMA SafeSetEnabled ==
    ASSUME ~Overlap, IInv, TypeInv', NEW c \in Op, SetEnabled(c)
    PROVE  IInv'
  <1> USE ConstantsAssumption
  <1>1. Scheduling'
    BY DEF SetEnabled, Goto, database, boot, IInv, TypeInv, Running, Finished, Scheduling
  <1>2. References'
    BY DEF SetEnabled, Goto, database, boot, IInv, TypeInv, TypeOK, Actor, References,
        Uncommitted, Unstored, Finalizing
  <1>3. JournalMatches'
    BY DEF SetEnabled, Goto, database, boot, IInv, TypeInv, TypeOK, Actor, JournalMatches
  <1>4. Progress'
    BY DEF SetEnabled, Goto, database, boot, IInv, TypeInv, TypeOK, Actor, Progress, Prepared,
        NewRef
  <1>5. Cleaning'
    BY DEF SetEnabled, Goto, database, boot, IInv, TypeInv, TypeOK, Actor, Cleaning, Finalizing
  <1>6. Continuation'
    BY DEF SetEnabled, Goto, database, boot, IInv, TypeInv, TypeOK, Actor, Continuation,
        Finalizing, AfterPreflight
  <1>7. Listing'
    BY DEF SetEnabled, Goto, database, boot, IInv, TypeInv, TypeOK, Actor, Listing
  <1>8. BoundSecretPresent'
    BY DEF SetEnabled, Goto, database, boot, IInv, TypeInv, TypeOK, Actor, BoundSecretPresent
  <1>9. SecretAccountedFor'
    BY DEF SetEnabled, Goto, database, boot, IInv, TypeInv, TypeOK, Actor, SecretAccountedFor
  <1> QED
    BY <1>1, <1>2, <1>3, <1>4, <1>5, <1>6, <1>7, <1>8, <1>9 DEF IInv

LEMMA SafeInsert ==
    ASSUME ~Overlap, IInv, TypeInv', NEW c \in Op, Insert(c)
    PROVE  IInv'
  <1> USE ConstantsAssumption
  <1>1. Scheduling'
    BY DEF Insert, Goto, database, boot, IInv, TypeInv, Running, Finished, Scheduling
  <1>2. References'
    BY DEF Insert, Goto, database, boot, IInv, TypeInv, TypeOK, Actor, References, Uncommitted,
        Unstored, Finalizing
  <1>3. JournalMatches'
    BY DEF Insert, Goto, database, boot, IInv, TypeInv, TypeOK, Actor, JournalMatches
  <1>4. Progress'
    BY DEF Insert, Goto, database, boot, IInv, TypeInv, TypeOK, Actor, Progress, Prepared, NewRef
  <1>5. Cleaning'
    BY DEF Insert, Goto, database, boot, IInv, TypeInv, TypeOK, Actor, Cleaning, Finalizing
  <1>6. Continuation'
    BY DEF Insert, Goto, database, boot, IInv, TypeInv, TypeOK, Actor, Continuation, Finalizing,
        AfterPreflight
  <1>7. Listing'
    BY DEF Insert, Goto, database, boot, IInv, TypeInv, TypeOK, Actor, Listing
  <1>8. BoundSecretPresent'
    BY DEF Insert, Goto, database, boot, IInv, TypeInv, TypeOK, Actor, BoundSecretPresent
  <1>9. SecretAccountedFor'
    BY DEF Insert, Goto, database, boot, IInv, TypeInv, TypeOK, Actor, SecretAccountedFor
  <1> QED
    BY <1>1, <1>2, <1>3, <1>4, <1>5, <1>6, <1>7, <1>8, <1>9 DEF IInv

LEMMA SafeReread ==
    ASSUME ~Overlap, IInv, TypeInv', NEW c \in Op, Reread(c)
    PROVE  IInv'
  <1> USE ConstantsAssumption
  <1>1. Scheduling'
    <2>1. UNCHANGED <<cmd, unlisted>> /\ pc[c] = "reread"
      BY DEF Reread, boot
    <2>2. CASE pc' = [pc EXCEPT ![c] = "bind"]
      BY <2>1, <2>2 DEF Scheduling, Running, Step, Finished, IInv, TypeInv, TypeOK, Actor
    <2>3. CASE pc' = [pc EXCEPT ![c] = "error"]
      BY <2>1, <2>3 DEF Scheduling, Running, Step, Finished, IInv, TypeInv, TypeOK, Actor
    <2> QED
      BY <2>2, <2>3 DEF Reread, Finalize, Goto
  <1>2. References'
    BY DEF Reread, Goto, Finalize, Journaled, Prepared, database, boot, IInv, TypeInv, TypeOK,
        Actor, References, Uncommitted, Unstored, Finalizing
  <1>3. JournalMatches'
    BY DEF Reread, Goto, Finalize, Journaled, Prepared, database, boot, IInv, TypeInv, TypeOK,
        Actor, JournalMatches
  <1>4. Progress'
    BY DEF Reread, Goto, Finalize, Journaled, Prepared, database, boot, IInv, TypeInv, TypeOK,
        Actor, Progress, NewRef
  <1>5. Cleaning'
    BY DEF Reread, Goto, Finalize, database, boot, IInv, TypeInv, TypeOK, Running, Finalizing,
        Step, Cleaning, JournalMatches
  <1>6. Continuation'
    BY DEF Reread, Goto, Finalize, Journaled, Prepared, database, boot, IInv, TypeInv, TypeOK,
        Actor, Continuation, Finalizing, AfterPreflight
  <1>7. Listing'
    BY DEF Reread, Goto, Finalize, Journaled, Prepared, database, boot, IInv, TypeInv, TypeOK,
        Actor, Listing
  <1>8. BoundSecretPresent'
    BY DEF Reread, Goto, Finalize, Journaled, Prepared, database, boot, IInv, TypeInv, TypeOK,
        Actor, BoundSecretPresent
  <1>9. SecretAccountedFor'
    BY DEF Reread, Goto, Finalize, Journaled, Prepared, database, boot, IInv, TypeInv, TypeOK,
        Actor, SecretAccountedFor
  <1> QED
    BY <1>1, <1>2, <1>3, <1>4, <1>5, <1>6, <1>7, <1>8, <1>9 DEF IInv

LEMMA SafeReload ==
    ASSUME ~Overlap, IInv, TypeInv', NEW c \in Op, Reload(c)
    PROVE  IInv'
  <1> USE ConstantsAssumption
  <1>1. Scheduling'
    BY DEF Reload, Goto, database, boot, IInv, TypeInv, Running, Finished, Scheduling
  <1>2. References'
    BY DEF Reload, Goto, database, boot, IInv, TypeInv, TypeOK, Actor, References, Uncommitted,
        Unstored, Finalizing
  <1>3. JournalMatches'
    BY DEF Reload, Goto, database, boot, IInv, TypeInv, TypeOK, Actor, JournalMatches
  <1>4. Progress'
    BY DEF Reload, Goto, database, boot, IInv, TypeInv, TypeOK, Actor, Progress, Prepared, NewRef
  <1>5. Cleaning'
    BY DEF Reload, Goto, database, boot, IInv, TypeInv, TypeOK, Actor, Cleaning, Finalizing
  <1>6. Continuation'
    BY DEF Reload, Goto, database, boot, IInv, TypeInv, TypeOK, Actor, Continuation, Finalizing,
        AfterPreflight
  <1>7. Listing'
    BY DEF Reload, Goto, database, boot, IInv, TypeInv, TypeOK, Actor, Listing
  <1>8. BoundSecretPresent'
    BY DEF Reload, Goto, database, boot, IInv, TypeInv, TypeOK, Actor, BoundSecretPresent
  <1>9. SecretAccountedFor'
    BY DEF Reload, Goto, database, boot, IInv, TypeInv, TypeOK, Actor, SecretAccountedFor
  <1> QED
    BY <1>1, <1>2, <1>3, <1>4, <1>5, <1>6, <1>7, <1>8, <1>9 DEF IInv

LEMMA SafeRefuse ==
    ASSUME ~Overlap, IInv, TypeInv', NEW c \in Op, Refuse(c)
    PROVE  IInv'
  <1> USE ConstantsAssumption
  <1>1. Scheduling'
    BY DEF Refuse, Goto, database, boot, IInv, TypeInv, Running, Finished, Scheduling
  <1>2. References'
    BY DEF Refuse, Goto, database, boot, IInv, TypeInv, TypeOK, Actor, References, Uncommitted,
        Unstored, Finalizing
  <1>3. JournalMatches'
    BY DEF Refuse, Goto, database, boot, IInv, TypeInv, TypeOK, Actor, JournalMatches
  <1>4. Progress'
    BY DEF Refuse, Goto, database, boot, IInv, TypeInv, TypeOK, Actor, Progress, Prepared, NewRef
  <1>5. Cleaning'
    BY DEF Refuse, Goto, database, boot, IInv, TypeInv, TypeOK, Actor, Cleaning, Finalizing
  <1>6. Continuation'
    BY DEF Refuse, Goto, database, boot, IInv, TypeInv, TypeOK, Actor, Continuation, Finalizing,
        AfterPreflight
  <1>7. Listing'
    BY DEF Refuse, Goto, database, boot, IInv, TypeInv, TypeOK, Actor, Listing
  <1>8. BoundSecretPresent'
    BY DEF Refuse, Goto, database, boot, IInv, TypeInv, TypeOK, Actor, BoundSecretPresent
  <1>9. SecretAccountedFor'
    BY DEF Refuse, Goto, database, boot, IInv, TypeInv, TypeOK, Actor, SecretAccountedFor
  <1> QED
    BY <1>1, <1>2, <1>3, <1>4, <1>5, <1>6, <1>7, <1>8, <1>9 DEF IInv

LEMMA SafeReadBinding ==
    ASSUME ~Overlap, IInv, TypeInv', NEW a \in Actor, ReadBinding(a)
    PROVE  IInv'
  <1> USE ConstantsAssumption
  <1>1. Scheduling'
    BY DEF ReadBinding, Goto, database, boot, IInv, TypeInv, TypeOK, Actor, Scheduling, Running,
        Step
  <1>2. References'
    BY DEF ReadBinding, Goto, database, boot, IInv, TypeInv, TypeOK, Actor, References,
        Uncommitted, Unstored, Finalizing
  <1>3. JournalMatches'
    BY DEF ReadBinding, Goto, database, boot, IInv, TypeInv, TypeOK, Actor, JournalMatches
  <1>4. Progress'
    BY DEF ReadBinding, Goto, database, boot, IInv, TypeInv, TypeOK, Actor, Progress, Prepared,
        NewRef
  <1>5. Cleaning'
    BY DEF ReadBinding, Goto, database, boot, IInv, TypeInv, TypeOK, Actor, Cleaning, Finalizing
  <1>6. Continuation'
    BY DEF ReadBinding, Goto, database, boot, IInv, TypeInv, TypeOK, Actor, Continuation,
        Finalizing, AfterPreflight
  <1>7. Listing'
    BY DEF ReadBinding, Goto, database, boot, IInv, TypeInv, TypeOK, Actor, Listing
  <1>8. BoundSecretPresent'
    BY DEF ReadBinding, Goto, database, boot, IInv, TypeInv, TypeOK, Actor, BoundSecretPresent
  <1>9. SecretAccountedFor'
    BY DEF ReadBinding, Goto, database, boot, IInv, TypeInv, TypeOK, Actor, SecretAccountedFor
  <1> QED
    BY <1>1, <1>2, <1>3, <1>4, <1>5, <1>6, <1>7, <1>8, <1>9 DEF IInv

\* Clean-up deletes a secret that no row is bound to.
LEMMA SafeCleanupVault ==
    ASSUME ~Overlap, IInv, TypeInv', NEW a \in Actor, CleanupVault(a)
    PROVE  IInv'
  <1> USE ConstantsAssumption
  <1>1. Scheduling'
    BY DEF CleanupVault, Goto, database, boot, IInv, TypeInv, TypeOK, Actor, Scheduling, Running,
        Step
  <1>2. References'
    BY DEF CleanupVault, Goto, database, boot, IInv, TypeInv, TypeOK, Actor, References,
        Uncommitted, Unstored, Finalizing
  <1>3. JournalMatches'
    BY DEF CleanupVault, Goto, database, boot, IInv, TypeInv, TypeOK, Actor, JournalMatches
  <1>4. Progress'
    BY DEF CleanupVault, Goto, database, boot, IInv, TypeInv, Actor, Running, Finalizing, Step,
        Progress, Scheduling, Cleaning, JournalMatches, Prepared, NewRef, CleanupTarget
  <1>5. Cleaning'
    BY DEF CleanupVault, Goto, database, boot, IInv, TypeInv, TypeOK, Actor, Cleaning, Finalizing
  <1>6. Continuation'
    BY DEF CleanupVault, Goto, database, boot, IInv, TypeInv, TypeOK, Actor, Continuation,
        Finalizing, AfterPreflight
  <1>7. Listing'
    BY DEF CleanupVault, Goto, database, boot, IInv, TypeInv, TypeOK, Actor, Listing
  <1>8. BoundSecretPresent'
    BY DEF CleanupVault, Goto, database, boot, IInv, TypeInv, Finalizing, BoundSecretPresent,
        Cleaning, CleanupTarget, JournalMatches, JournalRow, References
  <1>9. SecretAccountedFor'
    BY DEF CleanupVault, Goto, database, boot, IInv, TypeInv, TypeOK, Actor, SecretAccountedFor
  <1> QED
    BY <1>1, <1>2, <1>3, <1>4, <1>5, <1>6, <1>7, <1>8, <1>9 DEF IInv

LEMMA SafeCleanupFails ==
    ASSUME ~Overlap, IInv, TypeInv', NEW a \in Actor, CleanupFails(a)
    PROVE  IInv'
  <1> USE ConstantsAssumption
  <1>1. Scheduling'
    BY DEF CleanupFails, Goto, database, boot, IInv, TypeInv, TypeOK, Actor, Running, Finalizing,
        Step, Finished, Defer, Scheduling, Continuation, AfterPreflight
  <1>2. References'
    BY DEF CleanupFails, Goto, database, boot, IInv, TypeInv, TypeOK, Actor, Finalizing, Defer,
        References, Uncommitted, Unstored, Continuation, AfterPreflight
  <1>3. JournalMatches'
    BY DEF CleanupFails, Goto, Defer, database, boot, IInv, TypeInv, TypeOK, Actor, JournalMatches
  <1>4. Progress'
    BY DEF CleanupFails, Goto, database, boot, IInv, TypeInv, TypeOK, Actor, Running, Finalizing,
        Step, PC, Defer, Progress, Scheduling, Continuation, Cleaning, JournalMatches,
        AfterPreflight, Prepared, NewRef, CleanupTarget
  <1>5. Cleaning'
    BY DEF CleanupFails, Goto, database, boot, IInv, TypeInv, TypeOK, Finalizing, Resume, Defer,
        Cleaning
  <1>6. Continuation'
    BY DEF CleanupFails, Goto, Defer, database, boot, IInv, TypeInv, TypeOK, Actor, Continuation,
        Finalizing, AfterPreflight
  <1>7. Listing'
    BY DEF CleanupFails, Goto, Defer, database, boot, IInv, TypeInv, TypeOK, Actor, Listing
  <1>8. BoundSecretPresent'
    BY DEF CleanupFails, Goto, database, boot, IInv, TypeInv, TypeOK, Actor, Running, Finalizing,
        Step, Defer, BoundSecretPresent, Cleaning, CleanupTarget, JournalMatches, References
  <1>9. SecretAccountedFor'
    BY DEF CleanupFails, Goto, Defer, database, boot, IInv, TypeInv, TypeOK, Actor,
        SecretAccountedFor
  <1> QED
    BY <1>1, <1>2, <1>3, <1>4, <1>5, <1>6, <1>7, <1>8, <1>9 DEF IInv

\* A row leaves the journal once what it names is bound or gone.
LEMMA SafeDropJournal ==
    ASSUME ~Overlap, IInv, TypeInv', NEW a \in Actor, DropJournal(a)
    PROVE  IInv'
  <1> USE ConstantsAssumption
  <1>1. Scheduling'
    BY DEF DropJournal, Goto, database, boot, IInv, TypeInv, Running, Finalizing, Step, Finished,
        Scheduling, Continuation, AfterPreflight
  <1>2. References'
    BY DEF DropJournal, Goto, database, boot, IInv, TypeInv, Finalizing, References, Uncommitted,
        Unstored, Continuation, AfterPreflight
  <1>3. JournalMatches'
    <2>1. \A o \in Owner : journal'[o] \in {journal[o], None}
      BY DEF DropJournal, Deleted, IInv, TypeInv, TypeOK
    <2> QED
      BY <2>1 DEF DropJournal, JournalMatches, IInv
  <1>4. Progress'
    <2>1. pc[a] = "drop" /\ Finalizing(a) /\ fin[a].row.owner \in Owner
      BY DEF DropJournal, Finalizing, IInv, TypeInv, TypeOK, Cleaning, JournalRow
    <2>2. /\ journal' = [journal EXCEPT ![fin[a].row.owner] = None]
          /\ pc' = [pc EXCEPT ![a] = fin[a].then] /\ cmd' = cmd /\ ref' = ref /\ vault' = vault
      BY <2>1 DEF DropJournal, Deleted, Goto, Cleaning, IInv
    <2>3. \A d \in Op : Prepared(d)' = Prepared(d)
      BY <2>2 DEF Prepared, NewRef
    <2>4. CASE a = Boot
      BY <2>1, <2>2, <2>3, <2>4
      DEF Progress, Continuation, Scheduling, Running, Step, IInv, TypeInv, TypeOK, Actor
    <2>5. CASE a \in Op
      <3>1. /\ fin[a].row.owner = cmd[a].owner
            /\ \A d \in Op : d # a /\ Running(d) => cmd[d].owner # cmd[a].owner
        BY <2>1, <2>5, Alone DEF Running, Step, Cleaning, IInv
      <3>2. \/ fin[a].then \in {"ok", "error", "reload"}
            \/ fin[a].then = AfterPreflight(a) /\ cmd[a].kind \notin {"create", "insert", "enable"}
        BY <2>1, <2>5 DEF Continuation, IInv
      <3>3. cmd[a].kind \in Kind
        BY <2>1, <2>5 DEF Scheduling, Running, Step, IInv
      <3>4. \A d \in Op : d # a /\ pc[d] \in Step => journal'[cmd[d].owner] = journal[cmd[d].owner]
        BY <2>2, <3>1 DEF Scheduling, Running, IInv, TypeInv, TypeOK
      <3>5. journal'[cmd[a].owner] = None
        BY <2>1, <2>2, <3>1 DEF IInv, TypeInv, TypeOK
      <3> QED
        BY <2>1, <2>2, <2>3, <2>5, <3>2, <3>3, <3>4, <3>5
        DEF Progress, AfterPreflight, Step, Kind, IInv, TypeInv, TypeOK, Actor
    <2> QED
      BY <2>4, <2>5 DEF Actor
  <1>5. Cleaning'
    <2>1. pc[a] = "drop" /\ Finalizing(a) /\ fin[a].row.owner \in Owner
      BY DEF DropJournal, Finalizing, IInv, TypeInv, TypeOK, Cleaning, JournalRow
    <2>2. /\ journal' = [journal EXCEPT ![fin[a].row.owner] = None]
          /\ pc' = [pc EXCEPT ![a] = fin[a].then]
          /\ cmd' = cmd /\ ref' = ref /\ vault' = vault /\ fin' = fin
      BY <2>1 DEF DropJournal, Deleted, Goto, Cleaning, IInv
    <2>3. fin[a].then \in Resume /\ ~(fin[a].then \in {"bind", "cleanup", "drop"})
      BY DEF Resume, IInv, TypeInv, TypeOK
    <2>4. \A b \in Actor : b # a /\ Finalizing(b) => fin[b].row.owner # fin[a].row.owner
      <3>1. CASE a = Boot
        BY <2>1, <3>1 DEF Scheduling, Running, Step, Finalizing, IInv, Actor
      <3>2. CASE a \in Op
        BY <2>1, <3>2, Alone DEF Cleaning, Running, Step, IInv
      <3> QED
        BY <3>1, <3>2 DEF Actor
    <2>5. \A b \in Actor : Finalizing(b)' => b # a /\ Finalizing(b) /\ pc'[b] = pc[b]
      BY <2>2, <2>3 DEF Finalizing, IInv, TypeInv, TypeOK
    <2> QED
      BY <2>2, <2>4, <2>5 DEF Cleaning, IInv, TypeInv, TypeOK
  <1>6. Continuation'
    BY DEF DropJournal, Goto, Deleted, database, boot, IInv, TypeInv, TypeOK, Actor, Continuation,
        Finalizing, AfterPreflight
  <1>7. Listing'
    BY DEF DropJournal, Goto, database, boot, IInv, TypeInv, Actor, Running, Finalizing, Step,
        Deleted, Listing, Scheduling, Cleaning, Continuation
  <1>8. BoundSecretPresent'
    BY DEF DropJournal, Goto, Deleted, database, boot, IInv, TypeInv, TypeOK, Actor,
        BoundSecretPresent
  <1>9. SecretAccountedFor'
    <2> DEFINE row == fin[a].row
    <2>1. /\ row \in JournalRow /\ row.owner \in Owner /\ row # None
          /\ journal[row.owner] = row
          /\ fin[a].target = CleanupTarget(row, ref[row.owner])
          /\ fin[a].target \notin vault
      BY DEF DropJournal, Finalizing, IInv, TypeInv, TypeOK, Cleaning, JournalRow
    <2>2. /\ journal' = [journal EXCEPT ![row.owner] = None]
          /\ ref' = ref /\ vault' = vault
      BY <2>1 DEF DropJournal, Deleted
    <2>3. \A s \in vault \cap {row.old, row.new} : s = ref[row.owner]
      BY <2>1 DEF CleanupTarget, JournalMatches, JournalRow, References, IInv, TypeInv, TypeOK, Ref
    <2>4. \A o \in Owner : o # row.owner => journal'[o] = journal[o]
      BY <2>2 DEF IInv, TypeInv, TypeOK
    <2> HIDE DEF row
    <2> QED
      BY <2>1, <2>2, <2>3, <2>4 DEF SecretAccountedFor, IInv
  <1> QED
    BY <1>1, <1>2, <1>3, <1>4, <1>5, <1>6, <1>7, <1>8, <1>9 DEF IInv

LEMMA SafeFinalizeFails ==
    ASSUME ~Overlap, IInv, TypeInv', NEW a \in Actor, FinalizeFails(a)
    PROVE  IInv'
  <1> USE ConstantsAssumption
  <1>1. Scheduling'
    BY DEF FinalizeFails, Goto, database, boot, IInv, TypeInv, TypeOK, Actor, Running, Finalizing,
        Step, Finished, Defer, Scheduling, Continuation, AfterPreflight
  <1>2. References'
    BY DEF FinalizeFails, Goto, database, boot, IInv, TypeInv, TypeOK, Actor, Finalizing, Defer,
        References, Uncommitted, Unstored, Continuation, AfterPreflight
  <1>3. JournalMatches'
    BY DEF FinalizeFails, Goto, Defer, database, boot, IInv, TypeInv, TypeOK, Actor, JournalMatches
  <1>4. Progress'
    BY DEF FinalizeFails, Goto, database, boot, IInv, TypeInv, TypeOK, Actor, Finalizing, Defer,
        Progress, Continuation, AfterPreflight, Prepared, NewRef
  <1>5. Cleaning'
    BY DEF FinalizeFails, Goto, database, boot, IInv, TypeInv, TypeOK, Finalizing, Resume, Defer,
        Cleaning
  <1>6. Continuation'
    BY DEF FinalizeFails, Goto, Defer, database, boot, IInv, TypeInv, TypeOK, Actor, Continuation,
        Finalizing, AfterPreflight
  <1>7. Listing'
    BY DEF FinalizeFails, Goto, Defer, database, boot, IInv, TypeInv, TypeOK, Actor, Listing
  <1>8. BoundSecretPresent'
    BY DEF FinalizeFails, Goto, Defer, database, boot, IInv, TypeInv, TypeOK, Actor,
        BoundSecretPresent
  <1>9. SecretAccountedFor'
    BY DEF FinalizeFails, Goto, Defer, database, boot, IInv, TypeInv, TypeOK, Actor,
        SecretAccountedFor
  <1> QED
    BY <1>1, <1>2, <1>3, <1>4, <1>5, <1>6, <1>7, <1>8, <1>9 DEF IInv

-----------------------------------------------------------------------------
(* The theorems on secrets. *)

LEMMA SafeInit == Init => IInv
  <1> USE ConstantsAssumption
  <1> SUFFICES ASSUME Init PROVE IInv
    OBVIOUS
  <1>1. TypeInv
    BY TypeInit
  <1>2. Scheduling /\ Listing
    BY DEF Init, Scheduling, Listing, Running, Step, Actor, NoCmd
  <1>3. References /\ JournalMatches /\ BoundSecretPresent /\ SecretAccountedFor
    BY DEF Init, References, JournalMatches, BoundSecretPresent, SecretAccountedFor
  <1>4. Progress /\ Cleaning /\ Continuation
    BY DEF Init, Progress, Cleaning, Continuation, Finalizing, Actor
  <1> QED
    BY <1>1, <1>2, <1>3, <1>4 DEF IInv

LEMMA SafeStutter == IInv /\ UNCHANGED vars => IInv'
  <1> SUFFICES ASSUME IInv, UNCHANGED vars PROVE IInv'
    OBVIOUS
  <1> USE DEF vars, database, boot, IInv
  <1>1. TypeInv' /\ Scheduling' /\ References'
    BY DEF TypeInv, TypeOK, Scheduling, References, Running, Finalizing, Uncommitted, Unstored
  <1>2. JournalMatches' /\ BoundSecretPresent' /\ SecretAccountedFor' /\ Listing'
    BY DEF JournalMatches, BoundSecretPresent, SecretAccountedFor, Listing
  <1>3. Progress' /\ Cleaning' /\ Continuation'
    BY DEF Progress, Cleaning, Continuation, Finalizing, Prepared, NewRef, CleanupTarget, AfterPreflight
  <1> QED
    BY <1>1, <1>2, <1>3

LEMMA SafeNext == ~Overlap /\ IInv /\ [Next]_vars => IInv'
  <1> SUFFICES ASSUME ~Overlap, IInv, [Next]_vars PROVE IInv'
    OBVIOUS
  <1>1. TypeInv'
    BY TypeNext DEF IInv
  <1>2. CASE BootStep
    BY <1>1, <1>2, SafeBootList, SafeBootListFails, SafeBootPick, SafeBootServe DEF BootStep
  <1>3. ASSUME NEW c \in Op, NEW k \in Kind, NEW o \in Owner, Begin(c, k, o) PROVE IInv'
    BY <1>1, <1>3, SafeBegin
  <1>4. ASSUME NEW c \in Op, Work(c) PROVE IInv'
    <2>1. CASE Commit(c)
      BY <1>1, <2>1, SafeCommitUpdate, SafeCommitCreate, SafeCommitFails, SafeDelete, SafeImport,
         SafeKeep, SafeSetEnabled, SafeInsert DEF Commit
    <2>2. CASE Preflight(c) \/ Probe(c) \/ ReadExisting(c) \/ Prepare(c) \/ Store(c)
      BY <1>1, <2>2, SafePreflight, SafeProbe, SafeReadExisting, SafePrepare, SafeStore
    <2>3. CASE StoreFails(c) \/ Abort(c) \/ Reread(c) \/ Reload(c) \/ Refuse(c)
      BY <1>1, <2>3, SafeStoreFails, SafeAbort, SafeReread, SafeReload, SafeRefuse
    <2> QED
      BY <1>4, <2>1, <2>2, <2>3 DEF Work
  <1>5. ASSUME NEW a \in Actor, FinalizeStep(a) PROVE IInv'
    BY <1>1, <1>5, SafeReadBinding, SafeCleanupVault, SafeCleanupFails, SafeDropJournal,
       SafeFinalizeFails DEF FinalizeStep
  <1>6. CASE Crash
    BY <1>1, <1>6, SafeCrash
  <1>7. CASE UNCHANGED vars
    BY <1>7, SafeStutter
  <1> QED
    BY <1>2, <1>3, <1>4, <1>5, <1>6, <1>7 DEF Next

LEMMA Safe == ASSUME ~Overlap PROVE Spec => []IInv
  <1>1. Init => IInv
    BY SafeInit
  <1>2. IInv /\ [Next]_vars => IInv'
    BY SafeNext
  <1> QED
    BY <1>1, <1>2, PTL DEF Spec

\* With one command at a time on each owner, a stored credential stays usable: no row
\* is ever bound to a secret the vault does not hold, through every crash and failure.
THEOREM BoundSecretsArePresent == ASSUME ~Overlap PROVE Spec => []BoundSecretPresent
  <1>1. Spec => []IInv
    BY Safe
  <1>2. IInv => BoundSecretPresent
    BY DEF IInv
  <1> QED
    BY <1>1, <1>2, PTL

\* Under the same condition no secret is forgotten: each one in the vault is bound, or
\* named by a journal row that a later recovery cleans up.
THEOREM SecretsAreAccountedFor == ASSUME ~Overlap PROVE Spec => []SecretAccountedFor
  <1>1. Spec => []IInv
    BY Safe
  <1>2. IInv => SecretAccountedFor
    BY DEF IInv
  <1> QED
    BY <1>1, <1>2, PTL

\* And a command that is past its preflight finds its owner free of unfinished operations.
THEOREM OwnersAreFreed == ASSUME ~Overlap PROVE Spec => []PreflightFreesOwner
  <1>1. Spec => []IInv
    BY Safe
  <1>2. IInv => PreflightFreesOwner
    BY DEF IInv, Progress, PreflightFreesOwner
  <1> QED
    BY <1>1, <1>2, PTL

-----------------------------------------------------------------------------
(* The refinement of SecretStore: steps that change neither a reference nor the vault. *)

\* What leaves the debts without becoming current is gone: otherwise it were forgotten.
LEMMA Settled ==
    ASSUME IInv, IInv', UNCHANGED <<ref, vault>>, Owed' \subseteq Owed
    PROVE  Secrets!Next
  <1>1. ASSUME NEW s \in Owed, s \notin Owed' PROVE s \notin vault
    <2>1. s \in Op /\ \A o \in Owner : ref'[o] # s
      BY <1>1 DEF Owed
    <2>2. \A o \in Owner : ~(journal'[o] # None /\ s \in {journal'[o].old, journal'[o].new})
      BY <1>1, <2>1 DEF Owed
    <2> QED
      BY <2>1, <2>2 DEF IInv, SecretAccountedFor
  <1>2. Secrets!Settle
    BY <1>1 DEF Secrets!Settle
  <1> QED
    BY <1>2 DEF Secrets!Next

\* Most steps leave the journal alone or remove rows from it.
LEMMA SettledByRows ==
    ASSUME IInv, IInv', UNCHANGED <<ref, vault>>,
           \A o \in Owner : journal'[o] \in {journal[o], None}
    PROVE  Secrets!Next
  <1>1. Owed' \subseteq Owed
    BY DEF Owed
  <1> QED
    BY <1>1, Settled

-----------------------------------------------------------------------------
(* Finalization. *)

\* Clean-up removes only what the journal owes: no row is bound to its target.
LEMMA TargetOwed ==
    ASSUME IInv, NEW a \in Actor, pc[a] = "cleanup", fin[a].target # None
    PROVE  fin[a].target \in Owed
  <1> USE ConstantsAssumption
  <1> DEFINE row == fin[a].row
             s == fin[a].target
  <1>1. /\ row \in JournalRow /\ row.owner \in Owner /\ row # None
        /\ journal[row.owner] = row
        /\ s = CleanupTarget(row, ref[row.owner])
    BY DEF Finalizing, IInv, TypeInv, Cleaning, JournalRow
  <1>2. /\ row.new \in {None, row.id} /\ cmd[row.id].owner = row.owner
        /\ row.old # None => row.old # row.id /\ cmd[row.old].owner = row.owner
        /\ row.state = "prepared" => ref[row.owner] = row.old
        /\ row.state = "db_committed" => ref[row.owner] = row.new
    BY <1>1 DEF IInv, JournalMatches
  <1>3. row.state \in {"prepared", "db_committed"} /\ row.old \in Ref /\ row.id \in Op
    BY <1>1 DEF JournalRow
  <1> HIDE DEF row
  <1>4. s \in {row.old, row.new} /\ s # ref[row.owner] /\ s \in Op
    BY <1>1, <1>2, <1>3 DEF CleanupTarget, Ref
  <1>5. cmd[s].owner = row.owner
    BY <1>2, <1>4
  <1>6. \A o \in Owner : ref[o] # s
    BY <1>4, <1>5 DEF IInv, References
  <1> QED
    BY <1>1, <1>4, <1>6 DEF Owed

\* Whether the vault answers with success or not, it disposes of the target or of nothing.
LEMMA RefineCleanup ==
    ASSUME ~Overlap, IInv, IInv', NEW a \in Actor, CleanupVault(a) \/ CleanupFails(a)
    PROVE  Secrets!Next
  <1>1. /\ pc[a] = "cleanup" /\ UNCHANGED <<ref, journal>>
        /\ vault' \in {vault, vault \ {fin[a].target}}
    BY DEF CleanupVault, CleanupFails, database
  <1>2. CASE vault' = vault
    BY <1>1, <1>2, SettledByRows
  <1>3. CASE vault' # vault
    <2>1. vault' = vault \ {fin[a].target} /\ fin[a].target \in Op /\ fin[a].target # None
      <3>1. fin[a].target \in vault
        BY <1>1, <1>3
      <3>2. vault \subseteq Op /\ None \notin Op
        BY ConstantsAssumption DEF IInv, TypeInv, TypeOK
      <3> QED
        BY <1>1, <1>3, <3>1, <3>2
    <2>2. fin[a].target \in Owed
      BY <1>1, <2>1, TargetOwed
    <2>3. Owed' = Owed
      BY <1>1 DEF Owed
    <2>4. Secrets!Settle
      BY <1>1, <2>1, <2>2, <2>3 DEF Secrets!Settle
    <2> QED
      BY <2>4 DEF Secrets!Next
  <1> QED
    BY <1>2, <1>3

LEMMA RefineFinalizeStep ==
    ASSUME ~Overlap, IInv, IInv', NEW a \in Actor, FinalizeStep(a)
    PROVE  Secrets!Next
  <1>1. CASE ReadBinding(a) \/ FinalizeFails(a)
    BY <1>1, SettledByRows DEF ReadBinding, FinalizeFails, database
  <1>2. CASE CleanupVault(a) \/ CleanupFails(a)
    BY <1>2, RefineCleanup
  <1>3. CASE DropJournal(a)
    <2>1. \A o \in Owner : journal'[o] \in {journal[o], None}
      BY <1>3 DEF DropJournal, Deleted, IInv, TypeInv, TypeOK
    <2> QED
      BY <1>3, <2>1, SettledByRows DEF DropJournal
  <1> QED
    BY <1>1, <1>2, <1>3 DEF FinalizeStep

-----------------------------------------------------------------------------
(* A command before its commit. *)

\* The journal row announces the secret; the old one it names is still bound.
LEMMA RefinePrepare ==
    ASSUME ~Overlap, IInv, IInv', NEW c \in Op, Prepare(c)
    PROVE  Secrets!Next
  <1> USE ConstantsAssumption
  <1> DEFINE o == cmd[c].owner
  <1>1. /\ o \in Owner /\ pc[c] = "prepare" /\ journal[o] = None /\ cmd[c].old = ref[o]
        /\ UNCHANGED <<ref, vault>>
    BY DEF Prepare, IInv, Scheduling, Running, Step, Progress
  <1>2. journal' = [journal EXCEPT ![o] = Prepared(c)]
    BY <1>1 DEF Prepare
  <1>3. Prepared(c) # None /\ Prepared(c).old = ref[o] /\ Prepared(c).new = NewRef(c)
    BY <1>1, PreparedType DEF IInv, TypeInv, Prepared
  <1>4. journal'[o] = Prepared(c) /\ \A p \in Owner : p # o => journal'[p] = journal[p]
    BY <1>1, <1>2 DEF IInv, TypeInv, TypeOK
  <1> HIDE DEF o
  <1>5. CASE NewRef(c) = None
    <2>1. Owed' \subseteq Owed
      BY <1>1, <1>3, <1>4, <1>5 DEF Owed
    <2> QED
      BY <1>1, <2>1, Settled
  <1>6. CASE NewRef(c) # None
    <2>1. NewRef(c) = c
      BY <1>6 DEF NewRef
    <2>2. c \notin vault /\ \A p \in Owner : ref[p] # c
      BY <1>1 DEF IInv, References, Uncommitted, Unstored
    <2>3. \A p \in Owner : journal[p] # None => c \notin {journal[p].old, journal[p].new}
      BY <1>1 DEF IInv, JournalMatches, o
    <2>4. c \notin vault \cup Owed \cup Secrets!Bound
      BY <2>2, <2>3 DEF Owed, Secrets!Bound
    <2>5. Owed' = Owed \cup {c}
      BY <1>1, <1>3, <1>4, <2>1, <2>2 DEF Owed
    <2>6. Secrets!Announce(c)
      BY <1>1, <2>4, <2>5 DEF Secrets!Announce
    <2> QED
      BY <2>6 DEF Secrets!Next
  <1> QED
    BY <1>5, <1>6

\* Only an announced secret is stored.
LEMMA RefineStore ==
    ASSUME ~Overlap, IInv, IInv', NEW c \in Op, Store(c)
    PROVE  Secrets!Next
  <1> USE ConstantsAssumption
  <1>1. /\ pc[c] = "store" /\ vault' = vault \cup {c} /\ UNCHANGED <<ref, journal>>
        /\ cmd[c].owner \in Owner /\ cmd[c].kind \in {"create", "replace"}
        /\ journal[cmd[c].owner] = Prepared(c)
    BY DEF Store, database, IInv, Scheduling, Running, Step, Progress
  <1>2. Prepared(c) # None /\ Prepared(c).new = c
    BY <1>1, PreparedType DEF IInv, TypeInv, Prepared, NewRef
  <1>3. \A p \in Owner : ref[p] # c
    BY <1>1 DEF IInv, References, Uncommitted
  <1>4. c \in Owed /\ Owed' = Owed
    BY <1>1, <1>2, <1>3 DEF Owed
  <1>5. Secrets!Store(c)
    BY <1>1, <1>4 DEF Secrets!Store
  <1> QED
    BY <1>5 DEF Secrets!Next

-----------------------------------------------------------------------------
(* The commits. *)

\* The transaction turns a reference to a stored, announced secret, or to none, and
\* its journal row keeps the old one.
LEMMA RefineRowChange ==
    ASSUME IInv, NEW c \in Op, pc[c] = "commit",
           NEW o \in Owner, o = cmd[c].owner,
           NEW new \in {None, c}, new # None => new \in vault /\ journal[o] = Prepared(c),
           NEW row, row = [id |-> c, owner |-> o, old |-> ref[o], new |-> new,
                           state |-> "db_committed"],
           journal[o] = None \/ (journal[o] = Prepared(c) /\ new = NewRef(c)),
           ref' = [ref EXCEPT ![o] = new],
           journal' = [journal EXCEPT ![o] = row],
           vault' = vault
    PROVE  Secrets!Next
  <1> USE ConstantsAssumption
  <1>1. /\ row # None /\ row.old = ref[o] /\ row.new = new
    <2>1. row \in JournalRow
      BY DEF JournalRow, IInv, TypeInv, TypeOK, Ref
    <2> QED
      BY <2>1
  <1>2. \A p \in Owner : ref[p] # c
    BY DEF IInv, References, Uncommitted
  <1>3. /\ journal'[o] = row /\ ref'[o] = new
        /\ \A p \in Owner : p # o => journal'[p] = journal[p] /\ ref'[p] = ref[p]
    BY DEF IInv, TypeInv, TypeOK
  <1>4. \A p \in Owner : p # o /\ ref[o] # None => ref[p] # ref[o]
    BY DEF IInv, References
  <1>5. journal[o] # None => journal[o].old = ref[o] /\ journal[o].new = new
    <2> SUFFICES ASSUME journal[o] # None
                 PROVE  journal[o].old = ref[o] /\ journal[o].new = new
      OBVIOUS
    <2>1. journal[o] = Prepared(c) /\ new = NewRef(c)
      OBVIOUS
    <2>2. journal[o].state = "prepared" /\ journal[o].new = new
      BY <2>1 DEF Prepared
    <2> QED
      BY <2>2 DEF IInv, JournalMatches
  <1>6. ref[o] \in Op \cup {None}
    BY DEF IInv, TypeInv, TypeOK, Ref
  <1>7. new = None \/ new \in vault \cap Owed
    <2> SUFFICES ASSUME new # None PROVE new \in vault \cap Owed
      OBVIOUS
    <2>1. new = c /\ new \in vault /\ journal[o] # None
      BY PreparedType DEF IInv, TypeInv, Running, Step
    <2> QED
      BY <1>2, <1>5, <2>1 DEF Owed
  <1>8. Owed' = (Owed \ {new}) \cup ({ref[o]} \ {None})
    <2>1. ASSUME NEW s \in Owed' PROVE s \in (Owed \ {new}) \cup ({ref[o]} \ {None})
      <3>1. s \in Op /\ s # new /\ \A p \in Owner : p # o => ref[p] # s
        BY <1>3, <2>1 DEF Owed
      <3>2. PICK p \in Owner : journal'[p] # None /\ s \in {journal'[p].old, journal'[p].new}
        BY <2>1 DEF Owed
      <3>3. CASE p = o
        BY <1>1, <1>3, <3>1, <3>2, <3>3
      <3>4. CASE p # o
        BY <1>3, <3>1, <3>2, <3>4 DEF Owed
      <3> QED
        BY <3>3, <3>4
    <2>2. ASSUME NEW s \in Owed, s # new PROVE s \in Owed'
      <3>1. s \in Op /\ \A p \in Owner : ref'[p] # s
        BY <1>3, <2>2 DEF Owed
      <3>2. PICK p \in Owner : journal[p] # None /\ s \in {journal[p].old, journal[p].new}
        BY <2>2 DEF Owed
      <3>3. journal'[p] # None /\ s \in {journal'[p].old, journal'[p].new}
        BY <1>1, <1>3, <1>5, <3>2
      <3> QED
        BY <3>1, <3>3 DEF Owed
    <2>3. ASSUME ref[o] # None PROVE ref[o] \in Owed'
      <3>1. ref[o] # new
        BY <1>2, <2>3
      <3> QED
        BY <1>1, <1>3, <1>4, <1>6, <2>3, <3>1 DEF Owed
    <2> QED
      BY <2>1, <2>2, <2>3
  <1>9. Secrets!Bound' = (Secrets!Bound \ {ref[o]}) \cup ({new} \ {None})
    BY <1>3, <1>4 DEF Secrets!Bound
  <1>10. /\ ref[o] # None => ref[o] \in Secrets!Bound
         /\ Owed \cap Secrets!Bound = {}
         /\ c \notin Secrets!Bound /\ None \notin Secrets!Bound \cup Owed
    BY <1>2 DEF Owed, Secrets!Bound
  <1>11. Owed' = (Owed \cup Secrets!Bound) \ Secrets!Bound'
    BY <1>8, <1>9, <1>10
  <1>12. ref' \in [Owner -> Op \cup {None}]
    BY DEF IInv, TypeInv, TypeOK, Ref
  <1>13. ASSUME NEW p \in Owner, ref'[p] # ref[p]
         PROVE  \/ ref'[p] = None
                \/ ref'[p] \in vault \cap Owed /\ \A q \in Owner \ {p} : ref'[q] # ref'[p]
    <2>1. p = o /\ ref'[p] = new
      BY <1>3, <1>13
    <2>2. new # None => \A q \in Owner \ {p} : ref'[q] # new
      BY <1>2, <1>3, <2>1
    <2> QED
      BY <1>7, <2>1, <2>2
  <1>14. Secrets!Change
    BY <1>11, <1>12, <1>13 DEF Secrets!Change
  <1> QED
    BY <1>14 DEF Secrets!Next

LEMMA RefineCommitUpdate ==
    ASSUME ~Overlap, IInv, NEW c \in Op, CommitUpdate(c)
    PROVE  Secrets!Next
  <1> DEFINE o == cmd[c].owner
  <1>1. /\ o \in Owner /\ pc[c] = "commit" /\ ref[o] = cmd[c].old
        /\ journal[o] = Prepared(c)
        /\ NewRef(c) \in {None, c} /\ (NewRef(c) # None => NewRef(c) \in vault)
    BY DEF CommitUpdate, IInv, TypeInv, Running, Step, Progress, NewRef
  <1>2. Committed(journal[o]) =
           [id |-> c, owner |-> o, old |-> ref[o], new |-> NewRef(c), state |-> "db_committed"]
    BY <1>1 DEF Committed, Prepared
  <1> QED
    BY <1>1, <1>2, RefineRowChange DEF CommitUpdate

LEMMA RefineCommitCreate ==
    ASSUME ~Overlap, IInv, NEW c \in Op, CommitCreate(c)
    PROVE  Secrets!Next
  <1> USE ConstantsAssumption
  <1> DEFINE o == cmd[c].owner
  <1>1. /\ o \in Owner /\ pc[c] = "commit" /\ NewRef(c) = c /\ c \in vault
        /\ journal[o] = Prepared(c)
    BY DEF CommitCreate, IInv, TypeInv, Running, Step, Progress, NewRef
  <1>2. ref[o] = cmd[c].old
    <2>1. Prepared(c) # None
      BY <1>1, PreparedType DEF IInv, TypeInv
    <2> QED
      BY <1>1, <2>1 DEF IInv, JournalMatches, Prepared
  <1>3. Committed(journal[o]) =
           [id |-> c, owner |-> o, old |-> ref[o], new |-> c, state |-> "db_committed"]
    BY <1>1, <1>2 DEF Committed, Prepared
  <1> QED
    BY <1>1, <1>3, RefineRowChange DEF CommitCreate

\* A deletion or an import: the owner has no unfinished operation.
LEMMA RefineRemoval ==
    ASSUME ~Overlap, IInv, IInv', NEW c \in Op, Delete(c) \/ Import(c)
    PROVE  Secrets!Next
  <1> USE ConstantsAssumption
  <1> DEFINE o == cmd[c].owner
  <1>1. /\ o \in Owner /\ pc[c] = "commit" /\ journal[o] = None
        /\ ref' = [ref EXCEPT ![o] = None] /\ vault' = vault
        /\ JournalRemoval(c, o, ref[o])
    BY DEF Delete, Import, IInv, TypeInv, Running, Step, Progress
  <1>2. CASE ref[o] = None
    <2>1. ref' = ref /\ journal' = journal
      BY <1>1, <1>2 DEF JournalRemoval, IInv, TypeInv, TypeOK
    <2> QED
      BY <1>1, <2>1, SettledByRows
  <1>3. CASE ref[o] # None
    BY <1>1, <1>3, RefineRowChange DEF JournalRemoval
  <1> QED
    BY <1>2, <1>3

-----------------------------------------------------------------------------
(* The theorem on the one store. *)

LEMMA RefineWork ==
    ASSUME ~Overlap, IInv, IInv', NEW c \in Op, Work(c)
    PROVE  Secrets!Next
  <1>1. CASE Preflight(c) \/ Probe(c) \/ ReadExisting(c) \/ StoreFails(c) \/ Reread(c)
             \/ Reload(c) \/ Refuse(c) \/ CommitFails(c)
    <2>1. UNCHANGED <<ref, vault, journal>>
      BY <1>1 DEF Preflight, Probe, ReadExisting, StoreFails, Reread, Reload, Refuse,
                  CommitFails, database
    <2> QED
      BY <2>1, SettledByRows
  <1>2. CASE Keep(c) \/ SetEnabled(c) \/ Insert(c)
    <2>1. UNCHANGED <<ref, vault, journal>>
      BY <1>2 DEF Keep, SetEnabled, Insert
    <2> QED
      BY <2>1, SettledByRows
  <1>3. CASE Abort(c)
    <2>1. \A o \in Owner : journal'[o] \in {journal[o], None}
      BY <1>3 DEF Abort, Deleted, IInv, TypeInv, TypeOK
    <2> QED
      BY <1>3, <2>1, SettledByRows DEF Abort
  <1>4. CASE Prepare(c) \/ Store(c)
    BY <1>4, RefinePrepare, RefineStore
  <1>5. CASE CommitUpdate(c) \/ CommitCreate(c) \/ Delete(c) \/ Import(c)
    BY <1>5, RefineCommitUpdate, RefineCommitCreate, RefineRemoval
  <1> QED
    BY <1>1, <1>2, <1>3, <1>4, <1>5 DEF Work, Commit

LEMMA RefineNext == ~Overlap /\ IInv /\ IInv' /\ [Next]_vars => Secrets!Next
  <1> SUFFICES ASSUME ~Overlap, IInv, IInv', [Next]_vars PROVE Secrets!Next
    OBVIOUS
  <1>1. CASE BootStep \/ Crash \/ UNCHANGED vars
    <2>1. UNCHANGED <<ref, vault, journal>>
      BY <1>1 DEF BootStep, BootList, BootListFails, BootPick, BootServe, Crash, vars, database
    <2> QED
      BY <2>1, SettledByRows
  <1>2. ASSUME NEW c \in Op, NEW k \in Kind, NEW o \in Owner, Begin(c, k, o) PROVE Secrets!Next
    BY <1>2, SettledByRows DEF Begin, database
  <1>3. ASSUME NEW c \in Op, Work(c) PROVE Secrets!Next
    BY <1>3, RefineWork
  <1>4. ASSUME NEW a \in Actor, FinalizeStep(a) PROVE Secrets!Next
    BY <1>4, RefineFinalizeStep
  <1> QED
    BY <1>1, <1>2, <1>3, <1>4 DEF Next

\* With one command at a time on each owner, the rows, the vault and the journal behave as
\* one store: a reference changes in a single step and only to a secret that is there, and
\* every secret that no row refers to stays owed to the journal until it is gone.
THEOREM JournalIsOneStore == ASSUME ~Overlap PROVE Spec => OneStore
  <1>1. Init => Secrets!Init
    BY DEF Init, Secrets!Init, Owed
  <1>2. IInv /\ IInv' /\ [Next]_vars => [Secrets!Next]_Secrets!vars
    BY RefineNext
  <1>3. Spec => []IInv
    BY Safe
  <1> QED
    BY <1>1, <1>2, <1>3, PTL DEF Spec, OneStore, Secrets!Spec

-----------------------------------------------------------------------------
(* What a start-up recovery that reports nothing deferred has achieved. *)

\* While it recovers, every journal row is one it has still to turn to, the one it is
\* at, or one it has reported as deferred.
Remaining ==
    pc[Boot] \in {"pick", "bind", "cleanup", "drop"} =>
        \A o \in Owner : journal[o] # None =>
            \/ journal[o] \in unlisted
            \/ Finalizing(Boot) /\ fin[Boot].row = journal[o]
            \/ o \in deferred

\* No command runs before the start-up is over.
LEMMA NoCommandYet ==
    ASSUME IInv, pc[Boot] # "serving", NEW c \in Op
    PROVE  ~Running(c) /\ ~Finalizing(c)
  BY DEF IInv, Scheduling, Running, Finalizing, Step

LEMMA RemainingBootStep ==
    ASSUME IInv, Remaining, BootStep
    PROVE  Remaining'
  <1> USE ConstantsAssumption DEF Goto, database, boot, Actor
  <1>1. CASE BootList
    <2>1. \A o \in Owner : journal'[o] # None => journal'[o] \in unlisted'
      BY <1>1 DEF BootList
    <2> QED
      BY <2>1 DEF Remaining
  <1>2. CASE BootListFails \/ BootServe
    BY <1>2 DEF BootListFails, BootServe, Remaining, IInv, TypeInv, TypeOK
  <1>3. CASE BootPick
    BY <1>3 DEF BootPick, Finalize, Remaining, Finalizing, IInv, TypeInv, TypeOK
  <1> QED
    BY <1>1, <1>2, <1>3 DEF BootStep

LEMMA RemainingFinalizeStep ==
    ASSUME IInv, Remaining, NEW a \in Actor, FinalizeStep(a)
    PROVE  Remaining'
  <1> USE ConstantsAssumption
  <1>1. Finalizing(a)
    BY DEF FinalizeStep, ReadBinding, CleanupVault, CleanupFails, DropJournal, FinalizeFails,
           Finalizing
  <1>2. CASE a # Boot
    <2>1. a \in Op /\ pc[Boot] = "serving"
      BY <1>1, <1>2, NoCommandYet DEF Actor
    <2>2. pc'[Boot] = pc[Boot]
      BY <1>2 DEF FinalizeStep, ReadBinding, CleanupVault, CleanupFails, DropJournal,
                  FinalizeFails, Defer, Goto, IInv, TypeInv, TypeOK, Actor
    <2> QED
      BY <2>1, <2>2 DEF Remaining
  <1>3. CASE a = Boot
    <2>1. \A o \in Owner : journal[o] # None => journal[o].owner = o
      BY DEF IInv, JournalMatches
    <2>2. fin[Boot].then = "pick" /\ pc[Boot] \in {"bind", "cleanup", "drop"} /\ Boot \in Actor
      BY <1>1, <1>3 DEF IInv, TypeInv, Actor, Finalizing
    <2>3. CASE ReadBinding(a) \/ CleanupVault(a)
      BY <1>3, <2>2, <2>3
      DEF ReadBinding, CleanupVault, Goto, database, boot, Remaining, Finalizing, IInv, TypeInv, TypeOK
    <2>4. CASE CleanupFails(a) \/ FinalizeFails(a)
      BY <1>3, <2>1, <2>2, <2>4
      DEF CleanupFails, FinalizeFails, Defer, Goto, database, Remaining, Finalizing, IInv, TypeInv, TypeOK
    <2>5. CASE DropJournal(a)
      <3>1. pc'[Boot] = "pick" /\ UNCHANGED <<unlisted, deferred>>
        BY <1>3, <2>2, <2>5 DEF DropJournal, Goto, boot, IInv, TypeInv, TypeOK
      <3>2. \A o \in Owner : journal'[o] # None =>
               journal'[o] = journal[o] /\ journal[o] # fin[Boot].row
        BY <1>3, <2>1, <2>5 DEF DropJournal, Deleted, IInv, TypeInv, TypeOK
      <3> QED
        BY <2>2, <3>1, <3>2 DEF Remaining
    <2> QED
      BY <2>3, <2>4, <2>5 DEF FinalizeStep
  <1> QED
    BY <1>2, <1>3

\* The commands leave the start-up recovery alone: it is over when they begin.
LEMMA RemainingNext == IInv /\ Remaining /\ [Next]_vars => Remaining'
  <1> SUFFICES ASSUME IInv, Remaining, [Next]_vars PROVE Remaining'
    OBVIOUS
  <1> USE ConstantsAssumption
  <1>1. CASE BootStep
    BY <1>1, RemainingBootStep
  <1>2. ASSUME NEW c \in Op, NEW k \in Kind, NEW o \in Owner, Begin(c, k, o) PROVE Remaining'
    BY <1>2 DEF Begin, Goto, Remaining, IInv, TypeInv, TypeOK, Actor
  <1>3. ASSUME NEW c \in Op, Work(c) PROVE Remaining'
    <2>1. Running(c)
      BY <1>3 DEF Work, Commit, Preflight, Probe, ReadExisting, Prepare, Store, StoreFails, Abort,
                  CommitUpdate, CommitCreate, CommitFails, Delete, Import, Keep, SetEnabled,
                  Insert, Reread, Reload, Refuse, Running, Step
    <2>2. pc[Boot] = "serving"
      BY <2>1, NoCommandYet
    <2>3. pc'[Boot] = pc[Boot]
      BY <1>3 DEF Work, Commit, Preflight, Probe, ReadExisting, Prepare, Store, StoreFails, Abort,
                  CommitUpdate, CommitCreate, CommitFails, Delete, Import, Keep, SetEnabled,
                  Insert, Reread, Reload, Refuse, JournalRemoval, Finalize, Goto,
                  IInv, TypeInv, TypeOK, Actor
    <2> QED
      BY <2>2, <2>3 DEF Remaining
  <1>4. ASSUME NEW a \in Actor, FinalizeStep(a) PROVE Remaining'
    BY <1>4, RemainingFinalizeStep
  <1>5. CASE Crash
    BY <1>5 DEF Crash, Remaining, Actor
  <1>6. CASE UNCHANGED vars
    BY <1>6 DEF vars, database, boot, Remaining, Finalizing
  <1> QED
    BY <1>1, <1>2, <1>3, <1>4, <1>5, <1>6 DEF Next

\* The step that begins to serve, with nothing deferred, finds an empty journal.
LEMMA AllClear ==
    ASSUME IInv, IInv', Remaining, [Next]_vars,
           pc[Boot] = "pick", pc'[Boot] = "serving", deferred = {}
    PROVE  /\ \A o \in Owner : journal[o] = None
           /\ vault = {ref[o] : o \in Owner} \ {None}
  <1> USE ConstantsAssumption
  <1>1. unlisted = {}
    <2>1. \A c \in Op : ~Running(c) /\ ~Finalizing(c)
      BY NoCommandYet
    <2>2. ~Finalizing(Boot)
      BY DEF Finalizing
    <2>3. \A c \in Op : ~Work(c)
      BY <2>1 DEF Work, Commit, Preflight, Probe, ReadExisting, Prepare, Store, StoreFails, Abort,
                  CommitUpdate, CommitCreate, CommitFails, Delete, Import, Keep, SetEnabled,
                  Insert, Reread, Reload, Refuse, Running, Step
    <2>4. \A a \in Actor : ~FinalizeStep(a)
      BY <2>1, <2>2 DEF FinalizeStep, ReadBinding, CleanupVault, CleanupFails, DropJournal,
                        FinalizeFails, Finalizing, Actor
    <2>5. \A c \in Op, k \in Kind, o \in Owner : ~Begin(c, k, o)
      BY DEF Begin
    <2>6. ~(UNCHANGED vars) /\ ~Crash /\ ~BootList /\ ~BootListFails
      BY DEF vars, Crash, BootList, BootListFails, Actor
    <2>7. ~BootPick
      BY DEF BootPick, Finalize, Goto, IInv, TypeInv, TypeOK, Actor
    <2> QED
      BY <2>3, <2>4, <2>5, <2>6, <2>7 DEF Next, BootStep, BootServe
  <1>2. \A o \in Owner : journal[o] = None
    BY <1>1 DEF Remaining, Finalizing
  <1>3. vault \subseteq {ref[o] : o \in Owner} \ {None}
    BY <1>2 DEF IInv, SecretAccountedFor, TypeInv, TypeOK
  <1>4. {ref[o] : o \in Owner} \ {None} \subseteq vault
    BY DEF IInv, BoundSecretPresent
  <1> QED
    BY <1>2, <1>3, <1>4

\* A start-up that could read the journal and deferred nothing leaves no debris behind:
\* the journal is empty and the vault holds exactly the secrets that rows refer to.
THEOREM AllClearIsClean == ASSUME ~Overlap PROVE Spec => AllClearStartupCleans
  <1>1. Init => Remaining
    BY DEF Init, Remaining, Actor
  <1>2. IInv /\ Remaining /\ [Next]_vars => Remaining'
    BY RemainingNext
  <1>3. IInv /\ IInv' /\ Remaining /\ [Next]_vars =>
           [pc[Boot] = "pick" /\ pc'[Boot] = "serving" /\ deferred = {}
              => /\ \A o \in Owner : journal[o] = None
                 /\ vault = {ref[o] : o \in Owner} \ {None}]_vars
    BY AllClear
  <1>4. Spec => []IInv
    BY Safe
  <1> QED
    BY <1>1, <1>2, <1>3, <1>4, PTL DEF Spec, AllClearStartupCleans
=============================================================================
