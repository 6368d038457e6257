--------------------------- MODULE IntegrationSaves ---------------------------
(***************************************************************************)
(* Saving a service integration: one command touches the instance row, a   *)
(* credential in each of its slots (journal and vault, as in               *)
(* CredentialJournal, but several at once), and the user's approval of a   *)
(* custom endpoint, which is previewed by an earlier command and reserved  *)
(* while the save is under way.  One instance is modelled, of a plug-in    *)
(* with slots and a custom endpoint; the code treats all plug-ins alike,   *)
(* though of those it ships some have slots and one has the endpoint.      *)
(*                                                                         *)
(* The user interface keeps the form disabled during a save, so changes of *)
(* the credentials do not overlap each other, and finalizing one journal   *)
(* row is an action.  Everything else interleaves.  A secret, an           *)
(* updated_at and a review are named by the command they come from.        *)
(***************************************************************************)
EXTENDS FiniteSets, Naturals

CONSTANTS
    Reviewer, Saver, Writer, \* commands: endpoint reviews; saves and deletions; other writes
    Slot,      \* the credential slots of the manifest
    Official,  \* the configuration with the official endpoint
    Custom,    \* configurations with another one
    Pin,       \* runtime identities: package and version
    MaxCrashes,
    None

Cmd    == Reviewer \cup Saver \cup Writer
Config == Custom \cup {Official}
Ref    == Cmd \cup {None}
Kind   == {"create", "update", "delete"}

Instance   == [version: Ref, config: Config, pin: Pin]
JournalRow == [id: Cmd, old: Ref, new: Ref, state: {"prepared", "db_committed"}]
Approval   == [config: Custom, pin: Pin, review: Reviewer]
Shown      == [config: Custom, pin: Pin, seen: Ref, new: BOOLEAN]

ASSUME SaveAssumption ==
    /\ IsFiniteSet(Cmd)
    /\ Reviewer \cap Saver = {} /\ Reviewer \cap Writer = {} /\ Saver \cap Writer = {}
    /\ Official \notin Custom
    /\ MaxCrashes \in Nat
    /\ None \notin Cmd \cup Slot \cup Config \cup Pin \cup Kind
    /\ None \notin Instance \cup JournalRow \cup Approval \cup Shown \cup (Slot \X Cmd)

VARIABLES
    row,      \* the row of integration_instances
    bound,    \* credential_ref of each slot
    approval, \* integration_endpoint_trusts: at most one row
    journal,  \* credential_operations, unique per owner and slot
    vault,
    review,   \* what each previewing command showed the user
    open,     \* EndpointTrustService's previews,
    reserved, \* those of them a save has taken
    cmd,      \* what each command was asked to do, and what it has read
    todo,     \* slots it has yet to treat
    ops,      \* slots it has journaled
    pc,
    boot,     \* journal rows start-up has yet to recover
    crashes

tables  == <<row, bound, approval>>
secrets == <<journal, vault>>
reviews == <<review, open, reserved>>
vars    == <<tables, secrets, reviews, cmd, todo, ops, pc, boot, crashes>>

NoCommand == [kind |-> None, replace |-> {}, clear |-> {}, config |-> None,
              ack |-> None, seen |-> None, pin |-> None, kept |-> FALSE, trust |-> None]

Command == [kind: Kind, replace: SUBSET Slot, clear: SUBSET Slot, config: Config,
            ack: Reviewer \cup {None}, seen: Ref, pin: Pin \cup {None}, kept: BOOLEAN,
            trust: Approval \cup {None}]

TypeOK ==
    /\ row \in Instance \cup {None}
    /\ bound \in [Slot -> Ref]
    /\ approval \in Approval \cup {None}
    /\ journal \in [Slot -> JournalRow \cup {None}]
    /\ vault \subseteq Slot \X Cmd
    /\ review \in [Reviewer -> Shown \cup {None}]
    /\ reserved \subseteq open /\ open \subseteq Reviewer
    /\ cmd \in [Saver -> Command \cup {NoCommand}]
    /\ todo \in [Saver -> SUBSET Slot] /\ ops \in [Saver -> SUBSET Slot]
    /\ pc \in [Cmd -> {"idle", "read", "retain", "preflight", "prepare", "store", "gate", "consume",
                       "commit", "settle", "finish", "release", "undo", "abort",
                       "done"}]
    /\ boot \subseteq Slot
    /\ crashes \in 0 .. MaxCrashes

\* The instance may be there from earlier: imported, not yet reviewed, without secrets.
Init ==
    /\ row \in [version: {None}, config: Config, pin: Pin] \cup {None}
    /\ bound = [s \in Slot |-> None]
    /\ approval = None
    /\ journal = [s \in Slot |-> None]
    /\ vault = {}
    /\ review = [p \in Reviewer |-> None]
    /\ open = {} /\ reserved = {}
    /\ cmd = [c \in Saver |-> NoCommand]
    /\ todo = [c \in Saver |-> {}] /\ ops = [c \in Saver |-> {}]
    /\ pc = [c \in Cmd |-> "idle"]
    /\ boot = {} /\ crashes = 0

Goto(c, label) == pc' = [pc EXCEPT ![c] = label]

\* A command answers, and what it knew is forgotten.
End(c) ==
    /\ Goto(c, "done")
    /\ cmd' = [cmd EXCEPT ![c] = NoCommand]
    /\ todo' = [todo EXCEPT ![c] = {}]
    /\ ops' = [ops EXCEPT ![c] = {}]

\* The secret that must go before a journal row may: coordinator::cleanup_target.
CleanupTarget(op, current) ==
    IF op.state = "db_committed" THEN op.old
    ELSE IF op.new # None THEN IF current = op.new THEN op.old ELSE op.new
    ELSE IF current # op.old /\ current = None THEN op.old ELSE None

\* finalize_operation, to its end or stuck on the vault or the database.
Finalize(k) ==
    LET target == <<k, CleanupTarget(journal[k], bound[k])>> IN
    \/ /\ journal' = [journal EXCEPT ![k] = None]
       /\ vault' = vault \ {target}
    \/ /\ UNCHANGED journal
       /\ vault' \in {vault, vault \ {target}}

-----------------------------------------------------------------------------
(* Reviewing an endpoint. *)

\* The instance is not there, and nothing of an earlier one is: its identifier is drawn now.
Unknown ==
    /\ row = None /\ journal = [s \in Slot |-> None]
    /\ \A d \in Saver : cmd[d] = NoCommand
    /\ \A p \in Reviewer : review[p] = None

\* preview: of the instance at its version, or of one to be created, with the runtime it
\* would have.
Review(c, config, pin) ==
    /\ pc[c] = "idle" /\ boot = {}
    /\ IF row # None THEN pin = row.pin ELSE Unknown
    /\ review' = [review EXCEPT ![c] = [config |-> config, pin |-> pin,
                                        seen |-> IF row = None THEN None ELSE row.version,
                                        new |-> row = None]]
    /\ open' = open \cup {c}
    /\ Goto(c, "done")
    /\ UNCHANGED <<tables, secrets, reserved, cmd, todo, ops, boot, crashes>>

\* A preview past its time is as good as gone, reserved or not; one that no command
\* acknowledges may as well last until one does.
Expire(p) ==
    /\ p \in open /\ \E c \in Saver : cmd[c].ack = p
    /\ open' = open \ {p} /\ reserved' = reserved \ {p}
    /\ UNCHANGED <<tables, secrets, review, cmd, todo, ops, pc, boot, crashes>>

-----------------------------------------------------------------------------
(* The save, step by step. *)

\* The form is disabled while a save of credentials runs.
Alone(kind, slots) ==
    kind = "delete" \/ slots # {} =>
        \A d \in Saver : cmd[d].kind # "delete" /\ cmd[d].replace \cup cmd[d].clear = {}

Begin(c, kind, replace, clear, config, ack) ==
    /\ pc[c] = "idle" /\ boot = {}
    /\ Alone(kind, replace \cup clear)
    /\ IF kind = "create"
       THEN /\ clear = {}
            /\ IF ack = None THEN Unknown ELSE ack \in open \ reserved /\ review[ack].new
            /\ Goto(c, "prepare")
       ELSE row # None /\ Goto(c, "read")
    /\ kind = "delete" => replace = {} /\ clear = {} /\ config = Official /\ ack = None
    /\ cmd' = [cmd EXCEPT ![c] =
                  [kind |-> kind, replace |-> replace, clear |-> clear,
                   config |-> config, ack |-> ack,
                   seen |-> IF kind = "create" THEN None ELSE row.version,
                   pin |-> None, kept |-> FALSE, trust |-> None]]
    /\ todo' = [todo EXCEPT ![c] = replace]
    /\ UNCHANGED <<tables, secrets, reviews, ops, boot, crashes>>

\* An approval is for one configuration and runtime.
Fits(a, r) == a # None /\ a.config = r.config /\ a.pin = r.pin

\* Replaced slots, and cleared ones that hold a secret.
Changing(c) == cmd[c].replace \cup {s \in cmd[c].clear : bound[s] # None}

\* update: the row is there at the expected version.  Only slots that change are preflighted.
ReadRow(c) ==
    /\ pc[c] = "read" /\ cmd[c].kind = "update"
    /\ IF row # None /\ row.version = cmd[c].seen
       THEN LET kept == cmd[c].ack = None /\ row.config = cmd[c].config IN
            /\ cmd' = [cmd EXCEPT ![c] = [@ EXCEPT !.pin = row.pin, !.kept = kept]]
            /\ todo' = [todo EXCEPT ![c] = Changing(c)]
            /\ Goto(c, IF kept THEN "retain" ELSE "preflight")
            /\ UNCHANGED ops
       ELSE End(c)
    /\ UNCHANGED <<tables, secrets, reviews, boot, crashes>>

\* The configuration stays as it is: so does its approval, current_approval_for_config.
Retain(c) ==
    /\ pc[c] = "retain"
    /\ cmd' = [cmd EXCEPT ![c].trust =
                  IF Fits(approval, [config |-> cmd[c].config, pin |-> cmd[c].pin])
                  THEN approval ELSE None]
    /\ Goto(c, "preflight")
    /\ UNCHANGED <<tables, secrets, reviews, todo, ops, boot, crashes>>

\* delete reads the bindings, all of which it preflights.
ReadBindings(c) ==
    /\ pc[c] = "read" /\ cmd[c].kind = "delete"
    /\ todo' = [todo EXCEPT ![c] = Slot]
    /\ Goto(c, "preflight")
    /\ UNCHANGED <<tables, secrets, reviews, cmd, ops, boot, crashes>>

\* preflight_owner_slot: busy or unavailable when the slot's journal row stays.
Preflight(c, s) ==
    /\ pc[c] = "preflight" /\ s \in todo[c]
    /\ IF journal[s] = None THEN UNCHANGED secrets ELSE Finalize(s)
    /\ IF journal'[s] = None
       THEN todo' = [todo EXCEPT ![c] = @ \ {s}] /\ UNCHANGED <<cmd, ops, pc>>
       ELSE End(c)
    /\ UNCHANGED <<tables, reviews, boot, crashes>>

PreflightDone(c) ==
    /\ pc[c] = "preflight" /\ todo[c] = {}
    /\ Goto(c, IF cmd[c].kind = "delete" THEN "commit" ELSE "prepare")
    /\ todo' = [todo EXCEPT ![c] = Changing(c)]
    /\ UNCHANGED <<tables, secrets, reviews, cmd, ops, boot, crashes>>

\* insert_prepared_slot, of prepare_vault_write and prepare_vault_clear; it fails while
\* another row of the slot is there.
Insert(c, s) ==
    /\ pc[c] = "prepare" /\ s \in todo[c]
    /\ IF journal[s] # None
       THEN Goto(c, "undo") /\ UNCHANGED <<journal, todo, ops>>
       ELSE /\ journal' = [journal EXCEPT ![s] =
                              [id |-> c, old |-> bound[s],
                               new |-> IF s \in cmd[c].replace THEN c ELSE None,
                               state |-> "prepared"]]
            /\ IF s \in cmd[c].replace
               THEN Goto(c, "store") /\ UNCHANGED <<todo, ops>>
               ELSE /\ todo' = [todo EXCEPT ![c] = @ \ {s}]
                    /\ ops' = [ops EXCEPT ![c] = @ \cup {s}]
                    /\ UNCHANGED pc
    /\ UNCHANGED <<tables, vault, reviews, cmd, boot, crashes>>

\* The slot's secret goes to the vault.
Store(c, s) ==
    /\ pc[c] = "store" /\ s \in todo[c]
    /\ journal[s] # None /\ journal[s].id = c
    /\ vault' = vault \cup {<<s, c>>}
    /\ todo' = [todo EXCEPT ![c] = @ \ {s}]
    /\ ops' = [ops EXCEPT ![c] = @ \cup {s}]
    /\ Goto(c, "prepare")
    /\ UNCHANGED <<tables, journal, reviews, cmd, boot, crashes>>

\* Mutant: the journal rows of all slots go, of those that are stored as well.
StoreFailsForAll(c, s) ==
    /\ pc[c] = "store" /\ s \in todo[c]
    /\ journal' = [t \in Slot |-> IF journal[t] # None /\ journal[t].id = c THEN None ELSE journal[t]]
    /\ Goto(c, "undo")
    /\ UNCHANGED <<tables, vault, reviews, cmd, todo, ops, boot, crashes>>

\* The vault takes nothing; the journal row goes at once, unless that fails too.
StoreFails(c, s) ==
    /\ pc[c] = "store" /\ s \in todo[c]
    /\ journal[s] # None /\ journal[s].id = c
    /\ journal' \in {journal, [journal EXCEPT ![s] = None]}
    /\ Goto(c, "undo")
    /\ UNCHANGED <<tables, vault, reviews, cmd, todo, ops, boot, crashes>>

\* A create reads the catalog's default package only now.
PrepareDone(c) ==
    /\ pc[c] = "prepare" /\ todo[c] = {}
    /\ Goto(c, IF cmd[c].kind = "create" THEN "gate"
               ELSE IF cmd[c].kept THEN "commit" ELSE "consume")
    /\ UNCHANGED <<tables, secrets, reviews, cmd, todo, ops, boot, crashes>>

\* Mutant: the new instance is not pinned.
GateUnpinned(c, pin) ==
    /\ pc[c] = "gate"
    /\ Goto(c, "consume")
    /\ UNCHANGED <<tables, secrets, reviews, cmd, todo, ops, boot, crashes>>

\* The default package becomes the instance's runtime.
Gate(c, pin) ==
    /\ pc[c] = "gate"
    /\ cmd' = [cmd EXCEPT ![c].pin = pin]
    /\ Goto(c, "consume")
    /\ UNCHANGED <<tables, secrets, reviews, todo, ops, boot, crashes>>

\* Without a default it answers at once, and leaves what it has prepared.
GateFails(c) ==
    /\ pc[c] = "gate"
    /\ End(c)
    /\ UNCHANGED <<tables, secrets, reviews, boot, crashes>>

-----------------------------------------------------------------------------
(* The approval. *)

\* The session is of exactly this configuration, runtime and version.
Reviewed(c) ==
    LET r == review[cmd[c].ack] IN
    /\ r.new = (cmd[c].kind = "create")
    /\ r.config = cmd[c].config /\ r.pin = cmd[c].pin /\ r.seen = cmd[c].seen

\* consume_for_save: nothing to approve, or an acknowledged review that is reserved.
Consume(c) ==
    LET a == cmd[c].ack IN
    /\ pc[c] = "consume"
    /\ IF cmd[c].config = Official /\ a = None
       THEN Goto(c, "commit") /\ UNCHANGED <<reserved, cmd>>
       ELSE IF cmd[c].config # Official /\ a \in open \ reserved /\ Reviewed(c)
       THEN /\ reserved' = reserved \cup {a}
            /\ cmd' = [cmd EXCEPT ![c].trust = [config |-> cmd[c].config, pin |-> cmd[c].pin,
                                                review |-> a]]
            /\ Goto(c, "commit")
       ELSE Goto(c, "undo") /\ UNCHANGED <<reserved, cmd>>
    /\ UNCHANGED <<tables, secrets, review, open, todo, ops, boot, crashes>>

-----------------------------------------------------------------------------
(* The transaction and what follows. *)

\* The rows of the slots a save has journaled are marked committed.
Marked(c) ==
    [s \in Slot |-> IF s \in ops[c]
                   THEN [id |-> c, old |-> journal[s].old, new |-> journal[s].new,
                         state |-> "db_committed"]
                   ELSE journal[s]]

\* What a save writes: the row, the approval in place of the old one, and every slot.
Commit(c) ==
    /\ row' = [version |-> c, config |-> cmd[c].config, pin |-> cmd[c].pin]
    /\ approval' = cmd[c].trust
    /\ bound' = [s \in Slot |-> IF s \in ops[c] THEN journal[s].new ELSE bound[s]]
    /\ journal' = Marked(c)
    /\ Goto(c, "settle")
    /\ UNCHANGED <<vault, reviews, cmd, todo, ops, boot, crashes>>

\* Mutant: the version is not compared.
SaveUnchecked(c) ==
    /\ pc[c] = "commit" /\ cmd[c].kind = "update"
    /\ row # None /\ Commit(c)

\* The pin is not written by an update: it is what the version was read with.
Save(c) ==
    /\ pc[c] = "commit" /\ cmd[c].kind = "update"
    /\ row # None /\ row.version = cmd[c].seen
    /\ \A s \in ops[c] : bound[s] = journal[s].old
    /\ Commit(c)

Create(c) ==
    /\ pc[c] = "commit" /\ cmd[c].kind = "create"
    /\ row = None
    /\ Commit(c)

\* delete: bindings and approval go with the row, each secret gets a journal row.
Delete(c) ==
    LET held == {s \in Slot : bound[s] # None} IN
    /\ pc[c] = "commit" /\ cmd[c].kind = "delete"
    /\ row # None
    /\ \A s \in held : journal[s] = None
    /\ row' = None /\ approval' = None
    /\ bound' = [s \in Slot |-> None]
    /\ journal' = [s \in Slot |-> IF s \in held
                                  THEN [id |-> c, old |-> bound[s], new |-> None,
                                        state |-> "db_committed"]
                                  ELSE journal[s]]
    /\ ops' = [ops EXCEPT ![c] = held]
    /\ Goto(c, "finish")
    /\ UNCHANGED <<vault, reviews, cmd, todo, boot, crashes>>

\* The transaction rolls back: the review is released, after the secrets when creating.
CommitFails(c) ==
    /\ pc[c] = "commit"
    /\ IF cmd[c].kind = "delete" THEN End(c)
       ELSE Goto(c, IF cmd[c].kind = "update" THEN "release" ELSE "abort") /\ UNCHANGED <<cmd, todo, ops>>
    /\ UNCHANGED <<tables, secrets, reviews, boot, crashes>>

\* commit_preview_consumption
Settle(c) ==
    /\ pc[c] = "settle"
    /\ open' = open \ {cmd[c].ack} /\ reserved' = reserved \ {cmd[c].ack}
    /\ Goto(c, "finish")
    /\ UNCHANGED <<tables, secrets, review, cmd, todo, ops, boot, crashes>>

Released(c) ==
    IF cmd[c].kind = "update" THEN Goto(c, "undo") /\ UNCHANGED <<cmd, todo, ops>>
    ELSE End(c)

\* Mutant: a save that rolls back keeps its review.
ReleaseNothing(c) ==
    /\ pc[c] = "release"
    /\ Released(c)
    /\ UNCHANGED <<tables, secrets, reviews, boot, crashes>>

\* rollback_preview_consumption
Release(c) ==
    /\ pc[c] = "release"
    /\ reserved' = reserved \ {cmd[c].ack}
    /\ Released(c)
    /\ UNCHANGED <<tables, secrets, review, open, boot, crashes>>

\* finalize_operation of what was journaled; its result is ignored.
FinalizeOp(c, s) ==
    /\ pc[c] \in {"finish", "undo", "abort"} /\ s \in ops[c]
    /\ IF journal[s] = None THEN UNCHANGED secrets ELSE Finalize(s)
    /\ ops' = [ops EXCEPT ![c] = @ \ {s}]
    /\ UNCHANGED <<tables, reviews, cmd, todo, pc, boot, crashes>>

Answer(c) ==
    /\ pc[c] \in {"finish", "undo", "abort"} /\ ops[c] = {}
    /\ IF pc[c] = "abort" THEN Goto(c, "release") /\ UNCHANGED <<cmd, todo, ops>>
       ELSE End(c)
    /\ UNCHANGED <<tables, secrets, reviews, boot, crashes>>

-----------------------------------------------------------------------------
(* What else happens to an instance. *)

\* A merging import writes configuration and version, nothing else of an instance.
Import(c, config) ==
    /\ pc[c] = "idle" /\ boot = {}
    /\ row # None
    /\ row' = [version |-> c, config |-> config, pin |-> row.pin]
    /\ Goto(c, "done")
    /\ UNCHANGED <<bound, approval, secrets, reviews, cmd, todo, ops, boot, crashes>>

\* apply_upgrade, as previewed at this version: to another runtime or to the same one anew, with
\* the configuration as migrated.  An approval stays if it is of exactly that.
Upgrade(c, config, pin) ==
    /\ pc[c] = "idle" /\ boot = {}
    /\ row # None
    /\ row' = [version |-> c, config |-> config, pin |-> pin]
    /\ approval' = IF Fits(approval, row') THEN approval ELSE None
    /\ Goto(c, "done")
    /\ UNCHANGED <<bound, secrets, reviews, cmd, todo, ops, boot, crashes>>

\* apply_rollback, to the configuration and runtime of some earlier upgrade's snapshot.
Rollback(c, config, pin) ==
    /\ pc[c] = "idle" /\ boot = {}
    /\ row # None
    /\ row' = [version |-> c, config |-> config, pin |-> pin]
    /\ approval' = None
    /\ Goto(c, "done")
    /\ UNCHANGED <<bound, secrets, reviews, cmd, todo, ops, boot, crashes>>

\* The process ends: commands and previews are gone.  Without a journal row it would only lose
\* previews, which expire as well, and commands that might as well have failed or not begun.
Crash ==
    /\ crashes < MaxCrashes /\ \E s \in Slot : journal[s] # None
    /\ crashes' = crashes + 1
    /\ pc' = [c \in Cmd |-> IF pc[c] = "idle" THEN "idle" ELSE "done"]
    /\ open' = {} /\ reserved' = {}
    /\ boot' = {k \in Slot : journal[k] # None}
    /\ cmd' = [c \in Saver |-> NoCommand]
    /\ todo' = [c \in Saver |-> {}] /\ ops' = [c \in Saver |-> {}]
    /\ UNCHANGED <<tables, secrets, review>>

\* recover_all, before commands are served.
Recover(k) ==
    /\ k \in boot
    /\ Finalize(k)
    /\ boot' = boot \ {k}
    /\ UNCHANGED <<tables, reviews, cmd, todo, ops, pc, crashes>>

-----------------------------------------------------------------------------
Step(c) ==
    \/ ReadRow(c) \/ Retain(c) \/ ReadBindings(c) \/ PreflightDone(c) \/ PrepareDone(c)
    \/ \E s \in Slot : \/ Preflight(c, s) \/ Insert(c, s) \/ Store(c, s) \/ StoreFails(c, s)
                      \/ FinalizeOp(c, s)
    \/ \E pin \in Pin : Gate(c, pin)
    \/ GateFails(c) \/ Consume(c)
    \/ Save(c) \/ Create(c) \/ Delete(c) \/ CommitFails(c)
    \/ Settle(c) \/ Release(c) \/ Answer(c)

Next ==
    \/ \E c \in Saver :
          \/ Step(c)
          \/ pc[c] = "idle" /\ \E kind \in Kind, config \in Config,
                ack \in Reviewer \cup {None}, replace \in SUBSET Slot :
             \E clear \in SUBSET (Slot \ replace) :
                Begin(c, kind, replace, clear, config, ack)
    \/ \E p \in Reviewer :
          Expire(p) \/ \E config \in Custom, pin \in Pin : Review(p, config, pin)
    \/ \E w \in Writer :
          \E config \in Config :
             \/ Import(w, config)
             \/ \E pin \in Pin : Upgrade(w, config, pin) \/ Rollback(w, config, pin)
    \/ Crash
    \/ \E k \in Slot : Recover(k)

Spec == Init /\ [][Next]_vars

-----------------------------------------------------------------------------
(* Properties. *)

\* A slot never refers to a secret that is not in the vault, whichever of several slots fails.
BoundSecretPresent == \A s \in Slot : bound[s] # None => <<s, bound[s]>> \in vault

\* No secret is forgotten: its slot refers to it, or a journal row of the slot names it.
SecretAccountedFor ==
    \A s \in Slot, c \in Cmd : <<s, c>> \in vault =>
        bound[s] = c \/ (journal[s] # None /\ c \in {journal[s].old, journal[s].new})

\* Slots, vault and journal agree at every point between two steps of a save of several slots.
SecretsAgree == BoundSecretPresent /\ SecretAccountedFor

\* The secrets that slots refer to, and those that the journal names besides.
Held == [s \in Slot |-> IF bound[s] = None THEN None ELSE <<s, bound[s]>>]

Owed ==
    UNION {{s} \X ({journal[s].old, journal[s].new} \ {bound[s], None}) :
              s \in {t \in Slot : journal[t] # None}}

Secrets == INSTANCE SecretStore
    WITH Owner <- Slot, Secret <- Slot \X Cmd, current <- Held, stored <- vault, owed <- Owed

\* Slots, vault and journal together are one store.
OneStore == Secrets!Spec

\* Whatever is approved was shown to the user as it is approved.
ApprovalWasReviewed ==
    approval # None =>
        LET r == review[approval.review] IN
        r # None /\ r.config = approval.config /\ r.pin = approval.pin

\* A reservation never outlives the save that holds it, and is held by one save: otherwise
\* the user could not save the reviewed endpoint again until the preview expired.
ReservationIsHeld ==
    \A p \in reserved :
        Cardinality({c \in Saver : cmd[c].ack = p /\ pc[c] \in {"commit", "settle", "abort", "release"}}) = 1

\* A review is used as it was given, and by one save.
ReviewsAreHonoured == ApprovalWasReviewed /\ ReservationIsHeld

\* "A custom Base URL is saved only after an acknowledged host preview exactly matches the
\* current candidate": a save that sets one leaves an approval of it, for the runtime the
\* instance has at that moment.
CustomNeedsReview ==
    [][(\E c \in Saver : pc[c] = "commit" /\ pc'[c] = "settle") /\ row'.config # Official
       /\ (row # None => row.config # row'.config)
       => Fits(approval', row')]_vars

-----------------------------------------------------------------------------
(* What documents and comments say and the code does not keep: see the README. *)

\* "Origin/package/runtime change - revoke approval and require new review; never retain it
\* implicitly."
ChangeRevokes ==
    [][row # None /\ row' # None /\ row'.config # row.config /\ approval # None
       => approval' # approval]_vars

\* "A missing default fails closed without writing any row."
MissingDefaultWritesNothing ==
    [][\A c \in Saver : pc[c] = "gate" /\ pc'[c] = "done" =>
          \A s \in Slot : journal'[s] # None => journal'[s].id # c]_vars
=============================================================================
