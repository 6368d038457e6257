--------------------------- MODULE ProviderBindings ---------------------------
(***************************************************************************)
(* The runtime bindings of one provider.  Each API type (adapter) is bound *)
(* to at most one package; an active binding names a grant, by package and *)
(* revision, which the aliases of a package share.  Attaching and rolling  *)
(* back are previewed first: the preview is a session in memory, built     *)
(* from several autocommit reads, that one later transaction applies.      *)
(* What a binding is replaced or removed by leaves a rollback snapshot,    *)
(* and a grant goes when neither an active binding of its package nor a    *)
(* snapshot refers to it.                                                  *)
(*                                                                         *)
(* A transaction, or an autocommit read, is an action.  A command has the  *)
(* identity of its session, of the snapshot set it creates and of the      *)
(* updated_at it writes: all are fresh for each command.                   *)
(***************************************************************************)
EXTENDS Naturals, Sequences, FiniteSets

CONSTANTS
    Cmd,      \* commands, one each
    Adapter,  \* API types, in the order list_by_provider has them
    Package,
    Declares, \* the API types each package declares (legacy_aliases)
    None

\* A revision is the number of an earlier one plus one.
Revision == 1 .. Cardinality(Cmd)

Row == [pkg: Package, rev: {0} \cup Revision, state: {"pending", "active"},
        stamp: Cmd \cup {None}, shared: BOOLEAN]

\* What a snapshot keeps; the package None restores "no binding".
Absent == [pkg |-> None, rev |-> 0, state |-> "pending", stamp |-> None, shared |-> FALSE]

ASSUME BindingAssumption ==
    /\ IsFiniteSet(Cmd)
    /\ Adapter \subseteq Nat
    /\ Declares \in [Package -> SUBSET Adapter]
    /\ None \notin Cmd \cup Package \cup Adapter \cup Row

VARIABLES
    version,   \* provider_instances.updated_at: the command that wrote last
    default,   \* the provider's default API type
    binding,   \* the binding row of each API type; rev 0 is a NULL revision
    grants,    \* execution grant sets of this provider: package and revision
    snapshots, \* the undiscarded snapshot set each command has left
    born,      \* commands in the order of their snapshots' created_at
    session,   \* the preview each command holds
    pc,
    overtaken  \* history: whose preview is of what has been written since

tables == <<version, default, binding, grants, snapshots>>
vars   == <<tables, born, session, pc, overtaken>>

NoSession == [adapter |-> None, pkg |-> None, rev |-> 0, reuse |-> FALSE, seen |-> None,
              base |-> None, source |-> None, set |-> None]

TypeOK ==
    /\ version \in Cmd \cup {None}
    /\ default \in Adapter
    /\ binding \in [Adapter -> Row \cup {None}]
    /\ grants \in SUBSET (Package \X Revision)
    /\ snapshots \in [Cmd -> [adapter: Adapter, row: Row \cup {Absent}] \cup {None}]
    /\ born \in Seq(Cmd)
    /\ session \in [Cmd -> [adapter: Adapter \cup {None}, pkg: Package \cup {None},
                            rev: {0} \cup Revision, reuse: BOOLEAN, seen: Cmd \cup {None},
                            base: Cmd \cup {None}, source: Row \cup {None},
                            set: Cmd \cup {None}]]
    /\ pc \in [Cmd -> {"idle", "probe", "revise", "attach", "rollback", "activate", "commit",
                       "ok", "error"}]
    /\ overtaken \in SUBSET Cmd

\* A provider is created with the pending default of its API type; an upgraded database may
\* hold one without a binding.
Init ==
    /\ version = None
    /\ default \in Adapter
    /\ binding \in
          {[a \in Adapter |-> None]} \cup
          {[a \in Adapter |-> IF a = default
                              THEN [pkg |-> p, rev |-> 0, state |-> "pending", stamp |-> None,
                                    shared |-> FALSE]
                              ELSE None] : p \in {q \in Package : default \in Declares[q]}}
    /\ grants = {}
    /\ snapshots = [c \in Cmd |-> None]
    /\ born = <<>>
    /\ session = [c \in Cmd |-> NoSession]
    /\ pc = [c \in Cmd |-> "idle"]
    /\ overtaken = {}

Goto(c, label) == pc' = [pc EXCEPT ![c] = label]

Bound == {a \in Adapter : binding[a] # None}

\* has_active_package
ActivePackage(rows, p) == \E a \in Adapter : rows[a] # None /\ rows[a].pkg = p /\ rows[a].state = "active"

\* provider_snapshot_references_grant
SnapshotReferences(sets, p, r) == \E c \in Cmd : sets[c] # None /\ sets[c].row.pkg = p /\ sets[c].row.rev = r

\* Mutant: a snapshot set keeps no grant.
LooseIgnoringSnapshots(rows, sets, p, r) == r # 0 /\ ~ActivePackage(rows, p)

\* release_grant_after_removal: does a removal leave the grant to nobody?
Loose(rows, sets, p, r) == r # 0 /\ ~ActivePackage(rows, p) /\ ~SnapshotReferences(sets, p, r)

\* release_provider_grant, which fails the transaction when the grant is not there.
Release(rows, sets, p, r) ==
    IF Loose(rows, sets, p, r)
    THEN <<p, r>> \in grants /\ grants' = grants \ {<<p, r>>}
    ELSE UNCHANGED grants

\* next_revision
NextRevision(p) ==
    LET revs == {r \in Revision : <<p, r>> \in grants} IN
    IF revs = {} THEN 1 ELSE 1 + CHOOSE r \in revs : \A s \in revs : s <= r

-----------------------------------------------------------------------------
(* Attaching a package to an API type. *)

\* preview_interface_attach: the provider and the binding are read together.
PreviewAttach(c, a, p) ==
    /\ pc[c] = "idle"
    /\ a \in Declares[p]
    /\ binding[a] # None => binding[a].pkg # p
    /\ session' = [session EXCEPT ![c] = [adapter |-> a, pkg |-> p, rev |-> 0, reuse |-> FALSE,
                                          seen |-> version, base |-> None, source |-> binding[a],
                                          set |-> None]]
    /\ born' = Append(born, c)
    /\ Goto(c, "probe")
    /\ UNCHANGED tables

\* Does another alias of the package hold its grant?
ProbeAlias(c) ==
    LET s == session[c] IN
    /\ pc[c] = "probe"
    /\ session' = [session EXCEPT ![c] =
                      [adapter |-> s.adapter, pkg |-> s.pkg, rev |-> 0,
                       reuse |-> ActivePackage(binding, s.pkg), seen |-> s.seen,
                       base |-> None, source |-> s.source, set |-> None]]
    /\ Goto(c, "revise")
    /\ UNCHANGED <<tables, born>>

\* The revision of that alias, or the next one, for which a grant bundle is built
\* from the base URL the provider has now.
Revise(c) ==
    LET s == session[c]
        revs == IF s.reuse
                THEN {binding[a].rev : a \in {b \in Bound : binding[b].pkg = s.pkg
                                                            /\ binding[b].state = "active"}}
                ELSE {NextRevision(s.pkg)} \cap Revision
    IN
    /\ pc[c] = "revise"
    /\ \E r \in revs :
          session' = [session EXCEPT ![c] =
                         [adapter |-> s.adapter, pkg |-> s.pkg, rev |-> r, reuse |-> s.reuse,
                          seen |-> s.seen, base |-> version, source |-> s.source, set |-> None]]
    /\ Goto(c, "attach")
    /\ UNCHANGED <<tables, born>>

\* apply_interface_attach: the provider and the whole row must be the previewed ones, and a
\* new revision's grant must not be there yet.
Attach(c) ==
    LET s == session[c] IN
    /\ pc[c] = "attach"
    /\ version = s.seen
    /\ binding[s.adapter] = s.source
    /\ s.reuse \/ <<s.pkg, s.rev>> \notin grants
    /\ grants' = IF s.reuse THEN grants ELSE grants \cup {<<s.pkg, s.rev>>}
    /\ snapshots' = [snapshots EXCEPT ![c] =
                        [adapter |-> s.adapter, row |-> IF s.source = None THEN Absent ELSE s.source]]
    /\ binding' = [binding EXCEPT ![s.adapter] =
                      [pkg |-> s.pkg, rev |-> s.rev, state |-> "active", stamp |-> c,
                       shared |-> s.reuse]]
    /\ session' = [session EXCEPT ![c] = NoSession]
    /\ Goto(c, "ok")
    /\ UNCHANGED <<version, default, born>>

-----------------------------------------------------------------------------
(* Detaching, rolling back, discarding. *)

\* detach_interface: one transaction, given the updated_at of both rows.  Its snapshot
\* always refers to the grant it would release.
Detach(c, a) ==
    /\ pc[c] = "idle"
    /\ a \in Bound
    /\ snapshots' = [snapshots EXCEPT ![c] = [adapter |-> a, row |-> binding[a]]]
    /\ binding' = [binding EXCEPT ![a] = None]
    /\ born' = Append(born, c)
    /\ Goto(c, "ok")
    /\ UNCHANGED <<version, default, grants, session>>

\* The undiscarded set of the API type with the latest created_at.
Newest(c, a) ==
    /\ snapshots[c] # None /\ snapshots[c].adapter = a
    /\ \A i, j \in DOMAIN born :
          born[i] = c /\ i < j /\ snapshots[born[j]] # None => snapshots[born[j]].adapter # a

PreviewRollback(c, a, d) ==
    /\ pc[c] = "idle"
    /\ a \in Bound
    /\ Newest(d, a)
    /\ session' = [session EXCEPT ![c] = [adapter |-> a, pkg |-> None, rev |-> 0, reuse |-> FALSE,
                                          seen |-> version, base |-> None, source |-> binding[a],
                                          set |-> d]]
    /\ Goto(c, "rollback")
    /\ UNCHANGED <<tables, born>>

\* Mutant: a snapshot of no binding is written back as a row.
RestoredAlways(c, old) == [pkg |-> old.pkg, rev |-> old.rev, state |-> old.state, stamp |-> c,
                           shared |-> old.shared]

\* restore_adapter_binding
Restored(c, old) ==
    IF old = Absent THEN None
    ELSE [pkg |-> old.pkg, rev |-> old.rev, state |-> old.state, stamp |-> c, shared |-> old.shared]

\* Mutant: neither the provider nor the row is compared with what the preview showed.
RollbackUnchecked(c) ==
    LET s == session[c]
        rows == [binding EXCEPT ![s.adapter] = Restored(c, snapshots[s.set].row)]
        sets == [snapshots EXCEPT ![s.set] = None]
    IN
    /\ pc[c] = "rollback"
    /\ snapshots[s.set] # None
    /\ binding' = rows
    /\ snapshots' = sets
    /\ Release(rows, sets, s.source.pkg, s.source.rev)
    /\ session' = [session EXCEPT ![c] = NoSession]
    /\ Goto(c, "ok")
    /\ UNCHANGED <<version, default, born>>

\* apply_interface_rollback of an adapter's set: the row returns as it was, the set is
\* discarded, and the grant of the row it replaces is released.
Rollback(c) ==
    LET s == session[c]
        rows == [binding EXCEPT ![s.adapter] = Restored(c, snapshots[s.set].row)]
        sets == [snapshots EXCEPT ![s.set] = None]
    IN
    /\ pc[c] = "rollback"
    /\ snapshots[s.set] # None
    /\ version = s.seen /\ binding[s.adapter] = s.source
    /\ binding' = rows
    /\ snapshots' = sets
    /\ Release(rows, sets, s.source.pkg, s.source.rev)
    /\ session' = [session EXCEPT ![c] = NoSession]
    /\ Goto(c, "ok")
    /\ UNCHANGED <<version, default, born>>

\* A session expires, or its application is refused: it is gone either way.
Refuse(c) ==
    /\ pc[c] \in {"probe", "revise", "attach", "rollback", "activate", "commit"}
    /\ session' = [session EXCEPT ![c] = NoSession]
    /\ Goto(c, "error")
    /\ UNCHANGED <<tables, born>>

\* discard_interface_snapshot
Discard(c, d) ==
    LET row == snapshots[d].row
        sets == [snapshots EXCEPT ![d] = None]
    IN
    /\ pc[c] = "idle"
    /\ snapshots[d] # None
    /\ snapshots' = sets
    /\ Release(binding, sets, row.pkg, row.rev)
    /\ Goto(c, "ok")
    /\ UNCHANGED <<version, default, binding, born, session>>

-----------------------------------------------------------------------------
(* What else writes the rows. *)

\* A save of the provider.  One that replaces or clears the credential leaves the rows alone;
\* one that keeps it takes the row of the default API type along to a new one, and fails when
\* that has a row of its own.
Save(c, a) ==
    /\ pc[c] = "idle"
    /\ version' = c
    /\ default' = a
    /\ \/ UNCHANGED binding
       \/ /\ a # default /\ binding[default] # None /\ binding[a] = None
          /\ binding' = [binding EXCEPT ![a] = binding[default], ![default] = None]
    /\ Goto(c, "ok")
    /\ UNCHANGED <<grants, snapshots, born, session>>

\* Import replaces the whole collection by pending rows without a grant: declared rows are
\* written first, then each row there was is released in turn, an omitted one with its
\* deletion.  A grant that two releases find loose fails the second, and the import.
Import(c, required, a) ==
    LET rows == [b \in Adapter |->
                    IF b \in DOMAIN required
                    THEN [pkg |-> required[b], rev |-> 0, state |-> "pending", stamp |-> c,
                          shared |-> FALSE]
                    ELSE None]
        At(b) == [d \in Adapter |-> IF d > b /\ d \notin DOMAIN required THEN binding[d] ELSE rows[d]]
        loose == {b \in Bound : Loose(At(b), snapshots, binding[b].pkg, binding[b].rev)}
        Grant(b) == <<binding[b].pkg, binding[b].rev>>
        gone == {Grant(b) : b \in loose}
    IN
    /\ pc[c] = "idle"
    /\ a \in DOMAIN required
    /\ gone \subseteq grants
    /\ \A b, d \in loose : Grant(b) = Grant(d) => b = d
    /\ binding' = rows
    /\ grants' = grants \ gone
    /\ default' = a
    /\ version' = c
    /\ Goto(c, "ok")
    /\ UNCHANGED <<snapshots, born, session>>

\* activate_with_catalog_default: after a save, for a row that is still pending.
ReadPending(c, a) ==
    /\ pc[c] = "idle"
    /\ a \in Bound
    /\ binding[a].state = "pending"
    /\ session' = [session EXCEPT ![c] = [adapter |-> a, pkg |-> binding[a].pkg, rev |-> 0,
                                          reuse |-> FALSE, seen |-> None, base |-> version,
                                          source |-> binding[a], set |-> None]]
    /\ Goto(c, "activate")
    /\ UNCHANGED <<tables, born>>

RevisePending(c) ==
    LET s == session[c] IN
    /\ pc[c] = "activate"
    /\ NextRevision(s.pkg) \in Revision
    /\ session' = [session EXCEPT ![c] =
                      [adapter |-> s.adapter, pkg |-> s.pkg, rev |-> NextRevision(s.pkg),
                       reuse |-> FALSE, seen |-> None, base |-> s.base, source |-> s.source,
                       set |-> None]]
    /\ Goto(c, "commit")
    /\ UNCHANGED <<tables, born>>

\* insert_bundle (unique per revision) and compare_and_set_pending_activation.
Activate(c) ==
    LET s == session[c] IN
    /\ pc[c] = "commit"
    /\ <<s.pkg, s.rev>> \notin grants
    /\ binding[s.adapter] # None
    /\ binding[s.adapter].pkg = s.pkg
    /\ binding[s.adapter].state = "pending" /\ binding[s.adapter].rev = 0
    /\ binding[s.adapter].stamp = s.source.stamp
    /\ grants' = grants \cup {<<s.pkg, s.rev>>}
    /\ binding' = [binding EXCEPT ![s.adapter] =
                      [pkg |-> s.pkg, rev |-> s.rev, state |-> "active", stamp |-> c,
                       shared |-> FALSE]]
    /\ session' = [session EXCEPT ![c] = NoSession]
    /\ Goto(c, "ok")
    /\ UNCHANGED <<version, default, snapshots, born>>

-----------------------------------------------------------------------------
Requirements == UNION {[D -> Package] : D \in SUBSET Adapter}

Step(c) ==
    \/ ProbeAlias(c) \/ Revise(c) \/ Attach(c) \/ Rollback(c) \/ Refuse(c)
    \/ RevisePending(c) \/ Activate(c)

Operation ==
    \E c \in Cmd :
        \/ Step(c)
        \/ \E a \in Adapter :
              \/ \E p \in Package : PreviewAttach(c, a, p)
              \/ Detach(c, a) \/ Save(c, a) \/ ReadPending(c, a)
              \/ \E required \in Requirements : Import(c, required, a)
              \/ \E d \in Cmd : PreviewRollback(c, a, d)
        \/ \E d \in Cmd : Discard(c, d)

Previewing == {"probe", "revise", "attach", "rollback"}

\* A step overtakes the previews of the provider it writes and of the row it replaces or removes.
Overtake ==
    overtaken' = {c \in Cmd :
                     /\ pc[c] \in Previewing /\ pc'[c] \in Previewing
                     /\ \/ c \in overtaken
                        \/ version' # version
                        \/ /\ session[c].source # None
                           /\ binding'[session[c].adapter] # binding[session[c].adapter]}

Next == Operation /\ Overtake

Spec == Init /\ [][Next]_vars

-----------------------------------------------------------------------------
(* Properties. *)

Granted(row) == row.rev # 0 => <<row.pkg, row.rev>> \in grants

\* The route of an active binding is never left without its grant, whatever is detached,
\* discarded, imported or rolled back around it: a call would be refused although the
\* interface shows as active.  Bindings that took over another alias's grant are apart.
ActiveHasGrant ==
    \A a \in Bound : binding[a].state = "active" /\ ~binding[a].shared => Granted(binding[a])

\* "Retain its grant while an undiscarded adapter snapshot ... references it": what can be
\* rolled back to still has its authority.
SnapshotHasGrant ==
    \A c \in Cmd : snapshots[c] # None /\ ~snapshots[c].row.shared => Granted(snapshots[c].row)

\* No reference to a grant outlives the grant.
ReferenceHasGrant == ActiveHasGrant /\ SnapshotHasGrant

\* A snapshot taken from an old preview is of the binding that is replaced now, not of one
\* that was there when the user asked: a rollback undoes exactly the change it belongs to.
SnapshotIsWhatItReplaced ==
    [][\A c \in Cmd :
          snapshots[c] = None /\ snapshots'[c] # None =>
              snapshots'[c].row = (IF binding[snapshots'[c].adapter] = None THEN Absent
                                   ELSE binding[snapshots'[c].adapter])]_vars

\* The authority an attach grants was computed from the connection the provider has now,
\* though the preview read it in steps of its own: "provider changed concurrently;
\* re-preview before applying" (runtime_providers.rs:643).
GrantIsForThisConnection ==
    [][\A c \in Cmd : pc[c] = "attach" /\ pc'[c] = "ok" /\ ~session[c].reuse
                      => session[c].base = version]_vars

\* An attach, with a grant of its own or an alias's, and a rollback take effect only if, since
\* the preview, nobody saved the provider and the row it found was never replaced or removed, be
\* it by its like: the code compares values (runtime_providers.rs:640-655, 896-906).  A preview
\* that found no row is only promised that there is none again.
NothingOvertaken ==
    [][\A c \in Cmd :
          pc[c] \in {"attach", "rollback"} /\ pc'[c] = "ok" =>
              /\ c \notin overtaken
              /\ session[c].source = None => binding[session[c].adapter] = None]_vars

\* What a rollback restores is still the newest snapshot of its API type when it is applied,
\* although the transaction does not look for newer ones.
RollbackIsOfTheNewest ==
    [][\A c \in Cmd : pc[c] = "rollback" /\ pc'[c] = "ok"
                      => Newest(session[c].set, session[c].adapter)]_vars

\* No preview that has been overtaken takes effect, and what takes effect is what it showed.
PreviewIsCurrent ==
    /\ NothingOvertaken
    /\ RollbackIsOfTheNewest
    /\ SnapshotIsWhatItReplaced
    /\ GrantIsForThisConnection

-----------------------------------------------------------------------------
(* What documents and comments say and the code does not keep: see the README. *)

\* With aliases: the grant of every active binding is there.
EveryActiveHasGrant == \A a \in Bound : binding[a].state = "active" => Granted(binding[a])

\* "Newest undiscarded adapter-scoped set owning this API type wins" (runtime_providers.rs:764):
\* the set an attach leaves is then the newest, so that the next rollback undoes that attach.
NewestIsLast ==
    [][\A c \in Cmd, a \in Adapter :
          pc[c] = "attach" /\ pc'[c] = "ok" /\ a = session[c].adapter => Newest(c, a)']_vars

\* "release it only after the final reference disappears": and then it is released.
NoOrphanGrant ==
    \A g \in grants :
        \/ \E a \in Bound : binding[a].pkg = g[1] /\ binding[a].rev = g[2]
        \/ \E c \in Cmd : snapshots[c] # None /\ snapshots[c].row.pkg = g[1] /\ snapshots[c].row.rev = g[2]
=============================================================================
