------------------------ MODULE ProviderBindingsProofs ------------------------
(***************************************************************************)
(* Proofs about ProviderBindings, for any number of commands, API types    *)
(* and packages, whichever API types a package declares.                   *)
(***************************************************************************)
EXTENDS ProviderBindings, TLAPS

-----------------------------------------------------------------------------
(* The inductive invariant. *)

SnapshotSet == [adapter: Adapter, row: Row \cup {Absent}]

SessionRecord == [adapter: Adapter \cup {None}, pkg: Package \cup {None},
                  rev: {0} \cup Revision, reuse: BOOLEAN, seen: Cmd \cup {None},
                  base: Cmd \cup {None}, source: Row \cup {None},
                  set: Cmd \cup {None}]

Label == {"idle", "probe", "revise", "attach", "rollback", "activate", "commit", "ok", "error"}

\* The type invariant, but for the history.
Typed ==
    /\ version \in Cmd \cup {None}
    /\ default \in Adapter
    /\ binding \in [Adapter -> Row \cup {None}]
    /\ grants \in SUBSET (Package \X Revision)
    /\ snapshots \in [Cmd -> SnapshotSet \cup {None}]
    /\ born \in Seq(Cmd)
    /\ session \in [Cmd -> SessionRecord]
    /\ pc \in [Cmd -> Label]

\* A pending binding names no grant, in the table and in a snapshot.
PendingHasNoGrant ==
    /\ \A a \in Adapter : binding[a] # None /\ binding[a].state = "pending" => binding[a].rev = 0
    /\ \A c \in Cmd : snapshots[c] # None /\ snapshots[c].row.state = "pending"
                         => snapshots[c].row.rev = 0

\* A command that has not begun has written the provider never, and no preview has seen it do so.
IdleIsFresh ==
    \A c \in Cmd : pc[c] = "idle" => version # c /\ \A d \in Cmd : session[d].seen # c

\* While nobody has saved the provider since an attach was previewed, what the preview read
\* after that is of the same provider.
ReadInBetween ==
    \A c \in Cmd : pc[c] = "attach" /\ session[c].seen = version => session[c].base = version

\* What a session has when its command is about to use it.
Fits(l, s) ==
    /\ l \in {"probe", "revise", "attach", "rollback", "activate", "commit"} => s.adapter \in Adapter
    /\ l \in {"probe", "revise", "attach", "activate", "commit"} => s.pkg \in Package
    /\ l = "rollback" => s.set \in Cmd
    /\ l = "commit" => s.rev \in Revision
    /\ l = "attach" /\ ~s.reuse => s.rev \in Revision

SessionsFit == \A c \in Cmd : Fits(pc[c], session[c])

IInv ==
    /\ Typed
    /\ PendingHasNoGrant
    /\ IdleIsFresh
    /\ ReadInBetween
    /\ SessionsFit
    /\ ReferenceHasGrant

-----------------------------------------------------------------------------
(* Facts about the constants and the helpers. *)

LEMMA Nulls ==
    /\ None \notin Cmd /\ None \notin Package /\ None \notin Adapter /\ None \notin Row
    /\ Absent \notin Row
    /\ NoSession \in SessionRecord
BY BindingAssumption DEF Absent, Row, NoSession, SessionRecord

\* A release takes no grant that an active binding's package has or a snapshot refers to.
LEMMA ReleaseKeeps ==
    ASSUME NEW rows, NEW sets, NEW p, NEW r, Release(rows, sets, p, r),
           NEW q, NEW s, <<q, s>> \in grants,
           ActivePackage(rows, q) \/ SnapshotReferences(sets, q, s)
    PROVE  <<q, s>> \in grants'
<1>1. CASE Loose(rows, sets, p, r)
  <2>1. grants' = grants \ {<<p, r>>}
    BY <1>1 DEF Release
  <2>2. ~(ActivePackage(rows, p) \/ SnapshotReferences(sets, p, r))
    BY <1>1 DEF Loose
  <2>3. q # p \/ s # r
    BY <2>2
  <2> QED BY <2>1, <2>3
<1>2. CASE ~Loose(rows, sets, p, r)
  BY <1>2 DEF Release
<1> QED BY <1>1, <1>2

LEMMA ReleaseTakes ==
    ASSUME NEW rows, NEW sets, NEW p, NEW r, Release(rows, sets, p, r)
    PROVE  grants' \subseteq grants
BY DEF Release

-----------------------------------------------------------------------------
(* What steps have in common. *)

\* A step of a preview: the tables stay, one session and its label change.
LEMMA PreviewStep ==
    ASSUME IInv, NEW c \in Cmd, NEW s \in SessionRecord, NEW l \in Label, l # "idle",
           UNCHANGED tables, born' \in Seq(Cmd),
           session' = [session EXCEPT ![c] = s], pc' = [pc EXCEPT ![c] = l],
           s.seen \in {version, session[c].seen, None},
           l = "attach" => s.base = version, Fits(l, s)
    PROVE  IInv'
<1>1. Typed'
  BY DEF IInv, Typed, tables
<1>2. /\ \A d \in Cmd : session'[d] = IF d = c THEN s ELSE session[d]
      /\ \A d \in Cmd : pc'[d] = IF d = c THEN l ELSE pc[d]
      /\ version' = version /\ binding' = binding /\ snapshots' = snapshots /\ grants' = grants
  BY DEF IInv, Typed, tables
<1>3. PendingHasNoGrant'
  BY <1>2 DEF IInv, PendingHasNoGrant
<1>4. IdleIsFresh'
  BY <1>2, Nulls DEF IInv, IdleIsFresh
<1>5. ReadInBetween'
  BY <1>2 DEF IInv, ReadInBetween
<1>6. SessionsFit'
  <2> SUFFICES ASSUME NEW d \in Cmd PROVE Fits(pc'[d], session'[d])
    BY DEF SessionsFit, Fits
  <2> QED BY <1>2 DEF IInv, SessionsFit
<1>7. ReferenceHasGrant'
  BY <1>2 DEF IInv, ReferenceHasGrant, ActiveHasGrant, SnapshotHasGrant, Granted, Bound
<1> QED BY <1>1, <1>3, <1>4, <1>5, <1>6, <1>7 DEF IInv

\* A step that answers its command: the sessions of the others stay.
LEMMA AnswerStep ==
    ASSUME IInv, NEW c \in Cmd, pc' = [pc EXCEPT ![c] = "ok"],
           session' \in {session, [session EXCEPT ![c] = NoSession]},
           version' = version \/ (version' = c /\ pc[c] = "idle")
    PROVE  /\ pc' \in [Cmd -> Label] /\ session' \in [Cmd -> SessionRecord]
           /\ IdleIsFresh' /\ ReadInBetween' /\ SessionsFit'
<1>1. /\ pc \in [Cmd -> Label] /\ session \in [Cmd -> SessionRecord]
      /\ IdleIsFresh /\ ReadInBetween /\ SessionsFit
  BY DEF IInv, Typed
<1>2. pc' \in [Cmd -> Label] /\ session' \in [Cmd -> SessionRecord]
  BY <1>1, Nulls DEF Label
<1>3. /\ \A d \in Cmd : d # c => session'[d] = session[d] /\ pc'[d] = pc[d]
      /\ pc'[c] = "ok"
      /\ session'[c].seen \in {session[c].seen, None}
  BY <1>1 DEF NoSession
<1>4. IdleIsFresh'
  <2> SUFFICES ASSUME NEW d \in Cmd, pc'[d] = "idle"
               PROVE  version' # d /\ \A e \in Cmd : session'[e].seen # d
    BY DEF IdleIsFresh
  <2>1. d # c /\ pc[d] = "idle"
    BY <1>3
  <2>2. version # d /\ \A e \in Cmd : session[e].seen # d
    BY <1>1, <2>1 DEF IdleIsFresh
  <2> QED BY <1>3, <2>1, <2>2, Nulls
<1>5. ReadInBetween'
  <2> SUFFICES ASSUME NEW d \in Cmd, pc'[d] = "attach", session'[d].seen = version'
               PROVE  session'[d].base = version'
    BY DEF ReadInBetween
  <2>1. d # c /\ pc[d] = "attach" /\ session'[d] = session[d]
    BY <1>3
  <2>2. version' = version
    BY <1>1, <2>1 DEF IdleIsFresh
  <2> QED BY <1>1, <2>1, <2>2 DEF ReadInBetween
<1>6. SessionsFit'
  <2> SUFFICES ASSUME NEW d \in Cmd PROVE Fits(pc'[d], session'[d])
    BY DEF SessionsFit, Fits
  <2>1. CASE d = c
    BY <1>3, <2>1 DEF Fits
  <2>2. CASE d # c
    BY <1>1, <1>3, <2>2 DEF SessionsFit
  <2> QED BY <2>1, <2>2
<1> QED BY <1>2, <1>4, <1>5, <1>6

-----------------------------------------------------------------------------
(* Steps of previews. *)

LEMMA PreviewAttachInv ==
    ASSUME IInv, NEW c \in Cmd, NEW a \in Adapter, NEW p \in Package, PreviewAttach(c, a, p)
    PROVE  IInv'
<1> DEFINE s == [adapter |-> a, pkg |-> p, rev |-> 0, reuse |-> FALSE, seen |-> version,
                 base |-> None, source |-> binding[a], set |-> None]
<1>1. s \in SessionRecord
  BY DEF IInv, Typed, SessionRecord
<1>2. born' \in Seq(Cmd)
  BY DEF IInv, Typed, PreviewAttach
<1>3. Fits("probe", s)
  BY DEF Fits
<1>4. "probe" \in Label
  BY DEF Label
<1> QED BY <1>1, <1>2, <1>3, <1>4, PreviewStep DEF PreviewAttach, Goto

LEMMA ProbeAliasInv ==
    ASSUME IInv, NEW c \in Cmd, ProbeAlias(c)
    PROVE  IInv'
<1> DEFINE old == session[c]
           s == [adapter |-> old.adapter, pkg |-> old.pkg, rev |-> 0,
                 reuse |-> ActivePackage(binding, old.pkg), seen |-> old.seen,
                 base |-> None, source |-> old.source, set |-> None]
<1>1. old \in SessionRecord /\ pc[c] = "probe" /\ Fits("probe", old)
  BY DEF IInv, Typed, SessionsFit, ProbeAlias
<1>2. ActivePackage(binding, old.pkg) \in BOOLEAN
  BY DEF ActivePackage
<1>3. s \in SessionRecord
  BY <1>1, <1>2 DEF SessionRecord
<1>4. Fits("revise", s)
  BY <1>1 DEF Fits
<1>5. "revise" \in Label
  BY DEF Label
<1>6. born' \in Seq(Cmd)
  BY DEF IInv, Typed, ProbeAlias
<1> QED BY <1>3, <1>4, <1>5, <1>6, PreviewStep DEF ProbeAlias, Goto

LEMMA ReviseInv ==
    ASSUME IInv, NEW c \in Cmd, Revise(c)
    PROVE  IInv'
<1> DEFINE old == session[c]
           revs == IF old.reuse
                   THEN {binding[a].rev : a \in {b \in Bound : binding[b].pkg = old.pkg
                                                               /\ binding[b].state = "active"}}
                   ELSE {NextRevision(old.pkg)} \cap Revision
           s(r) == [adapter |-> old.adapter, pkg |-> old.pkg, rev |-> r, reuse |-> old.reuse,
                    seen |-> old.seen, base |-> version, source |-> old.source, set |-> None]
<1>1. old \in SessionRecord /\ pc[c] = "revise" /\ Fits("revise", old) /\ version \in Cmd \cup {None}
  BY DEF IInv, Typed, SessionsFit, Revise
<1>2. PICK r \in revs : session' = [session EXCEPT ![c] = s(r)]
  BY DEF Revise
<1>3. r \in {0} \cup Revision /\ (~old.reuse => r \in Revision)
  <2>1. \A a \in Bound : binding[a].rev \in {0} \cup Revision
    BY DEF IInv, Typed, Bound, Row
  <2> QED BY <1>2, <2>1
<1>4. s(r) \in SessionRecord
  BY <1>1, <1>3 DEF SessionRecord
<1>5. Fits("attach", s(r))
  BY <1>1, <1>3 DEF Fits
<1>6. "attach" \in Label
  BY DEF Label
<1>7. born' \in Seq(Cmd)
  BY DEF IInv, Typed, Revise
<1> QED BY <1>2, <1>4, <1>5, <1>6, <1>7, PreviewStep DEF Revise, Goto

LEMMA PreviewRollbackInv ==
    ASSUME IInv, NEW c \in Cmd, NEW a \in Adapter, NEW d \in Cmd, PreviewRollback(c, a, d)
    PROVE  IInv'
<1> DEFINE s == [adapter |-> a, pkg |-> None, rev |-> 0, reuse |-> FALSE, seen |-> version,
                 base |-> None, source |-> binding[a], set |-> d]
<1>1. s \in SessionRecord
  BY DEF IInv, Typed, SessionRecord
<1>2. born' \in Seq(Cmd)
  BY DEF IInv, Typed, PreviewRollback
<1>3. Fits("rollback", s)
  BY DEF Fits
<1>4. "rollback" \in Label
  BY DEF Label
<1> QED BY <1>1, <1>2, <1>3, <1>4, PreviewStep DEF PreviewRollback, Goto

LEMMA RefuseInv ==
    ASSUME IInv, NEW c \in Cmd, Refuse(c)
    PROVE  IInv'
<1>1. Fits("error", NoSession) /\ "error" \in Label /\ NoSession.seen = None
  BY DEF Fits, Label, NoSession
<1>2. born' \in Seq(Cmd)
  BY DEF IInv, Typed, Refuse
<1> QED BY <1>1, <1>2, Nulls, PreviewStep DEF Refuse, Goto

LEMMA ReadPendingInv ==
    ASSUME IInv, NEW c \in Cmd, NEW a \in Adapter, ReadPending(c, a)
    PROVE  IInv'
<1> DEFINE s == [adapter |-> a, pkg |-> binding[a].pkg, rev |-> 0, reuse |-> FALSE, seen |-> None,
                 base |-> version, source |-> binding[a], set |-> None]
<1>1. binding[a] \in Row
  BY DEF IInv, Typed, ReadPending, Bound
<1>2. binding[a].pkg \in Package
  BY <1>1 DEF Row
<1>3. s \in SessionRecord
  BY <1>1, <1>2 DEF IInv, Typed, SessionRecord
<1>4. Fits("activate", s)
  BY <1>2 DEF Fits
<1>5. "activate" \in Label
  BY DEF Label
<1>6. born' \in Seq(Cmd)
  BY DEF IInv, Typed, ReadPending
<1> QED BY <1>3, <1>4, <1>5, <1>6, PreviewStep DEF ReadPending, Goto

LEMMA RevisePendingInv ==
    ASSUME IInv, NEW c \in Cmd, RevisePending(c)
    PROVE  IInv'
<1> DEFINE old == session[c]
           s == [adapter |-> old.adapter, pkg |-> old.pkg, rev |-> NextRevision(old.pkg),
                 reuse |-> FALSE, seen |-> None, base |-> old.base, source |-> old.source,
                 set |-> None]
<1>1. old \in SessionRecord /\ pc[c] = "activate" /\ Fits("activate", old)
  BY DEF IInv, Typed, SessionsFit, RevisePending
<1>2. NextRevision(old.pkg) \in Revision
  BY DEF RevisePending
<1>3. s \in SessionRecord
  BY <1>1, <1>2 DEF SessionRecord
<1>4. Fits("commit", s)
  BY <1>1, <1>2 DEF Fits
<1>5. "commit" \in Label
  BY DEF Label
<1>6. born' \in Seq(Cmd)
  BY DEF IInv, Typed, RevisePending
<1> QED BY <1>3, <1>4, <1>5, <1>6, PreviewStep DEF RevisePending, Goto

-----------------------------------------------------------------------------
(* Steps on the tables. *)

LEMMA AttachInv ==
    ASSUME IInv, NEW c \in Cmd, Attach(c)
    PROVE  IInv'
<1> DEFINE s == session[c]
           set == [adapter |-> s.adapter, row |-> IF s.source = None THEN Absent ELSE s.source]
           row == [pkg |-> s.pkg, rev |-> s.rev, state |-> "active", stamp |-> c,
                   shared |-> s.reuse]
<1>1. /\ s \in SessionRecord /\ s.adapter \in Adapter /\ s.pkg \in Package
      /\ ~s.reuse => s.rev \in Revision
  BY DEF IInv, Typed, SessionsFit, Attach, Fits
<1>2. set \in SnapshotSet /\ row \in Row
  BY <1>1 DEF SnapshotSet, SessionRecord, Row
<1>3. /\ snapshots' = [snapshots EXCEPT ![c] = set]
      /\ binding' = [binding EXCEPT ![s.adapter] = row]
      /\ grants' = IF s.reuse THEN grants ELSE grants \cup {<<s.pkg, s.rev>>}
      /\ binding[s.adapter] = s.source
      /\ version' = version /\ default' = default /\ born' = born
  BY DEF Attach
<1>4. /\ pc' \in [Cmd -> Label] /\ session' \in [Cmd -> SessionRecord]
      /\ IdleIsFresh' /\ ReadInBetween' /\ SessionsFit'
  BY AnswerStep DEF Attach, Goto
<1>5. Typed'
  <2>1. grants' \in SUBSET (Package \X Revision)
    BY <1>1, <1>3 DEF IInv, Typed
  <2>2. snapshots' \in [Cmd -> SnapshotSet \cup {None}] /\ binding' \in [Adapter -> Row \cup {None}]
    BY <1>1, <1>2, <1>3 DEF IInv, Typed
  <2> QED BY <1>3, <1>4, <2>1, <2>2 DEF IInv, Typed
<1>6. /\ \A d \in Cmd : snapshots'[d] = IF d = c THEN set ELSE snapshots[d]
      /\ \A a \in Adapter : binding'[a] = IF a = s.adapter THEN row ELSE binding[a]
  BY <1>1, <1>3 DEF IInv, Typed
<1>7. PendingHasNoGrant'
  <2>1. row.state # "pending"
    OBVIOUS
  <2>2. set.row.state = "pending" => set.row.rev = 0
    BY <1>1, <1>3 DEF IInv, PendingHasNoGrant, Absent
  <2> QED BY <1>6, <2>1, <2>2 DEF IInv, PendingHasNoGrant
<1>8. ReferenceHasGrant'
  <2>1. grants \subseteq grants'
    BY <1>3
  <2>2. ~row.shared => <<row.pkg, row.rev>> \in grants'
    BY <1>3
  <2>3. ~set.row.shared => Granted(set.row)
    <3>1. CASE s.source = None
      BY <3>1 DEF Absent, Granted
    <3>2. CASE s.source # None
      <4>1. binding[s.adapter] # None /\ binding[s.adapter] \in Row
        BY <1>1, <1>3, <3>2 DEF IInv, Typed
      <4>2. binding[s.adapter].state \in {"pending", "active"}
        BY <4>1 DEF Row
      <4> QED BY <1>1, <1>3, <3>2, <4>1, <4>2
              DEF IInv, ReferenceHasGrant, ActiveHasGrant, PendingHasNoGrant, Granted, Bound
    <3> QED BY <3>1, <3>2
  <2>4. ActiveHasGrant'
    BY <1>6, <2>1, <2>2 DEF IInv, ReferenceHasGrant, ActiveHasGrant, Granted, Bound
  <2>5. SnapshotHasGrant'
    BY <1>6, <2>1, <2>3 DEF IInv, ReferenceHasGrant, SnapshotHasGrant, Granted
  <2> QED BY <2>4, <2>5 DEF ReferenceHasGrant
<1> QED BY <1>4, <1>5, <1>7, <1>8 DEF IInv

LEMMA DetachInv ==
    ASSUME IInv, NEW c \in Cmd, NEW a \in Adapter, Detach(c, a)
    PROVE  IInv'
<1> DEFINE set == [adapter |-> a, row |-> binding[a]]
<1>1. binding[a] # None /\ binding[a] \in Row
  BY DEF IInv, Typed, Detach, Bound
<1>2. set \in SnapshotSet
  BY <1>1 DEF SnapshotSet
<1>3. /\ snapshots' = [snapshots EXCEPT ![c] = set]
      /\ binding' = [binding EXCEPT ![a] = None]
      /\ grants' = grants /\ version' = version /\ default' = default
      /\ born' \in Seq(Cmd)
  BY DEF IInv, Typed, Detach
<1>4. /\ pc' \in [Cmd -> Label] /\ session' \in [Cmd -> SessionRecord]
      /\ IdleIsFresh' /\ ReadInBetween' /\ SessionsFit'
  BY AnswerStep DEF Detach, Goto
<1>5. Typed'
  <2>1. snapshots' \in [Cmd -> SnapshotSet \cup {None}] /\ binding' \in [Adapter -> Row \cup {None}]
    BY <1>2, <1>3 DEF IInv, Typed
  <2> QED BY <1>3, <1>4, <2>1 DEF IInv, Typed
<1>6. /\ \A d \in Cmd : snapshots'[d] = IF d = c THEN set ELSE snapshots[d]
      /\ \A b \in Adapter : binding'[b] = IF b = a THEN None ELSE binding[b]
  BY <1>3 DEF IInv, Typed
<1>7. PendingHasNoGrant'
  BY <1>1, <1>6 DEF IInv, PendingHasNoGrant
<1>8. ReferenceHasGrant'
  <2>1. ~set.row.shared => Granted(set.row)
    <3>1. binding[a].state \in {"pending", "active"}
      BY <1>1 DEF Row
    <3> QED BY <1>1, <3>1
            DEF IInv, ReferenceHasGrant, ActiveHasGrant, PendingHasNoGrant, Granted, Bound
  <2>2. ActiveHasGrant'
    <3> SUFFICES ASSUME NEW b \in Adapter, binding'[b] # None, binding'[b].state = "active",
                        ~binding'[b].shared, binding'[b].rev # 0
                 PROVE  <<binding'[b].pkg, binding'[b].rev>> \in grants'
      BY DEF ActiveHasGrant, Granted, Bound
    <3>1. binding'[b] = binding[b]
      BY <1>6
    <3> QED BY <1>3, <3>1 DEF IInv, ReferenceHasGrant, ActiveHasGrant, Granted, Bound
  <2>3. SnapshotHasGrant'
    BY <1>3, <1>6, <2>1 DEF IInv, ReferenceHasGrant, SnapshotHasGrant, Granted
  <2> QED BY <2>2, <2>3 DEF ReferenceHasGrant
<1> QED BY <1>4, <1>5, <1>7, <1>8 DEF IInv

\* The row a rollback writes is the one the snapshot kept.
LEMMA RollbackInv ==
    ASSUME IInv, NEW c \in Cmd, Rollback(c)
    PROVE  IInv'
<1> DEFINE s == session[c]
           old == snapshots[s.set].row
           rows == [binding EXCEPT ![s.adapter] = Restored(c, old)]
           sets == [snapshots EXCEPT ![s.set] = None]
<1>1. s.adapter \in Adapter /\ s.set \in Cmd
  BY DEF IInv, SessionsFit, Rollback, Fits
<1>2. snapshots[s.set] # None /\ snapshots[s.set] \in SnapshotSet
  BY <1>1 DEF IInv, Typed, Rollback
<1>3. old \in Row \cup {Absent}
  BY <1>2 DEF SnapshotSet
<1>4. /\ binding' = rows /\ snapshots' = sets /\ Release(rows, sets, s.source.pkg, s.source.rev)
      /\ version' = version /\ default' = default /\ born' = born
  BY DEF Rollback
<1>5. /\ pc' \in [Cmd -> Label] /\ session' \in [Cmd -> SessionRecord]
      /\ IdleIsFresh' /\ ReadInBetween' /\ SessionsFit'
  BY AnswerStep DEF Rollback, Goto
<1>6. Restored(c, old) \in Row \cup {None}
  BY <1>3 DEF Restored, Row
<1>7. Typed'
  <2>1. grants' \in SUBSET (Package \X Revision)
    BY <1>4, ReleaseTakes DEF IInv, Typed
  <2>2. snapshots' \in [Cmd -> SnapshotSet \cup {None}] /\ binding' \in [Adapter -> Row \cup {None}]
    BY <1>1, <1>4, <1>6 DEF IInv, Typed
  <2> QED BY <1>4, <1>5, <2>1, <2>2 DEF IInv, Typed
<1>8. /\ \A d \in Cmd : snapshots'[d] = IF d = s.set THEN None ELSE snapshots[d]
      /\ \A a \in Adapter : binding'[a] = IF a = s.adapter THEN Restored(c, old) ELSE binding[a]
  BY <1>1, <1>4 DEF IInv, Typed
<1>9. Restored(c, old) # None =>
         /\ Restored(c, old).pkg = old.pkg /\ Restored(c, old).rev = old.rev
         /\ Restored(c, old).state = old.state /\ Restored(c, old).shared = old.shared
  BY DEF Restored
<1>10. PendingHasNoGrant'
  <2>1. old.state = "pending" => old.rev = 0
    BY <1>1, <1>2 DEF IInv, PendingHasNoGrant
  <2> QED BY <1>8, <1>9, <2>1 DEF IInv, PendingHasNoGrant
<1>11. ActiveHasGrant'
  <2> SUFFICES ASSUME NEW a \in Adapter, rows[a] # None, rows[a].state = "active",
                      ~rows[a].shared, rows[a].rev # 0
               PROVE  <<rows[a].pkg, rows[a].rev>> \in grants'
    BY <1>4 DEF ActiveHasGrant, Granted, Bound
  <2>1. <<rows[a].pkg, rows[a].rev>> \in grants
    <3>1. CASE a = s.adapter
      <4>1. ~old.shared /\ old.rev # 0 /\ rows[a].pkg = old.pkg /\ rows[a].rev = old.rev
        BY <1>4, <1>8, <1>9, <3>1
      <4> QED BY <1>1, <1>2, <4>1 DEF IInv, ReferenceHasGrant, SnapshotHasGrant, Granted
    <3>2. CASE a # s.adapter
      <4>1. rows[a] = binding[a]
        BY <1>4, <1>8, <3>2
      <4> QED BY <4>1 DEF IInv, ReferenceHasGrant, ActiveHasGrant, Granted, Bound
    <3> QED BY <3>1, <3>2
  <2>2. ActivePackage(rows, rows[a].pkg)
    BY DEF ActivePackage
  <2> HIDE DEF rows, sets
  <2> QED BY <1>4, <2>1, <2>2, ReleaseKeeps
<1>12. SnapshotHasGrant'
  <2> SUFFICES ASSUME NEW d \in Cmd, sets[d] # None, ~sets[d].row.shared, sets[d].row.rev # 0
               PROVE  <<sets[d].row.pkg, sets[d].row.rev>> \in grants'
    BY <1>4 DEF SnapshotHasGrant, Granted
  <2>1. sets[d] = snapshots[d]
    BY <1>4, <1>8
  <2>2. <<sets[d].row.pkg, sets[d].row.rev>> \in grants
    BY <2>1 DEF IInv, ReferenceHasGrant, SnapshotHasGrant, Granted
  <2>3. SnapshotReferences(sets, sets[d].row.pkg, sets[d].row.rev)
    BY DEF SnapshotReferences
  <2> HIDE DEF rows, sets
  <2> QED BY <1>4, <2>2, <2>3, ReleaseKeeps
<1> QED BY <1>5, <1>7, <1>10, <1>11, <1>12 DEF IInv, ReferenceHasGrant

LEMMA DiscardInv ==
    ASSUME IInv, NEW c \in Cmd, NEW d \in Cmd, Discard(c, d)
    PROVE  IInv'
<1> DEFINE sets == [snapshots EXCEPT ![d] = None]
           old == snapshots[d].row
<1>1. /\ snapshots' = sets /\ Release(binding, sets, old.pkg, old.rev)
      /\ version' = version /\ default' = default /\ born' = born /\ binding' = binding
  BY DEF Discard
<1>2. /\ pc' \in [Cmd -> Label] /\ session' \in [Cmd -> SessionRecord]
      /\ IdleIsFresh' /\ ReadInBetween' /\ SessionsFit'
  BY AnswerStep DEF Discard, Goto
<1>3. Typed'
  <2>1. grants' \in SUBSET (Package \X Revision)
    BY <1>1, ReleaseTakes DEF IInv, Typed
  <2>2. snapshots' \in [Cmd -> SnapshotSet \cup {None}]
    BY <1>1 DEF IInv, Typed
  <2> QED BY <1>1, <1>2, <2>1, <2>2 DEF IInv, Typed
<1>4. \A e \in Cmd : snapshots'[e] = IF e = d THEN None ELSE snapshots[e]
  BY <1>1 DEF IInv, Typed
<1>5. PendingHasNoGrant'
  BY <1>1, <1>4 DEF IInv, PendingHasNoGrant
<1>6. ActiveHasGrant'
  <2> SUFFICES ASSUME NEW a \in Adapter, binding[a] # None, binding[a].state = "active",
                      ~binding[a].shared, binding[a].rev # 0
               PROVE  <<binding[a].pkg, binding[a].rev>> \in grants'
    BY <1>1 DEF ActiveHasGrant, Granted, Bound
  <2>1. <<binding[a].pkg, binding[a].rev>> \in grants
    BY DEF IInv, ReferenceHasGrant, ActiveHasGrant, Granted, Bound
  <2>2. ActivePackage(binding, binding[a].pkg)
    BY DEF ActivePackage
  <2> HIDE DEF sets
  <2> QED BY <1>1, <2>1, <2>2, ReleaseKeeps
<1>7. SnapshotHasGrant'
  <2> SUFFICES ASSUME NEW e \in Cmd, sets[e] # None, ~sets[e].row.shared, sets[e].row.rev # 0
               PROVE  <<sets[e].row.pkg, sets[e].row.rev>> \in grants'
    BY <1>1 DEF SnapshotHasGrant, Granted
  <2>1. sets[e] = snapshots[e]
    BY <1>1, <1>4
  <2>2. <<sets[e].row.pkg, sets[e].row.rev>> \in grants
    BY <2>1 DEF IInv, ReferenceHasGrant, SnapshotHasGrant, Granted
  <2>3. SnapshotReferences(sets, sets[e].row.pkg, sets[e].row.rev)
    BY DEF SnapshotReferences
  <2> HIDE DEF sets
  <2> QED BY <1>1, <2>2, <2>3, ReleaseKeeps
<1> QED BY <1>2, <1>3, <1>5, <1>6, <1>7 DEF IInv, ReferenceHasGrant

\* A save only moves rows.
LEMMA SaveInv ==
    ASSUME IInv, NEW c \in Cmd, NEW a \in Adapter, Save(c, a)
    PROVE  IInv'
<1>1. /\ version' = c /\ pc[c] = "idle" /\ default' = a /\ default \in Adapter
      /\ grants' = grants /\ snapshots' = snapshots /\ born' = born /\ session' = session
      /\ pc' = [pc EXCEPT ![c] = "ok"]
  BY DEF IInv, Typed, Save, Goto
<1>2. /\ pc' \in [Cmd -> Label] /\ session' \in [Cmd -> SessionRecord]
      /\ IdleIsFresh' /\ ReadInBetween' /\ SessionsFit'
  BY <1>1, AnswerStep
<1>3. /\ binding' = [b \in Adapter |-> binding'[b]]
      /\ \A b \in Adapter : binding'[b] \in {binding[b], binding[default], None}
  <2>1. binding \in [Adapter -> Row \cup {None}]
    BY DEF IInv, Typed
  <2> QED BY <1>1, <2>1 DEF Save
<1>4. Typed'
  <2>1. binding' \in [Adapter -> Row \cup {None}]
    BY <1>1, <1>3 DEF IInv, Typed
  <2> QED BY <1>1, <1>2, <2>1 DEF IInv, Typed
<1>5. PendingHasNoGrant'
  BY <1>1, <1>3 DEF IInv, PendingHasNoGrant
<1>6. ReferenceHasGrant'
  BY <1>1, <1>3 DEF IInv, ReferenceHasGrant, ActiveHasGrant, SnapshotHasGrant, Granted, Bound
<1> QED BY <1>2, <1>4, <1>5, <1>6 DEF IInv

\* After an import every row is pending, and what a snapshot refers to has been kept.
LEMMA ImportInv ==
    ASSUME IInv, NEW c \in Cmd, NEW a \in Adapter, NEW required \in Requirements,
           Import(c, required, a)
    PROVE  IInv'
<1> DEFINE rows == [b \in Adapter |->
                       IF b \in DOMAIN required
                       THEN [pkg |-> required[b], rev |-> 0, state |-> "pending", stamp |-> c,
                             shared |-> FALSE]
                       ELSE None]
           At(b) == [d \in Adapter |-> IF d > b /\ d \notin DOMAIN required THEN binding[d] ELSE rows[d]]
           loose == {b \in Bound : Loose(At(b), snapshots, binding[b].pkg, binding[b].rev)}
           Grant(b) == <<binding[b].pkg, binding[b].rev>>
           gone == {Grant(b) : b \in loose}
<1>1. /\ binding' = rows /\ grants' = grants \ gone
      /\ version' = c /\ pc[c] = "idle" /\ default' = a
      /\ snapshots' = snapshots /\ born' = born /\ session' = session
      /\ pc' = [pc EXCEPT ![c] = "ok"]
  BY DEF Import, Goto
<1>2. /\ pc' \in [Cmd -> Label] /\ session' \in [Cmd -> SessionRecord]
      /\ IdleIsFresh' /\ ReadInBetween' /\ SessionsFit'
  BY <1>1, AnswerStep
<1>3. \A b \in DOMAIN required : required[b] \in Package
  BY DEF Requirements
<1>4. rows \in [Adapter -> Row \cup {None}]
  BY <1>3 DEF Row
<1>5. \A b \in Adapter : rows[b] # None => rows[b].state = "pending" /\ rows[b].rev = 0
  OBVIOUS
<1> HIDE DEF rows
<1>6. Typed'
  BY <1>1, <1>2, <1>4 DEF IInv, Typed
<1>7. PendingHasNoGrant'
  BY <1>1, <1>5 DEF IInv, PendingHasNoGrant
<1>8. ActiveHasGrant'
  BY <1>1, <1>5 DEF ActiveHasGrant, Bound, Granted
<1>9. SnapshotHasGrant'
  <2> SUFFICES ASSUME NEW e \in Cmd, snapshots[e] # None, ~snapshots[e].row.shared,
                      snapshots[e].row.rev # 0,
                      <<snapshots[e].row.pkg, snapshots[e].row.rev>> \in gone
               PROVE  FALSE
    BY <1>1 DEF IInv, ReferenceHasGrant, SnapshotHasGrant, Granted
  <2>1. PICK b \in loose : <<snapshots[e].row.pkg, snapshots[e].row.rev>> = Grant(b)
    OBVIOUS
  <2>2. ~SnapshotReferences(snapshots, binding[b].pkg, binding[b].rev)
    BY DEF Loose
  <2> QED BY <2>1, <2>2 DEF SnapshotReferences
<1> QED BY <1>2, <1>6, <1>7, <1>8, <1>9 DEF IInv, ReferenceHasGrant

LEMMA ActivateInv ==
    ASSUME IInv, NEW c \in Cmd, Activate(c)
    PROVE  IInv'
<1> DEFINE s == session[c]
           row == [pkg |-> s.pkg, rev |-> s.rev, state |-> "active", stamp |-> c,
                   shared |-> FALSE]
<1>1. s.adapter \in Adapter /\ s.pkg \in Package /\ s.rev \in Revision
  BY DEF IInv, SessionsFit, Activate, Fits
<1>2. /\ binding' = [binding EXCEPT ![s.adapter] = row]
      /\ grants' = grants \cup {<<s.pkg, s.rev>>}
      /\ version' = version /\ default' = default /\ snapshots' = snapshots /\ born' = born
  BY DEF Activate
<1>3. /\ pc' \in [Cmd -> Label] /\ session' \in [Cmd -> SessionRecord]
      /\ IdleIsFresh' /\ ReadInBetween' /\ SessionsFit'
  BY AnswerStep DEF Activate, Goto
<1>4. row \in Row
  BY <1>1 DEF Row
<1>5. Typed'
  <2>1. grants' \in SUBSET (Package \X Revision)
    BY <1>1, <1>2 DEF IInv, Typed
  <2>2. binding' \in [Adapter -> Row \cup {None}]
    BY <1>1, <1>2, <1>4 DEF IInv, Typed
  <2> QED BY <1>2, <1>3, <2>1, <2>2 DEF IInv, Typed
<1>6. \A a \in Adapter : binding'[a] = IF a = s.adapter THEN row ELSE binding[a]
  BY <1>1, <1>2 DEF IInv, Typed
<1>7. PendingHasNoGrant'
  BY <1>2, <1>6 DEF IInv, PendingHasNoGrant
<1>8. ReferenceHasGrant'
  BY <1>2, <1>6 DEF IInv, ReferenceHasGrant, ActiveHasGrant, SnapshotHasGrant, Granted, Bound
<1> QED BY <1>3, <1>5, <1>7, <1>8 DEF IInv

-----------------------------------------------------------------------------
(* The theorems. *)

LEMMA InitInv == ASSUME Init PROVE IInv
<1>1. version = None /\ grants = {} /\ default \in Adapter
      /\ snapshots = [c \in Cmd |-> None] /\ born = <<>>
      /\ session = [c \in Cmd |-> NoSession] /\ pc = [c \in Cmd |-> "idle"]
  BY DEF Init
<1>2. /\ binding \in [Adapter -> Row \cup {None}]
      /\ \A a \in Adapter : binding[a] # None => binding[a].state = "pending" /\ binding[a].rev = 0
  <2>1. CASE binding = [a \in Adapter |-> None]
    BY <2>1
  <2>2. CASE \E p \in Package :
                binding = [a \in Adapter |->
                              IF a = default
                              THEN [pkg |-> p, rev |-> 0, state |-> "pending", stamp |-> None,
                                    shared |-> FALSE]
                              ELSE None]
    BY <2>2 DEF Row
  <2> QED BY <2>1, <2>2 DEF Init
<1>3. Typed
  BY <1>1, <1>2, Nulls DEF Typed, Label
<1>4. PendingHasNoGrant /\ ReferenceHasGrant
  BY <1>1, <1>2 DEF PendingHasNoGrant, ReferenceHasGrant, ActiveHasGrant, SnapshotHasGrant, Bound,
                    Granted
<1>5. IdleIsFresh /\ ReadInBetween /\ SessionsFit
  BY <1>1, Nulls DEF IdleIsFresh, ReadInBetween, SessionsFit, Fits, NoSession
<1> QED BY <1>3, <1>4, <1>5 DEF IInv

LEMMA NextInv == ASSUME IInv, [Next]_vars PROVE IInv'
<1>1. CASE UNCHANGED vars
  <2> USE <1>1 DEF vars, tables
  <2>1. Typed'
    BY DEF IInv, Typed
  <2>2. PendingHasNoGrant' /\ ReferenceHasGrant'
    BY DEF IInv, PendingHasNoGrant, ReferenceHasGrant, ActiveHasGrant, SnapshotHasGrant, Bound, Granted
  <2>3. IdleIsFresh' /\ ReadInBetween' /\ SessionsFit'
    BY DEF IInv, IdleIsFresh, ReadInBetween, SessionsFit, Fits
  <2> QED BY <2>1, <2>2, <2>3 DEF IInv
<1>2. ASSUME NEW c \in Cmd, Step(c) PROVE IInv'
  BY <1>2, ProbeAliasInv, ReviseInv, AttachInv, RollbackInv, RefuseInv, RevisePendingInv,
     ActivateInv DEF Step
<1>3. ASSUME NEW c \in Cmd, NEW a \in Adapter,
             \/ \E p \in Package : PreviewAttach(c, a, p)
             \/ Detach(c, a) \/ Save(c, a) \/ ReadPending(c, a)
             \/ \E required \in Requirements : Import(c, required, a)
             \/ \E d \in Cmd : PreviewRollback(c, a, d)
      PROVE  IInv'
  BY <1>3, PreviewAttachInv, DetachInv, SaveInv, ReadPendingInv, ImportInv, PreviewRollbackInv
<1>4. ASSUME NEW c \in Cmd, NEW d \in Cmd, Discard(c, d) PROVE IInv'
  BY <1>4, DiscardInv
<1> QED BY <1>1, <1>2, <1>3, <1>4 DEF Next, Operation

LEMMA Invariance == Spec => []IInv
BY InitInv, NextInv, PTL DEF Spec

\* Rows, grants, snapshots and sessions keep their form, whatever runs at the same time
\* (services/runtime_providers.rs).
THEOREM TypeCorrect == Spec => []TypeOK
<1>1. Init => overtaken \in SUBSET Cmd
  BY DEF Init
<1>2. overtaken \in SUBSET Cmd /\ [Next]_vars => (overtaken \in SUBSET Cmd)'
  BY DEF Next, Overtake, vars
<1>3. IInv /\ overtaken \in SUBSET Cmd => TypeOK
  BY DEF IInv, Typed, TypeOK, SnapshotSet, SessionRecord, Label
<1> QED BY <1>1, <1>2, <1>3, Invariance, PTL DEF Spec

\* No grant is released while an active binding that got it, or a rollback snapshot, still
\* refers to it: attaches, detaches, rollbacks, discards, saves, imports and activations of any
\* number of commands (release_grant_after_removal, runtime_providers.rs:1274).
THEOREM ReferencesKeepGrants == Spec => []ReferenceHasGrant
<1>1. IInv => ReferenceHasGrant
  BY DEF IInv
<1> QED BY <1>1, Invariance, PTL

\* Which steps leave a snapshot, and of what.
LEMMA SnapshotStep ==
    ASSUME IInv, [Next]_vars, NEW c \in Cmd, snapshots[c] = None, snapshots'[c] # None
    PROVE  snapshots'[c].row = (IF binding[snapshots'[c].adapter] = None THEN Absent
                                ELSE binding[snapshots'[c].adapter])
<1>1. snapshots' # snapshots
  OBVIOUS
<1>2. PICK d \in Cmd : \/ Attach(d) \/ Rollback(d)
                       \/ \E a \in Adapter : Detach(d, a)
                       \/ \E e \in Cmd : Discard(d, e)
  <2>1. ~UNCHANGED vars
    BY <1>1 DEF vars, tables
  <2>2. \A d \in Cmd : ~(ProbeAlias(d) \/ Revise(d) \/ Refuse(d) \/ RevisePending(d) \/ Activate(d))
    BY <1>1 DEF tables, ProbeAlias, Revise, Refuse, RevisePending, Activate
  <2>3. \A d \in Cmd, a \in Adapter :
           /\ ~Save(d, a) /\ ~ReadPending(d, a)
           /\ \A p \in Package : ~PreviewAttach(d, a, p)
           /\ \A e \in Cmd : ~PreviewRollback(d, a, e)
    BY <1>1 DEF tables, Save, ReadPending, PreviewAttach, PreviewRollback
  <2>4. \A d \in Cmd, a \in Adapter : \A required \in Requirements : ~Import(d, required, a)
    BY <1>1 DEF Import
  <2> QED BY <2>1, <2>2, <2>3, <2>4 DEF Next, Operation, Step
<1>3. snapshots \in [Cmd -> SnapshotSet \cup {None}]
  BY DEF IInv, Typed
<1>4. CASE Attach(d)
  BY <1>3, <1>4 DEF Attach
<1>5. CASE \E a \in Adapter : Detach(d, a)
  BY <1>3, <1>5 DEF Detach, Bound
<1>6. CASE Rollback(d)
  BY <1>3, <1>6 DEF Rollback
<1>7. CASE \E e \in Cmd : Discard(d, e)
  BY <1>3, <1>7 DEF Discard
<1> QED BY <1>2, <1>4, <1>5, <1>6, <1>7

\* Only an attach and a rollback leave their labels with success.
LEMMA AppliedStep ==
    ASSUME IInv, [Next]_vars, NEW c \in Cmd, pc[c] \in {"attach", "rollback"}, pc'[c] = "ok"
    PROVE  Attach(c) \/ Rollback(c)
<1>1. pc \in [Cmd -> Label]
  BY DEF IInv, Typed
<1>2. ~UNCHANGED vars
  BY DEF vars
<1>3. \A d \in Cmd : ~(ProbeAlias(d) \/ Revise(d) \/ Refuse(d) \/ RevisePending(d) \/ Activate(d))
  BY <1>1 DEF Goto, ProbeAlias, Revise, Refuse, RevisePending, Activate
<1>4. \A d \in Cmd, a \in Adapter :
         /\ ~ReadPending(d, a)
         /\ \A p \in Package : ~PreviewAttach(d, a, p)
         /\ \A e \in Cmd : ~PreviewRollback(d, a, e)
  BY <1>1 DEF Goto, ReadPending, PreviewAttach, PreviewRollback
<1>5. \A d \in Cmd, a \in Adapter : ~Detach(d, a) /\ ~Save(d, a)
  BY <1>1 DEF Goto, Detach, Save
<1>6. \A d \in Cmd, a \in Adapter : \A required \in Requirements : ~Import(d, required, a)
  BY <1>1 DEF Goto, Import
<1>7. \A d, e \in Cmd : ~Discard(d, e)
  BY <1>1 DEF Goto, Discard
<1>8. \A d \in Cmd : Attach(d) \/ Rollback(d) => d = c
  BY <1>1 DEF Goto, Attach, Rollback
<1> QED BY <1>2, <1>3, <1>4, <1>5, <1>6, <1>7, <1>8 DEF Next, Operation, Step

-----------------------------------------------------------------------------
(* Overtaken previews.  Every write of the provider or of a row is stamped by its command, and a *)
(* command writes once: what a preview has seen never comes back after it was replaced.          *)

Old(c) == c = None \/ pc[c] = "ok"

\* Whatever is stored, or was seen by a preview, bears the stamp of a command that is done.
StampsAreOld ==
    /\ Old(version)
    /\ \A a \in Adapter : binding[a] # None => Old(binding[a].stamp)
    /\ \A c \in Cmd : snapshots[c] # None => pc[c] = "ok"
    /\ \A c \in Cmd :
          /\ Old(session[c].seen)
          /\ session[c].source # None => Old(session[c].source.stamp)

\* An overtaken preview differs from what is stored.
OvertakenShows ==
    \A c \in overtaken :
        /\ c \in Cmd /\ pc[c] \in Previewing
        /\ \/ version # session[c].seen
           \/ session[c].source # None /\ binding[session[c].adapter] # session[c].source

\* Until it is overtaken, a rollback goes to the newest snapshot there is, or to a discarded one.
RollbackFits ==
    \A c \in Cmd : pc[c] = "rollback" /\ c \notin overtaken =>
        LET s == session[c] IN
        /\ s.adapter \in Adapter /\ s.source # None
        /\ s.set \in Cmd /\ pc[s.set] = "ok"
        /\ snapshots[s.set] = None \/ Newest(s.set, s.adapter)

PreviewInv == StampsAreOld /\ OvertakenShows /\ RollbackFits

\* What an operation of d writes.
Writes(d) ==
    /\ pc[d] \notin {"ok", "error"}
    /\ \A c \in Cmd \ {d} : pc'[c] = pc[c] /\ session'[c] = session[c]
    /\ version' = version \/ (version' = d /\ pc'[d] = "ok")
    /\ \A a \in Adapter :
          \/ binding'[a] = binding[a]
          \/ binding'[a] = None
          \/ binding'[a] # None /\ binding'[a].stamp = d /\ pc'[d] = "ok"
          \/ version' = d /\ \E b \in Adapter : binding'[a] = binding[b]
    /\ born' = born \/ born' = Append(born, d)
    /\ \A c \in Cmd :
          \/ snapshots'[c] = snapshots[c]
          \/ snapshots'[c] = None
          \/ /\ c = d /\ pc'[d] = "ok"
             /\ \A a \in Adapter : snapshots'[d].adapter = a =>
                   \/ binding[a] # None /\ binding'[a] = None
                   \/ binding'[a] # None /\ binding'[a].stamp = d

\* What an operation of d leaves d with.
Sees(d) ==
    /\ session'[d].seen \in {version, session[d].seen, None}
    /\ \/ session'[d].source \in {session[d].source, None}
       \/ session'[d].adapter \in Adapter /\ session'[d].source = binding[session'[d].adapter]
    /\ pc[d] \in Previewing /\ pc'[d] \in Previewing =>
          /\ UNCHANGED tables
          /\ session'[d].adapter = session[d].adapter /\ session'[d].seen = session[d].seen
          /\ session'[d].source = session[d].source
    /\ pc'[d] = "rollback" =>
          /\ pc[d] = "idle" /\ UNCHANGED <<tables, born>>
          /\ session'[d].adapter \in Adapter /\ session'[d].source # None
          /\ session'[d].set \in Cmd /\ Newest(session'[d].set, session'[d].adapter)

\* A step of a preview writes nothing.
LEMMA ReadingStep ==
    ASSUME IInv, NEW d \in Cmd,
           \/ ProbeAlias(d) \/ Revise(d) \/ Refuse(d) \/ RevisePending(d)
           \/ \E a \in Adapter : \/ \E p \in Package : PreviewAttach(d, a, p)
                                 \/ ReadPending(d, a)
                                 \/ \E e \in Cmd : PreviewRollback(d, a, e)
    PROVE  Writes(d) /\ Sees(d)
<1> USE DEF Previewing
<1>1. pc \in [Cmd -> Label] /\ session \in [Cmd -> SessionRecord]
  BY DEF IInv, Typed
<1>2. ASSUME NEW l, NEW s, UNCHANGED tables, born' \in {born, Append(born, d)},
             pc' = [pc EXCEPT ![d] = l], session' = [session EXCEPT ![d] = s],
             pc[d] \notin {"ok", "error"}
      PROVE  Writes(d) /\ pc'[d] = l /\ session'[d] = s
  <2>1. /\ version' = version /\ binding' = binding /\ snapshots' = snapshots
        /\ pc'[d] = l /\ session'[d] = s
        /\ \A c \in Cmd \ {d} : pc'[c] = pc[c] /\ session'[c] = session[c]
    BY <1>1, <1>2 DEF tables
  <2>2. pc[d] \notin {"ok", "error"} /\ (born' = born \/ born' = Append(born, d))
    BY <1>2
  <2> QED BY <2>1, <2>2 DEF Writes
<1>3. CASE ProbeAlias(d)
  <2> DEFINE old == session[d]
             s == [adapter |-> old.adapter, pkg |-> old.pkg, rev |-> 0,
                   reuse |-> ActivePackage(binding, old.pkg), seen |-> old.seen,
                   base |-> None, source |-> old.source, set |-> None]
  <2>1. /\ pc[d] = "probe" /\ pc' = [pc EXCEPT ![d] = "revise"] /\ UNCHANGED <<tables, born>>
        /\ session' = [session EXCEPT ![d] = s]
    BY <1>3 DEF ProbeAlias, Goto
  <2>2. Writes(d) /\ pc'[d] = "revise" /\ session'[d] = s
    BY <1>2, <2>1
  <2> QED BY <2>1, <2>2 DEF Sees
<1>4. CASE Revise(d)
  <2> DEFINE old == session[d]
             s(r) == [adapter |-> old.adapter, pkg |-> old.pkg, rev |-> r, reuse |-> old.reuse,
                      seen |-> old.seen, base |-> version, source |-> old.source, set |-> None]
  <2>1. /\ pc[d] = "revise" /\ pc' = [pc EXCEPT ![d] = "attach"] /\ UNCHANGED <<tables, born>>
        /\ \E r : session' = [session EXCEPT ![d] = s(r)]
    BY <1>4 DEF Revise, Goto
  <2>2. PICK r : session' = [session EXCEPT ![d] = s(r)]
    BY <2>1
  <2>3. Writes(d) /\ pc'[d] = "attach" /\ session'[d] = s(r)
    BY <1>2, <2>1, <2>2
  <2> QED BY <2>1, <2>3 DEF Sees
<1>5. CASE Refuse(d)
  <2>1. /\ pc[d] \notin {"ok", "error"} /\ pc' = [pc EXCEPT ![d] = "error"]
        /\ UNCHANGED <<tables, born>> /\ session' = [session EXCEPT ![d] = NoSession]
    BY <1>5 DEF Refuse, Goto
  <2>2. Writes(d) /\ pc'[d] = "error" /\ session'[d] = NoSession
    BY <1>2, <2>1
  <2> QED BY <2>2 DEF Sees, NoSession
<1>6. CASE RevisePending(d)
  <2> DEFINE old == session[d]
             s == [adapter |-> old.adapter, pkg |-> old.pkg, rev |-> NextRevision(old.pkg),
                   reuse |-> FALSE, seen |-> None, base |-> old.base, source |-> old.source,
                   set |-> None]
  <2>1. /\ pc[d] = "activate" /\ pc' = [pc EXCEPT ![d] = "commit"] /\ UNCHANGED <<tables, born>>
        /\ session' = [session EXCEPT ![d] = s]
    BY <1>6 DEF RevisePending, Goto
  <2>2. Writes(d) /\ pc'[d] = "commit" /\ session'[d] = s
    BY <1>2, <2>1
  <2> QED BY <2>1, <2>2 DEF Sees
<1>7. ASSUME NEW a \in Adapter, NEW p \in Package, PreviewAttach(d, a, p)
      PROVE  Writes(d) /\ Sees(d)
  <2> DEFINE s == [adapter |-> a, pkg |-> p, rev |-> 0, reuse |-> FALSE, seen |-> version,
                   base |-> None, source |-> binding[a], set |-> None]
  <2>1. /\ pc[d] = "idle" /\ pc' = [pc EXCEPT ![d] = "probe"] /\ UNCHANGED tables
        /\ born' = Append(born, d) /\ session' = [session EXCEPT ![d] = s]
    BY <1>7 DEF PreviewAttach, Goto
  <2>2. Writes(d) /\ pc'[d] = "probe" /\ session'[d] = s
    BY <1>2, <2>1
  <2> QED BY <2>1, <2>2 DEF Sees
<1>8. ASSUME NEW a \in Adapter, ReadPending(d, a) PROVE Writes(d) /\ Sees(d)
  <2> DEFINE s == [adapter |-> a, pkg |-> binding[a].pkg, rev |-> 0, reuse |-> FALSE, seen |-> None,
                   base |-> version, source |-> binding[a], set |-> None]
  <2>1. /\ pc[d] = "idle" /\ pc' = [pc EXCEPT ![d] = "activate"] /\ UNCHANGED <<tables, born>>
        /\ session' = [session EXCEPT ![d] = s]
    BY <1>8 DEF ReadPending, Goto
  <2>2. Writes(d) /\ pc'[d] = "activate" /\ session'[d] = s
    BY <1>2, <2>1
  <2> QED BY <2>1, <2>2 DEF Sees
<1>9. ASSUME NEW a \in Adapter, NEW e \in Cmd, PreviewRollback(d, a, e)
      PROVE  Writes(d) /\ Sees(d)
  <2> DEFINE s == [adapter |-> a, pkg |-> None, rev |-> 0, reuse |-> FALSE, seen |-> version,
                   base |-> None, source |-> binding[a], set |-> e]
  <2>1. /\ pc[d] = "idle" /\ pc' = [pc EXCEPT ![d] = "rollback"] /\ UNCHANGED <<tables, born>>
        /\ session' = [session EXCEPT ![d] = s]
        /\ binding[a] # None /\ Newest(e, a)
    BY <1>9 DEF PreviewRollback, Goto, Bound
  <2>2. Writes(d) /\ pc'[d] = "rollback" /\ session'[d] = s
    BY <1>2, <2>1
  <2> QED BY <2>1, <2>2 DEF Sees
<1> QED BY <1>3, <1>4, <1>5, <1>6, <1>7, <1>8, <1>9

\* A transaction writes with the stamp of its command, and moves rows only with the version.
LEMMA WritingStep ==
    ASSUME IInv, NEW d \in Cmd,
           \/ Attach(d) \/ Rollback(d) \/ Activate(d)
           \/ \E a \in Adapter : \/ Detach(d, a) \/ Save(d, a)
                                 \/ \E required \in Requirements : Import(d, required, a)
           \/ \E e \in Cmd : Discard(d, e)
    PROVE  Writes(d) /\ Sees(d)
<1> USE DEF Previewing
<1>1. /\ pc \in [Cmd -> Label] /\ session \in [Cmd -> SessionRecord]
      /\ binding \in [Adapter -> Row \cup {None}] /\ snapshots \in [Cmd -> SnapshotSet \cup {None}]
      /\ default \in Adapter
      /\ Fits(pc[d], session[d])
  BY DEF IInv, Typed, SessionsFit
<1>2. CASE Attach(d)
  <2>1. /\ session[d].adapter \in Adapter /\ session[d].pkg \in Package
        /\ session[d] \in SessionRecord
        /\ ~session[d].reuse => session[d].rev \in Revision
    BY <1>1, <1>2 DEF Attach, Fits
  <2>2. [pkg |-> session[d].pkg, rev |-> session[d].rev, state |-> "active", stamp |-> d,
         shared |-> session[d].reuse] \in Row
    BY <2>1 DEF Row, SessionRecord
  <2>3. Writes(d)
    BY <1>1, <1>2, <2>1, <2>2, Nulls DEF Attach, Goto, Writes
  <2>4. Sees(d)
    BY <1>1, <1>2 DEF Attach, Goto, Sees, NoSession
  <2> QED BY <2>3, <2>4
<1>3. CASE Rollback(d)
  <2>1. session[d].adapter \in Adapter /\ session[d].set \in Cmd
    BY <1>1, <1>3 DEF Rollback, Fits
  <2>2. snapshots[session[d].set].row \in Row \cup {Absent}
    BY <1>1, <1>3, <2>1 DEF Rollback, SnapshotSet
  <2>3. LET old == snapshots[session[d].set].row IN
        old # Absent => Restored(d, old) \in Row /\ Restored(d, old).stamp = d
    BY <2>2 DEF Restored, Row
  <2>4. Restored(d, snapshots[session[d].set].row) = None
        \/ /\ Restored(d, snapshots[session[d].set].row) # None
           /\ Restored(d, snapshots[session[d].set].row).stamp = d
    BY <2>2, <2>3, Nulls DEF Restored
  <2> HIDE DEF Restored
  <2>5. Writes(d)
    BY <1>1, <1>3, <2>1, <2>4 DEF Rollback, Goto, Writes
  <2>6. Sees(d)
    BY <1>1, <1>3 DEF Rollback, Goto, Sees, NoSession
  <2> QED BY <2>5, <2>6
<1>4. CASE Activate(d)
  <2>1. session[d].adapter \in Adapter /\ session[d].pkg \in Package /\ session[d].rev \in Revision
    BY <1>1, <1>4 DEF Activate, Fits
  <2>2. [pkg |-> session[d].pkg, rev |-> session[d].rev, state |-> "active", stamp |-> d,
         shared |-> FALSE] \in Row
    BY <2>1 DEF Row
  <2>3. Writes(d)
    BY <1>1, <1>4, <2>1, <2>2, Nulls DEF Activate, Goto, Writes
  <2>4. Sees(d)
    BY <1>1, <1>4 DEF Activate, Goto, Sees, NoSession
  <2> QED BY <2>3, <2>4
<1>5. ASSUME NEW a \in Adapter, Detach(d, a) PROVE Writes(d) /\ Sees(d)
  BY <1>1, <1>5 DEF Detach, Goto, Writes, Sees, Bound
<1>6. ASSUME NEW a \in Adapter, Save(d, a) PROVE Writes(d) /\ Sees(d)
  BY <1>1, <1>6 DEF Save, Goto, Writes, Sees
<1>7. ASSUME NEW a \in Adapter, NEW required \in Requirements, Import(d, required, a)
      PROVE  Writes(d) /\ Sees(d)
  <2>1. /\ pc[d] = "idle" /\ pc' = [pc EXCEPT ![d] = "ok"] /\ session' = session
        /\ version' = d /\ born' = born /\ snapshots' = snapshots
        /\ binding' = [b \in Adapter |->
                          IF b \in DOMAIN required
                          THEN [pkg |-> required[b], rev |-> 0, state |-> "pending", stamp |-> d,
                                shared |-> FALSE]
                          ELSE None]
    BY <1>7 DEF Import, Goto
  <2>2. \A b \in DOMAIN required :
           [pkg |-> required[b], rev |-> 0, state |-> "pending", stamp |-> d, shared |-> FALSE] \in Row
    BY DEF Requirements, Row
  <2>3. Writes(d)
    BY <1>1, <2>1, <2>2, Nulls DEF Writes
  <2> QED BY <1>1, <2>1, <2>3 DEF Sees
<1>8. ASSUME NEW e \in Cmd, Discard(d, e) PROVE Writes(d) /\ Sees(d)
  BY <1>1, <1>8 DEF Discard, Goto, Writes, Sees
<1> QED BY <1>2, <1>3, <1>4, <1>5, <1>6, <1>7, <1>8

LEMMA StampsStayOld ==
    ASSUME IInv, StampsAreOld, NEW d \in Cmd, Writes(d), Sees(d)
    PROVE  StampsAreOld'
<1>1. \A c \in Cmd : pc[c] = "ok" => pc'[c] = "ok"
  BY DEF Writes
<1>2. version' = None \/ pc'[version'] = "ok"
  BY <1>1, Nulls DEF StampsAreOld, Old, Writes, IInv, Typed
<1>3. \A a \in Adapter : binding'[a] # None =>
         binding'[a].stamp = None \/ pc'[binding'[a].stamp] = "ok"
  <2> SUFFICES ASSUME NEW a \in Adapter, binding'[a] # None
               PROVE  binding'[a].stamp = None \/ pc'[binding'[a].stamp] = "ok"
    BY DEF Old
  <2>1. CASE \E b \in Adapter : binding'[a] = binding[b]
    <3>1. PICK b \in Adapter : binding'[a] = binding[b]
      BY <2>1
    <3>2. Old(binding[b].stamp) /\ binding[b].stamp \in Cmd \cup {None}
      BY <3>1 DEF StampsAreOld, IInv, Typed, Row
    <3> QED BY <1>1, <3>1, <3>2 DEF Old
  <2>2. CASE binding'[a].stamp = d /\ pc'[d] = "ok"
    BY <2>2
  <2> QED BY <2>1, <2>2 DEF Writes
<1>4. \A c \in Cmd : snapshots'[c] # None => pc'[c] = "ok"
  BY <1>1 DEF StampsAreOld, Writes
<1>5. \A c \in Cmd :
         /\ session'[c].seen = None \/ pc'[session'[c].seen] = "ok"
         /\ session'[c].source # None =>
               session'[c].source.stamp = None \/ pc'[session'[c].source.stamp] = "ok"
  <2>1. \A c \in Cmd :
           /\ session[c].seen = None \/ (session[c].seen \in Cmd /\ pc'[session[c].seen] = "ok")
           /\ session[c].source # None =>
                 \/ session[c].source.stamp = None
                 \/ session[c].source.stamp \in Cmd /\ pc'[session[c].source.stamp] = "ok"
    <3>1. \A c \in Cmd : /\ session[c].seen \in Cmd \cup {None}
                         /\ session[c].source # None => session[c].source.stamp \in Cmd \cup {None}
      BY DEF IInv, Typed, SessionRecord, Row
    <3> QED BY <1>1, <3>1 DEF StampsAreOld, Old
  <2>2. /\ version = None \/ pc'[version] = "ok"
        /\ \A a \in Adapter : binding[a] # None =>
              binding[a].stamp = None \/ pc'[binding[a].stamp] = "ok"
    <3>1. /\ version \in Cmd \cup {None}
          /\ \A a \in Adapter : binding[a] # None => binding[a].stamp \in Cmd \cup {None}
      BY DEF IInv, Typed, Row
    <3>2. Old(version) /\ \A a \in Adapter : binding[a] # None => Old(binding[a].stamp)
      BY DEF StampsAreOld
    <3> QED BY <1>1, <3>1, <3>2 DEF Old
  <2> SUFFICES ASSUME NEW c \in Cmd
               PROVE  /\ session'[c].seen = None \/ pc'[session'[c].seen] = "ok"
                      /\ session'[c].source # None =>
                            \/ session'[c].source.stamp = None
                            \/ pc'[session'[c].source.stamp] = "ok"
    BY DEF Old
  <2>3. CASE c # d
    BY <2>1, <2>3 DEF Writes
  <2>4. CASE c = d
    BY <2>1, <2>2, <2>4 DEF Sees
  <2> QED BY <2>3, <2>4
<1> QED BY <1>2, <1>3, <1>4, <1>5 DEF StampsAreOld, Old

\* What was replaced does not come back.
LEMMA Replaced ==
    ASSUME IInv, StampsAreOld, NEW d \in Cmd, Writes(d), NEW c \in Cmd
    PROVE  /\ version' # version => version' # session[c].seen
           /\ \A a \in Adapter :
                 /\ version' = version /\ session[c].source # None /\ binding'[a] # binding[a]
                 => binding'[a] # session[c].source
<1>1. /\ ~Old(d)
      /\ Old(session[c].seen) /\ (session[c].source # None => Old(session[c].source.stamp))
      /\ Old(version)
  BY Nulls DEF StampsAreOld, Old, Writes
<1> QED BY <1>1 DEF Writes

LEMMA OvertakenStay ==
    ASSUME IInv, StampsAreOld, OvertakenShows, NEW d \in Cmd, Writes(d), Sees(d), Overtake
    PROVE  OvertakenShows'
<1> SUFFICES ASSUME NEW c \in overtaken'
             PROVE  /\ c \in Cmd /\ pc'[c] \in Previewing
                    /\ \/ version' # session'[c].seen
                       \/ session'[c].source # None /\ binding'[session'[c].adapter] # session'[c].source
  BY DEF OvertakenShows
<1>1. /\ c \in Cmd /\ pc[c] \in Previewing /\ pc'[c] \in Previewing
      /\ \/ c \in overtaken
         \/ version' # version
         \/ session[c].source # None /\ binding'[session[c].adapter] # binding[session[c].adapter]
  BY DEF Overtake
<1>2. /\ session'[c].seen = session[c].seen /\ session'[c].source = session[c].source
      /\ session'[c].adapter = session[c].adapter
  BY <1>1 DEF Writes, Sees
<1>3. session[c].adapter \in Adapter
  BY <1>1 DEF IInv, SessionsFit, Fits, Previewing
<1>4. CASE version' # version
  BY <1>1, <1>2, <1>4, Replaced
<1>5. CASE version' = version /\ session[c].source # None
           /\ binding'[session[c].adapter] # binding[session[c].adapter]
  BY <1>1, <1>2, <1>3, <1>5, Replaced
<1>6. CASE /\ c \in overtaken /\ version' = version
           /\ session[c].source # None => binding'[session[c].adapter] = binding[session[c].adapter]
  BY <1>1, <1>2, <1>6 DEF OvertakenShows
<1> QED BY <1>1, <1>4, <1>5, <1>6

LEMMA RollbackStaysFit ==
    ASSUME IInv, StampsAreOld, RollbackFits, NEW d \in Cmd, Writes(d), Sees(d), Overtake
    PROVE  RollbackFits'
<1> SUFFICES ASSUME NEW c \in Cmd, pc'[c] = "rollback", c \notin overtaken'
             PROVE  (/\ session[c].adapter \in Adapter /\ session[c].source # None
                     /\ session[c].set \in Cmd /\ pc[session[c].set] = "ok"
                     /\ \/ snapshots[session[c].set] = None
                        \/ Newest(session[c].set, session[c].adapter))'
  BY DEF RollbackFits
<1>0. \A e \in Cmd : pc[e] = "ok" => pc'[e] = "ok"
  BY DEF Writes
<1>1. CASE c = d
  <2>1. UNCHANGED <<tables, born>> /\ Newest(session'[d].set, session'[d].adapter)
        /\ session'[d].adapter \in Adapter /\ session'[d].source # None /\ session'[d].set \in Cmd
    BY <1>1 DEF Sees
  <2>2. pc[session'[d].set] = "ok"
    BY <2>1 DEF Newest, StampsAreOld
  <2>3. Newest(session[d].set, session[d].adapter)'
    BY <2>1 DEF Newest, tables
  <2> QED BY <1>0, <1>1, <2>1, <2>2, <2>3
<1>2. CASE c # d
  <2> DEFINE s == session[c]
  <2>1. session'[c] = s /\ pc[c] = "rollback"
    BY <1>2 DEF Writes
  <2>2. /\ c \notin overtaken /\ version' = version
        /\ s.source # None => binding'[s.adapter] = binding[s.adapter]
    BY <2>1 DEF Overtake, Previewing
  <2>3. /\ s.adapter \in Adapter /\ s.source # None
        /\ s.set \in Cmd /\ pc[s.set] = "ok"
        /\ snapshots[s.set] = None \/ Newest(s.set, s.adapter)
    BY <2>1, <2>2 DEF RollbackFits
  <2>4. ~Old(d) /\ snapshots[d] = None /\ s.set # d
    BY <2>3, Nulls DEF StampsAreOld, Old, Writes
  <2>5. binding'[s.adapter] # None => Old(binding'[s.adapter].stamp)
    BY <2>2, <2>3 DEF StampsAreOld
  <2>6. \A e \in Cmd : snapshots'[e] # None /\ (snapshots'[e].adapter = s.adapter \/ e = s.set)
                       => snapshots'[e] = snapshots[e] /\ e # d
    <3> SUFFICES ASSUME NEW e \in Cmd, snapshots'[e] # None, snapshots'[e] # snapshots[e],
                        snapshots'[e].adapter = s.adapter \/ e = s.set
                 PROVE  FALSE
      BY <2>4
    <3>1. /\ e = d
          /\ \A a \in Adapter : snapshots'[d].adapter = a =>
                   \/ binding[a] # None /\ binding'[a] = None
                   \/ binding'[a] # None /\ binding'[a].stamp = d
      BY DEF Writes
    <3> QED BY <2>2, <2>3, <2>4, <2>5, <3>1
  <2>7. ASSUME snapshots'[s.set] # None PROVE Newest(session[c].set, session[c].adapter)'
    <3>1. snapshots'[s.set] = snapshots[s.set] /\ Newest(s.set, s.adapter)
      BY <2>3, <2>6, <2>7
    <3>2. born \in Seq(Cmd) /\ (born' = born \/ born' = Append(born, d))
      BY DEF Writes, IInv, Typed
    <3> SUFFICES ASSUME NEW i \in DOMAIN born', NEW j \in DOMAIN born',
                        born'[i] = s.set, i < j, snapshots'[born'[j]] # None,
                        snapshots'[born'[j]].adapter = s.adapter
                 PROVE  FALSE
      BY <2>1, <2>3, <3>1 DEF Newest
    <3>3. /\ DOMAIN born = 1 .. Len(born) /\ Len(born) \in Nat
          /\ \A k \in DOMAIN born : born'[k] = born[k] /\ born[k] \in Cmd
          /\ DOMAIN born' \subseteq 1 .. Len(born) + 1
          /\ \A k \in DOMAIN born' : k \notin DOMAIN born => born'[k] = d
      <4>1. CASE born' = born
        BY <3>2, <4>1
      <4>2. CASE born' = Append(born, d)
        BY <3>2, <4>2
      <4> QED BY <3>2, <4>1, <4>2
    <3>4. born'[j] \in Cmd /\ born'[j] # d /\ snapshots'[born'[j]] = snapshots[born'[j]]
      BY <2>6, <3>3
    <3>5. j \in DOMAIN born /\ i \in DOMAIN born
      BY <2>4, <3>3, <3>4
    <3> QED BY <3>1, <3>3, <3>4, <3>5 DEF Newest
  <2> QED BY <1>0, <2>1, <2>3, <2>7
<1> QED BY <1>1, <1>2

LEMMA PreviewStays == ASSUME IInv, PreviewInv, [Next]_vars PROVE PreviewInv'
<1>1. CASE UNCHANGED vars
  BY <1>1 DEF vars, tables, PreviewInv, StampsAreOld, Old, OvertakenShows, RollbackFits, Newest
<1>2. CASE Next
  <2>1. PICK d \in Cmd : Writes(d) /\ Sees(d)
    BY <1>2, ReadingStep, WritingStep DEF Next, Operation, Step
  <2> QED BY <1>2, <2>1, StampsStayOld, OvertakenStay, RollbackStaysFit DEF Next, PreviewInv
<1> QED BY <1>1, <1>2

LEMMA PreviewInvariance == Spec => []PreviewInv
<1>1. Init => PreviewInv
  BY Nulls DEF Init, PreviewInv, StampsAreOld, Old, OvertakenShows, RollbackFits, NoSession
<1> QED BY <1>1, PreviewStays, Invariance, PTL DEF Spec

\* Nothing of an overtaken preview takes effect: an attach, of whatever grant, and a rollback are
\* applied only if neither the provider was written nor the row replaced since the preview, a
\* rollback goes to the newest snapshot, what is kept is the row that is replaced, and a new
\* grant is of the connection the provider has (apply_interface_attach and
\* apply_interface_rollback, runtime_providers.rs:640-655, 896-906).
THEOREM NothingOvertakenApplies == Spec => PreviewIsCurrent
<1>1. IInv /\ [Next]_vars =>
         [\A c \in Cmd :
             snapshots[c] = None /\ snapshots'[c] # None =>
                 snapshots'[c].row = (IF binding[snapshots'[c].adapter] = None THEN Absent
                                      ELSE binding[snapshots'[c].adapter])]_vars
  BY SnapshotStep
<1>2. IInv /\ [Next]_vars =>
         [\A c \in Cmd : pc[c] = "attach" /\ pc'[c] = "ok" /\ ~session[c].reuse
                         => session[c].base = version]_vars
  BY AppliedStep DEF Attach, Rollback, IInv, ReadInBetween
<1>3. IInv /\ PreviewInv /\ [Next]_vars =>
         [\A c \in Cmd :
             pc[c] \in {"attach", "rollback"} /\ pc'[c] = "ok" =>
                 /\ c \notin overtaken
                 /\ session[c].source = None => binding[session[c].adapter] = None]_vars
  BY AppliedStep DEF Attach, Rollback, PreviewInv, OvertakenShows
<1>4. IInv /\ PreviewInv /\ [Next]_vars =>
         [\A c \in Cmd : pc[c] = "rollback" /\ pc'[c] = "ok"
                         => Newest(session[c].set, session[c].adapter)]_vars
  BY AppliedStep DEF Attach, Rollback, PreviewInv, OvertakenShows, RollbackFits
<1> QED BY <1>1, <1>2, <1>3, <1>4, Invariance, PreviewInvariance, PTL
        DEF Spec, PreviewIsCurrent, SnapshotIsWhatItReplaced, GrantIsForThisConnection,
            NothingOvertaken, RollbackIsOfTheNewest
=============================================================================
