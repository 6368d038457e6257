------------------------- MODULE ImportPreviewsProofs -------------------------
(***************************************************************************)
(* Proofs about ImportPreviews: type correctness, the accounting of the    *)
(* store, that claims are exclusive and no longer than their imports, and  *)
(* that no import overwrites a save made after its preview.  The eviction  *)
(* is a recursion over the order of the store, and the size of sessions a  *)
(* cardinality, so both come with lemmas of their own.                     *)
(***************************************************************************)
EXTENDS ImportPreviews, FiniteSetTheorems, TLAPS

-----------------------------------------------------------------------------
(* Orders without some of their elements.  The prover has no induction     *)
(* scheme it could instantiate, so what holds at every step of Without's   *)
(* recursion is shown by a least number at which it would not.             *)

LEMMA NatMin ==
    ASSUME NEW T \in SUBSET Nat, T # {}
    PROVE  \E n \in T : \A m \in T : n <= m
  <1>1. PICK n \in T : \A m \in T : ~ (<<m, n>> \in OpToRel(<, Nat))
    BY NatLessThanWellFounded, WFMin
  <1>2. \A m \in T : ~ (m < n)
    BY <1>1 DEF OpToRel
  <1> QED
    BY <1>2

\* What is left of the first elements of an order, for each number of them.
IsLeft(left, n, s, gone) ==
    left = [k \in 0 .. n |->
              IF k = 0 THEN <<>>
              ELSE IF s[k] \in gone THEN left[k - 1]
              ELSE Append(left[k - 1], s[k])]

\* Without is well defined.
LEMMA LeftExists ==
    ASSUME NEW s, NEW gone, NEW m \in Nat
    PROVE  \E left : IsLeft(left, m, s, gone)
  <1> DEFINE T == {n \in Nat : ~ \E left : IsLeft(left, n, s, gone)}
  <1> SUFFICES T = {}
    OBVIOUS
  <1> SUFFICES ASSUME T # {} PROVE FALSE
    OBVIOUS
  <1>1. PICK n \in T : \A k \in T : n <= k
    BY NatMin
  <1>2. n # 0
    <2>1. IsLeft([k \in 0 .. 0 |-> <<>>], 0, s, gone)
      BY DEF IsLeft
    <2> QED
      BY <1>1, <2>1
  <1>3. n \in Nat /\ n - 1 \in Nat /\ n - 1 \notin T
    BY <1>1, <1>2
  <1>4. PICK f : IsLeft(f, n - 1, s, gone)
    BY <1>3
  <1> DEFINE g == [k \in 0 .. n |->
                     IF k < n THEN f[k]
                     ELSE IF s[n] \in gone THEN f[n - 1] ELSE Append(f[n - 1], s[n])]
  <1>5. \A k \in 0 .. n - 1 : g[k] = f[k]
    BY <1>1
  <1>6. \A k \in 0 .. n : g[k] = IF k = 0 THEN <<>>
                                 ELSE IF s[k] \in gone THEN g[k - 1]
                                 ELSE Append(g[k - 1], s[k])
    <2> SUFFICES ASSUME NEW k \in 0 .. n
                 PROVE  g[k] = IF k = 0 THEN <<>>
                               ELSE IF s[k] \in gone THEN g[k - 1] ELSE Append(g[k - 1], s[k])
      OBVIOUS
    <2>1. CASE k < n
      <3> HIDE DEF T
      <3>0. k \in 0 .. n - 1
        BY <1>3, <2>1
      <3>1. f[k] = IF k = 0 THEN <<>>
                   ELSE IF s[k] \in gone THEN f[k - 1] ELSE Append(f[k - 1], s[k])
        BY <1>4, <3>0 DEF IsLeft
      <3>2. k # 0 => g[k - 1] = f[k - 1]
        <4>1. k # 0 => k - 1 \in 0 .. n - 1
          BY <1>3, <3>0
        <4> HIDE DEF g
        <4> QED
          BY <1>5, <4>1
      <3>3. g[k] = f[k]
        BY <1>5, <3>0
      <3> HIDE DEF g
      <3> QED
        BY <3>1, <3>2, <3>3
    <2>2. CASE k = n
      <3>1. g[k - 1] = f[k - 1]
        BY <1>1, <1>2, <1>5, <2>2
      <3> QED
        BY <1>1, <1>2, <2>2, <3>1
    <2> QED
      BY <1>1, <2>1, <2>2
  <1>7. g = [k \in 0 .. n |-> IF k = 0 THEN <<>>
                              ELSE IF s[k] \in gone THEN g[k - 1]
                              ELSE Append(g[k - 1], s[k])]
    <2>1. g = [k \in 0 .. n |-> g[k]]
      OBVIOUS
    <2> HIDE DEF g
    <2> QED
      BY <1>6, <2>1
  <1>8. IsLeft(g, n, s, gone)
    BY <1>7 DEF IsLeft
  <1> QED
    BY <1>1, <1>8

LEMMA WithoutIsLeft ==
    ASSUME NEW s, NEW gone, Len(s) \in Nat
    PROVE  \E left : IsLeft(left, Len(s), s, gone) /\ Without(s, gone) = left[Len(s)]
  <1> DEFINE left == CHOOSE f : IsLeft(f, Len(s), s, gone)
  <1>1. IsLeft(left, Len(s), s, gone)
    BY LeftExists
  <1>2. Without(s, gone) = left[Len(s)]
    BY DEF Without, IsLeft
  <1> QED
    BY <1>1, <1>2

\* What is left is what has not gone, once each if it was there once each.
LEMMA WithoutIs ==
    ASSUME NEW S, NEW s \in Seq(S), NEW gone
    PROVE  /\ Without(s, gone) \in Seq(S)
           /\ ToSet(Without(s, gone)) = ToSet(s) \ gone
           /\ IsInjective(s) => IsInjective(Without(s, gone))
  <1>1. Len(s) \in Nat /\ DOMAIN s = 1 .. Len(s)
    OBVIOUS
  <1>2. PICK left : IsLeft(left, Len(s), s, gone) /\ Without(s, gone) = left[Len(s)]
    BY <1>1, WithoutIsLeft
  <1> DEFINE Good(n) == /\ left[n] \in Seq(S)
                        /\ ToSet(left[n]) = {s[k] : k \in 1 .. n} \ gone
                        /\ IsInjective(s) => IsInjective(left[n])
             T == {n \in Nat : n <= Len(s) /\ ~Good(n)}
  <1>3. \A n \in 0 .. Len(s) :
           left[n] = IF n = 0 THEN <<>>
                     ELSE IF s[n] \in gone THEN left[n - 1] ELSE Append(left[n - 1], s[n])
    BY <1>2 DEF IsLeft
  <1>4. Good(0)
    <2>1. left[0] = <<>>
      BY <1>1, <1>3
    <2> QED
      BY <2>1 DEF ToSet, IsInjective
  <1>5. ASSUME NEW n \in 1 .. Len(s), Good(n - 1) PROVE Good(n)
    <2> DEFINE t == left[n - 1]
    <2>1. t \in Seq(S) /\ s[n] \in S /\ n \in 0 .. Len(s) /\ n # 0
      BY <1>1, <1>5
    <2>2. {s[k] : k \in 1 .. n} = {s[k] : k \in 1 .. n - 1} \cup {s[n]}
      BY <1>1
    <2>3. CASE s[n] \in gone
      <3>1. left[n] = t
        BY <1>3, <2>1, <2>3
      <3> QED
        BY <1>5, <2>2, <2>3, <3>1
    <2>4. CASE s[n] \notin gone
      <3>1. left[n] = Append(t, s[n])
        BY <1>3, <2>1, <2>4
      <3> HIDE DEF t
      <3>2. /\ Append(t, s[n]) \in Seq(S)
            /\ DOMAIN Append(t, s[n]) = 1 .. Len(t) + 1
            /\ DOMAIN t = 1 .. Len(t)
            /\ Len(t) \in Nat
            /\ \A k \in 1 .. Len(t) : Append(t, s[n])[k] = t[k]
            /\ Append(t, s[n])[Len(t) + 1] = s[n]
        BY <2>1
      <3>3. ToSet(Append(t, s[n])) = ToSet(t) \cup {s[n]}
        <4>1. ToSet(Append(t, s[n])) = {Append(t, s[n])[k] : k \in 1 .. Len(t) + 1}
          BY <3>2 DEF ToSet
        <4>2. 1 .. Len(t) + 1 = (1 .. Len(t)) \cup {Len(t) + 1}
          BY <3>2
        <4>3. {Append(t, s[n])[k] : k \in 1 .. Len(t) + 1} =
                {t[k] : k \in 1 .. Len(t)} \cup {s[n]}
          BY <3>2, <4>2
        <4> QED
          BY <3>2, <4>1, <4>3 DEF ToSet
      <3>4. ASSUME IsInjective(s) PROVE IsInjective(Append(t, s[n]))
        <4>1. IsInjective(t)
          BY <1>5, <3>4 DEF t
        <4>2. s[n] \notin {s[k] : k \in 1 .. n - 1}
          BY <1>1, <3>4 DEF IsInjective
        <4>3. s[n] \notin ToSet(t)
          BY <1>5, <4>2 DEF t
        <4>4. \A k \in 1 .. Len(t) : t[k] # s[n]
          BY <3>2, <4>3 DEF ToSet
        <4> QED
          BY <3>2, <4>1, <4>4 DEF IsInjective
      <3>5. ToSet(t) = {s[k] : k \in 1 .. n - 1} \ gone
        BY <1>5 DEF t
      <3> QED
        BY <2>2, <2>4, <3>1, <3>2, <3>3, <3>4, <3>5
    <2> QED
      BY <2>3, <2>4
  <1>6. T = {}
    <2> SUFFICES ASSUME T # {} PROVE FALSE
      OBVIOUS
    <2> HIDE DEF Good
    <2>1. PICK n \in T : \A k \in T : n <= k
      BY NatMin
    <2>2. n \in 1 .. Len(s)
      BY <1>1, <1>4, <2>1
    <2>3. Good(n - 1)
      <3>1. n - 1 \in Nat /\ n - 1 <= Len(s) /\ ~(n <= n - 1)
        BY <1>1, <2>2
      <3> QED
        BY <2>1, <3>1
    <2> QED
      BY <1>5, <2>1, <2>2, <2>3
  <1>7. Good(Len(s))
    <2> HIDE DEF Good
    <2> QED
      BY <1>1, <1>6
  <1>8. {s[k] : k \in 1 .. Len(s)} = ToSet(s)
    BY <1>1 DEF ToSet
  <1> QED
    BY <1>2, <1>7, <1>8

-----------------------------------------------------------------------------
(* The bytes of sessions. *)

LEMMA ContentFinite ==
    ASSUME NEW ps, IsFiniteSet(ps)
    PROVE  IsFiniteSet(Content(ps))
  <1>1. IsFiniteSet(1 .. Budget)
    BY PreviewAssumption, FS_Interval
  <1>2. IsFiniteSet(ps \X (1 .. Budget))
    BY <1>1, FS_Product
  <1>3. Content(ps) \in SUBSET (ps \X (1 .. Budget))
    BY DEF Content
  <1> QED
    BY <1>2, <1>3, FS_Subset

LEMMA SizeType ==
    ASSUME NEW ps, IsFiniteSet(ps)
    PROVE  Size(ps) \in Nat
  BY ContentFinite, FS_CardinalityType DEF Size

\* Sessions that leave take their bytes with them.
LEMMA SizeOfRest ==
    ASSUME NEW ps, IsFiniteSet(ps), NEW gone \in SUBSET ps
    PROVE  /\ Size(ps \ gone) = Size(ps) - Size(gone)
           /\ Size(gone) <= Size(ps)
  <1>1. Content(ps \ gone) = Content(ps) \ Content(gone)
    BY DEF Content
  <1>2. Content(ps) \cap Content(gone) = Content(gone) /\ Content(gone) \in SUBSET Content(ps)
    BY DEF Content
  <1>3. IsFiniteSet(Content(ps))
    BY ContentFinite
  <1>4. Cardinality(Content(gone)) <= Cardinality(Content(ps))
    BY <1>2, <1>3, FS_Subset
  <1> QED
    BY <1>1, <1>2, <1>3, <1>4, FS_Difference DEF Size

\* The size of one session is that of its document.
LEMMA SizeOfOne ==
    ASSUME NEW p, plan[p].doc \in Doc
    PROVE  Size({p}) = Bytes[plan[p].doc]
  <1> DEFINE n == Bytes[plan[p].doc]
  <1>1. n \in 1 .. Budget /\ Budget \in Nat
    BY PreviewAssumption
  <1>2. Content({p}) = {p} \X (1 .. n)
    <2>1. ASSUME NEW b PROVE b \in Content({p}) <=> b \in {p} \X (1 .. n)
      BY <1>1 DEF Content
    <2> QED
      BY <2>1
  <1> HIDE DEF n
  <1>3. IsFiniteSet(1 .. n) /\ Cardinality(1 .. n) = n
    <2>1. 1 \in Int /\ n \in Int /\ ~(1 > n) /\ n - 1 + 1 = n
      BY <1>1
    <2> QED
      BY <2>1, FS_Interval
  <1>4. IsFiniteSet({p}) /\ Cardinality({p}) = 1
    BY FS_Singleton
  <1>5. Cardinality({p} \X (1 .. n)) = 1 * n
    BY <1>3, <1>4, FS_Product
  <1>6. Size({p}) = 1 * n
    BY <1>2, <1>5 DEF Size
  <1>7. 1 * n = n
    BY <1>1
  <1> QED
    BY <1>6, <1>7 DEF n

\* A new session adds the size of its document.
LEMMA SizeOfMore ==
    ASSUME NEW ps, IsFiniteSet(ps), NEW p, p \notin ps, plan[p].doc \in Doc
    PROVE  Size(ps \cup {p}) = Size(ps) + Bytes[plan[p].doc]
  <1>1. Content(ps \cup {p}) = Content(ps) \cup Content({p})
    BY DEF Content
  <1>2. Content(ps) \cap Content({p}) = {}
    BY DEF Content
  <1>3. IsFiniteSet(Content(ps)) /\ IsFiniteSet(Content({p}))
    BY ContentFinite, FS_Singleton
  <1>4. Cardinality(Content(ps \cup {p})) =
           Cardinality(Content(ps)) + Cardinality(Content({p})) - 0
    <2>1. Cardinality(Content(ps) \cap Content({p})) = 0
      BY <1>2, FS_EmptySet
    <2> QED
      BY <1>1, <1>3, <2>1, FS_Union
  <1>5. Cardinality(Content({p})) = Bytes[plan[p].doc]
    BY SizeOfOne DEF Size
  <1>6. Cardinality(Content(ps)) \in Nat /\ Bytes[plan[p].doc] \in Nat
    BY <1>3, FS_CardinalityType, PreviewAssumption
  <1> QED
    BY <1>4, <1>5, <1>6 DEF Size

-----------------------------------------------------------------------------
(* The inductive invariant. *)

Plan == [doc : Doc, base : [Row -> Command \cup {None}]]

\* A preview has its plan before its session, and its session once.
Previewing ==
    \A p \in Previewer :
        /\ pc[p] \in {"idle", "insert", "ok", "refused"}
        /\ pc[p] # "idle" => plan[p] \in Plan
        /\ p \in sessions => pc[p] = "ok"

\* A session that has been claimed is never there to be claimed again.
Claiming ==
    \A i \in Importer :
        /\ pc[i] = "idle" => claimed[i] = None
        /\ pc[i] \in {"apply", "consume"} => claimed[i] # None
        /\ claimed[i] # None => pc[claimed[i]] = "ok" /\ claimed[i] \notin Live \ inFlight

PInv == TypeOK /\ Previewing /\ Claiming /\ Accounted /\ ClaimIsExclusive

\* What the steps need of the types.
LEMMA Typed ==
    ASSUME PInv
    PROVE  /\ IsFiniteSet(sessions) /\ Size(sessions) \in Nat /\ Budget \in Nat
           /\ \A p \in Previewer : pc[p] # "idle" => plan[p].doc \in Doc
  <1> USE PreviewAssumption
  <1>1. IsFiniteSet(sessions)
    BY FS_Subset DEF PInv, TypeOK
  <1> QED
    BY <1>1, SizeType DEF PInv, Previewing, Plan

LEMMA PreviewInit == Init => PInv
  <1> SUFFICES ASSUME Init PROVE PInv
    OBVIOUS
  <1> USE PreviewAssumption DEF Init
  <1>1. TypeOK
    BY DEF TypeOK
  <1>2. Previewing /\ Claiming
    BY DEF Previewing, Claiming, Command
  <1>3. Accounted
    <2>1. Content({}) = {}
      BY DEF Content
    <2>2. ToSet(order) = {} /\ IsInjective(order)
      BY DEF ToSet, IsInjective
    <2>3. Size(sessions) = 0 /\ Cardinality(sessions) = 0
      BY <2>1, FS_EmptySet DEF Size
    <2> QED
      BY <2>2, <2>3 DEF Accounted
  <1>4. ClaimIsExclusive
    BY DEF ClaimIsExclusive, ClaimedOnce, ClaimedStays, Command
  <1> QED
    BY <1>1, <1>2, <1>3, <1>4 DEF PInv

\* Whatever sessions leave the store, its fields go on agreeing.
LEMMA AccountedDrop ==
    ASSUME PInv, NEW ps \in SUBSET Previewer, Drop(ps), UNCHANGED plan
    PROVE  /\ Accounted'
           /\ order' \in Seq(Previewer)
           /\ total' \in 0 .. Budget
  <1> DEFINE gone == ps \cap sessions
  <1>1. /\ IsFiniteSet(sessions) /\ Size(sessions) \in Nat /\ Budget \in Nat
        /\ order \in Seq(Previewer)
        /\ ToSet(order) = sessions /\ IsInjective(order)
        /\ total = Size(sessions) /\ total <= Budget
        /\ Cardinality(sessions) <= MaxSessions /\ MaxSessions \in Nat
    BY Typed, PreviewAssumption DEF PInv, Accounted, TypeOK
  <1>2. /\ order' \in Seq(Previewer)
        /\ ToSet(order)' = sessions'
        /\ IsInjective(order)'
    BY <1>1, WithoutIs DEF Drop
  <1>3. sessions' = sessions \ gone /\ gone \in SUBSET sessions
    BY DEF Drop
  <1>4. /\ Size(sessions \ gone) = Size(sessions) - Size(gone)
        /\ Size(gone) <= Size(sessions) /\ Size(gone) \in Nat
    BY <1>1, <1>3, SizeOfRest, SizeType, FS_Subset
  <1>5. Size(sessions)' = Size(sessions \ gone)
    BY <1>3 DEF Size, Content
  <1>6. total' = Size(sessions)'
    BY <1>1, <1>4, <1>5 DEF Drop, Leaves
  <1>7. total' \in 0 .. Budget
    BY <1>1, <1>4, <1>5, <1>6
  <1>8. Cardinality(sessions') <= MaxSessions
    <2>1. Cardinality(sessions') <= Cardinality(sessions) /\ IsFiniteSet(sessions')
      BY <1>1, <1>3, FS_Subset
    <2> QED
      BY <1>1, <2>1, FS_CardinalityType
  <1> QED
    BY <1>2, <1>6, <1>7, <1>8 DEF Accounted

-----------------------------------------------------------------------------
(* Each step keeps the invariant. *)

\* What ClaimIsExclusive says besides the types.
LEMMA Exclusive ==
    ASSUME PInv, NEW i \in Importer
    PROVE  /\ claimed[i] \in Previewer \cup {None}
           /\ \A j \in Importer : i # j /\ claimed[i] = claimed[j] => claimed[i] = None
           /\ pc[i] \in {"apply", "consume"} => claimed[i] \in inFlight \cup expired
  BY DEF PInv, TypeOK, ClaimIsExclusive, ClaimedOnce, ClaimedStays

LEMMA SafePreview ==
    ASSUME PInv, NEW p \in Previewer, NEW d \in Doc, Preview(p, d)
    PROVE  PInv'
  <1> USE PreviewAssumption
  <1>1. TypeOK'
    BY DEF Preview, Goto, store, PInv, TypeOK, Command
  <1>2. Previewing'
    BY DEF Preview, Goto, store, PInv, TypeOK, Previewing, Plan, Command
  <1>3. Claiming'
    BY DEF Preview, Goto, store, PInv, TypeOK, Claiming, Live, Command
  <1>4. Accounted'
    <2>1. p \notin sessions
      BY DEF Preview, PInv, Previewing
    <2>2. \A q \in sessions : plan'[q] = plan[q]
      BY <2>1 DEF Preview, PInv, TypeOK
    <2>3. Content(sessions)' = Content(sessions)
      BY <2>2 DEF Preview, store, Content
    <2> QED
      BY <2>3 DEF Preview, store, PInv, Accounted, Size
  <1>5. ClaimIsExclusive'
    BY DEF Preview, Goto, store, PInv, TypeOK, ClaimIsExclusive, ClaimedOnce, ClaimedStays, Command
  <1> QED
    BY <1>1, <1>2, <1>3, <1>4, <1>5 DEF PInv

LEMMA SafeExpire ==
    ASSUME PInv, NEW p \in Previewer, Expire(p)
    PROVE  PInv'
  <1>1. TypeOK'
    BY DEF Expire, store, PInv, TypeOK
  <1>2. Previewing'
    BY DEF Expire, store, PInv, Previewing
  <1>3. Claiming'
    BY DEF Expire, store, PInv, Claiming, Live
  <1>4. Accounted'
    BY DEF Expire, store, PInv, Accounted, Size, Content
  <1>5. ClaimIsExclusive'
    BY DEF Expire, store, PInv, ClaimIsExclusive, ClaimedOnce, ClaimedStays
  <1> QED
    BY <1>1, <1>2, <1>3, <1>4, <1>5 DEF PInv

\* Steps that touch neither the store nor the plans.
LEMMA AccountedQuiet ==
    ASSUME PInv, UNCHANGED <<store, plan>>
    PROVE  Accounted'
  BY DEF store, PInv, Accounted, Size, Content

LEMMA SafeApply ==
    ASSUME PInv, NEW i \in Importer, Apply(i) \/ ApplyFails(i)
    PROVE  PInv'
  <1> USE PreviewAssumption
  <1>1. /\ UNCHANGED <<plan, expired, store, claimed>>
        /\ pc[i] = "apply" /\ pc' = [pc EXCEPT ![i] = "consume"]
    BY DEF Apply, ApplyFails, Goto
  <1>2. version' \in [Row -> Command \cup {None}]
    BY DEF Apply, ApplyFails, PInv, TypeOK, Command
  <1>3. TypeOK'
    BY <1>1, <1>2 DEF store, PInv, TypeOK, Command
  <1>4. Previewing'
    BY <1>1 DEF store, PInv, TypeOK, Previewing, Command
  <1>5. Claiming'
    BY <1>1 DEF store, PInv, TypeOK, Claiming, Live, Command
  <1>6. ClaimIsExclusive'
    BY <1>1 DEF store, PInv, TypeOK, ClaimIsExclusive, ClaimedOnce, ClaimedStays, Command
  <1> QED
    BY <1>1, <1>3, <1>4, <1>5, <1>6, AccountedQuiet DEF PInv

LEMMA SafeChange ==
    ASSUME PInv, NEW w \in Writer, NEW r \in Row, Change(w, r)
    PROVE  PInv'
  <1> USE PreviewAssumption
  <1>1. /\ UNCHANGED <<plan, expired, store, claimed>>
        /\ pc' = [pc EXCEPT ![w] = "ok"]
    BY DEF Change, Goto
  <1>2. version' \in [Row -> Command \cup {None}]
    BY DEF Change, PInv, TypeOK, Command
  <1>3. TypeOK'
    BY <1>1, <1>2 DEF store, PInv, TypeOK, Command
  <1>4. Previewing'
    BY <1>1 DEF store, PInv, TypeOK, Previewing, Command
  <1>5. Claiming'
    BY <1>1 DEF store, PInv, TypeOK, Claiming, Live, Command
  <1>6. ClaimIsExclusive'
    BY <1>1 DEF store, PInv, TypeOK, ClaimIsExclusive, ClaimedOnce, ClaimedStays, Command
  <1> QED
    BY <1>1, <1>3, <1>4, <1>5, <1>6, AccountedQuiet DEF PInv

\* Steps by which sessions leave the store.
LEMMA SafeDrop ==
    ASSUME PInv, NEW i \in Importer, NEW ps \in SUBSET Previewer,
           Drop(ps), UNCHANGED <<version, plan, expired>>,
           inFlight' \subseteq sessions',
           \A p \in ps : p \notin inFlight',
           \A p \in inFlight : p \in inFlight' \cup ps,
           claimed' \in [Importer -> Previewer \cup {None}],
           pc' \in [Command -> {"idle", "insert", "apply", "consume", "ok", "refused"}],
           \A p \in Previewer : pc'[p] = pc[p],
           \A j \in Importer \ {i} : pc'[j] = pc[j] /\ claimed'[j] = claimed[j],
           \A j \in Importer \ {i} :
              pc[j] \in {"apply", "consume"} => claimed[j] \in inFlight' \cup expired,
           pc'[i] # "idle",
           pc'[i] \in {"apply", "consume"} => claimed'[i] \in inFlight' \ {None},
           claimed'[i] # None =>
              /\ pc[claimed'[i]] = "ok"
              /\ claimed'[i] \notin Live' \ inFlight'
              /\ \A j \in Importer \ {i} : claimed[j] # claimed'[i]
    PROVE  PInv'
  <1> USE PreviewAssumption
  <1>1. Accounted' /\ order' \in Seq(Previewer) /\ total' \in 0 .. Budget
    BY AccountedDrop
  <1>2. sessions' = sessions \ ps
    BY DEF Drop
  <1>3. TypeOK'
    BY <1>1, <1>2 DEF PInv, TypeOK
  <1>4. Previewing'
    BY <1>2 DEF PInv, Previewing
  <1>5. Claiming'
    <2> SUFFICES ASSUME NEW j \in Importer
                 PROVE  /\ pc'[j] = "idle" => claimed'[j] = None
                        /\ pc'[j] \in {"apply", "consume"} => claimed'[j] # None
                        /\ claimed'[j] # None =>
                              pc'[claimed'[j]] = "ok" /\ claimed'[j] \notin Live' \ inFlight'
      BY DEF Claiming
    <2>1. claimed'[j] # None => claimed'[j] \in Previewer
      OBVIOUS
    <2>2. CASE j = i
      BY <2>1, <2>2
    <2>3. CASE j # i
      BY <1>2, <2>1, <2>3 DEF PInv, Claiming, Live
    <2> QED
      BY <2>2, <2>3
  <1>6. ClaimIsExclusive'
    <2>1. ClaimedOnce'
      BY DEF PInv, ClaimIsExclusive, ClaimedOnce
    <2>2. ClaimedStays'
      BY DEF PInv, ClaimIsExclusive, ClaimedStays
    <2> QED
      BY <2>1, <2>2 DEF ClaimIsExclusive
  <1> QED
    BY <1>1, <1>3, <1>4, <1>5, <1>6 DEF PInv

LEMMA SafeClaim ==
    ASSUME PInv, NEW i \in Importer, NEW p \in Previewer, Claim(i, p)
    PROVE  PInv'
  <1> USE PreviewAssumption DEF Claim, ClaimOf, Goto
  <1>1. sessions' = sessions \ (sessions \cap expired) /\ p \in sessions' /\ p \notin inFlight
    BY DEF Drop, Live
  <1>2. inFlight' \subseteq sessions'
    BY <1>1 DEF PInv, TypeOK, Drop
  <1>3. pc' \in [Command -> {"idle", "insert", "apply", "consume", "ok", "refused"}]
    BY DEF PInv, TypeOK, Command
  <1>4. claimed' \in [Importer -> Previewer \cup {None}]
    BY DEF PInv, TypeOK
  <1>5. /\ pc'[i] = "apply" /\ claimed'[i] = p /\ p # None
        /\ \A q \in Previewer : pc'[q] = pc[q]
        /\ \A j \in Importer \ {i} : pc'[j] = pc[j] /\ claimed'[j] = claimed[j]
    BY DEF PInv, TypeOK, Command
  <1>6. \A j \in Importer : claimed[j] # p
    BY <1>1, <1>5 DEF PInv, Claiming
  <1>7. \A j \in Importer \ {i} :
           pc[j] \in {"apply", "consume"} => claimed[j] \in inFlight' \cup expired
    BY Exclusive
  <1>8. sessions \cap expired \in SUBSET Previewer
    BY DEF PInv, TypeOK
  <1>9. /\ \A q \in sessions \cap expired : q \notin inFlight'
        /\ \A q \in inFlight : q \in inFlight' \cup (sessions \cap expired)
    BY <1>1 DEF PInv, TypeOK, Live
  <1> HIDE DEF Goto
  <1>10. /\ Drop(sessions \cap expired) /\ UNCHANGED <<version, plan, expired>>
         /\ pc[p] = "ok" /\ p \in inFlight'
    OBVIOUS
  <1> HIDE DEF Claim, ClaimOf
  <1>11. \A j \in Importer \ {i} : claimed[j] # claimed'[i]
    BY <1>5, <1>6
  <1> QED
    BY <1>1, <1>2, <1>3, <1>4, <1>5, <1>6, <1>7, <1>8, <1>9, <1>10, <1>11, SafeDrop

LEMMA SafeClaimRefused ==
    ASSUME PInv, NEW i \in Importer, NEW p \in Previewer, ClaimRefused(i, p)
    PROVE  PInv'
  <1> USE PreviewAssumption
  <1>1. PICK ps \in SUBSET Previewer : Drop(ps) /\ inFlight' = inFlight \ ps /\ ps \subseteq expired
    <2>1. CASE p \in sessions \cap expired
      BY <2>1 DEF ClaimRefused
    <2>2. CASE p \notin sessions \cap expired
      <3>1. inFlight \ expired = inFlight \ (sessions \cap expired)
        BY DEF PInv, TypeOK
      <3> QED
        BY <2>2, <3>1 DEF ClaimRefused, PInv, TypeOK
    <2> QED
      BY <2>1, <2>2
  <1>2. UNCHANGED <<version, plan, expired, claimed>> /\ pc[i] = "idle"
    BY DEF ClaimRefused
  <1>3. /\ pc' \in [Command -> {"idle", "insert", "apply", "consume", "ok", "refused"}]
        /\ claimed' \in [Importer -> Previewer \cup {None}]
        /\ pc'[i] = "refused"
        /\ \A q \in Previewer : pc'[q] = pc[q]
        /\ \A j \in Importer \ {i} : pc'[j] = pc[j] /\ claimed'[j] = claimed[j]
    BY <1>2 DEF ClaimRefused, Goto, PInv, TypeOK, Command
  <1>4. inFlight' \subseteq sessions'
    BY <1>1 DEF PInv, TypeOK, Drop
  <1>5. claimed'[i] = None
    BY <1>2 DEF PInv, Claiming
  <1>6. \A j \in Importer \ {i} :
           pc[j] \in {"apply", "consume"} => claimed[j] \in inFlight' \cup expired
    BY <1>1, Exclusive
  <1> QED
    BY <1>1, <1>2, <1>3, <1>4, <1>5, <1>6, SafeDrop

LEMMA SafeConsume ==
    ASSUME PInv, NEW i \in Importer, Consume(i)
    PROVE  PInv'
  <1> USE PreviewAssumption
  <1>1. /\ Drop({claimed[i]}) /\ inFlight' = inFlight \ {claimed[i]}
        /\ UNCHANGED <<version, plan, expired, claimed>> /\ pc[i] = "consume"
    BY DEF Consume
  <1>2. claimed[i] # None /\ claimed[i] \in Previewer /\ pc[claimed[i]] = "ok"
    BY <1>1, Exclusive DEF PInv, Claiming
  <1>3. /\ pc' \in [Command -> {"idle", "insert", "apply", "consume", "ok", "refused"}]
        /\ claimed' \in [Importer -> Previewer \cup {None}]
        /\ pc'[i] = "ok"
        /\ \A q \in Previewer : pc'[q] = pc[q]
        /\ \A j \in Importer \ {i} : pc'[j] = pc[j] /\ claimed'[j] = claimed[j]
    BY <1>1 DEF Consume, Goto, PInv, TypeOK, Command
  <1>4. inFlight' \subseteq sessions' /\ claimed[i] \notin sessions'
    BY <1>1 DEF PInv, TypeOK, Drop
  <1>5. \A j \in Importer \ {i} : claimed[j] # claimed[i]
    BY <1>2, Exclusive
  <1>6. \A j \in Importer \ {i} :
           pc[j] \in {"apply", "consume"} => claimed[j] \in inFlight' \cup expired
    BY <1>1, <1>5, Exclusive
  <1>7. claimed[i] \notin Live' \ inFlight'
    BY <1>4 DEF Live
  <1> QED
    BY <1>1, <1>2, <1>3, <1>4, <1>5, <1>6, <1>7, SafeDrop

\* The sessions that an insertion removes: expired ones, and ready ones.
Removed(n) == (sessions \cap expired) \cup {Evictable[k] : k \in 1 .. n}

LEMMA EvictableIs ==
    ASSUME PInv
    PROVE  /\ Evictable \in Seq(Previewer)
           /\ ToSet(Evictable) = Live \ inFlight
           /\ \A n \in 0 .. Len(Evictable) :
                 /\ Removed(n) \subseteq sessions
                 /\ Removed(n) \cap inFlight \subseteq expired
  <1>1. /\ Evictable \in Seq(Previewer)
        /\ ToSet(Evictable) = ToSet(order) \ (Previewer \ (Live \ inFlight))
    BY WithoutIs DEF PInv, TypeOK, Evictable
  <1>2. ToSet(order) = sessions /\ sessions \subseteq Previewer
    BY DEF PInv, Accounted, TypeOK
  <1>3. ToSet(Evictable) = Live \ inFlight
    BY <1>1, <1>2 DEF Live
  <1>4. ASSUME NEW n \in 0 .. Len(Evictable), NEW k \in 1 .. n
        PROVE  Evictable[k] \in Live \ inFlight
    BY <1>1, <1>3 DEF ToSet
  <1> QED
    BY <1>1, <1>3, <1>4 DEF Removed, Live

LEMMA SafeInsert ==
    ASSUME PInv, NEW p \in Previewer, Insert(p)
    PROVE  PInv'
  <1> USE PreviewAssumption
  <1> DEFINE enough == {n \in 0 .. Len(Evictable) : Fits(Removed(n), p)}
             last == IF enough = {} THEN Len(Evictable) ELSE Min(enough)
             drop == Removed(last)
  <1>1. last \in 0 .. Len(Evictable) /\ (enough # {} => Fits(drop, p))
    <2>1. Len(Evictable) \in Nat
      BY EvictableIs
    <2>2. ASSUME enough # {} PROVE Min(enough) \in enough
      <3>1. enough \in SUBSET Nat
        BY <2>1
      <3>2. \E n \in enough : \A k \in enough : n <= k
        BY <2>2, <3>1, NatMin
      <3> QED
        BY <3>2 DEF Min
    <2> QED
      BY <2>1, <2>2
  <1>2. /\ pc[p] = "insert"
        /\ inFlight' = inFlight \ drop
        /\ UNCHANGED <<version, plan, expired, claimed>>
        /\ IF enough = {}
           THEN /\ sessions' = sessions \ drop
                /\ order' = Without(order, drop)
                /\ total' = total - Leaves(drop)
                /\ pc' = [pc EXCEPT ![p] = "refused"]
           ELSE /\ sessions' = (sessions \ drop) \cup {p}
                /\ order' = Append(Without(order, drop), p)
                /\ total' = total - Leaves(drop) + Bytes[plan[p].doc]
                /\ pc' = [pc EXCEPT ![p] = "ok"]
    BY DEF Insert, Goto, Removed
  <1>3. drop \subseteq sessions /\ drop \cap inFlight \subseteq expired
    BY <1>1, EvictableIs
  <1> HIDE DEF last, drop
  <1>4. p \notin sessions /\ plan[p].doc \in Doc /\ \A i \in Importer : claimed[i] # p
    BY <1>2, Typed DEF PInv, Previewing, Claiming
  <1>5. PICK outcome \in {"ok", "refused"} :
           /\ pc' = [pc EXCEPT ![p] = outcome]
           /\ sessions' \subseteq (sessions \ drop) \cup {p}
           /\ (sessions \ drop) \subseteq sessions'
           /\ p \in sessions' => outcome = "ok"
    <2> HIDE DEF enough
    <2>1. CASE enough = {}
      BY <1>2, <1>4, <2>1
    <2>2. CASE enough # {}
      BY <1>2, <2>2
    <2> QED
      BY <2>1, <2>2
  <1>6. /\ pc' \in [Command -> {"idle", "insert", "apply", "consume", "ok", "refused"}]
        /\ \A c \in Command : c # p => pc'[c] = pc[c]
        /\ pc'[p] = outcome
    BY <1>5 DEF PInv, TypeOK, Command
  <1>7. \A i \in Importer : pc'[i] = pc[i]
    BY <1>6 DEF Command
  <1>8. Accounted' /\ order' \in Seq(Previewer) /\ total' \in 0 .. Budget
    <2> DEFINE rest == sessions \ drop
               kept == Without(order, drop)
               bytes == Bytes[plan[p].doc]
    <2>1. /\ IsFiniteSet(sessions) /\ Budget \in Nat
          /\ order \in Seq(Previewer)
          /\ ToSet(order) = sessions /\ IsInjective(order)
          /\ total = Size(sessions) /\ total <= Budget
          /\ Cardinality(sessions) <= MaxSessions /\ MaxSessions \in Nat
      BY Typed DEF PInv, Accounted, TypeOK
    <2>2. kept \in Seq(Previewer) /\ ToSet(kept) = rest /\ IsInjective(kept)
      BY <2>1, WithoutIs
    <2>3. IsFiniteSet(rest) /\ Cardinality(rest) \in Nat /\ Cardinality(rest) <= MaxSessions
      <3>1. IsFiniteSet(rest) /\ Cardinality(rest) <= Cardinality(sessions)
        BY <2>1, FS_Subset
      <3> QED
        BY <2>1, <3>1, FS_CardinalityType
    <2>4. Size(rest) = total - Leaves(drop) /\ Size(rest) \in Nat /\ Size(rest) <= Budget
      <3>1. Size(rest) = Size(sessions) - Size(drop)
        BY <1>3, <2>1, SizeOfRest
      <3>2. Size(drop) \in Nat /\ Size(sessions) \in Nat /\ Size(rest) \in Nat
        BY <1>3, <2>1, <2>3, SizeType, FS_Subset
      <3> QED
        BY <2>1, <3>1, <3>2 DEF Leaves
    <2>5. Size(sessions)' = Size(sessions')
      BY <1>2 DEF Size, Content
    <2> HIDE DEF enough, kept, bytes
    <2>6. CASE enough = {}
      <3>1. sessions' = rest /\ order' = kept /\ total' = Size(rest)
        BY <1>2, <2>4, <2>6 DEF kept
      <3> HIDE DEF rest
      <3>2. Size(sessions)' = Size(rest)
        BY <2>5, <3>1
      <3> QED
        BY <2>1, <2>2, <2>3, <2>4, <3>1, <3>2 DEF Accounted
    <2>7. CASE enough # {}
      <3>1. sessions' = rest \cup {p} /\ order' = Append(kept, p) /\ total' = Size(rest) + bytes
        BY <1>2, <2>4, <2>7 DEF kept, bytes
      <3>2. Cardinality(rest) < MaxSessions /\ Size(rest) + bytes <= Budget
        BY <1>1, <2>4, <2>7 DEF Fits, bytes
      <3>3. p \notin rest
        BY <1>4
      <3> HIDE DEF rest
      <3>4. bytes \in Nat
        BY <1>4 DEF bytes
      <3>5. Size(sessions)' = Size(rest) + bytes
        <4>1. Size(sessions)' = Size(rest \cup {p})
          BY <2>5, <3>1
        <4> QED
          BY <1>4, <2>3, <3>3, <4>1, SizeOfMore DEF bytes
      <3>6. Cardinality(sessions') = Cardinality(rest) + 1
        BY <2>3, <3>1, <3>3, FS_AddElement
      <3>7. order' \in Seq(Previewer) /\ ToSet(order') = sessions' /\ IsInjective(order')
        <4>1. /\ Append(kept, p) \in Seq(Previewer)
              /\ Len(kept) \in Nat /\ DOMAIN kept = 1 .. Len(kept)
              /\ DOMAIN Append(kept, p) = 1 .. Len(kept) + 1
              /\ \A k \in 1 .. Len(kept) : Append(kept, p)[k] = kept[k]
              /\ Append(kept, p)[Len(kept) + 1] = p
          BY <2>2
        <4>2. ToSet(Append(kept, p)) = ToSet(kept) \cup {p}
          BY <4>1 DEF ToSet
        <4>3. \A k \in 1 .. Len(kept) : kept[k] # p
          BY <2>2, <3>3, <4>1 DEF ToSet
        <4>4. IsInjective(Append(kept, p))
          BY <2>2, <4>1, <4>3 DEF IsInjective
        <4> QED
          BY <2>2, <3>1, <4>1, <4>2, <4>4
      <3> QED
        BY <2>1, <2>3, <2>4, <3>1, <3>2, <3>4, <3>5, <3>6, <3>7 DEF Accounted
    <2> QED
      BY <2>6, <2>7
  <1>9. TypeOK'
    <2>1. sessions' \subseteq Previewer /\ inFlight' \subseteq sessions'
      BY <1>2, <1>5 DEF PInv, TypeOK
    <2> QED
      BY <1>2, <1>6, <1>8, <2>1 DEF PInv, TypeOK
  <1>10. Previewing'
    <2> SUFFICES ASSUME NEW q \in Previewer
                 PROVE  /\ pc'[q] \in {"idle", "insert", "ok", "refused"}
                        /\ pc'[q] # "idle" => plan'[q] \in Plan
                        /\ q \in sessions' => pc'[q] = "ok"
      BY DEF Previewing, Plan, Command
    <2>1. CASE q = p
      BY <1>2, <1>5, <1>6, <2>1 DEF PInv, Previewing
    <2>2. CASE q # p
      BY <1>2, <1>5, <1>6, <2>2 DEF PInv, Previewing, Command
    <2> QED
      BY <2>1, <2>2
  <1>11. Claiming'
    <2> SUFFICES ASSUME NEW i \in Importer
                 PROVE  /\ pc'[i] = "idle" => claimed'[i] = None
                        /\ pc'[i] \in {"apply", "consume"} => claimed'[i] # None
                        /\ claimed'[i] # None =>
                              pc'[claimed'[i]] = "ok" /\ claimed'[i] \notin Live' \ inFlight'
      BY DEF Claiming
    <2>1. claimed[i] # None => claimed[i] \in Previewer /\ claimed[i] # p
      BY <1>4, Exclusive
    <2> QED
      BY <1>2, <1>5, <1>6, <1>7, <2>1 DEF PInv, Claiming, Live, Command
  <1>12. ClaimIsExclusive'
    <2>1. ClaimedOnce'
      BY <1>2 DEF PInv, ClaimIsExclusive, ClaimedOnce
    <2>2. ClaimedStays'
      BY <1>2, <1>3, <1>7 DEF PInv, ClaimIsExclusive, ClaimedStays
    <2> QED
      BY <2>1, <2>2 DEF ClaimIsExclusive
  <1> QED
    BY <1>8, <1>9, <1>10, <1>11, <1>12 DEF PInv

LEMMA PreviewNext == PInv /\ [Next]_vars => PInv'
  <1> SUFFICES ASSUME PInv, [Next]_vars PROVE PInv'
    OBVIOUS
  <1>1. ASSUME NEW p \in Previewer, Insert(p) \/ Expire(p) \/ \E d \in Doc : Preview(p, d)
        PROVE  PInv'
    BY <1>1, SafeInsert, SafeExpire, SafePreview
  <1>2. ASSUME NEW i \in Importer, ImportStep(i) PROVE PInv'
    BY <1>2, SafeApply, SafeConsume DEF ImportStep
  <1>3. ASSUME NEW i \in Importer, NEW p \in Previewer, Claim(i, p) \/ ClaimRefused(i, p)
        PROVE  PInv'
    BY <1>3, SafeClaim, SafeClaimRefused
  <1>4. ASSUME NEW w \in Writer, NEW r \in Row, Change(w, r) PROVE PInv'
    BY <1>4, SafeChange
  <1>5. CASE UNCHANGED vars
    <2>1. UNCHANGED <<store, plan>>
      BY <1>5 DEF vars
    <2>2. Previewing' /\ Claiming'
      BY <1>5 DEF vars, store, PInv, Previewing, Claiming, Live
    <2>3. TypeOK' /\ ClaimIsExclusive'
      BY <1>5 DEF vars, store, PInv, TypeOK, ClaimIsExclusive, ClaimedOnce, ClaimedStays
    <2> QED
      BY <2>1, <2>2, <2>3, AccountedQuiet DEF PInv
  <1> QED
    BY <1>1, <1>2, <1>3, <1>4, <1>5 DEF Next

LEMMA PreviewsAreSafe == Spec => []PInv
  BY PreviewInit, PreviewNext, PTL DEF Spec

-----------------------------------------------------------------------------
(* The theorems. *)

\* Every reachable state is well typed: in particular no subtraction of
\* PreviewSessionStore.total_bytes goes below zero, so none saturates.
THEOREM TypeCorrect == Spec => []TypeOK
  BY PreviewsAreSafe, PTL DEF PInv

\* The map, the order and the byte count of the store agree and keep both bounds.
THEOREM StoreIsAccountedFor == Spec => []Accounted
  BY PreviewsAreSafe, PTL DEF PInv

\* A preview is claimed by one import, which holds it until it has consumed it or it expires.
THEOREM ClaimsAreExclusive == Spec => []ClaimIsExclusive
  BY PreviewsAreSafe, PTL DEF PInv

\* A transaction that overwrites a compared row has seen it as the preview did.
LEMMA SaveSurvives ==
    ASSUME PInv, [Next]_vars, NEW i \in Importer, pc[i] = "apply", pc'[i] # "apply",
           NEW r \in Compared[plan[claimed[i]].doc], version[r] # plan[claimed[i]].base[r]
    PROVE  version'[r] = version[r]
  <1> USE PreviewAssumption DEF PInv, TypeOK, Command, Goto
  <1>1. ASSUME NEW p \in Previewer, Insert(p) \/ Expire(p) \/ \E d \in Doc : Preview(p, d)
        PROVE  UNCHANGED version
    BY <1>1 DEF Insert, Expire, Preview
  <1>2. ASSUME NEW j \in Importer, NEW p \in Previewer, Claim(j, p) \/ ClaimRefused(j, p)
        PROVE  UNCHANGED version
    BY <1>2 DEF Claim, ClaimOf, ClaimRefused
  <1>3. ASSUME NEW j \in Importer, ApplyFails(j) \/ Consume(j)
        PROVE  UNCHANGED version
    BY <1>3 DEF ApplyFails, Consume
  <1>4. ASSUME NEW j \in Importer, Apply(j)
        PROVE  FALSE
    <2>1. j = i
      BY <1>4 DEF Apply
    <2> QED
      BY <1>4, <2>1 DEF Apply, Unmoved
  <1>5. ASSUME NEW w \in Writer, NEW q \in Row, Change(w, q)
        PROVE  FALSE
    BY <1>5 DEF Change
  <1>6. CASE UNCHANGED vars
    BY <1>6 DEF vars
  <1> QED
    BY <1>1, <1>2, <1>3, <1>4, <1>5, <1>6 DEF Next, ImportStep

\* An import never overwrites a compared row that was saved after its preview.
THEOREM SavesAlwaysSurvive == Spec => SavesSurvive
  <1>1. PInv /\ [Next]_vars =>
          [\A i \in Importer : pc[i] = "apply" /\ pc'[i] # "apply" =>
              LET s == plan[claimed[i]] IN
              \A r \in Compared[s.doc] : version[r] = s.base[r] \/ version'[r] = version[r]]_vars
    BY SaveSurvives
  <1> QED
    BY <1>1, PreviewsAreSafe, PTL DEF Spec, SavesSurvive

-----------------------------------------------------------------------------
(* Who holds a claim. *)

\* A claimed session is the one of an import that is still at work on it.
ClaimsAreHeld ==
    \A p \in inFlight : \E i \in Importer : claimed[i] = p /\ pc[i] \in {"apply", "consume"}

LEMMA HolderFound == ASSUME PInv, ClaimsAreHeld, [Next]_vars PROVE ClaimsAreHeld'
  <1> USE PreviewAssumption
  <1>1. /\ pc \in [Command -> {"idle", "insert", "apply", "consume", "ok", "refused"}]
        /\ claimed \in [Importer -> Previewer \cup {None}]
        /\ \A i \in Importer : i \in Command /\ i \notin Previewer /\ i \notin Writer
        /\ \A c \in Previewer \cup Writer : c \in Command
    BY DEF PInv, TypeOK, Command
  <1>2. ASSUME NEW c \in Previewer \cup Writer, NEW l, inFlight' \subseteq inFlight,
               UNCHANGED claimed, pc' = pc \/ pc' = [pc EXCEPT ![c] = l]
        PROVE  ClaimsAreHeld'
    <2>1. \A i \in Importer : pc'[i] = pc[i]
      BY <1>1, <1>2
    <2> QED
      BY <1>2, <2>1 DEF ClaimsAreHeld
  <1>3. CASE UNCHANGED vars
    BY <1>3 DEF vars, store, ClaimsAreHeld
  <1>4. ASSUME NEW p \in Previewer, Insert(p) PROVE ClaimsAreHeld'
    <2>1. \E l : pc' = [pc EXCEPT ![p] = l]
      BY <1>4 DEF Insert, Goto
    <2> QED
      BY <1>2, <1>4, <2>1 DEF Insert
  <1>5. ASSUME NEW p \in Previewer, Expire(p) \/ \E d \in Doc : Preview(p, d) PROVE ClaimsAreHeld'
    BY <1>2, <1>5 DEF Expire, Preview, Goto, store
  <1>6. ASSUME NEW w \in Writer, NEW r \in Row, Change(w, r) PROVE ClaimsAreHeld'
    BY <1>2, <1>6 DEF Change, Goto, store
  <1>7. ASSUME NEW i \in Importer, NEW p \in Previewer, Claim(i, p) PROVE ClaimsAreHeld'
    <2>1. /\ pc[i] = "idle" /\ inFlight' \subseteq inFlight \cup {p}
          /\ claimed' = [claimed EXCEPT ![i] = p] /\ pc' = [pc EXCEPT ![i] = "apply"]
      BY <1>7 DEF Claim, ClaimOf, Goto
    <2> QED
      BY <1>1, <2>1 DEF ClaimsAreHeld
  <1>8. ASSUME NEW i \in Importer, NEW p \in Previewer, ClaimRefused(i, p) PROVE ClaimsAreHeld'
    <2>1. /\ pc[i] = "idle" /\ inFlight' \subseteq inFlight
          /\ claimed' = claimed /\ pc' = [pc EXCEPT ![i] = "refused"]
      BY <1>8 DEF ClaimRefused, Goto
    <2> QED
      BY <1>1, <2>1 DEF ClaimsAreHeld
  <1>9. ASSUME NEW i \in Importer, Apply(i) \/ ApplyFails(i) PROVE ClaimsAreHeld'
    <2>1. inFlight' = inFlight /\ claimed' = claimed /\ pc' = [pc EXCEPT ![i] = "consume"]
      BY <1>9 DEF Apply, ApplyFails, Goto, store
    <2> QED
      BY <1>1, <2>1 DEF ClaimsAreHeld
  <1>10. ASSUME NEW i \in Importer, Consume(i) PROVE ClaimsAreHeld'
    <2>1. /\ inFlight' = inFlight \ {claimed[i]}
          /\ claimed' = claimed /\ pc' = [pc EXCEPT ![i] = "ok"]
      BY <1>10 DEF Consume, Goto
    <2> QED
      BY <1>1, <2>1 DEF ClaimsAreHeld
  <1> QED
    BY <1>3, <1>4, <1>5, <1>6, <1>7, <1>8, <1>9, <1>10 DEF Next, ImportStep

\* No session is claimed for an import that is over, whatever expired or failed: the safety half
\* of ClaimsEnd.
THEOREM NoClaimIsLeftBehind == Spec => []ClaimsAreHeld
  <1>1. Init => ClaimsAreHeld
    BY DEF Init, ClaimsAreHeld
  <1>2. PInv /\ ClaimsAreHeld /\ [Next]_vars => ClaimsAreHeld'
    BY HolderFound
  <1>3. PInv /\ [Next]_vars => PInv'
    BY PreviewNext
  <1> QED
    BY <1>1, <1>2, <1>3, PreviewInit, PTL DEF Spec
=============================================================================
