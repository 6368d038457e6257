------------------------ MODULE RequestSessionsProofs ------------------------
(***************************************************************************)
(* Proofs about RequestSessions, for any number of calls, cancel commands  *)
(* and ids, reused ids included.                                           *)
(***************************************************************************)
EXTENDS RequestSessions, TLAPS

-----------------------------------------------------------------------------
(* The inductive invariant. *)

\* The map is held beyond a step exactly by who is about to notify, and for a token.
HolderNotifies ==
    /\ \A p \in Party : pc[p] = "notify" <=> lock = p
    /\ target # None => lock # None

\* A call has an id from its beginning on.
BegunHasId == \A c \in Call : IF pc[c] = "idle" THEN id[c] = None ELSE id[c] \in Id

\* An entry is of a call that has this id, has begun and has not ended.
EntryIsOfCall ==
    \A i \in Id : sessions[i] # None => id[sessions[i]] = i /\ pc[sessions[i]] \notin {"idle", "done"}

\* No wake-up is lost: a call that has not been notified although its flag was set, and
\* whose next look at the flag depends on being notified, is the one about to be notified.
NoLostWakeup ==
    \A c \in Call : c \in flagged /\ c \in waiting /\ pc[c] \in {"await", "wait"} => target = c

IInv ==
    /\ TypeOK
    /\ HolderNotifies
    /\ BegunHasId
    /\ EntryIsOfCall
    /\ LiveIsRegistered
    /\ NoLostWakeup

-----------------------------------------------------------------------------
LEMMA InitInv == ASSUME Init PROVE IInv
BY SessionsAssumption DEF Init, IInv, TypeOK, HolderNotifies, BegunHasId, EntryIsOfCall,
   LiveIsRegistered, NoLostWakeup, Live, Party

\* A call begins: it takes its id over and cancels the session it finds there.
LEMMA BeginInv ==
    ASSUME IInv, NEW c \in Call, NEW i \in Id, Begin(c, i)
    PROVE  IInv'
<1> USE SessionsAssumption DEF IInv, Party
<1>a. /\ c \in Party /\ c # None
      /\ pc[c] = "idle" /\ lock = None /\ target = None
      /\ id' = [id EXCEPT ![c] = i] /\ sessions' = [sessions EXCEPT ![i] = c]
      /\ waiting' = waiting
  BY DEF Begin, HolderNotifies
<1>b. CASE sessions[i] = None
  <2>1. /\ pc' = [pc EXCEPT ![c] = "subscribe"]
        /\ lock' = lock /\ target' = target /\ flagged' = flagged
    BY <1>b DEF Begin, Goto
  <2>2. TypeOK'
    BY <1>a, <2>1 DEF TypeOK
  <2>3. HolderNotifies' /\ BegunHasId'
    BY <1>a, <2>1 DEF TypeOK, HolderNotifies, BegunHasId
  <2>4. EntryIsOfCall'
    BY <1>a, <2>1 DEF TypeOK, EntryIsOfCall
  <2>5. LiveIsRegistered'
    <3> SUFFICES ASSUME NEW d \in Call, Live(d)', d \notin flagged',
                        \A e \in Call \ {d} : id'[e] # id'[d]
                 PROVE  sessions'[id'[d]] = d
      BY DEF LiveIsRegistered
    <3>1. CASE d = c
      BY <1>a, <3>1 DEF TypeOK
    <3>2. CASE d # c
      <4>1. Live(d) /\ id'[d] = id[d] /\ id[d] \in Id /\ id[d] # i
        BY <1>a, <2>1, <3>2 DEF TypeOK, Live, BegunHasId
      <4>2. \A e \in Call \ {d} : id[e] # id[d]
        BY <1>a, <3>2, <4>1 DEF TypeOK, BegunHasId
      <4>3. sessions[id[d]] = d
        BY <2>1, <4>1, <4>2 DEF LiveIsRegistered
      <4> QED BY <1>a, <4>1, <4>3 DEF TypeOK
    <3> QED BY <3>1, <3>2
  <2>6. NoLostWakeup'
    BY <1>a, <2>1 DEF TypeOK, NoLostWakeup
  <2> QED BY <2>2, <2>3, <2>4, <2>5, <2>6
<1>c. CASE sessions[i] # None
  <2>1. /\ pc' = [pc EXCEPT ![c] = "notify"] /\ lock' = c
        /\ target' = sessions[i] /\ flagged' = flagged \cup {sessions[i]}
        /\ sessions[i] \in Call /\ sessions[i] # c
    BY <1>a, <1>c DEF Begin, CancelToken, Goto, TypeOK, EntryIsOfCall
  <2>2. TypeOK'
    BY <1>a, <2>1 DEF TypeOK
  <2>3. HolderNotifies' /\ BegunHasId'
    BY <1>a, <2>1 DEF TypeOK, HolderNotifies, BegunHasId
  <2>4. EntryIsOfCall'
    BY <1>a, <2>1 DEF TypeOK, EntryIsOfCall
  <2>5. LiveIsRegistered'
    <3> SUFFICES ASSUME NEW d \in Call, Live(d)', d \notin flagged',
                        \A e \in Call \ {d} : id'[e] # id'[d]
                 PROVE  sessions'[id'[d]] = d
      BY DEF LiveIsRegistered
    <3>1. CASE d = c
      BY <1>a, <3>1 DEF TypeOK
    <3>2. CASE d # c
      <4>1. Live(d) /\ id'[d] = id[d] /\ id[d] \in Id /\ id[d] # i
        BY <1>a, <2>1, <3>2 DEF TypeOK, Live, BegunHasId
      <4>2. \A e \in Call \ {d} : id[e] # id[d]
        BY <1>a, <3>2, <4>1 DEF TypeOK, BegunHasId
      <4>3. sessions[id[d]] = d
        BY <2>1, <4>1, <4>2 DEF LiveIsRegistered
      <4> QED BY <1>a, <4>1, <4>3 DEF TypeOK
    <3> QED BY <3>1, <3>2
  <2>6. NoLostWakeup'
    BY <1>a, <2>1 DEF TypeOK, NoLostWakeup
  <2> QED BY <2>2, <2>3, <2>4, <2>5, <2>6
<1> QED BY <1>b, <1>c

\* A call waits, is woken, looks at its flag, or its work ends.
LEMMA WaitInv ==
    ASSUME IInv, NEW c \in Call, Subscribe(c) \/ Check(c) \/ Await(c) \/ Finish(c)
    PROVE  IInv'
<1> USE SessionsAssumption DEF IInv, Party
<1>a. /\ c \in Party /\ pc[c] \in {"subscribe", "check", "await", "wait"}
      /\ sessions' = sessions /\ lock' = lock /\ target' = target
      /\ flagged' = flagged /\ id' = id
      /\ waiting' \in {waiting, waiting \cup {c}, waiting \ {c}}
      /\ \E l \in {"subscribe", "check", "await", "wait", "end"} :
            /\ pc' = [pc EXCEPT ![c] = l]
            /\ l \in {"await", "wait"} => c \notin flagged \/ (pc[c] = "await" /\ waiting' = waiting)
  BY DEF Subscribe, Check, Await, Finish, Goto
<1>1. TypeOK'
  BY <1>a DEF TypeOK
<1>2. HolderNotifies' /\ BegunHasId' /\ EntryIsOfCall'
  BY <1>a DEF TypeOK, HolderNotifies, BegunHasId, EntryIsOfCall
<1>3. LiveIsRegistered'
  BY <1>a DEF TypeOK, LiveIsRegistered, Live
<1>4. NoLostWakeup'
  BY <1>a DEF TypeOK, NoLostWakeup
<1> QED BY <1>1, <1>2, <1>3, <1>4

\* A call ends: whatever is registered under its id goes, its successor's entry included.
LEMMA EndInv ==
    ASSUME IInv, NEW c \in Call, End(c)
    PROVE  IInv'
<1> USE SessionsAssumption DEF IInv, Party
<1>a. /\ c \in Party /\ pc[c] = "end" /\ lock = None /\ id[c] \in Id
      /\ sessions' = [sessions EXCEPT ![id[c]] = None]
      /\ pc' = [pc EXCEPT ![c] = "done"]
      /\ lock' = lock /\ target' = target /\ flagged' = flagged /\ waiting' = waiting
      /\ id' = id
  BY DEF End, Goto, BegunHasId
<1>1. TypeOK'
  BY <1>a DEF TypeOK
<1>2. HolderNotifies' /\ BegunHasId'
  BY <1>a DEF TypeOK, HolderNotifies, BegunHasId
<1>3. EntryIsOfCall'
  BY <1>a DEF TypeOK, EntryIsOfCall
<1>4. LiveIsRegistered'
  BY <1>a DEF TypeOK, LiveIsRegistered, Live, BegunHasId
<1>5. NoLostWakeup'
  BY <1>a DEF TypeOK, NoLostWakeup
<1> QED BY <1>1, <1>2, <1>3, <1>4, <1>5

\* A cancel command sets the flag of the token it finds.
LEMMA CancelInv ==
    ASSUME IInv, NEW k \in Canceller, NEW i \in Id, Cancel(k, i)
    PROVE  IInv'
<1> USE SessionsAssumption DEF IInv, Party
<1>a. /\ k \in Party /\ k # None /\ k \notin Call /\ lock = None /\ target = None
      /\ sessions[i] \in Call
      /\ pc' = [pc EXCEPT ![k] = "notify"] /\ lock' = k
      /\ target' = sessions[i] /\ flagged' = flagged \cup {sessions[i]}
      /\ sessions' = sessions /\ waiting' = waiting /\ id' = id
  BY DEF Cancel, CancelToken, Goto, TypeOK, HolderNotifies
<1>1. TypeOK'
  BY <1>a DEF TypeOK
<1>2. HolderNotifies' /\ BegunHasId' /\ EntryIsOfCall'
  BY <1>a DEF TypeOK, HolderNotifies, BegunHasId, EntryIsOfCall
<1>3. LiveIsRegistered'
  BY <1>a DEF TypeOK, LiveIsRegistered, Live
<1>4. NoLostWakeup'
  BY <1>a DEF TypeOK, NoLostWakeup
<1> QED BY <1>1, <1>2, <1>3, <1>4

\* The waiters of the token are notified and the map is let go.
LEMMA NotifyInv ==
    ASSUME IInv, NEW p \in Party, Notify(p)
    PROVE  IInv'
<1> USE SessionsAssumption DEF IInv
<1>a. /\ pc[p] = "notify" /\ lock = p
      /\ waiting' = waiting \ {target} /\ target' = None /\ lock' = None
      /\ sessions' = sessions /\ flagged' = flagged /\ id' = id
      /\ pc' = [pc EXCEPT ![p] = IF p \in Call THEN "subscribe" ELSE "idle"]
  BY DEF Notify, Goto, HolderNotifies
<1>1. TypeOK'
  BY <1>a DEF TypeOK, Party
<1>2. HolderNotifies' /\ BegunHasId'
  BY <1>a DEF TypeOK, HolderNotifies, BegunHasId, Party
<1>3. EntryIsOfCall'
  BY <1>a DEF TypeOK, EntryIsOfCall, Party
<1>4. LiveIsRegistered'
  BY <1>a DEF TypeOK, LiveIsRegistered, Live, Party
<1>5. NoLostWakeup'
  BY <1>a DEF TypeOK, NoLostWakeup, Party
<1> QED BY <1>1, <1>2, <1>3, <1>4, <1>5

\* Every step keeps the invariant.
LEMMA NextInv == ASSUME IInv, [Next]_vars PROVE IInv'
<1>1. CASE UNCHANGED vars
  BY <1>1 DEF IInv, vars, TypeOK, HolderNotifies, BegunHasId, EntryIsOfCall,
     LiveIsRegistered, NoLostWakeup, Live
<1>2. CASE Next
  BY <1>2, BeginInv, WaitInv, EndInv, CancelInv, NotifyInv DEF Next, CallStep
<1> QED BY <1>1, <1>2

\* The invariant always holds.
LEMMA Inductive == Spec => []IInv
BY InitInv, NextInv, PTL DEF Spec

-----------------------------------------------------------------------------
\* The variables stay in their types, whatever the calls, cancels and ids are.
THEOREM TypeCorrect == Spec => []TypeOK
<1>1. IInv => TypeOK  BY DEF IInv
<1> QED BY <1>1, Inductive, PTL

\* A running request with an id of its own is found by a cancel: see RequestSessions.
THEOREM LiveCallsAreRegistered == Spec => []LiveIsRegistered
<1>1. IInv => LiveIsRegistered  BY DEF IInv
<1> QED BY <1>1, Inductive, PTL

\* No entry of the map outlives its call, reused ids included.
THEOREM NoEntryOutlivesItsCall == Spec => []NoGhostSession
<1>1. IInv => NoGhostSession  BY DEF IInv, EntryIsOfCall, NoGhostSession
<1> QED BY <1>1, Inductive, PTL

\* The safety side of CancelIsSeen, for any number of calls and cancels: a notification is
\* never lost between the check of the flag and the wait.
THEOREM NoWakeupIsLost == Spec => []NoLostWakeup
<1>1. IInv => NoLostWakeup  BY DEF IInv
<1> QED BY <1>1, Inductive, PTL
=============================================================================
