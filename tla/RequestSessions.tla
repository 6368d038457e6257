--------------------------- MODULE RequestSessions ---------------------------
(***************************************************************************)
(* Cancellation of requests in flight.  A capability command registers a   *)
(* token under the request id its caller chose, races its work against the *)
(* token, and drops the registration at its end; a cancel command looks    *)
(* the id up and cancels the token it finds.  The map is one mutex; the    *)
(* flag and the notification of a token are two atomic steps that a waiter *)
(* sees without it.  A token is named by the call that registered it.      *)
(***************************************************************************)
EXTENDS Naturals

CONSTANTS
    Call,      \* commands that run a request, one each
    Canceller, \* cancel commands, over and over
    Id,        \* request ids
    None

Party == Call \cup Canceller

ASSUME SessionsAssumption ==
    /\ Call \cap Canceller = {}
    /\ None \notin Party \cup Id

VARIABLES
    sessions, \* the map
    lock,     \* who holds the map beyond a step
    target,   \* the token the holder of the map is cancelling
    flagged,  \* tokens whose flag is set
    waiting,  \* calls whose Notified future no notification has reached
    id,       \* the id of each call
    pc

vars == <<sessions, lock, target, flagged, waiting, id, pc>>

TypeOK ==
    /\ sessions \in [Id -> Call \cup {None}]
    /\ lock \in Party \cup {None}
    /\ target \in Call \cup {None}
    /\ flagged \in SUBSET Call
    /\ waiting \in SUBSET Call
    /\ id \in [Call -> Id \cup {None}]
    /\ pc \in [Party -> {"idle", "notify", "subscribe", "check", "await", "wait", "end", "done"}]

Init ==
    /\ sessions = [i \in Id |-> None]
    /\ lock = None /\ target = None
    /\ flagged = {} /\ waiting = {}
    /\ id = [c \in Call |-> None]
    /\ pc = [p \in Party |-> "idle"]

Goto(p, label) == pc' = [pc EXCEPT ![p] = label]

-----------------------------------------------------------------------------
(* CancelToken::cancel, under the map's lock: the flag here, waiters next. *)

CancelToken(p, c) ==
    /\ flagged' = flagged \cup {c}
    /\ target' = c
    /\ lock' = p
    /\ Goto(p, "notify")

\* Mutant: only futures that were polled already are woken.
NotifyPolled(p) ==
    /\ pc[p] = "notify"
    /\ waiting' = IF pc[target] = "wait" THEN waiting \ {target} ELSE waiting
    /\ target' = None
    /\ lock' = None
    /\ Goto(p, IF p \in Call THEN "subscribe" ELSE "idle")
    /\ UNCHANGED <<sessions, flagged, id>>

\* notify_waiters reaches every Notified future created before it.
Notify(p) ==
    /\ pc[p] = "notify"
    /\ waiting' = waiting \ {target}
    /\ target' = None
    /\ lock' = None
    /\ Goto(p, IF p \in Call THEN "subscribe" ELSE "idle")
    /\ UNCHANGED <<sessions, flagged, id>>

-----------------------------------------------------------------------------
(* A call: begin, cancelled() raced against the work, end. *)

\* Mutant: the previous session is cancelled whether there is one or not.
BeginUnchecked(c, i) ==
    /\ pc[c] = "idle"
    /\ lock = None
    /\ id' = [id EXCEPT ![c] = i]
    /\ sessions' = [sessions EXCEPT ![i] = c]
    /\ CancelToken(c, sessions[i])
    /\ UNCHANGED waiting

\* The call takes the id over; a session registered under it is cancelled.
Begin(c, i) ==
    /\ pc[c] = "idle"
    /\ lock = None
    /\ id' = [id EXCEPT ![c] = i]
    /\ sessions' = [sessions EXCEPT ![i] = c]
    /\ IF sessions[i] = None
       THEN Goto(c, "subscribe") /\ UNCHANGED <<lock, target, flagged>>
       ELSE CancelToken(c, sessions[i])
    /\ UNCHANGED waiting

Subscribe(c) ==
    /\ pc[c] = "subscribe"
    /\ waiting' = waiting \cup {c}
    /\ Goto(c, "check")
    /\ UNCHANGED <<sessions, lock, target, flagged, id>>

\* The flag is set: the work is dropped.
Check(c) ==
    /\ pc[c] = "check"
    /\ IF c \in flagged
       THEN waiting' = waiting \ {c} /\ Goto(c, "end")
       ELSE Goto(c, "await") /\ UNCHANGED waiting
    /\ UNCHANGED <<sessions, lock, target, flagged, id>>

\* The future is polled: pending, or notified and the loop goes round.
Await(c) ==
    /\ pc[c] \in {"await", "wait"}
    /\ IF c \in waiting THEN pc[c] = "await" /\ Goto(c, "wait") ELSE Goto(c, "subscribe")
    /\ UNCHANGED <<sessions, lock, target, flagged, waiting, id>>

\* The work has an answer, an error or a timeout of its own; it may fail before it
\* ever waits.
Finish(c) ==
    /\ pc[c] \in {"subscribe", "wait"}
    /\ waiting' = waiting \ {c}
    /\ Goto(c, "end")
    /\ UNCHANGED <<sessions, lock, target, flagged, id>>

\* Mutant: a cancelled call leaves the map to whoever cancelled it.
EndUncancelled(c) ==
    /\ pc[c] = "end"
    /\ lock = None
    /\ sessions' = IF c \in flagged THEN sessions ELSE [sessions EXCEPT ![id[c]] = None]
    /\ Goto(c, "done")
    /\ UNCHANGED <<lock, target, flagged, waiting, id>>

\* Whatever is registered under the id goes.
End(c) ==
    /\ pc[c] = "end"
    /\ lock = None
    /\ sessions' = [sessions EXCEPT ![id[c]] = None]
    /\ Goto(c, "done")
    /\ UNCHANGED <<lock, target, flagged, waiting, id>>

-----------------------------------------------------------------------------
(* cancel, cancel_provider_runtime and cancel_speech_synthesis. *)

\* Mutant: the entry is taken out of the map, and waiters notified without the flag.
CancelTaking(k, i) ==
    /\ pc[k] = "idle"
    /\ lock = None
    /\ sessions[i] # None
    /\ sessions' = [sessions EXCEPT ![i] = None]
    /\ target' = sessions[i]
    /\ lock' = k
    /\ Goto(k, "notify")
    /\ UNCHANGED <<flagged, waiting, id>>

\* An id that is not in the map is answered false and changes nothing.
Cancel(k, i) ==
    /\ pc[k] = "idle"
    /\ lock = None
    /\ sessions[i] # None
    /\ CancelToken(k, sessions[i])
    /\ UNCHANGED <<sessions, waiting, id>>

-----------------------------------------------------------------------------
CallStep(c) == Subscribe(c) \/ Check(c) \/ Await(c) \/ End(c)

Next ==
    \/ \E c \in Call, i \in Id : Begin(c, i)
    \/ \E c \in Call : CallStep(c) \/ Finish(c)
    \/ \E k \in Canceller, i \in Id : Cancel(k, i)
    \/ \E p \in Party : Notify(p)

Spec == Init /\ [][Next]_vars

\* The executor polls what was woken and threads run on; work need never answer.  The
\* mutex may be contended for ever by cancels, so End is fair in the strong sense.
FairSpec ==
    /\ Spec
    /\ \A p \in Party : WF_vars(Notify(p))
    /\ \A c \in Call : WF_vars(Subscribe(c) \/ Check(c) \/ Await(c)) /\ SF_vars(End(c))

-----------------------------------------------------------------------------
(* Properties. *)

Live(c) == pc[c] \in {"notify", "subscribe", "check", "await", "wait"}

\* A cancel of a request that runs, and was not cancelled, finds it, whatever the requests
\* under other ids do: "Returns false when the id is unknown / already finished"
\* (cancel.rs:76).
LiveIsRegistered ==
    \A c \in Call :
        /\ Live(c) /\ c \notin flagged
        /\ \A d \in Call \ {c} : id[d] # id[c]
        => sessions[id[c]] = c

\* "The request session is removed exactly once on every terminal path"
\* (runtime_providers.rs:85): no entry outlives its call, reused ids included.
NoGhostSession == \A i \in Id : sessions[i] # None => pc[sessions[i]] # "done"

\* A cancelled request ends although its work never answers: the notification is not
\* lost between the check of the flag and the wait, however late it comes.
CancelIsSeen == \A c \in Call : c \in flagged ~> pc[c] = "done"
=============================================================================
