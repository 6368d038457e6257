----------------------------- MODULE BrokerStream -----------------------------
(***************************************************************************)
(* A streamed HTTP response on its way to a guest.  The transport task     *)
(* hands events to a bounded channel; the pump task takes them from there  *)
(* and sends frames to a bounded buffer; the guest's invocation reads the  *)
(* buffer.  Each side waits by subscribing to a notification before it     *)
(* looks at the shared data under its lock.  Any of the three may end      *)
(* first, by success, failure, cancellation, expiry or a timeout, and the  *)
(* invocation may be dropped at any await.                                 *)
(*                                                                         *)
(* A critical section with the notification that follows it, or a poll of  *)
(* one branch of a select, is an action.  Timeouts are actions that are    *)
(* always possible while somebody waits.                                   *)
(***************************************************************************)
EXTENDS Naturals, Sequences

CONSTANTS
    MaxChunks,    \* chunks of a response, at most
    EventCap,     \* STREAM_EVENT_CHANNEL_CAPACITY
    BufferFrames, \* STREAM_DEFAULT_BUFFER_FRAMES
    None

ASSUME StreamAssumption ==
    /\ MaxChunks \in Nat /\ EventCap \in Nat \ {0} /\ BufferFrames \in Nat \ {0}
    /\ None \notin {"ok", "bad", "err", "finished", "failed", "missing", "expired", "cancelled",
                    "transport", "pump"}

VARIABLES
    buffer, terminal, readerOpen, \* StreamData
    token,     \* the transport's cancel token
    cancelled, \* the request's cancel token
    expired,   \* expires_at has passed
    woken,     \* who was notified since it subscribed last
    transport, \* the transport task
    headers,   \* the oneshot with the response's status
    sent,      \* chunks it was given by the server
    ended,     \* what it will return
    result,    \* the oneshot with what it returned
    events,    \* the channel to the pump
    pump,      \* the pump task
    frame,     \* the chunk it is sending, or how it is about to end the stream
    aborting,  \* tasks whose abort is scheduled
    joined,    \* shutdown's flags: tasks whose end it has seen, or that it need not wait for
    late,      \* the task it has aborted and awaits since its deadline
    results,   \* history: results the task's JoinHandle has given, at most one in its life
    guest,     \* the invocation
    got,       \* chunks it has read
    told       \* the terminal frame it has read

shared   == <<buffer, terminal, readerOpen, token>>
upstream == <<transport, headers, sent, ended, result, events>>
pumping  == <<pump, frame>>
reading  == <<guest, got, told>>
control  == <<aborting, joined, late, results>>
vars     == <<shared, cancelled, expired, woken, upstream, pumping, control, reading>>

Task     == {"transport", "pump"}
Terminal == {"finished", "failed", "missing", "expired", "cancelled"}

\* Events, frames and the ends of a stream: a chunk has its number.
Chunk(n) == [kind |-> "chunk", n |-> n]
Mark(kind) == [kind |-> kind, n |-> 0]
Event == {Chunk(n) : n \in 1 .. MaxChunks} \cup {Mark(kind) : kind \in {"started", "refused", "finished"}}
Nothing == Mark("none")

TypeOK ==
    /\ buffer \in Seq(1 .. MaxChunks) /\ Len(buffer) <= BufferFrames
    /\ terminal \in Terminal \cup {None}
    /\ readerOpen \in BOOLEAN /\ token \in BOOLEAN /\ cancelled \in BOOLEAN /\ expired \in BOOLEAN
    /\ woken \in SUBSET {"reader", "writer"}
    /\ transport \in {"running", "returning", "ended", "aborted"}
    /\ headers \in {None, "ok", "bad"}
    /\ sent \in 0 .. MaxChunks
    /\ ended \in {None, "ok", "err"} /\ result \in {None, "ok", "err"}
    /\ events \in Seq(Event) /\ Len(events) <= EventCap
    /\ pump \in {"none", "poll", "result", "idle", "drained", "send", "blocked", "terminate", "cancel",
                 "ended", "aborted"}
    /\ frame \in {Chunk(n) : n \in 1 .. MaxChunks} \cup {Mark(kind) : kind \in {"finished", "failed", "missing", "none"}}
    /\ aborting \in SUBSET Task /\ joined \in SUBSET Task
    /\ late \in Task \cup {None} /\ results \in [Task -> Nat]
    /\ guest \in {"fetch", "giveup", "failed", "open", "read", "wait", "closing", "closed", "dropped"}
    /\ got \in 0 .. MaxChunks
    /\ told \in Terminal \cup {None}

\* pump_stream_response has made the pair and spawned the transport task.
Init ==
    /\ buffer = <<>> /\ terminal = None /\ readerOpen = TRUE
    /\ token = FALSE /\ cancelled = FALSE /\ expired = FALSE
    /\ woken = {}
    /\ transport = "running" /\ headers = None /\ sent = 0 /\ ended = None /\ result = None
    /\ events = <<>>
    /\ pump = "none" /\ frame = Nothing
    /\ aborting = {} /\ joined = {} /\ late = None /\ results = [task \in Task |-> 0]
    /\ guest = "fetch" /\ got = 0 /\ told = None

Stopped == [transport |-> transport \in {"ended", "aborted"},
            pump |-> pump \in {"none", "ended", "aborted"}]

\* refresh: the terminal state, which a cancelled request or the passing of expires_at sets.
Refreshed ==
    IF terminal # None THEN terminal
    ELSE IF cancelled THEN "cancelled"
    ELSE IF expired THEN "expired" ELSE None

\* set_terminal
SetTerminal(t) == terminal' = t /\ token' = (token \/ t # None)

-----------------------------------------------------------------------------
(* The transport task: execute_stream and the callback on_event. *)

Return(how) == transport' = "returning" /\ ended' = how

\* The channel has a receiver: the pump, and the fetch before it.
Receiving == IF pump = "none" THEN guest # "dropped" ELSE ~Stopped["pump"]

\* The callback refuses an event when the channel is full or has no receiver, and the
\* transport gives up.
Emit(event) ==
    IF Len(events) < EventCap /\ Receiving
    THEN /\ events' = Append(events, event)
         /\ IF event.kind = "finished" THEN Return("ok") ELSE UNCHANGED <<transport, ended>>
    ELSE Return("err") /\ UNCHANGED events

Started ==
    /\ transport = "running" /\ headers = None
    /\ headers' \in {"ok", "bad"}
    /\ Emit(Mark("started"))
    /\ UNCHANGED <<shared, cancelled, expired, woken, sent, result, pumping, control, reading>>

\* A chunk, or what the pump refuses: a chunk that is too large, a second Started.
Receive ==
    /\ transport = "running" /\ headers # None
    /\ sent < MaxChunks
    /\ sent' = sent + 1
    /\ Emit(Chunk(sent + 1)) \/ Emit(Mark("refused"))
    /\ UNCHANGED <<shared, cancelled, expired, woken, headers, result, pumping, control, reading>>

Finished ==
    /\ transport = "running" /\ headers # None
    /\ Emit(Mark("finished"))
    /\ UNCHANGED <<shared, cancelled, expired, woken, headers, sent, result, pumping, control, reading>>

\* A network error, a limit, a timeout.
TransportFails ==
    /\ transport = "running"
    /\ Return("err")
    /\ UNCHANGED <<shared, cancelled, expired, woken, headers, sent, result, events, pumping,
                   control, reading>>

\* The cancel token is looked at before every chunk and while waiting for one.
TransportStops == token /\ TransportFails

\* The callback, and with it the channel's sender, is dropped before the result is sent.
SendResult ==
    /\ transport = "returning"
    /\ transport' = "ended" /\ result' = ended
    /\ UNCHANGED <<shared, cancelled, expired, woken, headers, sent, ended, events, pumping,
                   control, reading>>

\* An aborted task ends at its next await.
Abort(task) ==
    /\ task \in aborting /\ ~Stopped[task]
    /\ IF task = "pump" THEN pump' = "aborted" /\ UNCHANGED transport
       ELSE transport' = "aborted" /\ UNCHANGED pump
    /\ UNCHANGED <<shared, cancelled, expired, woken, headers, sent, ended, result, events, frame,
                   control, reading>>

-----------------------------------------------------------------------------
(* The pump task. *)

PumpTo(label, f) == pump' = label /\ frame' = f

\* The tokens, then the next event; an empty channel leads on to the result.
PollEvent ==
    /\ pump = "poll"
    /\ IF cancelled \/ token
       THEN PumpTo("cancel", Nothing) /\ UNCHANGED events
       ELSE IF events # <<>>
       THEN /\ events' = Tail(events)
            /\ CASE Head(events).kind = "started"   -> PumpTo("poll", Nothing)
                 [] Head(events).kind = "refused" -> PumpTo("terminate", Mark("failed"))
                 [] Head(events).kind = "finished"  -> PumpTo("terminate", Mark("finished"))
                 [] Head(events).kind = "chunk"     -> PumpTo("send", Head(events))
       ELSE PumpTo(IF transport = "running" THEN "result" ELSE "drained", Nothing) /\ UNCHANGED events
    /\ UNCHANGED <<shared, cancelled, expired, woken, transport, headers, sent, ended, result,
                   control, reading>>

\* Mutant: a successful result is a successful end.
OutcomeTrusting == Mark(IF result = "ok" THEN "finished" ELSE "failed")

\* Whatever was returned without a Finished event that the pump has seen is a failure.
Outcome == Mark(IF result = "ok" THEN "missing" ELSE "failed")

PollResult ==
    /\ pump = "result"
    /\ IF result # None \/ transport = "aborted" THEN PumpTo("terminate", Outcome)
       ELSE PumpTo("idle", Nothing)
    /\ UNCHANGED <<shared, cancelled, expired, woken, upstream, control, reading>>

\* The channel is closed: the result is awaited alone.
AwaitResult ==
    /\ pump = "drained"
    /\ result # None \/ transport = "aborted"
    /\ PumpTo("terminate", Outcome)
    /\ UNCHANGED <<shared, cancelled, expired, woken, upstream, control, reading>>

Wake ==
    /\ pump = "idle"
    /\ cancelled \/ token \/ events # <<>> \/ transport # "running"
    /\ PumpTo("poll", Nothing)
    /\ UNCHANGED <<shared, cancelled, expired, woken, upstream, control, reading>>

\* The request's deadline, which comes before the events and before a send, though after
\* the tokens; the idle timeout, the backpressure timeout.
PumpTimesOut ==
    /\ pump \in {"send", "blocked"} \/ (pump \in {"poll", "idle"} /\ ~cancelled /\ ~token)
    /\ PumpTo("terminate", Mark("failed"))
    /\ UNCHANGED <<shared, cancelled, expired, woken, upstream, control, reading>>

\* Mutant: off by one.
HasSpaceForOneMore == Len(buffer) <= BufferFrames

HasSpace == Len(buffer) < BufferFrames

\* send: it subscribes, then looks at the data.
Send ==
    /\ pump = "send"
    /\ SetTerminal(Refreshed)
    /\ IF Refreshed # None
       THEN /\ IF Refreshed = "cancelled" THEN PumpTo("cancel", Nothing) ELSE PumpTo("terminate", Mark("failed"))
            /\ UNCHANGED <<buffer, woken>>
       ELSE IF HasSpace
       THEN /\ buffer' = Append(buffer, frame.n)
            /\ woken' = woken \cup {"reader"}
            /\ PumpTo("poll", Nothing)
       ELSE PumpTo("blocked", frame) /\ woken' = woken \ {"writer"} /\ UNCHANGED buffer
    /\ UNCHANGED <<readerOpen, cancelled, expired, upstream, control, reading>>

\* Backpressure ends.
Resume ==
    /\ pump = "blocked"
    /\ IF "writer" \in woken THEN PumpTo("send", frame) ELSE cancelled /\ PumpTo("cancel", Nothing)
    /\ UNCHANGED <<shared, cancelled, expired, woken, upstream, control, reading>>

\* Mutant: the reader is not notified of the end.
TerminateSilently ==
    /\ pump = "terminate"
    /\ SetTerminal(IF Refreshed = None THEN frame.kind ELSE Refreshed)
    /\ PumpTo("ended", Nothing)
    /\ UNCHANGED <<buffer, readerOpen, cancelled, expired, woken, upstream, control, reading>>

\* terminate, of finish and fail: a stream that has ended already is left alone.
Terminate ==
    /\ pump = "terminate"
    /\ SetTerminal(IF Refreshed = None THEN frame.kind ELSE Refreshed)
    /\ woken' = IF Refreshed = None THEN {"reader", "writer"} ELSE woken
    /\ PumpTo("ended", Nothing)
    /\ UNCHANGED <<buffer, readerOpen, cancelled, expired, upstream, control, reading>>

\* StreamWriterHandle::cancel
CancelWriter ==
    /\ pump = "cancel"
    /\ SetTerminal(IF terminal = None THEN "cancelled" ELSE terminal)
    /\ woken' = {"reader", "writer"}
    /\ PumpTo("ended", Nothing)
    /\ UNCHANGED <<buffer, readerOpen, cancelled, expired, upstream, control, reading>>

-----------------------------------------------------------------------------
(* The invocation: broker fetch, stream-receive and its neighbours. *)

\* A good status: pump spawned, both tasks handed to the supervisor, reader adopted.
Open ==
    /\ guest = "fetch" /\ headers = "ok"
    /\ guest' = "open" /\ pump' = "poll"
    /\ UNCHANGED <<shared, cancelled, expired, woken, upstream, frame, control, got, told>>

\* Cancelled, too late, a bad status, or a transport that ended before it had a header: there
\* is no pump to wait for.
GiveUp ==
    /\ guest = "fetch"
    /\ guest' = "giveup"
    /\ SetTerminal(IF headers = "bad" THEN "failed" ELSE "cancelled")
    /\ joined' = {"pump"}
    /\ UNCHANGED <<buffer, readerOpen, cancelled, expired, woken, upstream, pumping, aborting, late,
                   results, got, told>>

\* receive_shared: it subscribes, then looks at the data.
Read ==
    /\ guest \in {"open", "read"} /\ readerOpen
    /\ SetTerminal(Refreshed)
    /\ IF buffer # <<>>
       THEN /\ got' = Head(buffer)
            /\ buffer' = Tail(buffer)
            /\ woken' = woken \cup {"writer"}
            /\ guest' = "open"
            /\ UNCHANGED <<told, readerOpen>>
       ELSE IF Refreshed # None
       THEN /\ told' = Refreshed
            /\ readerOpen' = FALSE
            /\ guest' = "open"
            /\ UNCHANGED <<buffer, woken, got>>
       ELSE /\ woken' = woken \ {"reader"}
            /\ guest' = "wait"
            /\ UNCHANGED <<buffer, readerOpen, got, told>>
    /\ UNCHANGED <<cancelled, expired, upstream, pumping, control>>

ReaderWakes ==
    /\ guest = "wait"
    /\ IF "reader" \in woken THEN guest' = "read" ELSE cancelled /\ guest' = "open"
    /\ UNCHANGED <<shared, cancelled, expired, woken, upstream, pumping, control, got, told>>

\* The read fails after 30 seconds, or at the request's deadline.
ReaderTimesOut ==
    /\ guest = "wait"
    /\ guest' = "open"
    /\ UNCHANGED <<shared, cancelled, expired, woken, upstream, pumping, control, got, told>>

\* stream-state, stream-metadata: they only refresh.
Look ==
    /\ guest = "open"
    /\ SetTerminal(Refreshed)
    /\ UNCHANGED <<buffer, readerOpen, cancelled, expired, woken, upstream, pumping, control, reading>>

\* stream-cancel
CancelStream ==
    /\ guest = "open"
    /\ SetTerminal(IF Refreshed = None THEN "cancelled" ELSE Refreshed)
    /\ woken' = IF Refreshed = None THEN {"reader", "writer"} ELSE woken
    /\ UNCHANGED <<buffer, readerOpen, cancelled, expired, upstream, pumping, control, reading>>

\* reader_close; the supervisor and its handles now belong to the call.
Close ==
    /\ guest = "open"
    /\ readerOpen' = FALSE /\ buffer' = <<>>
    /\ terminal' = (IF terminal = None THEN "cancelled" ELSE terminal)
    /\ token' = TRUE
    /\ woken' = {"reader", "writer"}
    /\ guest' = "closing"
    /\ UNCHANGED <<cancelled, expired, upstream, pumping, control, got, told>>

Returned == IF guest = "closing" THEN "closed" ELSE "failed"

GivesResult(task) == results' = [results EXCEPT ![task] = @ + 1]

\* shutdown's loop, and its counterpart before the headers: until the deadline the end of
\* either task is taken once, and with the last one the call returns.
Join(task) ==
    /\ guest \in {"giveup", "closing"} /\ late = None
    /\ task \notin joined /\ Stopped[task]
    /\ GivesResult(task)
    /\ joined' = joined \cup {task}
    /\ guest' = IF joined' = Task THEN Returned ELSE guest
    /\ UNCHANGED <<shared, cancelled, expired, woken, upstream, pumping, aborting, late, got, told>>

\* Abort a task and await it; the transport comes before the pump.
AbortAndAwait(task) == late' = task /\ aborting' = aborting \cup {task}

\* After three seconds what has not been seen to end is aborted.
JoinTimesOut ==
    /\ guest \in {"giveup", "closing"} /\ late = None
    /\ AbortAndAwait(IF "transport" \notin joined THEN "transport" ELSE "pump")
    /\ UNCHANGED <<shared, cancelled, expired, woken, upstream, pumping, joined, results, reading>>

\* Mutant: only one task is awaited after the deadline.
JoinLateOnce ==
    /\ guest \in {"giveup", "closing"} /\ late # None /\ Stopped[late]
    /\ GivesResult(late)
    /\ guest' = Returned
    /\ UNCHANGED <<shared, cancelled, expired, woken, upstream, pumping, aborting, joined, late, got, told>>

\* The aborted task has ended: on to the pump, or back to the caller.
JoinLate ==
    /\ guest \in {"giveup", "closing"} /\ late # None /\ Stopped[late]
    /\ GivesResult(late)
    /\ IF late = "transport" /\ "pump" \notin joined
       THEN AbortAndAwait("pump") /\ UNCHANGED guest
       ELSE guest' = Returned /\ UNCHANGED <<late, aborting>>
    /\ UNCHANGED <<shared, cancelled, expired, woken, upstream, pumping, joined, got, told>>

\* Mutant: the store goes without its table being cleared.
DropTable ==
    /\ guest # "dropped"
    /\ guest' = "dropped"
    /\ UNCHANGED <<shared, cancelled, expired, woken, upstream, pumping, control, got, told>>

\* The call returns, or its future is dropped at an await, and the store with it: the guard
\* or the table aborts the tasks it holds.  A reader_close that is dropped held the handles.
Drop ==
    /\ guest # "dropped"
    /\ guest' = "dropped"
    /\ IF guest \in {"fetch", "giveup", "open", "read", "wait"}
       THEN /\ token' = TRUE
            /\ aborting' = aborting \cup {task \in Task : ~Stopped[task]}
       ELSE UNCHANGED <<token, aborting>>
    /\ UNCHANGED <<buffer, terminal, readerOpen, cancelled, expired, woken, upstream, pumping,
                   joined, late, results, got, told>>

-----------------------------------------------------------------------------
CancelRequest ==
    /\ ~cancelled /\ cancelled' = TRUE
    /\ UNCHANGED <<shared, expired, woken, upstream, pumping, control, reading>>

Expire ==
    /\ ~expired /\ expired' = TRUE
    /\ UNCHANGED <<shared, cancelled, woken, upstream, pumping, control, reading>>

TransportStep == Started \/ Receive \/ Finished \/ TransportFails \/ SendResult \/ Abort("transport")

PumpStep ==
    \/ PollEvent \/ PollResult \/ AwaitResult \/ Wake \/ Send \/ Resume \/ Terminate
    \/ CancelWriter \/ Abort("pump")

GuestStep ==
    \/ Open \/ GiveUp \/ Read \/ ReaderWakes \/ Look \/ CancelStream \/ Close
    \/ (\E task \in Task : Join(task)) \/ JoinTimesOut \/ JoinLate \/ Drop

Next ==
    \/ TransportStep
    \/ PumpStep \/ PumpTimesOut
    \/ GuestStep \/ ReaderTimesOut
    \/ CancelRequest \/ Expire

Spec == Init /\ [][Next]_vars

\* A task that can run does, and one that was aborted ends; shutdown is woken by the end of a
\* task, and by its timer.
FairSpec ==
    /\ Spec
    /\ WF_vars(PumpStep)
    /\ WF_vars(SendResult) /\ WF_vars(Abort("transport"))
    /\ \A task \in Task : WF_vars(Join(task))
    /\ WF_vars(JoinTimesOut) /\ WF_vars(JoinLate)

-----------------------------------------------------------------------------
(* Properties. *)

\* Nobody waits for what is there: a reader that waits while a frame or an end is in the
\* data, or a pump that waits while there is space or an end, has been notified since it
\* subscribed, sees the request's own token, or is about to be notified by the pump.  (The
\* end that an expiry sets is apart, see ReaderHearsOfExpiry.)
NobodyWaitsInVain ==
    /\ guest = "wait" /\ (buffer # <<>> \/ terminal \notin {None, "expired"})
       => "reader" \in woken \/ cancelled \/ pump = "cancel"
    /\ pump = "blocked" /\ (Len(buffer) < BufferFrames \/ terminal \notin {None, "expired"})
       => "writer" \in woken \/ cancelled

\* A close that has returned, and a fetch that has failed, have seen every task of theirs
\* end, in whatever order the tasks ended, before the deadline or after it, and even with a
\* transport that ignores its token; and no JoinHandle is polled again after its result: "a
\* task whose JoinHandle was already observed is never polled a second time after timeout".
ClosedIsJoined ==
    \A task \in Task :
        /\ results[task] <= 1
        /\ guest \in {"closed", "failed"}
           => Stopped[task] /\ (results[task] = 1 \/ (task = "pump" /\ pump = "none"))

\* A close and a failing fetch come back to their caller, and with a transport that heeds its
\* token no task outlives the invocation, however it ends.
TasksEnd ==
    /\ guest \in {"closing", "giveup"} ~> guest \in {"closed", "failed", "dropped"}
    /\ WF_vars(TransportStops)
       => (guest \in {"closing", "giveup", "dropped"} ~> \A task \in Task : Stopped[task])

\* The guest is told the truth: see StreamContract.
Promise == INSTANCE StreamContract WITH told <- IF told = "missing" THEN "failed" ELSE told
Contract == Promise!Spec

-----------------------------------------------------------------------------
(* What documents and comments say and the code does not keep: see the README. *)

\* "... so a stalled upstream is failed (and the reader notified) before the consumer's
\* backpressure fallback elapses" (network_handle.rs:221).
ReaderHearsOfExpiry ==
    guest = "wait" /\ terminal = "expired" => "reader" \in woken \/ pump \in {"cancel", "terminate"}

\* "... reader close does not leave detached tasks running against a closed consumer": who
\* drops the call has the tasks aborted.
NoDetachedTask == guest = "dropped" => \A task \in Task : Stopped[task] \/ task \in aborting

\* "Terminal precedence after headers is deterministic": a response that was complete when
\* its result arrived is not reported as one without an end.
FinishedIsSeen == terminal # "missing"
=============================================================================
