-------------------------- MODULE BrokerStreamProofs --------------------------
(***************************************************************************)
(* Proofs about BrokerStream, for any length of a response and any         *)
(* capacity of the channel and of the buffer: the guest is told the truth  *)
(* (StreamContract), no wake-up is lost, and a close leaves no task.       *)
(***************************************************************************)
EXTENDS BrokerStream, SequenceTheorems, TLAPS

-----------------------------------------------------------------------------
(* The inductive invariant. *)

\* How the states of the three parties fit together.
Wiring ==
    /\ transport = "running" => ended = None
    /\ headers = None => sent = 0 /\ events = <<>>
    /\ guest \in {"fetch", "giveup", "failed"} => pump = "none"
    /\ aborting # {} => guest \in {"giveup", "closing", "closed", "failed", "dropped"}
    /\ terminal = None => readerOpen
    /\ readerOpen => told = None
    /\ pump \in {"send", "blocked"} => frame.kind = "chunk"
    /\ pump = "terminate" => frame.kind \in {"finished", "failed", "missing"}

\* The chunks in the channel are consecutive up to a refused one, "started" comes first
\* and has the number 0, and "finished" comes last, after everything the server sent.
ChannelInOrder ==
    /\ \A k \in 1 .. Len(events) :
          /\ events[k].n <= sent
          /\ events[k].kind = "started" => k = 1
          /\ events[k].kind = "finished" => k = Len(events) /\ ended = "ok"
    /\ \A k \in 1 .. Len(events) - 1 : events[k].kind \in {"started", "chunk"} =>
          /\ events[k + 1].kind = "chunk" => events[k + 1].n = events[k].n + 1
          /\ events[k + 1].kind = "finished" => sent = events[k].n
    /\ events # <<>> /\ ended # "err" /\ events[Len(events)].kind \in {"started", "chunk"}
          => events[Len(events)].n = sent

\* The pump still takes events for a reader that is there.
Taking ==
    readerOpen /\ pump \in {"none", "poll", "result", "idle", "drained", "send", "blocked"}

InHand == IF pump \in {"send", "blocked"} THEN 1 ELSE 0

\* Chunks the pump has taken from the channel.
Taken == got + Len(buffer) + InHand

\* The buffer continues what was read, the chunk in hand the buffer, and the channel that;
\* a successful end is known only when nothing is missing.
FlowInOrder ==
    /\ \A k \in 1 .. Len(buffer) : buffer[k] = got + k
    /\ got + Len(buffer) <= sent
    /\ readerOpen /\ pump \in {"send", "blocked"} => frame.n = got + Len(buffer) + 1 /\ frame.n <= sent
    /\ Taking /\ events = <<>> /\ ended # "err" => sent = Taken
    /\ Taking /\ events # <<>> =>
          /\ Head(events).kind = "started" => Taken = 0
          /\ Head(events).kind = "chunk" => Head(events).n = Taken + 1
          /\ Head(events).kind = "finished" => sent = Taken
    /\ readerOpen /\ pump = "terminate" /\ frame.kind = "finished"
          => ended = "ok" /\ sent = got + Len(buffer)
    /\ readerOpen /\ terminal = "finished" => ended = "ok" /\ sent = got + Len(buffer)

\* The call has seen the task end, or there never was one.
Over(task) == Stopped[task] /\ (results[task] = 1 \/ (task = "pump" /\ pump = "none"))

\* What the flags of shutdown stand for: before it they are down, in its loop each is the end
\* of a task, past its deadline the awaited task is one without its flag.
Supervised ==
    /\ \A task \in Task : results[task] <= 1
    /\ guest \in {"fetch", "open", "read", "wait"}
       => joined = {} /\ late = None /\ \A task \in Task : results[task] = 0
    /\ guest \in {"giveup", "closing"} =>
          /\ \A task \in joined : Over(task)
          /\ \A task \in Task \ joined : results[task] = 0 \/ (late = "pump" /\ task = "transport")
          /\ late \notin joined
          /\ late = None => joined # Task
          /\ late = "pump" => Over("transport")
    /\ guest \in {"closed", "failed"} => \A task \in Task : Over(task)

IInv ==
    /\ TypeOK
    /\ Wiring
    /\ ChannelInOrder
    /\ FlowInOrder
    /\ Supervised
    /\ NobodyWaitsInVain

-----------------------------------------------------------------------------
LEMMA InitInv == ASSUME Init PROVE IInv
<1> USE StreamAssumption
<1>1. TypeOK
  <2>1. buffer = <<>> /\ buffer \in Seq(1 .. MaxChunks) /\ Len(buffer) = 0
    BY EmptySeq DEF Init
  <2>2. events = <<>> /\ events \in Seq(Event) /\ Len(events) = 0
    BY EmptySeq DEF Init
  <2>3. frame \in {Mark(kind) : kind \in {"finished", "failed", "missing", "none"}}
    BY DEF Init, Nothing
  <2>4. 0 \in 0 .. MaxChunks /\ Len(events) <= EventCap /\ Len(buffer) <= BufferFrames
    BY <2>1, <2>2
  <2> QED BY <2>1, <2>2, <2>3, <2>4, Zenon DEF Init, TypeOK
<1>2. Wiring /\ Supervised /\ NobodyWaitsInVain
  BY DEF Init, Wiring, Supervised, Task, NobodyWaitsInVain
<1>3. ChannelInOrder /\ FlowInOrder
  BY DEF Init, ChannelInOrder, FlowInOrder, Taken, InHand
<1> QED BY <1>1, <1>2, <1>3 DEF IInv

\* A step of a task disturbs no flag: what has ended stays so.
LEMMA SupervisedAside ==
    ASSUME TypeOK, Supervised, UNCHANGED <<joined, late, results, guest>>,
           \A task \in Task : Over(task) => Over(task)'
    PROVE  Supervised'
BY DEF TypeOK, Supervised, Task

-----------------------------------------------------------------------------
(* The transport. *)

\* What an event of the transport does: it reaches the channel, or ends the transport.
Emitted(event) ==
    /\ event \in Event /\ transport = "running" /\ ended = None
    /\ \/ /\ events' = Append(events, event) /\ Len(events) < EventCap
          /\ event.kind = "finished" => transport' = "returning" /\ ended' = "ok"
          /\ event.kind # "finished" => transport' = transport /\ ended' = ended
       \/ events' = events /\ transport' = "returning" /\ ended' = "err"
    /\ UNCHANGED <<shared, cancelled, expired, woken, result, pumping, control, reading>>

\* The number of an event that is not "finished" is the count of chunks sent with it.
Numbered(event) ==
    \/ event = Mark("started") /\ headers = None /\ headers' \in {"ok", "bad"} /\ sent' = sent
    \/ /\ event \in {Chunk(sent + 1), Mark("refused")}
       /\ headers # None /\ headers' = headers
       /\ sent < MaxChunks /\ sent' = sent + 1
    \/ event = Mark("finished") /\ headers # None /\ headers' = headers /\ sent' = sent

LEMMA EmitStep ==
    ASSUME IInv, Started \/ Receive \/ Finished
    PROVE  \E event \in Event : Emitted(event) /\ Numbered(event)
<1> USE StreamAssumption DEF IInv, control
<1>1. transport = "running" /\ ended = None /\ sent \in 0 .. MaxChunks
  BY DEF Started, Receive, Finished, Wiring, TypeOK
<1>2. CASE Started
  <2>1. Mark("started") \in Event
    BY DEF Event
  <2>2. Emitted(Mark("started"))
    BY <1>1, <1>2, <2>1 DEF Started, Emitted, Emit, Return, Mark
  <2> QED BY <1>2, <2>1, <2>2 DEF Started, Numbered
<1>3. CASE Receive
  <2>1. PICK e \in {Chunk(sent + 1), Mark("refused")} : Emit(e)
    BY <1>3 DEF Receive
  <2>2. sent + 1 \in 1 .. MaxChunks
    BY <1>1, <1>3 DEF Receive
  <2>3. e \in Event /\ e.kind # "finished"
    BY <2>1, <2>2 DEF Event, Chunk, Mark
  <2>4. Emitted(e)
    BY <1>1, <1>3, <2>1, <2>3 DEF Receive, Emitted, Emit, Return
  <2> QED BY <1>3, <2>1, <2>3, <2>4 DEF Receive, Numbered
<1>4. CASE Finished
  <2>1. Mark("finished") \in Event
    BY DEF Event
  <2>2. Emitted(Mark("finished"))
    BY <1>1, <1>4, <2>1 DEF Finished, Emitted, Emit, Return, Mark
  <2> QED BY <1>4, <2>1, <2>2 DEF Finished, Numbered
<1> QED BY <1>2, <1>3, <1>4

\* An event that reaches the channel keeps it in order, and so does one that does not.
LEMMA EmitChannel ==
    ASSUME IInv, NEW e \in Event, Emitted(e), Numbered(e)
    PROVE  ChannelInOrder'
<1> USE StreamAssumption DEF IInv, control
<1>1. /\ events \in Seq(Event) /\ sent \in Nat /\ sent' \in {sent, sent + 1} /\ ended = None
      /\ \A k \in 1 .. Len(events) : events[k].n \in Nat /\ events[k].kind # "finished"
  <2>1. /\ events \in Seq(Event) /\ sent \in Nat /\ ended = None
        /\ sent' \in {sent, sent + 1}
    BY DEF TypeOK, Numbered, Emitted
  <2>2. \A v \in Event : v.n \in Nat
    BY DEF Event, Chunk, Mark
  <2>3. \A k \in 1 .. Len(events) : events[k] \in Event
    BY <2>1
  <2>4. \A k \in 1 .. Len(events) : events[k].kind # "finished"
    BY <2>1 DEF ChannelInOrder
  <2> QED BY <2>1, <2>2, <2>3, <2>4
<1>2. CASE events' = events
  <2>1. ended' = "err"
    BY <1>2, AppendProperties, <1>1 DEF Emitted
  <2> QED BY <1>1, <1>2, <2>1 DEF ChannelInOrder
<1>3. CASE events' = Append(events, e) /\ events' # events
  <2>1. /\ Len(events') = Len(events) + 1 /\ Len(events) \in Nat
        /\ \A k \in 1 .. Len(events) : events'[k] = events[k]
        /\ events'[Len(events) + 1] = e
    BY <1>1, <1>3, AppendProperties
  <2>2. \A k \in 1 .. Len(events') : k \in 1 .. Len(events) \/ k = Len(events) + 1
    BY <2>1
  <2>3. e.n \in Nat /\ e.n <= sent' /\ (e.kind # "refused" => e.n = sent' \/ e.kind = "finished")
    BY <1>1, EmitStep DEF Numbered, Chunk, Mark, Wiring
  <2>4. e.kind = "started" => events = <<>>
    BY DEF Numbered, Chunk, Mark, Wiring
  <2>5. e.kind = "finished" => ended' = "ok" /\ sent' = sent
    BY <1>3 DEF Emitted, Numbered, Chunk, Mark
  <2>6. e.kind = "chunk" => e.n = sent + 1
    BY DEF Numbered, Chunk, Mark
  <2>7. \A k \in 1 .. Len(events') :
          /\ events'[k].n <= sent'
          /\ events'[k].kind = "started" => k = 1
          /\ events'[k].kind = "finished" => k = Len(events') /\ ended' = "ok"
    <3> SUFFICES ASSUME NEW k \in 1 .. Len(events')
                 PROVE  /\ events'[k].n <= sent'
                        /\ events'[k].kind = "started" => k = 1
                        /\ events'[k].kind = "finished" => k = Len(events') /\ ended' = "ok"
      OBVIOUS
    <3>1. CASE k \in 1 .. Len(events)
      BY <1>1, <2>1, <3>1 DEF ChannelInOrder
    <3>2. CASE k = Len(events) + 1
      BY <1>1, <2>1, <2>3, <2>4, <2>5, <3>2
    <3> QED BY <2>2, <3>1, <3>2
  <2>8. \A k \in 1 .. Len(events') - 1 : events'[k].kind \in {"started", "chunk"} =>
          /\ events'[k + 1].kind = "chunk" => events'[k + 1].n = events'[k].n + 1
          /\ events'[k + 1].kind = "finished" => sent' = events'[k].n
    <3> SUFFICES ASSUME NEW k \in 1 .. Len(events), events[k].kind \in {"started", "chunk"}
                 PROVE  /\ events'[k + 1].kind = "chunk" => events'[k + 1].n = events[k].n + 1
                        /\ events'[k + 1].kind = "finished" => sent' = events[k].n
      BY <2>1
    <3>1. CASE k < Len(events)
      <4>1. k \in 1 .. Len(events) - 1 /\ k + 1 \in 1 .. Len(events) /\ events'[k + 1] = events[k + 1]
        BY <2>1, <3>1
      <4> QED BY <1>1, <4>1 DEF ChannelInOrder
    <3>2. CASE k = Len(events)
      <4>1. events[k].n = sent /\ events'[k + 1] = e
        BY <1>1, <2>1, <3>2 DEF ChannelInOrder
      <4> QED BY <2>5, <2>6, <4>1
    <3> QED BY <2>1, <3>1, <3>2
  <2> QED BY <2>1, <2>3, <2>7, <2>8 DEF ChannelInOrder
<1> QED BY <1>2, <1>3 DEF Emitted

LEMMA EmitFlow ==
    ASSUME IInv, NEW e \in Event, Emitted(e), Numbered(e)
    PROVE  FlowInOrder'
<1> USE StreamAssumption DEF IInv, control
<1>1. /\ events \in Seq(Event) /\ sent \in Nat /\ sent' \in {sent, sent + 1} /\ ended = None
      /\ got \in Nat /\ Len(buffer) \in Nat /\ InHand \in Nat
      /\ (readerOpen /\ pump \in {"send", "blocked"} => frame.n \in Nat)
  BY DEF TypeOK, Numbered, Emitted, InHand, Chunk, Mark
<1>2. /\ buffer' = buffer /\ got' = got /\ readerOpen' = readerOpen /\ pump' = pump
      /\ frame' = frame /\ terminal' = terminal
  BY DEF Emitted, shared, pumping, reading
<1>3. Taking' = Taking /\ Taken' = Taken /\ InHand' = InHand
  BY <1>2 DEF Taking, Taken, InHand
<1>4. /\ ~(readerOpen /\ pump = "terminate" /\ frame.kind = "finished")
      /\ ~(readerOpen /\ terminal = "finished")
  BY <1>1 DEF FlowInOrder
<1>5. /\ \A k \in 1 .. Len(buffer') : buffer'[k] = got' + k
      /\ got' + Len(buffer') <= sent'
      /\ readerOpen' /\ pump' \in {"send", "blocked"} => frame'.n = got' + Len(buffer') + 1 /\ frame'.n <= sent'
  BY <1>1, <1>2 DEF FlowInOrder
<1>6. CASE events' = events
  <2>1. ended' = "err"
    BY <1>6, <1>1, AppendProperties DEF Emitted
  <2>2. ~ (events # <<>> /\ Head(events).kind = "finished")
    BY <1>1 DEF ChannelInOrder
  <2> QED BY <1>1, <1>2, <1>3, <1>4, <1>5, <1>6, <2>1, <2>2 DEF FlowInOrder
<1>7. CASE events' = Append(events, e)
  <2>1. events' # <<>> /\ (events # <<>> => Head(events') = Head(events)) /\ (events = <<>> => Head(events') = e)
    BY <1>1, <1>7, AppendProperties
  <2>2. ~ (events # <<>> /\ Head(events).kind = "finished")
    BY <1>1 DEF ChannelInOrder
  <2>3. events = <<>> /\ Taking => sent = Taken
    BY <1>1 DEF FlowInOrder
  <2>4. /\ e.kind = "started" => sent = 0
        /\ e.kind = "chunk" => e.n = sent + 1
        /\ e.kind = "finished" => sent' = sent
    BY DEF Numbered, Chunk, Mark, Wiring
  <2> QED BY <1>1, <1>2, <1>3, <1>4, <1>5, <2>1, <2>2, <2>3, <2>4 DEF FlowInOrder
<1> QED BY <1>6, <1>7 DEF Emitted

LEMMA EmitInv ==
    ASSUME IInv, NEW e \in Event, Emitted(e), Numbered(e)
    PROVE  IInv'
<1> USE StreamAssumption DEF IInv, control
<1>1. TypeOK'
  <2>1. events' \in Seq(Event) /\ Len(events') <= EventCap
    <3>1. events \in Seq(Event) /\ Len(events) \in Nat /\ Len(events) <= EventCap
      BY DEF TypeOK
    <3> QED BY <3>1, AppendProperties DEF Emitted
  <2>2. sent' \in 0 .. MaxChunks
    BY DEF Numbered, TypeOK
  <2> QED BY <2>1, <2>2 DEF Emitted, Numbered, TypeOK, shared, pumping, reading
<1>2. Wiring'
  BY DEF Emitted, Numbered, Wiring, TypeOK, shared, pumping, reading
<1>3. Supervised'
  BY DEF Emitted, Supervised, Over, Stopped, Task, pumping, reading
<1>4. NobodyWaitsInVain'
  BY DEF Emitted, NobodyWaitsInVain, shared, pumping, reading
<1> QED BY <1>1, <1>2, <1>3, <1>4, EmitChannel, EmitFlow

\* The transport fails, or reports what it returned.
LEMMA TransportInv ==
    ASSUME IInv, TransportFails \/ SendResult
    PROVE  IInv'
<1> USE StreamAssumption DEF IInv, control
<1>1. /\ UNCHANGED <<shared, cancelled, expired, woken, headers, sent, events, pumping, control,
                     reading>>
      /\ \/ /\ transport = "running" /\ transport' = "returning"
            /\ ended = None /\ ended' = "err" /\ result' = result
         \/ /\ transport = "returning" /\ transport' = "ended"
            /\ ended' = ended /\ result' = ended
  BY DEF TransportFails, Return, SendResult, Wiring
<1>2. TypeOK' /\ Wiring'
  BY <1>1 DEF TypeOK, Wiring, shared, pumping, reading
<1>3. ChannelInOrder'
  BY <1>1 DEF ChannelInOrder
<1>4. FlowInOrder'
  BY <1>1 DEF FlowInOrder, Taking, Taken, InHand, shared, pumping, reading
<1>5. Supervised'
  <2>1. Over("transport") => Over("transport")'
    BY <1>1 DEF Over, Stopped, pumping
  <2>2. Over("pump") => Over("pump")'
    BY <1>1 DEF Over, Stopped, pumping
  <2>3. \A task \in Task : Over(task) => Over(task)'
    BY <2>1, <2>2 DEF Task
  <2> QED BY <1>1, <2>3, SupervisedAside DEF reading
<1>6. NobodyWaitsInVain'
  BY <1>1 DEF NobodyWaitsInVain, shared, pumping, reading
<1> QED BY <1>2, <1>3, <1>4, <1>5, <1>6

\* A task whose abort was scheduled ends.
LEMMA AbortInv ==
    ASSUME IInv, NEW task \in Task, Abort(task)
    PROVE  IInv'
<1> USE StreamAssumption DEF IInv, control
<1>1. /\ UNCHANGED <<shared, cancelled, expired, woken, headers, sent, ended, result, events,
                     frame, control, reading>>
      /\ pump' \in {pump, "aborted"} /\ transport' \in {transport, "aborted"}
      /\ aborting # {} /\ (pump = "none" => pump' = pump)
      /\ transport \in {"ended", "aborted"} => transport' = transport
      /\ pump \in {"ended", "aborted"} => pump' = pump
  <2>1. CASE task = "pump"
    <3>1. pump \notin {"none", "ended", "aborted"}
      BY <2>1 DEF Abort, Stopped
    <3> QED BY <2>1, <3>1 DEF Abort
  <2>2. CASE task = "transport"
    <3>1. transport \notin {"ended", "aborted"}
      BY <2>2 DEF Abort, Stopped
    <3> QED BY <2>2, <3>1 DEF Abort
  <2> QED BY <2>1, <2>2 DEF Task
<1>2. TypeOK'
  BY <1>1 DEF TypeOK, shared, reading
<1>3. Wiring' /\ NobodyWaitsInVain'
  BY <1>1 DEF Wiring, NobodyWaitsInVain, shared, reading
<1>4. ChannelInOrder'
  BY <1>1 DEF ChannelInOrder
<1>5. FlowInOrder'
  BY <1>1 DEF FlowInOrder, Taking, Taken, InHand, shared, reading
<1>6. Supervised'
  <2>1. Over("transport") => Over("transport")'
    BY <1>1 DEF Over, Stopped
  <2>2. Over("pump") => Over("pump")'
    BY <1>1 DEF Over, Stopped
  <2>3. \A each \in Task : Over(each) => Over(each)'
    BY <2>1, <2>2 DEF Task
  <2> QED BY <1>1, <2>3, SupervisedAside DEF reading
<1> QED BY <1>2, <1>3, <1>4, <1>5, <1>6

-----------------------------------------------------------------------------
(* The pump. *)

\* The pump moves on, takes nothing and sends nothing.
LEMMA PumpMovesInv ==
    ASSUME IInv, PollResult \/ AwaitResult \/ Wake \/ PumpTimesOut \/ Resume
    PROVE  IInv'
<1> USE StreamAssumption DEF IInv, control
<1>1. /\ UNCHANGED <<shared, cancelled, expired, woken, upstream, control, reading>>
      /\ pump \in {"result", "drained", "idle", "blocked", "poll", "send"} /\ guest' = guest
      /\ \/ pump' = "terminate" /\ frame' \in {Mark("missing"), Mark("failed")}
         \/ pump' \in {"idle", "poll"} /\ frame' = Nothing /\ pump \in {"result", "idle"}
         \/ pump' = "send" /\ frame' = frame /\ pump = "blocked"
         \/ pump' = "cancel" /\ frame' = Nothing /\ pump = "blocked"
  BY DEF PollResult, AwaitResult, Wake, PumpTimesOut, Resume, PumpTo, Outcome, reading
<1>2. TypeOK'
  BY <1>1 DEF TypeOK, Nothing, shared, upstream, reading
<1>3. Wiring' /\ NobodyWaitsInVain' /\ ChannelInOrder'
  BY <1>1 DEF Wiring, NobodyWaitsInVain, ChannelInOrder, shared, upstream, reading, Mark
<1>4. FlowInOrder'
  BY <1>1 DEF FlowInOrder, Taking, Taken, InHand, shared, upstream, reading, Mark
<1>5. Supervised'
  BY <1>1 DEF Supervised, Over, Stopped, Task, upstream, reading
<1> QED BY <1>2, <1>3, <1>4, <1>5

\* The pump takes the next event, if there is one and nothing is cancelled.
LEMMA PollEventInv == ASSUME IInv, PollEvent PROVE IInv'
<1> USE StreamAssumption DEF IInv, control
<1>1. /\ UNCHANGED <<shared, cancelled, expired, woken, transport, headers, sent, ended, result,
                     control, reading>>
      /\ pump = "poll" /\ guest' = guest
  BY DEF PollEvent, reading
<1>2. /\ events \in Seq(Event) /\ Len(events) \in Nat /\ sent \in Nat /\ got \in Nat
      /\ Len(buffer) \in Nat /\ Taken = got + Len(buffer)
  BY <1>1 DEF TypeOK, Taken, InHand
<1>3. CASE events' = events /\ pump' \in {"cancel", "result", "drained"} /\ frame' = Nothing
  <2>1. TypeOK'
    BY <1>1, <1>3 DEF TypeOK, Nothing, shared, reading
  <2>2. Wiring' /\ NobodyWaitsInVain' /\ ChannelInOrder'
    BY <1>1, <1>3 DEF Wiring, NobodyWaitsInVain, ChannelInOrder, shared, reading
  <2>3. FlowInOrder'
    BY <1>1, <1>3 DEF FlowInOrder, Taking, Taken, InHand, shared, reading
  <2>4. Supervised'
    BY <1>1, <1>3 DEF Supervised, Over, Stopped, Task, reading
  <2> QED BY <2>1, <2>2, <2>3, <2>4
<1>4. CASE events # <<>> /\ events' = Tail(events)
           /\ \/ Head(events).kind = "started" /\ pump' = "poll" /\ frame' = Nothing
              \/ Head(events).kind = "refused" /\ pump' = "terminate" /\ frame' = Mark("failed")
              \/ Head(events).kind = "finished" /\ pump' = "terminate" /\ frame' = Mark("finished")
              \/ Head(events).kind = "chunk" /\ pump' = "send" /\ frame' = Head(events)
  <2>1. /\ Head(events) \in Event /\ events' \in Seq(Event) /\ Head(events) = events[1]
        /\ Len(events') = Len(events) - 1
        /\ \A k \in 1 .. Len(events') : events'[k] = events[k + 1]
        /\ Len(events') <= EventCap
        /\ Len(events) >= 1
    BY <1>2, <1>4, HeadTailProperties DEF TypeOK
  <2>2. Head(events).n \in Nat /\ Head(events).n <= sent
    BY <1>2, <2>1 DEF ChannelInOrder, Event, Chunk, Mark
  <2>3. TypeOK'
    <3>1. Head(events).kind = "chunk" => Head(events) \in {Chunk(n) : n \in 1 .. MaxChunks}
      BY <2>1 DEF Event, Chunk, Mark
    <3>2. frame' \in {Chunk(n) : n \in 1 .. MaxChunks}
                      \cup {Mark(kind) : kind \in {"finished", "failed", "missing", "none"}}
      BY <1>4, <3>1 DEF Nothing
    <3> QED BY <1>1, <1>4, <2>1, <3>2 DEF TypeOK, shared, reading
  <2>4. Wiring' /\ NobodyWaitsInVain'
    BY <1>1, <1>4 DEF Wiring, NobodyWaitsInVain, shared, reading, Mark
  <2>5. Supervised'
    BY <1>1, <1>4 DEF Supervised, Over, Stopped, Task, reading
  <2>6. ChannelInOrder'
    <3>1. \A k \in 1 .. Len(events') : k + 1 \in 1 .. Len(events)
      BY <1>2, <2>1
    <3>2. \A k \in 1 .. Len(events') :
            /\ events'[k].n <= sent
            /\ events'[k].kind # "started"
            /\ events'[k].kind = "finished" => k = Len(events') /\ ended = "ok"
      BY <1>2, <2>1, <3>1, SMTT(30) DEF ChannelInOrder
    <3>3. \A k \in 1 .. Len(events') - 1 : events'[k].kind \in {"started", "chunk"} =>
            /\ events'[k + 1].kind = "chunk" => events'[k + 1].n = events'[k].n + 1
            /\ events'[k + 1].kind = "finished" => sent = events'[k].n
      <4> SUFFICES ASSUME NEW k \in 1 .. Len(events') - 1, events'[k].kind \in {"started", "chunk"}
                   PROVE  /\ events'[k + 1].kind = "chunk" => events'[k + 1].n = events'[k].n + 1
                          /\ events'[k + 1].kind = "finished" => sent = events'[k].n
        OBVIOUS
      <4>1. /\ k + 1 \in 1 .. Len(events) - 1 /\ k + 1 \in 1 .. Len(events')
            /\ events'[k] = events[k + 1] /\ events'[k + 1] = events[(k + 1) + 1]
        BY <1>2, <2>1
      <4> QED BY <4>1 DEF ChannelInOrder
    <3>4. events' # <<>> => Len(events') >= 1 /\ events'[Len(events')] = events[Len(events)]
      BY <1>2, <2>1
    <3>5. events' # <<>> /\ ended # "err" /\ events'[Len(events')].kind \in {"started", "chunk"}
            => events'[Len(events')].n = sent
      BY <1>4, <3>4 DEF ChannelInOrder
    <3> QED BY <1>1, <3>2, <3>3, <3>5 DEF ChannelInOrder
  <2>7. FlowInOrder'
    <3>1. Taking => /\ Head(events).kind = "started" => Taken = 0 /\ Head(events).n = 0
                    /\ Head(events).kind = "chunk" => Head(events).n = Taken + 1
                    /\ Head(events).kind = "finished" => sent = Taken /\ ended = "ok"
      <4>1. Head(events).kind = "started" => Head(events).n = 0
        BY <2>1 DEF Event, Chunk, Mark
      <4>2. Head(events).kind = "finished" => ended = "ok"
        BY <1>2, <2>1 DEF ChannelInOrder
      <4> QED BY <1>4, <4>1, <4>2 DEF FlowInOrder
    <3>2. Taking <=> readerOpen
      BY <1>1 DEF Taking
    <3>3. Taking' => /\ Head(events).kind \in {"started", "chunk"} /\ readerOpen
                     /\ Taken' = Head(events).n
      BY <1>1, <1>2, <1>4, <3>1, <3>2 DEF Taking, Taken, InHand, shared, reading
    <3>4. events' = <<>> /\ ended # "err" /\ Taking' => sent = Head(events).n
      <4> SUFFICES ASSUME events' = <<>>, ended # "err", Taking'
                   PROVE  sent = Head(events).n
        OBVIOUS
      <4>1. Len(events) = 1
        BY <1>2, <2>1, EmptySeq
      <4> QED BY <1>4, <2>1, <3>3, <4>1 DEF ChannelInOrder
    <3>5. events' # <<>> /\ Taking' =>
            /\ Head(events').kind # "started"
            /\ Head(events').kind = "chunk" => Head(events').n = Head(events).n + 1
            /\ Head(events').kind = "finished" => sent = Head(events).n
      <4> SUFFICES ASSUME events' # <<>>, Taking'
                   PROVE  /\ Head(events').kind # "started"
                          /\ Head(events').kind = "chunk" => Head(events').n = Head(events).n + 1
                          /\ Head(events').kind = "finished" => sent = Head(events).n
        OBVIOUS
      <4>1. Len(events) >= 2 /\ Head(events') = events[2]
        BY <1>2, <2>1, HeadTailProperties
      <4>2. 1 \in 1 .. Len(events) - 1 /\ 2 \in 1 .. Len(events) /\ 1 + 1 = 2
        BY <1>2, <4>1
      <4> QED BY <2>1, <3>3, <4>1, <4>2 DEF ChannelInOrder
    <3>6. /\ \A k \in 1 .. Len(buffer') : buffer'[k] = got' + k
          /\ got' + Len(buffer') <= sent'
          /\ readerOpen' /\ terminal' = "finished" => ended' = "ok" /\ sent' = got' + Len(buffer')
      BY <1>1 DEF FlowInOrder, shared, reading
    <3>7. readerOpen' /\ pump' \in {"send", "blocked"}
            => frame'.n = got' + Len(buffer') + 1 /\ frame'.n <= sent'
      BY <1>1, <1>2, <1>4, <2>2, <3>1, <3>2 DEF shared, reading
    <3>8. readerOpen' /\ pump' = "terminate" /\ frame'.kind = "finished"
            => ended' = "ok" /\ sent' = got' + Len(buffer')
      BY <1>1, <1>2, <1>4, <3>1, <3>2 DEF shared, reading, Mark
    <3> QED BY <1>1, <3>3, <3>4, <3>5, <3>6, <3>7, <3>8 DEF FlowInOrder
  <2> QED BY <2>3, <2>4, <2>5, <2>6, <2>7
<1> QED
  <2>1. \A v \in Event : v.kind \in {"started", "refused", "finished", "chunk"}
    BY DEF Event, Chunk, Mark
  <2>2. events # <<>> => Head(events) \in Event
    BY <1>2, HeadTailProperties
  <2> QED BY <1>3, <1>4, <2>1, <2>2 DEF PollEvent, PumpTo

\* The pump sends the chunk in its hand, waits for space, or finds the stream ended.
LEMMA SendInv == ASSUME IInv, Send PROVE IInv'
<1> USE StreamAssumption DEF IInv, control
<1>1. /\ UNCHANGED <<readerOpen, cancelled, expired, upstream, control, reading>>
      /\ pump = "send" /\ frame.kind = "chunk" /\ guest' = guest /\ got' = got
      /\ sent' = sent /\ ended' = ended /\ events' = events
      /\ terminal' = Refreshed /\ token' \in BOOLEAN
  BY DEF Send, SetTerminal, TypeOK, Wiring, upstream, reading
<1>2. /\ sent \in Nat /\ got \in Nat /\ Len(buffer) \in Nat /\ buffer \in Seq(1 .. MaxChunks)
      /\ frame.n \in 1 .. MaxChunks
      /\ Refreshed \in Terminal \cup {None}
      /\ Refreshed # terminal => terminal = None /\ (Refreshed = "expired" \/ cancelled)
      /\ Refreshed = "finished" => terminal = "finished"
  <2>1. frame \in {Chunk(n) : n \in 1 .. MaxChunks}
    BY <1>1 DEF TypeOK, Mark
  <2> QED BY <2>1 DEF TypeOK, Refreshed, Chunk, Terminal
<1>3. CASE Refreshed # None
  <2>1. /\ buffer' = buffer /\ woken' = woken
        /\ \/ pump' = "cancel" /\ frame' = Nothing
           \/ pump' = "terminate" /\ frame' = Mark("failed")
    BY <1>3 DEF Send, PumpTo
  <2>2. TypeOK' /\ Wiring'
    BY <1>1, <1>2, <1>3, <2>1 DEF TypeOK, Wiring, Nothing, Mark, upstream, reading
  <2>3. ChannelInOrder' /\ Supervised'
    BY <1>1, <2>1 DEF ChannelInOrder, Supervised, Over, Stopped, Task, upstream
  <2>4. FlowInOrder'
    BY <1>1, <1>2, <2>1 DEF FlowInOrder, Taking, Mark
  <2>5. NobodyWaitsInVain'
    BY <1>1, <1>2, <2>1 DEF NobodyWaitsInVain
  <2> QED BY <2>2, <2>3, <2>4, <2>5
<1>4. CASE Refreshed = None /\ HasSpace
  <2>1. /\ buffer' = Append(buffer, frame.n) /\ woken' = woken \cup {"reader"}
        /\ pump' = "poll" /\ frame' = Nothing /\ terminal' = None /\ terminal = None /\ readerOpen
    BY <1>1, <1>2, <1>4 DEF Send, PumpTo, Wiring
  <2>2. /\ buffer' \in Seq(1 .. MaxChunks) /\ Len(buffer') = Len(buffer) + 1
        /\ Len(buffer') <= BufferFrames
        /\ \A k \in 1 .. Len(buffer) : buffer'[k] = buffer[k]
        /\ buffer'[Len(buffer) + 1] = frame.n
    BY <1>2, <1>4, <2>1, AppendProperties DEF HasSpace
  <2>3. TypeOK' /\ Wiring'
    BY <1>1, <2>1, <2>2 DEF TypeOK, Wiring, Nothing, Mark, upstream, reading
  <2>4. ChannelInOrder' /\ Supervised' /\ NobodyWaitsInVain'
    BY <1>1, <2>1 DEF ChannelInOrder, Supervised, Over, Stopped, Task, NobodyWaitsInVain, upstream
  <2>5. frame.n = got + Len(buffer) + 1 /\ frame.n <= sent
    BY <1>1, <2>1 DEF FlowInOrder
  <2>6. \A k \in 1 .. Len(buffer') : buffer'[k] = got + k
    <3>1. \A k \in 1 .. Len(buffer') : k \in 1 .. Len(buffer) \/ k = Len(buffer) + 1
      BY <1>2, <2>2
    <3>2. \A k \in 1 .. Len(buffer) : buffer[k] = got + k
      BY DEF FlowInOrder
    <3>3. ASSUME NEW k \in 1 .. Len(buffer'), k = Len(buffer) + 1
          PROVE  buffer'[k] = got + k
      BY <1>2, <2>2, <2>5, <3>3
    <3>4. ASSUME NEW k \in 1 .. Len(buffer) PROVE buffer'[k] = got + k
      BY <2>2, <3>2
    <3> QED BY <3>1, <3>3, <3>4
  <2>7. Taken' = Taken /\ Taking' /\ Taking
    BY <1>1, <1>2, <2>1, <2>2 DEF Taken, Taking, InHand
  <2> QED BY <1>1, <1>2, <2>1, <2>2, <2>3, <2>4, <2>5, <2>6, <2>7 DEF FlowInOrder
<1>5. CASE Refreshed = None /\ ~HasSpace
  <2>1. /\ buffer' = buffer /\ woken' = woken \ {"writer"}
        /\ pump' = "blocked" /\ frame' = frame /\ terminal' = None /\ terminal = None
    BY <1>1, <1>2, <1>5 DEF Send, PumpTo
  <2>2. TypeOK' /\ Wiring'
    BY <1>1, <2>1 DEF TypeOK, Wiring, upstream, reading
  <2>3. ChannelInOrder' /\ Supervised'
    BY <1>1, <2>1 DEF ChannelInOrder, Supervised, Over, Stopped, Task, upstream
  <2>4. NobodyWaitsInVain'
    BY <1>1, <1>2, <1>5, <2>1 DEF NobodyWaitsInVain, HasSpace
  <2>5. FlowInOrder'
    BY <1>1, <2>1 DEF FlowInOrder, Taking, Taken, InHand
  <2> QED BY <2>2, <2>3, <2>4, <2>5
<1> QED BY <1>3, <1>4, <1>5

\* The pump ends the stream.
LEMMA TerminateInv == ASSUME IInv, Terminate \/ CancelWriter PROVE IInv'
<1> USE StreamAssumption DEF IInv, control
<1>1. /\ UNCHANGED <<buffer, readerOpen, cancelled, expired, upstream, control, reading>>
      /\ pump \in {"terminate", "cancel"} /\ pump' = "ended" /\ frame' = Nothing /\ guest' = guest
      /\ token' \in BOOLEAN /\ woken' \in {woken, {"reader", "writer"}}
      /\ got' = got /\ sent' = sent /\ ended' = ended /\ told' = told
  BY DEF Terminate, CancelWriter, SetTerminal, PumpTo, TypeOK, upstream, reading
<1>2. /\ terminal' \in Terminal
      /\ terminal # None => terminal' = terminal
      /\ terminal' = "finished" => terminal = "finished" \/ (pump = "terminate" /\ frame.kind = "finished")
      /\ woken' = {"reader", "writer"} \/ terminal' = terminal \/ terminal' = "expired" \/ cancelled
      /\ woken' = {"reader", "writer"} \/ pump # "cancel"
  BY DEF Terminate, CancelWriter, SetTerminal, Refreshed, TypeOK, Terminal, Wiring
<1>3. TypeOK' /\ Wiring'
  <2>1. terminal' # None
    BY <1>2 DEF Terminal
  <2>2. TypeOK'
    BY <1>1, <1>2 DEF TypeOK, Nothing, upstream, reading
  <2> QED BY <1>1, <2>1, <2>2 DEF Wiring, upstream, reading
<1>4. ChannelInOrder' /\ Supervised'
  <2>1. transport' = transport /\ ChannelInOrder'
    BY <1>1 DEF Terminate, CancelWriter, upstream, ChannelInOrder
  <2>2. \A task \in Task : Over(task) => Over(task)'
    BY <1>1, <2>1 DEF Over, Stopped, Task
  <2> QED BY <1>1, <2>1, <2>2, SupervisedAside DEF reading
<1>5. FlowInOrder'
  BY <1>1, <1>2 DEF FlowInOrder, Taking
<1>6. NobodyWaitsInVain'
  BY <1>1, <1>2 DEF NobodyWaitsInVain
<1> QED BY <1>3, <1>4, <1>5, <1>6

-----------------------------------------------------------------------------
(* The invocation. *)

LEMMA OpenInv == ASSUME IInv, Open \/ GiveUp PROVE IInv'
<1> USE StreamAssumption DEF IInv, control
<1>1. /\ UNCHANGED <<buffer, readerOpen, cancelled, expired, woken, upstream, frame, aborting, late,
                     results, got, told>>
      /\ guest = "fetch" /\ pump = "none" /\ token' \in BOOLEAN
      /\ \/ guest' = "open" /\ pump' = "poll" /\ terminal' = terminal /\ joined' = joined
         \/ guest' = "giveup" /\ pump' = pump /\ terminal' \in {"failed", "cancelled"}
            /\ joined' = {"pump"}
  BY DEF Open, GiveUp, SetTerminal, TypeOK, Wiring, shared, pumping
<1>2. TypeOK' /\ Wiring'
  <2>1. joined' \in SUBSET Task
    BY <1>1 DEF TypeOK, Task
  <2>2. pump' \in {"none", "poll"} /\ guest' \in {"open", "giveup"} /\ terminal' \in Terminal \cup {None}
    BY <1>1 DEF TypeOK, Terminal
  <2>3. Wiring'
    BY <1>1 DEF Wiring, Terminal, upstream
  <2> QED BY <1>1, <2>1, <2>2, <2>3 DEF TypeOK, upstream
<1>3. ChannelInOrder' /\ Supervised'
  <2>1. joined = {} /\ late = None /\ \A task \in Task : results[task] = 0
    BY <1>1 DEF Supervised
  <2>2. ASSUME guest' = "open" PROVE Supervised'
    <3>1. joined' = {} /\ late' = None /\ \A task \in Task : results'[task] = 0
      BY <1>1, <2>1, <2>2
    <3>2. \A task \in Task : results'[task] <= 1
      BY <3>1
    <3>3. guest' \notin {"giveup", "closing", "closed", "failed"}
      BY <2>2
    <3> QED BY <3>1, <3>2, <3>3, Zenon DEF Supervised
  <2>3. ASSUME guest' = "giveup" PROVE Supervised'
    <3>1. pump' = "none" /\ joined' = {"pump"} /\ Over("pump")'
      BY <1>1, <2>3 DEF Over, Stopped
    <3>2. late' = None /\ \A task \in Task : results'[task] = 0
      BY <1>1, <2>1
    <3>3. \A task \in joined' : Over(task)'
      BY <3>1
    <3>4. "transport" \notin joined' /\ joined' # Task /\ late' \notin joined'
      BY <3>1, <3>2 DEF Task
    <3>5. \A task \in Task : results'[task] <= 1
      BY <3>2
    <3>6. late' # "pump"
      BY <3>2
    <3>7. guest' \notin {"fetch", "open", "read", "wait", "closed", "failed"}
      BY <2>3
    <3> QED BY <3>2, <3>3, <3>4, <3>5, <3>6, <3>7, Zenon DEF Supervised
  <2>4. ChannelInOrder'
    BY <1>1 DEF ChannelInOrder, upstream
  <2> QED BY <1>1, <2>2, <2>3, <2>4
<1>4. FlowInOrder'
  BY <1>1 DEF FlowInOrder, Taking, Taken, InHand, upstream
<1>5. NobodyWaitsInVain'
  BY <1>1 DEF NobodyWaitsInVain
<1> QED BY <1>2, <1>3, <1>4, <1>5

\* The guest reads a chunk, hears of the end, or waits.
LEMMA ReadInv == ASSUME IInv, Read PROVE IInv'
<1> USE StreamAssumption DEF IInv, control
<1>1. /\ UNCHANGED <<cancelled, expired, upstream, pumping, control>>
      /\ guest \in {"open", "read"} /\ readerOpen /\ terminal' = Refreshed /\ token' \in BOOLEAN
      /\ sent' = sent /\ ended' = ended /\ events' = events /\ pump' = pump /\ frame' = frame
  BY DEF Read, SetTerminal, TypeOK, upstream, pumping
<1>2. /\ sent \in Nat /\ got \in Nat /\ Len(buffer) \in Nat /\ buffer \in Seq(1 .. MaxChunks)
      /\ Refreshed \in Terminal \cup {None}
      /\ terminal # None => Refreshed = terminal
      /\ Refreshed = "finished" => terminal = "finished"
      /\ Refreshed # terminal => terminal = None /\ (Refreshed = "expired" \/ cancelled)
      /\ pump \in {"send", "blocked"} => frame.n \in Nat
  BY <1>1 DEF TypeOK, Refreshed, Terminal, FlowInOrder, Chunk, Mark, Wiring
<1>3. ChannelInOrder'
  BY <1>1 DEF ChannelInOrder
<1>4. CASE buffer # <<>>
  <2>1. /\ got' = Head(buffer) /\ buffer' = Tail(buffer) /\ woken' = woken \cup {"writer"}
        /\ guest' = "open" /\ told' = told /\ readerOpen' = readerOpen
    BY <1>4 DEF Read
  <2>2. /\ Len(buffer) >= 1 /\ Head(buffer) = buffer[1] /\ Head(buffer) \in 1 .. MaxChunks
        /\ buffer' \in Seq(1 .. MaxChunks) /\ Len(buffer') = Len(buffer) - 1
        /\ \A k \in 1 .. Len(buffer') : buffer'[k] = buffer[k + 1]
    BY <1>2, <1>4, <2>1, HeadTailProperties
  <2>3. TypeOK' /\ Wiring'
    BY <1>1, <1>2, <2>1, <2>2 DEF TypeOK, Wiring, upstream, pumping
  <2>4. got' = got + 1
    BY <1>2, <2>1, <2>2 DEF FlowInOrder
  <2>5. \A k \in 1 .. Len(buffer') : buffer'[k] = got' + k
    <3>1. \A k \in 1 .. Len(buffer') : k + 1 \in 1 .. Len(buffer) /\ k \in Nat
      BY <1>2, <2>2
    <3>2. \A k \in 1 .. Len(buffer') : buffer'[k] = got + (k + 1)
      BY <2>2, <3>1 DEF FlowInOrder
    <3> QED BY <1>2, <2>4, <3>1, <3>2
  <2>6. got' + Len(buffer') = got + Len(buffer)
    BY <1>2, <2>2, <2>4
  <2>7. InHand' = InHand /\ Taken' = Taken /\ (Taking' <=> Taking)
    <3>1. InHand' = InHand /\ (Taking' <=> Taking)
      BY <1>1, <2>1 DEF InHand, Taking
    <3> QED BY <2>6, <3>1 DEF Taken
  <2>8. FlowInOrder'
    BY <1>1, <1>2, <2>1, <2>5, <2>6, <2>7 DEF FlowInOrder
  <2>9. Supervised' /\ NobodyWaitsInVain'
    BY <1>1, <2>1 DEF Supervised, Over, Stopped, Task, NobodyWaitsInVain, upstream
  <2> QED BY <1>3, <2>3, <2>8, <2>9
<1>5. CASE buffer = <<>> /\ Refreshed # None
  <2>1. /\ told' = Refreshed /\ readerOpen' = FALSE /\ guest' = "open"
        /\ buffer' = buffer /\ woken' = woken /\ got' = got
    BY <1>5 DEF Read
  <2>2. TypeOK'
    <3>1. readerOpen' \in BOOLEAN
      BY <2>1
    <3> QED BY <1>1, <1>2, <1>5, <2>1, <3>1 DEF TypeOK, upstream, pumping
  <2>5. Wiring'
    BY <1>1, <1>5, <2>1 DEF Wiring, upstream, pumping
  <2>3. FlowInOrder'
    BY <1>1, <2>1 DEF FlowInOrder, Taking
  <2>4. Supervised' /\ NobodyWaitsInVain'
    BY <1>1, <1>2, <2>1 DEF Supervised, Over, Stopped, Task, NobodyWaitsInVain, upstream
  <2> QED BY <1>3, <2>2, <2>3, <2>4, <2>5
<1>6. CASE buffer = <<>> /\ Refreshed = None
  <2>1. /\ told' = told /\ readerOpen' = readerOpen /\ guest' = "wait"
        /\ buffer' = buffer /\ woken' = woken \ {"reader"} /\ got' = got
        /\ terminal = None /\ terminal' = None
    BY <1>1, <1>2, <1>6 DEF Read
  <2>2. TypeOK' /\ Wiring'
    BY <1>1, <2>1 DEF TypeOK, Wiring, upstream, pumping
  <2>3. FlowInOrder'
    BY <1>1, <2>1 DEF FlowInOrder, Taking, Taken, InHand
  <2>4. Supervised' /\ NobodyWaitsInVain'
    BY <1>1, <1>6, <2>1 DEF Supervised, Over, Stopped, Task, NobodyWaitsInVain, upstream
  <2> QED BY <1>3, <2>2, <2>3, <2>4
<1> QED BY <1>4, <1>5, <1>6

\* What else changes the stream's state without moving a chunk.
LEMMA LookInv ==
    ASSUME IInv, Look \/ CancelStream \/ ReaderWakes \/ ReaderTimesOut \/ CancelRequest \/ Expire
    PROVE  IInv'
<1> USE StreamAssumption DEF IInv, control
<1>0. /\ token \in BOOLEAN /\ expired \in BOOLEAN /\ terminal \in Terminal \cup {None}
      /\ Refreshed \in Terminal \cup {None}
      /\ Refreshed # None \/ terminal = None
      /\ terminal # None => Refreshed = terminal
      /\ Refreshed = "finished" => terminal = "finished"
      /\ Refreshed # terminal => cancelled \/ Refreshed = "expired"
  BY DEF TypeOK, Refreshed, Terminal
<1>1. /\ UNCHANGED <<buffer, readerOpen, upstream, pumping, control, got, told>>
      /\ token' \in BOOLEAN /\ expired' \in BOOLEAN /\ cancelled' \in {cancelled, TRUE}
      /\ woken' \in {woken, {"reader", "writer"}}
      /\ guest' = guest \/ (guest = "wait" /\ guest' \in {"read", "open"})
      /\ terminal' \in Terminal \cup {None}
      /\ terminal # None => terminal' = terminal
      /\ terminal' = "finished" => terminal = "finished"
      /\ terminal' # terminal => woken' = {"reader", "writer"} \/ cancelled \/ terminal' = "expired"
  <2>1. CASE Look
    BY <1>0, <2>1 DEF Look, SetTerminal, reading
  <2>2. CASE CancelStream
    BY <1>0, <2>2 DEF CancelStream, SetTerminal, reading, Terminal
  <2>3. CASE ReaderWakes \/ ReaderTimesOut \/ CancelRequest \/ Expire
    BY <1>0, <2>3 DEF ReaderWakes, ReaderTimesOut, CancelRequest, Expire, shared, reading
  <2> QED BY <2>1, <2>2, <2>3
<1>2. TypeOK'
  <2>1. cancelled' \in BOOLEAN
    BY <1>1, Zenon DEF TypeOK
  <2>2. woken' \in SUBSET {"reader", "writer"}
    BY <1>1 DEF TypeOK
  <2>3. guest' \in {"fetch", "giveup", "failed", "open", "read", "wait", "closing", "closed", "dropped"}
    <3>1. guest' \in {guest, "read", "open"}
      BY <1>1
    <3> QED BY <3>1 DEF TypeOK
  <2> QED BY <1>1, <2>1, <2>2, <2>3 DEF TypeOK, upstream, pumping
<1>3. Wiring'
  BY <1>1 DEF Wiring, upstream, pumping
<1>4. ChannelInOrder' /\ Supervised'
  BY <1>1 DEF ChannelInOrder, Supervised, Over, Stopped, Task, upstream, pumping
<1>5. FlowInOrder'
  BY <1>1 DEF FlowInOrder, Taking, Taken, InHand, upstream, pumping
<1>6. NobodyWaitsInVain'
  <2>1. cancelled => cancelled'
    BY <1>1, Zenon
  <2> QED BY <1>1, <2>1 DEF NobodyWaitsInVain, pumping
<1> QED BY <1>2, <1>3, <1>4, <1>5, <1>6

LEMMA CloseInv == ASSUME IInv, Close PROVE IInv'
<1> USE StreamAssumption DEF IInv, control
<1>1. /\ UNCHANGED <<cancelled, expired, upstream, pumping, control, got, told>>
      /\ readerOpen' = FALSE /\ buffer' = <<>> /\ terminal' \in Terminal
      /\ token' = TRUE /\ woken' = {"reader", "writer"} /\ guest = "open" /\ guest' = "closing"
  BY DEF Close, TypeOK, Terminal
<1>2. buffer' \in Seq(1 .. MaxChunks) /\ Len(buffer') = 0 /\ got + 0 <= sent /\ 0 <= BufferFrames
  BY <1>1, EmptySeq DEF TypeOK, FlowInOrder
<1>3. TypeOK' /\ Wiring'
  <2>1. terminal' # None
    BY <1>1 DEF Terminal
  <2>2. TypeOK'
    <3>1. readerOpen' \in BOOLEAN /\ token' \in BOOLEAN
      BY <1>1
    <3> QED BY <1>1, <1>2, <3>1 DEF TypeOK, upstream, pumping
  <2>3. readerOpen => told = None
    BY DEF Wiring
  <2> QED BY <1>1, <2>1, <2>2, <2>3 DEF Wiring, upstream, pumping
<1>4. ChannelInOrder' /\ Supervised' /\ NobodyWaitsInVain'
  BY <1>1 DEF ChannelInOrder, Supervised, Over, Stopped, Task, NobodyWaitsInVain, upstream, pumping
<1>5. FlowInOrder'
  BY <1>1, <1>2 DEF FlowInOrder, Taking, upstream, pumping
<1> QED BY <1>3, <1>4, <1>5

\* Shutdown, in its loop and past its deadline.
LEMMA JoinInv ==
    ASSUME IInv, (\E task \in Task : Join(task)) \/ JoinTimesOut \/ JoinLate
    PROVE  IInv'
<1> USE StreamAssumption DEF IInv, control
<1>1. /\ UNCHANGED <<shared, cancelled, expired, woken, upstream, pumping, got, told>>
      /\ guest \in {"giveup", "closing"} /\ guest' \in {guest, Returned}
  BY DEF Join, JoinTimesOut, JoinLate, reading
<1>2. results \in [Task -> Nat] /\ joined \in SUBSET Task /\ aborting \in SUBSET Task
      /\ late \in Task \cup {None}
  BY DEF TypeOK
<1>3. /\ results' \in [Task -> Nat] /\ joined' \in SUBSET Task /\ aborting' \in SUBSET Task
      /\ late' \in Task \cup {None}
      /\ Supervised'
  <2>1. ASSUME NEW task \in Task, Join(task)
        PROVE  /\ results' \in [Task -> Nat] /\ joined' \in SUBSET Task
               /\ aborting' = aborting /\ late' = late
               /\ Supervised'
    <3>1. /\ late = None /\ late' = None /\ task \notin joined /\ Stopped[task]
          /\ joined' = joined \cup {task}
          /\ results' = [results EXCEPT ![task] = @ + 1]
          /\ guest' = IF joined' = Task THEN Returned ELSE guest
          /\ aborting' = aborting
      BY <2>1 DEF Join, GivesResult
    <3>2. results[task] = 0 /\ results'[task] = 1
          /\ \A other \in Task : other # task => results'[other] = results[other]
      BY <1>1, <1>2, <3>1 DEF Supervised, Task
    <3>3. Stopped' = Stopped /\ pump' = pump
      BY <1>1 DEF Stopped, upstream, pumping
    <3>4. \A other \in joined' : Over(other)'
      BY <1>1, <1>2, <3>1, <3>2, <3>3 DEF Supervised, Over, Task
    <3>5. \A other \in Task : results'[other] <= 1
      BY <3>2 DEF Supervised
    <3>6. CASE joined' = Task
      <4>1. guest' \in {"closed", "failed"}
        BY <1>1, <3>1, <3>6 DEF Returned
      <4>2. \A other \in Task : Over(other)'
        BY <3>4, <3>6
      <4>3. guest' \notin {"fetch", "open", "read", "wait", "giveup", "closing"}
        BY <4>1
      <4>4. Supervised'
        BY <3>5, <4>2, <4>3, Zenon DEF Supervised
      <4> QED BY <1>2, <3>1, <4>4
    <3>7. CASE joined' # Task
      BY <1>1, <1>2, <3>1, <3>2, <3>4, <3>5, <3>7 DEF Supervised, Task
    <3> QED BY <1>2, <3>1, <3>6, <3>7
  <2>2. CASE JoinTimesOut
    <3>1. /\ late = None /\ UNCHANGED <<joined, results, guest>>
          /\ aborting' = aborting \cup {late'}
          /\ late' = IF "transport" \notin joined THEN "transport" ELSE "pump"
      BY <2>2 DEF JoinTimesOut, AbortAndAwait, reading
    <3>2. late' \in Task \ joined /\ (late' = "pump" => "transport" \in joined)
      BY <1>1, <1>2, <3>1 DEF Supervised, Task
    <3>3. Stopped' = Stopped /\ pump' = pump
      BY <1>1 DEF Stopped, upstream, pumping
    <3> QED BY <1>1, <1>2, <3>1, <3>2, <3>3 DEF Supervised, Over
  <2>3. CASE JoinLate
    <3>1. /\ late \in Task \ joined /\ Stopped[late] /\ joined' = joined
          /\ results' = [results EXCEPT ![late] = @ + 1]
      BY <1>1, <1>2, <2>3 DEF JoinLate, GivesResult, Supervised
    <3>2. results[late] = 0 /\ results'[late] = 1
          /\ \A other \in Task : other # late => results'[other] = results[other]
      BY <1>1, <1>2, <3>1 DEF Supervised, Task
    <3>3. Stopped' = Stopped /\ pump' = pump
      BY <1>1 DEF Stopped, upstream, pumping
    <3>4. \A other \in joined : Over(other)'
      BY <1>1, <1>2, <3>1, <3>2, <3>3 DEF Supervised, Over, Task
    <3>5. \A other \in Task : results'[other] <= 1
      BY <3>2 DEF Supervised
    <3>6. CASE late = "transport" /\ "pump" \notin joined
      <4>1. late' = "pump" /\ aborting' = aborting \cup {"pump"} /\ guest' = guest
        BY <2>3, <3>6 DEF JoinLate, AbortAndAwait
      <4>2. Over("transport")'
        BY <3>1, <3>2, <3>3, <3>6 DEF Over
      <4> QED BY <1>1, <1>2, <3>1, <3>2, <3>4, <3>5, <3>6, <4>1, <4>2 DEF Supervised, Task
    <3>7. CASE ~(late = "transport" /\ "pump" \notin joined)
      <4>1. guest' \in {"closed", "failed"} /\ late' = late /\ aborting' = aborting
        BY <1>1, <2>3, <3>7 DEF JoinLate, Returned
      <4>2. \A other \in Task : Over(other)'
        <5>1. CASE late = "transport"
          <6>1. "pump" \in joined
            BY <3>7, <5>1
          <6>2. Over("transport")'
            BY <3>1, <3>2, <3>3, <5>1 DEF Over
          <6> QED BY <3>4, <6>1, <6>2 DEF Task
        <5>2. CASE late = "pump"
          <6>1. Over("transport")'
            BY <1>1, <3>2, <3>3, <5>2 DEF Over, Supervised, Task
          <6>2. Over("pump")'
            BY <3>1, <3>2, <3>3, <5>2 DEF Over
          <6> QED BY <6>1, <6>2 DEF Task
        <5> QED BY <3>1, <5>1, <5>2 DEF Task
      <4> QED BY <1>2, <3>1, <3>5, <4>1, <4>2 DEF Supervised
    <3>8. /\ results' \in [Task -> Nat] /\ aborting' \in SUBSET Task /\ late' \in Task \cup {None}
      <4>1. results' \in [Task -> Nat]
        BY <1>2, <3>1
      <4>2. aborting' \in SUBSET Task /\ late' \in Task \cup {None}
        BY <1>2, <2>3 DEF JoinLate, AbortAndAwait, Task
      <4> QED BY <4>1, <4>2
    <3> QED BY <1>2, <3>1, <3>6, <3>7, <3>8
  <2> QED BY <1>2, <2>1, <2>2, <2>3
<1>4. TypeOK' /\ Wiring'
  <2>1. guest' \in {"giveup", "closing", "closed", "failed"}
        /\ (guest' \in {"giveup", "failed"} => guest = "giveup")
    BY <1>1 DEF Returned
  <2>2. guest' \in {"fetch", "giveup", "failed", "open", "read", "wait", "closing", "closed", "dropped"}
    BY <2>1
  <2> QED BY <1>1, <1>3, <2>1, <2>2 DEF TypeOK, Wiring, shared, upstream, pumping
<1>5. ChannelInOrder' /\ NobodyWaitsInVain'
  <2>1. guest' # "wait"
    BY <1>1 DEF Returned
  <2> QED BY <1>1, <2>1 DEF ChannelInOrder, NobodyWaitsInVain, shared, upstream, pumping
<1>6. FlowInOrder'
  BY <1>1 DEF FlowInOrder, Taking, Taken, InHand, shared, upstream, pumping
<1> QED BY <1>3, <1>4, <1>5, <1>6

LEMMA DropInv == ASSUME IInv, Drop PROVE IInv'
<1> USE StreamAssumption DEF IInv
<1>1. /\ UNCHANGED <<buffer, terminal, readerOpen, cancelled, expired, woken, upstream, pumping,
                     joined, late, results, got, told>>
      /\ token' \in BOOLEAN /\ aborting' \in SUBSET Task /\ guest' = "dropped"
  <2>1. token \in BOOLEAN /\ aborting \in SUBSET Task
    BY DEF TypeOK
  <2> QED BY <2>1 DEF Drop
<1>2. TypeOK' /\ Wiring'
  BY <1>1 DEF TypeOK, Wiring, upstream, pumping
<1>3. ChannelInOrder' /\ Supervised' /\ NobodyWaitsInVain'
  BY <1>1 DEF ChannelInOrder, Supervised, NobodyWaitsInVain, upstream, pumping
<1>4. FlowInOrder'
  BY <1>1 DEF FlowInOrder, Taking, Taken, InHand, upstream, pumping
<1> QED BY <1>2, <1>3, <1>4

-----------------------------------------------------------------------------
\* Every step keeps the invariant.
LEMMA NextInv == ASSUME IInv, [Next]_vars PROVE IInv'
<1>1. CASE UNCHANGED vars
  BY <1>1 DEF IInv, vars, shared, upstream, pumping, control, reading, TypeOK, Wiring, ChannelInOrder,
     FlowInOrder, Taking, Taken, InHand, Supervised, Over, Stopped, NobodyWaitsInVain
<1>2. CASE Started \/ Receive \/ Finished
  BY <1>2, EmitStep, EmitInv
<1>3. CASE Abort("transport") \/ Abort("pump")
  BY <1>3, AbortInv DEF Task
<1>4. CASE Next /\ ~(Started \/ Receive \/ Finished) /\ ~(Abort("transport") \/ Abort("pump"))
  BY <1>4, TransportInv, PumpMovesInv, PollEventInv, SendInv, TerminateInv, OpenInv, ReadInv,
     LookInv, CloseInv, JoinInv, DropInv
     DEF Next, TransportStep, PumpStep, GuestStep
<1> QED BY <1>1, <1>2, <1>3, <1>4

\* The invariant always holds.
LEMMA Inductive == Spec => []IInv
BY InitInv, NextInv, PTL DEF Spec

-----------------------------------------------------------------------------
\* The variables stay in their types, and channel and buffer within their capacities.
THEOREM TypeCorrect == Spec => []TypeOK
<1>1. IInv => TypeOK  BY DEF IInv
<1> QED BY <1>1, Inductive, PTL

\* A close that has returned, and a fetch that has failed, have seen every task of theirs end,
\* whether it ended by itself or was aborted past the deadline, and none twice.
THEOREM CloseJoins == Spec => []ClosedIsJoined
<1>1. IInv => ClosedIsJoined  BY DEF IInv, Supervised, Over, ClosedIsJoined
<1> QED BY <1>1, Inductive, PTL

\* Neither the reader nor the pump waits for what is there.
THEOREM NoWaitInVain == Spec => []NobodyWaitsInVain
<1>1. IInv => NobodyWaitsInVain  BY DEF IInv
<1> QED BY <1>1, Inductive, PTL

-----------------------------------------------------------------------------
(* The contract with the guest. *)

\* A step of the stream is a step of the contract, or none.
LEMMA StepKeepsPromise ==
    ASSUME IInv, [Next]_vars
    PROVE  [Promise!Next]_(Promise!contract)
<1> USE StreamAssumption DEF IInv, Promise!contract, Promise!Next
<1>1. CASE Started \/ Receive \/ Finished
  <2>1. PICK e \in Event : Emitted(e) /\ Numbered(e)
    BY <1>1, EmitStep
  <2>2. got' = got /\ told' = told /\ ended = None /\ sent \in 0 .. MaxChunks
        /\ ended' \in {None, "ok", "err"}
    BY <2>1 DEF Emitted, reading, TypeOK
  <2>3. CASE sent' = sent
    BY <2>2, <2>3 DEF Promise!End
  <2>4. CASE sent' # sent
    BY <2>1, <2>2, <2>4 DEF Numbered, Emitted, Chunk, Mark, Promise!Arrive
  <2> QED BY <2>3, <2>4
<1>2. CASE TransportFails
  BY <1>2 DEF TransportFails, Return, Wiring, reading, Promise!End
<1>3. CASE Read
  <2>1. /\ sent' = sent /\ ended' = ended /\ readerOpen /\ told = None
        /\ got \in Nat /\ sent \in Nat
    BY <1>3 DEF Read, Wiring, upstream, TypeOK
  <2>2. CASE buffer # <<>>
    <3>1. got' = Head(buffer) /\ told' = told /\ Head(buffer) = buffer[1] /\ Len(buffer) \in Nat
          /\ Len(buffer) >= 1
      BY <1>3, <2>2, HeadTailProperties DEF Read, TypeOK
    <3>2. got' = got + 1 /\ got < sent
      BY <2>1, <3>1 DEF FlowInOrder
    <3> QED BY <2>1, <3>1, <3>2 DEF Promise!Read
  <2>3. CASE buffer = <<>> /\ Refreshed # None
    <3>1. got' = got /\ told' = Refreshed /\ Refreshed \in Terminal
          /\ (Refreshed = "finished" => terminal = "finished")
      BY <1>3, <2>3 DEF Read, Refreshed, TypeOK, Terminal
    <3>2. Refreshed = "finished" => ended = "ok" /\ got = sent
      BY <2>1, <2>3, <3>1, EmptySeq DEF FlowInOrder
    <3> QED BY <2>1, <3>1, <3>2 DEF Promise!Tell, Terminal
  <2>4. CASE buffer = <<>> /\ Refreshed = None
    BY <1>3, <2>1, <2>4 DEF Read
  <2> QED BY <2>2, <2>3, <2>4
<1>4. CASE UNCHANGED <<sent, ended, got, told>>
  BY <1>4
<1> QED
  <2>1. ASSUME [Next]_vars, ~(Started \/ Receive \/ Finished), ~TransportFails, ~Read
        PROVE  UNCHANGED <<sent, ended, got, told>>
    BY <2>1 DEF Next, TransportStep, SendResult, Abort, PumpStep, PollEvent, PollResult, AwaitResult,
       Wake, Send, Resume, Terminate, CancelWriter, PumpTimesOut, GuestStep, Open, GiveUp,
       ReaderWakes, Look, CancelStream, Close, Join, JoinTimesOut, JoinLate, Drop, ReaderTimesOut,
       CancelRequest, Expire, vars, upstream, reading
  <2> QED BY <1>1, <1>2, <1>3, <1>4, <2>1

\* The guest is told the truth, for every length of the response and every capacity:
\* chunks in order, none skipped or repeated, and "finished" only after all of a response
\* that was complete.
THEOREM GuestIsToldTheTruth == Spec => Contract
<1>1. Init => Promise!Init
  BY StreamAssumption DEF Init, Promise!Init
<1>2. IInv /\ [Next]_vars => [Promise!Next]_(Promise!contract)
  BY StepKeepsPromise
<1> QED BY <1>1, <1>2, Inductive, PTL DEF Spec, Contract, Promise!Spec
=============================================================================
