-------------------------- MODULE DeviceStateProofs --------------------------
(***************************************************************************)
(* Proofs about DeviceState, for any number of window events and for any   *)
(* rectangles: flushes are serialized, the file never goes back, the       *)
(* durable state is the one in the file, and what is pending is on its way *)
(* there.                                                                  *)
(***************************************************************************)
EXTENDS DeviceState, TLAPS

-----------------------------------------------------------------------------
(* The inductive invariant. *)

\* Who is past the lock holds it, with a state to write.
Serialized == \A t \in Flusher : stage[t] # "out" => holder = t /\ copy[t] \in State

\* One delayed thread for each event the UI thread is done with.
Counted ==
    /\ window.seq = IF ui \in {"pend", "bump"} THEN generation + 1 ELSE generation
    /\ ui = "pend" => next.seq = window.seq

\* The flush before exit is one, and the UI thread waits for it.
ExitFlushesOnce ==
    /\ Exit \in flushing => ui = "exit" /\ stage[Exit] = "out"
    /\ stage[Exit] # "out" => ui = "exit"

\* Events are numbered upwards on their way from the window to the file.
Ordered ==
    /\ file.seq <= window.seq
    /\ pending # None => file.seq <= pending.seq /\ pending.seq <= window.seq

\* While a flush is at work nobody else clears the pending state, which is no older than
\* the copy; once written, the copy is what the file has.
FlushOwnsPending ==
    \A t \in Flusher :
        /\ stage[t] # "out" => pending # None
        /\ stage[t] = "write" => file.seq <= copy[t].seq /\ copy[t].seq <= pending.seq
        /\ stage[t] \in {"state", "clear"} => file = copy[t]

IInv ==
    /\ TypeOK
    /\ Serialized
    /\ Counted
    /\ ExitFlushesOnce
    /\ Ordered
    /\ FlushOwnsPending
    /\ DurableIsInFile

-----------------------------------------------------------------------------
LEMMA InitInv == ASSUME Init PROVE IInv
<1> USE DeviceAssumption
<1>1. Loaded \in State /\ Loaded.seq = 0
  BY DEF Loaded, State
<1>2. window \in [normal: Rect, seq: 0 .. MaxReports] /\ window.seq = 0
  BY DEF Init
<1>3. TypeOK
  BY <1>1, <1>2 DEF Init, TypeOK
<1>4. Serialized /\ Counted /\ ExitFlushesOnce
  BY <1>2 DEF Init, Serialized, Counted, ExitFlushesOnce, Flusher, Exit
<1>5. Ordered /\ FlushOwnsPending /\ DurableIsInFile
  BY <1>1, <1>2 DEF Init, Ordered, FlushOwnsPending, DurableIsInFile
<1> QED BY <1>3, <1>4, <1>5 DEF IInv

\* The window moves and the UI thread takes note of it.
LEMMA ReportInv ==
    ASSUME IInv, NEW r \in Rect, NEW maximized \in BOOLEAN, Report(r, maximized)
    PROVE  IInv'
<1> USE DeviceAssumption DEF IInv
<1>1. /\ ui = "idle" /\ ui' = "pend"
      /\ window.seq \in 0 .. MaxReports /\ window.seq < MaxReports /\ window.normal \in Rect
      /\ durable.rect \in Rect
  BY DEF Report, TypeOK, State
<1>2. window'.seq = window.seq + 1 /\ next'.seq = window.seq + 1
  BY DEF Report
<1>3. window' \in [normal: Rect, seq: 0 .. MaxReports]
  BY <1>1 DEF Report
<1>4. next' \in State
  BY <1>1 DEF Report, State
<1>5. TypeOK'
  BY <1>1, <1>3, <1>4 DEF Report, TypeOK
<1>6. Serialized' /\ FlushOwnsPending' /\ DurableIsInFile' /\ ExitFlushesOnce'
  BY DEF Report, ExitFlushesOnce, Serialized, FlushOwnsPending, DurableIsInFile
<1>7. Counted' /\ Ordered'
  <2>1. /\ window.seq \in Nat /\ generation \in Nat /\ file.seq \in Nat
        /\ pending # None => pending.seq \in Nat
    BY DEF TypeOK, State
  <2> QED BY <1>1, <1>2, <2>1 DEF Report, Counted, Ordered
<1> QED BY <1>5, <1>6, <1>7

LEMMA SetPendingInv == ASSUME IInv, SetPending PROVE IInv'
<1> USE DeviceAssumption DEF IInv
<1>1. /\ next \in State /\ next # None /\ next.seq = window.seq /\ pending' = next
      /\ file.seq \in Nat /\ window.seq \in Nat
      /\ pending # None => pending.seq \in Nat
      /\ \A t \in Flusher : copy[t] \in State => copy[t].seq \in Nat
  BY DEF SetPending, TypeOK, Counted, State
<1>2. TypeOK'
  BY <1>1 DEF SetPending, TypeOK
<1>3. Serialized' /\ Counted' /\ DurableIsInFile' /\ ExitFlushesOnce'
  BY DEF SetPending, ExitFlushesOnce, Serialized, Counted, DurableIsInFile
<1>4. Ordered'
  BY <1>1 DEF SetPending, Ordered
<1>5. FlushOwnsPending'
  BY <1>1 DEF SetPending, FlushOwnsPending, Serialized, Ordered
<1> QED BY <1>2, <1>3, <1>4, <1>5

\* The UI thread spawns a delayed thread or begins the exit; a thread wakes up.
LEMMA ThreadsInv ==
    ASSUME IInv, Bump \/ BeginExit \/ \E t \in Thread : Awake(t)
    PROVE  IInv'
<1> USE DeviceAssumption DEF IInv
<1>1. /\ file' = file /\ durable' = durable /\ pending' = pending /\ window' = window
      /\ holder' = holder /\ stage' = stage /\ copy' = copy /\ next' = next
  BY DEF Bump, BeginExit, Awake, scheduling
<1>2. Serialized' /\ Ordered' /\ FlushOwnsPending' /\ DurableIsInFile'
  BY <1>1 DEF Serialized, Ordered, FlushOwnsPending, DurableIsInFile
<1>3. window.seq \in 0 .. MaxReports /\ generation \in 0 .. MaxReports
  BY DEF TypeOK
<1>4. CASE Bump
  <2>1. generation + 1 = window.seq
    BY <1>4 DEF Bump, Counted
  <2>2. generation + 1 \in Thread
    BY <1>3, <2>1 DEF Thread
  <2> QED BY <1>1, <1>2, <1>3, <1>4, <2>1, <2>2 DEF Bump, TypeOK, Counted, ExitFlushesOnce
<1>5. CASE BeginExit
  BY <1>1, <1>2, <1>5 DEF BeginExit, TypeOK, Counted, ExitFlushesOnce, Flusher
<1>6. CASE \E t \in Thread : Awake(t)
  BY <1>1, <1>2, <1>6 DEF Awake, TypeOK, Counted, ExitFlushesOnce, Flusher, Thread, Exit, scheduling
<1> QED BY <1>4, <1>5, <1>6

-----------------------------------------------------------------------------
(* The steps of a flush. *)

\* A flush ends: with nothing to do, with a failed write, or done.
LEMMA LeaveInv ==
    ASSUME IInv, NEW t \in Flusher, Leave(t),
           window' = window, next' = next, generation' = generation, file' = file,
           TypeOK', Serialized',
           t = Exit => ui = "exit", Exit # t => (Exit \in flushing' => Exit \in flushing),
           t = Exit => Exit \notin flushing',
           \/ holder = None /\ pending' = pending /\ durable' = durable
           \/ stage[t] = "write" /\ pending' = pending /\ durable' = durable
           \/ stage[t] = "clear" /\ pending' = None /\ durable' = durable
    PROVE  IInv'
<1> USE DeviceAssumption DEF IInv
<1>1. stage' = [stage EXCEPT ![t] = "out"] /\ stage \in [Flusher -> {"out", "write", "state", "clear"}]
  BY DEF Leave, TypeOK
<1>2. \A u \in Flusher : stage'[u] = "out"
  BY <1>1 DEF Serialized, Flusher, Thread, Exit
<1>3. durable = file
  <2>1. \A u \in Flusher : stage[u] # "state"
    BY DEF Serialized, Flusher, Thread, Exit
  <2> QED BY <2>1 DEF DurableIsInFile
<1>4. FlushOwnsPending' /\ DurableIsInFile' /\ Ordered'
  BY <1>2, <1>3 DEF FlushOwnsPending, DurableIsInFile, Ordered
<1>5. Counted'
  BY DEF Leave, Counted
<1>6. ExitFlushesOnce'
  BY <1>1, <1>2 DEF Leave, ExitFlushesOnce, Flusher
<1> QED BY <1>4, <1>5, <1>6

LEMMA LockInv == ASSUME IInv, NEW t \in Flusher, Lock(t) PROVE IInv'
<1> USE DeviceAssumption DEF IInv
<1>1. /\ holder = None /\ ui # "exited" /\ stage[t] = "out"
      /\ \A u \in Flusher : stage[u] = "out"
      /\ durable = file
  BY DEF Lock, Take, At, Serialized, DurableIsInFile, Flusher, Thread, Exit
<1>2. /\ file' = file /\ durable' = durable /\ pending' = pending /\ window' = window
      /\ next' = next /\ generation' = generation
  BY DEF Lock, Take
<1>0. t \in flushing /\ flushing' = flushing \ {t}
  BY DEF Lock, Take
<1>3. CASE pending = None
  <2>1. Leave(t) /\ (t = Exit => ui = "exit")
    BY <1>0, <1>3 DEF Lock, Take, ExitFlushesOnce
  <2>2. TypeOK'
    BY <2>1, <1>2 DEF Lock, Take, Leave, TypeOK, Exit
  <2>3. Serialized'
    BY <2>1, <1>1 DEF Leave, Serialized, TypeOK
  <2> QED BY <1>0, <1>1, <1>2, <2>1, <2>2, <2>3, LeaveInv
<1>4. CASE pending # None
  <2>1. /\ holder' = t /\ stage' = [stage EXCEPT ![t] = "write"]
        /\ copy' = [copy EXCEPT ![t] = pending] /\ ui' = ui /\ pending \in State
    BY <1>4 DEF Lock, Take, TypeOK
  <2>2. TypeOK'
    BY <1>2, <2>1 DEF Lock, Take, TypeOK
  <2>3. Serialized' /\ DurableIsInFile' /\ Counted' /\ Ordered'
    BY <1>1, <1>2, <2>1 DEF Serialized, DurableIsInFile, Counted, Ordered, TypeOK
  <2>4. FlushOwnsPending'
    <3>1. pending.seq \in Nat
      BY <2>1 DEF State
    <3> QED BY <1>1, <1>2, <1>4, <2>1, <3>1 DEF FlushOwnsPending, Ordered, TypeOK
  <2>5. ExitFlushesOnce'
    BY <1>0, <2>1 DEF ExitFlushesOnce, TypeOK
  <2> QED BY <2>2, <2>3, <2>4, <2>5
<1> QED BY <1>3, <1>4

LEMMA WriteInv == ASSUME IInv, NEW t \in Flusher, Write(t) PROVE IInv'
<1> USE DeviceAssumption DEF IInv
<1>1. /\ stage[t] = "write" /\ holder = t /\ copy[t] \in State /\ pending # None
      /\ \A u \in Flusher : stage[u] # "out" => u = t
  BY DEF Write, At, Serialized, FlushOwnsPending
<1>2. /\ file' = copy[t] /\ stage' = [stage EXCEPT ![t] = "state"]
      /\ durable' = durable /\ pending' = pending /\ window' = window /\ next' = next
      /\ generation' = generation /\ ui' = ui /\ holder' = holder /\ copy' = copy
  BY DEF Write, scheduling
<1>3. TypeOK'
  BY <1>1, <1>2 DEF Write, TypeOK
<1>4. Serialized' /\ Counted' /\ FlushOwnsPending' /\ DurableIsInFile' /\ ExitFlushesOnce'
  BY <1>1, <1>2 DEF Write, ExitFlushesOnce, Serialized, Counted, FlushOwnsPending, DurableIsInFile, TypeOK
<1>5. Ordered'
  <2>1. copy[t].seq \in Nat /\ pending.seq \in Nat /\ window.seq \in Nat
    BY <1>1 DEF TypeOK, State
  <2> QED BY <1>1, <1>2, <2>1 DEF Ordered, FlushOwnsPending
<1> QED BY <1>3, <1>4, <1>5

LEMMA WriteFailsInv == ASSUME IInv, NEW t \in Flusher, WriteFails(t) PROVE IInv'
<1> USE DeviceAssumption DEF IInv
<1>1. /\ Leave(t) /\ stage[t] = "write" /\ flushing' = flushing
      /\ t = Exit => ui = "exit" /\ Exit \notin flushing
      /\ file' = file /\ durable' = durable /\ pending' = pending /\ window' = window
      /\ next' = next /\ generation' = generation
  BY DEF WriteFails, At, ExitFlushesOnce
<1>2. TypeOK'
  <2>1. copy[t] \in State /\ failed' = copy[t].seq
    BY <1>1 DEF WriteFails, Serialized
  <2>2. failed' \in 0 .. MaxReports
    BY <2>1 DEF State
  <2> QED BY <1>1, <2>2 DEF WriteFails, Leave, TypeOK, Exit
<1>3. Serialized'
  BY <1>1 DEF Leave, Serialized, TypeOK
<1> QED BY <1>1, <1>2, <1>3, LeaveInv

LEMMA SetDurableInv == ASSUME IInv, NEW t \in Flusher, SetDurable(t) PROVE IInv'
<1> USE DeviceAssumption DEF IInv
<1>1. /\ stage[t] = "state" /\ file = copy[t] /\ pending # None
      /\ \A u \in Flusher : stage[u] # "out" => u = t
  BY DEF SetDurable, At, Serialized, FlushOwnsPending
<1>2. /\ durable' = copy[t] /\ stage' = [stage EXCEPT ![t] = "clear"]
      /\ file' = file /\ pending' = pending /\ window' = window /\ next' = next
      /\ generation' = generation /\ ui' = ui /\ holder' = holder /\ copy' = copy
  BY DEF SetDurable, scheduling
<1>3. TypeOK'
  BY <1>1, <1>2 DEF SetDurable, TypeOK, scheduling
<1>4. /\ Serialized' /\ Counted' /\ Ordered' /\ FlushOwnsPending' /\ DurableIsInFile'
      /\ ExitFlushesOnce'
  BY <1>1, <1>2 DEF SetDurable, ExitFlushesOnce, Serialized, Counted, Ordered, FlushOwnsPending, DurableIsInFile, TypeOK
<1> QED BY <1>3, <1>4

LEMMA ClearPendingInv == ASSUME IInv, NEW t \in Flusher, ClearPending(t) PROVE IInv'
<1> USE DeviceAssumption DEF IInv
<1>1. /\ Leave(t) /\ stage[t] = "clear" /\ flushing' = flushing
      /\ t = Exit => ui = "exit" /\ Exit \notin flushing
      /\ file' = file /\ durable' = durable /\ pending' = None /\ window' = window
      /\ next' = next /\ generation' = generation
  BY DEF ClearPending, At, ExitFlushesOnce
<1>2. TypeOK'
  BY <1>1 DEF ClearPending, Leave, TypeOK, Exit
<1>3. Serialized'
  BY <1>1 DEF Leave, Serialized, TypeOK
<1> QED BY <1>1, <1>2, <1>3, LeaveInv

\* Every step keeps the invariant.
LEMMA NextInv == ASSUME IInv, [Next]_vars PROVE IInv'
<1>1. CASE UNCHANGED vars
  BY <1>1 DEF IInv, vars, scheduling, TypeOK, Serialized, Counted, ExitFlushesOnce, Ordered,
     FlushOwnsPending, DurableIsInFile
<1>2. CASE Next
  BY <1>2, ReportInv, SetPendingInv, ThreadsInv, LockInv, WriteInv, WriteFailsInv,
     SetDurableInv, ClearPendingInv DEF Next, Flush
<1> QED BY <1>1, <1>2

\* The invariant always holds.
LEMMA Inductive == Spec => []IInv
BY InitInv, NextInv, PTL DEF Spec

-----------------------------------------------------------------------------
\* The variables stay in their types, however many events there are.
THEOREM TypeCorrect == Spec => []TypeOK
<1>1. IInv => TypeOK  BY DEF IInv
<1> QED BY <1>1, Inductive, PTL

\* New schedules build on the state that is in the file, failed writes included.
THEOREM DurableStateIsInFile == Spec => []DurableIsInFile
<1>1. IInv => DurableIsInFile  BY DEF IInv
<1> QED BY <1>1, Inductive, PTL

\* No flush puts an older geometry over a newer one, whatever the delayed threads and the
\* exit do at once.
THEOREM FileNeverGoesBack == Spec => WritesInOrder
<1>1. ASSUME IInv, [Next]_vars PROVE [file.seq <= file'.seq]_vars
  <2>1. file.seq \in Nat
    BY <1>1 DEF IInv, TypeOK, State
  <2>2. CASE \E t \in Flusher : Write(t)
    BY <1>1, <2>2 DEF IInv, FlushOwnsPending, Write, At
  <2>3. CASE ~ \E t \in Flusher : Write(t)
    <3>1. file' = file
      BY <1>1, <2>3 DEF Next, Flush, Report, SetPending, Bump, BeginExit, Awake, Lock, Take,
         WriteFails, SetDurable, ClearPending, vars
    <3> QED BY <2>1, <3>1
  <2> QED BY <2>2, <2>3
<1>2. IInv /\ [Next]_vars => [file.seq <= file'.seq]_vars
  BY <1>1
<1> QED BY <1>2, Inductive, PTL DEF Spec, WritesInOrder

-----------------------------------------------------------------------------
(* Who writes what is pending. *)

\* Somebody will still take what is pending: the UI thread is about to spawn the thread of the
\* last schedule, or that thread sleeps or waits for the lock, and the program goes on.
OnItsWay ==
    /\ ui # "exited"
    /\ ui = "bump" \/ generation \in delayed \cup flushing

\* While no flush is at work, what is pending is on its way to the file, or the write of it (or
\* of something newer) has failed; and so it is when a flush fails, which leaves the state it
\* took, or a newer one, pending.
PendingHasFlusher ==
    /\ pending # None /\ holder = None => failed >= pending.seq \/ OnItsWay
    /\ \A t \in Flusher : stage[t] = "write" => copy[t].seq = pending.seq \/ OnItsWay

\* The flush before exit writes what is pending: the UI thread schedules nothing meanwhile.
ExitTakesPending == stage[Exit] = "write" => copy[Exit] = pending

LEMMA FlusherFound ==
    ASSUME IInv, ExitTakesPending, PendingHasFlusher, [Next]_vars
    PROVE  ExitTakesPending' /\ PendingHasFlusher'
<1> USE DEF PendingHasFlusher, ExitTakesPending, OnItsWay
<1>0. /\ stage \in [Flusher -> {"out", "write", "state", "clear"}] /\ generation \in Nat
      /\ \A t \in Thread : t \in Flusher
      /\ Exit \in Flusher
      /\ copy \in [Flusher -> State \cup {None}]
  BY DEF IInv, TypeOK, Flusher
<1>1. CASE UNCHANGED vars
  BY <1>1 DEF vars, scheduling
<1>2. CASE \E r \in Rect, maximized \in BOOLEAN : Report(r, maximized)
  BY <1>2 DEF Report
<1>3. CASE SetPending
  BY <1>0, <1>3 DEF SetPending, IInv, ExitFlushesOnce
<1>4. CASE Bump \/ BeginExit
  BY <1>4 DEF Bump, BeginExit
<1>5. ASSUME NEW t \in Thread, Awake(t) PROVE ExitTakesPending' /\ PendingHasFlusher'
  BY <1>5 DEF Awake, scheduling
<1>6. ASSUME NEW t \in Flusher, Lock(t) PROVE ExitTakesPending' /\ PendingHasFlusher'
  <2>1. holder = None /\ \A u \in Flusher : stage[u] = "out"
    BY <1>6, DeviceAssumption DEF Lock, IInv, Serialized, Flusher, Thread, Exit
  <2>2. CASE pending = None
    BY <1>0, <1>6, <2>1, <2>2 DEF Lock, Take, Leave
  <2>3. CASE pending # None
    <3>1. /\ holder' = t /\ pending' = pending
          /\ stage' = [stage EXCEPT ![t] = "write"] /\ copy' = [copy EXCEPT ![t] = pending]
      BY <1>6, <2>3 DEF Lock, Take
    <3>2. t # None
      BY DeviceAssumption DEF Flusher, Thread, Exit
    <3> QED BY <1>0, <2>1, <3>1, <3>2
  <2> QED BY <2>2, <2>3
<1>7. ASSUME NEW t \in Flusher, Write(t) \/ SetDurable(t) PROVE ExitTakesPending' /\ PendingHasFlusher'
  <2>1. /\ stage[t] # "out" /\ holder' = holder /\ pending' = pending /\ copy' = copy
        /\ stage' = [stage EXCEPT ![t] = "state"] \/ stage' = [stage EXCEPT ![t] = "clear"]
        /\ UNCHANGED scheduling /\ UNCHANGED <<delayed, flushing, failed>>
    BY <1>7 DEF Write, SetDurable, At
  <2>2. holder = t /\ t # None /\ \A u \in Flusher : stage'[u] # "write"
    BY <1>0, <2>1, DeviceAssumption DEF IInv, Serialized, Flusher, Thread, Exit
  <2> QED BY <1>0, <2>1, <2>2 DEF scheduling
<1>8. ASSUME NEW t \in Flusher, WriteFails(t) PROVE ExitTakesPending' /\ PendingHasFlusher'
  <2>1. /\ stage[t] = "write" /\ failed' = copy[t].seq /\ pending' = pending
        /\ stage' = [stage EXCEPT ![t] = "out"] /\ ui' = IF t = Exit THEN "exited" ELSE ui
        /\ delayed' = delayed /\ flushing' = flushing /\ generation' = generation
        /\ ui # "exited"
    BY <1>8 DEF WriteFails, Leave, At
  <2>2. \A u \in Flusher : stage'[u] = "out"
    BY <1>0, <2>1 DEF IInv, Serialized
  <2>3. pending # None /\ pending.seq \in Nat
    BY <2>1 DEF IInv, FlushOwnsPending, TypeOK, State
  <2>4. failed' >= pending'.seq \/ OnItsWay'
    BY <2>1, <2>3
  <2> QED BY <1>0, <2>2, <2>4
<1>9. ASSUME NEW t \in Flusher, ClearPending(t) PROVE ExitTakesPending' /\ PendingHasFlusher'
  <2>1. stage[t] = "clear" /\ pending' = None /\ stage' = [stage EXCEPT ![t] = "out"]
    BY <1>9 DEF ClearPending, Leave, At
  <2>2. \A u \in Flusher : stage'[u] = "out"
    BY <1>0, <2>1 DEF IInv, Serialized
  <2> QED BY <1>0, <2>1, <2>2
<1> QED BY <1>1, <1>2, <1>3, <1>4, <1>5, <1>6, <1>7, <1>8, <1>9 DEF Next, Flush

\* Nothing is left pending that no thread will take, unless the write of it failed: however
\* schedules supersede each other, flushes fail and the exit overtakes them, a pending geometry
\* no flush is at work on still has the thread of the last schedule coming.  It is the safety
\* half of PendingIsWritten.
THEOREM PendingIsNeverStranded == Spec => []PendingHasFlusher
<1>1. Init => ExitTakesPending /\ PendingHasFlusher
  BY DEF Init, ExitTakesPending, PendingHasFlusher, Flusher, Exit
<1>2. IInv /\ ExitTakesPending /\ PendingHasFlusher /\ [Next]_vars
        => ExitTakesPending' /\ PendingHasFlusher'
  BY FlusherFound
<1> QED BY <1>1, <1>2, Inductive, PTL DEF Spec
=============================================================================
