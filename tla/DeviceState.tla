----------------------------- MODULE DeviceState -----------------------------
(***************************************************************************)
(* DeviceStateManager: the geometry of the main window, written to         *)
(* device-state.json some time after the window last moved.  The UI thread *)
(* schedules (and flushes, before exit); every schedule leaves a delayed   *)
(* thread behind that flushes if no later schedule came.  The durable      *)
(* state, the pending one and the file are guarded by locks of their own,  *)
(* so each access is an action; write_lock is held by one flush at a time. *)
(***************************************************************************)
EXTENDS Naturals

CONSTANTS
    Rect,       \* window rectangles
    Initial,    \* the rectangle of the state loaded at start
    MaxReports, \* bound on the window events of a behaviour
    None

ASSUME DeviceAssumption ==
    /\ Initial \in Rect
    /\ MaxReports \in Nat
    /\ None \notin [rect: Rect, maximized: BOOLEAN, normal: Rect, seq: 0 .. MaxReports]
    /\ None \notin 0 .. MaxReports

\* A state and, for the properties, the event it stems from: its number, and the
\* rectangle the window last had while not maximized.
State == [rect: Rect, maximized: BOOLEAN, normal: Rect, seq: 0 .. MaxReports]

Exit   == 0                \* the flush before exit
Thread == 1 .. MaxReports  \* the delayed thread of each schedule, by its generation
Flusher == Thread \cup {Exit}

VARIABLES
    file, durable, pending, generation,
    ui,       \* what the UI thread is doing
    next,     \* the state a schedule is about to leave pending
    window,   \* the last event: its number, and the last normal rectangle
    delayed,  \* threads asleep
    flushing, \* threads waiting for write_lock
    holder,   \* who holds write_lock
    stage,    \* where each flush stands
    copy,     \* the state each flush took to write
    failed    \* the number of the last state that could not be written, 0 if none

scheduling == <<generation, ui, next, window>>
vars == <<file, durable, pending, scheduling, delayed, flushing, holder, stage, copy, failed>>

TypeOK ==
    /\ file \in State /\ durable \in State /\ next \in State
    /\ copy \in [Flusher -> State \cup {None}]
    /\ pending \in State \cup {None}
    /\ generation \in 0 .. MaxReports
    /\ ui \in {"idle", "pend", "bump", "exit", "exited"}
    /\ window \in [normal: Rect, seq: 0 .. MaxReports]
    /\ delayed \in SUBSET Thread
    /\ flushing \in SUBSET Flusher
    /\ holder \in Flusher \cup {None}
    /\ stage \in [Flusher -> {"out", "write", "state", "clear"}]
    /\ failed \in 0 .. MaxReports

Loaded == [rect |-> Initial, maximized |-> FALSE, normal |-> Initial, seq |-> 0]

Init ==
    /\ file = Loaded /\ durable = Loaded /\ next = Loaded
    /\ pending = None
    /\ generation = 0
    /\ ui = "idle"
    /\ window = [normal |-> Initial, seq |-> 0]
    /\ delayed = {} /\ flushing = {}
    /\ holder = None
    /\ stage = [t \in Flusher |-> "out"] /\ copy = [t \in Flusher |-> None]
    /\ failed = 0

-----------------------------------------------------------------------------
(* schedule_main_window, on the UI thread. *)

\* The window moved to a rectangle, or was maximized: based on the durable state.
Report(r, maximized) ==
    LET normal == IF maximized THEN window.normal ELSE r
        seq    == window.seq + 1
    IN
    /\ ui = "idle"
    /\ window.seq < MaxReports
    /\ window' = [normal |-> normal, seq |-> seq]
    /\ next' = [rect |-> IF maximized THEN durable.rect ELSE r, maximized |-> maximized,
                normal |-> normal, seq |-> seq]
    /\ ui' = "pend"
    /\ UNCHANGED <<file, durable, pending, generation, delayed, flushing, holder, stage, copy,
                   failed>>

SetPending ==
    /\ ui = "pend"
    /\ pending' = next
    /\ ui' = "bump"
    /\ UNCHANGED <<file, durable, generation, next, window, delayed, flushing, holder, stage,
                   copy, failed>>

\* Mutant: the thread is given the generation before the increment.
BumpStale ==
    /\ ui = "bump"
    /\ generation' = generation + 1
    /\ delayed' = delayed \cup {generation}
    /\ ui' = "idle"
    /\ UNCHANGED <<file, durable, pending, next, window, flushing, holder, stage, copy, failed>>

\* fetch_add and spawn.
Bump ==
    /\ ui = "bump"
    /\ generation' = generation + 1
    /\ delayed' = delayed \cup {generation + 1}
    /\ ui' = "idle"
    /\ UNCHANGED <<file, durable, pending, next, window, flushing, holder, stage, copy, failed>>

\* Mutant: the thread of the schedule before the last one flushes.
AwakePrevious(t) ==
    /\ t \in delayed
    /\ delayed' = delayed \ {t}
    /\ flushing' = IF generation = t + 1 THEN flushing \cup {t} ELSE flushing
    /\ UNCHANGED <<file, durable, pending, scheduling, holder, stage, copy, failed>>

\* The sleep is over; the generation is checked twice, the later check decides.
Awake(t) ==
    /\ t \in delayed
    /\ delayed' = delayed \ {t}
    /\ flushing' = IF generation = t THEN flushing \cup {t} ELSE flushing
    /\ UNCHANGED <<file, durable, pending, scheduling, holder, stage, copy, failed>>

\* The tray's exit item.
BeginExit ==
    /\ ui = "idle"
    /\ ui' = "exit"
    /\ flushing' = flushing \cup {Exit}
    /\ UNCHANGED <<file, durable, pending, generation, next, window, delayed, holder, stage, copy,
                   failed>>

-----------------------------------------------------------------------------
(* flush. *)

At(t, label) ==
    /\ ui # "exited"
    /\ stage[t] = label

\* What a flush leaves behind: the exit flush ends the program.
Leave(t) ==
    /\ holder' = None
    /\ stage' = [stage EXCEPT ![t] = "out"]
    /\ copy' = [copy EXCEPT ![t] = None]
    /\ ui' = IF t = Exit THEN "exited" ELSE ui

\* The pending state is copied; without one there is nothing to do.
Take(t) ==
    /\ At(t, "out")
    /\ t \in flushing
    /\ flushing' = flushing \ {t}
    /\ IF pending = None
       THEN Leave(t)
       ELSE /\ holder' = t
            /\ stage' = [stage EXCEPT ![t] = "write"]
            /\ copy' = [copy EXCEPT ![t] = pending]
            /\ UNCHANGED ui
    /\ UNCHANGED <<file, durable, pending, generation, next, window, delayed, failed>>

\* Mutant: nothing serializes the flushes.
LockShared(t) == Take(t)

\* write_lock is taken first, and held until the flush leaves.
Lock(t) == holder = None /\ Take(t)

Write(t) ==
    /\ At(t, "write")
    /\ file' = copy[t]
    /\ stage' = [stage EXCEPT ![t] = "state"]
    /\ UNCHANGED <<durable, pending, scheduling, delayed, flushing, holder, copy, failed>>

\* Mutant: the memory moves on although the file did not.
WriteFailsAhead(t) ==
    /\ At(t, "write")
    /\ durable' = copy[t]
    /\ failed' = copy[t].seq
    /\ Leave(t)
    /\ UNCHANGED <<file, pending, generation, next, window, delayed, flushing>>

\* The pending state and the previous file stay.
WriteFails(t) ==
    /\ At(t, "write")
    /\ failed' = copy[t].seq
    /\ Leave(t)
    /\ UNCHANGED <<file, durable, pending, generation, next, window, delayed, flushing>>

SetDurable(t) ==
    /\ At(t, "state")
    /\ durable' = copy[t]
    /\ stage' = [stage EXCEPT ![t] = "clear"]
    /\ UNCHANGED <<file, pending, scheduling, delayed, flushing, holder, copy, failed>>

ClearPending(t) ==
    /\ At(t, "clear")
    /\ pending' = None
    /\ Leave(t)
    /\ UNCHANGED <<file, durable, generation, next, window, delayed, flushing, failed>>

-----------------------------------------------------------------------------
Flush == \E t \in Flusher : Lock(t) \/ Write(t) \/ WriteFails(t) \/ SetDurable(t) \/ ClearPending(t)

Next ==
    \/ \E r \in Rect, maximized \in BOOLEAN : Report(r, maximized)
    \/ SetPending \/ Bump \/ BeginExit
    \/ \E t \in Thread : Awake(t)
    \/ Flush

Spec == Init /\ [][Next]_vars

\* The UI thread finishes what it began, sleeps end, locks and writes return.
FairSpec ==
    /\ Spec
    /\ WF_vars(SetPending \/ Bump)
    /\ \A t \in Thread : WF_vars(Awake(t))
    /\ WF_vars(Flush)

-----------------------------------------------------------------------------
(* Properties. *)

\* A flush that was overtaken never puts an older geometry over a newer one.
WritesInOrder == [][file.seq <= file'.seq]_vars

\* The state new schedules build on is the one in the file, failed writes included.
DurableIsInFile == (\A t \in Flusher : stage[t] # "state") => durable = file

\* What is pending while no flush is at work reaches the file, or something newer does,
\* unless the write of one of them fails, however schedules supersede each other, threads
\* wake up late and the exit overtakes them.  A geometry scheduled while a flush writes an
\* older one is not promised this: the flush clears it unwritten (device_state.rs:160).
PendingIsWritten ==
    \A n \in Thread :
        pending # None /\ pending.seq = n /\ holder = None ~> file.seq >= n \/ failed >= n

-----------------------------------------------------------------------------
(* What documents and comments say and the code does not keep: see the README. *)

\* "While maximized, only the maximized flag is set; the last normal rectangle is
\* retained." (device_state.rs:116)
NormalRectRetained == file.rect = file.normal

\* "Persist pending state immediately (e.g. before exit)." (device_state.rs:148): after
\* the exit flush, unless a write failed, the file has the last geometry scheduled.
ExitPersists == ui = "exited" /\ failed = 0 => file.seq = window.seq
=============================================================================
