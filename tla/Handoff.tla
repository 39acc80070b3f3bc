------------------------------- MODULE Handoff -------------------------------
(***************************************************************************)
(* struct Control of native/src/rook_nav2_experiment/control.hpp: the      *)
(* operation runs on a worker thread, its caller on another, and the two   *)
(* hand the component over through one flag, one mutex and one condition   *)
(* variable.  A critical section is one step; between two of them the      *)
(* threads interleave, and a waiter may wake for no reason.                *)
(*                                                                         *)
(* The caller may make any sequence of calls, as component.cpp lets its    *)
(* input decide; only its destructors call stop, and nothing follows them. *)
(***************************************************************************)
CONSTANT Reason    \* enum class Wait without "none" and "done"

ASSUME ReasonAssumption == Reason \cap {"none", "done"} = {}

VARIABLES
    waiting,    \* "none" while the worker has the turn, what it is paused on, or "done"
    stopping,   \* stop has been called
    error,      \* an exception of the operation is held for the caller
    worker,     \* where the worker thread is
    fate,       \* how the operation ended, "none" before it has
    caller,     \* where the caller is
    thrown      \* what the caller's last call threw

vars == <<waiting, stopping, error, worker, fate, caller, thrown>>

Init ==
    /\ waiting = "none" /\ stopping = FALSE /\ error = FALSE
    /\ worker = "absent" /\ fate = "none"
    /\ caller = "owner" /\ thrown = "nothing"

\* notify_all, by either thread: the other leaves the wait set.
NotNotified(thread) == thread
Notified(thread) == IF thread = "waiting" THEN "woken" ELSE thread

-----------------------------------------------------------------------------
(***************************************************************************)
(* The caller: launch, resume, await, stop.                                *)
(***************************************************************************)
joinable == worker # "absent"

Throw(what) ==
    /\ thrown' = what
    /\ UNCHANGED <<waiting, stopping, error, worker, fate, caller>>

LaunchRefused ==
    /\ caller = "owner" /\ ~stopping
    /\ joinable /\ waiting # "done"
    /\ Throw("operation still pending")

\* The thread of the operation before has announced its end and is joined.
LaunchJoins ==
    /\ caller = "owner" /\ ~stopping
    /\ joinable /\ waiting = "done"
    /\ caller' = "relaunching"
    /\ UNCHANGED <<waiting, stopping, error, worker, fate, thrown>>

ErrorKept == error
ErrorReset == FALSE

Spawn ==
    /\ \/ caller = "owner" /\ ~stopping /\ ~joinable
       \/ caller = "relaunching" /\ worker = "exited"
    /\ error' = ErrorReset /\ waiting' = "none"
    /\ worker' = "running" /\ fate' = "none"
    /\ caller' = "entering" /\ thrown' = "nothing"
    /\ UNCHANGED stopping

ResumeRefused ==
    /\ caller = "owner" /\ ~stopping
    /\ waiting \in {"done", "none"}
    /\ Throw("no suspended operation")

Resume ==
    /\ caller = "owner" /\ ~stopping
    /\ waiting \notin {"done", "none"}
    /\ waiting' = "none" /\ worker' = Notified(worker)
    /\ caller' = "entering" /\ thrown' = "nothing"
    /\ UNCHANGED <<stopping, error, fate>>

\* await, with the mutex held: on entering and after every wakeup.
TurnTaken == caller = "woken" \/ waiting # "none"
TurnGiven == waiting # "none"

Await ==
    /\ caller \in {"entering", "woken"}
    /\ IF TurnGiven
       THEN /\ caller' = "owner"
            /\ thrown' = IF error THEN "operation" ELSE "nothing"
       ELSE caller' = "waiting" /\ UNCHANGED thrown
    /\ UNCHANGED <<waiting, stopping, error, worker, fate>>

\* The destructors of Experiment and of Control both stop.
Stop ==
    /\ caller \in {"owner", "gone"}
    /\ stopping' = TRUE /\ worker' = Notified(worker)
    /\ caller' = "joining"
    /\ UNCHANGED <<waiting, error, fate, thrown>>

Join ==
    /\ caller = "joining" /\ worker \in {"absent", "exited"}
    /\ worker' = "absent" /\ caller' = "gone"
    /\ UNCHANGED <<waiting, stopping, error, fate, thrown>>

Caller == LaunchRefused \/ LaunchJoins \/ Spawn \/ ResumeRefused \/ Resume \/ Await
          \/ Stop \/ Join

-----------------------------------------------------------------------------
(***************************************************************************)
(* The worker: the operation, pause, and the end of the thread.            *)
(***************************************************************************)
PauseOverOnTurn == waiting = "none"
PauseOver == waiting = "none" \/ stopping

\* pause, up to the first test of its predicate: a pause after stop, by code
\* that runs while the stack unwinds, throws again at once.
Pause ==
    /\ worker \in {"running", "unwinding"}
    /\ waiting' \in Reason /\ caller' = Notified(caller)
    /\ worker' = IF stopping THEN "unwinding" ELSE "waiting"
    /\ UNCHANGED <<stopping, error, fate, thrown>>

\* The predicate after a wakeup.
Recheck ==
    /\ worker = "woken"
    /\ worker' = IF ~PauseOver THEN "waiting" ELSE IF stopping THEN "unwinding" ELSE "running"
    /\ UNCHANGED <<waiting, stopping, error, fate, caller, thrown>>

End(how) ==
    /\ fate' = how /\ error' = (error \/ how = "threw")
    /\ worker' = "ending"
    /\ UNCHANGED <<waiting, stopping, caller, thrown>>
Returns == worker = "running" /\ End("returned")
Throws  == worker = "running" /\ End("threw")
Unwound == worker = "unwinding" /\ End("unwound")

Announce ==
    /\ worker = "ending"
    /\ waiting' = "done" /\ caller' = Notified(caller)
    /\ worker' = "exiting"
    /\ UNCHANGED <<stopping, error, fate, thrown>>

Exit ==
    /\ worker = "exiting" /\ worker' = "exited"
    /\ UNCHANGED <<waiting, stopping, error, fate, caller, thrown>>

Operation == Pause \/ Returns \/ Throws \/ Unwound
Worker == Operation \/ Recheck \/ Announce \/ Exit

\* A condition variable may wake its waiter without a notification.
WakeCaller == caller = "waiting" /\ caller' = "woken"
              /\ UNCHANGED <<waiting, stopping, error, worker, fate, thrown>>
WakeWorker == worker = "waiting" /\ worker' = "woken"
              /\ UNCHANGED <<waiting, stopping, error, fate, caller, thrown>>

Next == Caller \/ Worker \/ WakeCaller \/ WakeWorker

Spec == Init /\ [][Next]_vars

\* Both threads are scheduled, and an operation that runs reaches its next pause
\* or its end; while it unwinds it does not pause for ever.  The caller need not
\* ever call again.
FairSpec ==
    /\ Spec
    /\ WF_vars(Await) /\ WF_vars(Join) /\ WF_vars(Spawn /\ caller = "relaunching")
    /\ WF_vars(Pause \/ Returns \/ Throws) /\ WF_vars(Unwound)
    /\ WF_vars(Recheck) /\ WF_vars(Announce) /\ WF_vars(Exit)

-----------------------------------------------------------------------------
TypeOK ==
    /\ waiting \in Reason \cup {"none", "done"}
    /\ stopping \in BOOLEAN /\ error \in BOOLEAN
    /\ worker \in {"absent", "running", "waiting", "woken", "unwinding", "ending",
                   "exiting", "exited"}
    /\ fate \in {"none", "returned", "threw", "unwound"}
    /\ caller \in {"owner", "relaunching", "entering", "waiting", "woken", "joining", "gone"}
    /\ thrown \in {"nothing", "operation", "operation still pending", "no suspended operation"}

\* Places where a thread touches the component, or the control's fields without
\* the mutex.
CallerOwns == caller \in {"owner", "gone"} \/ (caller = "relaunching" /\ worker = "exited")
WorkerOwns == worker \in {"running", "unwinding", "ending"}

\* Only one thread owns the component at a time, whatever the calls, the
\* scheduling and the wakeups, the unwinding of a stopped operation included.
OneOwner == ~(CallerOwns /\ WorkerOwns)

\* A caller that has the turn back was told of the operation's exception when the
\* operation threw, and never of an earlier one's.
ErrorIsTheOperations ==
    caller = "owner" => /\ thrown = "operation" => fate = "threw" /\ waiting = "done"
                        /\ thrown = "nothing" => fate # "threw"

\* Every call comes back: launch and resume with the operation paused or over,
\* stop with the worker joined, although the operation was paused on an
\* observation nobody will supply.
CallsReturn ==
    /\ (caller \in {"relaunching", "entering"}) ~> (caller = "owner")
    /\ (caller = "joining") ~> (caller = "gone" /\ ~joinable)

\* The coroutine the two threads amount to.
CoroutineOp ==
    IF worker \in {"absent", "exiting", "exited"} THEN fate
    ELSE IF stopping THEN "unwinding"
    ELSE IF worker \in {"waiting", "woken"} /\ waiting # "none" THEN "suspended"
    ELSE "running"
CoroutineReason == IF CoroutineOp = "suspended" THEN waiting ELSE "none"

Abstract == INSTANCE Coroutine WITH op <- CoroutineOp, reason <- CoroutineReason

\* The control implements the coroutine: an operation moves only when it has been
\* given the turn, and gives it back.
ImplementsCoroutine == Abstract!FairSpec
=============================================================================
