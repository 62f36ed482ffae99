---------------------------- MODULE WorkerThread ----------------------------
(***************************************************************************)
(* AVxWorker of src/libaom/aom_util/aom_thread.c: one worker object, its   *)
(* owner (the main thread) and its thread, with the one mutex and the one  *)
(* condition variable they share.  A step is what happens between two      *)
(* operations on the mutex.  The condition variable may wake without a     *)
(* signal, and a signal wakes at most one waiter.                          *)
(*                                                                         *)
(* The owner is any program that prepares a call (hook, data, had_error)   *)
(* only while it knows the worker to be idle, as launch_workers and        *)
(* prepare_enc_workers do.                                                 *)
(***************************************************************************)
EXTENDS Naturals

CONSTANTS
    MaxCalls,       \* bound on the launches of a run
    MaxResets       \* bound on the calls of reset that create a thread

ASSUME WorkerAssumption == MaxCalls \in Nat /\ MaxResets \in Nat

VARIABLES
    status,     \* worker->status_
    impl,       \* worker->impl_ # NULL
    had_error,  \* worker->had_error
    mutex,      \* who holds impl_->mutex_
    waiting,    \* who waits on impl_->condition_
    mpc,        \* where the owner is
    op,         \* the status the owner's change_state is asked for
    wpc,        \* where the thread is
    synced,     \* the owner knows the worker to be idle
    launched,   \* history: calls handed over by launch
    executed,   \* history: calls whose hook has run
    resets      \* threads created so far

vars == <<status, impl, had_error, mutex, waiting, mpc, op, wpc, synced,
          launched, executed, resets>>

Threads == {"main", "worker"}
Statuses == {"NOT_OK", "OK", "WORKING"}

Init ==
    /\ status = "NOT_OK" /\ impl = FALSE /\ had_error = FALSE   \* init()
    /\ mutex = "free" /\ waiting = {}
    /\ mpc = "idle" /\ op = "OK" /\ wpc = "none"
    /\ synced = TRUE
    /\ launched = 0 /\ executed = 0
    /\ resets = 0

\* pthread_cond_signal
Signal ==
    \/ waiting = {} /\ waiting' = waiting
    \/ \E t \in waiting : waiting' = waiting \ {t}

History == <<launched, executed, resets>>

-----------------------------------------------------------------------------
\* The owner: reset, which creates the thread while it holds the mutex.

\* calloc, pthread_mutex_init, pthread_cond_init or an attribute call fails
ResetFails ==
    /\ mpc = "idle" /\ synced
    /\ status = "NOT_OK"
    /\ had_error' = FALSE
    /\ UNCHANGED <<status, impl, mutex, waiting, mpc, op, wpc, synced, History>>

\* A faulty variant: the thread is created without the mutex.
ResetUnlocked ==
    /\ mpc = "idle" /\ synced
    /\ status = "NOT_OK" /\ resets < MaxResets
    /\ had_error' = FALSE
    /\ impl' = TRUE
    /\ mpc' = "create"
    /\ UNCHANGED <<status, mutex, waiting, op, wpc, synced, History>>

\* A faulty variant: the error of the last life of the worker stays.
ResetKeepsError ==
    /\ mpc = "idle" /\ synced
    /\ status = "NOT_OK" /\ resets < MaxResets
    /\ impl' = TRUE
    /\ mutex' = "main"
    /\ mpc' = "create"
    /\ UNCHANGED <<status, had_error, waiting, op, wpc, synced, History>>

ResetLock ==
    /\ mpc = "idle" /\ synced
    /\ status = "NOT_OK" /\ resets < MaxResets
    /\ had_error' = FALSE
    /\ impl' = TRUE
    /\ mutex' = "main"
    /\ mpc' = "create"
    /\ UNCHANGED <<status, waiting, op, wpc, synced, History>>

\* a worker that is up: only the error flag is reset
ResetRunning ==
    /\ mpc = "idle" /\ synced
    /\ status = "OK"
    /\ had_error' = FALSE
    /\ UNCHANGED <<status, impl, mutex, waiting, mpc, op, wpc, synced, History>>

CreateFails ==
    /\ mpc = "create"
    /\ impl' = FALSE /\ mutex' = "free" /\ mpc' = "idle"
    /\ UNCHANGED <<status, had_error, waiting, op, wpc, synced, History>>

\* the thread exists from here on, and its first step is to lock the mutex
CreateThread ==
    /\ mpc = "create"
    /\ wpc' = "lock"
    /\ mpc' = "created"
    /\ resets' = resets + 1
    /\ UNCHANGED <<status, impl, had_error, mutex, waiting, op, synced,
                   launched, executed>>

ResetDone ==
    /\ mpc = "created"
    /\ status' = "OK"
    /\ mutex' = "free"
    /\ mpc' = "idle"
    /\ UNCHANGED <<impl, had_error, waiting, op, wpc, synced, History>>

-----------------------------------------------------------------------------
\* The owner: launch, sync and end are change_state with a new status.

\* change_state returns at once when the thread never came up.
NoThread ==
    /\ mpc = "idle" /\ ~impl
    /\ synced' = TRUE
    /\ UNCHANGED <<status, impl, had_error, mutex, waiting, mpc, op, wpc, History>>

\* launch_workers clears had_error, then launches
CallLaunch ==
    /\ mpc = "idle" /\ impl /\ synced /\ launched < MaxCalls
    /\ had_error' = FALSE
    /\ op' = "WORKING"
    /\ mpc' = "cs_lock"
    /\ UNCHANGED <<status, impl, mutex, waiting, wpc, synced, History>>

CallSync ==
    /\ mpc = "idle" /\ impl
    /\ op' = "OK" /\ mpc' = "cs_lock"
    /\ UNCHANGED <<status, impl, had_error, mutex, waiting, wpc, synced, History>>

\* end may be called while the worker still works
CallEnd ==
    /\ mpc = "idle" /\ impl
    /\ op' = "NOT_OK" /\ mpc' = "cs_lock"
    /\ UNCHANGED <<status, impl, had_error, mutex, waiting, wpc, synced, History>>

ChangeLock ==
    /\ mpc = "cs_lock" /\ mutex = "free"
    /\ mutex' = "main" /\ mpc' = "cs_check"
    /\ UNCHANGED <<status, impl, had_error, waiting, op, wpc, synced, History>>

\* pthread_cond_wait: release the mutex and sleep, in one step
ChangeWait ==
    /\ mpc = "cs_check" /\ status = "WORKING"
    /\ waiting' = waiting \cup {"main"} /\ mutex' = "free" /\ mpc' = "cs_wait"
    /\ UNCHANGED <<status, impl, had_error, op, wpc, synced, History>>

ChangeWake ==
    /\ mpc = "cs_wait" /\ "main" \notin waiting /\ mutex = "free"
    /\ mutex' = "main" /\ mpc' = "cs_check"
    /\ UNCHANGED <<status, impl, had_error, waiting, op, wpc, synced, History>>

\* A faulty variant: the status is changed without waiting for the worker.
ChangeAtOnce ==
    /\ mpc = "cs_check" /\ status # op
    /\ status' = op
    /\ Signal
    /\ launched' = IF op = "WORKING" THEN launched + 1 ELSE launched
    /\ synced' = (op # "WORKING")
    /\ mpc' = "cs_unlock"
    /\ UNCHANGED <<impl, had_error, mutex, op, wpc, executed, resets>>

\* the worker is idle: assign the new status and release the thread
ChangeAssign ==
    /\ mpc = "cs_check" /\ status = "OK" /\ op # "OK"
    /\ status' = op
    /\ Signal
    /\ launched' = IF op = "WORKING" THEN launched + 1 ELSE launched
    /\ synced' = (op # "WORKING")
    /\ mpc' = "cs_unlock"
    /\ UNCHANGED <<impl, had_error, mutex, op, wpc, executed, resets>>

ChangeNothing ==
    /\ mpc = "cs_check" /\ status # "WORKING" /\ (op = "OK" \/ status = "NOT_OK")
    /\ synced' = TRUE
    /\ mpc' = "cs_unlock"
    /\ UNCHANGED <<status, impl, had_error, mutex, waiting, op, wpc, History>>

ChangeUnlock ==
    /\ mpc = "cs_unlock"
    /\ mutex' = "free"
    /\ mpc' = IF op = "NOT_OK" THEN "join" ELSE "idle"
    /\ UNCHANGED <<status, impl, had_error, waiting, op, wpc, synced, History>>

\* pthread_join, then the mutex and the condition variable are destroyed
Join ==
    /\ mpc = "join" /\ wpc = "exited"
    /\ impl' = FALSE
    /\ wpc' = "none" /\ mpc' = "idle"
    /\ UNCHANGED <<status, had_error, mutex, waiting, op, synced, History>>

-----------------------------------------------------------------------------
\* The thread: thread_loop.

WorkerLock ==
    /\ wpc = "lock" /\ mutex = "free"
    /\ mutex' = "worker" /\ wpc' = "check"
    /\ UNCHANGED <<status, impl, had_error, waiting, mpc, op, synced, History>>

WorkerWait ==
    /\ wpc = "check" /\ status = "OK"
    /\ waiting' = waiting \cup {"worker"} /\ mutex' = "free" /\ wpc' = "wait"
    /\ UNCHANGED <<status, impl, had_error, mpc, op, synced, History>>

WorkerWake ==
    /\ wpc = "wait" /\ "worker" \notin waiting /\ mutex = "free"
    /\ mutex' = "worker" /\ wpc' = "check"
    /\ UNCHANGED <<status, impl, had_error, waiting, mpc, op, synced, History>>

WorkerTake ==
    /\ wpc = "check" /\ status = "WORKING"
    /\ mutex' = "free" /\ wpc' = "execute"
    /\ UNCHANGED <<status, impl, had_error, waiting, mpc, op, synced, History>>

\* execute: the hook runs without the mutex; it fails or it does not
WorkerExecute ==
    /\ wpc = "execute"
    /\ had_error' \in {had_error, TRUE}
    /\ executed' = executed + 1
    /\ wpc' = "relock"
    /\ UNCHANGED <<status, impl, mutex, waiting, mpc, op, synced, launched, resets>>

\* A faulty variant: the status is not set back.
WorkerDoneStaysWorking ==
    /\ wpc = "relock" /\ mutex = "free"
    /\ mutex' = "worker"
    /\ Signal
    /\ wpc' = "check"
    /\ UNCHANGED <<status, impl, had_error, mpc, op, synced, History>>

\* A faulty variant: the owner is not signalled.
WorkerDoneSilently ==
    /\ wpc = "relock" /\ mutex = "free"
    /\ mutex' = "worker"
    /\ status' = "OK"
    /\ wpc' = "check"
    /\ UNCHANGED <<impl, had_error, waiting, mpc, op, synced, History>>

\* lock, status_ = OK, signal; the mutex is kept for the next test
WorkerDone ==
    /\ wpc = "relock" /\ mutex = "free"
    /\ mutex' = "worker"
    /\ status' = "OK"
    /\ Signal
    /\ wpc' = "check"
    /\ UNCHANGED <<impl, had_error, mpc, op, synced, History>>

WorkerExit ==
    /\ wpc = "check" /\ status = "NOT_OK"
    /\ mutex' = "free" /\ wpc' = "exited"
    /\ UNCHANGED <<status, impl, had_error, waiting, mpc, op, synced, History>>

\* a wait returns without a signal
Spurious ==
    /\ \E t \in waiting : waiting' = waiting \ {t}
    /\ UNCHANGED <<status, impl, had_error, mutex, mpc, op, wpc, synced, History>>

-----------------------------------------------------------------------------

OwnerCalls == ResetFails \/ ResetLock \/ ResetRunning \/ NoThread
              \/ CallLaunch \/ CallSync \/ CallEnd
OwnerSteps == CreateFails \/ CreateThread \/ ResetDone \/ ChangeLock \/ ChangeWait
              \/ ChangeWake \/ ChangeAssign \/ ChangeNothing \/ ChangeUnlock \/ Join
WorkerSteps == WorkerLock \/ WorkerWait \/ WorkerWake \/ WorkerTake
               \/ WorkerExecute \/ WorkerDone \/ WorkerExit

Next == OwnerCalls \/ OwnerSteps \/ WorkerSteps \/ Spurious

\* Both threads run; a thread that wants the mutex again and again gets it in
\* the end.  The owner need not make calls, and nothing wakes by itself.
Fairness == SF_vars(OwnerSteps) /\ SF_vars(WorkerSteps)

Spec == Init /\ [][Next]_vars /\ Fairness

-----------------------------------------------------------------------------

TypeOK ==
    /\ status \in Statuses /\ impl \in BOOLEAN /\ had_error \in BOOLEAN
    /\ mutex \in Threads \cup {"free"} /\ waiting \subseteq Threads
    /\ mpc \in {"idle", "create", "created", "cs_lock", "cs_check", "cs_wait", "cs_unlock", "join"}
    /\ op \in Statuses
    /\ wpc \in {"none", "lock", "check", "wait", "execute", "relock", "exited"}
    /\ synced \in BOOLEAN
    /\ launched \in 0..MaxCalls /\ executed \in Nat
    /\ resets \in 0..MaxResets

\* "When worker->status_ is WORKING, the main thread doesn't change it": while
\* the thread runs the hook without the mutex, and until it has the mutex
\* again, the status stays WORKING, whatever the owner calls meanwhile.
WorkingWhileExecuting == wpc \in {"execute", "relock"} => status = "WORKING"

\* The thread is created under the mutex, so it never sees the status from
\* before reset was done, which would make it exit at once.
ExitsOnlyWhenEnded == wpc = "exited" => (mpc = "join" \/ (op = "NOT_OK" /\ mpc = "cs_unlock"))

\* A call runs exactly once: when the owner knows the worker to be idle, every
\* call it launched has run, and none has run twice.
RunsExactlyOnce ==
    /\ executed <= launched /\ launched <= executed + 1
    /\ synced => executed = launched

\* Every call of the interface returns: no wakeup is lost although owner and
\* thread share one condition variable and a signal wakes only one waiter.
CallsReturn == (mpc # "idle") ~> (mpc = "idle")

\* The worker implements the call that is launched, runs once and is awaited.
\* From its owner's side the call is over when the hook has returned.
Call == INSTANCE AsyncCall WITH
    state <- IF status = "NOT_OK" THEN "none"
             ELSE IF status = "WORKING" /\ wpc # "relock" THEN "busy" ELSE "idle",
    failed <- had_error,
    calls <- executed
CallSpec == Call!Spec

=============================================================================
