------------------------- MODULE WorkerThreadProofs -------------------------
(***************************************************************************)
(* Proofs about WorkerThread for any number of calls and of resets: its    *)
(* types, that status_ is left alone while a hook runs, that a launched    *)
(* call runs exactly once, and that the worker implements the safety part  *)
(* of AsyncCall.                                                           *)
(*                                                                         *)
(* None of the properties is inductive: they depend on who may hold the    *)
(* mutex at each place (MutexHeld), on what the status can be while the    *)
(* owner is inside reset, change_state or end (OwnerPlace), on the thread  *)
(* existing exactly while impl_ is set (ThreadPlace), and on the one       *)
(* counter a call in flight accounts for (CallCount).                      *)
(***************************************************************************)
EXTENDS WorkerThread, TLAPS

MutexHeld ==
    /\ mutex = "main" <=> mpc \in {"create", "created", "cs_check", "cs_unlock"}
    /\ mutex = "worker" <=> wpc = "check"

OwnerPlace ==
    /\ mpc \in {"create", "created"} => status = "NOT_OK" /\ had_error = FALSE
    /\ mpc \in {"cs_lock", "cs_check", "cs_wait"} => status # "NOT_OK"
    /\ mpc = "cs_unlock" => (op = "NOT_OK" <=> status = "NOT_OK")
    /\ mpc = "join" => status = "NOT_OK"
    /\ mpc = "idle" => (impl <=> status # "NOT_OK")

ThreadPlace ==
    /\ mpc # "idle" => impl
    /\ mpc = "create" => wpc = "none"
    /\ mpc = "created" => wpc = "lock"
    /\ ~impl => wpc = "none"
    /\ (impl /\ mpc # "create") => wpc # "none"
    /\ wpc = "exited" => mpc = "join"

CallCount ==
    /\ launched = executed + (IF status = "WORKING" /\ wpc # "relock" THEN 1 ELSE 0)
    /\ synced => status # "WORKING"

\* The bounds of a run are tested before the owner starts what they bound.
Bounds ==
    /\ mpc = "create" => resets < MaxResets
    /\ (mpc \in {"cs_lock", "cs_check", "cs_wait"} /\ op = "WORKING") => launched < MaxCalls

IInv == TypeOK /\ MutexHeld /\ OwnerPlace /\ ThreadPlace /\ WorkingWhileExecuting /\ CallCount /\ Bounds

\* The initial states satisfy the invariant.
LEMMA InitIInv == Init => IInv
<1> SUFFICES ASSUME Init PROVE IInv
  OBVIOUS
<1>1. impl \in BOOLEAN /\ had_error \in BOOLEAN /\ synced \in BOOLEAN
  BY Zenon DEF Init
<1>2. TypeOK
  BY <1>1, WorkerAssumption DEF Init, TypeOK, Statuses, Threads
<1>3. MutexHeld /\ OwnerPlace /\ ThreadPlace
  BY DEF Init, MutexHeld, OwnerPlace, ThreadPlace
<1>4. WorkingWhileExecuting /\ CallCount /\ Bounds
  BY DEF Init, WorkingWhileExecuting, CallCount, Bounds
<1> QED BY <1>2, <1>3, <1>4 DEF IInv

\* Every step keeps the invariant.
LEMMA NextIInv == IInv /\ [Next]_vars => IInv'
<1> SUFFICES ASSUME IInv, [Next]_vars PROVE IInv'
  OBVIOUS
<1> USE WorkerAssumption
<1>t. TypeOK /\ MutexHeld /\ OwnerPlace /\ ThreadPlace /\ WorkingWhileExecuting /\ CallCount /\ Bounds
  BY DEF IInv
<1>1. CASE ResetFails
  <2>1. TypeOK'
    BY <1>t, <1>1 DEF TypeOK, ResetFails, History, Statuses, Threads
  <2>2. MutexHeld' /\ OwnerPlace'
    BY <1>t, <1>1 DEF MutexHeld, OwnerPlace, ThreadPlace, ResetFails, History, TypeOK
  <2>3. ThreadPlace' /\ WorkingWhileExecuting'
    BY <1>t, <1>1 DEF MutexHeld, OwnerPlace, ThreadPlace, WorkingWhileExecuting, ResetFails, History, TypeOK
  <2>4. CallCount'
    BY <1>t, <1>1 DEF OwnerPlace, ThreadPlace, WorkingWhileExecuting, CallCount, ResetFails, History, TypeOK
  <2>5. Bounds'
    BY <1>t, <1>1 DEF Bounds, ResetFails, History, TypeOK
  <2> QED BY <2>1, <2>2, <2>3, <2>4, <2>5 DEF IInv
<1>2. CASE ResetLock
  <2>1. TypeOK'
    BY <1>t, <1>2 DEF TypeOK, ResetLock, History, Statuses, Threads
  <2>2. MutexHeld' /\ OwnerPlace'
    BY <1>t, <1>2 DEF MutexHeld, OwnerPlace, ThreadPlace, ResetLock, History, TypeOK
  <2>3. ThreadPlace' /\ WorkingWhileExecuting'
    BY <1>t, <1>2 DEF MutexHeld, OwnerPlace, ThreadPlace, WorkingWhileExecuting, ResetLock, History, TypeOK
  <2>4. CallCount'
    BY <1>t, <1>2 DEF OwnerPlace, ThreadPlace, WorkingWhileExecuting, CallCount, ResetLock, History, TypeOK
  <2>5. Bounds'
    BY <1>t, <1>2 DEF Bounds, ResetLock, History, TypeOK
  <2> QED BY <2>1, <2>2, <2>3, <2>4, <2>5 DEF IInv
<1>3. CASE ResetRunning
  <2>1. TypeOK'
    BY <1>t, <1>3 DEF TypeOK, ResetRunning, History, Statuses, Threads
  <2>2. MutexHeld' /\ OwnerPlace'
    BY <1>t, <1>3 DEF MutexHeld, OwnerPlace, ThreadPlace, ResetRunning, History, TypeOK
  <2>3. ThreadPlace' /\ WorkingWhileExecuting'
    BY <1>t, <1>3 DEF MutexHeld, OwnerPlace, ThreadPlace, WorkingWhileExecuting, ResetRunning, History, TypeOK
  <2>4. CallCount'
    BY <1>t, <1>3 DEF OwnerPlace, ThreadPlace, WorkingWhileExecuting, CallCount, ResetRunning, History, TypeOK
  <2>5. Bounds'
    BY <1>t, <1>3 DEF Bounds, ResetRunning, History, TypeOK
  <2> QED BY <2>1, <2>2, <2>3, <2>4, <2>5 DEF IInv
<1>4. CASE CreateFails
  <2>1. TypeOK'
    BY <1>t, <1>4 DEF TypeOK, CreateFails, History, Statuses, Threads
  <2>2. MutexHeld' /\ OwnerPlace'
    BY <1>t, <1>4 DEF MutexHeld, OwnerPlace, ThreadPlace, CreateFails, History, TypeOK
  <2>3. ThreadPlace' /\ WorkingWhileExecuting'
    BY <1>t, <1>4 DEF MutexHeld, OwnerPlace, ThreadPlace, WorkingWhileExecuting, CreateFails, History, TypeOK
  <2>4. CallCount'
    BY <1>t, <1>4 DEF OwnerPlace, ThreadPlace, WorkingWhileExecuting, CallCount, CreateFails, History, TypeOK
  <2>5. Bounds'
    BY <1>t, <1>4 DEF Bounds, CreateFails, History, TypeOK
  <2> QED BY <2>1, <2>2, <2>3, <2>4, <2>5 DEF IInv
<1>5. CASE CreateThread
  <2>1. TypeOK'
    BY <1>t, <1>5 DEF TypeOK, Bounds, CreateThread, History, Statuses, Threads
  <2>2. MutexHeld' /\ OwnerPlace'
    BY <1>t, <1>5 DEF MutexHeld, OwnerPlace, ThreadPlace, CreateThread, History, TypeOK
  <2>3. ThreadPlace' /\ WorkingWhileExecuting'
    BY <1>t, <1>5 DEF MutexHeld, OwnerPlace, ThreadPlace, WorkingWhileExecuting, CreateThread, History, TypeOK
  <2>4. CallCount'
    BY <1>t, <1>5 DEF OwnerPlace, ThreadPlace, WorkingWhileExecuting, CallCount, CreateThread, History, TypeOK
  <2>5. Bounds'
    BY <1>t, <1>5 DEF Bounds, CreateThread, History, TypeOK
  <2> QED BY <2>1, <2>2, <2>3, <2>4, <2>5 DEF IInv
<1>6. CASE ResetDone
  <2>1. TypeOK'
    BY <1>t, <1>6 DEF TypeOK, ResetDone, History, Statuses, Threads
  <2>2. MutexHeld' /\ OwnerPlace'
    BY <1>t, <1>6 DEF MutexHeld, OwnerPlace, ThreadPlace, ResetDone, History, TypeOK
  <2>3. ThreadPlace' /\ WorkingWhileExecuting'
    BY <1>t, <1>6 DEF MutexHeld, OwnerPlace, ThreadPlace, WorkingWhileExecuting, ResetDone, History, TypeOK
  <2>4. CallCount'
    BY <1>t, <1>6 DEF OwnerPlace, ThreadPlace, WorkingWhileExecuting, CallCount, ResetDone, History, TypeOK
  <2>5. Bounds'
    BY <1>t, <1>6 DEF Bounds, ResetDone, History, TypeOK
  <2> QED BY <2>1, <2>2, <2>3, <2>4, <2>5 DEF IInv
<1>7. CASE NoThread
  <2>1. TypeOK'
    BY <1>t, <1>7 DEF TypeOK, NoThread, History, Statuses, Threads
  <2>2. MutexHeld' /\ OwnerPlace'
    BY <1>t, <1>7 DEF MutexHeld, OwnerPlace, ThreadPlace, NoThread, History, TypeOK
  <2>3. ThreadPlace' /\ WorkingWhileExecuting'
    BY <1>t, <1>7 DEF MutexHeld, OwnerPlace, ThreadPlace, WorkingWhileExecuting, NoThread, History, TypeOK
  <2>4. CallCount'
    BY <1>t, <1>7 DEF OwnerPlace, ThreadPlace, WorkingWhileExecuting, CallCount, NoThread, History, TypeOK
  <2>5. Bounds'
    BY <1>t, <1>7 DEF Bounds, NoThread, History, TypeOK
  <2> QED BY <2>1, <2>2, <2>3, <2>4, <2>5 DEF IInv
<1>8. CASE CallLaunch
  <2>1. TypeOK'
    BY <1>t, <1>8 DEF TypeOK, CallLaunch, History, Statuses, Threads
  <2>2. MutexHeld' /\ OwnerPlace'
    BY <1>t, <1>8 DEF MutexHeld, OwnerPlace, ThreadPlace, CallLaunch, History, TypeOK
  <2>3. ThreadPlace' /\ WorkingWhileExecuting'
    BY <1>t, <1>8 DEF MutexHeld, OwnerPlace, ThreadPlace, WorkingWhileExecuting, CallLaunch, History, TypeOK
  <2>4. CallCount'
    BY <1>t, <1>8 DEF OwnerPlace, ThreadPlace, WorkingWhileExecuting, CallCount, CallLaunch, History, TypeOK
  <2>5. Bounds'
    BY <1>t, <1>8 DEF Bounds, CallLaunch, History, TypeOK
  <2> QED BY <2>1, <2>2, <2>3, <2>4, <2>5 DEF IInv
<1>9. CASE CallSync
  <2>1. TypeOK'
    BY <1>t, <1>9 DEF TypeOK, CallSync, History, Statuses, Threads
  <2>2. MutexHeld' /\ OwnerPlace'
    BY <1>t, <1>9 DEF MutexHeld, OwnerPlace, ThreadPlace, CallSync, History, TypeOK
  <2>3. ThreadPlace' /\ WorkingWhileExecuting'
    BY <1>t, <1>9 DEF MutexHeld, OwnerPlace, ThreadPlace, WorkingWhileExecuting, CallSync, History, TypeOK
  <2>4. CallCount'
    BY <1>t, <1>9 DEF OwnerPlace, ThreadPlace, WorkingWhileExecuting, CallCount, CallSync, History, TypeOK
  <2>5. Bounds'
    BY <1>t, <1>9 DEF Bounds, CallSync, History, TypeOK
  <2> QED BY <2>1, <2>2, <2>3, <2>4, <2>5 DEF IInv
<1>10. CASE CallEnd
  <2>1. TypeOK'
    BY <1>t, <1>10 DEF TypeOK, CallEnd, History, Statuses, Threads
  <2>2. MutexHeld' /\ OwnerPlace'
    BY <1>t, <1>10 DEF MutexHeld, OwnerPlace, ThreadPlace, CallEnd, History, TypeOK
  <2>3. ThreadPlace' /\ WorkingWhileExecuting'
    BY <1>t, <1>10 DEF MutexHeld, OwnerPlace, ThreadPlace, WorkingWhileExecuting, CallEnd, History, TypeOK
  <2>4. CallCount'
    BY <1>t, <1>10 DEF OwnerPlace, ThreadPlace, WorkingWhileExecuting, CallCount, CallEnd, History, TypeOK
  <2>5. Bounds'
    BY <1>t, <1>10 DEF Bounds, CallEnd, History, TypeOK
  <2> QED BY <2>1, <2>2, <2>3, <2>4, <2>5 DEF IInv
<1>11. CASE ChangeLock
  <2>1. TypeOK'
    BY <1>t, <1>11 DEF TypeOK, ChangeLock, History, Statuses, Threads
  <2>2. MutexHeld' /\ OwnerPlace'
    BY <1>t, <1>11 DEF MutexHeld, OwnerPlace, ThreadPlace, ChangeLock, History, TypeOK
  <2>3. ThreadPlace' /\ WorkingWhileExecuting'
    BY <1>t, <1>11 DEF MutexHeld, OwnerPlace, ThreadPlace, WorkingWhileExecuting, ChangeLock, History, TypeOK
  <2>4. CallCount'
    BY <1>t, <1>11 DEF OwnerPlace, ThreadPlace, WorkingWhileExecuting, CallCount, ChangeLock, History, TypeOK
  <2>5. Bounds'
    BY <1>t, <1>11 DEF Bounds, ChangeLock, History, TypeOK
  <2> QED BY <2>1, <2>2, <2>3, <2>4, <2>5 DEF IInv
<1>12. CASE ChangeWait
  <2>1. TypeOK'
    BY <1>t, <1>12 DEF TypeOK, ChangeWait, History, Statuses, Threads
  <2>2. MutexHeld' /\ OwnerPlace'
    BY <1>t, <1>12 DEF MutexHeld, OwnerPlace, ThreadPlace, ChangeWait, History, TypeOK
  <2>3. ThreadPlace' /\ WorkingWhileExecuting'
    BY <1>t, <1>12 DEF MutexHeld, OwnerPlace, ThreadPlace, WorkingWhileExecuting, ChangeWait, History, TypeOK
  <2>4. CallCount'
    BY <1>t, <1>12 DEF OwnerPlace, ThreadPlace, WorkingWhileExecuting, CallCount, ChangeWait, History, TypeOK
  <2>5. Bounds'
    BY <1>t, <1>12 DEF Bounds, ChangeWait, History, TypeOK
  <2> QED BY <2>1, <2>2, <2>3, <2>4, <2>5 DEF IInv
<1>13. CASE ChangeWake
  <2>1. TypeOK'
    BY <1>t, <1>13 DEF TypeOK, ChangeWake, History, Statuses, Threads
  <2>2. MutexHeld' /\ OwnerPlace'
    BY <1>t, <1>13 DEF MutexHeld, OwnerPlace, ThreadPlace, ChangeWake, History, TypeOK
  <2>3. ThreadPlace' /\ WorkingWhileExecuting'
    BY <1>t, <1>13 DEF MutexHeld, OwnerPlace, ThreadPlace, WorkingWhileExecuting, ChangeWake, History, TypeOK
  <2>4. CallCount'
    BY <1>t, <1>13 DEF OwnerPlace, ThreadPlace, WorkingWhileExecuting, CallCount, ChangeWake, History, TypeOK
  <2>5. Bounds'
    BY <1>t, <1>13 DEF Bounds, ChangeWake, History, TypeOK
  <2> QED BY <2>1, <2>2, <2>3, <2>4, <2>5 DEF IInv
<1>14. CASE ChangeAssign
  <2>1. TypeOK'
    <3>1. synced' \in BOOLEAN
      BY <1>14, Zenon DEF ChangeAssign
    <3>2. waiting' \subseteq Threads
      BY <1>t, <1>14 DEF TypeOK, ChangeAssign, Signal
    <3>3. launched' \in 0..MaxCalls
      BY <1>t, <1>14 DEF TypeOK, MutexHeld, Bounds, ChangeAssign
    <3> QED BY <1>t, <1>14, <3>1, <3>2, <3>3 DEF TypeOK, ChangeAssign, Statuses
  <2>2. MutexHeld' /\ OwnerPlace'
    BY <1>t, <1>14 DEF MutexHeld, OwnerPlace, ThreadPlace, ChangeAssign, History, TypeOK
  <2>3. ThreadPlace' /\ WorkingWhileExecuting'
    BY <1>t, <1>14 DEF MutexHeld, OwnerPlace, ThreadPlace, WorkingWhileExecuting, ChangeAssign, History, TypeOK
  <2>4. CallCount'
    <3>1. wpc # "relock" /\ wpc' = wpc /\ status = "OK" /\ executed' = executed /\ status' = op
      BY <1>t, <1>14 DEF WorkingWhileExecuting, ChangeAssign
    <3>2. launched = executed /\ executed \in Nat /\ launched \in Nat
      BY <1>t, <3>1 DEF CallCount, TypeOK
    <3>3. CASE op = "WORKING"
      <4>1. launched' = launched + 1 /\ synced' = FALSE
        BY <1>14, <3>3 DEF ChangeAssign
      <4> QED BY <3>1, <3>2, <3>3, <4>1 DEF CallCount
    <3>4. CASE op # "WORKING"
      <4>1. launched' = launched
        BY <1>14, <3>4 DEF ChangeAssign
      <4> QED BY <3>1, <3>2, <3>4, <4>1 DEF CallCount
    <3> QED BY <3>3, <3>4
  <2>5. Bounds'
    BY <1>t, <1>14 DEF Bounds, ChangeAssign, History, TypeOK
  <2> QED BY <2>1, <2>2, <2>3, <2>4, <2>5 DEF IInv
<1>15. CASE ChangeNothing
  <2>1. TypeOK'
    BY <1>t, <1>15 DEF TypeOK, ChangeNothing, History, Statuses, Threads
  <2>2. MutexHeld' /\ OwnerPlace'
    BY <1>t, <1>15 DEF MutexHeld, OwnerPlace, ThreadPlace, ChangeNothing, History, TypeOK
  <2>3. ThreadPlace' /\ WorkingWhileExecuting'
    BY <1>t, <1>15 DEF MutexHeld, OwnerPlace, ThreadPlace, WorkingWhileExecuting, ChangeNothing, History, TypeOK
  <2>4. CallCount'
    BY <1>t, <1>15 DEF OwnerPlace, ThreadPlace, WorkingWhileExecuting, CallCount, ChangeNothing, History, TypeOK
  <2>5. Bounds'
    BY <1>t, <1>15 DEF Bounds, ChangeNothing, History, TypeOK
  <2> QED BY <2>1, <2>2, <2>3, <2>4, <2>5 DEF IInv
<1>16. CASE ChangeUnlock
  <2>1. TypeOK'
    BY <1>t, <1>16 DEF TypeOK, ChangeUnlock, History, Statuses, Threads
  <2>2. MutexHeld' /\ OwnerPlace'
    BY <1>t, <1>16 DEF MutexHeld, OwnerPlace, ThreadPlace, ChangeUnlock, History, TypeOK
  <2>3. ThreadPlace' /\ WorkingWhileExecuting'
    BY <1>t, <1>16 DEF MutexHeld, OwnerPlace, ThreadPlace, WorkingWhileExecuting, ChangeUnlock, History, TypeOK
  <2>4. CallCount'
    BY <1>t, <1>16 DEF OwnerPlace, ThreadPlace, WorkingWhileExecuting, CallCount, ChangeUnlock, History, TypeOK
  <2>5. Bounds'
    BY <1>t, <1>16 DEF Bounds, ChangeUnlock, History, TypeOK
  <2> QED BY <2>1, <2>2, <2>3, <2>4, <2>5 DEF IInv
<1>17. CASE Join
  <2>1. TypeOK'
    BY <1>t, <1>17 DEF TypeOK, Join, History, Statuses, Threads
  <2>2. MutexHeld' /\ OwnerPlace'
    BY <1>t, <1>17 DEF MutexHeld, OwnerPlace, ThreadPlace, Join, History, TypeOK
  <2>3. ThreadPlace' /\ WorkingWhileExecuting'
    BY <1>t, <1>17 DEF MutexHeld, OwnerPlace, ThreadPlace, WorkingWhileExecuting, Join, History, TypeOK
  <2>4. CallCount'
    BY <1>t, <1>17 DEF OwnerPlace, ThreadPlace, WorkingWhileExecuting, CallCount, Join, History, TypeOK
  <2>5. Bounds'
    BY <1>t, <1>17 DEF Bounds, Join, History, TypeOK
  <2> QED BY <2>1, <2>2, <2>3, <2>4, <2>5 DEF IInv
<1>18. CASE WorkerLock
  <2>1. TypeOK'
    BY <1>t, <1>18 DEF TypeOK, WorkerLock, History, Statuses, Threads
  <2>2. MutexHeld' /\ OwnerPlace'
    BY <1>t, <1>18 DEF MutexHeld, OwnerPlace, ThreadPlace, WorkerLock, History, TypeOK
  <2>3. ThreadPlace' /\ WorkingWhileExecuting'
    BY <1>t, <1>18 DEF MutexHeld, OwnerPlace, ThreadPlace, WorkingWhileExecuting, WorkerLock, History, TypeOK
  <2>4. CallCount'
    BY <1>t, <1>18 DEF OwnerPlace, ThreadPlace, WorkingWhileExecuting, CallCount, WorkerLock, History, TypeOK
  <2>5. Bounds'
    BY <1>t, <1>18 DEF Bounds, WorkerLock, History, TypeOK
  <2> QED BY <2>1, <2>2, <2>3, <2>4, <2>5 DEF IInv
<1>19. CASE WorkerWait
  <2>1. TypeOK'
    BY <1>t, <1>19 DEF TypeOK, WorkerWait, History, Statuses, Threads
  <2>2. MutexHeld' /\ OwnerPlace'
    BY <1>t, <1>19 DEF MutexHeld, OwnerPlace, ThreadPlace, WorkerWait, History, TypeOK
  <2>3. ThreadPlace' /\ WorkingWhileExecuting'
    BY <1>t, <1>19 DEF MutexHeld, OwnerPlace, ThreadPlace, WorkingWhileExecuting, WorkerWait, History, TypeOK
  <2>4. CallCount'
    BY <1>t, <1>19 DEF OwnerPlace, ThreadPlace, WorkingWhileExecuting, CallCount, WorkerWait, History, TypeOK
  <2>5. Bounds'
    BY <1>t, <1>19 DEF Bounds, WorkerWait, History, TypeOK
  <2> QED BY <2>1, <2>2, <2>3, <2>4, <2>5 DEF IInv
<1>20. CASE WorkerWake
  <2>1. TypeOK'
    BY <1>t, <1>20 DEF TypeOK, WorkerWake, History, Statuses, Threads
  <2>2. MutexHeld' /\ OwnerPlace'
    BY <1>t, <1>20 DEF MutexHeld, OwnerPlace, ThreadPlace, WorkerWake, History, TypeOK
  <2>3. ThreadPlace' /\ WorkingWhileExecuting'
    BY <1>t, <1>20 DEF MutexHeld, OwnerPlace, ThreadPlace, WorkingWhileExecuting, WorkerWake, History, TypeOK
  <2>4. CallCount'
    BY <1>t, <1>20 DEF OwnerPlace, ThreadPlace, WorkingWhileExecuting, CallCount, WorkerWake, History, TypeOK
  <2>5. Bounds'
    BY <1>t, <1>20 DEF Bounds, WorkerWake, History, TypeOK
  <2> QED BY <2>1, <2>2, <2>3, <2>4, <2>5 DEF IInv
<1>21. CASE WorkerTake
  <2>1. TypeOK'
    BY <1>t, <1>21 DEF TypeOK, WorkerTake, History, Statuses, Threads
  <2>2. MutexHeld' /\ OwnerPlace'
    BY <1>t, <1>21 DEF MutexHeld, OwnerPlace, ThreadPlace, WorkerTake, History, TypeOK
  <2>3. ThreadPlace' /\ WorkingWhileExecuting'
    BY <1>t, <1>21 DEF MutexHeld, OwnerPlace, ThreadPlace, WorkingWhileExecuting, WorkerTake, History, TypeOK
  <2>4. CallCount'
    BY <1>t, <1>21 DEF OwnerPlace, ThreadPlace, WorkingWhileExecuting, CallCount, WorkerTake, History, TypeOK
  <2>5. Bounds'
    BY <1>t, <1>21 DEF Bounds, WorkerTake, History, TypeOK
  <2> QED BY <2>1, <2>2, <2>3, <2>4, <2>5 DEF IInv
<1>22. CASE WorkerExecute
  <2>1. TypeOK'
    <3>1. had_error' \in BOOLEAN
      BY <1>t, <1>22, Zenon DEF TypeOK, WorkerExecute
    <3> QED BY <1>t, <1>22, <3>1 DEF TypeOK, WorkerExecute, Statuses, Threads
  <2>2. MutexHeld' /\ OwnerPlace'
    BY <1>t, <1>22 DEF MutexHeld, OwnerPlace, ThreadPlace, WorkerExecute, History, TypeOK
  <2>3. ThreadPlace' /\ WorkingWhileExecuting'
    BY <1>t, <1>22 DEF MutexHeld, OwnerPlace, ThreadPlace, WorkingWhileExecuting, WorkerExecute, History, TypeOK
  <2>4. CallCount'
    BY <1>t, <1>22 DEF OwnerPlace, ThreadPlace, WorkingWhileExecuting, CallCount, WorkerExecute, History, TypeOK
  <2>5. Bounds'
    BY <1>t, <1>22 DEF Bounds, WorkerExecute, History, TypeOK
  <2> QED BY <2>1, <2>2, <2>3, <2>4, <2>5 DEF IInv
<1>23. CASE WorkerDone
  <2>1. TypeOK'
    BY <1>t, <1>23 DEF TypeOK, WorkerDone, History, Statuses, Threads, Signal
  <2>2. MutexHeld' /\ OwnerPlace'
    <3>1. status = "WORKING" /\ mpc \notin {"create", "created", "cs_check", "cs_unlock"}
      BY <1>t, <1>23 DEF WorkingWhileExecuting, MutexHeld, WorkerDone
    <3> QED BY <1>t, <1>23, <3>1 DEF MutexHeld, OwnerPlace, WorkerDone, TypeOK
  <2>3. ThreadPlace' /\ WorkingWhileExecuting'
    BY <1>t, <1>23 DEF MutexHeld, OwnerPlace, ThreadPlace, WorkingWhileExecuting, WorkerDone, History, TypeOK
  <2>4. CallCount'
    BY <1>t, <1>23 DEF OwnerPlace, ThreadPlace, WorkingWhileExecuting, CallCount, WorkerDone, History, TypeOK
  <2>5. Bounds'
    BY <1>t, <1>23 DEF Bounds, WorkerDone, History, TypeOK
  <2> QED BY <2>1, <2>2, <2>3, <2>4, <2>5 DEF IInv
<1>24. CASE WorkerExit
  <2>1. TypeOK'
    BY <1>t, <1>24 DEF TypeOK, WorkerExit, History, Statuses, Threads
  <2>2. MutexHeld' /\ OwnerPlace'
    BY <1>t, <1>24 DEF MutexHeld, OwnerPlace, ThreadPlace, WorkerExit, History, TypeOK
  <2>3. ThreadPlace' /\ WorkingWhileExecuting'
    BY <1>t, <1>24 DEF MutexHeld, OwnerPlace, ThreadPlace, WorkingWhileExecuting, WorkerExit, History, TypeOK
  <2>4. CallCount'
    BY <1>t, <1>24 DEF OwnerPlace, ThreadPlace, WorkingWhileExecuting, CallCount, WorkerExit, History, TypeOK
  <2>5. Bounds'
    BY <1>t, <1>24 DEF Bounds, WorkerExit, History, TypeOK
  <2> QED BY <2>1, <2>2, <2>3, <2>4, <2>5 DEF IInv
<1>25. CASE Spurious
  <2>1. TypeOK'
    BY <1>t, <1>25 DEF TypeOK, Spurious, History, Statuses, Threads
  <2>2. MutexHeld' /\ OwnerPlace'
    BY <1>t, <1>25 DEF MutexHeld, OwnerPlace, ThreadPlace, Spurious, History, TypeOK
  <2>3. ThreadPlace' /\ WorkingWhileExecuting'
    BY <1>t, <1>25 DEF MutexHeld, OwnerPlace, ThreadPlace, WorkingWhileExecuting, Spurious, History, TypeOK
  <2>4. CallCount'
    BY <1>t, <1>25 DEF OwnerPlace, ThreadPlace, WorkingWhileExecuting, CallCount, Spurious, History, TypeOK
  <2>5. Bounds'
    BY <1>t, <1>25 DEF Bounds, Spurious, History, TypeOK
  <2> QED BY <2>1, <2>2, <2>3, <2>4, <2>5 DEF IInv
<1>26. CASE UNCHANGED vars
  BY <1>t, <1>26 DEF vars, IInv, TypeOK, MutexHeld, OwnerPlace, ThreadPlace,
     WorkingWhileExecuting, CallCount, Bounds
<1> QED
  BY <1>1, <1>2, <1>3, <1>4, <1>5, <1>6, <1>7, <1>8, <1>9, <1>10, <1>11, <1>12, <1>13, <1>14, <1>15, <1>16, <1>17, <1>18, <1>19, <1>20, <1>21, <1>22, <1>23, <1>24, <1>25, <1>26 DEF Next, OwnerCalls, OwnerSteps, WorkerSteps

\* The invariant of the specification.
LEMMA Invariant == Spec => []IInv
<1>1. Init => IInv BY InitIInv
<1>2. IInv /\ [Next]_vars => IInv' BY NextIInv
<1> QED BY <1>1, <1>2, PTL DEF Spec

\* Every field of AVxWorker and every place of its two threads has its type.
THEOREM TypeCorrect == Spec => []TypeOK
<1>1. IInv => TypeOK BY DEF IInv
<1> QED BY <1>1, Invariant, PTL

\* While thread_loop runs the hook without the mutex, change_state leaves
\* status_ alone, whatever the owner calls.
THEOREM StatusLeftAlone == Spec => []WorkingWhileExecuting
<1>1. IInv => WorkingWhileExecuting BY DEF IInv
<1> QED BY <1>1, Invariant, PTL

\* thread_loop returns only for an owner that is in end() and waits to join.
THEOREM ExitIsAsked == Spec => []ExitsOnlyWhenEnded
<1>1. IInv => ExitsOnlyWhenEnded BY DEF IInv, ThreadPlace, ExitsOnlyWhenEnded
<1> QED BY <1>1, Invariant, PTL

\* A call handed over by launch() runs exactly once, and has run when sync()
\* or end() has returned, for any number of calls.
THEOREM OnceOnly == Spec => []RunsExactlyOnce
<1>1. IInv => RunsExactlyOnce
  BY DEF IInv, TypeOK, CallCount, RunsExactlyOnce
<1> QED BY <1>1, Invariant, PTL

-----------------------------------------------------------------------------
\* The refinement: what the owner sees of the worker is an AsyncCall.

\* A worker that does not exist is an idle one of AsyncCall.
LEMMA InitMaps == Init => Call!Init
BY DEF Init, Call!Init

\* A step of the worker is a step of AsyncCall or a stutter.
LEMMA NextMaps == IInv /\ [Next]_vars => [Call!Next]_(Call!vars)
<1> SUFFICES ASSUME IInv, [Next]_vars PROVE [Call!Next]_(Call!vars)
  OBVIOUS
<1>t. TypeOK /\ MutexHeld /\ OwnerPlace /\ ThreadPlace /\ WorkingWhileExecuting /\ CallCount
  BY DEF IInv
<1>1. CASE ResetFails
  BY <1>t, <1>1 DEF ResetFails, CallCount, History, Call!Next, Call!Forgive
<1>2. CASE ResetLock
  BY <1>t, <1>2 DEF ResetLock, CallCount, History, Call!Next, Call!Forgive
<1>3. CASE ResetRunning
  BY <1>t, <1>3 DEF ResetRunning, CallCount, History, Call!Next, Call!Forgive
<1>4. CASE CallLaunch
  BY <1>t, <1>4 DEF CallLaunch, CallCount, History, Call!Next, Call!Forgive
<1>5. CASE ResetDone
  BY <1>t, <1>5 DEF ResetDone, OwnerPlace, History, Call!Next, Call!Create
<1>6. CASE ChangeAssign
  <2>1. status = "OK" /\ op \in {"NOT_OK", "WORKING"} /\ wpc # "relock"
    BY <1>t, <1>6 DEF ChangeAssign, TypeOK, Statuses, WorkingWhileExecuting
  <2>2. CASE op = "WORKING"
    BY <2>1, <2>2, <1>6 DEF ChangeAssign, Call!Next, Call!Launch
  <2>3. CASE op = "NOT_OK"
    BY <2>1, <2>3, <1>6 DEF ChangeAssign, Call!Next, Call!Destroy
  <2> QED BY <2>1, <2>2, <2>3
<1>7. CASE WorkerExecute
  BY <1>t, <1>7 DEF WorkerExecute, WorkingWhileExecuting, Call!Next, Call!Complete
<1>8. CASE CreateFails
  BY <1>t, <1>8 DEF CreateFails, MutexHeld, OwnerPlace, ThreadPlace, WorkingWhileExecuting, History, Call!vars
<1>9. CASE CreateThread
  BY <1>t, <1>9 DEF CreateThread, MutexHeld, OwnerPlace, ThreadPlace, WorkingWhileExecuting, History, Call!vars
<1>10. CASE NoThread
  BY <1>t, <1>10 DEF NoThread, MutexHeld, OwnerPlace, ThreadPlace, WorkingWhileExecuting, History, Call!vars
<1>11. CASE CallSync
  BY <1>t, <1>11 DEF CallSync, MutexHeld, OwnerPlace, ThreadPlace, WorkingWhileExecuting, History, Call!vars
<1>12. CASE CallEnd
  BY <1>t, <1>12 DEF CallEnd, MutexHeld, OwnerPlace, ThreadPlace, WorkingWhileExecuting, History, Call!vars
<1>13. CASE ChangeLock
  BY <1>t, <1>13 DEF ChangeLock, MutexHeld, OwnerPlace, ThreadPlace, WorkingWhileExecuting, History, Call!vars
<1>14. CASE ChangeWait
  BY <1>t, <1>14 DEF ChangeWait, MutexHeld, OwnerPlace, ThreadPlace, WorkingWhileExecuting, History, Call!vars
<1>15. CASE ChangeWake
  BY <1>t, <1>15 DEF ChangeWake, MutexHeld, OwnerPlace, ThreadPlace, WorkingWhileExecuting, History, Call!vars
<1>16. CASE ChangeNothing
  BY <1>t, <1>16 DEF ChangeNothing, MutexHeld, OwnerPlace, ThreadPlace, WorkingWhileExecuting, History, Call!vars
<1>17. CASE ChangeUnlock
  BY <1>t, <1>17 DEF ChangeUnlock, MutexHeld, OwnerPlace, ThreadPlace, WorkingWhileExecuting, History, Call!vars
<1>18. CASE Join
  BY <1>t, <1>18 DEF Join, MutexHeld, OwnerPlace, ThreadPlace, WorkingWhileExecuting, History, Call!vars
<1>19. CASE WorkerLock
  BY <1>t, <1>19 DEF WorkerLock, MutexHeld, OwnerPlace, ThreadPlace, WorkingWhileExecuting, History, Call!vars
<1>20. CASE WorkerWait
  BY <1>t, <1>20 DEF WorkerWait, MutexHeld, OwnerPlace, ThreadPlace, WorkingWhileExecuting, History, Call!vars
<1>21. CASE WorkerWake
  BY <1>t, <1>21 DEF WorkerWake, MutexHeld, OwnerPlace, ThreadPlace, WorkingWhileExecuting, History, Call!vars
<1>22. CASE WorkerTake
  BY <1>t, <1>22 DEF WorkerTake, MutexHeld, OwnerPlace, ThreadPlace, WorkingWhileExecuting, History, Call!vars
<1>23. CASE WorkerDone
  BY <1>t, <1>23 DEF WorkerDone, MutexHeld, OwnerPlace, ThreadPlace, WorkingWhileExecuting, History, Call!vars
<1>24. CASE WorkerExit
  BY <1>t, <1>24 DEF WorkerExit, MutexHeld, OwnerPlace, ThreadPlace, WorkingWhileExecuting, History, Call!vars
<1>25. CASE Spurious
  BY <1>t, <1>25 DEF Spurious, MutexHeld, OwnerPlace, ThreadPlace, WorkingWhileExecuting, History, Call!vars
<1>26. CASE UNCHANGED vars
  BY <1>26 DEF vars, Call!vars
<1> QED
  BY <1>1, <1>2, <1>3, <1>4, <1>5, <1>6, <1>7, <1>8, <1>9, <1>10, <1>11, <1>12, <1>13, <1>14, <1>15, <1>16, <1>17, <1>18, <1>19, <1>20, <1>21, <1>22, <1>23, <1>24, <1>25, <1>26 DEF Next, OwnerCalls, OwnerSteps, WorkerSteps

\* The worker implements the safety part of AsyncCall: what the owner sees is
\* a call that runs once, and a failure it can ask for afterwards.
THEOREM Implements == Spec => Call!Safety
<1>1. Init => Call!Init BY InitMaps
<1>2. IInv /\ [Next]_vars => [Call!Next]_(Call!vars) BY NextMaps
<1> QED BY <1>1, <1>2, Invariant, PTL DEF Spec, Call!Safety

=============================================================================
