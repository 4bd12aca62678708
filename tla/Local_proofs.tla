---------------------------- MODULE Local_proofs ----------------------------
(***************************************************************************)
(* Theorems about the two parts that work on the local machine and share   *)
(* no state: managed processes and their manager (Processes), for any set  *)
(* of processes, IDs and failures, and the artifact cache (Artifact), for  *)
(* any finite set of paths and any contents.                               *)
(***************************************************************************)
EXTENDS Processes, Artifact, FiniteSetTheorems, TLAPS

----------------------------------------------------------------------------
(* Processes: the inductive invariant *)

\* The process runs, or its manage goroutine may still start it again.
Live(p) == ~Dead(p) \/ managing[p] \notin {"none", "closed"}

\* What a process object, its goroutines and the operating system agree on. A
\* one-shot process is alive while Start holds mu; any other is alive while
\* manage is in cmd.Wait. A Stop that is through has seen manage end.
ProcOK ==
  \A p \in Procs :
    /\ stopPc[p] # "no" <=> p \in stopped
    /\ p \in stopped => mu[p] = "free"
    /\ p \in OneShot => /\ managing[p] = "none" /\ stopPc[p] \in {"no", "nil"}
                        /\ mu[p] = "free" <=> Dead(p)
    /\ p \notin OneShot => /\ mu[p] = "free"
                           /\ osProc[p] = "none" <=> managing[p] = "none"
                           /\ ~Dead(p) <=> managing[p] = "wait"
                           /\ stopPc[p] = "nil" => managing[p] \in {"none", "closed"}

\* The operation under way and the flags and the process it is at.
MgrOK ==
  /\ \A i \in IDs : processesByID[i] # None => IdOf[processesByID[i]] = i
  /\ mgr = "idle" => at = None
  /\ mgr \in {"start", "add"} => ~stoppedAll
  /\ mgr = "add" => started
  /\ mgr = "stop" => stoppedAll
  /\ mgr \in {"start", "stop"} => todo \subseteq Managed
  /\ \A p \in Procs : mu[p] # "free" => at = p /\ mgr \in {"start", "add"}

\* A process that no user stopped was stopped by the manager's stop, which is
\* through with it or at it.
StopOK ==
  \A p \in stopped \ byUser :
    /\ stoppedAll /\ (stopPc[p] \in {"nil", "err"} \/ at = p)
    /\ mgr = "stop" => p \notin todo

\* Where a live process is accounted for, unless it was given back, is being
\* stopped by a user, or could not be stopped.
RunOK ==
  \A p \in Procs \ (removed \cup byUser) :
    Live(p) /\ stopPc[p] # "err" =>
      \/ mgr = "start" /\ p \in Managed
      \/ mgr = "add" /\ (p \in Managed \/ at = p)
      \/ mgr = "idle" /\ started /\ ~stoppedAll /\ p \in Managed
      \/ mgr = "stop" /\ (p \in todo \/ at = p)

ProcessesInv == TypeOK /\ ProcOK /\ MgrOK /\ StopOK /\ RunOK

----------------------------------------------------------------------------
(* Processes: types *)

\* The initial state of manager and processes has the stated types.
LEMMA InitType == Init => TypeOK
<1> SUFFICES ASSUME Init PROVE TypeOK
  OBVIOUS
<1>1. /\ mu \in [Procs -> {"free", "mgr"}] /\ processesByID \in [IDs -> Procs \cup {None}]
      /\ faults \in 0 .. MaxFaults
  BY ProcessesAssumption DEF Init
<1> QED
  BY <1>1 DEF Init, TypeOK

\* Every step of manager, manage, Stop and operating system keeps the types.
LEMMA TypeStep == TypeOK /\ [Next]_vars => TypeOK'
<1> SUFFICES ASSUME TypeOK, [Next]_vars PROVE TypeOK'
  OBVIOUS
<1> USE ProcessesAssumption DEF TypeOK, mgrVars, procVars, histVars
<1>1. CASE MgrStarted
  BY <1>1 DEF MgrStarted
<1>2. CASE MgrStopped
  BY <1>2 DEF MgrStopped
<1>3. ASSUME NEW p \in Procs, MgrStartNext(p) PROVE TypeOK'
  BY <1>3 DEF MgrStartNext, Launch, RunOneShot
<1>4. ASSUME NEW p \in Procs, MgrStartRan(p) PROVE TypeOK'
  BY <1>4 DEF MgrStartRan, OneShotReturns
<1>5. ASSUME NEW p \in Procs, MgrStartFails(p) PROVE TypeOK'
  BY <1>5 DEF MgrStartFails, StartFails, OneShotReturns, StopAll, Managed, Fault
<1>6. ASSUME NEW p \in Procs, MgrAddRan(p) PROVE TypeOK'
  BY <1>6 DEF MgrAddRan, OneShotReturns, Put, Fault
<1>7. ASSUME NEW p \in Procs, MgrStopNext(p) PROVE TypeOK'
  BY <1>7 DEF MgrStopNext, StopBegin, HasCmd
<1>8. ASSUME NEW p \in Procs, MgrStopReturns(p) PROVE TypeOK'
  BY <1>8 DEF MgrStopReturns
<1>9. CASE MgrStart
  BY <1>9 DEF MgrStart, Managed
<1>10. CASE MgrStop
  BY <1>10 DEF MgrStop, StopAll, Managed
<1>11. ASSUME NEW p \in Procs, NEW start \in BOOLEAN, MgrAdd(p, start) PROVE TypeOK'
  BY <1>11 DEF MgrAdd, Launch, RunOneShot, StartFails, Put, Fault
<1>12. ASSUME NEW p \in Procs, MgrRemove(p) PROVE TypeOK'
  BY <1>12 DEF MgrRemove
<1>13. ASSUME NEW p \in Procs, UserStop(p) PROVE TypeOK'
  BY <1>13 DEF UserStop, StopBegin, HasCmd
<1>14. ASSUME NEW p \in Procs, Exit(p) PROVE TypeOK'
  BY <1>14 DEF Exit, Fault
<1>15. ASSUME NEW p \in Procs, Fork(p) PROVE TypeOK'
  BY <1>15 DEF Fork
<1>16. ASSUME NEW p \in Procs, ChildExit(p) PROVE TypeOK'
  BY <1>16 DEF ChildExit
<1>17. ASSUME NEW p \in Procs, ManageWait(p) PROVE TypeOK'
  BY <1>17 DEF ManageWait, Goto
<1>18. ASSUME NEW p \in Procs, ManageCheck(p) PROVE TypeOK'
  BY <1>18 DEF ManageCheck, Goto
<1>19. ASSUME NEW p \in Procs, ManageHook(p) PROVE TypeOK'
  BY <1>19 DEF ManageHook, Goto
<1>20. ASSUME NEW p \in Procs, ManageTicker(p) PROVE TypeOK'
  BY <1>20 DEF ManageTicker, Goto
<1>21. ASSUME NEW p \in Procs, ManageRestart(p) PROVE TypeOK'
  BY <1>21 DEF ManageRestart, Goto, Launch, Fault
<1>22. ASSUME NEW p \in Procs, StopSignal(p) PROVE TypeOK'
  BY <1>22 DEF StopSignal, StopGoto, Fault
<1>23. ASSUME NEW p \in Procs, StopTimer(p) PROVE TypeOK'
  BY <1>23 DEF StopTimer, StopGoto
<1>24. ASSUME NEW p \in Procs, StopKill(p) PROVE TypeOK'
  BY <1>24 DEF StopKill, StopGoto
<1>25. ASSUME NEW p \in Procs, StopManaged(p) PROVE TypeOK'
  BY <1>25 DEF StopManaged, StopGoto
<1>26. CASE UNCHANGED vars
  BY <1>26 DEF vars
<1> QED
  BY <1>1, <1>2, <1>3, <1>4, <1>5, <1>6, <1>7, <1>8, <1>9, <1>10, <1>11, <1>12, <1>13,
     <1>14, <1>15, <1>16, <1>17, <1>18, <1>19, <1>20, <1>21, <1>22, <1>23, <1>24, <1>25, <1>26
     DEF Next, MgrStep, Environment, Manage, StopStep

----------------------------------------------------------------------------
(* Processes: the steps of processes *)

\* Every step keeps what a process, its goroutines and the operating system
\* agree on.
LEMMA ProcStep == TypeOK /\ ProcOK /\ [Next]_vars => ProcOK'
<1> SUFFICES ASSUME TypeOK, ProcOK, [Next]_vars PROVE ProcOK'
  OBVIOUS
<1> USE ProcessesAssumption DEF TypeOK, ProcOK, Dead, mgrVars, procVars, histVars
<1>1. CASE MgrStarted
  BY <1>1 DEF MgrStarted
<1>2. CASE MgrStopped
  BY <1>2 DEF MgrStopped
<1>3. ASSUME NEW p \in Procs, MgrStartNext(p) PROVE ProcOK'
  BY <1>3 DEF MgrStartNext, Launch, RunOneShot
<1>4. ASSUME NEW p \in Procs, MgrStartRan(p) PROVE ProcOK'
  BY <1>4 DEF MgrStartRan, OneShotReturns
<1>5. ASSUME NEW p \in Procs, MgrStartFails(p) PROVE ProcOK'
  BY <1>5 DEF MgrStartFails, StartFails, OneShotReturns, StopAll, Managed, Fault
<1>6. ASSUME NEW p \in Procs, MgrAddRan(p) PROVE ProcOK'
  BY <1>6 DEF MgrAddRan, OneShotReturns, Put, Fault
<1>7. ASSUME NEW p \in Procs, MgrStopNext(p) PROVE ProcOK'
  BY <1>7 DEF MgrStopNext, StopBegin, HasCmd
<1>8. ASSUME NEW p \in Procs, MgrStopReturns(p) PROVE ProcOK'
  BY <1>8 DEF MgrStopReturns
<1>9. CASE MgrStart
  BY <1>9 DEF MgrStart, Managed
<1>10. CASE MgrStop
  BY <1>10 DEF MgrStop, StopAll, Managed
<1>11. ASSUME NEW p \in Procs, NEW start \in BOOLEAN, MgrAdd(p, start) PROVE ProcOK'
  BY <1>11 DEF MgrAdd, Launch, RunOneShot, StartFails, Put, Fault
<1>12. ASSUME NEW p \in Procs, MgrRemove(p) PROVE ProcOK'
  BY <1>12 DEF MgrRemove
<1>13. ASSUME NEW p \in Procs, UserStop(p) PROVE ProcOK'
  BY <1>13 DEF UserStop, StopBegin, HasCmd
<1>14. ASSUME NEW p \in Procs, Exit(p) PROVE ProcOK'
  BY <1>14 DEF Exit, Fault
<1>15. ASSUME NEW p \in Procs, Fork(p) PROVE ProcOK'
  BY <1>15 DEF Fork
<1>16. ASSUME NEW p \in Procs, ChildExit(p) PROVE ProcOK'
  BY <1>16 DEF ChildExit
<1>17. ASSUME NEW p \in Procs, ManageWait(p) PROVE ProcOK'
  BY <1>17 DEF ManageWait, Goto
<1>18. ASSUME NEW p \in Procs, ManageCheck(p) PROVE ProcOK'
  BY <1>18 DEF ManageCheck, Goto
<1>19. ASSUME NEW p \in Procs, ManageHook(p) PROVE ProcOK'
  BY <1>19 DEF ManageHook, Goto
<1>20. ASSUME NEW p \in Procs, ManageTicker(p) PROVE ProcOK'
  BY <1>20 DEF ManageTicker, Goto
<1>21. ASSUME NEW p \in Procs, ManageRestart(p) PROVE ProcOK'
  BY <1>21 DEF ManageRestart, Goto, Launch, Fault
<1>22. ASSUME NEW p \in Procs, StopSignal(p) PROVE ProcOK'
  BY <1>22 DEF StopSignal, StopGoto, Fault
<1>23. ASSUME NEW p \in Procs, StopTimer(p) PROVE ProcOK'
  BY <1>23 DEF StopTimer, StopGoto
<1>24. ASSUME NEW p \in Procs, StopKill(p) PROVE ProcOK'
  BY <1>24 DEF StopKill, StopGoto
<1>25. ASSUME NEW p \in Procs, StopManaged(p) PROVE ProcOK'
  BY <1>25 DEF StopManaged, StopGoto
<1>26. CASE UNCHANGED vars
  BY <1>26 DEF vars
<1> QED
  BY <1>1, <1>2, <1>3, <1>4, <1>5, <1>6, <1>7, <1>8, <1>9, <1>10, <1>11, <1>12, <1>13,
     <1>14, <1>15, <1>16, <1>17, <1>18, <1>19, <1>20, <1>21, <1>22, <1>23, <1>24, <1>25, <1>26
     DEF Next, MgrStep, Environment, Manage, StopStep

----------------------------------------------------------------------------
(* Processes: the steps of the manager *)

\* Every step keeps the order of the manager's operations, and the map
\* indexed by the IDs of its processes.
LEMMA MgrKeeps == TypeOK /\ ProcOK /\ MgrOK /\ [Next]_vars => MgrOK'
<1> SUFFICES ASSUME TypeOK, ProcOK, MgrOK, [Next]_vars PROVE MgrOK'
  OBVIOUS
<1> USE ProcessesAssumption DEF TypeOK, MgrOK, Managed, mgrVars, procVars, histVars
<1>1. CASE MgrStarted
  BY <1>1 DEF MgrStarted
<1>2. CASE MgrStopped
  BY <1>2 DEF MgrStopped
<1>3. ASSUME NEW p \in Procs, MgrStartNext(p) PROVE MgrOK'
  BY <1>3 DEF MgrStartNext, Launch, RunOneShot
<1>4. ASSUME NEW p \in Procs, MgrStartRan(p) PROVE MgrOK'
  BY <1>4 DEF MgrStartRan, OneShotReturns
<1>5. ASSUME NEW p \in Procs, MgrStartFails(p) PROVE MgrOK'
  BY <1>5 DEF MgrStartFails, StartFails, OneShotReturns, StopAll, Managed, Fault
<1>6. ASSUME NEW p \in Procs, MgrAddRan(p) PROVE MgrOK'
  BY <1>6 DEF MgrAddRan, OneShotReturns, Put, Fault
<1>7. ASSUME NEW p \in Procs, MgrStopNext(p) PROVE MgrOK'
  BY <1>7 DEF MgrStopNext, StopBegin, HasCmd
<1>8. ASSUME NEW p \in Procs, MgrStopReturns(p) PROVE MgrOK'
  BY <1>8 DEF MgrStopReturns
<1>9. CASE MgrStart
  BY <1>9 DEF MgrStart, Managed
<1>10. CASE MgrStop
  BY <1>10 DEF MgrStop, StopAll, Managed
<1>11. ASSUME NEW p \in Procs, NEW start \in BOOLEAN, MgrAdd(p, start) PROVE MgrOK'
  BY <1>11 DEF MgrAdd, Launch, RunOneShot, StartFails, Put, Fault
<1>12. ASSUME NEW p \in Procs, MgrRemove(p) PROVE MgrOK'
  BY <1>12 DEF MgrRemove
<1>13. ASSUME NEW p \in Procs, UserStop(p) PROVE MgrOK'
  BY <1>13 DEF UserStop, StopBegin, HasCmd
<1>14. ASSUME NEW p \in Procs, Exit(p) PROVE MgrOK'
  BY <1>14 DEF Exit, Fault
<1>15. ASSUME NEW p \in Procs, Fork(p) PROVE MgrOK'
  BY <1>15 DEF Fork
<1>16. ASSUME NEW p \in Procs, ChildExit(p) PROVE MgrOK'
  BY <1>16 DEF ChildExit
<1>17. ASSUME NEW p \in Procs, ManageWait(p) PROVE MgrOK'
  BY <1>17 DEF ManageWait, Goto
<1>18. ASSUME NEW p \in Procs, ManageCheck(p) PROVE MgrOK'
  BY <1>18 DEF ManageCheck, Goto
<1>19. ASSUME NEW p \in Procs, ManageHook(p) PROVE MgrOK'
  BY <1>19 DEF ManageHook, Goto
<1>20. ASSUME NEW p \in Procs, ManageTicker(p) PROVE MgrOK'
  BY <1>20 DEF ManageTicker, Goto
<1>21. ASSUME NEW p \in Procs, ManageRestart(p) PROVE MgrOK'
  BY <1>21 DEF ManageRestart, Goto, Launch, Fault
<1>22. ASSUME NEW p \in Procs, StopSignal(p) PROVE MgrOK'
  BY <1>22 DEF StopSignal, StopGoto, Fault
<1>23. ASSUME NEW p \in Procs, StopTimer(p) PROVE MgrOK'
  BY <1>23 DEF StopTimer, StopGoto
<1>24. ASSUME NEW p \in Procs, StopKill(p) PROVE MgrOK'
  BY <1>24 DEF StopKill, StopGoto
<1>25. ASSUME NEW p \in Procs, StopManaged(p) PROVE MgrOK'
  BY <1>25 DEF StopManaged, StopGoto
<1>26. CASE UNCHANGED vars
  BY <1>26 DEF vars
<1> QED
  BY <1>1, <1>2, <1>3, <1>4, <1>5, <1>6, <1>7, <1>8, <1>9, <1>10, <1>11, <1>12, <1>13,
     <1>14, <1>15, <1>16, <1>17, <1>18, <1>19, <1>20, <1>21, <1>22, <1>23, <1>24, <1>25, <1>26
     DEF Next, MgrStep, Environment, Manage, StopStep

\* Every step keeps the account of who stopped a process.
LEMMA StopKeeps == ProcessesInv /\ [Next]_vars => StopOK'
<1> SUFFICES ASSUME ProcessesInv, [Next]_vars PROVE StopOK'
  OBVIOUS
<1> USE ProcessesAssumption DEF ProcessesInv, TypeOK, ProcOK, MgrOK, StopOK, mgrVars, procVars, histVars
<1>1. CASE MgrStarted
  BY <1>1 DEF MgrStarted
<1>2. CASE MgrStopped
  BY <1>2 DEF MgrStopped
<1>3. ASSUME NEW p \in Procs, MgrStartNext(p) PROVE StopOK'
  BY <1>3 DEF MgrStartNext, Launch, RunOneShot
<1>4. ASSUME NEW p \in Procs, MgrStartRan(p) PROVE StopOK'
  BY <1>4 DEF MgrStartRan, OneShotReturns
<1>5. ASSUME NEW p \in Procs, MgrStartFails(p) PROVE StopOK'
  BY <1>5 DEF MgrStartFails, StartFails, OneShotReturns, StopAll, Managed, Fault
<1>6. ASSUME NEW p \in Procs, MgrAddRan(p) PROVE StopOK'
  BY <1>6 DEF MgrAddRan, OneShotReturns, Put, Fault
<1>7. ASSUME NEW p \in Procs, MgrStopNext(p) PROVE StopOK'
  BY <1>7 DEF MgrStopNext, StopBegin, HasCmd
<1>8. ASSUME NEW p \in Procs, MgrStopReturns(p) PROVE StopOK'
  BY <1>8 DEF MgrStopReturns
<1>9. CASE MgrStart
  BY <1>9 DEF MgrStart, Managed
<1>10. CASE MgrStop
  BY <1>10 DEF MgrStop, StopAll, Managed
<1>11. ASSUME NEW p \in Procs, NEW start \in BOOLEAN, MgrAdd(p, start) PROVE StopOK'
  BY <1>11 DEF MgrAdd, Launch, RunOneShot, StartFails, Put, Fault
<1>12. ASSUME NEW p \in Procs, MgrRemove(p) PROVE StopOK'
  BY <1>12 DEF MgrRemove
<1>13. ASSUME NEW p \in Procs, UserStop(p) PROVE StopOK'
  BY <1>13 DEF UserStop, StopBegin, HasCmd
<1>14. ASSUME NEW p \in Procs, Exit(p) PROVE StopOK'
  BY <1>14 DEF Exit, Fault
<1>15. ASSUME NEW p \in Procs, Fork(p) PROVE StopOK'
  BY <1>15 DEF Fork
<1>16. ASSUME NEW p \in Procs, ChildExit(p) PROVE StopOK'
  BY <1>16 DEF ChildExit
<1>17. ASSUME NEW p \in Procs, ManageWait(p) PROVE StopOK'
  BY <1>17 DEF ManageWait, Goto
<1>18. ASSUME NEW p \in Procs, ManageCheck(p) PROVE StopOK'
  BY <1>18 DEF ManageCheck, Goto
<1>19. ASSUME NEW p \in Procs, ManageHook(p) PROVE StopOK'
  BY <1>19 DEF ManageHook, Goto
<1>20. ASSUME NEW p \in Procs, ManageTicker(p) PROVE StopOK'
  BY <1>20 DEF ManageTicker, Goto
<1>21. ASSUME NEW p \in Procs, ManageRestart(p) PROVE StopOK'
  BY <1>21 DEF ManageRestart, Goto, Launch, Fault
<1>22. ASSUME NEW p \in Procs, StopSignal(p) PROVE StopOK'
  BY <1>22 DEF StopSignal, StopGoto, Fault
<1>23. ASSUME NEW p \in Procs, StopTimer(p) PROVE StopOK'
  BY <1>23 DEF StopTimer, StopGoto
<1>24. ASSUME NEW p \in Procs, StopKill(p) PROVE StopOK'
  BY <1>24 DEF StopKill, StopGoto
<1>25. ASSUME NEW p \in Procs, StopManaged(p) PROVE StopOK'
  BY <1>25 DEF StopManaged, StopGoto
<1>26. CASE UNCHANGED vars
  BY <1>26 DEF vars
<1> QED
  BY <1>1, <1>2, <1>3, <1>4, <1>5, <1>6, <1>7, <1>8, <1>9, <1>10, <1>11, <1>12, <1>13,
     <1>14, <1>15, <1>16, <1>17, <1>18, <1>19, <1>20, <1>21, <1>22, <1>23, <1>24, <1>25, <1>26
     DEF Next, MgrStep, Environment, Manage, StopStep

\* Every step keeps every live process accounted for.
LEMMA RunKeeps == ProcessesInv /\ [Next]_vars => RunOK'
<1> SUFFICES ASSUME ProcessesInv, [Next]_vars PROVE RunOK'
  OBVIOUS
<1> USE ProcessesAssumption
    DEF ProcessesInv, TypeOK, ProcOK, MgrOK, StopOK, RunOK, Live, Dead, Managed, mgrVars, procVars, histVars
<1>1. CASE MgrStarted
  BY <1>1 DEF MgrStarted
<1>2. CASE MgrStopped
  BY <1>2 DEF MgrStopped
<1>3. ASSUME NEW p \in Procs, MgrStartNext(p) PROVE RunOK'
  BY <1>3 DEF MgrStartNext, Launch, RunOneShot
<1>4. ASSUME NEW p \in Procs, MgrStartRan(p) PROVE RunOK'
  BY <1>4 DEF MgrStartRan, OneShotReturns
<1>5. ASSUME NEW p \in Procs, MgrStartFails(p) PROVE RunOK'
  BY <1>5 DEF MgrStartFails, StartFails, OneShotReturns, StopAll, Managed, Fault
<1>6. ASSUME NEW p \in Procs, MgrAddRan(p) PROVE RunOK'
  BY <1>6 DEF MgrAddRan, OneShotReturns, Put, Fault
<1>7. ASSUME NEW p \in Procs, MgrStopNext(p) PROVE RunOK'
  BY <1>7 DEF MgrStopNext, StopBegin, HasCmd
<1>8. ASSUME NEW p \in Procs, MgrStopReturns(p) PROVE RunOK'
  BY <1>8 DEF MgrStopReturns
<1>9. CASE MgrStart
  BY <1>9 DEF MgrStart, Managed
<1>10. CASE MgrStop
  BY <1>10 DEF MgrStop, StopAll, Managed
<1>11. ASSUME NEW p \in Procs, NEW start \in BOOLEAN, MgrAdd(p, start) PROVE RunOK'
  BY <1>11 DEF MgrAdd, Launch, RunOneShot, StartFails, Put, Fault
<1>12. ASSUME NEW p \in Procs, MgrRemove(p) PROVE RunOK'
  BY <1>12 DEF MgrRemove
<1>13. ASSUME NEW p \in Procs, UserStop(p) PROVE RunOK'
  BY <1>13 DEF UserStop, StopBegin, HasCmd
<1>14. ASSUME NEW p \in Procs, Exit(p) PROVE RunOK'
  BY <1>14 DEF Exit, Fault
<1>15. ASSUME NEW p \in Procs, Fork(p) PROVE RunOK'
  BY <1>15 DEF Fork
<1>16. ASSUME NEW p \in Procs, ChildExit(p) PROVE RunOK'
  BY <1>16 DEF ChildExit
<1>17. ASSUME NEW p \in Procs, ManageWait(p) PROVE RunOK'
  BY <1>17 DEF ManageWait, Goto
<1>18. ASSUME NEW p \in Procs, ManageCheck(p) PROVE RunOK'
  BY <1>18 DEF ManageCheck, Goto
<1>19. ASSUME NEW p \in Procs, ManageHook(p) PROVE RunOK'
  BY <1>19 DEF ManageHook, Goto
<1>20. ASSUME NEW p \in Procs, ManageTicker(p) PROVE RunOK'
  BY <1>20 DEF ManageTicker, Goto
<1>21. ASSUME NEW p \in Procs, ManageRestart(p) PROVE RunOK'
  BY <1>21 DEF ManageRestart, Goto, Launch, Fault
<1>22. ASSUME NEW p \in Procs, StopSignal(p) PROVE RunOK'
  BY <1>22 DEF StopSignal, StopGoto, Fault
<1>23. ASSUME NEW p \in Procs, StopTimer(p) PROVE RunOK'
  BY <1>23 DEF StopTimer, StopGoto
<1>24. ASSUME NEW p \in Procs, StopKill(p) PROVE RunOK'
  BY <1>24 DEF StopKill, StopGoto
<1>25. ASSUME NEW p \in Procs, StopManaged(p) PROVE RunOK'
  BY <1>25 DEF StopManaged, StopGoto
<1>26. CASE UNCHANGED vars
  BY <1>26 DEF vars
<1> QED
  BY <1>1, <1>2, <1>3, <1>4, <1>5, <1>6, <1>7, <1>8, <1>9, <1>10, <1>11, <1>12, <1>13,
     <1>14, <1>15, <1>16, <1>17, <1>18, <1>19, <1>20, <1>21, <1>22, <1>23, <1>24, <1>25, <1>26
     DEF Next, MgrStep, Environment, Manage, StopStep

----------------------------------------------------------------------------
(* Processes: the theorems *)

\* The account holds before anything was added or started.
LEMMA InitInv == Init => ProcessesInv
<1> SUFFICES ASSUME Init PROVE ProcessesInv
  OBVIOUS
<1>1. TypeOK
  BY InitType
<1>2. ProcOK /\ MgrOK
  BY ProcessesAssumption DEF Init, ProcOK, MgrOK, Dead
<1>3. StopOK /\ RunOK
  BY DEF Init, StopOK, RunOK, Live, Dead
<1> QED
  BY <1>1, <1>2, <1>3 DEF ProcessesInv

\* Every reachable state of manager, processes and operating system has the
\* stated types.
THEOREM TypesHold == Spec => []TypeOK
<1> QED
  BY InitType, TypeStep, PTL DEF Spec

\* The account of live processes is an invariant of the manager, its processes
\* and the users that stop them.
THEOREM AccountHolds == Spec => []ProcessesInv
<1>1. ProcessesInv /\ [Next]_vars => ProcessesInv'
  BY TypeStep, ProcStep, MgrKeeps, StopKeeps, RunKeeps DEF ProcessesInv
<1> QED
  BY InitInv, <1>1, PTL DEF Spec

\* managedProcess.Stop: whoever calls it, and however it races a restart, when
\* it gets through the process has ended and nothing will start it again.
THEOREM StopEndsProcess == Spec => []StopLeavesNothing
<1>1. ProcessesInv => StopLeavesNothing
  BY DEF ProcessesInv, TypeOK, ProcOK, StopLeavesNothing, Dead
<1> QED
  BY AccountHolds, <1>1, PTL

\* processManager.Start and Stop: a manager that is not started or is stopped
\* leaves no process of its own running, a failed Start included.
THEOREM ManagerEndsProcesses == Spec => []ManagerLeavesNothing
<1>1. ProcessesInv => ManagerLeavesNothing
  BY DEF ProcessesInv, RunOK, MgrOK, ManagerLeavesNothing, Live
<1> QED
  BY AccountHolds, <1>1, PTL

\* Once killCh is closed no Start launches the process, be it a user's, the
\* manager's or that of a manage goroutine.
THEOREM StoppedStaysStopped == Spec => NoStartAfterStop
<1>1. TypeOK /\ [Next]_vars => [\A p \in stopped : osProc'[p] = "run" => osProc[p] = "run"]_vars
  <2> DEFINE NoStart == \A q \in stopped : osProc'[q] = "run" => osProc[q] = "run"
  <2> SUFFICES ASSUME TypeOK, Next PROVE NoStart
    OBVIOUS
  <2> USE DEF TypeOK, procVars
  <2>1. ASSUME NEW p \in Procs, Launch(p) \/ RunOneShot(p) PROVE NoStart
    BY <2>1 DEF Launch, RunOneShot
  <2>2. CASE \A q \in Procs : osProc'[q] = "run" => osProc[q] = "run"
    BY <2>2
  <2>3. ASSUME NEW p \in Procs, OneShotReturns(p) \/ StartFails(p) PROVE NoStart
    BY <2>3 DEF OneShotReturns, StartFails
  <2>4. CASE MgrStep
    BY <2>1, <2>2, <2>3, <2>4 DEF MgrStep, MgrStarted, MgrStopped, MgrStartNext, MgrStartRan,
       MgrStartFails, MgrAddRan, MgrStopNext, MgrStopReturns
  <2>5. CASE Environment
    BY <2>1, <2>2, <2>3, <2>5 DEF Environment, MgrStart, MgrStop, MgrAdd, MgrRemove, UserStop,
       Exit, Fork, ChildExit
  <2>6. ASSUME NEW p \in Procs, Manage(p) PROVE NoStart
    BY <2>1, <2>2, <2>6 DEF Manage, ManageWait, ManageCheck, ManageHook, ManageTicker, ManageRestart
  <2>7. ASSUME NEW p \in Procs, StopStep(p) PROVE NoStart
    BY <2>2, <2>7 DEF StopStep, StopSignal, StopTimer, StopKill, StopManaged
  <2> QED
    BY <2>4, <2>5, <2>6, <2>7 DEF Next
<1> QED
  BY TypesHold, <1>1, PTL DEF Spec, NoStartAfterStop

----------------------------------------------------------------------------
(* Artifact: paths and directories *)

PathType == Seq(STRING) \ {<<>>}

\* Paths are the members of Order.
LEMMA PathsAreSequences ==
  /\ Paths \subseteq PathType /\ Paths \subseteq Seq(STRING)
  /\ Paths = {Order[i] : i \in 1 .. Len(Order)}
BY ArtifactAssumption DEF Paths, Range, PathType

\* What it means that a path lies under another.
LEMMA UnderDef ==
  ASSUME NEW p \in Seq(STRING), NEW q \in Seq(STRING)
  PROVE  Under(p, q) <=> Len(p) <= Len(q) /\ \A i \in 1 .. Len(p) : p[i] = q[i]
<1>1. Under(p, q) <=> Len(p) <= Len(q) /\ SubSeq(p, 1, Len(p)) = SubSeq(q, 1, Len(p))
  BY DEF Under, Seqs!IsPrefix
<1>2. ASSUME Len(p) <= Len(q), SubSeq(p, 1, Len(p)) = SubSeq(q, 1, Len(p)), NEW i \in 1 .. Len(p)
      PROVE  p[i] = q[i]
  <2>1. SubSeq(p, 1, Len(p))[i] = p[i] /\ SubSeq(q, 1, Len(p))[i] = q[i]
    OBVIOUS
  <2> QED
    BY <1>2, <2>1
<1>3. ASSUME Len(p) <= Len(q), \A i \in 1 .. Len(p) : p[i] = q[i]
      PROVE  SubSeq(p, 1, Len(p)) = SubSeq(q, 1, Len(p))
  BY <1>3
<1> QED
  BY <1>1, <1>2, <1>3

\* Lying under is a partial order.
LEMMA UnderOrder ==
  ASSUME NEW p \in Seq(STRING), NEW q \in Seq(STRING), NEW r \in Seq(STRING)
  PROVE  /\ Under(p, p)
         /\ Under(p, q) /\ Under(q, r) => Under(p, r)
         /\ Under(p, q) /\ Under(q, p) => p = q
<1>1. Under(p, p)
  BY UnderDef
<1>2. ASSUME Under(p, q), Under(q, r) PROVE Under(p, r)
  <2>1. Len(p) <= Len(q) /\ \A i \in 1 .. Len(p) : p[i] = q[i]
    BY <1>2, UnderDef
  <2>2. Len(q) <= Len(r) /\ \A i \in 1 .. Len(q) : q[i] = r[i]
    BY <1>2, UnderDef
  <2>3. Len(p) <= Len(r) /\ \A i \in 1 .. Len(p) : p[i] = r[i]
    BY <2>1, <2>2
  <2> QED
    BY <2>3, UnderDef
<1>3. ASSUME Under(p, q), Under(q, p) PROVE p = q
  <2>1. Len(p) <= Len(q) /\ \A i \in 1 .. Len(p) : p[i] = q[i]
    BY <1>3, UnderDef
  <2>2. Len(q) <= Len(p)
    BY <1>3, UnderDef
  <2>3. Len(p) = Len(q)
    BY <2>1, <2>2
  <2> QED
    BY <2>1, <2>3
<1> QED
  BY <1>1, <1>2, <1>3

\* The parents of a path are the other paths it lies under.
LEMMA ParentsDef ==
  ASSUME NEW p \in Paths, NEW q \in Paths
  PROVE  q \in Parents(p) <=> Under(q, p) /\ q # p
BY DEF Parents, Under, Seqs!IsStrictPrefix

\* A parent is a path above, and its parents are parents too.
LEMMA ParentsOfParents ==
  ASSUME NEW p \in Paths, NEW q \in Parents(p)
  PROVE  /\ q \in Paths /\ q # p /\ ~Under(p, q)
         /\ Parents(q) \subseteq Parents(p)
<1>1. q \in Paths
  BY DEF Parents
<1>2. Under(q, p) /\ q # p
  BY <1>1, ParentsDef
<1>3. p \in Seq(STRING) /\ q \in Seq(STRING)
  BY <1>1, PathsAreSequences
<1>4. ~Under(p, q)
  BY <1>2, <1>3, UnderOrder
<1>5. ASSUME NEW r \in Parents(q) PROVE r \in Parents(p)
  <2>1. r \in Paths
    BY DEF Parents
  <2>2. Under(r, q) /\ r # q
    BY <1>1, <2>1, ParentsDef
  <2>3. r \in Seq(STRING)
    BY <2>1, PathsAreSequences
  <2>4. Under(r, p)
    BY <1>2, <1>3, <2>2, <2>3, UnderOrder
  <2>5. r # p
    BY <1>4, <2>2
  <2> QED
    BY <2>1, <2>4, <2>5, ParentsDef
<1> QED
  BY <1>1, <1>2, <1>4, <1>5

\* A directory whose every node has its parents.
Tree(d) == Directory(d) /\ WellFormed(d)

\* An empty directory is well formed.
LEMMA NothingIsATree == Tree(Nothing) /\ DOMAIN Nothing = {} /\ Files(Nothing) = {}
BY DEF Tree, Nothing, Directory, WellFormed, Range, Files

\* The nodes of a tree, and their parents.
LEMMA TreeNodes ==
  ASSUME NEW d, Tree(d), NEW p \in DOMAIN d
  PROVE  /\ p \in Paths /\ d[p] \in Contents \cup {Dir}
         /\ \A q \in Paths : Under(q, p) /\ q # p => q \in DOMAIN d /\ d[q] = Dir
         /\ \A q \in Parents(p) : q \in DOMAIN d /\ d[q] = Dir
<1>1. p \in Paths /\ d[p] \in Contents \cup {Dir}
  BY DEF Tree, Directory, Range
<1>2. \A q \in Parents(p) : q \in DOMAIN d /\ d[q] = Dir
  BY DEF Tree, WellFormed
<1> QED
  BY <1>1, <1>2, ParentsDef

\* Removing a path takes away what is under it and nothing else.
LEMMA WithoutDef ==
  ASSUME NEW d, NEW p
  PROVE  /\ \A q : q \in DOMAIN Without(d, p) <=> q \in DOMAIN d /\ ~Under(p, q)
         /\ \A q \in DOMAIN Without(d, p) : Without(d, p)[q] = d[q]
BY DEF Without

\* Removing a path leaves a well-formed tree, and no file that was not
\* there.
LEMMA WithoutIsATree ==
  ASSUME NEW d, Tree(d), NEW p \in Seq(STRING)
  PROVE  /\ Tree(Without(d, p))
         /\ \A q \in Files(Without(d, p)) : q \in Files(d) /\ Without(d, p)[q] = d[q]
<1> DEFINE e == Without(d, p)
<1>1. /\ \A q : q \in DOMAIN e <=> q \in DOMAIN d /\ ~Under(p, q)
      /\ \A q \in DOMAIN e : e[q] = d[q]
  BY WithoutDef
<1> HIDE DEF e
<1>2. ASSUME NEW q \in DOMAIN e PROVE q \in Paths /\ e[q] \in Contents \cup {Dir}
  BY <1>1, TreeNodes
<1>3. Directory(e)
  BY <1>2 DEF Directory, Range
<1>4. ASSUME NEW q \in DOMAIN e, NEW r \in Parents(q) PROVE r \in DOMAIN e /\ e[r] = Dir
  <2>1. q \in Paths /\ q \in DOMAIN d /\ ~Under(p, q)
    BY <1>1, <1>2
  <2>2. r \in DOMAIN d /\ d[r] = Dir
    BY <2>1, TreeNodes
  <2>3. r \in Paths /\ Under(r, q)
    BY <2>1, ParentsOfParents, ParentsDef
  <2>4. ~Under(p, r)
    BY <2>1, <2>3, UnderOrder, PathsAreSequences
  <2> QED
    BY <1>1, <2>2, <2>4
<1>5. WellFormed(e)
  BY <1>4 DEF WellFormed
<1>6. \A q \in Files(e) : q \in Files(d) /\ e[q] = d[q]
  BY <1>1 DEF Files
<1> QED
  BY <1>3, <1>5, <1>6 DEF Tree, e

\* Storing at a path replaces what is under it, makes its parents directories
\* and leaves the rest.
LEMMA StoreHashDef ==
  ASSUME NEW d, Tree(d), NEW p \in Paths, NEW h \in Contents \cup {Dir}
  PROVE  /\ \A q : q \in DOMAIN StoreHash(d, h, p) <=>
                     (q \in DOMAIN d /\ ~Under(p, q)) \/ q \in Parents(p) \/ q = p
         /\ StoreHash(d, h, p)[p] = h
         /\ \A q \in Parents(p) : StoreHash(d, h, p)[q] = Dir
         /\ \A q \in DOMAIN d : ~Under(p, q) /\ q \notin Parents(p) => StoreHash(d, h, p)[q] = d[q]
<1> DEFINE w == Without(d, p)
           b == WithParents(w, p)
           e == StoreHash(d, h, p)
<1>1. /\ \A q : q \in DOMAIN w <=> q \in DOMAIN d /\ ~Under(p, q)
      /\ \A q \in DOMAIN w : w[q] = d[q]
  BY WithoutDef
<1> HIDE DEF w
<1>2. /\ DOMAIN b = DOMAIN w \cup Parents(p)
      /\ \A q \in DOMAIN b : b[q] = IF q \in Parents(p) THEN Dir ELSE w[q]
  BY DEF WithParents
<1> HIDE DEF b
<1>3. e = [q \in DOMAIN b \cup {p} |-> IF q = p THEN h ELSE b[q]]
  BY DEF StoreHash, b, w
<1> HIDE DEF e
<1>4. DOMAIN e = DOMAIN b \cup {p} /\ \A q \in DOMAIN e : e[q] = IF q = p THEN h ELSE b[q]
  BY <1>3
<1>5. p \notin Parents(p) /\ Under(p, p)
  BY ParentsDef, UnderOrder, PathsAreSequences
<1>6. \A q : q \in DOMAIN e <=> (q \in DOMAIN d /\ ~Under(p, q)) \/ q \in Parents(p) \/ q = p
  BY <1>1, <1>2, <1>4
<1>7. e[p] = h
  BY <1>4
<1>8. \A q \in Parents(p) : e[q] = Dir
  BY <1>2, <1>4, <1>5
<1>9. ASSUME NEW q \in DOMAIN d, ~Under(p, q), q \notin Parents(p) PROVE e[q] = d[q]
  BY <1>1, <1>2, <1>4, <1>5, <1>9
<1> QED
  BY <1>6, <1>7, <1>8, <1>9 DEF e

\* storeHash leaves a well-formed tree, and no file but the new one that was
\* not there.
LEMMA StoreHashIsATree ==
  ASSUME NEW d, Tree(d), NEW p \in Paths, NEW h \in Contents \cup {Dir}
  PROVE  /\ Tree(StoreHash(d, h, p))
         /\ \A q \in Files(StoreHash(d, h, p)) :
              \/ q = p /\ StoreHash(d, h, p)[q] = h
              \/ q \in Files(d) /\ StoreHash(d, h, p)[q] = d[q]
<1> DEFINE e == StoreHash(d, h, p)
<1>1. /\ \A q : q \in DOMAIN e <=> (q \in DOMAIN d /\ ~Under(p, q)) \/ q \in Parents(p) \/ q = p
      /\ e[p] = h /\ \A q \in Parents(p) : e[q] = Dir
      /\ \A q \in DOMAIN d : ~Under(p, q) /\ q \notin Parents(p) => e[q] = d[q]
  BY StoreHashDef
<1> HIDE DEF e
<1>2. ASSUME NEW q \in DOMAIN e PROVE q \in Paths /\ e[q] \in Contents \cup {Dir}
  BY <1>1, TreeNodes, ParentsOfParents
<1>3. Directory(e)
  BY <1>2 DEF Directory, Range
<1>4. ASSUME NEW q \in DOMAIN e, NEW r \in Parents(q) PROVE r \in DOMAIN e /\ e[r] = Dir
  <2>1. CASE q = p
    BY <1>1, <2>1
  <2>2. CASE q \in Parents(p)
    BY <1>1, <2>2, ParentsOfParents
  <2>3. CASE q \in DOMAIN d /\ ~Under(p, q)
    <3>1. q \in Paths /\ r \in DOMAIN d /\ d[r] = Dir
      BY <2>3, TreeNodes
    <3>2. r \in Paths /\ Under(r, q)
      BY <3>1, ParentsOfParents, ParentsDef
    <3>3. ~Under(p, r)
      BY <2>3, <3>1, <3>2, UnderOrder, PathsAreSequences
    <3> QED
      BY <1>1, <3>1, <3>3
  <2> QED
    BY <1>1, <2>1, <2>2, <2>3
<1>5. WellFormed(e)
  BY <1>4 DEF WellFormed
<1>6. \A q \in Files(e) : (q = p /\ e[q] = h) \/ (q \in Files(d) /\ e[q] = d[q])
  BY <1>1 DEF Files
<1> QED
  BY <1>3, <1>5, <1>6 DEF Tree, e

\* A sequence of the elements of a set of paths has them all.
LEMMA SequenceOfSet ==
  ASSUME NEW S \in SUBSET Paths, NEW s \in Seqs!SetToSeqs(S)
  PROVE  s \in Seq(Paths) /\ Range(s) = S
<1> DEFINE n == Cardinality(S)
<1>1. IsFiniteSet(S)
  <2>0. Len(Order) \in Nat /\ Order \in [1 .. Len(Order) -> PathType]
    BY ArtifactAssumption DEF PathType
  <2>1. IsFiniteSet(1 .. Len(Order)) /\ Order \in [1 .. Len(Order) -> Paths]
    <3>1. IsFiniteSet(1 .. Len(Order))
      BY <2>0, FS_Interval
    <3>2. Order \in [1 .. Len(Order) -> Paths]
      BY <2>0, PathsAreSequences
    <3> QED
      BY <3>1, <3>2
  <2>2. Order \in Surjection(1 .. Len(Order), Paths)
    BY <2>1, PathsAreSequences DEF Surjection
  <2>3. IsFiniteSet(Paths)
    BY <2>1, <2>2, FS_Surjection
  <2> QED
    BY <2>3, FS_Subset
<1>2. n \in Nat
  BY <1>1, FS_CardinalityType
<1>3. Seqs!Cardinality(S) = n
  BY DEF Cardinality, Seqs!Cardinality
<1>4. s \in [1 .. n -> S] /\ \A i, j \in 1 .. n : i # j => s[i] # s[j]
  BY <1>3 DEF Seqs!SetToSeqs
<1> HIDE DEF n
<1>5. s \in Injection(1 .. n, S)
  BY <1>4 DEF Injection, IsInjective
<1>6. Cardinality(1 .. n) = n
  BY <1>2, FS_Interval
<1>7. s \in Surjection(1 .. n, S)
  BY <1>1, <1>5, <1>6, FS_Injection DEF n
<1>8. Range(s) = S
  BY <1>4, <1>7 DEF Surjection, Range
<1>9. s \in Seq(Paths)
  BY <1>2, <1>4
<1> QED
  BY <1>8, <1>9

\* Visiting the first path leaves the others.
LEMMA VisitFirst ==
  ASSUME NEW s \in Seq(Paths), s # <<>>
  PROVE  /\ Head(s) \in Paths /\ Tail(s) \in Seq(Paths)
         /\ Range(s) = {Head(s)} \cup Range(Tail(s))
<1>1. Head(s) = s[1] /\ Len(s) \in Nat \ {0} /\ Len(Tail(s)) = Len(s) - 1 /\ Tail(s) \in Seq(Paths)
  OBVIOUS
<1>2. \A i \in 1 .. (Len(s) - 1) : Tail(s)[i] = s[i + 1]
  OBVIOUS
<1>3. Range(s) = {s[i] : i \in 1 .. Len(s)}
  BY DEF Range
<1>4. Range(Tail(s)) = {Tail(s)[i] : i \in 1 .. (Len(s) - 1)}
  <2>1. DOMAIN Tail(s) = 1 .. (Len(s) - 1)
    BY <1>1
  <2> QED
    BY <2>1, Zenon DEF Range
<1>5. ASSUME NEW p \in Range(s) PROVE p = Head(s) \/ p \in Range(Tail(s))
  <2>1. PICK i \in 1 .. Len(s) : p = s[i]
    BY <1>3
  <2>2. CASE i = 1
    BY <1>1, <2>1, <2>2
  <2>3. CASE i # 1
    <3>1. i - 1 \in 1 .. (Len(s) - 1) /\ p = Tail(s)[i - 1]
      BY <1>1, <1>2, <2>1, <2>3
    <3> QED
      BY <1>4, <3>1
  <2> QED
    BY <2>2, <2>3
<1>6. ASSUME NEW p \in Range(Tail(s)) PROVE p \in Range(s)
  <2>1. PICK i \in 1 .. (Len(s) - 1) : p = Tail(s)[i]
    BY <1>4
  <2>2. i + 1 \in 1 .. Len(s) /\ p = s[i + 1]
    BY <1>1, <1>2, <2>1
  <2> QED
    BY <1>3, <2>2
<1>7. Head(s) \in Range(s)
  BY <1>1, <1>3
<1> QED
  BY <1>1, <1>5, <1>6, <1>7

\* A walk visits every path of the directory.
LEMMA WalksVisit ==
  ASSUME NEW d, Tree(d), NEW s \in Walks(d)
  PROVE  s \in Seq(Paths) /\ Range(s) = DOMAIN d
<1>1. DOMAIN d \in SUBSET Paths /\ s \in Seqs!SetToSeqs(DOMAIN d)
  BY DEF Walks, Tree, Directory
<1> QED
  BY <1>1, SequenceOfSet

\* A walk that is over has nothing to visit.
LEMMA EmptyRange == Range(<<>>) = {} /\ <<>> \in Seq(Paths)
BY DEF Range

----------------------------------------------------------------------------
(* Artifact: the inductive invariant *)

Kinds == {"none", "noop", "pull", "push", "status", "remove", "clean"}

OpType ==
  [kind : Kinds, cache : {"none", "noop", "cached"}, todo : Seq(Paths), all : BOOLEAN,
   path : Seq(STRING), pc : {"idle", "done", "ensure", "walk", "commit", "encode", "clean"},
   result : {"none", "ok", "error"}, modified : SUBSET Paths, unstored : SUBSET Paths]

\* The command that runs is at a point of its own, and a new one starts afresh.
OpInv ==
  /\ op \in OpType
  /\ op.cache = "none" => op.pc = "idle"
  /\ op.pc = "idle" => op.kind = "none" /\ op.modified = {} /\ op.unstored = {}
  /\ op.pc = "ensure" => op.kind = "pull"
  /\ op.pc = "walk" => op.kind \in {"push", "status"}
  /\ op.pc \in {"commit", "encode"} => op.kind \in {"push", "remove"}
  /\ op.pc = "clean" => op.kind = "clean"

DataInv ==
  /\ Tree(tree) /\ Tree(root) /\ (file = Broken \/ Tree(file))
  /\ cache \subseteq Contents /\ source \subseteq Contents
  /\ edits \in 0 .. MaxEdits /\ failures \in 0 .. MaxFailures

\* A walk visits what is there, and a pull what the tree has.
TodoInv ==
  /\ op.pc = "walk" => Range(op.todo) \subseteq DOMAIN root
  /\ op.pc = "ensure" => Range(op.todo) \subseteq Files(tree)

\* The tree in memory, too, names only what is stored.
TreeIsStored == \A p \in Files(tree) : tree[p] \in source

Matches(p) == p \in DOMAIN tree /\ tree[p] = root[p]
Pushed == Files(root) \ Ignored

\* A push on its way: what it has visited is recorded.
PushInv ==
  /\ (op.kind = "push" /\ op.pc = "walk") => \A p \in Pushed : p \in Range(op.todo) \/ Matches(p)
  /\ (op.kind = "push" /\ op.pc \in {"commit", "encode"}) => \A p \in Pushed : Matches(p)
  /\ PushRecords

\* A status on its way: what it has visited is recorded or reported, and what
\* it has reported is still to be recorded.
StatusInv ==
  /\ (op.kind = "status" /\ op.pc = "walk") =>
       /\ \A p \in Pushed :
            p \in Range(op.todo) \/ Matches(p) \/ p \in op.modified \cup op.unstored
       /\ \A p \in op.modified \cup op.unstored : p \in Pushed /\ ~Matches(p)
       /\ op.modified \subseteq DOMAIN tree /\ op.unstored \cap DOMAIN tree = {}
  /\ StatusForetells

Delivered(p) ==
  \/ p \in DOMAIN root /\ root[p] = tree[p]
  \/ TooLarge(p) /\ tree[p] \notin cache

\* A pull on its way: what it has visited is delivered.
PullInv ==
  /\ op.pc = "ensure" =>
       \A p \in Files(tree) : Under(op.path, p) => p \in Range(op.todo) \/ Delivered(p)
  /\ PullDelivers

Kept(p) == p \in DOMAIN tree \/ \E q \in Parents(p) : q \in Files(tree)

\* A clean on its way: what it has visited is gone or kept.
CleanInv ==
  /\ op.pc = "clean" => \A p \in DOMAIN root : p \in Range(op.todo) \/ Kept(p)
  /\ CleanLeavesTheTree

ArtifactInv ==
  /\ OpInv /\ DataInv /\ TodoInv /\ TreeIsStored /\ CommittedIsStored
  /\ PushInv /\ StatusInv /\ PullInv /\ CleanInv

----------------------------------------------------------------------------
(* Artifact: every step keeps it *)

\* A directory is told from a file.
LEMMA DirIsNoContent == Dir \notin Contents
BY ArtifactAssumption DEF Dir

\* What the invariant says of the data, for the proofs below.
LEMMA Data ==
  ASSUME ArtifactInv
  PROVE  /\ op \in OpType /\ op.todo \in Seq(Paths) /\ Tree(tree) /\ Tree(root)
         /\ cache \subseteq source /\ cache \subseteq Contents /\ source \subseteq Contents
         /\ op.todo # <<>> => /\ Head(op.todo) \in Paths /\ Tail(op.todo) \in Seq(Paths)
                              /\ Range(op.todo) = {Head(op.todo)} \cup Range(Tail(op.todo))
         /\ op.todo # <<>> /\ op.pc = "walk" => Head(op.todo) \in DOMAIN root
         /\ op.todo # <<>> /\ op.pc = "ensure" =>
              Head(op.todo) \in Files(tree) /\ tree[Head(op.todo)] \in Contents
<1>1. op \in OpType /\ op.todo \in Seq(Paths)
  BY DEF ArtifactInv, OpInv, OpType
<1>2. op.todo # <<>> => /\ Head(op.todo) \in Paths /\ Tail(op.todo) \in Seq(Paths)
                        /\ Range(op.todo) = {Head(op.todo)} \cup Range(Tail(op.todo))
  BY <1>1, VisitFirst
<1>3. \A p \in Files(tree) : tree[p] \in Contents
  BY TreeNodes DEF ArtifactInv, DataInv, Files
<1> QED
  BY <1>1, <1>2, <1>3 DEF ArtifactInv, DataInv, CommittedIsStored, TodoInv

\* The initial states satisfy the invariant.
LEMMA InitArtifact == ArtifactInit => ArtifactInv
<1> SUFFICES ASSUME ArtifactInit PROVE ArtifactInv
  OBVIOUS
<1>1. OpInv /\ op.pc = "idle"
  BY EmptyRange DEF ArtifactInit, NoOp, OpInv, OpType, Kinds
<1>2. DataInv /\ TreeIsStored /\ CommittedIsStored
  BY NothingIsATree, ArtifactAssumption DEF ArtifactInit, DataInv, TreeIsStored, CommittedIsStored
<1>3. TodoInv /\ PushInv /\ StatusInv /\ PullInv /\ CleanInv
  BY <1>1 DEF TodoInv, PushInv, PushRecords, StatusInv, StatusForetells, PullInv, PullDelivers, CleanInv,
      CleanLeavesTheTree
<1> QED
  BY <1>1, <1>2, <1>3 DEF ArtifactInv

\* The command that runs keeps its shape.
LEMMA OpStep ==
  ASSUME ArtifactInv, [ArtifactNext]_artifactVars
  PROVE  OpInv'
<1>0. /\ OpInv /\ op.todo \in Seq(Paths) /\ <<>> \in Seq(Paths) /\ <<>> \in Seq(STRING)
      /\ op.todo # <<>> => Head(op.todo) \in Paths /\ Tail(op.todo) \in Seq(Paths)
      /\ Tree(root) /\ Tree(tree) /\ Paths \subseteq Seq(STRING)
  BY Data, EmptyRange, PathsAreSequences DEF ArtifactInv
<1> USE <1>0 DEF OpInv, OpType, Kinds, NoOp, Finish, Begin, Visited, Idle
<1>1. CASE \E p \in Paths, c \in Contents : WriteFile(p, c)
  BY <1>1 DEF WriteFile
<1>2. CASE \E p \in Paths : RemoveAll(p)
  BY <1>2 DEF RemoveAll
<1>3. ASSUME NEW p \in Paths, Remove(p) PROVE OpInv'
  BY <1>3 DEF Remove
<1>4. CASE \E found \in BOOLEAN : GlobalCache(found)
  BY <1>4 DEF GlobalCache
<1>5. ASSUME NEW p \in Paths \cup {<<>>}, NEW all \in BOOLEAN, Ensure(p, all) PROVE OpInv'
  <2>1. p \in Seq(STRING)
    OBVIOUS
  <2>2. CASE Begin("pull", "done", <<>>, p, all)
    <3>1. op.cache = "cached" /\ op.pc = "idle"
      BY <1>5 DEF Ensure
    <3> QED
      BY <2>1, <2>2, <3>1
  <2>3. ASSUME NEW s \in Seqs!SetToSeqs({q \in Files(tree) : Under(p, q)}),
               Begin("pull", "ensure", s, p, all)
        PROVE  OpInv'
    <3>1. s \in Seq(Paths)
      BY SequenceOfSet DEF Files, Tree, Directory
    <3> QED
      BY <1>5, <2>1, <2>3, <3>1 DEF Ensure
  <2> QED
    BY <1>5, <2>2, <2>3 DEF Ensure
<1>6. CASE \E c \in Contents : Store(c)
  BY <1>6 DEF Store
<1>7. ASSUME NEW kind \in {"push", "status"}, Walk(kind) PROVE OpInv'
  <2>1. PICK s \in Walks(root) : Begin(kind, "walk", s, <<>>, FALSE)
    BY <1>7 DEF Walk
  <2>2. s \in Seq(Paths)
    BY WalksVisit
  <2> QED
    BY <1>7, <2>1, <2>2 DEF Walk
<1>8. CASE EnsureNode
  <2>1. /\ op.pc = "ensure" /\ op.todo # <<>>
        /\ op' = op \/ op' = Visited \/ op' = Finish("error")
    BY <1>8 DEF EnsureNode, EmplaceRemove, EmplaceRename
  <2>2. CASE op' = op
    BY <2>2
  <2>3. CASE op' = Visited
    BY <2>1, <2>3
  <2>4. CASE op' = Finish("error")
    BY <2>1, <2>4
  <2> QED
    BY <2>1, <2>2, <2>3, <2>4
<1>9. CASE EnsureLoad \/ EnsureDone
  <2>1. CASE EnsureLoad
    BY <2>1 DEF EnsureLoad
  <2>2. CASE EnsureDone
    BY <2>2 DEF EnsureDone
  <2> QED
    BY <1>9, <2>1, <2>2
<1>10. CASE WalkDir \/ WriteThroughFails
  BY <1>10 DEF WalkDir, WriteThroughFails
<1>11. CASE WalkFile
  <2>1. PICK p \in Paths :
          /\ p = Head(op.todo) /\ op.pc = "walk" /\ op.todo # <<>>
          /\ \/ op' = Visited
             \/ op' = [Visited EXCEPT !.modified = @ \cup {p}]
             \/ op' = [Visited EXCEPT !.unstored = @ \cup {p}]
    BY <1>11 DEF WalkFile
  <2>2. CASE op' = Visited
    BY <2>1, <2>2
  <2>3. CASE op' = [Visited EXCEPT !.modified = @ \cup {p}]
    BY <2>1, <2>3
  <2>4. CASE op' = [Visited EXCEPT !.unstored = @ \cup {p}]
    BY <2>1, <2>4
  <2> QED
    BY <2>1, <2>2, <2>3, <2>4
<1>12. CASE WriteThrough
  BY <1>12 DEF WriteThrough
<1>13. CASE WalkDone \/ CommitTruncate \/ CommitEncode
  <2>1. CASE WalkDone
    BY <2>1 DEF WalkDone
  <2>2. CASE CommitTruncate
    BY <2>2 DEF CommitTruncate
  <2>3. CASE CommitEncode
    BY <2>3 DEF CommitEncode
  <2> QED
    BY <1>13, <2>1, <2>2, <2>3
<1>14. CASE Clean
  <2>1. PICK s \in Walks(root) : Begin("clean", "clean", s, <<>>, FALSE)
    BY <1>14 DEF Clean
  <2>2. s \in Seq(Paths)
    BY WalksVisit
  <2> QED
    BY <1>14, <2>1, <2>2 DEF Clean
<1>15. CASE CleanEntry \/ CleanDone
  <2>1. CASE CleanEntry
    <3>1. op.pc = "clean" /\ op.todo # <<>> /\ (op' = Visited \/ op' = Finish("error"))
      BY <2>1 DEF CleanEntry
    <3>2. CASE op' = Visited
      BY <3>1, <3>2
    <3>3. CASE op' = Finish("error")
      BY <3>1, <3>3
    <3> QED
      BY <3>1, <3>2, <3>3
  <2>2. CASE CleanDone
    BY <2>2 DEF CleanDone
  <2> QED
    BY <1>15, <2>1, <2>2
<1>16. CASE NoopCommand \/ Return \/ ProcessEnds \/ CheckOut
  <2>1. CASE NoopCommand
    BY <2>1 DEF NoopCommand
  <2>2. CASE Return
    BY <2>2 DEF Return
  <2>3. CASE ProcessEnds
    <3>1. op' = NoOp
      BY <2>3 DEF ProcessEnds
    <3> QED
      BY <3>1
  <2>4. CASE CheckOut
    BY <2>4 DEF CheckOut
  <2> QED
    BY <1>16, <2>1, <2>2, <2>3, <2>4
<1>17. CASE UNCHANGED artifactVars
  BY <1>17 DEF artifactVars
<1> QED
  BY <1>1, <1>2, <1>3, <1>4, <1>5, <1>6, <1>7, <1>8, <1>9, <1>10, <1>11, <1>12, <1>13, <1>14,
     <1>15, <1>16, <1>17 DEF ArtifactNext

\* The directories stay trees, and what the trees name is stored.
StoredInv == DataInv /\ TreeIsStored /\ CommittedIsStored

\* A step keeps the blobs of tree and tree.json in the source store.
LEMMA StoredStep ==
  ASSUME ArtifactInv, [ArtifactNext]_artifactVars
  PROVE  StoredInv'
<1>0. /\ DataInv /\ TreeIsStored /\ CommittedIsStored /\ Tree(tree) /\ Tree(root)
      /\ MaxEdits \in Nat /\ MaxFailures \in Nat
      /\ cache \subseteq source /\ source \subseteq Contents
      /\ failures \in 0 .. MaxFailures /\ edits \in 0 .. MaxEdits
  BY Data, ArtifactAssumption DEF ArtifactInv, DataInv
<1>1. ASSUME UNCHANGED <<tree, file, cache, source>>, Tree(root'), edits' \in 0 .. MaxEdits,
             failures' \in 0 .. MaxFailures
      PROVE  StoredInv'
  BY <1>0, <1>1 DEF StoredInv, DataInv, TreeIsStored, CommittedIsStored
<1>2. ASSUME UNCHANGED <<root, file, cache, source>>, Tree(tree'), edits' = edits,
             failures' \in 0 .. MaxFailures,
             \A p \in Files(tree') : tree'[p] \in source
      PROVE  StoredInv'
  BY <1>0, <1>2 DEF StoredInv, DataInv, TreeIsStored, CommittedIsStored
<1>3. Failure => failures' \in 0 .. MaxFailures
  BY <1>0 DEF Failure
<1>4. edits < MaxEdits /\ edits' = edits + 1 => edits' \in 0 .. MaxEdits
  BY <1>0
<1>5. ASSUME NEW p \in Paths, NEW c \in Contents, WriteFile(p, c) PROVE StoredInv'
  <2>1. Tree(root')
    BY <1>0, <1>5, StoreHashIsATree DEF WriteFile
  <2> QED
    BY <1>0, <1>1, <1>4, <1>5, <2>1 DEF WriteFile
<1>6. ASSUME NEW p \in Paths, RemoveAll(p) PROVE StoredInv'
  <2>1. Tree(root')
    BY <1>0, <1>6, WithoutIsATree, PathsAreSequences DEF RemoveAll
  <2> QED
    BY <1>0, <1>1, <1>4, <1>6, <2>1 DEF RemoveAll
<1>7. ASSUME NEW p \in Paths, Remove(p) PROVE StoredInv'
  <2>1. tree' = Without(tree, p)
    BY <1>7, PathsAreSequences DEF Remove, RemovePath, PathType
  <2>2. Tree(tree') /\ \A q \in Files(tree') : q \in Files(tree) /\ tree'[q] = tree[q]
    BY <1>0, <2>1, WithoutIsATree, PathsAreSequences
  <2>3. \A q \in Files(tree') : tree'[q] \in source
    BY <1>0, <2>2 DEF TreeIsStored
  <2> QED
    BY <1>0, <1>2, <1>7, <2>2, <2>3 DEF Remove
<1>8. ASSUME NEW found \in BOOLEAN, GlobalCache(found) PROVE StoredInv'
  <2>1. tree' = file \/ tree' = Nothing
    BY <1>8 DEF GlobalCache
  <2>2. Tree(file) /\ \A p \in Files(file) : file[p] \in source
    BY <1>0, <1>8 DEF GlobalCache, DataInv, CommittedIsStored
  <2>3. Tree(tree') /\ \A p \in Files(tree') : tree'[p] \in source
    BY <2>1, <2>2, NothingIsATree
  <2> QED
    BY <1>0, <1>2, <1>8, <2>3 DEF GlobalCache
<1>9. ASSUME NEW c \in Contents, Store(c) PROVE StoredInv'
  <2>1. /\ UNCHANGED <<tree, file, root, edits>> /\ failures' \in 0 .. MaxFailures
        /\ source \subseteq source' /\ source' \subseteq Contents /\ cache' \subseteq source'
    BY <1>0, <1>3, <1>9 DEF Store
  <2> QED
    BY <1>0, <2>1 DEF StoredInv, DataInv, TreeIsStored, CommittedIsStored
<1>10. CASE EnsureNode
  <2>1. PICK p \in Files(tree) : p = Head(op.todo) /\ tree[p] \in Contents /\ p \in Paths
    BY <1>10, Data DEF EnsureNode
  <2>2. root' = root \/ root' = Without(root, p) \/ root' = StoreHash(root, tree[p], p)
    BY <1>10, <2>1 DEF EnsureNode, EmplaceRemove, EmplaceRename
  <2>3. Tree(Without(root, p))
    BY <1>0, <2>1, WithoutIsATree, PathsAreSequences
  <2>4. Tree(StoreHash(root, tree[p], p))
    BY <1>0, <2>1, StoreHashIsATree
  <2>5. Tree(root')
    BY <1>0, <2>2, <2>3, <2>4
  <2> QED
    BY <1>0, <1>1, <1>10, <2>5 DEF EnsureNode
<1>11. CASE EnsureLoad
  <2>1. PICK p \in Files(tree) : p = Head(op.todo)
    BY <1>11, Data DEF EnsureLoad
  <2>2. tree[p] \in source
    BY <1>0 DEF TreeIsStored
  <2>3. /\ UNCHANGED <<tree, file, root, source, edits>> /\ failures' \in 0 .. MaxFailures
        /\ cache' \subseteq source
    BY <1>0, <1>3, <1>11, <2>1, <2>2 DEF EnsureLoad
  <2> QED
    BY <1>0, <2>3 DEF StoredInv, DataInv, TreeIsStored, CommittedIsStored
<1>12. CASE WalkDir
  <2>1. PICK p \in Paths : p = Head(op.todo)
    BY <1>12, Data DEF WalkDir
  <2>2. tree' = tree \/ tree' = StoreHash(tree, Dir, p)
    BY <1>12, <2>1 DEF WalkDir
  <2>3. Tree(tree') /\ \A q \in Files(tree') : q \in Files(tree) /\ tree'[q] = tree[q]
    <3>1. CASE tree' = tree
      BY <1>0, <3>1
    <3>2. CASE tree' = StoreHash(tree, Dir, p)
      BY <1>0, <3>2, StoreHashIsATree DEF Files
    <3> QED
      BY <2>2, <3>1, <3>2
  <2>4. \A q \in Files(tree') : tree'[q] \in source
    BY <1>0, <2>3 DEF TreeIsStored
  <2> QED
    BY <1>0, <1>2, <1>12, <2>3, <2>4 DEF WalkDir
<1>13. CASE WriteThrough
  <2>1. PICK p \in Paths : p = Head(op.todo) /\ p \in DOMAIN root /\ root[p] \in Contents
    BY <1>0, <1>13, Data, TreeNodes DEF WriteThrough
  <2>2. CASE root[p] \notin source
    <3>1. UNCHANGED <<tree, file, root, edits, failures, cache>> /\ source' = source \cup {root[p]}
      BY <1>13, <2>1, <2>2 DEF WriteThrough
    <3> QED
      BY <1>0, <2>1, <3>1 DEF StoredInv, DataInv, TreeIsStored, CommittedIsStored
  <2>3. CASE root[p] \in source
    <3>1. /\ UNCHANGED <<file, root, edits, failures, source>> /\ cache' = cache \cup {root[p]}
          /\ tree' = StoreHash(tree, root[p], p)
      BY <1>13, <2>1, <2>3 DEF WriteThrough
    <3>2. /\ Tree(tree')
          /\ \A q \in Files(tree') : tree'[q] = root[p] \/ (q \in Files(tree) /\ tree'[q] = tree[q])
      BY <1>0, <2>1, <3>1, StoreHashIsATree
    <3>3. \A q \in Files(tree') : tree'[q] \in source
      BY <1>0, <2>3, <3>2 DEF TreeIsStored
    <3> QED
      BY <1>0, <2>1, <2>3, <3>1, <3>2, <3>3 DEF StoredInv, DataInv, TreeIsStored, CommittedIsStored
  <2> QED
    BY <2>2, <2>3
<1>14. CASE CommitTruncate
  BY <1>0, <1>14 DEF CommitTruncate, StoredInv, DataInv, TreeIsStored, CommittedIsStored
<1>15. CASE CommitEncode
  BY <1>0, <1>15 DEF CommitEncode, StoredInv, DataInv, TreeIsStored, CommittedIsStored
<1>16. CASE CleanEntry
  <2>1. PICK p \in Paths : p = Head(op.todo)
    BY <1>16, Data DEF CleanEntry
  <2>2. root' = root \/ root' = Without(root, p)
    BY <1>16, <2>1 DEF CleanEntry
  <2>3. Tree(root')
    BY <1>0, <2>2, WithoutIsATree, PathsAreSequences
  <2> QED
    BY <1>0, <1>1, <1>16, <2>3 DEF CleanEntry
<1>17. CASE ProcessEnds
  <2>1. tree' = Nothing /\ failures' \in 0 .. MaxFailures /\ UNCHANGED <<file, root, cache, source, edits>>
    BY <1>0, <1>3, <1>17 DEF ProcessEnds
  <2> QED
    BY <1>2, <2>1, NothingIsATree
<1>18. CASE CheckOut
  <2>1. /\ root' = Nothing /\ cache' = {} /\ UNCHANGED <<tree, file, source, failures>>
        /\ edits' \in 0 .. MaxEdits
    BY <1>4, <1>18 DEF CheckOut
  <2> QED
    BY <1>0, <2>1, NothingIsATree DEF StoredInv, DataInv, TreeIsStored, CommittedIsStored
<1>19. ASSUME UNCHANGED <<tree, file, root, cache, source, edits>>, failures' \in 0 .. MaxFailures
       PROVE  StoredInv'
  BY <1>0, <1>1, <1>19
<1>20. CASE (\E p \in Paths \cup {<<>>}, all \in BOOLEAN : Ensure(p, all))
            \/ (\E kind \in {"push", "status"} : Walk(kind)) \/ Clean
  BY <1>0, <1>19, <1>20 DEF Ensure, Walk, Clean
<1>21. CASE EnsureDone \/ WalkFile \/ WalkDone \/ CleanDone \/ NoopCommand \/ Return
  BY <1>0, <1>19, <1>21 DEF EnsureDone, WalkFile, WalkDone, CleanDone, NoopCommand, Return
<1>22. CASE WriteThroughFails
  BY <1>3, <1>19, <1>22 DEF WriteThroughFails
<1>23. CASE UNCHANGED artifactVars
  BY <1>0, <1>19, <1>23 DEF artifactVars
<1> QED
  BY <1>5, <1>6, <1>7, <1>8, <1>9, <1>10, <1>11, <1>12, <1>13, <1>14, <1>15, <1>16, <1>17, <1>18,
     <1>20, <1>21, <1>22, <1>23 DEF ArtifactNext

\* What a command becomes.
LEMMA OpFields ==
  ASSUME ArtifactInv
  PROVE  /\ Visited.kind = op.kind /\ Visited.pc = op.pc /\ Visited.todo = Tail(op.todo)
         /\ Visited.path = op.path /\ Visited.all = op.all /\ Visited.result = op.result
         /\ Visited.modified = op.modified /\ Visited.unstored = op.unstored
         /\ \A r : /\ Finish(r).kind = op.kind /\ Finish(r).pc = "done" /\ Finish(r).result = r
                   /\ Finish(r).path = op.path /\ Finish(r).all = op.all
                   /\ Finish(r).modified = op.modified /\ Finish(r).unstored = op.unstored
<1>1. op \in OpType
  BY Data
<1> QED
  BY <1>1 DEF OpType, Visited, Finish

\* The fields of a command that begins.
LEMMA Begun ==
  ASSUME ArtifactInv, Idle, NEW kind, NEW pc1, NEW s, NEW path, NEW all,
         Begin(kind, pc1, s, path, all)
  PROVE  /\ op'.kind = kind /\ op'.pc = pc1 /\ op'.todo = s /\ op'.path = path /\ op'.all = all
         /\ op'.result = "none" /\ op'.modified = {} /\ op'.unstored = {}
<1>1. op \in OpType /\ op.modified = {} /\ op.unstored = {}
  BY Data DEF ArtifactInv, OpInv, Idle
<1> QED
  BY <1>1 DEF OpType, Begin

\* The steps between commands.
Between ==
  \/ \E p \in Paths, c \in Contents : WriteFile(p, c)
  \/ \E p \in Paths : RemoveAll(p)
  \/ \E found \in BOOLEAN : GlobalCache(found)
  \/ Return \/ ProcessEnds \/ CheckOut

\* What happens between commands leaves none running.
LEMMA BetweenIsIdle ==
  ASSUME ArtifactInv, Between
  PROVE  op'.pc = "idle"
<1>1. op \in OpType /\ (op.cache = "none" => op.pc = "idle")
  BY Data DEF ArtifactInv, OpInv
<1>2. CASE \E p \in Paths, c \in Contents : WriteFile(p, c)
  BY <1>2 DEF WriteFile
<1>3. CASE \E p \in Paths : RemoveAll(p)
  BY <1>3 DEF RemoveAll
<1>4. CASE \E found \in BOOLEAN : GlobalCache(found)
  BY <1>1, <1>4 DEF GlobalCache, OpType
<1>5. CASE Return \/ ProcessEnds
  BY <1>5 DEF Return, ProcessEnds, NoOp
<1>6. CASE CheckOut
  BY <1>1, <1>6 DEF CheckOut
<1> QED
  BY <1>2, <1>3, <1>4, <1>5, <1>6 DEF Between

\* What a step of a pull or of a clean makes of the command.
LEMMA PullOp ==
  ASSUME ArtifactInv, EnsureNode \/ EnsureLoad \/ EnsureDone
  PROVE  /\ op'.kind = "pull" /\ op.kind = "pull" /\ op'.path = op.path /\ op'.all = op.all
         /\ op.pc = "ensure"
         /\ \/ op' = op
            \/ op.todo # <<>> /\ op'.pc = "ensure" /\ op'.todo = Tail(op.todo)
            \/ op'.pc = "done"
<1>1. op.pc = "ensure" /\ op.kind = "pull"
  BY DEF EnsureNode, EnsureLoad, EnsureDone, ArtifactInv, OpInv
<1>2. \/ op' = op
      \/ op.todo # <<>> /\ op' = Visited
      \/ \E r \in {"ok", "error"} : op' = Finish(r)
  BY DEF EnsureNode, EnsureLoad, EnsureDone, EmplaceRemove, EmplaceRename, Visited
<1> QED
  BY <1>1, <1>2, OpFields

\* What a step of clean does to its command.
LEMMA CleanOp ==
  ASSUME ArtifactInv, CleanEntry \/ CleanDone
  PROVE  /\ op'.kind = "clean" /\ op.kind = "clean" /\ op.pc = "clean"
         /\ \/ op.todo # <<>> /\ op'.pc = "clean" /\ op'.todo = Tail(op.todo)
            \/ op'.pc = "done"
<1>1. op.pc = "clean" /\ op.kind = "clean"
  BY DEF CleanEntry, CleanDone, ArtifactInv, OpInv
<1>2. \/ op.todo # <<>> /\ op' = Visited
      \/ \E r \in {"ok", "error"} : op' = Finish(r)
  BY DEF CleanEntry, CleanDone
<1> QED
  BY <1>1, <1>2, OpFields

\* The commands that are done at once, or that commit next.
LEMMA OtherOp ==
  ASSUME ArtifactInv, NoopCommand \/ (\E c \in Contents : Store(c)) \/ (\E p \in Paths : Remove(p))
  PROVE  op'.kind \in {"none", "noop", "remove"} /\ op'.pc \in {"done", "commit"}
<1>0. op \in OpType
  BY Data
<1>1. CASE NoopCommand
  BY <1>0, <1>1 DEF NoopCommand, OpType
<1>2. CASE \E c \in Contents : Store(c)
  <2>1. op.kind = "none" /\ \E r \in {"ok", "error"} : op' = Finish(r)
    BY <1>2 DEF Store, ArtifactInv, OpInv, Idle
  <2> QED
    BY <2>1, OpFields
<1>3. CASE \E p \in Paths : Remove(p)
  BY <1>3, Begun DEF Remove
<1> QED
  BY <1>1, <1>2, <1>3

\* A walk that has visited another path.
LEMMA WalkOp ==
  ASSUME ArtifactInv, WalkDir \/ WalkFile \/ WriteThrough
  PROVE  /\ op.pc = "walk" /\ op'.pc = "walk" /\ op.todo # <<>> /\ root' = root
         /\ op'.kind = op.kind /\ op.kind \in {"push", "status"}
         /\ Head(op.todo) \in DOMAIN root
         /\ op' = op \/ op'.todo = Tail(op.todo)
         /\ \A p : p \in Range(op.todo) => p \in Range(op'.todo) \/ p = Head(op.todo)
         /\ Range(op'.todo) \subseteq Range(op.todo)
<1>1. op \in OpType /\ op.pc = "walk" /\ op.todo # <<>> /\ root' = root
  BY Data DEF WalkDir, WalkFile, WriteThrough
<1>2. \/ op' = op \/ op' = Visited
      \/ op' = [Visited EXCEPT !.modified = @ \cup {Head(op.todo)}]
      \/ op' = [Visited EXCEPT !.unstored = @ \cup {Head(op.todo)}]
  BY DEF WalkDir, WalkFile, WriteThrough
<1>3. op'.pc = "walk" /\ op'.kind = op.kind /\ (op' = op \/ op'.todo = Tail(op.todo))
  BY <1>1, <1>2 DEF Visited, OpType
<1>4. op.kind \in {"push", "status"} /\ Head(op.todo) \in DOMAIN root
  BY <1>1, Data DEF ArtifactInv, OpInv
<1>5. Range(op.todo) = {Head(op.todo)} \cup Range(Tail(op.todo))
  BY <1>1, Data
<1> QED
  BY <1>1, <1>3, <1>4, <1>5

\* A walk that ends.
LEMMA WalkEnd ==
  ASSUME ArtifactInv, WriteThroughFails \/ WalkDone \/ CommitTruncate \/ CommitEncode
  PROVE  /\ op'.kind = op.kind /\ op.kind \in {"push", "status", "remove"} /\ UNCHANGED <<tree, root>>
         /\ \/ op'.pc = "done" /\ op'.result = "error" /\ op.kind = "push"
            \/ WalkDone /\ op.pc = "walk" /\ op.todo = <<>> /\ op.kind = "push" /\ op'.pc = "commit"
            \/ /\ WalkDone /\ op.pc = "walk" /\ op.todo = <<>> /\ op.kind = "status" /\ op'.pc = "done"
               /\ op'.modified = op.modified /\ op'.unstored = op.unstored
            \/ op.pc = "commit" /\ op'.pc = "encode" /\ op.kind \in {"push", "remove"}
            \/ op.pc = "encode" /\ op'.pc = "done" /\ file' = tree /\ op.kind \in {"push", "remove"}
<1>1. op \in OpType
  BY Data
<1>2. CASE WriteThroughFails
  <2>1. op.kind = "push" /\ op' = Finish("error") /\ UNCHANGED <<tree, root>>
    BY <1>2 DEF WriteThroughFails
  <2> QED
    BY <2>1, OpFields
<1>3. CASE WalkDone
  <2>1. op.pc = "walk" /\ op.todo = <<>> /\ op.kind \in {"push", "status"} /\ UNCHANGED <<tree, root>>
    BY <1>3 DEF WalkDone, ArtifactInv, OpInv
  <2>2. CASE op.kind = "push"
    BY <1>1, <1>3, <2>1, <2>2 DEF WalkDone, OpType
  <2>3. CASE op.kind = "status"
    BY <1>3, <2>1, <2>3, OpFields DEF WalkDone
  <2> QED
    BY <2>1, <2>2, <2>3
<1>4. CASE CommitTruncate
  BY <1>1, <1>4 DEF CommitTruncate, OpType, ArtifactInv, OpInv
<1>5. CASE CommitEncode
  <2>1. op.pc = "encode" /\ op.kind \in {"push", "remove"} /\ op' = Finish("ok") /\ file' = tree
        /\ UNCHANGED <<tree, root>>
    BY <1>5 DEF CommitEncode, ArtifactInv, OpInv
  <2> QED
    BY <2>1, OpFields
<1> QED
  BY <1>2, <1>3, <1>4, <1>5

\* How a pull, a walk and a clean begin.
LEMMA EnsureBegins ==
  ASSUME ArtifactInv, NEW p \in Paths \cup {<<>>}, NEW all \in BOOLEAN, Ensure(p, all)
  PROVE  /\ op'.kind = "pull" /\ op'.result = "none" /\ UNCHANGED <<tree, root, cache>>
         /\ \/ op'.pc = "done"
            \/ /\ op'.pc = "ensure" /\ op'.path = p
               /\ Range(op'.todo) = {q \in Files(tree) : Under(p, q)}
<1>1. Idle /\ UNCHANGED <<tree, root, cache>>
  BY DEF Ensure
<1>2. CASE Begin("pull", "done", <<>>, p, all)
  BY <1>1, <1>2, Begun
<1>3. ASSUME NEW s \in Seqs!SetToSeqs({q \in Files(tree) : Under(p, q)}),
             Begin("pull", "ensure", s, p, all)
      PROVE  op'.kind = "pull" /\ op'.result = "none" /\ op'.pc = "ensure" /\ op'.path = p
             /\ Range(op'.todo) = {q \in Files(tree) : Under(p, q)}
  <2>1. {q \in Files(tree) : Under(p, q)} \in SUBSET Paths
    BY Data DEF Tree, Directory, Files
  <2>2. Range(s) = {q \in Files(tree) : Under(p, q)}
    BY <2>1, SequenceOfSet
  <2> QED
    BY <1>1, <1>3, <2>2, Begun
<1> QED
  BY <1>1, <1>2, <1>3 DEF Ensure

\* A push or a status begins with the whole root to visit.
LEMMA WalkBegins ==
  ASSUME ArtifactInv, NEW kind \in {"push", "status"}, Walk(kind)
  PROVE  /\ op'.kind = kind /\ op'.pc = "walk" /\ Range(op'.todo) = DOMAIN root
         /\ op'.modified = {} /\ op'.unstored = {} /\ UNCHANGED <<tree, root>>
<1>1. PICK s \in Walks(root) : Begin(kind, "walk", s, <<>>, FALSE)
  BY DEF Walk
<1>2. Range(s) = DOMAIN root
  BY Data, WalksVisit
<1> QED
  BY <1>1, <1>2, Begun DEF Walk

\* A clean begins with the whole root to visit.
LEMMA CleanBegins ==
  ASSUME ArtifactInv, Clean
  PROVE  /\ op'.kind = "clean" /\ op'.pc = "clean" /\ Range(op'.todo) = DOMAIN root
         /\ UNCHANGED <<tree, root>>
<1>1. PICK s \in Walks(root) : Begin("clean", "clean", s, <<>>, FALSE)
  BY DEF Clean
<1>2. Range(s) = DOMAIN root
  BY Data, WalksVisit
<1> QED
  BY <1>1, <1>2, Begun DEF Clean

\* The steps of the artifact cache, by what they do to the command.
LEMMA Steps ==
  ASSUME [ArtifactNext]_artifactVars
  PROVE  \/ Between \/ UNCHANGED artifactVars
         \/ NoopCommand \/ (\E c \in Contents : Store(c)) \/ (\E p \in Paths : Remove(p))
         \/ \E p \in Paths \cup {<<>>}, all \in BOOLEAN : Ensure(p, all)
         \/ \E kind \in {"push", "status"} : Walk(kind)
         \/ Clean
         \/ EnsureNode \/ EnsureLoad \/ EnsureDone
         \/ WalkDir \/ WalkFile \/ WriteThrough
         \/ WriteThroughFails \/ WalkDone \/ CommitTruncate \/ CommitEncode
         \/ CleanEntry \/ CleanDone
BY DEF ArtifactNext, Between

\* A step keeps what is said of the paths still to visit.
LEMMA TodoStep ==
  ASSUME ArtifactInv, [ArtifactNext]_artifactVars
  PROVE  TodoInv'
<1>0. TodoInv
  BY DEF ArtifactInv
<1>1. CASE Between
  BY <1>1, BetweenIsIdle DEF TodoInv
<1>2. CASE UNCHANGED artifactVars
  BY <1>0, <1>2 DEF TodoInv, artifactVars
<1>3. CASE NoopCommand \/ (\E c \in Contents : Store(c)) \/ (\E p \in Paths : Remove(p))
  BY <1>3, OtherOp DEF TodoInv
<1>4. CASE \E p \in Paths \cup {<<>>}, all \in BOOLEAN : Ensure(p, all)
  BY <1>4, EnsureBegins DEF TodoInv
<1>5. CASE \E kind \in {"push", "status"} : Walk(kind)
  BY <1>5, WalkBegins DEF TodoInv
<1>6. CASE Clean
  BY <1>6, CleanBegins DEF TodoInv
<1>7. CASE EnsureNode \/ EnsureLoad \/ EnsureDone
  <2>1. tree' = tree
    BY <1>7 DEF EnsureNode, EnsureLoad, EnsureDone
  <2> QED
    BY <1>0, <1>7, <2>1, PullOp, Data DEF TodoInv, Files
<1>8. CASE WalkDir \/ WalkFile \/ WriteThrough
  BY <1>0, <1>8, WalkOp DEF TodoInv
<1>9. CASE WriteThroughFails \/ WalkDone \/ CommitTruncate \/ CommitEncode
  BY <1>9, WalkEnd DEF TodoInv
<1>10. CASE CleanEntry \/ CleanDone
  BY <1>10, CleanOp DEF TodoInv
<1> QED
  BY <1>1, <1>2, <1>3, <1>4, <1>5, <1>6, <1>7, <1>8, <1>9, <1>10, Steps

\* Storing at a path what another tree has there disturbs no file of that
\* other tree.
LEMMA StoreBeside ==
  ASSUME NEW d, Tree(d), NEW r, Tree(r), NEW p \in DOMAIN r,
         r[p] = Dir => ~(p \in DOMAIN d /\ d[p] = Dir),
         NEW q \in Files(r), q # p
  PROVE  /\ q \in DOMAIN StoreHash(d, r[p], p) <=> q \in DOMAIN d
         /\ q \in DOMAIN d => StoreHash(d, r[p], p)[q] = d[q]
<1>h. PICK h \in Contents \cup {Dir} : h = r[p]
  BY TreeNodes
<1> DEFINE e == StoreHash(d, h, p)
<1>p. p \in Paths
  BY TreeNodes
<1>0. p \in Paths /\ q \in Paths /\ q \in DOMAIN r /\ r[q] # Dir
  BY TreeNodes DEF Files
<1>1. /\ \A x : x \in DOMAIN e <=> (x \in DOMAIN d /\ ~Under(p, x)) \/ x \in Parents(p) \/ x = p
      /\ e[p] = h /\ \A x \in Parents(p) : e[x] = Dir
      /\ \A x \in DOMAIN d : ~Under(p, x) /\ x \notin Parents(p) => e[x] = d[x]
  BY <1>p, StoreHashDef
<1> HIDE DEF e
<1>2. q \notin Parents(p)
  BY <1>0, TreeNodes
<1>3. CASE ~Under(p, q)
  BY <1>h, <1>1, <1>2, <1>3 DEF e
<1>4. CASE Under(p, q)
  <2>1. p \in Parents(q)
    BY <1>0, <1>4, ParentsDef
  <2>2. r[p] = Dir
    BY <1>0, <2>1, TreeNodes
  <2>3. q \notin DOMAIN d
    BY <2>1, <2>2, TreeNodes
  <2> QED
    BY <1>h, <1>1, <1>2, <2>3 DEF e
<1> QED
  BY <1>3, <1>4

\* A walk leaves every other file of the root as recorded or unrecorded as it
\* was.
LEMMA WalkBeside ==
  ASSUME ArtifactInv, WalkDir \/ WalkFile \/ WriteThrough, NEW q \in Files(root),
         q # Head(op.todo) \/ WalkDir \/ WalkFile
  PROVE  (q \in DOMAIN tree' <=> q \in DOMAIN tree) /\ (Matches(q)' <=> Matches(q))
<1>0. PICK p \in DOMAIN root : p = Head(op.todo)
  BY WalkOp
<1>1. Tree(tree) /\ Tree(root) /\ root' = root
  BY Data, WalkOp
<1>2. CASE tree' = tree
  BY <1>1, <1>2 DEF Matches
<1>3. ASSUME tree' = StoreHash(tree, root[p], p), root[p] = Dir => ~(p \in DOMAIN tree /\ tree[p] = Dir),
             q # p
      PROVE  (q \in DOMAIN tree' <=> q \in DOMAIN tree) /\ (Matches(q)' <=> Matches(q))
  BY <1>1, <1>3, StoreBeside DEF Matches
<1>4. CASE WalkDir
  <2>1. root[p] = Dir /\ q # p
    BY <1>0, <1>4 DEF WalkDir, Files
  <2>2. tree' = IF p \in DOMAIN tree /\ tree[p] = Dir THEN tree ELSE StoreHash(tree, Dir, p)
    BY <1>0, <1>4 DEF WalkDir
  <2> QED
    BY <1>2, <1>3, <2>1, <2>2
<1>5. CASE WalkFile
  BY <1>2, <1>5 DEF WalkFile
<1>6. CASE WriteThrough /\ q # p
  <2>1. root[p] # Dir /\ (tree' = tree \/ tree' = StoreHash(tree, root[p], p))
    BY <1>0, <1>6 DEF WriteThrough
  <2> QED
    BY <1>2, <1>3, <1>6, <2>1
<1> QED
  BY <1>0, <1>4, <1>5, <1>6

\* A step keeps what is said of the paths a push has visited.
LEMMA PushStep ==
  ASSUME ArtifactInv, [ArtifactNext]_artifactVars
  PROVE  PushInv'
<1>0. PushInv
  BY DEF ArtifactInv
<1>a. ASSUME op'.kind # "push" \/ op'.pc = "idle" \/ (op'.pc = "done" /\ op'.result = "error")
      PROVE  PushInv'
  BY <1>a DEF PushInv, PushRecords
<1>1. CASE Between
  BY <1>1, <1>a, BetweenIsIdle
<1>2. CASE UNCHANGED artifactVars
  BY <1>0, <1>2 DEF PushInv, PushRecords, Pushed, Matches, Files, artifactVars
<1>3. CASE NoopCommand \/ (\E c \in Contents : Store(c)) \/ (\E p \in Paths : Remove(p))
  BY <1>3, <1>a, OtherOp
<1>4. CASE \E p \in Paths \cup {<<>>}, all \in BOOLEAN : Ensure(p, all)
  BY <1>4, <1>a, EnsureBegins
<1>5. CASE \E kind \in {"push", "status"} : Walk(kind)
  BY <1>5, WalkBegins DEF PushInv, PushRecords, Pushed, Files
<1>6. CASE Clean
  BY <1>6, <1>a, CleanBegins
<1>7. CASE EnsureNode \/ EnsureLoad \/ EnsureDone
  BY <1>7, <1>a, PullOp
<1>8. CASE (WalkDir \/ WalkFile \/ WriteThrough) /\ op.kind = "push"
  <2>1. /\ op'.pc = "walk" /\ root' = root
        /\ \A p : p \in Range(op.todo) => p \in Range(op'.todo) \/ p = Head(op.todo)
    BY <1>8, WalkOp
  <2>2. ASSUME NEW p \in Pushed, p \in Range(op.todo) \/ Matches(p)
        PROVE  p \in Range(op'.todo) \/ Matches(p)'
    <3>0. p \in Files(root) /\ p \notin Ignored
      BY DEF Pushed
    <3>1. CASE p # Head(op.todo)
      BY <1>8, <2>1, <2>2, <3>0, <3>1, WalkBeside
    <3>2. CASE p = Head(op.todo) /\ WalkDir
      BY <3>0, <3>2 DEF WalkDir, Files
    <3>3. CASE p = Head(op.todo) /\ WalkFile
      <4>1. Recorded(p)
        BY <1>8, <3>3 DEF WalkFile
      <4>2. Matches(p)
        BY <3>0, <4>1 DEF Recorded, Matches, Files
      <4> QED
        BY <1>8, <3>0, <3>3, <4>2, WalkBeside
    <3>4. CASE p = Head(op.todo) /\ WriteThrough
      <4>1. CASE root[p] \notin source
        <5>1. UNCHANGED <<tree, op, root>>
          BY <3>4, <4>1 DEF WriteThrough
        <5> QED
          BY <2>2, <5>1 DEF Matches
      <4>2. CASE root[p] \in source
        <5>1. tree' = StoreHash(tree, root[p], p)
          BY <3>4, <4>2 DEF WriteThrough
        <5>2. p \in Paths
          BY <3>4, Data DEF WriteThrough
        <5>3. p \in DOMAIN tree' /\ tree'[p] = root[p]
          <6>1. Tree(tree)
            BY Data
          <6>2. PICK h \in Contents \cup {Dir} : h = root[p]
            BY <3>0, Data, TreeNodes DEF Files
          <6>3. p \in DOMAIN StoreHash(tree, h, p) /\ StoreHash(tree, h, p)[p] = h
            BY <5>2, <6>1, StoreHashDef
          <6> QED
            BY <5>1, <6>2, <6>3
        <5> QED
          BY <2>1, <5>3 DEF Matches
      <4> QED
        BY <4>1, <4>2
    <3> QED
      BY <1>8, <3>1, <3>2, <3>3, <3>4
  <2>3. op.pc = "walk"
    BY <1>8, WalkOp
  <2>4. \A p \in Pushed' : p \in Pushed
    BY <2>1 DEF Pushed, Files
  <2> QED
    BY <1>0, <1>8, <2>1, <2>2, <2>3, <2>4 DEF PushInv, PushRecords
<1>9. CASE (WalkDir \/ WalkFile \/ WriteThrough) /\ op.kind # "push"
  BY <1>9, <1>a, WalkOp
<1>10. CASE WriteThroughFails \/ WalkDone \/ CommitTruncate \/ CommitEncode
  <2>1. UNCHANGED <<tree, root>> /\ op'.kind = op.kind
    BY <1>10, WalkEnd
  <2>2. Pushed' = Pushed /\ \A p \in Pushed : Matches(p)' <=> Matches(p)
    BY <2>1 DEF Pushed, Matches, Files
  <2>3. CASE op.kind = "push" /\ op'.pc = "commit" /\ op.pc = "walk" /\ op.todo = <<>>
    BY <1>0, <2>1, <2>2, <2>3, EmptyRange DEF PushInv, PushRecords
  <2>4. CASE op.kind = "push" /\ op'.pc = "encode" /\ op.pc = "commit"
    BY <1>0, <2>1, <2>2, <2>4 DEF PushInv, PushRecords
  <2>5. CASE op.kind = "push" /\ op'.pc = "done" /\ op.pc = "encode" /\ file' = tree
    BY <1>0, <2>1, <2>2, <2>5 DEF PushInv, PushRecords, Matches, Pushed
  <2> QED
    BY <1>10, <1>a, <2>1, <2>3, <2>4, <2>5, WalkEnd
<1>11. CASE CleanEntry \/ CleanDone
  BY <1>11, <1>a, CleanOp
<1> QED
  BY <1>1, <1>2, <1>3, <1>4, <1>5, <1>6, <1>7, <1>8, <1>9, <1>10, <1>11, Steps

\* A step keeps what is said of the paths a status has visited.
LEMMA StatusStep ==
  ASSUME ArtifactInv, [ArtifactNext]_artifactVars
  PROVE  StatusInv'
<1>0. StatusInv
  BY DEF ArtifactInv
<1>a. ASSUME op'.kind # "status" \/ op'.pc = "idle"
      PROVE  StatusInv'
  BY <1>a DEF StatusInv, StatusForetells
<1>1. CASE Between
  BY <1>1, <1>a, BetweenIsIdle
<1>2. CASE UNCHANGED artifactVars
  BY <1>0, <1>2 DEF StatusInv, StatusForetells, Pushed, Matches, Files, artifactVars
<1>3. CASE NoopCommand \/ (\E c \in Contents : Store(c)) \/ (\E p \in Paths : Remove(p))
  BY <1>3, <1>a, OtherOp
<1>4. CASE \E p \in Paths \cup {<<>>}, all \in BOOLEAN : Ensure(p, all)
  BY <1>4, <1>a, EnsureBegins
<1>5. CASE \E kind \in {"push", "status"} : Walk(kind)
  BY <1>5, WalkBegins DEF StatusInv, StatusForetells, Pushed, Files
<1>6. CASE Clean
  BY <1>6, <1>a, CleanBegins
<1>7. CASE EnsureNode \/ EnsureLoad \/ EnsureDone
  BY <1>7, <1>a, PullOp
<1>8. CASE (WalkDir \/ WalkFile) /\ op.kind = "status"
  <2>1. /\ op.pc = "walk" /\ op'.pc = "walk" /\ root' = root /\ op'.kind = "status"
        /\ \A p : p \in Range(op.todo) => p \in Range(op'.todo) \/ p = Head(op.todo)
    BY <1>8, WalkOp
  <2>2. /\ \A p \in Pushed :
             p \in Range(op.todo) \/ Matches(p) \/ p \in op.modified \cup op.unstored
        /\ \A p \in op.modified \cup op.unstored : p \in Pushed /\ ~Matches(p)
        /\ op.modified \subseteq DOMAIN tree /\ op.unstored \cap DOMAIN tree = {}
    BY <1>0, <1>8, <2>1 DEF StatusInv
  <2>3. \A p \in Pushed : (p \in DOMAIN tree' <=> p \in DOMAIN tree) /\ (Matches(p)' <=> Matches(p))
    BY <1>8, WalkBeside DEF Pushed
  <2>4. Pushed' = Pushed
    BY <2>1 DEF Pushed, Files
  <2>5. ASSUME op'.modified = op.modified, op'.unstored = op.unstored,
               Head(op.todo) \in Pushed => Matches(Head(op.todo))
        PROVE  StatusInv'
    BY <2>1, <2>2, <2>3, <2>4, <2>5 DEF StatusInv, StatusForetells
  <2>6. CASE WalkDir
    <3>1. op' = Visited /\ Head(op.todo) \notin Pushed
      BY <2>6 DEF WalkDir, Pushed, Files
    <3> QED
      BY <2>5, <3>1, OpFields
  <2>7. CASE WalkFile /\ Recorded(Head(op.todo))
    <3>1. op' = Visited
      BY <2>7 DEF WalkFile
    <3>2. Head(op.todo) \in Pushed => Matches(Head(op.todo))
      BY <2>7 DEF Recorded, Pushed, Matches, Files
    <3> QED
      BY <2>5, <3>1, <3>2, OpFields
  <2>8. CASE WalkFile /\ ~Recorded(Head(op.todo))
    <3>1. PICK p : p = Head(op.todo)
      OBVIOUS
    <3>2. p \in DOMAIN root /\ root[p] # Dir
      BY <1>8, <2>8, <3>1, WalkOp DEF WalkFile
    <3>3. p \in Pushed /\ ~Matches(p)
      BY <2>8, <3>1, <3>2 DEF Recorded, Pushed, Matches, Files
    <3>4. op \in OpType
      BY Data
    <3>5. CASE p \in DOMAIN tree
      <4>1. op' = [Visited EXCEPT !.modified = @ \cup {p}]
        BY <2>8, <3>1, <3>5 DEF WalkFile
      <4>2. op'.modified = op.modified \cup {p} /\ op'.unstored = op.unstored
        BY <3>4, <4>1 DEF Visited, OpType
      <4> QED
        BY <2>1, <2>2, <2>3, <2>4, <3>1, <3>3, <3>5, <4>2 DEF StatusInv, StatusForetells
    <3>6. CASE p \notin DOMAIN tree
      <4>1. op' = [Visited EXCEPT !.unstored = @ \cup {p}]
        BY <2>8, <3>1, <3>6 DEF WalkFile
      <4>2. op'.unstored = op.unstored \cup {p} /\ op'.modified = op.modified
        BY <3>4, <4>1 DEF Visited, OpType
      <4> QED
        BY <2>1, <2>2, <2>3, <2>4, <3>1, <3>3, <3>6, <4>2 DEF StatusInv, StatusForetells
    <3> QED
      BY <3>5, <3>6
  <2> QED
    BY <1>8, <2>6, <2>7, <2>8
<1>9. CASE (WalkDir \/ WalkFile \/ WriteThrough) /\ op.kind # "status"
  BY <1>9, <1>a, WalkOp
<1>10. CASE WriteThrough /\ op.kind = "status"
  BY <1>10 DEF WriteThrough
<1>11. CASE WriteThroughFails \/ WalkDone \/ CommitTruncate \/ CommitEncode
  <2>1. UNCHANGED <<tree, root>> /\ op'.kind = op.kind
    BY <1>11, WalkEnd
  <2>2. CASE op.kind # "status"
    BY <1>a, <2>1, <2>2
  <2>3. CASE /\ op.kind = "status" /\ op.pc = "walk" /\ op.todo = <<>> /\ op'.pc = "done"
             /\ op'.modified = op.modified /\ op'.unstored = op.unstored
    <3>1. /\ \A p \in Pushed : Matches(p) \/ p \in op.modified \cup op.unstored
          /\ \A p \in op.modified \cup op.unstored : p \in Pushed /\ ~Matches(p)
          /\ op.modified \subseteq DOMAIN tree /\ op.unstored \cap DOMAIN tree = {}
      BY <1>0, <2>3, EmptyRange DEF StatusInv
    <3>2. op.modified \cup op.unstored = {p \in Pushed : ~Matches(p)}
      BY <3>1
    <3>3. StatusForetells'
      BY <2>1, <2>3, <3>1, <3>2 DEF StatusForetells, Pushed, Matches, Files
    <3> QED
      BY <2>3, <3>3 DEF StatusInv
  <2> QED
    BY <1>11, <2>2, <2>3, WalkEnd
<1>12. CASE CleanEntry \/ CleanDone
  BY <1>12, <1>a, CleanOp
<1> QED
  BY <1>1, <1>2, <1>3, <1>4, <1>5, <1>6, <1>7, <1>8, <1>9, <1>10, <1>11, <1>12, Steps

\* What a pull has delivered stays delivered while it goes on.
LEMMA PullKeeps ==
  ASSUME ArtifactInv, EnsureNode \/ EnsureLoad \/ EnsureDone,
         NEW q \in Files(tree), Under(op.path, q), q \in Range(op.todo) \/ Delivered(q)
  PROVE  op'.pc = "ensure" => q \in Range(op'.todo) \/ Delivered(q)'
<1>0. /\ op'.path = op.path /\ op'.all = op.all /\ op.pc = "ensure"
      /\ \/ op' = op
         \/ op.todo # <<>> /\ op'.pc = "ensure" /\ op'.todo = Tail(op.todo)
         \/ op'.pc = "done"
  BY PullOp
<1>1. Tree(tree) /\ Tree(root) /\ tree' = tree
  BY Data DEF EnsureNode, EnsureLoad, EnsureDone
<1>2. CASE EnsureDone
  BY <1>2, OpFields DEF EnsureDone
<1>p. PICK p : p = Head(op.todo)
  OBVIOUS
<1>3. ASSUME op.todo # <<>>
      PROVE  /\ p \in Files(tree) /\ p \in DOMAIN tree /\ p \in Paths /\ tree[p] \in Contents
             /\ Range(op.todo) = {p} \cup Range(Tail(op.todo))
  BY <1>p, <1>0, <1>3, Data DEF Files
<1>4. \A x : TooLarge(x)' <=> TooLarge(x)
  BY <1>0, <1>1 DEF TooLarge
<1>5. CASE EnsureLoad
  <2>0. op.todo # <<>> /\ root' = root /\ tree[p] \notin cache
    BY <1>p, <1>5 DEF EnsureLoad
  <2>1. CASE TooLarge(p) /\ op' = Visited /\ cache' = cache
    <3>1. Delivered(p)' /\ (Delivered(q) => Delivered(q)')
      BY <1>1, <1>4, <2>0, <2>1 DEF Delivered
    <3>2. op'.todo = Tail(op.todo)
      BY <2>1, OpFields
    <3> QED
      BY <1>3, <2>0, <3>1, <3>2
  <2>2. CASE ~TooLarge(p) /\ cache' = cache \cup {tree[p]} /\ op' = op
    <3>1. Delivered(q) => Delivered(q)'
      BY <1>1, <1>4, <2>0, <2>2 DEF Delivered, TooLarge
    <3> QED
      BY <2>2, <3>1
  <2>3. CASE op' = Finish("error")
    BY <2>3, OpFields
  <2> QED
    BY <1>p, <1>5, <2>1, <2>2, <2>3 DEF EnsureLoad, Visited
<1>6. CASE EnsureNode
  <2>0. op.todo # <<>> /\ cache' = cache /\ tree[p] \in cache
    BY <1>p, <1>6 DEF EnsureNode
  <2>1. CASE op' = Finish("error")
    BY <2>1, OpFields
  <2>2. CASE EmplaceRemove(p)
    <3>1. /\ op' = op /\ root' = Without(root, p) /\ p \in Files(root) /\ root[p] # tree[p]
      BY <2>2 DEF EmplaceRemove
    <3>2. CASE q = p
      BY <1>1, <2>0, <3>1, <3>2 DEF Delivered
    <3>3. CASE q # p
      <4>1. ~Under(p, q)
        BY <1>1, <1>3, <2>0, <3>3, TreeNodes DEF Files
      <4>2. q \in DOMAIN root => q \in DOMAIN root' /\ root'[q] = root[q]
        BY <3>1, <4>1, WithoutDef
      <4>3. Delivered(q) => Delivered(q)'
        BY <1>1, <1>4, <2>0, <4>2 DEF Delivered
      <4> QED
        BY <3>1, <4>3
    <3> QED
      BY <3>2, <3>3
  <2>3. CASE EmplaceRename(p)
    <3>1. op' = Visited /\ root' = StoreHash(root, tree[p], p)
      BY <2>3 DEF EmplaceRename, Visited
    <3>2. op'.todo = Tail(op.todo)
      BY <3>1, OpFields
    <3>3. p \in DOMAIN root' /\ root'[p] = tree[p]
      <4>1. PICK h \in Contents \cup {Dir} : h = tree[p]
        BY <1>3, <2>0
      <4>2. p \in DOMAIN StoreHash(root, h, p) /\ StoreHash(root, h, p)[p] = h
        BY <1>1, <1>3, <2>0, StoreHashDef
      <4> QED
        BY <3>1, <4>1, <4>2
    <3>4. CASE q = p
      BY <1>1, <3>3, <3>4 DEF Delivered
    <3>5. CASE q # p
      <4>1. q \in DOMAIN root => q \in DOMAIN root' /\ root'[q] = root[q]
        <5>1. tree[p] # Dir
          BY <1>3, <2>0 DEF Files
        <5> QED
          BY <1>1, <1>3, <2>0, <3>1, <3>5, <5>1, StoreBeside
      <4>2. Delivered(q) => Delivered(q)'
        BY <1>1, <1>4, <2>0, <4>1 DEF Delivered
      <4> QED
        BY <1>3, <2>0, <3>2, <3>5, <4>2
    <3> QED
      BY <3>4, <3>5
  <2> QED
    BY <1>p, <1>6, <2>1, <2>2, <2>3 DEF EnsureNode
<1> QED
  BY <1>2, <1>5, <1>6

\* A step keeps what is said of the paths a pull has visited.
LEMMA PullStep ==
  ASSUME ArtifactInv, [ArtifactNext]_artifactVars
  PROVE  PullInv'
<1>0. PullInv
  BY DEF ArtifactInv
<1>a. ASSUME op'.kind # "pull" \/ op'.pc = "idle", op'.pc # "ensure"
      PROVE  PullInv'
  BY <1>a DEF PullInv, PullDelivers
<1>1. CASE Between
  BY <1>1, <1>a, BetweenIsIdle
<1>2. CASE UNCHANGED artifactVars
  BY <1>0, <1>2 DEF PullInv, PullDelivers, Delivered, TooLarge, Files, artifactVars
<1>3. CASE NoopCommand \/ (\E c \in Contents : Store(c)) \/ (\E p \in Paths : Remove(p))
  BY <1>3, <1>a, OtherOp
<1>4. CASE \E p \in Paths \cup {<<>>}, all \in BOOLEAN : Ensure(p, all)
  <2>1. PICK p \in Paths \cup {<<>>}, all \in BOOLEAN : Ensure(p, all)
    BY <1>4
  <2>2. op'.result = "none" /\ UNCHANGED <<tree, root, cache>>
    BY <2>1, EnsureBegins
  <2>3. CASE op'.pc = "done"
    BY <2>2, <2>3 DEF PullInv, PullDelivers
  <2>4. CASE /\ op'.pc = "ensure" /\ op'.path = p
             /\ Range(op'.todo) = {q \in Files(tree) : Under(p, q)}
    BY <2>2, <2>4 DEF PullInv, PullDelivers, Files
  <2> QED
    BY <2>1, <2>3, <2>4, EnsureBegins
<1>5. CASE \E kind \in {"push", "status"} : Walk(kind)
  BY <1>5, <1>a, WalkBegins
<1>6. CASE Clean
  BY <1>6, <1>a, CleanBegins
<1>7. CASE EnsureNode \/ EnsureLoad \/ EnsureDone
  <2>1. tree' = tree /\ op'.path = op.path /\ op'.all = op.all /\ op.pc = "ensure" /\ op.kind = "pull"
    BY <1>7, PullOp DEF EnsureNode, EnsureLoad, EnsureDone
  <2>2. \A q \in Files(tree) : Under(op.path, q) => q \in Range(op.todo) \/ Delivered(q)
    BY <1>0, <2>1 DEF PullInv
  <2>3. CASE op'.pc = "ensure"
    <3>1. \A q \in Files(tree) : Under(op.path, q) => q \in Range(op'.todo) \/ Delivered(q)'
      BY <1>7, <2>2, <2>3, PullKeeps
    <3> QED
      BY <2>1, <2>3, <3>1 DEF PullInv, PullDelivers, Files
  <2>4. CASE op'.pc = "done" /\ op'.result = "ok"
    <3>1. op.todo = <<>> /\ UNCHANGED <<root, cache, tree>>
      <4>1. op' # op
        BY <2>1, <2>4
      <4>2. op' # Finish("error")
        BY <2>4, OpFields
      <4>3. op' # Visited
        BY <2>1, <2>4, OpFields
      <4>4. EnsureDone
        BY <1>7, <4>1, <4>2, <4>3 DEF EnsureNode, EnsureLoad, EmplaceRemove, EmplaceRename, Visited
      <4> QED
        BY <4>4 DEF EnsureDone
    <3>2. \A q \in Files(tree) : Under(op.path, q) => Delivered(q)
      BY <2>2, <3>1, EmptyRange
    <3> QED
      BY <2>1, <2>4, <3>1, <3>2 DEF PullInv, PullDelivers, Delivered, Files, TooLarge
  <2>5. CASE op'.pc = "done" /\ op'.result # "ok"
    BY <2>5 DEF PullInv, PullDelivers
  <2> QED
    BY <1>7, <2>1, <2>3, <2>4, <2>5, PullOp
<1>8. CASE WalkDir \/ WalkFile \/ WriteThrough
  BY <1>8, <1>a, WalkOp
<1>9. CASE WriteThroughFails \/ WalkDone \/ CommitTruncate \/ CommitEncode
  BY <1>9, <1>a, WalkEnd
<1>10. CASE CleanEntry \/ CleanDone
  BY <1>10, <1>a, CleanOp
<1> QED
  BY <1>1, <1>2, <1>3, <1>4, <1>5, <1>6, <1>7, <1>8, <1>9, <1>10, Steps

\* A step keeps what is said of the paths a clean has visited.
LEMMA CleanStep ==
  ASSUME ArtifactInv, [ArtifactNext]_artifactVars
  PROVE  CleanInv'
<1>0. CleanInv
  BY DEF ArtifactInv
<1>a. ASSUME op'.kind # "clean" \/ op'.pc = "idle", op'.pc # "clean"
      PROVE  CleanInv'
  BY <1>a DEF CleanInv, CleanLeavesTheTree
<1>1. CASE Between
  BY <1>1, <1>a, BetweenIsIdle
<1>2. CASE UNCHANGED artifactVars
  BY <1>0, <1>2 DEF CleanInv, CleanLeavesTheTree, Kept, Files, artifactVars
<1>3. CASE NoopCommand \/ (\E c \in Contents : Store(c)) \/ (\E p \in Paths : Remove(p))
  BY <1>3, <1>a, OtherOp
<1>4. CASE \E p \in Paths \cup {<<>>}, all \in BOOLEAN : Ensure(p, all)
  BY <1>4, <1>a, EnsureBegins
<1>5. CASE \E kind \in {"push", "status"} : Walk(kind)
  BY <1>5, <1>a, WalkBegins
<1>6. CASE Clean
  BY <1>6, CleanBegins DEF CleanInv, CleanLeavesTheTree
<1>7. CASE EnsureNode \/ EnsureLoad \/ EnsureDone
  BY <1>7, <1>a, PullOp
<1>8. CASE WalkDir \/ WalkFile \/ WriteThrough
  BY <1>8, <1>a, WalkOp
<1>9. CASE WriteThroughFails \/ WalkDone \/ CommitTruncate \/ CommitEncode
  BY <1>9, <1>a, WalkEnd
<1>10. CASE CleanEntry \/ CleanDone
  <2>0. tree' = tree /\ op.pc = "clean" /\ \A q : Kept(q)' <=> Kept(q)
    BY <1>10 DEF CleanEntry, CleanDone, Kept, Files
  <2>1. \A q \in DOMAIN root : q \in Range(op.todo) \/ Kept(q)
    BY <1>0, <2>0 DEF CleanInv
  <2>2. CASE CleanDone
    <3>1. op.todo = <<>> /\ root' = root /\ op'.pc = "done"
      BY <2>2, OpFields DEF CleanDone
    <3>2. \A q \in DOMAIN root' : Kept(q)'
      BY <2>0, <2>1, <3>1, EmptyRange
    <3> QED
      BY <3>1, <3>2 DEF CleanInv, CleanLeavesTheTree, Kept
  <2>3. CASE CleanEntry /\ op' = Finish("error")
    BY <2>3, OpFields DEF CleanInv, CleanLeavesTheTree
  <2>4. CASE CleanEntry /\ op' # Finish("error")
    <3>1. PICK p \in Paths : p = Head(op.todo) /\ Range(op.todo) = {p} \cup Range(Tail(op.todo))
      BY <2>4, Data DEF CleanEntry
    <3>2. op'.pc = "clean" /\ op'.todo = Tail(op.todo)
      BY <2>0, <2>4, OpFields DEF CleanEntry
    <3>3. root' = IF Kept(p) THEN root ELSE Without(root, p)
      BY <2>4, <3>1 DEF CleanEntry, Kept
    <3>4. ASSUME NEW q \in DOMAIN root' PROVE q \in Range(op'.todo) \/ Kept(q)'
      <4>1. CASE Kept(p)
        BY <2>0, <2>1, <3>1, <3>2, <3>3, <3>4, <4>1
      <4>2. CASE ~Kept(p)
        <5>1. root' = Without(root, p)
          BY <3>3, <4>2
        <5>2. q \in DOMAIN root /\ ~Under(p, q)
          BY <3>4, <5>1, WithoutDef
        <5>3. q # p
          BY <3>1, <5>2, UnderOrder, PathsAreSequences
        <5> QED
          BY <2>0, <2>1, <3>1, <3>2, <5>2, <5>3
      <4> QED
        BY <4>1, <4>2
    <3> QED
      BY <3>2, <3>4 DEF CleanInv, CleanLeavesTheTree
  <2> QED
    BY <1>10, <2>2, <2>3, <2>4
<1> QED
  BY <1>1, <1>2, <1>3, <1>4, <1>5, <1>6, <1>7, <1>8, <1>9, <1>10, Steps

\* Every step keeps the invariant.
LEMMA ArtifactStep == ArtifactInv /\ [ArtifactNext]_artifactVars => ArtifactInv'
BY OpStep, StoredStep, TodoStep, PushStep, StatusStep, PullStep, CleanStep
   DEF ArtifactInv, StoredInv

\* Whatever commands run, wherever the source store fails or a process ends:
\* tree.json names only what the source store has, nothing is only in the
\* cache, and a push that succeeds has committed every file of the user's
\* (WriteThroughUser, commitFn).
THEOREM StoreIsSound == ArtifactSpec => []StoreInv
<1>1. ArtifactInv => StoreInv
  <2> SUFFICES ASSUME ArtifactInv PROVE StoreInv
    OBVIOUS
  <2>1. ArtifactTypeOK
    <3>1. Range(op.todo) \subseteq Paths
      BY Data DEF Range
    <3> QED
      BY <3>1 DEF ArtifactInv, DataInv, Tree, ArtifactTypeOK
  <2> QED
    BY <2>1 DEF ArtifactInv, PushInv, StoreInv
<1> QED
  BY <1>1, InitArtifact, ArtifactStep, PTL DEF ArtifactSpec

\* A pull that succeeds (Ensure) has put every artifact under its path in
\* place, whatever the user's directory was like.
THEOREM PullIsComplete == ArtifactSpec => []PullDelivers
<1>1. ArtifactInv => PullDelivers
  BY DEF ArtifactInv, PullInv
<1> QED
  BY <1>1, InitArtifact, ArtifactStep, PTL DEF ArtifactSpec

\* A clean that succeeds leaves nothing the tree does not know.
THEOREM CleanIsComplete == ArtifactSpec => []CleanLeavesTheTree
<1>1. ArtifactInv => CleanLeavesTheTree
  BY DEF ArtifactInv, CleanInv
<1> QED
  BY <1>1, InitArtifact, ArtifactStep, PTL DEF ArtifactSpec

\* Status reports exactly what a push would store.
THEOREM StatusIsExact == ArtifactSpec => []StatusForetells
<1>1. ArtifactInv => StatusForetells
  BY DEF ArtifactInv, StatusInv
<1> QED
  BY <1>1, InitArtifact, ArtifactStep, PTL DEF ArtifactSpec
=============================================================================
