----------------------------- MODULE Processes -----------------------------
(***************************************************************************)
(* Managed processes and their manager (pexec/managed_process.go,          *)
(* pexec/managed_process_unix.go, pexec/process_manager.go).               *)
(*                                                                         *)
(* The manager holds its mu for the whole of an operation, so one          *)
(* operation is under way at a time; `mgr` and `todo` say which, and how   *)
(* far its loop over the processes is. Beside it run the manage goroutine  *)
(* of each process, and goroutines of the user that stop processes they    *)
(* hold, the operations of a manager made by Clone included.               *)
(*                                                                         *)
(* The operating system is external: a process of the system runs, has     *)
(* exited, and is reaped by Wait; beside it there may be children in its   *)
(* process group. A user starts a process that is not one-shot once.       *)
(***************************************************************************)
EXTENDS Naturals, FiniteSets

CONSTANTS
  Procs,     \* the managedProcess objects
  OneShot,   \* those configured as one-shot
  IDs, IdOf, \* the ID of a process; AddProcess replaces by ID
  None,      \* no process
  MaxFaults  \* bound: failures and exits that nobody asked for

ASSUME ProcessesAssumption ==
  /\ OneShot \subseteq Procs /\ IdOf \in [Procs -> IDs]
  /\ None \notin Procs /\ MaxFaults \in Nat

VARIABLES
  \* processManager
  started, stoppedAll,
  processesByID,
  mgr,       \* the operation that holds pm.mu: idle, start, add, stop
  todo,      \* the processes its loop has still to visit
  at,        \* the process whose Start or Stop it is in
  \* managedProcess
  mu,        \* free, or who runs a one-shot process under mu
  stopped,   \* processes whose killCh is closed
  managing,  \* the manage goroutine; "closed" when managingCh is
  stopPc,    \* the call of Stop that found the process not stopped
  \* the operating system
  osProc, child,
  \* history
  removed,   \* processes handed back to the user, by removal or replacement
  byUser,    \* processes that the user stopped
  faults

mgrVars  == <<started, stoppedAll, processesByID, mgr, todo, at>>
procVars == <<mu, managing, osProc, child>>
histVars == <<removed, byUser, faults>>
vars == <<mgrVars, procVars, stopped, stopPc, histVars>>

Init ==
  /\ started = FALSE /\ stoppedAll = FALSE /\ processesByID = [i \in IDs |-> None]
  /\ mgr = "idle" /\ todo = {} /\ at = None
  /\ mu = [p \in Procs |-> "free"] /\ stopped = {}
  /\ managing = [p \in Procs |-> "none"] /\ stopPc = [p \in Procs |-> "no"]
  /\ osProc = [p \in Procs |-> "none"] /\ child = {}
  /\ removed = {} /\ byUser = {} /\ faults = 0

Fault == faults < MaxFaults /\ faults' = faults + 1

Managed == {processesByID[i] : i \in IDs} \ {None}

\* p.cmd is set; a one-shot command is never stored.
HasCmd(p) == p \notin OneShot /\ osProc[p] # "none"

\* There is somebody in the process group to signal; if not, Kill returns
\* ESRCH, which is not os.ErrProcessDone.
GroupAlive(p) == osProc[p] \in {"run", "zombie"} \/ p \in child

----------------------------------------------------------------------------
(* managedProcess.Start *)

\* Start without its look at killCh.
StartNoKillCheck(p) ==
  /\ p \notin OneShot /\ mu[p] = "free"
  /\ osProc' = [osProc EXCEPT ![p] = "run"] /\ child' = child \ {p}
  /\ managing' = [managing EXCEPT ![p] = "wait"]
  /\ UNCHANGED mu

\* The outcomes of Start: the process runs and is managed; a one-shot command
\* runs while mu is held; or Start returns an error, because the process was
\* stopped, or because of its directory, its user or the command.
Launch(p) ==
  /\ p \notin OneShot /\ mu[p] = "free" /\ p \notin stopped
  /\ osProc' = [osProc EXCEPT ![p] = "run"] /\ child' = child \ {p}
  /\ managing' = [managing EXCEPT ![p] = "wait"]
  /\ UNCHANGED mu

RunOneShot(p) ==
  /\ p \in OneShot /\ mu[p] = "free" /\ p \notin stopped
  /\ osProc' = [osProc EXCEPT ![p] = "run"]
  /\ mu' = [mu EXCEPT ![p] = "mgr"]
  /\ UNCHANGED <<managing, child>>

StartFails(p) ==
  /\ mu[p] = "free"
  /\ IF p \in stopped THEN UNCHANGED faults ELSE Fault
  /\ UNCHANGED procVars

\* cmd.Run returns: the command has exited, or its context was done and it was
\* killed.
OneShotReturns(p) ==
  /\ mu[p] = "mgr" /\ osProc[p] = "zombie"
  /\ mu' = [mu EXCEPT ![p] = "free"]
  /\ osProc' = [osProc EXCEPT ![p] = "reaped"]
  /\ UNCHANGED <<managing, child>>

----------------------------------------------------------------------------
(* manage *)

Goto(p, l) == managing' = [managing EXCEPT ![p] = l]

\* cmd.Wait, and the wait for the loggers, whose pipes it closes.
ManageWait(p) ==
  /\ managing[p] = "wait" /\ osProc[p] = "zombie"
  /\ osProc' = [osProc EXCEPT ![p] = "reaped"] /\ Goto(p, "check")
  /\ UNCHANGED <<mgrVars, mu, stopped, stopPc, child, histVars>>

\* Was it Stop?
ManageCheck(p) ==
  /\ managing[p] = "check"
  /\ Goto(p, IF p \in stopped THEN "closed" ELSE "hook")
  /\ UNCHANGED <<mgrVars, mu, stopped, stopPc, osProc, child, histVars>>

\* onUnexpectedExit, which may decline a restart.
ManageHook(p) ==
  /\ managing[p] = "hook"
  /\ Goto(p, "ticker") \/ Goto(p, "closed")
  /\ UNCHANGED <<mgrVars, mu, stopped, stopPc, osProc, child, histVars>>

\* The wait before a restart; either branch when both are ready.
ManageTicker(p) ==
  /\ managing[p] = "ticker"
  /\ Goto(p, "restart") \/ (p \in stopped /\ Goto(p, "closed"))
  /\ UNCHANGED <<mgrVars, mu, stopped, stopPc, osProc, child, histVars>>

\* manage calls Start, which starts the next manage goroutine. This one leaves
\* managingCh open if that succeeds, and closes it if not.
ManageRestart(p) ==
  /\ managing[p] = "restart"
  /\ \/ Launch(p) /\ UNCHANGED faults
     \/ /\ mu[p] = "free" /\ (IF p \in stopped THEN UNCHANGED faults ELSE Fault)
        /\ Goto(p, "closed") /\ UNCHANGED <<mu, osProc, child>>
  /\ UNCHANGED <<mgrVars, stopped, stopPc, removed, byUser>>

Manage(p) ==
  ManageWait(p) \/ ManageCheck(p) \/ ManageHook(p) \/ ManageTicker(p) \/ ManageRestart(p)

----------------------------------------------------------------------------
(* managedProcess.Stop and kill *)

\* The critical section of Stop, for a process that is not stopped.
StopBegin(p) ==
  /\ mu[p] = "free" /\ p \notin stopped
  /\ stopped' = stopped \cup {p}
  /\ stopPc' = [stopPc EXCEPT ![p] = IF HasCmd(p) THEN "signal" ELSE "nil"]

StopGoto(p, l) ==
  /\ stopPc' = [stopPc EXCEPT ![p] = l]
  /\ UNCHANGED <<mgrVars, mu, managing, stopped, removed, byUser>>

\* Stop that signals and then only waits.
SignalOnly(p) ==
  /\ stopPc[p] = "signal" /\ StopGoto(p, "last")
  /\ UNCHANGED <<osProc, child, faults>>

\* The stop signal for the process itself. It may ignore it.
StopSignal(p) ==
  /\ stopPc[p] = "signal"
  /\ \/ StopGoto(p, "wait1") /\ UNCHANGED faults
     \/ osProc[p] # "reaped" /\ Fault /\ StopGoto(p, "err")
  /\ UNCHANGED <<osProc, child>>

\* The first timer: the stop signal for the group.
StopTimer(p) ==
  /\ stopPc[p] = "wait1"
  /\ StopGoto(p, IF GroupAlive(p) THEN "wait2" ELSE "err")
  /\ UNCHANGED <<osProc, child, faults>>

\* The second timer: SIGKILL for the group.
StopKill(p) ==
  /\ stopPc[p] = "wait2"
  /\ StopGoto(p, IF GroupAlive(p) THEN "last" ELSE "err")
  /\ osProc' = [osProc EXCEPT ![p] = IF @ = "run" THEN "zombie" ELSE @]
  /\ child' = child \ {p}
  /\ UNCHANGED faults

\* Stop without its last wait for managingCh.
StopNoWait(p) ==
  /\ \/ stopPc[p] = "wait1" /\ managing[p] = "closed" /\ StopGoto(p, "wait2")
     \/ stopPc[p] = "wait2" /\ managing[p] = "closed" /\ StopGoto(p, "last")
     \/ stopPc[p] = "last" /\ StopGoto(p, "nil")
  /\ UNCHANGED <<osProc, child, faults>>

\* managingCh is closed, which ends both waits of kill and then Stop.
StopManaged(p) ==
  /\ managing[p] = "closed"
  /\ \/ stopPc[p] = "wait1" /\ StopGoto(p, "wait2")
     \/ stopPc[p] = "wait2" /\ StopGoto(p, "last")
     \/ stopPc[p] = "last" /\ StopGoto(p, "nil")
  /\ UNCHANGED <<osProc, child, faults>>

StopStep(p) == StopSignal(p) \/ StopTimer(p) \/ StopKill(p) \/ StopManaged(p)

\* A user calls Stop of a process it holds. A Stop of a process that is stopped
\* returns nil at once, whoever stops it.
UserStop(p) ==
  /\ StopBegin(p) /\ byUser' = byUser \cup {p}
  /\ UNCHANGED <<mgrVars, procVars, removed, faults>>

----------------------------------------------------------------------------
(* processManager *)

\* Start: every process of the map, in any order. A second Start does nothing.
MgrStart ==
  /\ mgr = "idle" /\ ~stoppedAll /\ ~started
  /\ mgr' = "start" /\ todo' = Managed
  /\ UNCHANGED <<started, stoppedAll, processesByID, at, procVars, stopped, stopPc, histVars>>

\* A process starts, and the loop goes on.
MgrStartNext(p) ==
  /\ mgr = "start" /\ at = None /\ p \in todo
  /\ \/ Launch(p) /\ todo' = todo \ {p} /\ UNCHANGED at
     \/ RunOneShot(p) /\ at' = p /\ UNCHANGED todo
  /\ UNCHANGED <<started, stoppedAll, processesByID, mgr, stopped, stopPc, histVars>>

\* A one-shot process has run, and the loop goes on.
MgrStartRan(p) ==
  /\ mgr = "start" /\ at = p /\ OneShotReturns(p)
  /\ at' = None /\ todo' = todo \ {p}
  /\ UNCHANGED <<started, stoppedAll, processesByID, mgr, stopped, stopPc, histVars>>

\* stop(): every process of the map, those not yet started included.
StopAll == mgr' = "stop" /\ stoppedAll' = TRUE /\ todo' = Managed /\ at' = None

\* Start of the manager gives up without stopping what runs.
FailKeepsRunning(p) ==
  /\ mgr = "start" /\ at = None /\ p \in todo /\ StartFails(p)
  /\ mgr' = "idle" /\ todo' = {}
  /\ UNCHANGED <<started, stoppedAll, processesByID, at, stopped, stopPc, removed, byUser>>

\* One process fails to start, or a one-shot one to run, and all are stopped.
MgrStartFails(p) ==
  /\ mgr = "start"
  /\ \/ at = None /\ p \in todo /\ StartFails(p)
     \/ at = p /\ OneShotReturns(p) /\ Fault
  /\ StopAll
  /\ UNCHANGED <<started, processesByID, stopped, stopPc, removed, byUser>>

MgrStarted ==
  /\ mgr = "start" /\ at = None /\ todo = {}
  /\ started' = TRUE /\ mgr' = "idle"
  /\ UNCHANGED <<stoppedAll, processesByID, todo, at, procVars, stopped, stopPc, histVars>>

\* The map gets p; what it replaces is the user's.
Put(p) ==
  LET old == processesByID[IdOf[p]] IN
  /\ processesByID' = [processesByID EXCEPT ![IdOf[p]] = p]
  /\ removed' = (removed \cup ({old} \ {None})) \ {p}

\* AddProcess, when nothing has to be started, or the start succeeds or fails
\* at once. MergeAddProcessManagers calls it with start = FALSE. It is the
\* user's part not to have a process started a second time.
MgrAdd(p, start) ==
  /\ mgr = "idle" /\ ~stoppedAll
  /\ p \in OneShot \/ osProc[p] = "none" \/ (started /\ ~start)
  /\ \/ ~(started /\ start) /\ Put(p) /\ UNCHANGED <<procVars, mgr, at, faults>>
     \/ started /\ start /\ Launch(p) /\ Put(p) /\ UNCHANGED <<mgr, at, faults>>
     \/ started /\ start /\ RunOneShot(p) /\ mgr' = "add" /\ at' = p
        /\ UNCHANGED <<processesByID, removed, faults>>
     \/ started /\ start /\ StartFails(p) /\ UNCHANGED <<processesByID, removed, mgr, at>>
  /\ UNCHANGED <<started, stoppedAll, todo, stopped, stopPc, byUser>>

\* RemoveProcessByID, also as called by MergeRemoveProcessManagers.
MgrRemove(p) ==
  /\ mgr = "idle" /\ ~stoppedAll /\ p \in Managed
  /\ processesByID' = [processesByID EXCEPT ![IdOf[p]] = None]
  /\ removed' = removed \cup {p}
  /\ UNCHANGED <<started, stoppedAll, mgr, todo, at, procVars, stopped, stopPc, byUser, faults>>

\* The one-shot process AddProcess waits for ends; with an error it is not added.
MgrAddRan(p) ==
  /\ mgr = "add" /\ at = p /\ OneShotReturns(p)
  /\ \/ Put(p) /\ UNCHANGED faults
     \/ Fault /\ UNCHANGED <<processesByID, removed>>
  /\ mgr' = "idle" /\ at' = None
  /\ UNCHANGED <<started, stoppedAll, todo, stopped, stopPc, byUser>>

MgrStop ==
  /\ mgr = "idle" /\ ~stoppedAll /\ StopAll
  /\ UNCHANGED <<started, processesByID, procVars, stopped, stopPc, histVars>>

\* The next process of stop()'s loop: a process that is stopped already is done
\* with at once, even while somebody else's Stop of it is still waiting.
MgrStopNext(p) ==
  /\ mgr = "stop" /\ at = None /\ p \in todo
  /\ \/ StopBegin(p) /\ at' = p
     \/ mu[p] = "free" /\ p \in stopped /\ UNCHANGED <<stopped, stopPc, at>>
  /\ todo' = todo \ {p}
  /\ UNCHANGED <<started, stoppedAll, processesByID, mgr, procVars, histVars>>

\* proc.Stop returns; its error is collected and the loop goes on.
MgrStopReturns(p) ==
  /\ mgr = "stop" /\ at = p /\ stopPc[p] \in {"nil", "err"}
  /\ at' = None
  /\ UNCHANGED <<started, stoppedAll, processesByID, mgr, todo, procVars, stopped, stopPc, histVars>>

MgrStopped ==
  /\ mgr = "stop" /\ at = None /\ todo = {}
  /\ processesByID' = [i \in IDs |-> None] /\ mgr' = "idle"
  /\ UNCHANGED <<started, stoppedAll, todo, at, procVars, stopped, stopPc, histVars>>

MgrStep ==
  \/ MgrStarted \/ MgrStopped
  \/ \E p \in Procs : \/ MgrStartNext(p) \/ MgrStartRan(p) \/ MgrStartFails(p) \/ MgrAddRan(p)
                     \/ MgrStopNext(p) \/ MgrStopReturns(p)

----------------------------------------------------------------------------
(* The operating system *)

\* A process ends: a one-shot one, one that was asked to, or one that fails
\* (bound: MaxFaults).
Exit(p) ==
  /\ osProc[p] = "run" /\ osProc' = [osProc EXCEPT ![p] = "zombie"]
  /\ IF p \in OneShot \/ stopPc[p] \in {"wait1", "wait2"} THEN UNCHANGED faults ELSE Fault
  /\ UNCHANGED <<mgrVars, mu, managing, stopped, stopPc, child, removed, byUser>>

\* Children come and go.
Fork(p) ==
  /\ osProc[p] = "run" /\ p \notin OneShot \cup child /\ child' = child \cup {p}
  /\ UNCHANGED <<mgrVars, mu, managing, osProc, stopped, stopPc, histVars>>

ChildExit(p) ==
  /\ p \in child /\ child' = child \ {p}
  /\ UNCHANGED <<mgrVars, mu, managing, osProc, stopped, stopPc, histVars>>

Environment ==
  \/ MgrStart \/ MgrStop
  \/ \E p \in Procs : \/ \E start \in BOOLEAN : MgrAdd(p, start)
                     \/ MgrRemove(p) \/ UserStop(p)
                     \/ Exit(p) \/ Fork(p) \/ ChildExit(p)

Next == MgrStep \/ Environment \/ \E p \in Procs : Manage(p) \/ StopStep(p)

\* Goroutines run, timers fire and hooks return. Nothing is assumed of what the
\* processes do, except that SIGKILL ends them (StopKill).
Fairness ==
  /\ WF_vars(MgrStep)
  /\ \A p \in Procs : WF_vars(Manage(p)) /\ WF_vars(StopStep(p))

Spec == Init /\ [][Next]_vars /\ Fairness

----------------------------------------------------------------------------
(* Properties *)

\* The types of the state of manager, processes and operating system.
TypeOK ==
  /\ started \in BOOLEAN /\ stoppedAll \in BOOLEAN
  /\ processesByID \in [IDs -> Procs \cup {None}]
  /\ mgr \in {"idle", "start", "add", "stop"} /\ todo \subseteq Procs /\ at \in Procs \cup {None}
  /\ mu \in [Procs -> {"free", "mgr"}] /\ stopped \subseteq Procs
  /\ managing \in [Procs -> {"none", "wait", "check", "hook", "ticker", "restart", "closed"}]
  /\ stopPc \in [Procs -> {"no", "signal", "wait1", "wait2", "last", "nil", "err"}]
  /\ osProc \in [Procs -> {"none", "run", "zombie", "reaped"}]
  /\ child \subseteq Procs /\ removed \subseteq Procs /\ byUser \subseteq Procs
  /\ faults \in 0 .. MaxFaults

Dead(p) == osProc[p] \in {"none", "reaped"}

\* A Stop that got through without a system error has seen the process end, and
\* nobody is left who would restart it ("Stop signals and waits for the process
\* to stop").
StopLeavesNothing ==
  \A p \in Procs : stopPc[p] = "nil" => Dead(p) /\ managing[p] \in {"none", "closed"}

\* From the moment killCh is closed no process is started any more, neither by
\* a Start that was waiting for mu nor by a manage goroutine on its way to a
\* restart.
NoStartAfterStop ==
  [][\A p \in stopped : osProc'[p] = "run" => osProc[p] = "run"]_vars

\* While the manager is not started, or after it was stopped, nothing of what
\* it manages runs: a Start that fails half way takes down what it started, and
\* Stop waits for each process. Exempt are processes whose stopping failed or
\* was begun by somebody else.
ManagerLeavesNothing ==
  mgr = "idle" /\ (stoppedAll \/ ~started) =>
    \A p \in Procs \ removed : Dead(p) \/ stopPc[p] = "err" \/ p \in byUser

\* An operation of the manager returns, unless a one-shot process does not end:
\* Stop of a process returns whatever the process does, and does not wait for a
\* restart that waits for it.
ManagerReturns == mgr # "idle" ~> (mgr = "idle" \/ \E p \in OneShot : mu[p] # "free")

====
