----------------------- MODULE ProcessManager_proofs -----------------------
(* Proofs about ProcessManager for any sets of apps, objects and processes   *)
(* and any restart budget.                                                   *)
EXTENDS ProcessManager, TLAPS

USE NoneAssumption, PoliciesAssumption, MaxRestartsAssumption

-----------------------------------------------------------------------------
(* Type correctness.                                                         *)

\* The initial state is well typed.
LEMMA InitTypeOK == Init => TypeOK
  BY DEF Init, TypeOK, BlankEntry, NoProcess, NoMonitor, IdleReq, Entry, Process,
         Monitor, Request, Shutdown, Ops, States

\* Signals change the state of one process at most.
LEMMA SignalType ==
  ASSUME os \in [Pids -> Process], NEW p, SigTerm(p) \/ SigKill(p)
  PROVE  os' \in [Pids -> Process]
<1>1. CASE SigTerm(p)
  <2> SUFFICES ASSUME NEW q \in Pids PROVE os'[q] \in Process
    BY <1>1 DEF SigTerm
  <2>1. os'[q] = os[q] \/ os'[q] = [os[q] EXCEPT !.st = "termed"]
    BY <1>1 DEF SigTerm, Process
  <2>2. QED BY <2>1 DEF Process
<1>2. CASE SigKill(p)
  <2> SUFFICES ASSUME NEW q \in Pids PROVE os'[q] \in Process
    BY <1>2 DEF SigKill
  <2>1. os'[q] = os[q] \/ os'[q] = [os[q] EXCEPT !.st = "killed"]
    BY <1>2 DEF SigKill, Process
  <2>2. QED BY <2>1 DEF Process
<1>3. QED BY <1>1, <1>2

\* Changes of one field of an object, or of none, keep its type.
LEMMA EntryType ==
  ASSUME entry \in [Entries -> Entry], NEW e, NEW f
  PROVE  /\ \A s \in States : f = [entry EXCEPT ![e].state = s] => f \in [Entries -> Entry]
         /\ \A b \in BOOLEAN : f = [entry EXCEPT ![e].stopping = b] => f \in [Entries -> Entry]
         /\ \A b \in BOOLEAN : f = [entry EXCEPT ![e].done = b] => f \in [Entries -> Entry]
         /\ f = [entry EXCEPT ![e].restarts = @ + 1] => f \in [Entries -> Entry]
         /\ \A q \in Pids : f = [entry EXCEPT ![e].cmd = q, ![e].state = "running",
                                              ![e].done = FALSE] => f \in [Entries -> Entry]
<1>1. ASSUME NEW s \in States, f = [entry EXCEPT ![e].state = s] PROVE f \in [Entries -> Entry]
  <2> SUFFICES ASSUME NEW x \in Entries PROVE f[x] \in Entry
    BY <1>1
  <2>1. f[x] = IF x = e THEN [entry[x] EXCEPT !.state = s] ELSE entry[x]
    BY <1>1
  <2>2. QED BY <2>1 DEF Entry
<1>2. ASSUME NEW b \in BOOLEAN, f = [entry EXCEPT ![e].stopping = b] PROVE f \in [Entries -> Entry]
  <2> SUFFICES ASSUME NEW x \in Entries PROVE f[x] \in Entry
    BY <1>2
  <2>1. f[x] = IF x = e THEN [entry[x] EXCEPT !.stopping = b] ELSE entry[x]
    BY <1>2
  <2>2. QED BY <2>1 DEF Entry
<1>3. ASSUME NEW b \in BOOLEAN, f = [entry EXCEPT ![e].done = b] PROVE f \in [Entries -> Entry]
  <2> SUFFICES ASSUME NEW x \in Entries PROVE f[x] \in Entry
    BY <1>3
  <2>1. f[x] = IF x = e THEN [entry[x] EXCEPT !.done = b] ELSE entry[x]
    BY <1>3
  <2>2. QED BY <2>1 DEF Entry
<1>4. ASSUME f = [entry EXCEPT ![e].restarts = @ + 1] PROVE f \in [Entries -> Entry]
  <2> SUFFICES ASSUME NEW x \in Entries PROVE f[x] \in Entry
    BY <1>4
  <2>1. f[x] = IF x = e THEN [entry[x] EXCEPT !.restarts = @ + 1] ELSE entry[x]
    BY <1>4
  <2>2. QED BY <2>1 DEF Entry
<1>5. ASSUME NEW q \in Pids,
             f = [entry EXCEPT ![e].cmd = q, ![e].state = "running", ![e].done = FALSE]
      PROVE  f \in [Entries -> Entry]
  <2> SUFFICES ASSUME NEW x \in Entries PROVE f[x] \in Entry
    BY <1>5
  <2>1. f[x] = IF x = e THEN [entry[x] EXCEPT !.cmd = q, !.state = "running", !.done = FALSE]
               ELSE entry[x]
    BY <1>5
  <2>2. QED BY <2>1 DEF Entry, States
<1>6. QED BY <1>1, <1>2, <1>3, <1>4, <1>5

\* A step of the listener preserves the types.
LEMMA ListenerTypeOK == TypeOK /\ Listener => TypeOK'
<1> SUFFICES ASSUME TypeOK, Listener PROVE TypeOK'
  OBVIOUS
<1> USE DEF TypeOK
<1>1. ASSUME NEW c \in Commands, Receive(c) PROVE TypeOK'
  BY <1>1 DEF Commands, Receive, Request, Ops
<1>2. CASE Respond \/ DeployRefused
  BY <1>2 DEF Respond, DeployRefused, IdleReq, Request, Ops
<1>3. CASE StopBegin
  <2>1. os' \in [Pids -> Process]
    BY <1>3, SignalType DEF StopBegin
  <2>2. entry' \in [Entries -> Entry]
    BY <1>3, EntryType DEF StopBegin
  <2>3. req' \in Request
    BY <1>3 DEF StopBegin, Request
  <2>4. QED BY <1>3, <2>1, <2>2, <2>3 DEF StopBegin
<1>4. CASE StopTimeout
  BY <1>4, SignalType DEF StopTimeout
<1>5. ASSUME Unlock PROVE req' \in Request /\ mu' \in {"free", "listener", "shutdown"}
  BY <1>5 DEF Unlock, Request
<1>6. CASE StopEnd
  <2>1. entry' = entry \/ entry' = [entry EXCEPT ![processes[req.app]].state = "stopped"]
    BY <1>6 DEF StopEnd
  <2>2. entry' \in [Entries -> Entry]
    BY <2>1, EntryType DEF States
  <2>3. QED BY <1>5, <1>6, <2>2 DEF StopEnd
<1>7. CASE RemoveEnd \/ DeployFail
  BY <1>5, <1>7 DEF RemoveEnd, DeployFail
<1>8. ASSUME NEW e \in Entries, NEW p \in Pids, DeployStart(e, p) PROVE TypeOK'
  <2>1. req.app \in Apps \cup {None} /\ req.policy \in Policies \cup {"never"}
    BY DEF Request
  <2>2. entry' \in [Entries -> Entry]
    BY <1>8, <2>1 DEF DeployStart, Entry, States
  <2>3. os' \in [Pids -> Process]
    BY <1>8, <2>1 DEF DeployStart, Started, Process
  <2>4. mon' \in [Pids -> Monitor]
    BY <1>8 DEF DeployStart, Started, Monitor
  <2>5. QED BY <1>5, <1>8, <2>2, <2>3, <2>4 DEF DeployStart
<1>9. CASE StatusBegin
  BY <1>9 DEF StatusBegin, Request
<1>10. CASE StatusEnd
  BY <1>5, <1>10 DEF StatusEnd
<1>11. ASSUME NEW a \in Apps, StatusOf(a) PROVE TypeOK'
  <2>1. entry' = [entry EXCEPT ![processes[a]].state = "stopped"]
        \/ entry' = [entry EXCEPT ![processes[a]].state = @]
    BY <1>11 DEF StatusOf, StateSeen
  <2>2. entry' \in [Entries -> Entry]
    <3>1. CASE entry' = [entry EXCEPT ![processes[a]].state = "stopped"]
      BY <3>1, EntryType DEF States
    <3>2. CASE entry' = [entry EXCEPT ![processes[a]].state = @]
      <4> SUFFICES ASSUME NEW e \in Entries PROVE entry'[e] \in Entry
        BY <3>2
      <4>1. entry[e] \in Entry
        OBVIOUS
      <4>2. entry'[e] = entry[e] \/ entry'[e] = [entry[e] EXCEPT !.state = entry[e].state]
        BY <3>2
      <4>3. QED BY <4>1, <4>2 DEF Entry
    <3>3. QED BY <2>1, <3>1, <3>2
  <2>3. req' \in Request
    BY <1>11 DEF StatusOf, Request
  <2>4. QED BY <1>11, <2>2, <2>3 DEF StatusOf
<1>12. QED
  BY <1>1, <1>2, <1>3, <1>4, <1>6, <1>7, <1>8, <1>9, <1>10, <1>11 DEF Listener

\* A step of a monitor preserves the types.
LEMMA MonitorTypeOK == ASSUME NEW p \in Pids PROVE TypeOK /\ MonitorStep(p) => TypeOK'
<1> SUFFICES ASSUME TypeOK, MonitorStep(p) PROVE TypeOK'
  OBVIOUS
<1> USE DEF TypeOK
<1>1. mon[p].pc # "none" => mon[p] \in [pc : {"wait", "exited", "backoff"},
                                          entry : Entries, err : BOOLEAN]
  BY DEF Monitor, NoMonitor
<1>2. ASSUME mon' = [mon EXCEPT ![p] = NoMonitor] PROVE mon' \in [Pids -> Monitor]
  BY <1>2 DEF Monitor
<1>3. CASE WaitReturns(p)
  <2>1. os' \in [Pids -> Process]
    BY <1>3 DEF WaitReturns, NoProcess, Process
  <2>2. mon' \in [Pids -> Monitor]
    BY <1>1, <1>3 DEF WaitReturns, Monitor
  <2>3. entry' \in [Entries -> Entry]
    BY <1>3, EntryType DEF WaitReturns
  <2>4. QED BY <1>3, <2>1, <2>2, <2>3 DEF WaitReturns
<1>4. CASE MonitorAbandons(p)
  BY <1>2, <1>4 DEF MonitorAbandons
<1>5. CASE WakeAbandons(p)
  BY <1>2, <1>5 DEF WakeAbandons
<1>6. CASE MonitorSettles(p)
  <2>1. entry' = [entry EXCEPT ![mon[p].entry].state = "failed"]
        \/ entry' = [entry EXCEPT ![mon[p].entry].state = "stopped"]
    BY <1>6 DEF MonitorSettles
  <2>2. entry' \in [Entries -> Entry]
    BY <2>1, EntryType DEF States
  <2>3. QED BY <1>2, <1>6, <2>2 DEF MonitorSettles
<1>7. CASE MonitorGivesUp(p) \/ WakeFails(p)
  <2>1. entry' = [entry EXCEPT ![mon[p].entry].state = "failed"]
    BY <1>7 DEF MonitorGivesUp, WakeFails
  <2>2. entry' \in [Entries -> Entry]
    BY <2>1, EntryType DEF States
  <2>3. QED BY <1>2, <1>7, <2>2 DEF MonitorGivesUp, WakeFails
<1>8. CASE MonitorBacksOff(p)
  <2>1. mon' \in [Pids -> Monitor]
    BY <1>1, <1>8 DEF MonitorBacksOff, Restartable, Monitor
  <2>2. entry' \in [Entries -> Entry]
    BY <1>8, EntryType DEF MonitorBacksOff
  <2>3. QED BY <1>8, <2>1, <2>2 DEF MonitorBacksOff
<1>9. ASSUME NEW q \in Pids, WakeRestarts(p, q) PROVE TypeOK'
  <2>1. mon[p].entry \in Entries
    BY <1>1, <1>9 DEF WakeRestarts
  <2>2. entry[mon[p].entry].app \in Apps \cup {None}
    BY <2>1 DEF Entry
  <2>3. entry' \in [Entries -> Entry]
    BY <1>9, EntryType DEF WakeRestarts
  <2>4. os' \in [Pids -> Process]
    BY <1>9, <2>2 DEF WakeRestarts, Started, Process
  <2>5. mon' \in [Pids -> Monitor]
    BY <1>9, <2>1 DEF WakeRestarts, Started, Monitor
  <2>6. QED BY <1>9, <2>3, <2>4, <2>5 DEF WakeRestarts
<1>10. QED
  BY <1>3, <1>4, <1>5, <1>6, <1>7, <1>8, <1>9 DEF MonitorStep

\* A step of the kernel preserves the types.
LEMMA KernelTypeOK ==
  ASSUME NEW p \in Pids
  PROVE  TypeOK /\ (ProcessEnds(p) \/ ContextKills(p)) => TypeOK'
<1> SUFFICES ASSUME TypeOK, ProcessEnds(p) \/ ContextKills(p) PROVE TypeOK'
  OBVIOUS
<1> USE DEF TypeOK
<1>1. CASE ProcessEnds(p)
  BY <1>1 DEF ProcessEnds, Process
<1>2. CASE ContextKills(p)
  BY <1>2, SignalType DEF ContextKills
<1>3. QED BY <1>1, <1>2

\* A step of the shutdown preserves the types.
LEMMA ShutdownTypeOK == TypeOK /\ (Cancel \/ ShutdownStep) => TypeOK'
<1> SUFFICES ASSUME TypeOK, Cancel \/ ShutdownStep PROVE TypeOK'
  OBVIOUS
<1> USE DEF TypeOK
<1>1. CASE Cancel
  BY <1>1 DEF Cancel, Shutdown
<1>5. CASE CloseStopped
  <2>1. shut' = [shut EXCEPT !.todo = shut.todo \ {shut.cur}, !.cur = None]
    BY <1>5 DEF CloseStopped
  <2>2. shut' \in Shutdown
    BY <2>1 DEF Shutdown
  <2>3. QED BY <1>5, <2>2 DEF CloseStopped
<1>6. CASE CloseBegin
  BY <1>6 DEF CloseBegin, Shutdown
<1>7. CASE CloseEnd
  BY <1>7 DEF CloseEnd, Shutdown
<1>2. CASE CloseTimeout
  BY <1>2, SignalType DEF CloseTimeout
<1>3. ASSUME NEW a \in Apps, CloseStops(a) PROVE TypeOK'
  <2>1. shut' \in Shutdown
    BY <1>3 DEF CloseStops, Shutdown
  <2>2. QED BY <1>3, <2>1, SignalType, EntryType DEF CloseStops
<1>4. CASE ProgramExits
  BY <1>4 DEF ProgramExits, NoMonitor, IdleReq, Monitor, Request, Ops, Shutdown
<1>8. QED
  BY <1>1, <1>2, <1>3, <1>4, <1>5, <1>6, <1>7 DEF ShutdownStep

\* The state of the supervisor keeps its type, for every choice of constants.
LEMMA TypeStep == TypeOK /\ [Next]_vars => TypeOK'
<1>1. ASSUME TypeOK, UNCHANGED vars PROVE TypeOK'
  BY <1>1 DEF vars, TypeOK
<1>2. QED
  BY <1>1, ListenerTypeOK, MonitorTypeOK, KernelTypeOK, ShutdownTypeOK DEF Next, Gone

\* TypeOK is an invariant of the supervisor (process.go).
THEOREM TypeCorrect == Spec => []TypeOK
  BY InitTypeOK, TypeStep, PTL DEF Spec
-----------------------------------------------------------------------------
(* The inductive invariant.  Each lemma first says what the step does to the *)
(* fields the invariant speaks of, then derives the parts one by one.        *)

\* The initial state satisfies the invariant: nothing is tracked or runs.
LEMMA InitInv == Init => IInv
<1> SUFFICES ASSUME Init PROVE IInv
  OBVIOUS
<1>1. TypeOK
  BY InitTypeOK
<1>2. \A p \in Pids : mon[p].pc = "none" /\ os[p].st = "none" /\ ~Live(p)
  BY DEF Init, NoMonitor, NoProcess, Live
<1>3. MonitorsOwnObjects /\ ProcessesAreWaitedFor
  BY <1>2 DEF MonitorsOwnObjects, ProcessesAreWaitedFor
<1>4. MutexHeld /\ ListenerProgress /\ ShutdownProgress /\ TrackedObjects
  BY DEF Init, MutexHeld, ListenerProgress, ShutdownProgress, TrackedObjects, IdleReq
<1>5. QED BY <1>1, <1>3, <1>4 DEF IInv

\* Pointers that are not nil point to objects.
LEMMA Pointers ==
  ASSUME TypeOK
  PROVE  /\ \A a \in Apps : processes[a] # None => processes[a] \in Entries
         /\ \A q \in Pids : mon[q].pc # "none" => mon[q].entry \in Entries
  BY DEF TypeOK, Monitor, NoMonitor

\* Signals kill nobody at once and reap nobody.
LEMMA SignalEffect ==
  ASSUME TypeOK, NEW p, SigTerm(p) \/ SigKill(p), NEW q \in Pids
  PROVE  /\ os'[q].app = os[q].app
         /\ os'[q].st # "none" <=> os[q].st # "none"
         /\ Live(q)' => Live(q)
<1>1. CASE SigTerm(p)
  BY <1>1 DEF TypeOK, Process, SigTerm, Live
<1>2. CASE SigKill(p)
  BY <1>2 DEF TypeOK, Process, SigKill, Live
<1>3. QED BY <1>1, <1>2

\* Steps that only end or signal processes: StopTimeout, CloseTimeout, and
\* those of the kernel.
LEMMA KernelInv ==
  ASSUME IInv, TypeOK', UNCHANGED <<processes, entry, mon, mu, req, shut>>,
         \A q \in Pids : /\ os'[q].app = os[q].app
                         /\ os'[q].st # "none" <=> os[q].st # "none"
                         /\ Live(q)' => Live(q)
  PROVE  IInv'
<1>1. MutexHeld' /\ ListenerProgress' /\ ShutdownProgress'
  BY DEF IInv, MutexHeld, ListenerProgress, ShutdownProgress, Down
<1>2. MonitorsOwnObjects'
  BY DEF IInv, MonitorsOwnObjects
<1>3. ProcessesAreWaitedFor'
  BY DEF IInv, ProcessesAreWaitedFor, StillTracked
<1>4. TrackedObjects'
  BY DEF IInv, TrackedObjects
<1>5. QED BY <1>1, <1>2, <1>3, <1>4 DEF IInv

\* Steps that change nothing but the listener's command and the mutex leave the
\* objects, the processes and the shutdown's findings alone.
LEMMA QuietListener ==
  ASSUME IInv, UNCHANGED <<processes, entry, os, mon, shut>>
  PROVE  /\ MonitorsOwnObjects' /\ ProcessesAreWaitedFor'
         /\ TrackedObjects' /\ ShutdownProgress'
<1>1. MonitorsOwnObjects'
  BY DEF IInv, MonitorsOwnObjects
<1>2. ProcessesAreWaitedFor'
  BY DEF IInv, ProcessesAreWaitedFor, StillTracked, Live
<1>3. TrackedObjects'
  BY DEF IInv, TrackedObjects
<1>4. ShutdownProgress'
  BY DEF IInv, ShutdownProgress, Down
<1>5. QED BY <1>1, <1>2, <1>3, <1>4

\* A command arrives.
LEMMA ReceiveInv == ASSUME IInv, TypeOK', NEW c \in Commands, Receive(c) PROVE IInv'
<1>1. /\ req.pc = "idle" /\ req'.pc = "lock" /\ req'.op = c.op /\ req'.app = c.app
      /\ UNCHANGED <<processes, entry, os, mon, mu, shut>>
  BY DEF Receive
<1>2. c.op # "status" => c.app \in Apps
  BY DEF Commands
<1>3. MutexHeld' /\ ListenerProgress'
  BY <1>1, <1>2 DEF IInv, MutexHeld, ListenerProgress
<1>4. QED BY <1>1, <1>3, QuietListener DEF IInv

\* A command is answered, or refused.
LEMMA RespondInv == ASSUME IInv, TypeOK', Respond \/ DeployRefused PROVE IInv'
<1>1. /\ \/ req.pc = "reply" /\ req'.pc = "idle"
         \/ /\ req.pc = "lock" /\ req'.pc = "reply" /\ req.op = "deploy"
            /\ req'.op = req.op /\ req'.app = req.app
      /\ UNCHANGED <<processes, entry, os, mon, mu, shut>>
  BY DEF Respond, DeployRefused, IdleReq, IInv, TypeOK, Request
<1>2. MutexHeld' /\ ListenerProgress'
  BY <1>1 DEF IInv, MutexHeld, ListenerProgress
<1>3. QED BY <1>1, <1>2, QuietListener DEF IInv

\* GetStatus takes and releases the read lock.
LEMMA StatusInv == ASSUME IInv, TypeOK', StatusBegin \/ StatusEnd PROVE IInv'
<1>1. UNCHANGED <<processes, entry, os, mon, shut>>
  BY DEF StatusBegin, StatusEnd
<1>2. CASE StatusBegin
  <2>1. /\ mu = "free" /\ mu' = "listener" /\ req.pc = "lock" /\ req'.pc = "scan"
        /\ req'.op = "status" /\ req'.todo = {a \in Apps : processes[a] # None}
    BY <1>2 DEF StatusBegin, IInv, TypeOK, Request
  <2>2. MutexHeld' /\ ListenerProgress'
    BY <1>1, <2>1 DEF IInv, MutexHeld, ListenerProgress
  <2>3. QED BY <1>1, <2>2, QuietListener DEF IInv
<1>3. CASE StatusEnd
  <2>1. /\ mu' = "free" /\ req.pc = "scan" /\ req'.pc = "reply" /\ req'.op = req.op
    BY <1>3 DEF StatusEnd, Unlock, IInv, TypeOK, Request
  <2>2. MutexHeld' /\ ListenerProgress'
    BY <1>1, <2>1 DEF IInv, MutexHeld, ListenerProgress
  <2>3. QED BY <1>1, <2>2, QuietListener DEF IInv
<1>4. QED BY <1>2, <1>3

\* Setting stopping and sending SIGTERM disturbs no ownership, whoever does it.
LEMMA MarkStopping ==
  ASSUME IInv, NEW e \in Entries, NEW p, SigTerm(p),
         entry' = [entry EXCEPT ![e].stopping = TRUE],
         UNCHANGED <<processes, mon>>, shut'.pc = shut.pc
  PROVE  /\ \A x \in Entries : /\ entry'[x].done = entry[x].done
                               /\ entry'[x].stopping <=> (entry[x].stopping \/ x = e)
         /\ MonitorsOwnObjects' /\ ProcessesAreWaitedFor' /\ TrackedObjects'
<1>1. ASSUME NEW x \in Entries
      PROVE  /\ entry'[x].app = entry[x].app
             /\ entry'[x].cmd = entry[x].cmd
             /\ entry'[x].done = entry[x].done
             /\ entry'[x].state = entry[x].state
             /\ entry'[x].stopping <=> (entry[x].stopping \/ x = e)
  BY DEF IInv, TypeOK, Entry
<1>2. ASSUME NEW q \in Pids
      PROVE  /\ os'[q].app = os[q].app
             /\ os'[q].st # "none" <=> os[q].st # "none"
             /\ Live(q)' => Live(q)
  BY SignalEffect DEF IInv
<1>3. MonitorsOwnObjects'
  BY <1>1, <1>2, Pointers DEF IInv, MonitorsOwnObjects
<1>4. ProcessesAreWaitedFor'
  BY <1>1, <1>2, Pointers DEF IInv, ProcessesAreWaitedFor, StillTracked, Live
<1>5. TrackedObjects'
  BY <1>1, Pointers DEF IInv, TrackedObjects
<1>6. QED BY <1>1, <1>3, <1>4, <1>5

\* Deploy, Stop or Remove begins to stop the app's process.
LEMMA StopBeginInv == ASSUME IInv, TypeOK', StopBegin PROVE IInv'
<1> DEFINE e == processes[req.app]
<1>1. /\ mu = "free" /\ mu' = "listener" /\ req.pc = "lock" /\ req'.pc = "stopping"
      /\ req'.app = req.app /\ req'.op = req.op /\ req.op # "status"
      /\ e # None /\ UNCHANGED <<processes, mon, shut>>
      /\ entry' = [entry EXCEPT ![e].stopping = TRUE] /\ SigTerm(entry[e].cmd)
  BY DEF StopBegin, IInv, TypeOK, Request
<1>2. req.app \in Apps /\ e \in Entries
  BY <1>1, Pointers DEF IInv, ListenerProgress
<1> HIDE DEF e
<1>3. /\ \A x \in Entries : /\ entry'[x].done = entry[x].done
                            /\ entry'[x].stopping <=> (entry[x].stopping \/ x = e)
      /\ MonitorsOwnObjects' /\ ProcessesAreWaitedFor' /\ TrackedObjects'
  BY <1>1, <1>2, MarkStopping
<1>4. MutexHeld'
  BY <1>1 DEF IInv, MutexHeld
<1>5. ListenerProgress'
  BY <1>1, <1>2, <1>3 DEF IInv, ListenerProgress, e
<1>6. ShutdownProgress'
  BY <1>1, <1>3, Pointers DEF IInv, ShutdownProgress, MutexHeld, Down
<1>7. QED BY <1>3, <1>4, <1>5, <1>6 DEF IInv

\* Steps that record a state or let a monitor move on after Wait: they leave
\* ownership alone, provided "stopped" and "failed" are written over dead objects.
LEMMA Settling ==
  ASSUME IInv, UNCHANGED <<processes, os, shut>>,
         \A x \in Entries : /\ entry'[x].app = entry[x].app
                            /\ entry'[x].cmd = entry[x].cmd
                            /\ entry'[x].done <=> entry[x].done
                            /\ entry'[x].stopping <=> entry[x].stopping
                            /\ entry'[x].state # "running" =>
                                 entry[x].done \/ entry[x].state # "running",
         \A q \in Pids : \/ mon'[q] = mon[q]
                         \/ /\ mon[q].pc \in {"exited", "backoff"}
                            /\ \/ mon'[q].pc = "none"
                               \/ /\ mon'[q].pc \in {"exited", "backoff"}
                                  /\ mon'[q].entry = mon[q].entry
  PROVE  /\ MonitorsOwnObjects' /\ ProcessesAreWaitedFor' /\ TrackedObjects'
         /\ ShutdownProgress'
         /\ \A a \in Apps : processes[a] # None => (Down(a)' <=> Down(a))
<1>1. MonitorsOwnObjects'
  BY Pointers DEF IInv, MonitorsOwnObjects
<1>2. ProcessesAreWaitedFor'
  BY Pointers DEF IInv, ProcessesAreWaitedFor, StillTracked, Live
<1>3. TrackedObjects'
  BY Pointers DEF IInv, TrackedObjects
<1>4. \A a \in Apps : processes[a] # None => (Down(a)' <=> Down(a))
  BY Pointers DEF IInv, Down
<1>5. ShutdownProgress'
  BY <1>4, Pointers DEF IInv, ShutdownProgress, TypeOK, Shutdown
<1>6. QED BY <1>1, <1>2, <1>3, <1>4, <1>5

\* Writing a state, in the terms of Settling.
LEMMA StateEffect ==
  ASSUME TypeOK, NEW e, NEW s, entry' = [entry EXCEPT ![e].state = s],
         e \in Entries => s = "running" \/ s = entry[e].state \/ entry[e].done,
         NEW x \in Entries
  PROVE  /\ entry'[x].app = entry[x].app
         /\ entry'[x].cmd = entry[x].cmd
         /\ entry'[x].done <=> entry[x].done
         /\ entry'[x].stopping <=> entry[x].stopping
         /\ entry'[x].state # "running" => entry[x].done \/ entry[x].state # "running"
  BY DEF TypeOK, Entry

\* Stop answers.
LEMMA StopEndInv == ASSUME IInv, TypeOK', StopEnd PROVE IInv'
<1> DEFINE e == processes[req.app]
<1>1. /\ req.op = "stop" /\ req'.op = "stop" /\ req'.app = req.app /\ req'.pc = "reply"
      /\ mu' = "free" /\ req.pc \in {"lock", "stopping"}
      /\ req.pc = "lock" => mu = "free"
      /\ UNCHANGED <<processes, os, mon, shut>>
  BY DEF StopEnd, Unlock, Stopped, Absent, IInv, TypeOK, Request
<1>2. req.app \in Apps
  BY <1>1 DEF IInv, ListenerProgress
<1>3. e # None => e \in Entries /\ Down(req.app)
  BY <1>1, <1>2, Pointers DEF StopEnd, Stopped, Absent, IInv, ListenerProgress, Down
<1>4. ASSUME NEW x \in Entries
      PROVE  /\ entry'[x].app = entry[x].app
             /\ entry'[x].cmd = entry[x].cmd
             /\ entry'[x].done <=> entry[x].done
             /\ entry'[x].stopping <=> entry[x].stopping
             /\ entry'[x].state # "running" => entry[x].done \/ entry[x].state # "running"
  <2>1. CASE entry' = entry
    BY <2>1
  <2>2. CASE entry' = [entry EXCEPT ![e].state = "stopped"]
    BY <1>3, <2>2, StateEffect DEF IInv, Down
  <2>3. QED BY <2>1, <2>2 DEF StopEnd
<1>5. /\ MonitorsOwnObjects' /\ ProcessesAreWaitedFor' /\ TrackedObjects' /\ ShutdownProgress'
      /\ \A a \in Apps : processes[a] # None => (Down(a)' <=> Down(a))
  BY <1>1, <1>4, Settling
<1>6. MutexHeld'
  BY <1>1 DEF IInv, MutexHeld
<1>7. ListenerProgress'
  BY <1>1, <1>2, <1>3, <1>5 DEF ListenerProgress
<1>8. QED BY <1>5, <1>6, <1>7 DEF IInv

\* GetStatus looks at one object; it finds the process gone from /proc only
\* after Wait, when the channel is closed.
LEMMA StatusOfInv == ASSUME IInv, TypeOK', NEW a \in Apps, StatusOf(a) PROVE IInv'
<1> DEFINE e == processes[a]
           s == IF entry[e].state = "running" /\ os[entry[e].cmd].st = "none"
                THEN "stopped" ELSE entry[e].state
<1>1. /\ req.pc = "scan" /\ a \in req.todo
      /\ req'.pc = "scan" /\ req'.op = req.op /\ req'.todo = req.todo \ {a}
      /\ req'.app = req.app /\ entry' = [entry EXCEPT ![e].state = s]
      /\ UNCHANGED <<processes, os, mon, mu, shut>>
  BY DEF StatusOf, StateSeen, IInv, TypeOK, Request
<1>2. e # None /\ e \in Entries
  BY <1>1, Pointers DEF IInv, ListenerProgress
<1>3. shut.pc # "exited"
  BY <1>2 DEF IInv, ShutdownProgress
<1>4. s = entry[e].state \/ entry[e].done
  BY <1>2, <1>3 DEF IInv, TrackedObjects, MonitorsOwnObjects
<1> HIDE DEF s
<1>5. /\ MonitorsOwnObjects' /\ ProcessesAreWaitedFor' /\ TrackedObjects' /\ ShutdownProgress'
      /\ \A b \in Apps : processes[b] # None => (Down(b)' <=> Down(b))
  BY <1>1, <1>2, <1>4, StateEffect, Settling DEF IInv
<1>6. MutexHeld'
  BY <1>1 DEF IInv, MutexHeld
<1>7. ListenerProgress'
  BY <1>1, <1>5 DEF IInv, ListenerProgress
<1>8. QED BY <1>5, <1>6, <1>7 DEF IInv

\* Forgetting dead apps: Remove, a failed Deploy, the end of Close.
LEMMA Forgetting ==
  ASSUME IInv, UNCHANGED <<entry, os, mon>>, processes' \in [Apps -> Entries \cup {None}],
         shut.pc # "exited", shut'.pc # "exited",
         \A a \in Apps : \/ processes'[a] = processes[a]
                         \/ processes'[a] = None /\
                            (processes[a] # None => entry[processes[a]].done)
  PROVE  MonitorsOwnObjects' /\ ProcessesAreWaitedFor' /\ TrackedObjects'
<1>1. MonitorsOwnObjects'
  BY DEF IInv, MonitorsOwnObjects
<1>2. ASSUME NEW p \in Pids, Live(p) PROVE StillTracked(mon[p].entry)'
  <2>1. mon[p].pc = "wait" /\ StillTracked(mon[p].entry) /\ mon[p].entry \in Entries
    BY <1>2, Pointers DEF IInv, ProcessesAreWaitedFor, Live
  <2>2. entry[mon[p].entry].app \in Apps /\ ~entry[mon[p].entry].done
    BY <2>1 DEF IInv, MonitorsOwnObjects
  <2>3. QED BY <2>1, <2>2 DEF StillTracked
<1>3. ProcessesAreWaitedFor'
  BY <1>2 DEF IInv, ProcessesAreWaitedFor, Live
<1>4. TrackedObjects'
  BY DEF IInv, TrackedObjects
<1>5. QED BY <1>1, <1>3, <1>4

\* Remove answers, or Deploy fails with its predecessor gone.
LEMMA RemoveEndInv == ASSUME IInv, TypeOK', RemoveEnd \/ DeployFail PROVE IInv'
<1> DEFINE e == processes[req.app]
<1>1. /\ req.op \in {"remove", "deploy"} /\ req'.op = req.op /\ req'.app = req.app
      /\ req'.pc = "reply" /\ mu' = "free" /\ req.pc \in {"lock", "stopping"}
      /\ req.pc = "lock" => mu = "free"
      /\ processes' = [processes EXCEPT ![req.app] = None]
      /\ UNCHANGED <<entry, os, mon, shut>>
  BY DEF RemoveEnd, DeployFail, Unlock, Stopped, Absent, IInv, TypeOK, Request
<1>2. req.app \in Apps
  BY <1>1 DEF IInv, ListenerProgress
<1>3. e # None => entry[e].done
  BY <1>1, <1>2 DEF RemoveEnd, DeployFail, Stopped, Absent
<1>4. \A a \in Apps : processes'[a] = processes[a] \/ (a = req.app /\ processes'[a] = None)
  BY <1>1 DEF IInv, TypeOK
<1>5. e # None => shut.pc # "exited"
  BY <1>2 DEF IInv, ShutdownProgress
<1>6. MutexHeld'
  BY <1>1 DEF IInv, MutexHeld
<1>7. ListenerProgress'
  BY <1>1, <1>2 DEF ListenerProgress, IInv, TypeOK
<1>8. ShutdownProgress'
  BY <1>1, <1>4 DEF IInv, ShutdownProgress, MutexHeld, Down
<1>9. MonitorsOwnObjects' /\ ProcessesAreWaitedFor' /\ TrackedObjects'
  <2>1. CASE shut.pc # "exited"
    BY <1>1, <1>3, <1>4, <2>1, Forgetting DEF TypeOK
  <2>2. CASE shut.pc = "exited"
    <3>1. UNCHANGED processes
      BY <1>1, <1>2, <1>5, <2>2 DEF IInv, TypeOK
    <3>2. QED BY <1>1, <3>1, QuietListener
  <2>3. QED BY <2>1, <2>2
<1>10. QED BY <1>6, <1>7, <1>8, <1>9 DEF IInv

\* Deploy starts a new object e with process p.
LEMMA DeployStartInv ==
  ASSUME IInv, TypeOK', NEW e \in Entries, NEW p \in Pids, DeployStart(e, p)
  PROVE  IInv'
<1> DEFINE a == req.app
<1>1. /\ req.op = "deploy" /\ req'.op = req.op /\ req'.app = a /\ req'.pc = "reply"
      /\ mu' = "free" /\ req.pc \in {"lock", "stopping"}
      /\ req.pc = "lock" => mu = "free"
      /\ shut.pc = "running" /\ UNCHANGED shut
  BY DEF DeployStart, ContextAlive, Unlock, Stopped, Absent, IInv, TypeOK, Request
<1>2. a \in Apps
  BY <1>1 DEF IInv, ListenerProgress
<1>3. processes[a] # None => entry[processes[a]].done
  BY DEF DeployStart, Stopped, Absent
<1>4. /\ ~Tracked(e) /\ ~Monitored(e)
      /\ os[p].st = "none" /\ mon[p].pc = "none"
      /\ \A b \in Apps : processes[b] # None => entry[processes[b]].cmd # p
  BY Pointers DEF DeployStart, Garbage, FreePid, Tracked, IInv
<1>5. /\ processes'[a] = e
      /\ \A b \in Apps : b # a => processes'[b] = processes[b]
      /\ \A b \in Apps : processes[b] # e
  BY <1>2, <1>4 DEF DeployStart, IInv, TypeOK, Tracked
<1>6. /\ entry'[e].app = a /\ entry'[e].cmd = p /\ ~entry'[e].done /\ entry'[e].state = "running"
      /\ \A x \in Entries : x # e => entry'[x] = entry[x]
  BY DEF DeployStart, IInv, TypeOK
<1>7. /\ os'[p].st = "alive" /\ os'[p].app = a
      /\ \A q \in Pids : q # p => os'[q] = os[q]
  BY DEF DeployStart, Started, IInv, TypeOK
<1>8. /\ mon'[p].pc = "wait" /\ mon'[p].entry = e
      /\ \A q \in Pids : q # p => mon'[q] = mon[q]
      /\ \A q \in Pids : mon[q].pc # "none" => mon[q].entry \in Entries /\ mon[q].entry # e
  BY <1>4, Pointers DEF DeployStart, Started, IInv, TypeOK, Monitored
<1> HIDE DEF a
<1>9. MutexHeld'
  BY <1>1 DEF IInv, MutexHeld
<1>10. MonitorsOwnObjects'
  <2> SUFFICES ASSUME NEW q \in Pids, mon'[q].pc # "none"
               PROVE  /\ entry'[mon'[q].entry].app \in Apps
                      /\ mon'[q].pc = "wait" => /\ entry'[mon'[q].entry].cmd = q
                                                /\ ~entry'[mon'[q].entry].done
                                                /\ os'[q].st # "none"
                                                /\ os'[q].app = entry'[mon'[q].entry].app
                      /\ mon'[q].pc # "wait" => entry'[mon'[q].entry].done
                      /\ \A r \in Pids : mon'[r].pc # "none" /\ mon'[r].entry = mon'[q].entry
                                         => r = q
    BY DEF MonitorsOwnObjects
  <2>1. CASE q = p
    BY <1>2, <1>6, <1>7, <1>8, <2>1
  <2>2. CASE q # p
    BY <1>6, <1>7, <1>8, <2>2 DEF IInv, MonitorsOwnObjects
  <2>3. QED BY <2>1, <2>2
<1>11. ProcessesAreWaitedFor'
  <2> SUFFICES ASSUME NEW q \in Pids
               PROVE  /\ os'[q].st # "none" => mon'[q].pc = "wait"
                      /\ Live(q)' => StillTracked(mon[q].entry)'
    BY <1>1 DEF ProcessesAreWaitedFor
  <2>1. CASE q = p
    BY <1>2, <1>4, <1>5, <1>6, <1>8, <2>1 DEF StillTracked, Live
  <2>2. CASE q # p
    <3>1. os'[q].st # "none" => mon'[q].pc = "wait"
      BY <1>1, <1>7, <1>8, <2>2 DEF IInv, ProcessesAreWaitedFor
    <3>2. ASSUME Live(q) PROVE StillTracked(mon[q].entry)'
      <4>1. mon[q].pc = "wait" /\ StillTracked(mon[q].entry) /\ ~entry[mon[q].entry].done
        BY <3>2 DEF IInv, ProcessesAreWaitedFor, MonitorsOwnObjects, Live
      <4>2. mon[q].entry \in Entries /\ mon[q].entry # e /\ entry[mon[q].entry].app \in Apps
        BY <1>8, <4>1 DEF IInv, MonitorsOwnObjects
      <4>3. QED BY <1>3, <1>5, <1>6, <1>8, <2>2, <4>1, <4>2 DEF StillTracked
    <3>3. QED BY <1>7, <2>2, <3>1, <3>2 DEF Live
  <2>3. QED BY <2>1, <2>2
<1>12. TrackedObjects'
  <2> SUFFICES ASSUME NEW b \in Apps, processes'[b] # None
               PROVE  /\ entry'[processes'[b]].app = b
                      /\ entry'[processes'[b]].cmd \in Pids
                      /\ ~entry'[processes'[b]].done =>
                           /\ mon'[entry'[processes'[b]].cmd].pc = "wait"
                           /\ mon'[entry'[processes'[b]].cmd].entry = processes'[b]
                      /\ entry'[processes'[b]].state # "running" => entry'[processes'[b]].done
                      /\ \A c \in Apps : processes'[c] # None
                            /\ entry'[processes'[c]].cmd = entry'[processes'[b]].cmd => c = b
    BY DEF TrackedObjects
  <2>1. ASSUME NEW c \in Apps, c # a, processes'[c] # None
        PROVE  /\ processes'[c] = processes[c] /\ processes[c] \in Entries
               /\ entry'[processes'[c]] = entry[processes[c]]
               /\ entry[processes[c]].cmd # p
    BY <1>4, <1>5, <1>6, <2>1, Pointers DEF IInv
  <2>2. CASE b = a
    BY <1>2, <1>5, <1>6, <1>8, <2>1, <2>2
  <2>3. CASE b # a
    BY <1>5, <1>6, <1>8, <2>1, <2>3 DEF IInv, TrackedObjects
  <2>4. QED BY <2>2, <2>3
<1>13. ListenerProgress'
  BY <1>1, <1>2 DEF ListenerProgress, a
<1>14. ShutdownProgress'
  BY <1>1 DEF ShutdownProgress
<1>15. QED BY <1>9, <1>10, <1>11, <1>12, <1>13, <1>14 DEF IInv

\* Wait reaps the process of the monitor that waits, and closes its channel.
LEMMA WaitReturnsInv == ASSUME IInv, TypeOK', NEW p \in Pids, WaitReturns(p) PROVE IInv'
<1> DEFINE e == mon[p].entry
<1>1. /\ mon[p].pc = "wait" /\ e \in Entries /\ entry[e].cmd = p
      /\ UNCHANGED <<processes, mu, req, shut>>
  BY Pointers DEF WaitReturns, IInv, MonitorsOwnObjects
<1>2. /\ mon'[p].pc = "exited" /\ mon'[p].entry = e
      /\ \A q \in Pids : q # p => mon'[q] = mon[q]
  BY <1>1 DEF WaitReturns, IInv, TypeOK, Monitor, NoMonitor
<1>3. /\ os'[p].st = "none"
      /\ \A q \in Pids : q # p => os'[q] = os[q]
  BY <1>1 DEF WaitReturns, NoProcess, IInv, TypeOK
<1>4. ASSUME NEW x \in Entries
      PROVE  /\ entry'[x].app = entry[x].app
             /\ entry'[x].cmd = entry[x].cmd
             /\ entry'[x].state = entry[x].state
             /\ entry'[x].stopping <=> entry[x].stopping
             /\ entry'[x].done <=> (entry[x].done \/ x = e)
  BY DEF WaitReturns, IInv, TypeOK, Entry
<1> HIDE DEF e
<1>5. MutexHeld'
  BY <1>1 DEF IInv, MutexHeld
<1>6. MonitorsOwnObjects'
  BY <1>1, <1>2, <1>3, <1>4, Pointers DEF IInv, MonitorsOwnObjects, e
<1>7. ProcessesAreWaitedFor'
  BY <1>1, <1>2, <1>3, <1>4, Pointers DEF IInv, ProcessesAreWaitedFor, StillTracked, Live
<1>8. TrackedObjects'
  BY <1>1, <1>2, <1>4, Pointers DEF IInv, TrackedObjects, e
<1>9. \A a \in Apps : processes[a] # None /\ Down(a) => Down(a)'
  BY <1>1, <1>4, Pointers DEF IInv, Down
<1>10. ListenerProgress'
  BY <1>1, <1>4, <1>9, Pointers DEF IInv, ListenerProgress
<1>11. ShutdownProgress'
  BY <1>1, <1>4, <1>9, Pointers DEF IInv, ShutdownProgress, TypeOK, Shutdown
<1>12. QED BY <1>5, <1>6, <1>7, <1>8, <1>10, <1>11 DEF IInv

\* A monitor that has been through Wait abandons, settles, gives up, counts a
\* restart, or fails to restart.
LEMMA AfterWaitInv ==
  ASSUME IInv, TypeOK', NEW p \in Pids,
         \/ MonitorAbandons(p) \/ MonitorSettles(p) \/ MonitorGivesUp(p)
         \/ MonitorBacksOff(p) \/ WakeAbandons(p) \/ WakeFails(p)
  PROVE  IInv'
<1> DEFINE e == mon[p].entry
<1>1. mon[p].pc \in {"exited", "backoff"} /\ UNCHANGED <<processes, os, mu, req, shut>>
  BY DEF MonitorAbandons, MonitorSettles, MonitorGivesUp, MonitorBacksOff, Restartable,
         WakeAbandons, WakeFails
<1>2. e \in Entries /\ entry[e].done
  BY <1>1, Pointers DEF IInv, MonitorsOwnObjects
<1>3. ASSUME NEW x \in Entries
      PROVE  /\ entry'[x].app = entry[x].app
             /\ entry'[x].cmd = entry[x].cmd
             /\ entry'[x].done <=> entry[x].done
             /\ entry'[x].stopping <=> entry[x].stopping
             /\ entry'[x].state # "running" => entry[x].done \/ entry[x].state # "running"
  <2>1. CASE MonitorAbandons(p) \/ WakeAbandons(p)
    BY <2>1 DEF MonitorAbandons, WakeAbandons
  <2>2. CASE MonitorSettles(p) \/ MonitorGivesUp(p) \/ WakeFails(p)
    <3>1. \E s : entry' = [entry EXCEPT ![e].state = s]
      BY <2>2 DEF MonitorSettles, MonitorGivesUp, WakeFails
    <3>2. QED BY <1>2, <3>1, StateEffect DEF IInv
  <2>3. CASE MonitorBacksOff(p)
    BY <2>3 DEF MonitorBacksOff, IInv, TypeOK, Entry
  <2>4. QED BY <2>1, <2>2, <2>3
<1>4. ASSUME NEW q \in Pids
      PROVE  \/ mon'[q] = mon[q]
             \/ /\ mon[q].pc \in {"exited", "backoff"}
                /\ \/ mon'[q].pc = "none"
                   \/ /\ mon'[q].pc \in {"exited", "backoff"}
                      /\ mon'[q].entry = mon[q].entry
  <2>1. CASE MonitorBacksOff(p)
    BY <1>1, <2>1 DEF MonitorBacksOff, IInv, TypeOK, Monitor, NoMonitor
  <2>2. CASE ~MonitorBacksOff(p)
    <3>1. mon' = [mon EXCEPT ![p] = NoMonitor]
      BY <2>2 DEF MonitorAbandons, MonitorSettles, MonitorGivesUp, WakeAbandons, WakeFails
    <3>2. QED BY <1>1, <3>1 DEF NoMonitor, IInv, TypeOK
  <2>3. QED BY <2>1, <2>2
<1> HIDE DEF e
<1>5. /\ MonitorsOwnObjects' /\ ProcessesAreWaitedFor' /\ TrackedObjects' /\ ShutdownProgress'
      /\ \A a \in Apps : processes[a] # None => (Down(a)' <=> Down(a))
  BY <1>1, <1>3, <1>4, Settling
<1>6. MutexHeld'
  BY <1>1 DEF IInv, MutexHeld
<1>7. ListenerProgress'
  BY <1>1, <1>3, <1>5, Pointers DEF IInv, ListenerProgress
<1>8. QED BY <1>5, <1>6, <1>7 DEF IInv

\* restartProcess: the object is tracked, its app is not being stopped, and its
\* old process is gone, so the new one is the only one.
LEMMA WakeRestartsInv ==
  ASSUME IInv, TypeOK', NEW p \in Pids, NEW q \in Pids, WakeRestarts(p, q)
  PROVE  IInv'
<1> DEFINE e == mon[p].entry
           a == entry[e].app
<1>1. /\ mon[p].pc = "backoff" /\ mu = "free" /\ UNCHANGED <<processes, mu, req, shut>>
      /\ os[q].st = "none" /\ mon[q].pc = "none" /\ p # q
  BY DEF WakeRestarts, FreePid
<1>2. /\ e \in Entries /\ a \in Apps /\ processes[a] = e /\ e # None
      /\ entry[e].done /\ ~entry[e].stopping
  BY SMTT(30), <1>1, Pointers DEF WakeRestarts, MayRestart, StillTracked, IInv, MonitorsOwnObjects
<1>3. \A b \in Apps : processes[b] # None =>
         /\ processes[b] \in Entries /\ entry[processes[b]].cmd # q
         /\ entry[processes[b]].app = b
         /\ b # a => processes[b] # e
  BY SMTT(30), <1>2, Pointers DEF WakeRestarts, FreePid, Garbage, Tracked, IInv, TrackedObjects
<1>4. /\ entry'[e].app = a /\ entry'[e].cmd = q /\ ~entry'[e].done
      /\ entry'[e].state = "running" /\ ~entry'[e].stopping
      /\ \A x \in Entries : x # e => entry'[x] = entry[x]
  BY <1>2 DEF WakeRestarts, IInv, TypeOK, Entry
<1>5. /\ os'[q].st = "alive" /\ os'[q].app = a
      /\ \A r \in Pids : r # q => os'[r] = os[r]
  BY DEF WakeRestarts, Started, IInv, TypeOK
<1>6. /\ mon'[q].pc = "wait" /\ mon'[q].entry = e /\ mon'[p].pc = "none"
      /\ \A r \in Pids : r # q /\ r # p => mon'[r] = mon[r]
      /\ \A r \in Pids : mon[r].pc # "none" => mon[r].entry \in Entries
      /\ \A r \in Pids : mon[r].pc # "none" /\ r # p => mon[r].entry # e
  <2>1. \A r \in Pids : mon[r].pc # "none" /\ r # p => mon[r].entry # e
    BY <1>1 DEF IInv, MonitorsOwnObjects
  <2>2. QED BY <1>1, <2>1, Pointers DEF WakeRestarts, Started, NoMonitor, IInv, TypeOK
<1>7. shut.pc \notin {"closed", "exited"}
  BY <1>2 DEF IInv, ShutdownProgress
<1>8. shut.pc # "closing"
  BY <1>1 DEF IInv, MutexHeld
<1> HIDE DEF e, a
<1>9. MutexHeld' /\ ShutdownProgress'
  BY <1>1, <1>7, <1>8 DEF IInv, MutexHeld, ShutdownProgress
<1>10. MonitorsOwnObjects'
  <2> SUFFICES ASSUME NEW r \in Pids, mon'[r].pc # "none"
               PROVE  /\ entry'[mon'[r].entry].app \in Apps
                      /\ mon'[r].pc = "wait" => /\ entry'[mon'[r].entry].cmd = r
                                                /\ ~entry'[mon'[r].entry].done
                                                /\ os'[r].st # "none"
                                                /\ os'[r].app = entry'[mon'[r].entry].app
                      /\ mon'[r].pc # "wait" => entry'[mon'[r].entry].done
                      /\ \A t \in Pids : mon'[t].pc # "none" /\ mon'[t].entry = mon'[r].entry
                                         => t = r
    BY DEF MonitorsOwnObjects
  <2>1. CASE r = q
    BY <1>2, <1>4, <1>5, <1>6, <2>1
  <2>2. CASE r # q
    BY <1>4, <1>5, <1>6, <2>2 DEF IInv, MonitorsOwnObjects
  <2>3. QED BY <2>1, <2>2
<1>11. ProcessesAreWaitedFor'
  <2> SUFFICES ASSUME NEW r \in Pids
               PROVE  /\ os'[r].st # "none" => mon'[r].pc = "wait"
                      /\ Live(r)' => StillTracked(mon[r].entry)'
    BY <1>1, <1>7 DEF ProcessesAreWaitedFor
  <2>1. CASE r = q
    BY <1>1, <1>2, <1>4, <1>6, <2>1 DEF StillTracked
  <2>2. CASE r # q
    <3>1. os'[r].st # "none" => mon'[r].pc = "wait" /\ mon[r].pc = "wait" /\ r # p
      BY <1>1, <1>5, <1>6, <1>7, <2>2 DEF IInv, ProcessesAreWaitedFor
    <3>2. ASSUME Live(r)' PROVE StillTracked(mon[r].entry)'
      <4>1. Live(r) /\ StillTracked(mon[r].entry) /\ r # p /\ mon[r].pc = "wait"
        BY <1>5, <2>2, <3>1, <3>2 DEF IInv, ProcessesAreWaitedFor, Live
      <4>2. QED BY <1>1, <1>4, <1>6, <2>2, <4>1 DEF StillTracked
    <3>3. QED BY <3>1, <3>2
  <2>3. QED BY <2>1, <2>2
<1>12. TrackedObjects'
  <2> SUFFICES ASSUME NEW b \in Apps, processes[b] # None
               PROVE  /\ entry'[processes[b]].app = b
                      /\ entry'[processes[b]].cmd \in Pids
                      /\ ~entry'[processes[b]].done =>
                           /\ mon'[entry'[processes[b]].cmd].pc = "wait"
                           /\ mon'[entry'[processes[b]].cmd].entry = processes[b]
                      /\ entry'[processes[b]].state # "running" => entry'[processes[b]].done
                      /\ \A c \in Apps : processes[c] # None
                            /\ entry'[processes[c]].cmd = entry'[processes[b]].cmd => c = b
    BY <1>1 DEF TrackedObjects
  <2>1. CASE b = a
    BY <1>2, <1>3, <1>4, <1>6, <2>1
  <2>2. CASE b # a
    BY <1>1, <1>2, <1>3, <1>4, <1>6, <2>2 DEF IInv, TrackedObjects
  <2>3. QED BY <2>1, <2>2
<1>13. ListenerProgress'
  BY <1>1, <1>2, <1>3, <1>4 DEF IInv, ListenerProgress, MutexHeld, Down
<1>14. QED BY <1>9, <1>10, <1>11, <1>12, <1>13 DEF IInv

\* The kernel ends or kills a process, or a stop loses its patience.
LEMMA ProcessEndsInv ==
  ASSUME IInv, TypeOK',
         \/ \E p \in Pids : ProcessEnds(p) \/ ContextKills(p)
         \/ StopTimeout \/ CloseTimeout
  PROVE  IInv'
<1>1. UNCHANGED <<processes, entry, mon, mu, req, shut>>
  BY DEF ProcessEnds, ContextKills, StopTimeout, CloseTimeout
<1>2. ASSUME NEW q \in Pids
      PROVE  /\ os'[q].app = os[q].app
             /\ os'[q].st # "none" <=> os[q].st # "none"
             /\ Live(q)' => Live(q)
  <2>1. ASSUME NEW p \in Pids, ProcessEnds(p)
        PROVE  /\ os'[q].app = os[q].app
               /\ os'[q].st # "none" <=> os[q].st # "none"
               /\ Live(q)' => Live(q)
    BY <2>1 DEF ProcessEnds, Live, IInv, TypeOK, Process
  <2>2. ASSUME NEW p, SigKill(p)
        PROVE  /\ os'[q].app = os[q].app
               /\ os'[q].st # "none" <=> os[q].st # "none"
               /\ Live(q)' => Live(q)
    BY <2>2, SignalEffect DEF IInv
  <2>3. QED BY <2>1, <2>2 DEF ContextKills, StopTimeout, CloseTimeout
<1>3. QED BY <1>1, <1>2, KernelInv

\* The shutdown cancels the context, takes the mutex, or has stopped one object.
LEMMA CloseProgressInv ==
  ASSUME IInv, TypeOK', Cancel \/ CloseBegin \/ CloseStopped
  PROVE  IInv'
<1>1. UNCHANGED <<processes, entry, os, mon, req>>
  BY DEF Cancel, CloseBegin, CloseStopped
<1>2. shut.pc # "exited" /\ shut'.pc # "exited"
  <2>1. CASE Cancel \/ CloseBegin
    BY <2>1 DEF Cancel, CloseBegin, IInv, TypeOK, Shutdown
  <2>2. CASE CloseStopped
    BY <2>2 DEF CloseStopped, IInv, TypeOK, Shutdown
  <2>3. QED BY <2>1, <2>2
<1>3. MonitorsOwnObjects' /\ ProcessesAreWaitedFor' /\ TrackedObjects' /\ ListenerProgress'
  <2>1. MonitorsOwnObjects'
    BY <1>1 DEF IInv, MonitorsOwnObjects
  <2>2. ProcessesAreWaitedFor'
    BY <1>1, <1>2 DEF IInv, ProcessesAreWaitedFor, StillTracked, Live
  <2>3. TrackedObjects'
    BY <1>1 DEF IInv, TrackedObjects
  <2>4. ListenerProgress'
    BY <1>1 DEF IInv, ListenerProgress, Down
  <2>5. QED BY <2>1, <2>2, <2>3, <2>4
<1>4. MutexHeld' /\ ShutdownProgress'
  <2>1. CASE Cancel
    BY <2>1 DEF Cancel, IInv, TypeOK, Shutdown, MutexHeld, ShutdownProgress
  <2>2. CASE CloseBegin
    BY <1>1, <2>2 DEF CloseBegin, IInv, MutexHeld, ShutdownProgress
  <2>3. CASE CloseStopped
    <3>1. /\ shut.pc = "closing" /\ shut'.pc = "closing" /\ shut.cur # None /\ shut'.cur = None
          /\ shut'.todo = shut.todo \ {shut.cur} /\ mu' = mu
          /\ entry[processes[shut.cur]].done
      BY <2>3 DEF CloseStopped, IInv, TypeOK, Shutdown
    <3>2. MutexHeld'
      BY <1>1, <3>1 DEF IInv, MutexHeld
    <3>3. ShutdownProgress'
      BY <1>1, <3>1 DEF IInv, ShutdownProgress, Down
    <3>4. QED BY <3>2, <3>3
  <2>4. QED BY <2>1, <2>2, <2>3
<1>5. QED BY <1>3, <1>4 DEF IInv

\* Close begins to stop one object.
LEMMA CloseStopsInv == ASSUME IInv, TypeOK', NEW a \in Apps, CloseStops(a) PROVE IInv'
<1> DEFINE e == processes[a]
<1>1. /\ shut.pc = "closing" /\ shut'.pc = "closing" /\ a \in shut.todo
      /\ shut'.todo = shut.todo /\ shut'.cur = a
      /\ entry' = [entry EXCEPT ![e].stopping = TRUE] /\ SigTerm(entry[e].cmd)
      /\ UNCHANGED <<processes, mon, mu, req>>
  BY DEF CloseStops, IInv, TypeOK, Shutdown
<1>2. e # None /\ e \in Entries
  BY <1>1, Pointers DEF IInv, ShutdownProgress
<1> HIDE DEF e
<1>3. /\ \A x \in Entries : /\ entry'[x].done = entry[x].done
                            /\ entry'[x].stopping <=> (entry[x].stopping \/ x = e)
      /\ MonitorsOwnObjects' /\ ProcessesAreWaitedFor' /\ TrackedObjects'
  BY <1>1, <1>2, MarkStopping
<1>4. MutexHeld'
  BY <1>1 DEF IInv, MutexHeld
<1>5. ListenerProgress'
  BY <1>1, <1>3, Pointers DEF IInv, ListenerProgress, Down
<1>6. ShutdownProgress'
  BY <1>1, <1>2, <1>3, Pointers DEF IInv, ShutdownProgress, Down, e
<1>7. QED BY <1>3, <1>4, <1>5, <1>6 DEF IInv

\* Close forgets every object: each of them is down.
LEMMA CloseEndInv == ASSUME IInv, TypeOK', CloseEnd PROVE IInv'
<1>1. /\ shut.pc = "closing" /\ shut'.pc = "closed" /\ shut.todo = {} /\ mu' = "free"
      /\ processes' = [a \in Apps |-> None] /\ UNCHANGED <<entry, os, mon, req>>
  BY DEF CloseEnd, IInv, TypeOK, Shutdown
<1>2. \A a \in Apps : processes[a] # None => Down(a)
  BY <1>1 DEF IInv, ShutdownProgress
<1>3. MonitorsOwnObjects' /\ ProcessesAreWaitedFor' /\ TrackedObjects'
  BY <1>1, <1>2, Forgetting DEF Down, TypeOK
<1>4. MutexHeld' /\ ListenerProgress' /\ ShutdownProgress'
  BY <1>1 DEF IInv, MutexHeld, ListenerProgress, ShutdownProgress
<1>5. QED BY <1>3, <1>4 DEF IInv

\* The program ends with nothing tracked, so nothing lives.
LEMMA ProgramExitsInv == ASSUME IInv, TypeOK', ProgramExits PROVE IInv'
<1>1. /\ shut.pc = "closed" /\ shut'.pc = "exited" /\ mu' = "free" /\ req'.pc = "idle"
      /\ \A p \in Pids : mon'[p].pc = "none"
      /\ UNCHANGED <<processes, entry, os>>
  BY DEF ProgramExits, IInv, TypeOK, Shutdown, NoMonitor, IdleReq
<1>2. \A a \in Apps : processes[a] = None
  BY <1>1 DEF IInv, ShutdownProgress
<1>3. \A p \in Pids : ~Live(p)
  BY <1>1, <1>2, Pointers DEF IInv, ProcessesAreWaitedFor, MonitorsOwnObjects, StillTracked, Live
<1>4. ProcessesAreWaitedFor'
  BY <1>1, <1>3 DEF ProcessesAreWaitedFor, Live
<1>5. MonitorsOwnObjects' /\ TrackedObjects' /\ ListenerProgress' /\ ShutdownProgress'
  BY <1>1, <1>2 DEF MonitorsOwnObjects, TrackedObjects, ListenerProgress, ShutdownProgress
<1>6. MutexHeld'
  BY <1>1 DEF IInv, MutexHeld
<1>7. QED BY <1>4, <1>5, <1>6 DEF IInv

\* Nothing happens.
LEMMA StutterInv == ASSUME IInv, TypeOK', UNCHANGED vars PROVE IInv'
<1>1. UNCHANGED <<processes, entry, os, mon, mu, req, shut>>
  BY DEF vars
<1>2. \A q \in Pids : /\ os'[q].app = os[q].app
                      /\ os'[q].st # "none" <=> os[q].st # "none"
                      /\ Live(q)' => Live(q)
  BY <1>1 DEF Live
<1>3. QED BY <1>1, <1>2, KernelInv

\* Every step preserves the invariant.
LEMMA IInvStep == IInv /\ [Next]_vars => IInv'
<1> SUFFICES ASSUME IInv, [Next]_vars PROVE IInv'
  OBVIOUS
<1>1. TypeOK'
  BY TypeStep DEF IInv
<1>2. CASE Listener
  BY <1>1, <1>2, ReceiveInv, RespondInv, StopBeginInv, ProcessEndsInv, StopEndInv, RemoveEndInv,
     DeployStartInv, StatusInv, StatusOfInv DEF Listener
<1>3. ASSUME NEW p \in Pids, MonitorStep(p) PROVE IInv'
  BY <1>1, <1>3, WaitReturnsInv, AfterWaitInv, WakeRestartsInv DEF MonitorStep
<1>4. ASSUME NEW p \in Pids, ProcessEnds(p) \/ ContextKills(p) PROVE IInv'
  BY <1>1, <1>4, ProcessEndsInv
<1>5. CASE Cancel \/ ShutdownStep
  BY <1>1, <1>5, CloseProgressInv, CloseStopsInv, ProcessEndsInv, CloseEndInv, ProgramExitsInv
     DEF ShutdownStep
<1>6. CASE UNCHANGED vars
  BY <1>1, <1>6, StutterInv
<1>7. QED BY <1>2, <1>3, <1>4, <1>5, <1>6 DEF Next, Gone

\* The ownership of objects, processes and the mutex that process.go relies on
\* holds in every reachable state.
THEOREM Invariant == Spec => []IInv
  BY InitInv, IInvStep, PTL DEF Spec
-----------------------------------------------------------------------------
(* The properties.                                                           *)

\* A live process belongs to the monitor that waits for it, whose object is
\* tracked; that makes it reachable for Stop, Remove and Close.
LEMMA LiveBelongs ==
  ASSUME IInv, NEW p \in Pids, Live(p)
  PROVE  /\ shut.pc \notin {"closed", "exited"}
         /\ os[p].app \in Apps
         /\ processes[os[p].app] \in Entries
         /\ entry[processes[os[p].app]].cmd = p
         /\ ~entry[processes[os[p].app]].done
<1>1. mon[p].pc = "wait" /\ StillTracked(mon[p].entry) /\ shut.pc # "exited"
  BY DEF IInv, ProcessesAreWaitedFor, Live
<1>2. /\ mon[p].entry \in Entries /\ entry[mon[p].entry].app \in Apps
      /\ entry[mon[p].entry].cmd = p /\ ~entry[mon[p].entry].done
      /\ os[p].app = entry[mon[p].entry].app
  BY <1>1, Pointers DEF IInv, MonitorsOwnObjects
<1>3. processes[os[p].app] = mon[p].entry
  BY <1>1, <1>2 DEF StillTracked
<1>4. QED BY <1>1, <1>2, <1>3 DEF IInv, ShutdownProgress

\* Stop, Remove and Close can reach everything that runs (process.go).
THEOREM LiveIsAlwaysTracked == Spec => []LiveIsTracked
<1>1. IInv => LiveIsTracked
  BY LiveBelongs DEF LiveIsTracked
<1>2. QED BY <1>1, Invariant, PTL

\* No app runs twice, whatever deployments and automatic restarts overlap
\* (process.go: Deploy, monitorProcess, restartProcess).
THEOREM NeverTwice == Spec => []OneProcessPerApp
<1>1. IInv => OneProcessPerApp
  BY LiveBelongs DEF OneProcessPerApp
<1>2. QED BY <1>1, Invariant, PTL

\* Once Stop or Remove has answered nothing of the app runs or comes back
\* until the next command (process.go: Stop, Remove, monitorProcess).
THEOREM StopIsEffective == Spec => []AnsweredStopIsEffective
<1>1. IInv => AnsweredStopIsEffective
  BY LiveBelongs DEF AnsweredStopIsEffective, IInv, ListenerProgress, Down
<1>2. QED BY <1>1, Invariant, PTL

\* Close leaves no process behind, although commands go on being executed
\* while it runs and after it (init.go: Shutdown).
THEOREM CloseIsComplete == Spec => []NothingLeftBehind
<1>1. IInv => NothingLeftBehind
  BY LiveBelongs DEF NothingLeftBehind
<1>2. QED BY <1>1, Invariant, PTL

\* No channel is closed twice: close(proc.done) never panics (process.go:303).
THEOREM NoDoubleClose == Spec => []DoneClosedOnce
<1>1. IInv => DoneClosedOnce
  BY DEF IInv, MonitorsOwnObjects, DoneClosedOnce
<1>2. QED BY <1>1, Invariant, PTL

\* What GetStatus calls stopped or failed does not run (process.go: GetStatus).
THEOREM StatusIsHonest == Spec => []DownMeansDead
<1>1. IInv => DownMeansDead
  <2> SUFFICES ASSUME IInv, NEW a \in Apps, processes[a] # None,
                      entry[processes[a]].state # "running", entry[processes[a]].cmd # None,
                      Live(entry[processes[a]].cmd)
               PROVE  FALSE
    BY DEF DownMeansDead
  <2> DEFINE p == entry[processes[a]].cmd
  <2>1. p \in Pids /\ entry[processes[a]].done
    BY DEF IInv, TrackedObjects
  <2>2. /\ os[p].app \in Apps /\ processes[os[p].app] # None
        /\ entry[processes[os[p].app]].cmd = p /\ ~entry[processes[os[p].app]].done
    BY <2>1, LiveBelongs
  <2>3. \A b \in Apps : processes[b] # None /\ entry[processes[b]].cmd = p => b = a
    BY DEF IInv, TrackedObjects
  <2>4. os[p].app = a
    BY <2>2, <2>3
  <2>5. QED BY <2>1, <2>2, <2>4
<1>2. QED BY <1>1, Invariant, PTL

\* The counter of restarts changes by one, below the budget, or is reset.
LEMMA BudgetStep == TypeOK /\ RestartBudget /\ [Next]_vars => RestartBudget'
<1> SUFFICES ASSUME TypeOK, RestartBudget, [Next]_vars, NEW e \in Entries
             PROVE  entry'[e].restarts <= MaxRestarts
  BY DEF RestartBudget
<1>1. entry[e] \in Entry /\ entry[e].restarts <= MaxRestarts
  BY DEF TypeOK, RestartBudget
<1>2. CASE Listener
  <2>1. \/ UNCHANGED entry
        \/ \E x : entry' = [entry EXCEPT ![x].stopping = TRUE]
        \/ \E x, s : entry' = [entry EXCEPT ![x].state = s]
        \/ \E x \in Entries, p \in Pids : DeployStart(x, p)
    BY <1>2 DEF Listener, Receive, Respond, DeployRefused, StopBegin, StopTimeout, StopEnd, RemoveEnd,
       DeployFail, StatusBegin, StatusEnd, StatusOf
  <2>2. CASE UNCHANGED entry \/ \E x : entry' = [entry EXCEPT ![x].stopping = TRUE]
    BY <1>1, <2>2 DEF TypeOK, Entry
  <2>3. CASE \E x, s : entry' = [entry EXCEPT ![x].state = s]
    BY <1>1, <2>3 DEF TypeOK, Entry
  <2>4. ASSUME NEW x \in Entries, NEW p \in Pids, DeployStart(x, p)
        PROVE  entry'[e].restarts <= MaxRestarts
    BY <1>1, <2>4 DEF TypeOK, DeployStart
  <2>5. QED BY <2>1, <2>2, <2>3, <2>4
<1>3. ASSUME NEW p \in Pids, MonitorStep(p) PROVE entry'[e].restarts <= MaxRestarts
  <2>1. CASE MonitorBacksOff(p)
    BY <1>1, <2>1 DEF TypeOK, MonitorBacksOff, Spent, Entry
  <2>2. ASSUME NEW q \in Pids, WakeRestarts(p, q) PROVE entry'[e].restarts <= MaxRestarts
    BY <1>1, <2>2 DEF TypeOK, WakeRestarts, Entry
  <2>3. CASE MonitorSettles(p) \/ MonitorGivesUp(p) \/ WakeFails(p)
    BY <1>1, <2>3 DEF TypeOK, MonitorSettles, MonitorGivesUp, WakeFails, Entry
  <2>4. CASE WaitReturns(p) \/ MonitorAbandons(p) \/ WakeAbandons(p)
    BY <1>1, <2>4 DEF TypeOK, WaitReturns, MonitorAbandons, WakeAbandons, Entry
  <2>5. QED BY <1>3, <2>1, <2>2, <2>3, <2>4 DEF MonitorStep
<1>4. CASE \/ \E p \in Pids : ProcessEnds(p) \/ ContextKills(p)
           \/ Cancel \/ ShutdownStep \/ UNCHANGED vars
  <2>1. UNCHANGED entry \/ \E x, a : entry' = [entry EXCEPT ![x].stopping = a]
    BY <1>4 DEF ProcessEnds, ContextKills, Cancel, ShutdownStep, CloseBegin, CloseTimeout,
       CloseStopped, CloseEnd, CloseStops, ProgramExits, vars
  <2>2. QED BY <1>1, <2>1 DEF TypeOK, Entry
<1>5. QED BY <1>2, <1>3, <1>4 DEF Next, Gone

\* No object is restarted beyond maxRestarts (process.go:345).
THEOREM BudgetIsKept == Spec => []RestartBudget
<1>1. Init => RestartBudget
  BY DEF Init, RestartBudget, BlankEntry
<1>2. QED BY <1>1, BudgetStep, TypeCorrect, PTL DEF Spec
-----------------------------------------------------------------------------
(* Implementation of AppSupervision.                                         *)

\* A step that changes neither what is tracked and stopping nor who lives is
\* a stuttering step of AppSupervision.
LEMMA Unseen ==
  ASSUME TypeOK, UNCHANGED processes,
         \A x \in Entries : entry'[x].stopping <=> entry[x].stopping,
         \A q \in Pids : (Live(q)' <=> Live(q)) /\ (Live(q) => os'[q].app = os[q].app)
  PROVE  UNCHANGED <<Want, Running>>
<1>1. UNCHANGED Want
  BY Pointers DEF Want
<1>2. UNCHANGED Running
  BY DEF Running
<1>3. QED BY <1>1, <1>2

\* Signals leave the living alive.
LEMMA SignalSpares ==
  ASSUME TypeOK, NEW p, SigTerm(p) \/ SigKill(p), NEW q \in Pids
  PROVE  (Live(q)' <=> Live(q)) /\ os'[q].app = os[q].app
<1>1. CASE SigTerm(p)
  BY <1>1 DEF TypeOK, Process, SigTerm, Live
<1>2. CASE SigKill(p)
  BY <1>2 DEF TypeOK, Process, SigKill, Live
<1>3. QED BY <1>1, <1>2

\* An app whose channel is closed, or that is not tracked, has no live process.
LEMMA DoneMeansDead ==
  ASSUME IInv, NEW a \in Apps, processes[a] # None => entry[processes[a]].done
  PROVE  Running[a] = {}
  BY LiveBelongs DEF Running

\* Marking an object is an order, or repeats one.
LEMMA OrderStep ==
  ASSUME IInv, NEW a \in Apps, processes[a] # None,
         entry' = [entry EXCEPT ![processes[a]].stopping = TRUE],
         UNCHANGED processes, NEW p, SigTerm(p)
  PROVE  Supervision!OrderDown(a) \/ UNCHANGED <<Want, Running>>
<1>1. \A q \in Pids : (Live(q)' <=> Live(q)) /\ os'[q].app = os[q].app
  BY SignalSpares DEF IInv
<1>2. \A x \in Entries : entry'[x].stopping <=> (entry[x].stopping \/ x = processes[a])
  BY DEF IInv, TypeOK, Entry
<1>3. UNCHANGED Running
  BY <1>1 DEF Running
<1>4. \A b \in Apps : processes[b] # None /\ processes[b] = processes[a] => b = a
  BY DEF IInv, TrackedObjects
<1>5. CASE entry[processes[a]].stopping
  BY <1>1, <1>2, <1>5, Unseen DEF IInv
<1>6. CASE ~entry[processes[a]].stopping
  <2>1. Want[a] = "run"
    BY <1>6 DEF Want
  <2>2. Want' = [Want EXCEPT ![a] = "down"]
    BY <1>2, <1>4, Pointers DEF Want, IInv
  <2>3. QED BY <1>3, <2>1, <2>2 DEF Supervision!OrderDown
<1>7. QED BY <1>5, <1>6

\* Objects that are down are forgotten together.
LEMMA ForgetStep ==
  ASSUME IInv, NEW S \in SUBSET Apps, UNCHANGED <<entry, os>>,
         \A a \in S : processes[a] # None => Down(a),
         processes' = [a \in Apps |-> IF a \in S THEN None ELSE processes[a]]
  PROVE  Supervision!Next \/ UNCHANGED <<Want, Running>>
<1> DEFINE T == {a \in S : processes[a] # None}
<1>1. UNCHANGED Running
  BY DEF Running, Live
<1>2. \A a \in T : Want[a] = "down" /\ Running[a] = {}
  BY DoneMeansDead DEF Want, Down
<1>3. Want' = [a \in Apps |-> IF a \in T THEN "absent" ELSE Want[a]]
  BY DEF Want
<1>4. CASE T = {}
  BY <1>1, <1>3, <1>4 DEF Want
<1>5. CASE T # {}
  <2>1. T \in SUBSET Apps
    OBVIOUS
  <2> HIDE DEF T
  <2>2. Supervision!Forget(T)
    BY <1>1, <1>2, <1>3, <1>5 DEF Supervision!Forget
  <2>3. QED BY <2>1, <2>2 DEF Supervision!Next
<1>6. QED BY <1>4, <1>5

\* A deployment's start is a launch.
LEMMA LaunchStep ==
  ASSUME IInv, NEW e \in Entries, NEW p \in Pids, DeployStart(e, p)
  PROVE  \E a \in Apps : Supervision!Launch(a, p)
<1> DEFINE a == req.app
<1>1. a \in Apps /\ (processes[a] # None => Down(a))
  BY DEF DeployStart, Stopped, Absent, IInv, ListenerProgress, Down
<1>2. Running[a] = {} /\ Want[a] # "run"
  BY <1>1, DoneMeansDead DEF Want, Down
<1>3. /\ ~Tracked(e) /\ ~Live(p)
      /\ processes' = [processes EXCEPT ![a] = e]
      /\ ~entry'[e].stopping
      /\ \A x \in Entries : x # e => entry'[x] = entry[x]
      /\ Live(p)' /\ os'[p].app = a
      /\ \A q \in Pids : q # p => os'[q] = os[q]
  BY DEF DeployStart, Started, Garbage, FreePid, Live, IInv, TypeOK
<1> HIDE DEF a
<1>4. Want' = [Want EXCEPT ![a] = "run"]
  BY <1>1, <1>3, Pointers DEF Want, Tracked, IInv, TypeOK
<1>5. Running' = [Running EXCEPT ![a] = {p}]
  <2>1. \A b \in Apps : Running'[b] = IF b = a THEN {p} ELSE Running[b]
    BY <1>1, <1>2, <1>3 DEF Running, Live
  <2>2. QED BY <2>1 DEF Running
<1>6. QED BY <1>1, <1>2, <1>4, <1>5 DEF Supervision!Launch

\* A monitor's restart is a relaunch.
LEMMA RelaunchStep ==
  ASSUME IInv, NEW p \in Pids, NEW q \in Pids, WakeRestarts(p, q)
  PROVE  \E a \in Apps : Supervision!Relaunch(a, q)
<1> DEFINE e == mon[p].entry
           a == entry[e].app
<1>1. /\ e \in Entries /\ a \in Apps /\ processes[a] = e /\ e # None
      /\ entry[e].done /\ ~entry[e].stopping
  BY SMTT(30), Pointers DEF WakeRestarts, MayRestart, StillTracked, IInv, MonitorsOwnObjects
<1>2. Running[a] = {} /\ Want[a] = "run"
  BY <1>1, DoneMeansDead DEF Want
<1>3. /\ ~Live(q) /\ Live(q)' /\ os'[q].app = a
      /\ \A r \in Pids : r # q => os'[r] = os[r]
      /\ \A x \in Entries : entry'[x].stopping <=> entry[x].stopping
      /\ UNCHANGED processes
  BY DEF WakeRestarts, Started, FreePid, Live, IInv, TypeOK, Entry
<1> HIDE DEF e, a
<1>4. UNCHANGED Want
  BY <1>3, Pointers DEF Want, IInv
<1>5. Running' = [Running EXCEPT ![a] = {q}]
  <2>1. \A b \in Apps : Running'[b] = IF b = a THEN {q} ELSE Running[b]
    BY <1>1, <1>2, <1>3 DEF Running, Live
  <2>2. QED BY <2>1 DEF Running
<1>6. QED BY <1>1, <1>2, <1>4, <1>5 DEF Supervision!Relaunch

\* The end of a process is an exit.
LEMMA ExitStep ==
  ASSUME IInv, NEW p \in Pids, ProcessEnds(p)
  PROVE  \E a \in Apps : Supervision!Exit(a, p)
<1>1. /\ Live(p) /\ ~Live(p)' /\ os'[p].app = os[p].app
      /\ \A q \in Pids : q # p => os'[q] = os[q]
      /\ UNCHANGED <<processes, entry>>
  BY DEF ProcessEnds, Live, IInv, TypeOK, Process
<1>2. os[p].app \in Apps
  BY <1>1, LiveBelongs
<1>3. UNCHANGED Want
  BY <1>1 DEF Want
<1>4. Running' = [Running EXCEPT ![os[p].app] = @ \ {p}]
  <2>1. \A b \in Apps : Running'[b] = IF b = os[p].app THEN Running[b] \ {p} ELSE Running[b]
    BY <1>1 DEF Running, Live
  <2>2. Running' = [b \in Apps |-> IF b = os[p].app THEN Running[b] \ {p} ELSE Running[b]]
    <3>1. Running' = [b \in Apps |-> Running'[b]]
      BY DEF Running
    <3>2. QED BY <2>1, <3>1
  <2>3. Running = [b \in Apps |-> Running[b]]
    BY DEF Running
  <2>4. QED BY <2>2, <2>3
<1>5. p \in Running[os[p].app]
  BY <1>1, <1>2 DEF Running
<1>6. QED BY <1>2, <1>3, <1>4, <1>5 DEF Supervision!Exit

\* All other steps are unseen.
LEMMA UnseenStep ==
  ASSUME IInv,
         \/ \E c \in Commands : Receive(c)
         \/ Respond \/ DeployRefused \/ StopTimeout \/ StopEnd \/ StatusBegin \/ StatusEnd
         \/ \E a \in Apps : StatusOf(a)
         \/ \E p \in Pids : \/ ContextKills(p) \/ WaitReturns(p) \/ MonitorAbandons(p)
                            \/ MonitorSettles(p) \/ MonitorGivesUp(p) \/ MonitorBacksOff(p)
                            \/ WakeAbandons(p) \/ WakeFails(p)
         \/ Cancel \/ CloseBegin \/ CloseTimeout \/ CloseStopped \/ ProgramExits
         \/ UNCHANGED vars
  PROVE  UNCHANGED <<Want, Running>>
<1>1. UNCHANGED processes
  BY DEF Receive, Respond, DeployRefused, StopTimeout, StopEnd, StatusBegin, StatusEnd, StatusOf,
     ContextKills, WaitReturns, MonitorAbandons, MonitorSettles, MonitorGivesUp, MonitorBacksOff,
     WakeAbandons, WakeFails, Cancel, CloseBegin, CloseTimeout, CloseStopped, ProgramExits, vars
<1>2. \A x \in Entries : entry'[x].stopping <=> entry[x].stopping
  <2>1. \/ UNCHANGED entry
        \/ \E x, s : entry' = [entry EXCEPT ![x].state = s]
        \/ \E x : entry' = [entry EXCEPT ![x].done = TRUE]
        \/ \E x : entry' = [entry EXCEPT ![x].restarts = @ + 1]
    BY DEF Receive, Respond, DeployRefused, StopTimeout, StopEnd, StatusBegin, StatusEnd, StatusOf,
       ContextKills, WaitReturns, MonitorAbandons, MonitorSettles, MonitorGivesUp, MonitorBacksOff,
       WakeAbandons, WakeFails, Cancel, CloseBegin, CloseTimeout, CloseStopped, ProgramExits, vars
  <2>2. QED BY <2>1 DEF IInv, TypeOK, Entry
<1>3. ASSUME NEW q \in Pids
      PROVE  (Live(q)' <=> Live(q)) /\ (Live(q) => os'[q].app = os[q].app)
  <2>1. \/ UNCHANGED os
        \/ \E p : SigKill(p)
        \/ \E p \in Pids : WaitReturns(p)
    BY DEF Receive, Respond, DeployRefused, StopTimeout, StopEnd, StatusBegin, StatusEnd, StatusOf,
       ContextKills, MonitorAbandons, MonitorSettles, MonitorGivesUp, MonitorBacksOff, WakeAbandons,
       WakeFails, Cancel, CloseBegin, CloseTimeout, CloseStopped, ProgramExits, vars
  <2>2. CASE UNCHANGED os
    BY <2>2 DEF Live
  <2>3. ASSUME NEW p, SigKill(p)
        PROVE  (Live(q)' <=> Live(q)) /\ (Live(q) => os'[q].app = os[q].app)
    BY <2>3, SignalSpares DEF IInv
  <2>4. ASSUME NEW p \in Pids, WaitReturns(p)
        PROVE  (Live(q)' <=> Live(q)) /\ (Live(q) => os'[q].app = os[q].app)
    BY <2>4 DEF WaitReturns, Live, NoProcess, IInv, TypeOK
  <2>5. QED BY <2>1, <2>2, <2>3, <2>4
<1>4. QED BY <1>1, <1>2, <1>3, Unseen DEF IInv

\* Every step of the supervisor is a step of AppSupervision or a stutter.
LEMMA SimulationStep ==
  IInv /\ [Next]_vars => Supervision!Next \/ UNCHANGED <<Want, Running>>
<1> SUFFICES ASSUME IInv, [Next]_vars PROVE Supervision!Next \/ UNCHANGED <<Want, Running>>
  OBVIOUS
<1>1. ASSUME NEW e \in Entries, NEW p \in Pids, DeployStart(e, p) PROVE Supervision!Next
  BY <1>1, LaunchStep DEF Supervision!Next
<1>2. ASSUME NEW p \in Pids, NEW q \in Pids, WakeRestarts(p, q) PROVE Supervision!Next
  BY <1>2, RelaunchStep DEF Supervision!Next
<1>3. ASSUME NEW p \in Pids, ProcessEnds(p) PROVE Supervision!Next
  BY <1>3, ExitStep DEF Supervision!Next
<1>4. CASE StopBegin
  <2>1. req.app \in Apps /\ processes[req.app] # None
    BY <1>4 DEF StopBegin, IInv, ListenerProgress
  <2>2. Supervision!OrderDown(req.app) \/ UNCHANGED <<Want, Running>>
    BY <1>4, <2>1, OrderStep DEF StopBegin
  <2>3. QED BY <2>1, <2>2 DEF Supervision!Next
<1>5. ASSUME NEW a \in Apps, CloseStops(a)
      PROVE  Supervision!Next \/ UNCHANGED <<Want, Running>>
  <2>1. processes[a] # None
    BY <1>5 DEF CloseStops, IInv, ShutdownProgress
  <2>2. Supervision!OrderDown(a) \/ UNCHANGED <<Want, Running>>
    BY <1>5, <2>1, OrderStep DEF CloseStops
  <2>3. QED BY <2>2 DEF Supervision!Next
<1>6. CASE RemoveEnd \/ DeployFail
  <2>1. req.app \in Apps /\ (processes[req.app] # None => Down(req.app))
    BY <1>6 DEF RemoveEnd, DeployFail, Stopped, Absent, IInv, ListenerProgress, Down
  <2>2. processes' = [a \in Apps |-> IF a \in {req.app} THEN None ELSE processes[a]]
    BY <1>6 DEF RemoveEnd, DeployFail, IInv, TypeOK
  <2>3. QED BY <1>6, <2>1, <2>2, ForgetStep DEF RemoveEnd, DeployFail
<1>7. CASE CloseEnd
  <2>1. \A a \in Apps : processes[a] # None => Down(a)
    BY <1>7 DEF CloseEnd, IInv, ShutdownProgress
  <2>2. processes' = [a \in Apps |-> IF a \in Apps THEN None ELSE processes[a]]
    BY <1>7 DEF CloseEnd
  <2>3. QED BY <1>7, <2>1, <2>2, ForgetStep DEF CloseEnd
<1>8. QED
  BY <1>1, <1>2, <1>3, <1>4, <1>5, <1>6, <1>7, UnseenStep
     DEF Next, Gone, Listener, MonitorStep, ShutdownStep

\* The supervisor implements AppSupervision: an app never has two processes,
\* an app ordered down returns only by a deployment, nothing is forgotten
\* while it runs (process.go, as promised by its exported methods).
THEOREM ImplementsSupervision == Spec => KeepsSupervision
<1>1. Init => Supervision!Init
  BY DEF Init, Supervision!Init, Want, Running, Live, NoProcess
<1>2. IInv /\ [Next]_vars => [Supervision!Next]_(Supervision!vars)
  BY SimulationStep DEF Supervision!vars
<1>3. QED BY <1>1, <1>2, Invariant, PTL DEF Spec, KeepsSupervision, Supervision!Spec
============================================================================
