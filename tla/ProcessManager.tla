--------------------------- MODULE ProcessManager ---------------------------
(***************************************************************************)
(* The process supervisor of GoShip Init (src/internal/init/process.go)    *)
(* inside one VM, with the goroutines that share it:                       *)
(*                                                                         *)
(*   the listener   Communicator.Listen: one command at a time, each       *)
(*                  answered before the next is read;                      *)
(*   the shutdown   Init.Shutdown: cancel the context, close the manager,  *)
(*                  close the device, leave the program;                   *)
(*   the monitors   one monitorProcess goroutine per started process;      *)
(*   the kernel     processes end by themselves, by SIGTERM or by SIGKILL. *)
(*                                                                         *)
(* The listener and the shutdown may hold m.mu while they wait for a       *)
(* process to end, so taking and releasing the mutex are separate steps    *)
(* for them.  A monitor's critical section never waits: it is one step,    *)
(* taken when the mutex is free.                                           *)
(*                                                                         *)
(* A definition named for what it gets wrong (StopTimeoutTermsAgain, ...)  *)
(* is a faulty variant of the one that follows it: a plausible bug that    *)
(* the properties must be able to see.                                     *)
(***************************************************************************)
EXTENDS Naturals

CONSTANTS Apps,        \* names of process-mode apps
          Entries,     \* managedProcess objects (the heap; reused when garbage)
          Pids,        \* process identifiers, and the monitor started with each
          Policies,    \* the restart policies that deployments ask for
          None,        \* the nil pointer, and "no app"
          MaxRestarts  \* maxRestarts

ASSUME NoneAssumption == None \notin Apps \cup Entries \cup Pids
ASSUME PoliciesAssumption == Policies \subseteq {"never", "on-failure", "always"}
ASSUME MaxRestartsAssumption == MaxRestarts \in Nat

VARIABLES processes,   \* m.processes: app name -> managedProcess, or None
          entry,       \* the managedProcess objects
          os,          \* the kernel's process table
          mon,         \* the monitorProcess goroutines
          mu,          \* who holds m.mu across steps
          req,         \* the command the listener is executing
          shut         \* progress of Init.Shutdown

vars == <<processes, entry, os, mon, mu, req, shut>>

States   == {"running", "stopped", "failed"}
Ops      == {"deploy", "stop", "remove", "status"}

\* cmd is the process of proc.cmd (and proc.pid); done says that the channel
\* proc.done has been closed.
Entry == [app : Apps \cup {None}, policy : Policies \cup {"never"}, state : States,
          stopping : BOOLEAN, restarts : Nat, cmd : Pids \cup {None},
          done : BOOLEAN]

\* "none": no such process (never started, or reaped by Wait, gone from /proc);
\* "termed", "killed": alive, with SIGTERM or SIGKILL delivered;
\* "ok", "err": ended with status zero or not, and not yet waited for.
\* ctx: started by exec.CommandContext, so killed when the context is cancelled.
Process == [st : {"none", "alive", "termed", "killed", "ok", "err"},
            app : Apps \cup {None}, ctx : BOOLEAN]

NoMonitor == [pc |-> "none", entry |-> None, err |-> FALSE]
Monitor == {NoMonitor} \cup [pc : {"wait", "exited", "backoff"}, entry : Entries,
                             err : BOOLEAN]

Request == [pc : {"idle", "lock", "stopping", "scan", "reply"},
            op : Ops, app : Apps \cup {None}, policy : Policies \cup {"never"},
            todo : SUBSET Apps]

Shutdown == [pc : {"running", "cancelled", "closing", "closed", "exited"},
             todo : SUBSET Apps, cur : Apps \cup {None}]

BlankEntry == [app |-> None, policy |-> "never", state |-> "stopped",
               stopping |-> FALSE, restarts |-> 0, cmd |-> None, done |-> TRUE]
NoProcess  == [st |-> "none", app |-> None, ctx |-> FALSE]
IdleReq    == [pc |-> "idle", op |-> "status", app |-> None,
               policy |-> "never", todo |-> {}]

Init == /\ processes = [a \in Apps |-> None]
        /\ entry = [e \in Entries |-> BlankEntry]
        /\ os = [p \in Pids |-> NoProcess]
        /\ mon = [p \in Pids |-> NoMonitor]
        /\ mu = "free"
        /\ req = IdleReq
        /\ shut = [pc |-> "running", todo |-> {}, cur |-> None]

Live(p)      == os[p].st \in {"alive", "termed", "killed"}
Tracked(e)   == \E a \in Apps : processes[a] = e
Monitored(e) == \E p \in Pids : mon[p].pc # "none" /\ mon[p].entry = e

\* An object nobody points to, and a process identifier nobody remembers.
Garbage(e) == ~Tracked(e) /\ ~Monitored(e)
FreePid(p) == /\ os[p].st = "none" /\ mon[p].pc = "none"
              /\ \A e \in Entries : ~Garbage(e) => entry[e].cmd # p
-----------------------------------------------------------------------------
(* Processes and signals.                                                   *)

\* Signal and Kill reach a process that has not ended; after that they fail
\* and the code ignores the error.
SigTerm(p) == os' = [os EXCEPT ![p].st = IF @ = "alive" THEN "termed" ELSE @]
SigKill(p) == /\ os[p].st \in {"alive", "termed"}
              /\ os' = [os EXCEPT ![p].st = "killed"]

\* The process ends: with either status, or with an error once it is killed.
ProcessEnds(p) ==
    /\ Live(p)
    /\ \E st \in {"ok", "err"} : /\ os[p].st = "killed" => st = "err"
                                 /\ os' = [os EXCEPT ![p].st = st]
    /\ UNCHANGED <<processes, entry, mon, mu, req, shut>>

\* exec.CommandContext kills what Deploy started once the context is cancelled;
\* restartProcess uses exec.Command, which knows no context.
ContextKills(p) ==
    /\ shut.pc \notin {"running", "exited"}
    /\ os[p].ctx /\ SigKill(p)
    /\ UNCHANGED <<processes, entry, mon, mu, req, shut>>

\* cmd.Start() and "go m.monitorProcess(proc)" for object e on behalf of app a.
Started(p, e, a, ctx) ==
    [process |-> [st |-> "alive", app |-> a, ctx |-> ctx],
     monitor |-> [pc |-> "wait", entry |-> e, err |-> FALSE]]
-----------------------------------------------------------------------------
(* The listener.                                                            *)

Commands == [op : {"deploy"}, app : Apps, policy : Policies]
            \cup [op : {"stop", "remove"}, app : Apps, policy : {"never"}]
            \cup [op : {"status"}, app : {None}, policy : {"never"}]

\* A command arrives.  The bound on the heap: a deployment is requested only
\* while an object is free for it.
Receive(c) ==
    /\ req.pc = "idle"
    /\ shut.pc # "exited"
    /\ c.op = "deploy" => \E e \in Entries : Garbage(e)
    /\ req' = [pc |-> "lock", op |-> c.op, app |-> c.app, policy |-> c.policy,
               todo |-> {}]
    /\ UNCHANGED <<processes, entry, os, mon, mu, shut>>

\* sendResponse, after which Listen reads the next command.
Respond == /\ req.pc = "reply"
           /\ req' = IdleReq
           /\ UNCHANGED <<processes, entry, os, mon, mu, shut>>

\* Deploy refuses a specification it cannot use before it takes the mutex.
DeployRefused == /\ req.pc = "lock" /\ req.op = "deploy"
                 /\ req' = [req EXCEPT !.pc = "reply"]
                 /\ UNCHANGED <<processes, entry, os, mon, mu, shut>>

\* Deploy, Stop and Remove take the mutex and, finding the app, set stopping
\* and enter stopProcess, which sends SIGTERM and waits with the mutex held.
StopBegin ==
    LET e == processes[req.app] IN
    /\ req.pc = "lock" /\ req.op # "status"
    /\ mu = "free"
    /\ e # None
    /\ mu' = "listener"
    /\ entry' = [entry EXCEPT ![e].stopping = TRUE]
    /\ SigTerm(entry[e].cmd)
    /\ req' = [req EXCEPT !.pc = "stopping"]
    /\ UNCHANGED <<processes, mon, shut>>

\* stopProcess, ten seconds later.
StopTimeoutTermsAgain ==
    /\ req.pc = "stopping"
    /\ ~entry[processes[req.app]].done
    /\ SigTerm(entry[processes[req.app]].cmd)
    /\ UNCHANGED <<processes, entry, mon, mu, req, shut>>

StopTimeout ==
    /\ req.pc = "stopping"
    /\ ~entry[processes[req.app]].done
    /\ SigKill(entry[processes[req.app]].cmd)
    /\ UNCHANGED <<processes, entry, mon, mu, req, shut>>

\* The channel proc.done is closed and stopProcess has returned.
StoppedUnwaited == req.pc = "stopping"

Stopped == req.pc = "stopping" /\ entry[processes[req.app]].done

\* The command finds no such app (Stop and Remove have nothing to do then).
Absent == req.pc = "lock" /\ mu = "free" /\ processes[req.app] = None

\* The handler returns; the deferred unlock runs.
Unlock == /\ mu' = "free"
          /\ req' = [req EXCEPT !.pc = "reply", !.todo = {}]

StopEnd ==
    /\ req.op = "stop"
    /\ \/ /\ Stopped
          /\ entry' = [entry EXCEPT ![processes[req.app]].state = "stopped"]
       \/ Absent /\ UNCHANGED entry
    /\ Unlock
    /\ UNCHANGED <<processes, os, mon, shut>>

RemoveEnd ==
    /\ req.op = "remove"
    /\ Stopped \/ Absent
    /\ processes' = [processes EXCEPT ![req.app] = None]
    /\ Unlock
    /\ UNCHANGED <<entry, os, mon, shut>>

\* A command made by exec.CommandContext does not start when its context, the
\* one Shutdown cancels, is done.
ContextIgnored == TRUE
ContextAlive   == shut.pc = "running"

\* Deploy has no predecessor left and starts the new process.
DeployStart(e, p) ==
    LET s == Started(p, e, req.app, TRUE) IN
    /\ req.op = "deploy"
    /\ Stopped \/ Absent
    /\ ContextAlive
    /\ Garbage(e) /\ FreePid(p)
    /\ processes' = [processes EXCEPT ![req.app] = e]
    /\ entry' = [entry EXCEPT ![e] =
                   [app |-> req.app, policy |-> req.policy, state |-> "running",
                    stopping |-> FALSE, restarts |-> 0, cmd |-> p, done |-> FALSE]]
    /\ os' = [os EXCEPT ![p] = s.process]
    /\ mon' = [mon EXCEPT ![p] = s.monitor]
    /\ Unlock
    /\ UNCHANGED shut

\* The log file cannot be opened, or Start fails: the predecessor is gone too.
DeployFail ==
    /\ req.op = "deploy"
    /\ Stopped \/ Absent
    /\ processes' = [processes EXCEPT ![req.app] = None]
    /\ Unlock
    /\ UNCHANGED <<entry, os, mon, shut>>

\* GetStatus, one object at a time under the read lock.
StatusBegin ==
    /\ req.pc = "lock" /\ req.op = "status"
    /\ mu = "free"
    /\ mu' = "listener"
    /\ req' = [req EXCEPT !.pc = "scan",
                          !.todo = {a \in Apps : processes[a] # None}]
    /\ UNCHANGED <<processes, entry, os, mon, shut>>

\* It records "stopped" for a running object whose process has left /proc.
StateSeenExited(e) == IF entry[e].state = "running" /\ os[entry[e].cmd].st = "none"
                      THEN "exited" ELSE entry[e].state
StateSeen(e) == IF entry[e].state = "running" /\ os[entry[e].cmd].st = "none"
                THEN "stopped" ELSE entry[e].state

StatusOf(a) ==
    /\ req.pc = "scan" /\ a \in req.todo
    /\ entry' = [entry EXCEPT ![processes[a]].state = StateSeen(processes[a])]
    /\ req' = [req EXCEPT !.todo = @ \ {a}]
    /\ UNCHANGED <<processes, os, mon, mu, shut>>

StatusEnd == /\ req.pc = "scan" /\ req.todo = {}
             /\ Unlock
             /\ UNCHANGED <<processes, entry, os, mon, shut>>
-----------------------------------------------------------------------------
(* The monitors.                                                            *)

\* cmd.Wait() reaps the process; then proc.done is closed, without the mutex.
WaitReturns(p) ==
    LET e == mon[p].entry
        c == entry[e].cmd IN
    /\ mon[p].pc = "wait"
    /\ os[c].st \in {"ok", "err"}
    /\ mon' = [mon EXCEPT ![p].pc = "exited", ![p].err = (os[c].st = "err")]
    /\ os' = [os EXCEPT ![c] = NoProcess]
    /\ entry' = [entry EXCEPT ![e].done = TRUE]
    /\ UNCHANGED <<processes, mu, req, shut>>

\* m.processes[proc.name] is still this object.
StillTracked(e) == entry[e].app # None /\ processes[entry[e].app] = e

ShouldRestartFailures(policy, err) == policy # "never" /\ err

ShouldRestart(policy, err) == \/ policy = "always"
                              \/ policy = "on-failure" /\ err

\* First critical section of monitorProcess: the object was replaced or removed.
MonitorAbandons(p) ==
    /\ mon[p].pc = "exited" /\ mu = "free"
    /\ ~StillTracked(mon[p].entry)
    /\ mon' = [mon EXCEPT ![p] = NoMonitor]
    /\ UNCHANGED <<processes, entry, os, mu, req, shut>>

\* ... a stop was requested, or the policy wants no restart.
MonitorSettles(p) ==
    LET e == mon[p].entry IN
    /\ mon[p].pc = "exited" /\ mu = "free"
    /\ StillTracked(e)
    /\ entry[e].stopping \/ ~ShouldRestart(entry[e].policy, mon[p].err)
    /\ entry' = [entry EXCEPT ![e].state = IF mon[p].err THEN "failed" ELSE "stopped"]
    /\ mon' = [mon EXCEPT ![p] = NoMonitor]
    /\ UNCHANGED <<processes, os, mu, req, shut>>

Restartable(p) ==
    LET e == mon[p].entry IN
    /\ mon[p].pc = "exited" /\ mu = "free"
    /\ StillTracked(e) /\ ~entry[e].stopping
    /\ ShouldRestart(entry[e].policy, mon[p].err)

SpentLate(e) == entry[e].restarts > MaxRestarts
Spent(e)     == entry[e].restarts >= MaxRestarts

\* ... the restart budget is spent.
MonitorGivesUp(p) ==
    /\ Restartable(p)
    /\ Spent(mon[p].entry)
    /\ entry' = [entry EXCEPT ![mon[p].entry].state = "failed"]
    /\ mon' = [mon EXCEPT ![p] = NoMonitor]
    /\ UNCHANGED <<processes, os, mu, req, shut>>

\* ... or a restart is counted, and the monitor sleeps without the mutex.
MonitorBacksOff(p) ==
    /\ Restartable(p)
    /\ ~Spent(mon[p].entry)
    /\ entry' = [entry EXCEPT ![mon[p].entry].restarts = @ + 1]
    /\ mon' = [mon EXCEPT ![p].pc = "backoff"]
    /\ UNCHANGED <<processes, os, mu, req, shut>>

\* The check after the sleep, with the mutex taken again.
MayRestartAlways(e)    == TRUE
MayRestartUnlessOld(e) == StillTracked(e)

MayRestart(e) == StillTracked(e) /\ ~entry[e].stopping

WakeAbandons(p) ==
    /\ mon[p].pc = "backoff" /\ mu = "free"
    /\ ~MayRestart(mon[p].entry)
    /\ mon' = [mon EXCEPT ![p] = NoMonitor]
    /\ UNCHANGED <<processes, entry, os, mu, req, shut>>

\* restartProcess: a new command, a new channel and a new monitor q for the
\* same object; this monitor ends.
WakeRestartsOldChannel(p, q) ==
    LET e == mon[p].entry
        s == Started(q, e, entry[e].app, FALSE) IN
    /\ mon[p].pc = "backoff" /\ mu = "free"
    /\ MayRestart(e)
    /\ FreePid(q)
    /\ entry' = [entry EXCEPT ![e].cmd = q, ![e].state = "running"]
    /\ os' = [os EXCEPT ![q] = s.process]
    /\ mon' = [mon EXCEPT ![p] = NoMonitor, ![q] = s.monitor]
    /\ UNCHANGED <<processes, mu, req, shut>>

WakeRestartsOldState(p, q) ==
    LET e == mon[p].entry
        s == Started(q, e, entry[e].app, FALSE) IN
    /\ mon[p].pc = "backoff" /\ mu = "free"
    /\ MayRestart(e)
    /\ FreePid(q)
    /\ entry' = [entry EXCEPT ![e].cmd = q, ![e].done = FALSE]
    /\ os' = [os EXCEPT ![q] = s.process]
    /\ mon' = [mon EXCEPT ![p] = NoMonitor, ![q] = s.monitor]
    /\ UNCHANGED <<processes, mu, req, shut>>

WakeRestarts(p, q) ==
    LET e == mon[p].entry
        s == Started(q, e, entry[e].app, FALSE) IN
    /\ mon[p].pc = "backoff" /\ mu = "free"
    /\ MayRestart(e)
    /\ FreePid(q)
    /\ entry' = [entry EXCEPT ![e].cmd = q, ![e].state = "running", ![e].done = FALSE]
    /\ os' = [os EXCEPT ![q] = s.process]
    /\ mon' = [mon EXCEPT ![p] = NoMonitor, ![q] = s.monitor]
    /\ UNCHANGED <<processes, mu, req, shut>>

\* restartProcess: Start fails, and nobody monitors the object any more.
WakeFails(p) ==
    /\ mon[p].pc = "backoff" /\ mu = "free"
    /\ MayRestart(mon[p].entry)
    /\ entry' = [entry EXCEPT ![mon[p].entry].state = "failed"]
    /\ mon' = [mon EXCEPT ![p] = NoMonitor]
    /\ UNCHANGED <<processes, os, mu, req, shut>>
-----------------------------------------------------------------------------
(* The shutdown.                                                            *)

\* A signal or a read error ends Run's select; Shutdown cancels the context.
Cancel == /\ shut.pc = "running"
          /\ shut' = [shut EXCEPT !.pc = "cancelled"]
          /\ UNCHANGED <<processes, entry, os, mon, mu, req>>

\* executor.Close takes the mutex and visits every object.
CloseBegin == /\ shut.pc = "cancelled" /\ mu = "free"
              /\ mu' = "shutdown"
              /\ shut' = [pc |-> "closing", cur |-> None,
                          todo |-> {a \in Apps : processes[a] # None}]
              /\ UNCHANGED <<processes, entry, os, mon, req>>

CloseStops(a) ==
    /\ shut.pc = "closing" /\ shut.cur = None /\ a \in shut.todo
    /\ entry' = [entry EXCEPT ![processes[a]].stopping = TRUE]
    /\ SigTerm(entry[processes[a]].cmd)
    /\ shut' = [shut EXCEPT !.cur = a]
    /\ UNCHANGED <<processes, mon, mu, req>>

CloseTimeoutTermsAgain ==
    LET e == processes[shut.cur] IN
    /\ shut.pc = "closing" /\ shut.cur # None
    /\ ~entry[e].done
    /\ SigTerm(entry[e].cmd)
    /\ UNCHANGED <<processes, entry, mon, mu, req, shut>>

CloseTimeout ==
    LET e == processes[shut.cur] IN
    /\ shut.pc = "closing" /\ shut.cur # None
    /\ ~entry[e].done
    /\ SigKill(entry[e].cmd)
    /\ UNCHANGED <<processes, entry, mon, mu, req, shut>>

CloseStopped ==
    /\ shut.pc = "closing" /\ shut.cur # None
    /\ entry[processes[shut.cur]].done
    /\ shut' = [shut EXCEPT !.todo = @ \ {shut.cur}, !.cur = None]
    /\ UNCHANGED <<processes, entry, os, mon, mu, req>>

CloseEnd == /\ shut.pc = "closing" /\ shut.todo = {}
            /\ processes' = [a \in Apps |-> None]
            /\ mu' = "free"
            /\ shut' = [shut EXCEPT !.pc = "closed"]
            /\ UNCHANGED <<entry, os, mon, req>>

\* The device is closed, Run and main return: the goroutines are gone, whatever
\* they were doing.  Processes that are still alive would stay behind.
ProgramExits == /\ shut.pc = "closed"
                /\ shut' = [shut EXCEPT !.pc = "exited"]
                /\ mon' = [p \in Pids |-> NoMonitor]
                /\ req' = IdleReq
                /\ mu' = "free"
                /\ UNCHANGED <<processes, entry, os>>

\* The program is gone; its last processes may still be in the kernel's table.
Gone == shut.pc = "exited" /\ UNCHANGED vars
-----------------------------------------------------------------------------
Listener == \/ \E c \in Commands : Receive(c)
            \/ Respond \/ DeployRefused
            \/ StopBegin \/ StopTimeout \/ StopEnd \/ RemoveEnd
            \/ \E e \in Entries, p \in Pids : DeployStart(e, p)
            \/ DeployFail
            \/ StatusBegin \/ StatusEnd
            \/ \E a \in Apps : StatusOf(a)

MonitorStep(p) == \/ WaitReturns(p)
                  \/ MonitorAbandons(p) \/ MonitorSettles(p)
                  \/ MonitorGivesUp(p)  \/ MonitorBacksOff(p)
                  \/ WakeAbandons(p)    \/ WakeFails(p)
                  \/ \E q \in Pids : WakeRestarts(p, q)

ShutdownStep == \/ CloseBegin \/ CloseTimeout \/ CloseStopped \/ CloseEnd
                \/ \E a \in Apps : CloseStops(a)
                \/ ProgramExits

Next == \/ Listener
        \/ \E p \in Pids : MonitorStep(p) \/ ProcessEnds(p) \/ ContextKills(p)
        \/ Cancel \/ ShutdownStep
        \/ Gone

Spec == Init /\ [][Next]_vars
-----------------------------------------------------------------------------
(* Fairness.  The Go scheduler runs every goroutine that can run, a timer    *)
(* fires, the kernel ends a process that got SIGKILL.  sync.RWMutex hands    *)
(* the lock to a waiter that has starved for a millisecond, hence the strong *)
(* fairness of the steps that take it.  Nothing obliges a process to react   *)
(* to SIGTERM, a client to send a command, or anybody to shut down.          *)
ListenerTakesMutex == \/ StopBegin \/ StopEnd \/ RemoveEnd \/ StatusBegin
                      \/ DeployFail
                      \/ \E e \in Entries, p \in Pids : DeployStart(e, p)
ListenerRuns == StopTimeout \/ StatusEnd \/ \E a \in Apps : StatusOf(a)

Fairness == /\ SF_vars(ListenerTakesMutex)
            /\ WF_vars(ListenerRuns)
            /\ SF_vars(ShutdownStep)
            /\ \A p \in Pids : SF_vars(MonitorStep(p))
            /\ \A p \in Pids : WF_vars(os[p].st = "killed" /\ ProcessEnds(p))

FairSpec == Spec /\ Fairness
-----------------------------------------------------------------------------
(* Properties.                                                               *)

\* Type invariant of the supervisor's state (process.go: ProcessManager and
\* managedProcess) and of the goroutines around it.
TypeOK == /\ processes \in [Apps -> Entries \cup {None}]
          /\ entry \in [Entries -> Entry]
          /\ os \in [Pids -> Process]
          /\ mon \in [Pids -> Monitor]
          /\ mu \in {"free", "listener", "shutdown"}
          /\ req \in Request
          /\ shut \in Shutdown

\* Every live process is the current process of the object tracked under its
\* app's name: Stop, Remove and Close can still reach everything that runs
\* (process.go: Deploy drops the old object, restartProcess replaces proc.cmd).
LiveIsTracked ==
    \A p \in Pids : Live(p) =>
        /\ os[p].app \in Apps
        /\ processes[os[p].app] # None
        /\ entry[processes[os[p].app]].cmd = p

\* An app never runs twice, whatever deployments and automatic restarts overlap
\* (process.go: Deploy against monitorProcess waking from its backoff).
OneProcessPerApp ==
    \A p, q \in Pids : Live(p) /\ Live(q) /\ os[p].app = os[q].app => p = q

\* When Stop or Remove has answered, nothing of the app runs, not even a
\* restart that was already scheduled (process.go: Stop, Remove, monitorProcess).
AnsweredStopIsEffective ==
    req.pc = "reply" /\ req.op \in {"stop", "remove"} =>
        \A p \in Pids : Live(p) => os[p].app # req.app

\* After Close no process is left, although the listener goes on executing
\* commands until the program ends (init.go: Shutdown cancels before it closes).
NothingLeftBehind ==
    shut.pc \in {"closed", "exited"} => \A p \in Pids : ~Live(p)

\* proc.done is closed at most once per command: a second close would panic
\* (process.go: close(proc.done) in monitorProcess, make in restartProcess).
DoneClosedOnce ==
    /\ \A p \in Pids : mon[p].pc = "wait" => ~entry[mon[p].entry].done
    /\ \A p, q \in Pids : mon[p].pc # "none" /\ mon[q].pc # "none"
                            /\ mon[p].entry = mon[q].entry => p = q

\* An app that GetStatus reports as stopped or failed has no live process
\* (process.go: the state written by Stop, GetStatus and monitorProcess).
DownMeansDead ==
    \A a \in Apps : processes[a] # None =>
        LET e == entry[processes[a]] IN
        e.state # "running" /\ e.cmd # None => ~Live(e.cmd)

\* No object is restarted more than maxRestarts times (process.go:345).
RestartBudget == \A e \in Entries : entry[e].restarts <= MaxRestarts

\* The supervisor keeps the promises of AppSupervision: no second process of
\* an app, no return of an app ordered down except by a deployment, nothing
\* forgotten while it runs.
Want == [a \in Apps |-> IF processes[a] = None THEN "absent"
                        ELSE IF entry[processes[a]].stopping THEN "down" ELSE "run"]
Running == [a \in Apps |-> {p \in Pids : Live(p) /\ os[p].app = a}]

Supervision == INSTANCE AppSupervision WITH want <- Want, live <- Running

KeepsSupervision == Supervision!Spec

\* Every command is answered: neither a process that ignores SIGTERM nor a
\* monitor waiting for the mutex blocks stopProcess for ever (process.go:277).
CommandsAnswered == req.pc = "lock" ~> req.pc \in {"reply", "idle"}

\* An app with policy "always" that lost its process gets a new one, unless it
\* is declared failed, stopped, replaced or removed (process.go: monitorProcess).
Unattended(a) == /\ processes[a] # None
                 /\ LET e == entry[processes[a]] IN
                    /\ e.policy = "always" /\ e.state # "failed" /\ ~e.stopping
                    /\ ~Live(e.cmd)
LostProcessIsHandled == \A a \in Apps : Unattended(a) ~> ~Unattended(a)

\* A shutdown completes: Close does not wait for ever for a process to end
\* (init.go: Shutdown).
ShutdownCompletes == shut.pc = "cancelled" ~> shut.pc = "exited"
-----------------------------------------------------------------------------
(* The inductive invariant behind these properties, one part per idea.       *)

\* Who holds the mutex, told from where the holder is.
MutexHeld == /\ (mu = "listener") <=> (req.pc \in {"stopping", "scan"})
             /\ (mu = "shutdown") <=> (shut.pc = "closing")

\* A monitor that waits owns its object's open channel and its process; one
\* that has been through Wait has closed the channel; an object has one monitor.
MonitorsOwnObjects ==
    \A p \in Pids : mon[p].pc # "none" =>
        LET e == mon[p].entry IN
        /\ entry[e].app \in Apps
        /\ mon[p].pc = "wait" => /\ entry[e].cmd = p
                                /\ ~entry[e].done
                                /\ os[p].st # "none"
                                /\ os[p].app = entry[e].app
        /\ mon[p].pc # "wait" => entry[e].done
        /\ \A q \in Pids : mon[q].pc # "none" /\ mon[q].entry = e => q = p

\* Every process is waited for, and while it lives its object is tracked.
ProcessesAreWaitedFor ==
    \A p \in Pids : /\ os[p].st # "none" /\ shut.pc # "exited" => mon[p].pc = "wait"
                    /\ Live(p) => shut.pc # "exited" /\ StillTracked(mon[p].entry)

\* A tracked object whose channel is open has a monitor that will close it.
TrackedObjects ==
    \A a \in Apps : processes[a] # None =>
        LET e == processes[a] IN
        /\ entry[e].app = a
        /\ entry[e].cmd \in Pids
        /\ ~entry[e].done => mon[entry[e].cmd].pc = "wait" /\ mon[entry[e].cmd].entry = e
        /\ entry[e].state # "running" => entry[e].done
        /\ \A b \in Apps : processes[b] # None /\ entry[processes[b]].cmd = entry[e].cmd
                           => b = a

Down(a) == entry[processes[a]].stopping /\ entry[processes[a]].done

\* What the listener has established for the app of its command.
ListenerProgress ==
    /\ req.pc # "idle" /\ req.op # "status" => req.app \in Apps
    /\ req.pc = "stopping" => /\ req.op # "status"
                             /\ processes[req.app] # None
                             /\ entry[processes[req.app]].stopping
    /\ req.pc = "scan" => /\ req.op = "status"
                         /\ \A a \in req.todo : processes[a] # None
    /\ req.pc = "reply" /\ req.op = "stop" /\ processes[req.app] # None =>
          Down(req.app)
    /\ req.pc = "reply" /\ req.op = "remove" => processes[req.app] = None

\* What the shutdown has established so far.
ShutdownProgress ==
    /\ shut.pc = "closing" =>
         /\ \A a \in shut.todo : processes[a] # None
         /\ \A a \in Apps \ shut.todo : processes[a] # None => Down(a)
         /\ shut.cur # None => /\ shut.cur \in shut.todo
                              /\ entry[processes[shut.cur]].stopping
    /\ shut.pc \in {"closed", "exited"} => \A a \in Apps : processes[a] = None

\* The inductive invariant: the ownership of objects, processes and the mutex
\* that process.go relies on without saying so.
IInv == /\ TypeOK
        /\ MutexHeld
        /\ MonitorsOwnObjects
        /\ ProcessesAreWaitedFor
        /\ TrackedObjects
        /\ ListenerProgress
        /\ ShutdownProgress
=============================================================================
