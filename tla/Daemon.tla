------------------------------- MODULE Daemon -------------------------------
(***************************************************************************)
(* The daemon of runner.py around the self-update: run() with its signal   *)
(* handler, its goodbye and its inventory task, and the removal of the     *)
(* agent, up to the hand-off to the cleanup unit of uninstaller.py.        *)
(*                                                                         *)
(* Every action is an action of SelfUpdate with what the rest of the       *)
(* daemon does in the same step, or one that leaves SelfUpdate alone.  The *)
(* network and the server are external: a request is in flight until the   *)
(* server handles it or it is lost, it may be handled after its client     *)
(* gave it up, and the server keeps the last state it was told.            *)
(***************************************************************************)
EXTENDS SelfUpdate

CONSTANT
    Lingering  \* the requests that may be handled after their client gave up

\* A heartbeat, the removal report, the goodbye (rebooting, powered_off and
\* agent_stop alike), and the inventory.
Requests == {"running", "removed", "stopped", "inventory"}

ASSUME LingeringAssumption == Lingering \subseteq Requests

VARIABLES
    main,     \* where run() is
    inv,      \* where the inventory task is
    removed,  \* the removed event of run()
    sigterm,  \* a signal waits for the event loop to call its handler
    net,      \* requests in flight that their client waits for
    late,     \* requests in flight that their client has given up
    served,   \* requests of this process the server has answered
    view,     \* the last state the server was told
    unit      \* the transient cleanup unit

around == <<main, inv, removed, sigterm>>
outside == <<net, late, served, view, unit>>
dvars == <<vars, around, outside>>

DTypeOK ==
    /\ TypeOK
    /\ main \in {"off", "waiting", "goodbye", "done"}
    /\ inv \in {"off", "submitting", "waiting"}
    /\ removed \in BOOLEAN
    /\ sigterm \in BOOLEAN
    /\ net \subseteq Requests
    /\ late \subseteq Lingering
    /\ served \subseteq Requests
    /\ view \in {"running", "removed", "stopped"}
    /\ unit \in {"none", "running", "finished"}

DInit ==
    /\ Init
    /\ main = "off"
    /\ inv = "off"
    /\ removed = FALSE
    /\ sigterm = FALSE
    /\ net = {}
    /\ late = {}
    /\ served = {}
    /\ view = "stopped"
    /\ unit = "none"

-----------------------------------------------------------------------------
(* Requests.                                                               *)

Send(r) ==
    /\ net' = net \cup {r}
    /\ served' = served \ {r}
    /\ UNCHANGED late

\* What is still on its way when its client stops waiting, and gets there.
Abandoned(rs) == net \cap rs \cap Lingering

\* The client stops waiting: answered, failed, timed out or cancelled.
GiveUp(rs) ==
    /\ net' = net \ rs
    /\ late' = late \cup Abandoned(rs)
    /\ served' = served \ rs

Told(r) == IF r = "inventory" THEN view ELSE r

\* External: the server handles a request, in any order.
Handle(r) ==
    /\ r \in net
    /\ net' = net \ {r}
    /\ served' = served \cup {r}
    /\ view' = Told(r)
    /\ UNCHANGED <<vars, around, late, unit>>

\* External: it handles one whose client is no longer there for the answer.
HandleLate(r) ==
    /\ r \in late
    /\ late' = late \ {r}
    /\ view' = Told(r)
    /\ UNCHANGED <<vars, around, net, served, unit>>

\* External: a request is lost, or answered with an error.  A late one that is
\* lost is one that is never handled.
Lose(r) ==
    /\ r \in net
    /\ net' = net \ {r}
    /\ UNCHANGED <<vars, around, late, served, view, unit>>

-----------------------------------------------------------------------------
(* The process.                                                            *)

\* The memory of the process goes, what it sent stays on its way.
Vanish ==
    /\ main' = "off"
    /\ inv' = "off"
    /\ removed' = FALSE
    /\ sigterm' = FALSE
    /\ GiveUp(Requests)
    /\ UNCHANGED view

\* systemd starts the service as long as the cleanup has not removed it.
DStart ==
    /\ Start
    /\ unit # "finished"
    /\ UNCHANGED <<around, outside>>

DDie ==
    /\ DieAtStart
    /\ Vanish
    /\ UNCHANGED unit

\* run(): the handlers are installed, the tasks made, and both send at once.
DBoot ==
    /\ Boot
    /\ main' = "waiting"
    /\ inv' = "waiting"
    /\ Send("running")
    /\ UNCHANGED <<removed, sigterm, view, unit>>

\* The process is killed, or the machine goes down and the transient unit
\* with it.
DCrash ==
    /\ Crash
    /\ Vanish
    /\ unit' \in {unit} \cup (IF unit = "running" THEN {"none"} ELSE {})

\* External: the same to a machine on which only the cleanup runs.
CleanupLost ==
    /\ unit = "running"
    /\ hb = "down"
    /\ unit' = "none"
    /\ UNCHANGED <<vars, around, net, late, served, view>>

\* A stop, a reboot or the cleanup's `systemctl disable --now': the process
\* gets SIGTERM, and python leaves the handler to the event loop.  Once stop
\* is set another signal changes nothing.
Signal ==
    /\ LoopRuns
    /\ ~sigterm
    /\ outages < MaxOutages
    /\ sigterm' = TRUE
    /\ UNCHANGED <<vars, main, inv, removed, outside>>

\* Before run() has installed its handler SIGTERM ends the process.
SignalAtBoot ==
    /\ hb = "boot"
    /\ Crash
    /\ Vanish
    /\ UNCHANGED unit

\* The loop calls the handler when it gets the turn, before it resumes a task:
\* with a signal waiting only a task between two awaits goes on.
LoopServes == sigterm => hb \in HeartbeatBusy \/ wd \in WatchdogBusy

-----------------------------------------------------------------------------
(* run() after stop: cancel, gather, goodbye.                              *)

\* What the tasks wait for is given up, and the goodbye sent, except after a
\* hand-off.
Leave ==
    /\ main = "waiting"
    /\ inv' = "off"
    /\ main' = IF removed THEN "done" ELSE "goodbye"
    /\ net' = IF removed THEN {} ELSE {"stopped"}
    /\ late' = late \cup Abandoned(Requests)
    /\ served' = {}
    /\ UNCHANGED <<view, unit>>

\* Mutant of HandleSignal: the goodbye is sent without cancelling the tasks.
TasksGoOn ==
    /\ sigterm
    /\ LoopRuns
    /\ HeartbeatTurn
    /\ WatchdogTurn
    /\ main = "waiting"
    /\ main' = "goodbye"
    /\ net' = net \cup {"stopped"}
    /\ sigterm' = FALSE
    /\ UNCHANGED <<vars, inv, removed, late, served, view, unit>>

\* Mutant of HandleSignal: the tasks are threads, cut between two statements,
\* and a save that was under way is lost.
CutAnywhere ==
    /\ sigterm
    /\ LoopRuns
    /\ outages < MaxOutages
    /\ outages' = outages + 1
    /\ hb' = "ended"
    /\ wd' = "off"
    /\ Leave
    /\ sigterm' = FALSE
    /\ UNCHANGED <<disk, memory, history, removed>>

\* _signal_handler sets stop; run() cancels, gathers, and says goodbye.
HandleSignal ==
    /\ sigterm
    /\ CancelTasks
    /\ Leave
    /\ sigterm' = FALSE
    /\ UNCHANGED removed

\* Mutant of MainLeaves: the goodbye is sent whatever removed says.
GoodbyeAlways ==
    /\ hb = "ended"
    /\ main = "waiting"
    /\ inv' = "off"
    /\ main' = "goodbye"
    /\ net' = {"stopped"}
    /\ served' = {}
    /\ UNCHANGED <<vars, removed, sigterm, late, view, unit>>

\* Mutant of MainLeaves: the hand-off sets removed and forgets stop.
WaitsForSignal ==
    /\ sigterm
    /\ hb = "ended"
    /\ Leave
    /\ UNCHANGED <<vars, removed, sigterm>>

\* The same when the heartbeat task has returned after the hand-off.
MainLeaves ==
    /\ hb = "ended"
    /\ Leave
    /\ UNCHANGED <<vars, removed, sigterm>>

\* Mutant of GoodbyeEnds: no timeout around the goodbye.
GoodbyeAnswered ==
    /\ main = "goodbye"
    /\ "stopped" \in served
    /\ main' = "done"
    /\ GiveUp({"stopped"})
    /\ UNCHANGED <<vars, inv, removed, sigterm, view, unit>>

\* Answered, failed or timed out after GOODBYE_TIMEOUT_SECONDS.
GoodbyeEnds ==
    /\ main = "goodbye"
    /\ main' = "done"
    /\ GiveUp({"stopped"})
    /\ UNCHANGED <<vars, inv, removed, sigterm, view, unit>>

DExit ==
    /\ main = "done"
    /\ Exit
    /\ Vanish
    /\ UNCHANGED unit

-----------------------------------------------------------------------------
(* The heartbeat task.                                                     *)

DBeatFails ==
    /\ LoopServes
    /\ BeatFails
    /\ GiveUp({"running"})
    /\ UNCHANGED <<around, view, unit>>

DBeatAnswered(a) ==
    /\ "running" \in served
    /\ LoopServes
    /\ BeatAnswered(a)
    /\ GiveUp({"running"})
    /\ UNCHANGED <<around, view, unit>>

DNextBeat ==
    /\ LoopServes
    /\ NextBeat
    /\ Send("running")
    /\ UNCHANGED <<around, view, unit>>

\* The removal report goes first.
DBeginRemoval ==
    /\ BeginRemoval
    /\ Send("removed")
    /\ UNCHANGED <<around, view, unit>>

\* apply() returns False: not frozen, no systemd-run, an error, the unit name
\* taken, or a timeout, after which the unit may be there all the same.
DRemovalFails ==
    /\ LoopServes
    /\ RemovalFails
    /\ GiveUp({"removed"})
    /\ unit' \in {unit} \cup (IF Frozen /\ unit = "none" THEN {"running"} ELSE {})
    /\ UNCHANGED <<around, view>>

\* systemd-run has started the unit; removed and stop are set.
DRemovalHandedOff ==
    /\ unit = "none"
    /\ LoopServes
    /\ RemovalHandedOff
    /\ GiveUp({"removed"})
    /\ removed' = TRUE
    /\ unit' = "running"
    /\ UNCHANGED <<main, inv, sigterm, view>>

\* An exception escapes: what the task sent is given up.
DHeartbeatRaises ==
    /\ LoopServes
    /\ HeartbeatTaskRaises
    /\ GiveUp({"running", "removed"})
    /\ UNCHANGED <<around, view, unit>>

\* execv: a signal whose handler has not run yet is forgotten with the image.
DExec ==
    /\ Exec \/ RevertExecs
    /\ Vanish
    /\ UNCHANGED unit

\* The steps of the update the rest of the daemon takes no part in.
UpdateStep ==
    /\ LoopServes
    /\ \/ ConfirmSaves
       \/ DropBackup
       \/ PassOver
       \/ StageBinary
       \/ FetchFails
       \/ \E v \in Versions : Fetched(v)
       \/ RejectStaged
       \/ AcceptStaged
       \/ CopyDone
       \/ SwapIn
       \/ Record
       \/ WatchdogFires
       \/ WatchdogFindsConfirmed
       \/ RevertSaves
       \/ RevertRestores
       \/ WatchdogTaskRaises
    /\ UNCHANGED <<around, outside>>

-----------------------------------------------------------------------------
(* The inventory task: every exception is caught, so that it never ends by *)
(* itself.                                                                 *)

\* The task looks at stop, which is set when the heartbeat task has ended.
LoopIsFree ==
    /\ hb \notin HeartbeatBusy \cup {"ended"}
    /\ wd \notin WatchdogBusy
    /\ ~sigterm

Submit ==
    /\ inv = "waiting"
    /\ LoopIsFree
    /\ inv' = "submitting"
    /\ Send("inventory")
    /\ UNCHANGED <<vars, main, removed, sigterm, view, unit>>

\* Mutant of SubmitEnds: what the client does not raise itself ends the task.
SubmitRaises ==
    /\ inv = "submitting"
    /\ LoopIsFree
    /\ inv' \in {"waiting", "failed"}
    /\ GiveUp({"inventory"})
    /\ UNCHANGED <<vars, main, removed, sigterm, view, unit>>

SubmitEnds ==
    /\ inv = "submitting"
    /\ LoopIsFree
    /\ inv' = "waiting"
    /\ GiveUp({"inventory"})
    /\ UNCHANGED <<vars, main, removed, sigterm, view, unit>>

\* External: the cleanup unit waits for the service to be down, then removes
\* the unit file, the state and the binary.
CleanupDone ==
    /\ unit = "running"
    /\ hb = "down"
    /\ unit' = "finished"
    /\ UNCHANGED <<vars, around, net, late, served, view>>

-----------------------------------------------------------------------------
HeartbeatTask ==
    \/ DBeatFails
    \/ \E a \in Answers : DBeatAnswered(a)
    \/ DNextBeat
    \/ DBeginRemoval
    \/ DRemovalFails
    \/ DRemovalHandedOff
    \/ DHeartbeatRaises

MainTask ==
    \/ HandleSignal
    \/ MainLeaves
    \/ GoodbyeEnds
    \/ DExit

\* What the process does, and what it gets from outside while it is there.
ProcessGoes ==
    \/ \E r \in Requests : Handle(r) \/ HandleLate(r) \/ Lose(r)
    \/ DDie
    \/ DBoot
    \/ Signal
    \/ SignalAtBoot
    \/ MainTask
    \/ HeartbeatTask
    \/ DExec
    \/ UpdateStep
    \/ Submit
    \/ SubmitEnds

DNext == ProcessGoes \/ DStart \/ DCrash \/ CleanupLost \/ CleanupDone

DSpec == DInit /\ [][DNext]_dvars

\* systemd starts the service, the event loop resumes whatever is ready, every
\* wait of the daemon has a timeout, and every stretch between two awaits
\* ends.  Signals, crashes and the server are not fair.
DFairness ==
    /\ WF_dvars(DStart)
    /\ WF_dvars(DDie \/ DBoot)
    /\ WF_dvars(HeartbeatTask)
    /\ WF_dvars(DExec)
    /\ WF_dvars(UpdateStep)
    /\ WF_dvars(MainTask)

DFairSpec == DSpec /\ DFairness

-----------------------------------------------------------------------------
(* Properties.                                                             *)

\* The daemon updates itself as SelfUpdate says, whatever else it does.
UpdatesItself == Spec

\* From its goodbye on a process sends nothing: the goodbye is the last word
\* of a process that stops, and the tasks are over before it is said.
GoodbyeIsLast ==
    [][(main \in {"goodbye", "done"}) => net' \subseteq net]_dvars

\* A server that was told of a stop is told of a running agent by a process
\* that is not stopping, or by a heartbeat that its client had given up and
\* that was still under way.
StoppedUntilStarted ==
    [][view = "stopped" /\ view' = "running" =>
         main = "waiting" \/ "running" \in late \ late']_dvars

\* The removal report stands: past a hand-off, process or no process, and
\* unless the agent goes on or is started once more before the service is
\* disabled, only a request that had been given up before says otherwise.
RemovalStands ==
    [][view = "removed" /\ view' # "removed" =>
         \/ view' \in late \ late'
         \/ ~removed /\ hb \notin {"down", "boot"} /\ unit # "finished"]_dvars

\* The removal report is never followed by an ordinary goodbye.
NoGoodbyeAfterRemoval ==
    [][view = "removed" => view' # "stopped"]_dvars

\* A process that got SIGTERM ends.
SignalEndsRun == sigterm ~> hb = "down"
=============================================================================
