# Verification of the OpenSUM agent

TLA+ models of `sum_agent`, the daemon that reports a Linux host to an OpenSUM
server, updates itself and removes itself on the server's signed directives.
TLC checks the models on small instances; TLAPS proves the theorems for every
value of the constants. Paths below are relative to `src/src/sum_agent/`.

Contents: [the system](#the-system), [modules](#modules),
[the update](#selfupdate), [the daemon](#daemon),
[runs](#runs-and-what-they-show), [findings](#findings), [proofs](#proofs),
[what is left out](#what-is-not-modelled), [plan](#plan).

## The system

One process, started by systemd as `sum-agent run`. It has one event loop with
up to three tasks and a signal handler, a state file, and the binary it was
started from. It talks to the server by HTTP requests of its own; the server
never calls the agent.

| component | state it keeps | operations | hard part | what makes it correct |
|---|---|---|---|---|
| self-update, `updater.py` | the binary, the `.bak` beside it, `pending_verify` in the state | verify the directive, stage, swap in, exec; confirm; revert | several file operations, a crash or an `OSError` between any two; two processes in a row share the files | a working binary is always at hand, a record tells the truth, every trial ends |
| heartbeat task, `runner.py` | `state.pending_verify` in memory | beat, confirm, obey a removal or an update | yields at its awaits only; an exception ends it and nobody looks | it never acts on a record that is not the one on disk |
| watchdog task, `runner.py` | the deadline of the trial | revert when the deadline passes unconfirmed | acts while the other task waits for an answer; may wake for a later update | a process on trial has one |
| inventory task, `runner.py` | none | build a snapshot and submit it | catches everything | never ends by itself |
| `run()` and its signals, `runner.py`, `core/shutdown.py` | `stop`, `removed` | wait, cancel, gather, goodbye | a signal waits for the loop; `execv` forgets it | SIGTERM ends it; the goodbye is the last request; none after a hand-off |
| self-uninstall, `uninstaller.py` | the transient systemd unit | report, verify, hand the cleanup script over | the cleanup outlives and stops the process; `systemd-run` may time out and have worked | the report stands, the host ends up clean |
| state file, `core/state.py` | `state.json` | save (temporary file, fsync, rename), load, exists | crash and power loss between the steps; `enroll` writes while a daemon runs | a reader sees a whole state, old or new |
| API and HTTP, `client.py`, `core/http.py`, `core/errors.py` | a connection per request | heartbeat, inventory, enroll, download | which failures become `ServerError`, `TransportError`, or neither | the callers' `except` clauses cover what is raised |
| command line, `cli.py` | none | enroll, run, inventory, version | outcomes become exit codes systemd acts on | a state that cannot be read is reported, not overwritten |
| inventory, `inventory/base.py`, `inventory/snapshot.py` and the collectors | the registry | register, build, parse | one collector must not break the others; parsers see odd kernels | isolation; first fact wins; parsers agree with a definition by blocks |
| directive signatures, `core/verify.py`, `core/canonical.py` | none | verify Ed25519 over canonical JSON | the bytes | only their verdict matters here |
| settings, TLS, logging | none | | library configuration | not state of the agent |

How they interact: `cli.py` loads the state and calls `run()`. `run()` makes
the heartbeat and inventory tasks, and the watchdog if the loaded state has a
record. The heartbeat task calls `updater.confirm`, `uninstaller.apply` and
`updater.apply`; the watchdog calls `updater.revert`. All of them share the one
`State` object in memory and, through `state.save`, the file. `updater.apply`
and `updater.revert` end in `os.execv`, which starts `cli.py` again in the same
process with nothing of its memory. The cleanup unit stops the service and
deletes all of the files.

`PROJECT.json` lists the hazards at their lines, each with the properties that
watch it.

## Modules

| module | what it is |
|---|---|
| `Failover` | abstract: an active version, a fallback while a trial is on, the versions the server accepted, and a promise that may be forfeited |
| `SelfUpdate` | the update with its files, both tasks, crashes and exceptions; implements `Failover` |
| `Daemon` | extends `SelfUpdate` with `run()`, signals, goodbye, inventory, removal and requests in flight; implements `SelfUpdate` |
| `PowerLoss` | extends `SelfUpdate` with a page cache and a power loss that forgets what was not written back |
| `Cleanup` | extends `Daemon` with the cleanup script command by command, the service that starts the daemon again, and an enrolment meanwhile; implements `Daemon` |
| `Register` | abstract: a register of whole states, which a power loss may set back |
| `StateStore` | the state file by the steps of save and load, with a daemon and enrolments that share it; implements `Register` |
| `Command` | extends `StateStore` with `enroll` and its request, what `run` says of the file it finds, and the exit status; implements `StateStore` |
| `Snapshot` | the collector registry and `build()` over collectors that return anything |
| `Collectors` | extends `Snapshot` with the nine collectors of the repository |
| `SequenceLemmas` | facts about naturals, recursive functions, sequences and finite sets |
| `SelfUpdateProofs`, `DaemonProofs`, `CleanupProofs`, `StoreProofs`, `CommandProofs`, `SnapshotProofs`, `CollectorsProofs` | theorems |
| `MCSelfUpdate`, `MCPowerLoss`, `MCDaemon`, `MCCleanup`, `MCCommand`, `MCCollectors` | instances for TLC, with one `.cfg` per run |

Definitions marked "Mutant of X" in the modules are not part of any
specification: each is what a plausible bug would make of X, and putting it in
the place of X makes a run fail. They show that the property can fail.

### SelfUpdate

A binary is the version it prints. `current` and `backup` are what the installed
file and its `.bak` hold, `stored` is `pending_verify.target_version` in
`state.json`; these survive a crash. `pending` is the same field in memory,
`running` the version of the process image, `staged` the temporary file,
`answer` the response being handled.

`hb` and `wd` say where the two tasks stand. Python's event loop switches tasks
at awaits only, so each task has points of two kinds: `HeartbeatAwaits` (the
request, the wait for the next beat, the removal report, the download) and
points between two statements. While a task is at a point of the second kind
the other does not move (`HeartbeatTurn`, `WatchdogTurn`); a crash can come at
all of them. That is the reason the synchronous stretch from the smoke test to
`execv` is many actions: `AcceptStaged` (`copy2` opened the backup, which is
now `Torn`), `CopyDone`, `SwapIn` (`os.replace`, and the record in memory),
`Record` (the save), `Exec`.

`HeartbeatTaskRaises` and `WatchdogTaskRaises` are exceptions no caller
catches. The constants `HeartbeatRaises` and `WatchdogRaises` say at which
points they may happen: the theorems hold for every choice, the runs pick. At
`handling` only `mkstemp` raises, which takes a directive to install; a response
without one is passed over by a few dictionary lookups. (A malformed directive,
without a version or a checksum, raises `KeyError` in `verify_directive`, with the
same outcome for the task; it is not among the `Updates`.) `UpdateError` and the
client's errors are caught; they are the actions `BeatFails`, `FetchFails`, `RejectStaged`.

A watchdog that raised is `failed`, as distinct from one that has nothing to
watch (`off`). `revert` clears the record in memory, then saves: if that save
raises, memory has lost a record that is still on disk. The process may be
answered after all and install another update, and `copy2` then writes over the
backup the old record names. `forfeited` is history: it says that this has
happened. From then on nothing stops the next process from restoring what the
backup has become, so `BinaryIntact`, `FallbackKept`, `RecordDescribesDisk` and
`RevertHasBackup` speak of the time before, and `ForfeitNeedsFailure` says that
nothing else leads there.

The deadline is not a clock. `WatchdogFires` may happen at any time after the
boot, which covers every value of `self_update_verify_seconds`, clock jumps,
and deadlines that passed while the host was off.

`Dead` versions pass the smoke test (`version`) and die in `run`. `Mute` ones
run and never get an answer. `Versions`, `Initial`, `Frozen` (a PyInstaller
binary) and `SelfUpdateEnabled` are what their names say.

`proven` is history: versions that had a heartbeat answered. It is what
"establish itself" means in the repository's README, and what the promise of the
update is stated with.

`outages` counts crashes and stops, at most `MaxOutages`; it is the only bound
in the module and the proofs hold for every value of it. Start, update and
revert rounds are not counted: the state space is finite without.

### Daemon

Each action is a `SelfUpdate` action with what the rest of the daemon does in
the same step, or leaves `SelfUpdate` alone. `main` is where `run()` is, `inv`
where the inventory task is; `sigterm` is a signal python has noted and the loop
has not handled. The loop calls the handler before it resumes any task, so with
`sigterm` set only a task inside a synchronous stretch goes on (`LoopServes`).
Setting `stop`, cancelling the tasks and gathering them is one step
(`HandleSignal`): no task acts between them, since each looks at `stop` first.

Requests are a set in flight. `Handle` and `Lose` are the server and the
network, in any order; `view` is the last state the server was told. A request
that is still in flight when its client stops waiting (a read that times out, a
task that is cancelled, a process that dies or is replaced) is in `late`, and
`HandleLate` lets the server handle it at any later time; one that never is
handled is one that was lost. Two late requests of one kind are one. `Lingering`
are the kinds that may be late: the theorems hold for every choice of them, and
so for all four. `unit` is the transient cleanup unit. `DRemovalFails` includes
`systemd-run` timing out after it has started the unit.

`StoppedUntilStarted` and `RemovalStands` are about what the server believes. A
heartbeat that was given up before a goodbye or a removal report may overtake it,
and the agent cannot prevent that without a sequence number in the protocol: the
properties name a late request as the one excuse besides an agent that really
runs. For `RemovalStands` such an agent is one whose removal was not handed off,
or one that was started again before the script disabled its service.

### Cleanup

The script is a sequence of commands (`Script`), and `line` the next of them.
`Disable` and `Stopped` are the two halves of `systemctl disable --now`: the
service is disabled first, then its process stopped, and systemctl returns when
it is down. `StopJob` is the SIGTERM the stop job sends. `Remove` takes the
pieces one by one; every command has its `|| true`, so one that fails
(`MayFail`) is passed over. `rmdir` removes an empty directory only, `rm -rf` of
the state directory whatever is in it.

Beside the script, systemd may start the service at any time it is enabled and
has its unit file and binary (`ServiceStarts`; `Restart=on-failure`, a boot, an
operator; a disabled service that an operator starts with `systemctl start` in
the middle of the script is left out); `sum-agent enroll` may write a new state
(`EnrolSaves`); and the power may go between two commands (`PowerLost`), which
takes the transient unit with it and leaves the files. No later run of the script
resumes it: a second removal begins at its first command.

To the daemon all of this is the one step `CleanupDone` of `Daemon`
(`RunsDaemon`): the properties of `Daemon` carry over.

### PowerLoss

`loose` are the files whose content is in the page cache only. `Step` is a step
of `SelfUpdate` with the file it writes, `WriteBack` the kernel's own doing, and
`LosePower` makes each loose file whole or torn. `swap_in` and `stage_binary`
sync nothing, `save` does. The backup is loose from `AcceptStaged`, where `copy2`
truncates it, and again from `CopyDone`, where the last of it is written: what
was written back in between is not the whole file. A rename is taken to outlive
the loss, which is the better case for the code; the finding needs nothing worse.
`RecordHasFallback` asks for the backup only where a record on disk promises it.

### StateStore

`file` is what the name `state.json` stands for: a content, and whether an fsync
wrote it. `older` is what it stood for since the kernel last wrote the directory
back. A save is `MakeTemp` (mkstemp), `WriteTemp` (dump and flush), `SyncTemp`
(fsync; chmod changes nothing a reader sees) and `Replace`; any of them may
raise (`SaveRaises`: the `except` clause unlinks and raises again), and the
process may be killed at any of them, which leaves its temporary file. A
`KeyboardInterrupt` is no `Exception`, so it counts as a kill. A power loss
picks any of the names' files since the last writeback and forgets what was not
synced.

A load is `LookUp` and then `ReadState` or `ReadCorrupted`. `StateCorruptedError`
has two causes: an `OSError` of the read, which any file may give, one that is
whole or one deleted since `exists` (`loaded = "unread"`), and content that is no
state (`"invalid"`). `LoadFindsState` says that the second never happens, and that
after a successful save, with no outage, the name is there to be read. An
`OSError` of `exists` itself is left out.

The processes save whole states from their own memory: the daemon the one it
loaded, with its record changed, an enrolment a fresh one without a record.
They have no lock. That neither sees a mixture of the two is
`SavesAtomically`; that the later one wins, whoever that is, is the code's
behaviour and is not ruled out. `RemoveDirectory` is the cleanup's `rm -rf`; a
`Replace` after it fails.

This is what justifies the single steps `Record`, `ConfirmSaves` and
`RevertSaves` of `SelfUpdate`: a save happens at one instant, or raises and has
done nothing.

### Command

The steps of `StateStore` with what the command line does around them. A token
is good for one enrolment and stands for it: `spent` is what the server has made
enrolments for, `asks` the token in the request of each enroll, `reply` its
answer. `HandleEnroll` is the server and what lies between (`Replies`: the
expected body, JSON of another shape, text, nothing, with a good or a bad
status). `RequestJson` and `EnrollOutcome` say which exception each becomes,
`Status` what `main()` makes of it: 0, 64, 65, 69, 1 for what it does not catch;
137 stands for a process that was killed. `RequestFails` covers an error of
httpx, an interrupt and a kill, before or after the server has had the request,
which may therefore have spent the token.

`made` is history: the enrolment the server made for the last request of each
enroll. `Held` is every enrolment in the file, in what a power loss may bring
back, and in memory.

### Snapshot and Collectors

`registry`, `facts` and `components` are the variables of the code, `at` the
position of the loop in `build()`. `Snapshot` has the operations
(`CollectFacts`, `CollectComponents`, `CollectorRaises`) over whatever a
collector returns; `Collectors` says what each returns. Sources (files, the
output of lsblk, lspci, nvidia-smi) are short sequences of parsed lines, `Bad`
is text that should be a number, and the fields that only describe (vendor,
model, serial) are left out.

Three collectors take several steps. The cpu parser reads line by line, with its
own variables `current` and `sockets`; `Blocks`, `InBlock` and `SocketOf` define
what a text means without a loop: a block is a longest stretch without blank
lines that holds an entry. The network devices are listed once and read one by
one, and the machine may change in between (`Replug`). The default route is read
before the addresses of its interface. The others read at once, so one step over
all of the sources is what they do.

## Runs and what they show

| run | instance | shows |
|---|---|---|
| `update_safe` | 3 versions, one `Dead`, every point of both tasks raises, 2 outages; 38 943 states | all safety properties, and `KeepsPromise`: the update implements `Failover` |
| `update_live` | 3 versions, one `Mute`, 1 outage, odd responses raise; 4 771 states | `TrialEnds`, `FailsOver` |
| `update_dead` | a `Dead` version | finding 1 |
| `update_crash` | 1 crash | finding 2 |
| `update_raise` | file operations raise | finding 3 |
| `update_power` | 2 versions, one power loss, no exception | finding 6 |
| `daemon_safe` | 3 versions, one `Dead`, 2 outages, an odd response, a full disk or a failing replace, heartbeats and removal reports may be late; 1 133 770 states | `UpdatesItself`: the daemon implements `SelfUpdate`; the goodbye is the last request; what the server was told of a stop or a removal stands |
| `daemon_signal` | self-update on | finding 4 |
| `daemon_removal` | no update | finding 5 |
| `cleanup` | self-update off, every report may be lost or late, an odd response, a unit file that cannot be removed, 1 crash or stop and any number of power losses during the script; 61 024 states | no process runs on a half clean host; what the script passed is gone; SIGTERM ends the process; a hand-off ends it and the script comes to its end; `RunsDaemon` |
| `store` | a daemon and an enroll, 2 tokens, 1 version, every kind of answer, 2 kills, power losses or removals; 836 158 states | `SavesAtomically`: saves implement `Register`; a load never finds half a state and, after a save, finds one; no litter but of saves that were cut off; the exit status of an enroll says what became of its enrolment |
| `snapshot` | the nine collectors and three others in 7 lists of imports, one of which names a collector twice; every cpuinfo of up to 5 lines over 11 kinds of line, two devices of three under change, sources of up to 2 lines; 285 050 states | `SocketsByBlocks`, `NicsReported`, `PrimaryAddresses`, `FirstFactWins`, `EachContributesOnce` |

The properties, by the question they answer:

* Is there always a binary to fall back to? `BinaryIntact`, `FallbackKept`,
  `RevertHasBackup`, until `ForfeitNeedsFailure`; summed up by `KeepsPromise`.
* Does the record tell the truth? `RecordDescribesDisk`, `MemoryMatchesDisk`,
  `RecordEndsByVerdict`.
* Is every trial judged? `TrialIsWatched`, `TrialEnds`, `FailsOver`.
* What may be installed? `OnlyVerifiedInstalled`.
* What does the server hear last, and may it rely on it? `GoodbyeIsLast`,
  `StoppedUntilStarted`, `RemovalStands`.
* Does it stop, and is the host clean then? `SignalEndsRun`, `HandOffCleansUp`,
  `DaemonHasFiles`, `ScriptUndoes`.
* Can the state always be read? `AlwaysReadable`, `LoadFindsState`,
  `LeftOnlyByOutages`, `SavesAtomically`.
* Is an enrolment what the server made, and does enroll tell the truth about it?
  `EnrolmentsAreReal`, `FailedEnrollLeavesNothing`, `SuccessIsSaved`.
* Is a snapshot what its collectors said? `FirstFactWins`,
  `EachContributesOnce`, `SocketsByBlocks`, `NicsReported`, `PrimaryAddresses`.

**Bounds.** Three versions are enough for the longest story in the code: an
update on trial, its successor or the version it came from, and one that
fails. Two outages are a crash in the middle of an update and another in the
middle of what the first one left behind. The set of versions has no symmetry
declared since `Initial`, `Dead` and `Mute` tell them apart. Two or three
versions and one or two outages in `Daemon` let a signal, a removal and an
update meet; the file operations inside an update are `SelfUpdate`'s runs'.
`Lingering` is the heartbeat and the removal report in `daemon_safe`, which may
overtake a goodbye and a report; all three reports in `cleanup`; and none in the
two runs that find a violation, which needs no late request.
`Cleanup` has no update, which does not meet the script:
`Stopped` waits until the process is down. `Command` has one process of each
kind, so that two saves overlap; a third adds no new pair of steps. Two tokens
let one enroll follow another. In `Collectors` two devices that change, beside a
virtual one, let one go while the other is read; `PrimaryAddresses` looks at
lists of up to three addresses, one more than the collisions of a family need.
Five lines are two blocks of two entries with a blank line between them, the
shortest text in which blocks share a socket, override an entry, and differ in
every number. Of the collectors the theorems do without these bounds, but for
`MaxLines` and `MaxItems` being some number.

**Fairness.** Weak fairness only, on: systemd starting the service (see below), an
image coming up or dying, each task (asyncio resumes what is ready; every wait of
the code has a timeout, in httpx, `wait_for` or `subprocess.run`), and `run()`.
None on crashes, signals, the server or the network. In particular a heartbeat
need never be answered: `TrialEnds` rests on the watchdog alone. `Cleanup` adds
the transient unit running its script and systemd's stop job; it has no fairness
on the service being started, which may happen or not.

`Restart=on-failure` (`src/README.md:65`) starts the service again after a crash,
and the boot does after a reboot. After a clean stop nothing does but an operator.
`WF(Start)` in `SelfUpdate` and `Daemon` therefore assumes that a stopped service is
started again at some time: `TrialEnds` and `FailsOver` hold of an agent that
somebody wants to run, not of one that is stopped on trial and left.

`cleanup` has self-update off because with it on `SignalEndsRun` is false
(finding 4). `HandOffCleansUp` excuses a script that the power cut off, and a
process that crashed or was stopped by others first.

`CHECK_DEADLOCK FALSE` is set in the update's, the daemon's and the cleanup's
runs: an agent that is removed, or whose installed file a `Dead` binary occupies
with no outages left, may stop. In `snapshot` it is set because an import that
registers a name twice ends the program.

What the properties' statements leave out, each because it is false of the code:

* After the promise of the update is forfeited the four properties named with
  `forfeited` above say nothing. Without that condition TLC finds the story: the
  save of a revert raises, the process is answered after all and copies another
  update over the backup, it crashes in the copy, and the next process, on trial
  by the old record, moves half a file into place.
* `FailsOver` is checked with a watchdog that does not raise. If the save of its
  revert does, nothing has been restored, the watchdog has ended, and a version
  that cannot reach the server runs on until somebody restarts it.
* A request that was given up may reach the server after a goodbye or a removal
  report: `StoppedUntilStarted` and `RemovalStands` excuse that one.
* An enroll that was interrupted exits with 0 whether it has saved or not
  (`cli.py:126`); `SuccessIsSaved` leaves it out.

## Findings

1. **A binary that dies at start-up is never reverted** (`update_dead`). The
   smoke test runs `version`; the watchdog lives in the new binary's `run()`.
2. **A crash between the swap and the save loses the trial** (`update_crash`).
   The new binary runs with no record and no watchdog.
3. **An `OSError` in an update ends the heartbeat task** (`update_raise`). Only
   `UpdateError` is caught; `run()` waits on with no heartbeats.
4. **`execv` forgets a SIGTERM** (`daemon_signal`). One that comes during the
   synchronous verify-swap-save stretch is noted by python, not handled, and
   gone with the image.
5. **An ordinary goodbye can follow a removal report** (`daemon_removal`).
   `removed` is set only after the hand-off.
6. **A power loss can take the fallback of a trial** (`update_power`). The record
   is synced; the backup it promises is not, so that after the power loss the
   record is there and what the watchdog would restore is torn.

## Proofs

`SelfUpdateProofs` proves types first (`TypeCorrect`), and then `InvariantHolds`,
for every choice of the points that raise. The invariants of the runs are not
inductive: `FallbackKept` alone does not survive `RevertRestores`, since nothing
says what the backup is while a revert is under way. The inductive invariant has
two parts. `AlwaysInv` holds in every state: at most one task is between awaits,
memory has the record on disk or, after a failed revert, none, a trial is watched,
an update begins only in a process that was answered, and a confirmed record is
cleared before the backup goes. `KeptInv` holds until the promise is forfeited:
from the copy to the swap the installed binary is the proven one, and a record or
a revert under way means that the backup is proven and in place. A
step forfeits at `AcceptStaged` and only if a record is on disk that memory does
not have, which by `AlwaysInv` takes a failed watchdog: that is
`ForfeitIsAFailedRevert`, and the reason `KeptInv` is kept by every other step.
From the two follow `BinaryStaysIntact`, `FallbackIsKept`, `RecordIsTrue`,
`RevertFindsBackup` (until the promise is forfeited), and `MemoryIsDisk`,
`TrialAlwaysWatched` and, as action properties, `InstalledIsVerified` and
`RecordNeedsVerdict` (in any case).

The module also proves that `SelfUpdate` implements `Failover`
(`UpdateImplementsFailover`). The mapping has `current` as the active version
and `proven` as the accepted ones; `fallback` is the backup while a trial is on,
which includes the points inside a swap and a revert where the record on disk
does not say so. `forfeited` maps to itself: after it `Failover` allows anything
but that a version's acceptance is forgotten.

`DaemonProofs` proves that `Daemon` implements `SelfUpdate`
(`DaemonUpdatesItself`), so that every theorem above holds of the whole daemon
(`DaemonKeepsFallback` and `DaemonTypeCorrect` for two), and
`GoodbyeIsTheLastRequest`, from the lemma that the tasks have ended once `run()`
is past its wait. `RemovalStandsFirm` and `StopIsKnown` hold for every `Lingering`.
Their invariant is about what is in flight and not given up: once the tasks have
ended the goodbye is, at most, and after a hand-off nothing. `view` changes only to
what was in flight, so anything else that changes it was late.

`CleanupProofs` proves one invariant, `CleanupInvariant`: past its first command
the script works on a host whose service is disabled and down, no file is gone
before that, and the daemon believes the unit to run only while the script is at
its first command. From it follow `ProcessHasItsFiles`, `ScriptIsUndoing` (with
its own induction over the lines passed), `CleanupTypeCorrect`, and
`CleanupRunsDaemon`, where the commands after the first are stutters of `Daemon`.

`StoreProofs` proves the types (`StoreTypeCorrect`: a process that dies in a
save leaves one temporary file, and an outage ends each process at most once, so
there are never more than `MaxOutages` per process) and that what the name stands
for is always flushed and whole (`StoreInvariant`: the inductive part is what the
temporary file of a process holds at each step of its save), hence
`StoreIsReadable`, `LoadIsTruthful` and `SavesCleanUp`, and that `StateStore`
implements `Register` (`SavesImplementRegister`): `Replace` is the one step that takes
effect, a raise or a kill before it is a refusal, everything else stutters.

`CommandProofs` proves that `Command` implements `StateStore`
(`CommandImplementsStore`), hence the theorems above of it, together with an
invariant: what a process saves was made by the server, an enrolment is in the
hands of the process that asked for it until its save, and one whose save has
not taken effect is in no file and no other memory. `OnlyRealEnrolments`,
`FailureLeavesNothing` and `ZeroMeansSaved` follow, for any number of enrolls.

`SequenceLemmas` has what the proofs about the collectors need and the library
cannot give, since its induction theorems take an operator. Here induction is over
a set: the numbers that are not in it would have a least one (`LeastNatural`,
from the well-foundedness of the order of the naturals), so a set with 0, and
with n + 1 if it has n, has every number (`Induction`). From it follow that a
recursion over 0..n has a solution (`Recursion`), that the recursion of
`FoldLeft`, over sets of positions, has one (`FoldExists`), what `FlattenSeq` of a
longer sequence is (`FlattenAppend`), and that a finite set of naturals can be
listed in order (`EnumerationExists`).

`SnapshotProofs` begins with the types of what the collectors keep
(`CollectorTypes`: what a flush makes of a block is a socket of numbers unless it
raises, what the walk reads of a device is an address). Every step of
`Collectors` is then one of the operations of `build()`, with a sequence of
components or any facts, or leaves `build()` alone (`EveryStepBuilds`).
`FirstFactWins` is inductive with the lengths and positions of `build()`
(`FirstCollectorWins`). `ComponentsAddUp` proves `EachContributesOnce`: a step adds
one sequence at the end of what the collectors contributed, and `FlattenAppend`
says what that does to the whole. `CollectorsTypeCorrect` is the types.

`CollectorsProofs` proves of any lists, devices and lines what the runs check of
short ones:

* `PrimaryIsFirst`, that `NetworkFacts` has the first address of each family that
  is not link-local: induction over the first k addresses.
* `WalkReports`, that the walk over the network devices reports each once, only
  what was seen, and all that stayed. `WalkInv` says where a device that stayed
  is: reported, still on the list, or being read with the address it has had all
  along; and that the rest of the list and what is reported have no device in
  common.
* `BlocksMakeSockets`, that the parser's one pass over the lines gives what
  `Blocks` and `SocketOf` say of the text as a whole. `CpuInv` says that
  `current` has the last value of each key since the line the open block begins
  at, and that `sockets` describes the blocks that a blank line has ended. The
  maxima and the first model are kept as facts about members (`Describes`);
  `DescribedIs` turns them into the `Max`, `Min` and `CHOOSE` of `SocketOf`, since
  no two blocks begin at the same line. `FlushDescribes` is the step, `TextGrows`
  that a further line changes no block but the last.

The assumptions are the ASSUMEs on the constants (`VersionAssumption`: the
installer's version reaches the server; `FaultAssumption`: at which points
exceptions may escape; `LingeringAssumption`, `FailAssumption`,
`StoreAssumption`, `CommandAssumption`, `SnapshotAssumption`,
`CollectorAssumption`); no theorem assumes more. `Enrollers` and `Interfaces` are
finite sets: processes are started one by one, and the kernel's names of devices
are at most 15 bytes long. `None` stands for Python's `None` and is neither a name nor a list.

What is only model-checked is liveness under fairness, which the prover does not
reach: `TrialEnds`, `FailsOver`, `SignalEndsRun`, `HandOffCleansUp`. Every
invariant, action property and refinement that a passing run checks is also a
theorem. The properties of the runs that find a violation are false, and have
none.

## What is not modelled

* The bytes: canonical JSON, Ed25519, SHA-256, HTTP, pydantic's validation of the
  settings. Their verdicts are inputs. `has_expired` has no caller outside the
  tests.
* Wall-clock time, see the deadline above.
* The three kinds of goodbye (`classify_shutdown`): one report.
* TLS trust and logging: configuration of libraries, no state of the agent.
* `systemctl disable --now` failing as a whole: it is taken to work.
* Temporary files of a download: a cancel or a crash leaves one beside the binary
  and nothing looks for it. It changes no decision of the agent.
* A full disk on which even `unlink` fails.
* A collector that returns a value of the wrong type: none in the repository
  does. The fields of a component that only describe it.
* What the server does with an inventory that it handles after a removal.

## Plan

Done: all modules named above. What would extend them:

1. The staging directory, with the temporary files of downloads over several
   processes, beside the binary in `SelfUpdate`.
2. `PowerLoss` with renames undone, and what remains true of the update then.
3. Theorems about `PowerLoss`: what of `SelfUpdate`'s invariant survives a page
   cache that was not written back.
