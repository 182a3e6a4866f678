----------------------------- MODULE StateStore -----------------------------
(***************************************************************************)
(* The state file: the steps of save and load in core/state.py, with the   *)
(* processes that share the file without a lock.  The daemon loads it once *)
(* and saves it whenever its record of an update changes; any number of    *)
(* `sum-agent enroll' save a fresh state beside it.                        *)
(*                                                                         *)
(* A process may be killed between two steps.  A power loss also forgets   *)
(* what was not flushed: content that no fsync wrote is gone, and a rename *)
(* since the last writeback may not have happened.                         *)
(***************************************************************************)
EXTENDS Naturals, FiniteSets

CONSTANTS
    Enrolments,  \* what an enrolment gives: server, host id, token, key
    Versions,    \* the versions a record of an update may name
    None,        \* no file, no record, no state
    Torn,        \* content that is no state
    Daemon,      \* `sum-agent run'
    Enrollers,   \* runs of `sum-agent enroll'
    MaxOutages   \* bound on kills, power losses and removals

Processes == {Daemon} \cup Enrollers

States == [enrolment : Enrolments, pending : Versions \cup {None}]

Files == [content : States \cup {Torn}, flushed : BOOLEAN]

\* Where a process is inside save, between two file operations.
Saving == {"making", "writing", "syncing", "replacing"}

ASSUME StoreAssumption ==
    /\ Daemon \notin Enrollers
    /\ None \notin Versions \cup Files \cup States
    /\ Torn \notin States
    /\ IsFiniteSet(Enrollers)
    /\ MaxOutages \in Nat

VARIABLES
    file,     \* what the name state.json stands for, or None
    older,    \* what it stood for since the last writeback
    temp,     \* the temporary file of each process, or None
    left,     \* number of temporary files nobody will remove
    memory,   \* the State object of each process, or None
    pc,       \* where each process is
    result,   \* what became of the last save of each process
    loaded,   \* what became of the last load of the daemon
    outages   \* kills, power losses and removals so far

vars == <<file, older, temp, left, memory, pc, result, loaded, outages>>
shared == <<file, older>>

STypeOK ==
    /\ file \in Files \cup {None}
    /\ older \subseteq Files \cup {None}
    /\ temp \in [Processes -> Files \cup {None}]
    /\ left \in 0..(MaxOutages * Cardinality(Processes))
    /\ memory \in [Processes -> States \cup {None}]
    /\ pc \in [Processes -> {"off", "reading", "up"} \cup Saving]
    /\ result \in [Processes -> {"none", "saved", "raised", "lost"}]
    /\ loaded \in {"none", "state", "absent", "unread", "invalid"}
    /\ outages \in 0..MaxOutages

Init ==
    /\ file = None
    /\ older = {}
    /\ temp = [p \in Processes |-> None]
    /\ left = 0
    /\ memory = [p \in Processes |-> None]
    /\ pc = [p \in Processes |-> "off"]
    /\ result = [p \in Processes |-> "none"]
    /\ loaded = "none"
    /\ outages = 0

-----------------------------------------------------------------------------
(* load: exists, then read_text.                                           *)

LookUp ==
    /\ pc[Daemon] = "off"
    /\ pc' = [pc EXCEPT ![Daemon] = IF file = None THEN "off" ELSE "reading"]
    /\ loaded' = IF file = None THEN "absent" ELSE "none"
    /\ UNCHANGED <<shared, temp, left, memory, result, outages>>

\* The file parses and validates.
Readable == file # None /\ file.content # Torn

\* The whole file is read at once: a name stands for one content.
ReadState ==
    /\ pc[Daemon] = "reading"
    /\ Readable
    /\ memory' = [memory EXCEPT ![Daemon] = file.content]
    /\ pc' = [pc EXCEPT ![Daemon] = "up"]
    /\ loaded' = "state"
    /\ UNCHANGED <<shared, temp, left, result, outages>>

\* StateCorruptedError, exit status 65.  An OSError can come of any file, the
\* one deleted since LookUp among them; a JSONDecodeError or ValidationError
\* comes of content that is no state.
ReadCorrupted ==
    /\ pc[Daemon] = "reading"
    /\ pc' = [pc EXCEPT ![Daemon] = "off"]
    /\ \/ loaded' = "unread"
       \/ file # None /\ ~Readable /\ loaded' = "invalid"
    /\ UNCHANGED <<shared, temp, left, memory, result, outages>>

-----------------------------------------------------------------------------
(* save: its callers, and its steps.                                       *)

BeginSave(p, s) ==
    /\ memory' = [memory EXCEPT ![p] = s]
    /\ pc' = [pc EXCEPT ![p] = "making"]
    /\ result' = [result EXCEPT ![p] = "none"]
    /\ UNCHANGED <<shared, temp, left, loaded, outages>>

\* enroll has an answer: a new State, without a record.
Enroll(p) ==
    /\ pc[p] = "off"
    /\ \E e \in Enrolments : BeginSave(p, [enrolment |-> e, pending |-> None])

\* swap_in sets the record; confirm and revert clear it.
ChangeRecord ==
    /\ pc[Daemon] = "up"
    /\ \E v \in Versions \cup {None} :
         /\ (v = None) # (memory[Daemon].pending = None)
         /\ BeginSave(Daemon, [memory[Daemon] EXCEPT !.pending = v])

\* The next step of a save that changes its own temporary file only.
SaveGoes(p, from, to, f) ==
    /\ pc[p] = from
    /\ pc' = [pc EXCEPT ![p] = to]
    /\ temp' = [temp EXCEPT ![p] = f]
    /\ UNCHANGED <<shared, left, memory, result, loaded, outages>>

MakeTemp(p) ==
    SaveGoes(p, "making", "writing", [content |-> Torn, flushed |-> FALSE])

\* Mutant of WriteTemp: the dump is still in the buffer of the file object.
WriteUnflushed(p) ==
    SaveGoes(p, "writing", "syncing", temp[p])

\* json.dump and flush: whole for every reader, not yet on the disk.  A file
\* that was deleted under its name is written and synced all the same.
WriteTemp(p) ==
    SaveGoes(p, "writing", "syncing",
             IF temp[p] = None THEN None
             ELSE [content |-> memory[p], flushed |-> FALSE])

\* Mutant of SyncTemp: flush without fsync.
FlushOnly(p) == SaveGoes(p, "syncing", "replacing", temp[p])

SyncTemp(p) ==
    SaveGoes(p, "syncing", "replacing",
             IF temp[p] = None THEN None ELSE [temp[p] EXCEPT !.flushed = TRUE])

\* A save is over: enroll exits, the daemon goes on with what it has in memory.
EndSave(p, outcome) ==
    /\ temp' = [temp EXCEPT ![p] = None]
    /\ pc' = [pc EXCEPT ![p] = IF p = Daemon THEN "up" ELSE "off"]
    /\ memory' = [memory EXCEPT ![p] = IF p = Daemon THEN @ ELSE None]
    /\ result' = [result EXCEPT ![p] = outcome]

\* os.replace; save returns.
Replace(p) ==
    /\ pc[p] = "replacing"
    /\ temp[p] # None
    /\ file' = temp[p]
    /\ older' = older \cup {file}
    /\ EndSave(p, "saved")
    /\ UNCHANGED <<left, loaded, outages>>

\* Mutant of SaveRaises: no except clause around the steps.
RaiseAndLeave(p) ==
    /\ pc[p] \in Saving
    /\ left' = IF temp[p] = None THEN left ELSE left + 1
    /\ EndSave(p, "raised")
    /\ UNCHANGED <<shared, loaded, outages>>

\* Mutant of SaveRaises: the target is unlinked, not the temporary file.
RaiseAndUnlink(p) ==
    /\ pc[p] \in Saving
    /\ file' = None
    /\ EndSave(p, "raised")
    /\ UNCHANGED <<older, left, loaded, outages>>

\* Mutant of SaveRaises: the mode is set after the rename, and raises.
RaiseAfterReplace(p) ==
    /\ pc[p] = "replacing"
    /\ temp[p] # None
    /\ file' = temp[p]
    /\ older' = older \cup {file}
    /\ EndSave(p, "raised")
    /\ UNCHANGED <<left, loaded, outages>>

\* Any step raises: the temporary file goes, what is in memory stays.  The
\* unlink itself is taken to work.
SaveRaises(p) ==
    /\ pc[p] \in Saving
    /\ EndSave(p, "raised")
    /\ UNCHANGED <<shared, left, loaded, outages>>

-----------------------------------------------------------------------------
(* Ends of processes, and of the machine.                                  *)

Quit ==
    /\ pc[Daemon] = "up"
    /\ pc' = [pc EXCEPT ![Daemon] = "off"]
    /\ memory' = [memory EXCEPT ![Daemon] = None]
    /\ UNCHANGED <<shared, temp, left, result, loaded, outages>>

\* A kill, or a KeyboardInterrupt, which is no Exception: inside a save the
\* temporary file stays.
Killed(ps) ==
    /\ outages < MaxOutages
    /\ outages' = outages + 1
    /\ temp' = [p \in Processes |-> IF p \in ps THEN None ELSE temp[p]]
    /\ memory' = [p \in Processes |-> IF p \in ps THEN None ELSE memory[p]]
    /\ pc' = [p \in Processes |-> IF p \in ps THEN "off" ELSE pc[p]]
    /\ result' = [p \in Processes |->
                    IF p \in ps /\ pc[p] \in Saving THEN "lost" ELSE result[p]]
    /\ UNCHANGED loaded

Kill(p) ==
    /\ pc[p] # "off"
    /\ Killed({p})
    /\ left' = IF temp[p] = None THEN left ELSE left + 1
    /\ UNCHANGED shared

\* What a power loss makes of a file.
Survivor(f) ==
    IF f = None \/ f.flushed THEN f ELSE [content |-> Torn, flushed |-> TRUE]

\* Each temporary file may be there or not after the restart.
PowerLoss ==
    /\ Killed(Processes)
    /\ file' \in {Survivor(f) : f \in older \cup {file}}
    /\ older' = {}
    /\ left' \in left..(left + Cardinality({p \in Processes : temp[p] # None}))

\* External: the kernel writes back what it holds.
Writeback ==
    /\ older # {}
    /\ older' = {}
    /\ file' = IF file = None THEN None ELSE [file EXCEPT !.flushed = TRUE]
    /\ UNCHANGED <<temp, left, memory, pc, result, loaded, outages>>

\* External: `rm -rf' of the state directory by the cleanup of a removal.
RemoveDirectory ==
    /\ file # None
    /\ outages < MaxOutages
    /\ outages' = outages + 1
    /\ file' = None
    /\ older' = older \cup {file}
    /\ temp' = [p \in Processes |-> None]
    /\ left' = 0
    /\ UNCHANGED <<memory, pc, result, loaded>>

-----------------------------------------------------------------------------
Next ==
    \/ LookUp
    \/ ReadState
    \/ ReadCorrupted
    \/ ChangeRecord
    \/ Quit
    \/ \E p \in Enrollers : Enroll(p)
    \/ \E p \in Processes :
         \/ MakeTemp(p)
         \/ WriteTemp(p)
         \/ SyncTemp(p)
         \/ Replace(p)
         \/ SaveRaises(p)
         \/ Kill(p)
    \/ PowerLoss
    \/ Writeback
    \/ RemoveDirectory

Spec == Init /\ [][Next]_vars

-----------------------------------------------------------------------------
(* Properties.                                                             *)

\* Whatever a power loss leaves under the name is a whole state or nothing.
AlwaysReadable ==
    \A f \in older \cup {file} : f # None => Survivor(f).content \in States

\* What load says of a file is true: none is ever found to be invalid, however
\* it races with the saves of others, and where a save has succeeded there is
\* one, until an outage undoes the save.
LoadFindsState ==
    /\ loaded # "invalid"
    /\ outages = 0 /\ (\E p \in Processes : result[p] = "saved") => file # None

\* A temporary file is left behind only by a save that was cut off: one that
\* raises cleans up.
LeftOnlyByOutages == [][left' > left => outages' > outages]_vars

\* The states a reader sees, and the ones being saved, make a register.
Asked(p) == IF pc[p] \in Saving THEN memory[p] ELSE None

Content(f) == IF f = None THEN None ELSE Survivor(f).content

Store == INSTANCE Register WITH
    Values <- States,
    Empty <- None,
    value <- Content(file),
    past <- {Content(f) : f \in older},
    asked <- [p \in Processes |-> Asked(p)]

\* Saves are atomic, and a process that was told so has saved.
SavesAtomically == Store!Spec
=============================================================================
