------------------------------ MODULE PowerLoss ------------------------------
(***************************************************************************)
(* SelfUpdate on a machine that may lose power.  save() syncs state.json   *)
(* before it moves it into place; the download, copy2 and os.replace of    *)
(* updater.py sync nothing.  Here a rename outlives the loss, the better   *)
(* case for the code (StateStore lets one be undone), and content that the *)
(* kernel has not written back by then need not outlive it.                *)
(***************************************************************************)
EXTENDS SelfUpdate

VARIABLE loose  \* the files whose content is in the page cache only

powerVars == <<vars, loose>>

\* A rename takes the pages of the file with it.
Moved(from, to) ==
    IF from \in loose THEN (loose \ {from}) \cup {to} ELSE loose \ {to}

\* A step of the update, and what it writes.  copy2 truncates the backup when
\* it opens it, and has written all of it when it is done.
Step ==
    /\ Next
    /\ loose' = CASE \E v \in Versions : Fetched(v) -> loose \cup {"staged"}
                  [] AcceptStaged \/ CopyDone       -> loose \cup {"backup"}
                  [] SwapIn                         -> Moved("staged", "current")
                  [] RevertRestores                 -> Moved("backup", "current")
                  [] OTHER                          -> loose

\* The kernel writes a file back, when it likes.
WriteBack ==
    /\ \E f \in loose : loose' = loose \ {f}
    /\ UNCHANGED vars

\* Each file that has not been written back is there whole, or it is not.
LosePower ==
    /\ hb # "down"
    /\ outages < MaxOutages
    /\ outages' = outages + 1
    /\ current' \in {current} \cup {Torn : f \in loose \cap {"current"}}
    /\ backup' \in {backup} \cup {Torn : f \in loose \cap {"backup"}}
    /\ loose' = {}
    /\ hb' = "down"
    /\ wd' = "off"
    /\ running' = None
    /\ pending' = None
    /\ staged' = None
    /\ answer' = NoAnswer
    /\ UNCHANGED <<stored, history>>

PowerSpec ==
    /\ Init
    /\ loose = {}
    /\ [][Step \/ WriteBack \/ LosePower]_powerVars

\* A record that is on disk, and so outlives a power loss, promises a backup
\* that does too.
RecordHasFallback == stored # None => backup \in proven
=============================================================================
