------------------------------- MODULE Command -------------------------------
(***************************************************************************)
(* The command line over the state file: `sum-agent enroll' with its one   *)
(* request (client.py, core/http.py), what `sum-agent run' says of the     *)
(* file it finds, and the exit status main() makes of either.              *)
(*                                                                         *)
(* An enrolment token is good for one enrolment, and stands for it here.   *)
(* The server spends it when it handles the request; the answer may still  *)
(* be lost, or be one that the client cannot use.                          *)
(***************************************************************************)
EXTENDS StateStore

VARIABLES
    spent,  \* external: the tokens the server has made an enrolment for
    asks,   \* the token in the request of each enroll, None without one
    reply,  \* what came back for it, or None
    made,   \* history: the enrolment the server made for the last request
    ended   \* how the last command of each process ended, None if it did not

commandVars == <<vars, spent, asks, reply, made, ended>>
request == <<spent, asks, reply, made>>

\* The body of an answer: what the API says it is, JSON of another shape, text
\* that is no JSON, or nothing.
Replies == [ok : BOOLEAN, body : {"expected", "odd", "text", "empty"}]

ASSUME CommandAssumption == None \notin Replies

\* request_json after the request itself.  Where `error' of an error body is
\* no object, env.get is no method.
RequestJson(r) ==
    CASE ~r.ok /\ r.body = "odd"  -> "AttributeError"
      [] ~r.ok /\ r.body # "odd"  -> "ServerError"
      [] r.ok /\ r.body = "text"  -> "ValueError"
      [] OTHER                    -> "return"

\* client.enroll: a body of another shape, or None, has no host_id.
EnrollOutcome(r) ==
    IF RequestJson(r) = "return" /\ r.body # "expected" THEN "TypeError"
    ELSE RequestJson(r)

\* Mutant of Status: whatever was raised is printed, and that is all.
StatusPrinted(outcome) == IF outcome = "NotEnrolledError" THEN 64 ELSE 0

\* The exit status; 1 is Python's for an exception main() does not catch.
Status(outcome) ==
    CASE outcome \in {"return", "KeyboardInterrupt"}      -> 0
      [] outcome \in {"NoServerUrl", "NotEnrolledError"}  -> 64
      [] outcome = "StateCorruptedError"                  -> 65
      [] outcome \in {"ServerError", "TransportError"}    -> 69
      [] outcome = "killed"                               -> 137
      [] OTHER                                            -> 1

CommandInit ==
    /\ Init
    /\ spent = {}
    /\ asks = [p \in Enrollers |-> None]
    /\ reply = [p \in Enrollers |-> None]
    /\ made = [p \in Enrollers |-> None]
    /\ ended = [p \in Processes |-> None]

Ends(p, outcome) == ended' = [ended EXCEPT ![p] = outcome]

-----------------------------------------------------------------------------
(* enroll.                                                                 *)

Idle(p) == pc[p] = "off" /\ asks[p] = None

\* Neither --server-url nor the setting.
EnrollWithoutUrl(p) ==
    /\ Idle(p)
    /\ Ends(p, "NoServerUrl")
    /\ made' = [made EXCEPT ![p] = None]
    /\ UNCHANGED <<vars, spent, asks, reply>>

SendEnroll(p, token) ==
    /\ Idle(p)
    /\ asks' = [asks EXCEPT ![p] = token]
    /\ made' = [made EXCEPT ![p] = None]
    /\ Ends(p, None)
    /\ UNCHANGED <<vars, spent, reply>>

\* External: the server makes the enrolment, or answers with an error; between
\* the two ends the body may become anything.
HandleEnroll(p) ==
    /\ asks[p] # None /\ reply[p] = None
    /\ \E r \in Replies :
         /\ r.ok => asks[p] \notin spent
         /\ reply' = [reply EXCEPT ![p] = r]
         /\ made' = [made EXCEPT ![p] = IF r.ok THEN asks[p] ELSE @]
         /\ spent' = IF r.ok THEN spent \cup {asks[p]} ELSE spent
    /\ UNCHANGED <<vars, asks, ended>>

CloseRequest(p) ==
    /\ asks[p] # None
    /\ asks' = [asks EXCEPT ![p] = None]
    /\ reply' = [reply EXCEPT ![p] = None]

\* httpx raises, before or after the server has had the request, or enroll is
\* interrupted or killed: the server may handle it all the same.
RequestFails(p) ==
    /\ CloseRequest(p)
    /\ \E outcome \in {"TransportError", "KeyboardInterrupt", "killed"} :
         Ends(p, outcome)
    /\ spent' \in {spent, spent \cup {asks[p]}}
    /\ UNCHANGED <<vars, made>>

EnrollRaises(p) ==
    /\ reply[p] # None
    /\ EnrollOutcome(reply[p]) # "return"
    /\ Ends(p, EnrollOutcome(reply[p]))
    /\ CloseRequest(p)
    /\ UNCHANGED <<vars, spent, made>>

\* Mutant of EnrollAnswered: the state is saved whatever came back.
SaveUnanswered(p) ==
    /\ pc[p] = "off"
    /\ CloseRequest(p)
    /\ BeginSave(p, [enrolment |-> asks[p], pending |-> None])
    /\ UNCHANGED <<spent, made, ended>>

\* The State of the answer, and on to its save.
EnrollAnswered(p) ==
    /\ pc[p] = "off"
    /\ reply[p] # None
    /\ EnrollOutcome(reply[p]) = "return"
    /\ BeginSave(p, [enrolment |-> made[p], pending |-> None])
    /\ CloseRequest(p)
    /\ UNCHANGED <<spent, made, ended>>

-----------------------------------------------------------------------------
(* The steps of StateStore, and the ends they bring.                       *)

RunWithoutUrl ==
    /\ pc[Daemon] = "off"
    /\ Ends(Daemon, "RuntimeError")
    /\ UNCHANGED <<vars, request>>

\* A daemon that finds no file ends there.
LoadStep ==
    /\ \/ LookUp /\ Ends(Daemon, IF file = None THEN "NotEnrolledError" ELSE None)
       \/ ReadState /\ UNCHANGED ended
       \/ ReadCorrupted /\ Ends(Daemon, "StateCorruptedError")
    /\ UNCHANGED request

DaemonStep ==
    /\ \/ ChangeRecord /\ UNCHANGED ended
       \/ Quit /\ Ends(Daemon, "return")
    /\ UNCHANGED request

\* An OSError goes through main().  The daemon outlives its saves.  The first
\* SIGINT during a save takes effect when it is over.
SavesOn(p) ==
    /\ \/ (MakeTemp(p) \/ WriteTemp(p) \/ SyncTemp(p)) /\ UNCHANGED ended
       \/ /\ Replace(p)
          /\ IF p = Daemon THEN UNCHANGED ended
             ELSE \E outcome \in {"return", "KeyboardInterrupt"} : Ends(p, outcome)
       \/ /\ SaveRaises(p)
          /\ IF p = Daemon THEN UNCHANGED ended ELSE Ends(p, "OSError")
    /\ UNCHANGED request

\* A kill, or the second SIGINT.
CutOff(p) ==
    /\ Kill(p)
    /\ \E outcome \in {"killed"} \cup {"KeyboardInterrupt" : q \in {p} \ {Daemon}} :
         Ends(p, outcome)
    /\ UNCHANGED request

\* Every process is gone; what the server did, it did.
MachineStep ==
    \/ /\ PowerLoss
       /\ asks' = [p \in Enrollers |-> None]
       /\ reply' = [p \in Enrollers |-> None]
       /\ ended' = [p \in Processes |->
                      IF pc[p] # "off" \/ (p # Daemon /\ asks[p] # None)
                      THEN "killed" ELSE ended[p]]
       /\ UNCHANGED <<spent, made>>
    \/ (Writeback \/ RemoveDirectory) /\ UNCHANGED <<request, ended>>

CommandNext ==
    \/ \E p \in Enrollers :
         \/ EnrollWithoutUrl(p)
         \/ \E token \in Enrolments : SendEnroll(p, token)
         \/ HandleEnroll(p)
         \/ RequestFails(p)
         \/ EnrollRaises(p)
         \/ EnrollAnswered(p)
    \/ RunWithoutUrl
    \/ LoadStep
    \/ DaemonStep
    \/ \E p \in Processes : SavesOn(p) \/ CutOff(p)
    \/ MachineStep

CommandSpec == CommandInit /\ [][CommandNext]_commandVars

-----------------------------------------------------------------------------
(* Properties.                                                             *)

\* The enrolments of the files, of what a power loss may bring back, and of
\* what the processes hold.
Held ==
    {f.content.enrolment : f \in {g \in (older \cup {file}) \ {None} :
                                    g.content # Torn}}
      \cup {memory[p].enrolment : p \in {q \in Processes : memory[q] # None}}

\* An agent never has an enrolment the server did not make for it, whatever
\* answers were lost, garbled or refused.
EnrolmentsAreReal == Held \subseteq spent

\* A command that failed.
Failed(p) == ended[p] # None /\ Status(ended[p]) \notin {0, 137}

\* The enrolment of an enroll that says it failed is nowhere, and no power loss
\* brings it back: an operator who enrolls again never finds the host under the
\* first one.
FailedEnrollLeavesNothing ==
    \A p \in Enrollers : Failed(p) /\ made[p] # None => made[p] \notin Held

\* An enroll that exits with 0 and was not interrupted has put its enrolment
\* under the name.
SuccessIsSaved ==
    [][\A p \in Enrollers :
         ended[p] = None /\ ended'[p] # None /\ Status(ended'[p]) = 0 =>
           \/ ended'[p] = "KeyboardInterrupt"
           \/ file' # None /\ file'.content.enrolment = made[p]]_commandVars
=============================================================================
