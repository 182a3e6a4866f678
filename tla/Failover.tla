------------------------------ MODULE Failover ------------------------------
(***************************************************************************)
(* What the self-update promises, without files, tasks or crashes: there   *)
(* is an active version, and while it has not been accepted by the server  *)
(* there is an accepted one to fall back to.  The promise may be forfeited, *)
(* while an accepted version is active, and binds nothing from then on.    *)
(***************************************************************************)
CONSTANTS Versions, Initial, None

VARIABLES
    active,    \* the installed version
    fallback,  \* the version a failed trial returns to, or None
    accepted,  \* the versions the server has answered
    forfeited  \* the promise is off

vars == <<active, fallback, accepted, forfeited>>

Init ==
    /\ active = Initial
    /\ fallback = None
    /\ accepted = {Initial}
    /\ forfeited = FALSE

\* Another version is put on trial; the accepted one is kept.
Try(v) ==
    /\ active \in accepted
    /\ active' = v
    /\ fallback' = active
    /\ UNCHANGED accepted

\* A version reaches the server.  If the active one is accepted then, the
\* trial may be over at once.
Accept(v) ==
    /\ accepted' = accepted \cup {v}
    /\ \/ UNCHANGED fallback
       \/ active \in accepted' /\ fallback' = None
    /\ UNCHANGED active

\* The trial of an accepted version ends.
Settle ==
    /\ active \in accepted
    /\ fallback' = None
    /\ UNCHANGED <<active, accepted>>

\* The trial ends where it began.
RollBack ==
    /\ fallback \in accepted
    /\ active' = fallback
    /\ fallback' = None
    /\ UNCHANGED accepted

\* What the failed trial of an accepted version would have returned to goes.
Forfeit ==
    /\ active \in accepted
    /\ forfeited' = TRUE
    /\ UNCHANGED <<active, accepted>>

Keep ==
    /\ \/ \E v \in Versions : Try(v) \/ Accept(v)
       \/ Settle
       \/ RollBack
    /\ UNCHANGED forfeited

\* Without the promise, what the server has accepted is all that stays.
Drift ==
    /\ forfeited
    /\ accepted \subseteq accepted'
    /\ UNCHANGED forfeited

Next == Keep \/ Forfeit \/ Drift

Spec == Init /\ [][Next]_vars
=============================================================================
