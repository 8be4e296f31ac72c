------------------------------ MODULE RunBoard ------------------------------
(***************************************************************************)
(* What the broker promises about test runs, without timers, sockets,      *)
(* commands or status replies: which agents are registered, which run an   *)
(* agent serves, the state of a run in the database and which runs are     *)
(* announced as finished on the publisher.  BrokerCtrl implements it.      *)
(***************************************************************************)
EXTENDS Roster

CONSTANTS
    BadObserver   \* runs whose observers cannot be resolved: never announced

VARIABLES
    registered,   \* agents the broker knows
    serves,       \* the run each agent serves
    state,        \* "absent", "active" or "ended"
    announced     \* runs announced as finished by the last step

vars == <<registered, serves, state, announced>>

Crew(r) == {a \in Agents : serves[a] = r}
Idle == {a \in registered : serves[a] = NoRun}

Init ==
    /\ registered = {}
    /\ serves = [a \in Agents |-> NoRun]
    /\ state = [r \in RunIds |-> "absent"]
    /\ announced = {}

Join(a) ==
    /\ registered' = registered \cup {a}
    /\ announced' = {}
    /\ UNCHANGED <<serves, state>>

\* A new run gets idle, registered agents only; those in lost drop out.
Start(r, crew, lost) ==
    /\ state[r] = "absent"
    /\ crew # {} /\ crew \subseteq Idle
    /\ lost \subseteq crew
    /\ registered' = registered \ lost
    /\ serves' = [a \in Agents |-> IF a \in crew \ lost THEN r ELSE serves[a]]
    /\ state' = [state EXCEPT ![r] = "active"]
    /\ announced' = {}

\* Data of an agent that serves nothing puts the agent (back) on a run.
Adopt(a, r) ==
    /\ serves[a] = NoRun
    /\ registered' = registered \cup {a}
    /\ serves' = [serves EXCEPT ![a] = r]
    /\ announced' = {}
    /\ UNCHANGED state

\* Agents leave their runs; those in lost are forgotten as well.  A run whose
\* whole crew leaves with nobody lost must end, one whose whole crew is lost
\* does not end, and no run ends while part of its crew stays.
Leave(gone, lost, over) ==
    /\ lost \subseteq gone
    /\ \A r \in RunIds :
         LET emptied == Crew(r) # {} /\ Crew(r) \subseteq gone
         IN /\ r \in over => emptied /\ ~(Crew(r) \subseteq lost)
            /\ emptied /\ Crew(r) \cap lost = {} => r \in over
    /\ registered' = registered \ lost
    /\ serves' = [a \in Agents |-> IF a \in gone THEN NoRun ELSE serves[a]]
    /\ state' = [r \in RunIds |-> IF r \in over THEN "ended" ELSE state[r]]
    /\ announced' = over \ BadObserver

\* A client forces the flags of a run nobody serves.
ForceEnd(r) ==
    /\ Crew(r) = {}
    /\ state' = [state EXCEPT ![r] = "ended"]
    /\ announced' = {}
    /\ UNCHANGED <<registered, serves>>

\* Something that is not the board's business happened.
Quiet ==
    /\ announced' = {}
    /\ UNCHANGED <<registered, serves, state>>

Next ==
    \/ \E a \in Agents : Join(a)
    \/ \E r \in RunIds : \E crew \in SUBSET Agents : \E lost \in SUBSET crew :
         Start(r, crew, lost)
    \/ \E a \in Agents, r \in RunIds : Adopt(a, r)
    \/ \E gone \in SUBSET Agents : \E lost \in SUBSET gone :
         \E over \in SUBSET RunIds : Leave(gone, lost, over)
    \/ \E r \in RunIds : ForceEnd(r)
    \/ Quiet

Spec == Init /\ [][Next]_vars
=============================================================================
