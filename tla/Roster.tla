------------------------------- MODULE Roster -------------------------------
(* The agents and the runs every module of the cluster talks about. *)

CONSTANTS
    Agents,   \* agent ids: host name and process id, so never reused
    RunIds,   \* the uuids CTRL_RUN may draw
    NoRun     \* no run: an agent that serves none, a command about none

ASSUME RosterAssumption == NoRun \notin RunIds
=============================================================================
