----------------------------- MODULE HealthProbe -----------------------------
(***************************************************************************)
(* Readiness: every question joins the one database probe that is running, *)
(* or starts it, and waits for it no longer than a deadline                *)
(* (backend/app/database/manager.py, backend/app/api/health_routes.py).    *)
(* Redis is asked too, but its answer does not decide.                     *)
(***************************************************************************)
EXTENDS Naturals

CONSTANTS Askers   \* requests for the readiness that overlap

VARIABLES database,  \* "up" or "down"; when it is down it refuses or is silent
          probe,     \* "none", "running", "answered" by the database, "ok", "failed"
          asker,     \* asker -> where its question is
          heard      \* askers since whose question a probe ended well

Running == probe \in {"running", "answered"}

(* Fault: the last result will do.                                           *)
AskAnyProbe(a) ==
    /\ asker[a] = "idle"
    /\ asker' = [asker EXCEPT ![a] = IF probe \in {"ok", "failed"} THEN probe ELSE "waiting"]
    /\ probe' = IF probe = "none" THEN "running" ELSE probe
    /\ heard' = heard \ {a}
    /\ UNCHANGED database

(* A question that comes while a probe runs joins it; one that ended is not  *)
(* asked again.                                                              *)
Ask(a) ==
    /\ asker[a] = "idle"
    /\ asker' = [asker EXCEPT ![a] = "waiting"]
    /\ probe' = IF Running THEN probe ELSE "running"
    /\ heard' = heard \ {a}
    /\ UNCHANGED database

(* SELECT 1, on a connection of its own.                                     *)
Select ==
    /\ probe = "running" /\ database = "up"
    /\ probe' = "answered"
    /\ UNCHANGED <<database, asker, heard>>

(* The probe ends for all who wait for it: with the answer, or with an error *)
(* of the connection, among them the timeouts of connecting and commands.    *)
ProbeEnds(result) ==
    /\ Running
    /\ result = "ok" => probe = "answered"
    /\ probe' = result
    /\ asker' = [a \in Askers |-> IF asker[a] = "waiting" THEN result ELSE asker[a]]
    /\ heard' = IF result = "ok" THEN {a \in Askers : asker[a] # "idle"} ELSE heard
    /\ UNCHANGED database

Resume(a) ==
    /\ asker[a] \in {"ok", "failed"}
    /\ asker' = [asker EXCEPT ![a] = IF @ = "ok" THEN "ready" ELSE "not_ready"]
    /\ UNCHANGED <<database, probe, heard>>

(* The deadline leaves the probe running.                                    *)
Deadline(a) ==
    /\ asker[a] = "waiting"
    /\ asker' = [asker EXCEPT ![a] = "not_ready"]
    /\ UNCHANGED <<database, probe, heard>>

(* The answer is sent, or the client goes away and takes its question along, *)
(* but not the probe.                                                        *)
Gone(a) ==
    /\ asker[a] # "idle"
    /\ asker' = [asker EXCEPT ![a] = "idle"]
    /\ UNCHANGED <<database, probe, heard>>

Init == probe = "none" /\ asker = [a \in Askers |-> "idle"] /\ heard = {}

Next ==
    \/ \E a \in Askers : Ask(a) \/ Resume(a) \/ Deadline(a) \/ Gone(a)
    \/ Select
    \/ \E result \in {"ok", "failed"} : ProbeEnds(result)
=============================================================================
