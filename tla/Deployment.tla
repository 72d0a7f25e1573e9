------------------------------ MODULE Deployment ------------------------------
(***************************************************************************)
(* Two clients of one PostgreSQL that fails and comes back: the readiness  *)
(* of the API (HealthProbe) and a user's private page in front of it       *)
(* (PageSession).                                                          *)
(***************************************************************************)
EXTENDS Naturals

CONSTANTS Askers, Users, MaxRotations, None

ASSUME RotationsAssumption == MaxRotations \in Nat

(* What PageSession keeps: a token family, the page's pair, and a call.      *)
Families == [user : Users, token : 0..MaxRotations, alive : BOOLEAN]
Pairs    == [user : Users, token : 0..MaxRotations, fresh : BOOLEAN]
Accesses == {"list", "create", "read", "delete"}
Calls    == [op    : {"sign_in", "sign_out", "list", "upload", "open", "delete"},
             user  : Users,
             step  : Accesses \cup {"login", "refresh", "logout"},
             then  : Accesses \cup {None},
             reply : {None, "done", "refused"}]

ASSUME NoneAssumption ==
    None \notin Users \cup Families \cup Pairs \cup Calls \cup {"done", "refused"}

VARIABLES database,
          probe, asker, heard,                  \* HealthProbe
          family, held, uploads, payload, error, call, dropped, replayed  \* PageSession

H == INSTANCE HealthProbe
P == INSTANCE PageSession

probing == <<probe, asker, heard>>
session == <<family, held, uploads, payload, error, call, dropped, replayed>>
vars == <<database, probing, session>>

DatabaseChanges ==
    /\ database' = IF database = "up" THEN "down" ELSE "up"
    /\ UNCHANGED <<probing, session>>

Init == database = "up" /\ H!Init /\ P!Init

Next ==
    \/ H!Next /\ UNCHANGED session
    \/ P!Next /\ UNCHANGED probing
    \/ DatabaseChanges

Spec == Init /\ [][Next]_vars

-----------------------------------------------------------------------------
(* Types, and whose data may meet: a session belongs to the last login.      *)
TypeOK ==
    /\ database \in {"up", "down"}
    /\ probe \in {"none", "running", "answered", "ok", "failed"}
    /\ asker \in [Askers -> {"idle", "waiting", "ok", "failed", "ready", "not_ready"}]
    /\ heard \in SUBSET Askers
    /\ family = None \/ family \in Families
    /\ held = None \/ held \in Pairs
    /\ uploads \in Users \cup {None} /\ payload \in Users \cup {None}
    /\ error \in BOOLEAN /\ dropped \in BOOLEAN /\ replayed \in BOOLEAN
    /\ call = None \/ call \in Calls
    /\ held # None => family # None /\ held.user = family.user

(* What the page shows of an account belongs to the user it is signed in as: *)
(* nothing of it stays when a sign-out, or a refresh that failed, takes the  *)
(* session away, and nobody who signs in next sees it (frontend/app.py,      *)
(* _clear_stock_session).                                                    *)
PrivateIsOwners ==
    \A shown \in {uploads, payload} : shown # None => held # None /\ held.user = shown

(* The page presents a token that was already rotated, and so has its own    *)
(* family revoked, only after a run that died between the rotation and the   *)
(* reply; a refusal, an outage or a timeout never leads there                *)
(* (frontend/app.py, _stock_access_token).                                   *)
ReplayOnlyAfterLoss == replayed => dropped

(* A page that loses its session without an error has ended it on the server *)
(* too, whichever of the family's tokens it held ("server logout could not   *)
(* be confirmed" otherwise, frontend/app.py).                                *)
SignedOutIsRevoked ==
    [][held # None /\ held' = None /\ ~error' => ~family'.alive]_vars

(* "ready" is the answer of a probe that ended after the question came, not  *)
(* of an older one (database/manager.py, ping).                              *)
ReadyIsRecent == \A a \in Askers : asker[a] = "ready" => a \in heard
=============================================================================
