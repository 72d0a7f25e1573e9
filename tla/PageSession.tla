----------------------------- MODULE PageSession -----------------------------
(***************************************************************************)
(* The private part of the stock page: its session with the API, and the   *)
(* uploads it shows of the account that is signed in                       *)
(* (frontend/app.py, frontend/client.py).  A script run makes one call     *)
(* after the other and keeps what it learns in the session state.  Any     *)
(* call may be refused, by the rate limiter or because of the database;    *)
(* its reply may be lost, within the errors the client knows, or end the   *)
(* run with one it does not.                                               *)
(*                                                                         *)
(* Of the server there is the token family of the page's latest login;     *)
(* IdentitySessions has all of them.                                       *)
(***************************************************************************)
EXTENDS Naturals

CONSTANTS Users,
          MaxRotations,  \* bound: rotations of a family
          None

VARIABLES database,  \* "up" or "down"
          family,    \* on the server: user, the number of its valid token, whether it lives
          held,      \* on the page: user, number of the token pair, whether access is fresh
          uploads,   \* whose list of uploads the page shows, or None
          payload,   \* whose private history the page shows, or None
          error,     \* whether the page shows an error of the private part
          call,      \* the call of the running script: for op, to do step, then then
          dropped,   \* whether the run ended between a rotation and its reply
          replayed   \* whether the page presented a token that was rotated

page == <<held, uploads, payload, error>>

Valid == family # None /\ family.alive /\ held.token = family.token

-----------------------------------------------------------------------------
(* The page starts a call                                                    *)

Calling(op, user, step, then) ==
    [op |-> op, user |-> user, step |-> step, then |-> then, reply |-> None]

(* The access token, if it is good for another half minute; else a refresh   *)
(* comes first.                                                              *)
WithAccess(op, step) ==
    IF held.fresh THEN Calling(op, held.user, step, None)
    ELSE Calling(op, held.user, "refresh", step)

Begin(next) == call = None /\ call' = next /\ UNCHANGED <<database, family, page, dropped, replayed>>

(* Fault: the form for another account is there all the time.                *)
SignInOver(user) == Begin(Calling("sign_in", user, "login", None))

SignIn(user) == held = None /\ Begin(Calling("sign_in", user, "login", None))
SignOut      == held # None /\ Begin(Calling("sign_out", held.user, "logout", None))
List         == held # None /\ Begin(WithAccess("list", "list"))
Upload       == held # None /\ Begin(WithAccess("upload", "create"))
Open         == held # None /\ uploads # None /\ Begin(WithAccess("open", "read"))
Delete       == held # None /\ uploads # None /\ Begin(WithAccess("delete", "delete"))

-----------------------------------------------------------------------------
(* The server handles it                                                     *)

Reply(reply) == call' = [call EXCEPT !.reply = reply]

Login ==
    /\ call.step = "login" /\ database = "up"
    /\ family' = [user |-> call.user, token |-> 0, alive |-> TRUE]
    /\ Reply("done") /\ UNCHANGED replayed

(* Rotated once; a token that was rotated ends its family.                   *)
Rotate ==
    /\ call.step = "refresh" /\ database = "up"
    /\ IF Valid
       THEN /\ family.token < MaxRotations
            /\ family' = [family EXCEPT !.token = @ + 1]
            /\ Reply("done") /\ UNCHANGED replayed
       ELSE /\ family' = [family EXCEPT !.alive = FALSE]
            /\ replayed' = (replayed \/ held.token # family.token)
            /\ Reply("refused")

(* Fault: only the valid token logs out.                                     *)
LogoutOfValid ==
    /\ call.step = "logout" /\ database = "up"
    /\ family' = IF Valid THEN [family EXCEPT !.alive = FALSE] ELSE family
    /\ Reply("done") /\ UNCHANGED replayed

(* Any token of the family will do.                                          *)
Logout ==
    /\ call.step = "logout" /\ database = "up"
    /\ family' = [family EXCEPT !.alive = FALSE]
    /\ Reply("done") /\ UNCHANGED replayed

Access ==
    /\ call.step \in {"list", "create", "read", "delete"} /\ database = "up"
    /\ Reply(IF Valid THEN "done" ELSE "refused")
    /\ UNCHANGED <<family, replayed>>

Refuse == Reply("refused") /\ UNCHANGED <<family, replayed>>

Serve ==
    /\ call # None /\ call.reply = None
    /\ Login \/ Rotate \/ Logout \/ Access \/ Refuse
    /\ UNCHANGED <<database, page, dropped>>

-----------------------------------------------------------------------------
(* The page goes on with the reply                                           *)

Ended == call' = None

(* Fault: the tokens go, what they showed stays.                             *)
ClearTokens == held' = None /\ UNCHANGED <<uploads, payload>>

Clear == held' = None /\ uploads' = None /\ payload' = None

Store == held' = [user |-> call.user, token |-> family.token, fresh |-> TRUE]

GoOn(step) == call' = [call EXCEPT !.step = step, !.then = None, !.reply = None]

(* What each step does with its result.                                      *)
Succeed ==
    /\ call # None /\ call.reply = "done"
    /\ \/ call.step = "login" /\ Store /\ error' = FALSE /\ Ended /\ UNCHANGED <<uploads, payload>>
       \/ call.step = "refresh" /\ Store /\ GoOn(call.then) /\ UNCHANGED <<uploads, payload, error>>
       \/ call.step = "logout" /\ Clear /\ error' = FALSE /\ Ended
       \/ /\ call.step = "list"
          /\ uploads' = call.user /\ error' = FALSE /\ Ended
          /\ UNCHANGED <<held, payload>>
       \/ /\ call.step = "create"
          /\ payload' = call.user
          /\ call' = WithAccess("upload", "list")
          /\ UNCHANGED <<held, uploads, error>>
       \/ /\ call.step = "read"
          /\ payload' = call.user /\ Ended
          /\ UNCHANGED <<held, uploads, error>>
       \/ /\ call.step = "delete"
          /\ uploads' = None /\ payload' = None /\ Ended
          /\ UNCHANGED <<held, error>>
    /\ UNCHANGED <<database, family, dropped, replayed>>

(* Fault: the page keeps its session when a refresh fails.                   *)
FailKeeping ==
    /\ call # None /\ call.reply # None
    /\ error' = TRUE /\ Ended
    /\ IF call.step = "logout" THEN Clear ELSE UNCHANGED <<held, uploads, payload>>
    /\ UNCHANGED <<database, family, dropped, replayed>>

(* A refusal, or no reply in time: ResearchApiError.  Without a refresh the  *)
(* session is cleared, and so it is after a logout nobody confirmed; a       *)
(* failed upload leaves no history on the page.                              *)
Fail ==
    /\ call # None /\ call.reply # None
    /\ error' = TRUE /\ Ended
    /\ IF call.step \in {"refresh", "logout"} THEN Clear
       ELSE /\ payload' = IF call.op = "upload" THEN None ELSE payload
            /\ UNCHANGED <<held, uploads>>
    /\ UNCHANGED <<database, family, dropped, replayed>>

(* An error the client does not know ends the run where it is.               *)
Break ==
    /\ call # None /\ call.reply # None
    /\ Ended
    /\ dropped' = (dropped \/ (call.step = "refresh" /\ call.reply = "done"))
    /\ UNCHANGED <<database, family, page, replayed>>

-----------------------------------------------------------------------------
(* The rest of the world                                                     *)

(* The account signs out elsewhere, or is disabled.                          *)
RevokedElsewhere ==
    /\ family # None /\ family.alive
    /\ family' = [family EXCEPT !.alive = FALSE]
    /\ UNCHANGED <<database, page, call, dropped, replayed>>

AccessAges ==
    /\ held # None /\ held.fresh
    /\ held' = [held EXCEPT !.fresh = FALSE]
    /\ UNCHANGED <<database, family, uploads, payload, error, call, dropped, replayed>>

Init ==
    /\ family = None
    /\ held = None /\ uploads = None /\ payload = None /\ error = FALSE
    /\ call = None /\ dropped = FALSE /\ replayed = FALSE

Next ==
    \/ \E u \in Users : SignIn(u)
    \/ SignOut \/ List \/ Upload \/ Open \/ Delete
    \/ Serve \/ Succeed \/ Fail \/ Break
    \/ RevokedElsewhere \/ AccessAges
=============================================================================
