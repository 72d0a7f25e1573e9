--------------------------- MODULE IdentitySessions ---------------------------
(***************************************************************************)
(* The account of one user and its refresh-token sessions in PostgreSQL,   *)
(* under concurrent requests (backend/app/services/identity_service.py,    *)
(* repositories/identity_repository.py).                                   *)
(*                                                                         *)
(* A request is one READ COMMITTED transaction.  Its awaits are statements *)
(* that may wait for a row lock: SELECT ... FOR UPDATE of the presented    *)
(* session ("session") or of the user ("user"), the UPDATE that revokes    *)
(* sessions ("revoke" takes the statement's snapshot, "update" locks its   *)
(* rows one by one and looks at each again), and the flush and commit      *)
(* ("commit"), whose audit row takes a key-share lock on the user.  Until  *)
(* then nothing of it is seen by others; a lock lasts to the end.          *)
(*                                                                         *)
(* A token is the row whose digest it has; every row ever issued may be    *)
(* presented again.                                                        *)
(***************************************************************************)
EXTENDS Naturals, FiniteSets

CONSTANTS Clients,     \* requests that may run at the same time
          Sessions,    \* rows of user_sessions (a bound)
          NoSession,   \* no row
          Account,     \* the row of users
          MaxChanges   \* resets and admin changes of the account (a bound)

ASSUME IdentityAssumption ==
    /\ NoSession \notin Sessions
    /\ Account \notin Sessions
    /\ MaxChanges \in Nat

VARIABLES user,      \* the committed row of the user
          session,   \* session[s]: the committed row s
          txn        \* txn[t]: the transaction of request t

vars == <<user, session, txn>>

AdminOps  == {"disable", "enable", "change_role"}
FamilyOps == {"refresh", "logout", "revoke_owned_session"}
UserOps   == {"login", "request_password_reset", "confirm_password_reset",
              "verify_email", "resend_verification"} \cup AdminOps
Ops       == UserOps \cup FamilyOps \cup {"logout_all"}

(* "generation" is history: how many resets and admin changes the account    *)
(* had when a session's user last gave the password.                         *)
User == [status     : {"unverified", "active", "disabled"},
         verify     : BOOLEAN,      \* a verification digest is stored
         reset      : BOOLEAN,      \* a reset digest is stored
         generation : 0..MaxChanges]

Row == [state      : {"none", "live", "expired", "revoked"},
        family     : Sessions \cup {NoSession},
        parent     : Sessions \cup {NoSession},
        generation : 0..MaxChanges]

Txn == [op         : Ops \cup {"none"},
        pc         : {"idle", "session", "user", "revoke", "update", "commit"},
        row        : Sessions \cup {NoSession},     \* the presented session
        expired    : BOOLEAN,           \* it had expired when the request came
        locks      : SUBSET (Sessions \cup {Account}),
        todo       : SUBSET Sessions,   \* rows of the snapshot still to revoke
        gone       : SUBSET Sessions,   \* rows revoked, not yet committed
        effect     : Ops \cup {"none"}, \* what else the commit brings about
        audit      : BOOLEAN,
        generation : 0..MaxChanges]

NoRow == [state |-> "none", family |-> NoSession, parent |-> NoSession,
          generation |-> 0]

Idle == [op |-> "none", pc |-> "idle", row |-> NoSession, expired |-> FALSE,
         locks |-> {}, todo |-> {}, gone |-> {}, effect |-> "none",
         audit |-> TRUE, generation |-> 0]

(* Types, and whose SELECT ... FOR UPDATE is behind it holds its row alone.   *)
TypeOK ==
    /\ user \in User
    /\ session \in [Sessions -> Row]
    /\ txn \in [Clients -> Txn]
    /\ \A t \in Clients : txn[t].row # NoSession /\ txn[t].pc # "session"
                            => txn[t].row \in txn[t].locks
    /\ \A t, d \in Clients : t # d => txn[t].locks \cap txn[d].locks = {}

(* The account is registered and its email not yet verified.                 *)
Init ==
    /\ user = [status |-> "unverified", verify |-> TRUE, reset |-> FALSE,
               generation |-> 0]
    /\ session = [s \in Sessions |-> NoRow]
    /\ txn = [t \in Clients |-> Idle]

-----------------------------------------------------------------------------
(* Unrevoked rows have no revoked_at, whether they expired or not.           *)
Unrevoked == {s \in Sessions : session[s].state \in {"live", "expired"}}
Issued    == {s \in Sessions : session[s].state # "none"}

(* No other transaction has the row locked.                                  *)
Free(t, row) == \A d \in Clients \ {t} : row \notin txn[d].locks

Become(t, record) == txn' = [txn EXCEPT ![t] = record]

(* authenticate_access: the account and the session of the access token, as  *)
(* committed when the request comes in.                                      *)
Authenticated ==
    user.status = "active" /\ \E s \in Sessions : session[s].state = "live"

(* A request arrives; the time it goes by is the time of its arrival.        *)
Begin(t, record) ==
    /\ txn[t].pc = "idle"
    /\ Become(t, record)
    /\ UNCHANGED <<user, session>>

Arrive(t) ==
    \/ \E op \in UserOps : Begin(t, [Idle EXCEPT !.op = op, !.pc = "user"])
    \/ \E op \in FamilyOps, s \in Issued :
          /\ op = "revoke_owned_session" => Authenticated
          /\ Begin(t, [Idle EXCEPT !.op = op, !.pc = "session", !.row = s,
                         !.expired = op = "refresh" /\ session[s].state = "expired"])
    \/ /\ Authenticated
       /\ Begin(t, [Idle EXCEPT !.op = "logout_all", !.pc = "revoke"])

-----------------------------------------------------------------------------
(* The presented session is locked.                                          *)
Present(t, record) ==
    /\ txn[t].pc = "session"
    /\ Free(t, txn[t].row)
    /\ Become(t, [record EXCEPT !.expired = FALSE, !.locks = {txn[t].row}])
    /\ UNCHANGED <<user, session>>

(* Fault: a session that has been rotated is rotated again.                  *)
PresentAnyway(t) ==
    /\ txn[t].op = "refresh"
    /\ ~txn[t].expired
    /\ Present(t, [txn[t] EXCEPT !.pc = "user"])

(* Fault: the session is read without a lock.                                *)
PresentUnlocked(t) ==
    /\ txn[t].pc = "session" /\ txn[t].op = "refresh"
    /\ txn[t].row \in Unrevoked /\ ~txn[t].expired
    /\ Become(t, [txn[t] EXCEPT !.pc = "user"])
    /\ UNCHANGED <<user, session>>

PresentLive(t) ==
    /\ txn[t].op = "refresh"
    /\ txn[t].row \in Unrevoked /\ ~txn[t].expired
    /\ Present(t, [txn[t] EXCEPT !.pc = "user"])

(* a session that was rotated, or ended by anyone: the token is replayed.    *)
PresentRevoked(t) ==
    /\ txn[t].op = "refresh"
    /\ txn[t].row \notin Unrevoked
    /\ Present(t, [txn[t] EXCEPT !.pc = "revoke"])

(* an expired one: the family ends without an audit record.                  *)
PresentExpired(t) ==
    /\ txn[t].op = "refresh"
    /\ txn[t].row \in Unrevoked /\ txn[t].expired
    /\ Present(t, [txn[t] EXCEPT !.pc = "revoke", !.audit = FALSE])

PresentToEnd(t) ==
    /\ txn[t].op \in {"logout", "revoke_owned_session"}
    /\ Present(t, [txn[t] EXCEPT !.pc = "revoke"])

-----------------------------------------------------------------------------
(* The user is locked, and what was committed before is read.                *)
LockUser(t, record) ==
    /\ txn[t].pc = "user"
    /\ Free(t, Account)
    /\ Become(t, [record EXCEPT !.locks = @ \cup {Account}])
    /\ UNCHANGED <<user, session>>

(* Fault: the user is read without a lock.                                   *)
LoginUnlocked(t) ==
    /\ txn[t].op = "login" /\ txn[t].pc = "user"
    /\ user.status = "active"
    /\ Become(t, [txn[t] EXCEPT !.pc = "commit", !.effect = "login",
                                !.generation = user.generation])
    /\ UNCHANGED <<user, session>>

Login(t) ==
    /\ txn[t].op = "login"
    /\ user.status = "active"
    /\ LockUser(t, [txn[t] EXCEPT !.pc = "commit", !.effect = "login",
                                  !.generation = user.generation])

(* a wrong password or an account that is not active: only an audit record.  *)
LoginFails(t) ==
    /\ txn[t].op = "login"
    /\ LockUser(t, [txn[t] EXCEPT !.pc = "commit"])

(* The presented session gives way to a new one of its family, which keeps   *)
(* the time of the login.  The check of the account cannot fail: an account  *)
(* that is not active has no session left (ChangesEndSessions).              *)
Rotate(t) ==
    /\ txn[t].op = "refresh"
    /\ LockUser(t, IF user.status = "active"
                   THEN [txn[t] EXCEPT !.pc = "commit", !.effect = "refresh",
                                       !.gone = {txn[t].row},
                                       !.generation = session[txn[t].row].generation]
                   ELSE [txn[t] EXCEPT !.pc = "revoke", !.audit = FALSE])

(* an operation that only changes the account.                               *)
ChangeUser(t) ==
    /\ \/ txn[t].op = "request_password_reset" /\ user.status # "disabled"
       \/ txn[t].op = "verify_email" /\ user.verify
       \/ txn[t].op = "resend_verification" /\ user.status = "unverified"
    /\ LockUser(t, [txn[t] EXCEPT !.pc = "commit", !.effect = txn[t].op])

(* an admin request that changes something, or the use of a reset token.     *)
Changes(op) ==
    \/ op = "disable" /\ user.status # "disabled"
    \/ op = "enable" /\ user.status # "active"
    \/ op = "change_role"

ChangeAndRevoke(t) ==
    /\ \/ txn[t].op = "confirm_password_reset" /\ user.reset
       \/ txn[t].op \in AdminOps /\ Changes(txn[t].op)
    /\ user.generation < MaxChanges
    /\ LockUser(t, [txn[t] EXCEPT !.pc = "revoke", !.effect = txn[t].op])

AdminChangesNothing(t) ==
    /\ txn[t].op \in AdminOps /\ ~Changes(txn[t].op)
    /\ LockUser(t, [txn[t] EXCEPT !.pc = "commit"])

-----------------------------------------------------------------------------
(* revoke_family and revoke_all_for_user: one UPDATE.  Its snapshot holds the*)
(* sessions not yet revoked; what is committed later it does not see.        *)
InScope(t, s) ==
    txn[t].op \in FamilyOps => session[s].family = session[txn[t].row].family

Revoke(t) ==
    /\ txn[t].pc = "revoke"
    /\ Become(t, [txn[t] EXCEPT !.pc = "update",
                                !.todo = {s \in Unrevoked : InScope(t, s)}])
    /\ UNCHANGED <<user, session>>

(* the next row: wait for it, and pass it over if it has been revoked since. *)
RevokeRow(t, s) ==
    /\ txn[t].pc = "update"
    /\ s \in txn[t].todo
    /\ Free(t, s)
    /\ Become(t, [txn[t] EXCEPT !.todo = @ \ {s}, !.locks = @ \cup {s},
                    !.gone = IF s \in Unrevoked THEN @ \cup {s} ELSE @])
    /\ UNCHANGED <<user, session>>

Revoked(t) ==
    /\ txn[t].pc = "update"
    /\ txn[t].todo = {}
    /\ Become(t, [txn[t] EXCEPT !.pc = "commit"])
    /\ UNCHANGED <<user, session>>

-----------------------------------------------------------------------------
(* The account after the commit.                                             *)
Changed(effect) ==
    CASE effect = "verify_email" ->
            [user EXCEPT !.status = "active", !.verify = FALSE]
      [] effect = "resend_verification" -> [user EXCEPT !.verify = TRUE]
      [] effect = "request_password_reset" -> [user EXCEPT !.reset = TRUE]
      [] effect = "confirm_password_reset" ->
            [user EXCEPT !.reset = FALSE, !.generation = @ + 1]
      [] effect = "disable" ->
            [user EXCEPT !.status = "disabled", !.generation = @ + 1]
      [] effect = "enable" ->
            [user EXCEPT !.status = "active", !.generation = @ + 1]
      [] effect = "change_role" -> [user EXCEPT !.generation = @ + 1]
      [] OTHER -> user

(* The row that a login or a rotation inserts.                               *)
Inserted(t, new) ==
    [state |-> "live",
     family |-> IF txn[t].effect = "login" THEN new ELSE session[txn[t].row].family,
     parent |-> txn[t].row,
     generation |-> txn[t].generation]

Finish(t) ==
    /\ txn[t].pc = "commit"
    /\ txn[t].audit => Free(t, Account)
    /\ user' = Changed(txn[t].effect)
    /\ Become(t, Idle)

RevokedRow(t, s) ==
    IF s \in txn[t].gone
    THEN [session[s] EXCEPT !.state = "revoked"]
    ELSE session[s]

CommitNew(t, new) ==
    /\ txn[t].effect \in {"login", "refresh"}
    /\ session[new].state = "none"
    /\ session' = [s \in Sessions |->
                     IF s = new THEN Inserted(t, new) ELSE RevokedRow(t, s)]
    /\ Finish(t)

Commit(t) ==
    /\ txn[t].effect \notin {"login", "refresh"}
    /\ session' = [s \in Sessions |-> RevokedRow(t, s)]
    /\ Finish(t)

(* The request ends without a commit: its token or its account does not      *)
(* qualify, it is the victim of a deadlock, a statement timed out waiting    *)
(* for a lock, or the connection or the process is gone.                     *)
Rollback(t) ==
    /\ txn[t].pc # "idle"
    /\ Become(t, Idle)
    /\ UNCHANGED <<user, session>>

Expire(s) ==
    /\ session[s].state = "live"
    /\ session' = [session EXCEPT ![s].state = "expired"]
    /\ UNCHANGED <<user, txn>>

Advance(t) ==
    \/ PresentLive(t) \/ PresentRevoked(t) \/ PresentExpired(t) \/ PresentToEnd(t)
    \/ Login(t) \/ LoginFails(t) \/ Rotate(t)
    \/ ChangeUser(t) \/ ChangeAndRevoke(t) \/ AdminChangesNothing(t)
    \/ Revoke(t) \/ Revoked(t) \/ Commit(t)
    \/ \E s \in Sessions : RevokeRow(t, s) \/ CommitNew(t, s)
    \/ Rollback(t)

Next ==
    \/ \E t \in Clients : Arrive(t) \/ Advance(t)
    \/ \E s \in Sessions : Expire(s)

Spec == Init /\ [][Next]_vars

(* A transaction goes on or is rolled back: PostgreSQL breaks deadlocks, and *)
(* a statement that waits is cut off by database_command_timeout_seconds.    *)
FairSpec == Spec /\ \A t \in Clients : WF_vars(Advance(t))

-----------------------------------------------------------------------------
(* Safety.                                                                   *)

(* No session outlives a password reset or a change of role or status: every *)
(* unrevoked one, also one rotated meanwhile, goes back to a login after it, *)
(* and an account that is not active has none ("a password reset revokes     *)
(* every active session", docs/phase_3_identity.md:49; "role or status       *)
(* changes revoke the affected user's sessions", :64).                       *)
ChangesEndSessions ==
    \A s \in Unrevoked :
        session[s].generation = user.generation /\ user.status = "active"

(* A family has at most one unrevoked generation, a token is rotated at most *)
(* once, and what it is rotated to is of its family: the partial unique index*)
(* never has to refuse an insert (docs/phase_3_identity.md:31).              *)
RotatedOnce ==
    \A s, d \in Issued :
        \/ s = d
        \/ /\ session[s].family = session[d].family => ~({s, d} \subseteq Unrevoked)
           /\ session[s].parent = session[d].parent => session[s].parent = NoSession
           /\ session[s].parent = d => session[s].family = session[d].family

(* A family that a committed logout, logout of all, or replay was to end has *)
(* no session left ("any reuse revokes the entire token family",             *)
(* identity_service.py:291; "revoke every active session", :415).            *)
FamiliesEnd ==
    [][\A t \in Clients :
          Commit(t) => \A s \in Unrevoked', d \in txn[t].locks \cap Sessions :
                          session'[s].family # session[d].family]_vars

=============================================================================
