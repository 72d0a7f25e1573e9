----------------------- MODULE IdentitySessions_proofs -----------------------
(***************************************************************************)
(* Proofs about IdentitySessions, for any number of requests and rows and  *)
(* of changes of the account.                                              *)
(***************************************************************************)
EXTENDS IdentitySessions, TLAPS

(* The changes of an account that end its sessions.                          *)
Ending == AdminOps \cup {"confirm_password_reset"}

(* What a transaction relies on from its locks to its commit: the rows it is *)
(* to revoke stay unrevoked, the session it rotates and the account it read  *)
(* stay as they were, and after its UPDATE nothing escapes a change that is  *)
(* to end the sessions.                                                      *)
Kept(r) ==
    /\ r.gone \subseteq r.locks \cap Unrevoked
    /\ r.pc \in {"idle", "session", "user", "revoke"} => r.gone = {}
    /\ r.pc \in {"idle", "session", "user"} => r.effect = "none"
    /\ r.op = "refresh" /\ r.pc = "user" => r.row \in Unrevoked
    /\ r.op = "login" => r.row = NoSession
    /\ r.pc = "session" => r.op # "login" /\ r.row # NoSession
    /\ r.effect \in Ending \cup {"login", "refresh"} =>
          Account \in r.locks /\ r.op = r.effect
    /\ r.effect = "login" =>
          /\ r.pc = "commit" /\ user.status = "active"
          /\ r.generation = user.generation
    /\ r.effect = "refresh" =>
          /\ r.pc = "commit" /\ user.status = "active"
          /\ r.row \in r.gone
          /\ r.generation = session[r.row].generation
    /\ r.effect \in Ending =>
          /\ user.generation < MaxChanges
          /\ r.pc = "update" => Unrevoked \subseteq r.todo \cup r.gone
          /\ r.pc = "commit" => Unrevoked \subseteq r.gone

AllKept == \A t \in Clients : Kept(txn[t])

(* A family is named by its first session, and what was rotated is revoked.  *)
Families ==
    \A s \in Issued :
        /\ session[s].family \in Issued
        /\ session[s].parent # NoSession => session[s].parent \in Issued \ Unrevoked

IInv == AllKept /\ ChangesEndSessions /\ Families /\ RotatedOnce

-----------------------------------------------------------------------------
(* What a transaction has selected it holds.                                 *)
Selected(r) == r.row # NoSession /\ r.pc # "session" => r.row \in r.locks

(* A step that changes only what one transaction holds.                      *)
LEMMA QuietStep ==
    ASSUME TypeOK, IInv, NEW t \in Clients, NEW r \in Txn,
           Become(t, r), UNCHANGED <<user, session>>,
           Kept(r), Selected(r),
           \A d \in Clients \ {t} : r.locks \cap txn[d].locks = {}
    PROVE  TypeOK' /\ IInv'
<1>1. txn'[t] = r /\ \A d \in Clients \ {t} : txn'[d] = txn[d]
  BY DEF Become, TypeOK
<1>2. txn' \in [Clients -> Txn]
  BY DEF Become, TypeOK
<1>3. Unrevoked' = Unrevoked /\ Issued' = Issued
  BY DEF Unrevoked, Issued
<1>4. TypeOK'
  BY <1>1, <1>2 DEF TypeOK, Selected
<1>5. ASSUME NEW d \in Clients PROVE Kept(txn[d])'
  <2>1. CASE d = t
    BY <1>1, <1>3, <2>1 DEF Kept
  <2>2. CASE d # t
    <3>1. txn'[d] = txn[d] /\ Kept(txn[d])
      BY <1>1, <2>2 DEF IInv, AllKept
    <3> QED
      BY <1>3, <3>1 DEF Kept
  <2> QED
    BY <2>1, <2>2
<1>6. ChangesEndSessions' /\ Families' /\ RotatedOnce'
  BY <1>3 DEF IInv, ChangesEndSessions, Families, RotatedOnce
<1> QED
  BY <1>4, <1>5, <1>6 DEF IInv, AllKept

(* Whoever locks a free row still shares none.                               *)
LEMMA FreeAlone ==
    ASSUME TypeOK, NEW t \in Clients, NEW row \in Sessions \cup {Account}, Free(t, row)
    PROVE  \A d \in Clients \ {t} :
              /\ {row} \cap txn[d].locks = {}
              /\ (txn[t].locks \cup {row}) \cap txn[d].locks = {}
BY DEF TypeOK, Free

-----------------------------------------------------------------------------
(* A transaction that has not begun holds nothing and relies on nothing.     *)
LEMMA IdleKept == Idle \in Txn /\ Kept(Idle) /\ Selected(Idle)
BY IdentityAssumption DEF Idle, Txn, Kept, Selected, IdentityAssumption, Ending, AdminOps

(* A request that arrives holds nothing.                                     *)
LEMMA ArriveStep ==
    ASSUME TypeOK, IInv, NEW t \in Clients, Arrive(t)
    PROVE  TypeOK' /\ IInv'
<1>1. ASSUME NEW r \in Txn, Begin(t, r),
             r.locks = {}, r.gone = {}, r.effect = "none",
             r.pc \in {"session", "user", "revoke"},
             IF r.pc = "session" THEN r.op # "login" /\ r.row # NoSession
             ELSE r.op # "refresh" /\ r.row = NoSession
      PROVE  TypeOK' /\ IInv'
  <2>1. Kept(r) /\ Selected(r)
    BY <1>1 DEF Kept, Selected, Ending, AdminOps
  <2>2. Become(t, r) /\ UNCHANGED <<user, session>>
    BY <1>1 DEF Begin
  <2> QED
    BY <1>1, <2>1, <2>2, QuietStep
<1>2. ASSUME NEW op \in UserOps, Begin(t, [Idle EXCEPT !.op = op, !.pc = "user"])
      PROVE  TypeOK' /\ IInv'
  <2> DEFINE r == [Idle EXCEPT !.op = op, !.pc = "user"]
  <2>1. op \in Ops /\ op # "refresh"
    BY DEF Ops, UserOps, AdminOps
  <2>2. r \in Txn
    BY <2>1, IdleKept DEF Txn
  <2>3. /\ r.locks = {} /\ r.gone = {} /\ r.effect = "none" /\ r.pc = "user"
        /\ r.op = op /\ r.row = NoSession
    BY DEF Idle
  <2> HIDE DEF r
  <2> QED
    BY <1>1, <1>2, <2>1, <2>2, <2>3 DEF r
<1>3. ASSUME NEW op \in FamilyOps, NEW s \in Issued, NEW expired \in BOOLEAN,
             Begin(t, [Idle EXCEPT !.op = op, !.pc = "session", !.row = s,
                                   !.expired = expired])
      PROVE  TypeOK' /\ IInv'
  <2> DEFINE r == [Idle EXCEPT !.op = op, !.pc = "session", !.row = s,
                               !.expired = expired]
  <2>1. op \in Ops /\ op # "login" /\ s \in Sessions /\ s # NoSession
    BY IdentityAssumption DEF FamilyOps, Ops, Issued, IdentityAssumption
  <2>2. r \in Txn
    BY <2>1, IdleKept DEF Txn
  <2>3. /\ r.locks = {} /\ r.gone = {} /\ r.effect = "none" /\ r.pc = "session"
        /\ r.op = op /\ r.row = s
    BY DEF Idle
  <2> HIDE DEF r
  <2> QED
    BY <1>1, <1>3, <2>1, <2>2, <2>3 DEF r
<1>4. ASSUME Begin(t, [Idle EXCEPT !.op = "logout_all", !.pc = "revoke"])
      PROVE  TypeOK' /\ IInv'
  <2> DEFINE r == [Idle EXCEPT !.op = "logout_all", !.pc = "revoke"]
  <2>1. r \in Txn
    BY IdleKept DEF Txn, Ops
  <2>2. /\ r.locks = {} /\ r.gone = {} /\ r.effect = "none" /\ r.pc = "revoke"
        /\ r.op = "logout_all" /\ r.row = NoSession
    BY DEF Idle
  <2> HIDE DEF r
  <2> QED
    BY <1>1, <1>4, <2>1, <2>2 DEF r
<1> QED
  BY <1>2, <1>3, <1>4 DEF Arrive

(* The presented session is locked, and nothing else is.                     *)
LEMMA PresentStep ==
    ASSUME TypeOK, IInv, NEW t \in Clients,
           PresentLive(t) \/ PresentRevoked(t) \/ PresentExpired(t) \/ PresentToEnd(t)
    PROVE  TypeOK' /\ IInv'
<1>1. txn[t] \in Txn /\ txn[t].pc = "session"
  BY DEF TypeOK, PresentLive, PresentRevoked, PresentExpired, PresentToEnd, Present
<1>2. /\ txn[t].gone = {} /\ txn[t].effect = "none"
      /\ txn[t].op # "login" /\ txn[t].row \in Sessions
  BY <1>1 DEF IInv, AllKept, Kept, Txn
<1>3. ASSUME NEW pc \in {"user", "revoke"}, NEW audit \in BOOLEAN,
             pc = "user" => txn[t].row \in Unrevoked,
             Present(t, [txn[t] EXCEPT !.pc = pc, !.audit = audit])
      PROVE  TypeOK' /\ IInv'
  <2> DEFINE record == [txn[t] EXCEPT !.pc = pc, !.audit = audit]
             r == [record EXCEPT !.expired = FALSE, !.locks = {txn[t].row}]
  <2>1. r \in Txn
    BY <1>1, <1>2 DEF Txn
  <2>2. /\ r.locks = {txn[t].row} /\ r.gone = {} /\ r.effect = "none"
        /\ r.op = txn[t].op /\ r.pc = pc /\ r.row = txn[t].row
    BY <1>1, <1>2 DEF Txn
  <2>3. Become(t, r) /\ UNCHANGED <<user, session>> /\ Free(t, txn[t].row)
    BY <1>3 DEF Present
  <2> HIDE DEF r
  <2>4. Kept(r) /\ Selected(r)
    BY <1>2, <1>3, <2>2 DEF Kept, Selected, Ending, AdminOps
  <2>5. \A d \in Clients \ {t} : r.locks \cap txn[d].locks = {}
    BY <1>2, <2>2, <2>3, FreeAlone
  <2> QED
    BY <2>1, <2>3, <2>4, <2>5, QuietStep
<1>4. \A pc \in {"user", "revoke"} :
         [txn[t] EXCEPT !.pc = pc] = [txn[t] EXCEPT !.pc = pc, !.audit = txn[t].audit]
  BY <1>1 DEF Txn
<1>5. txn[t].audit \in BOOLEAN
  BY <1>1 DEF Txn
<1> QED
  BY <1>3, <1>4, <1>5 DEF PresentLive, PresentRevoked, PresentExpired, PresentToEnd

(* The user is locked: what the transaction reads of it stays.               *)
LEMMA LockUserStep ==
    ASSUME TypeOK, IInv, NEW t \in Clients,
           \/ Login(t) \/ LoginFails(t) \/ Rotate(t) \/ ChangeUser(t)
           \/ ChangeAndRevoke(t) \/ AdminChangesNothing(t)
    PROVE  TypeOK' /\ IInv'
<1>1. txn[t] \in Txn /\ txn[t].pc = "user" /\ Free(t, Account)
  BY DEF TypeOK, LockUser, Login, LoginFails, Rotate, ChangeUser, ChangeAndRevoke,
         AdminChangesNothing
<1>2. /\ txn[t].gone = {} /\ txn[t].effect = "none" /\ Kept(txn[t])
      /\ txn[t].op = "refresh" => txn[t].row \in Unrevoked \cap txn[t].locks
      /\ txn[t].row # NoSession => txn[t].row \in txn[t].locks
  <2>1. Kept(txn[t])
    BY DEF IInv, AllKept
  <2>2. txn[t].row # NoSession => txn[t].row \in txn[t].locks
    BY <1>1 DEF TypeOK
  <2>3. \A s \in Unrevoked : s # NoSession
    BY IdentityAssumption DEF IdentityAssumption, Unrevoked
  <2> QED
    BY <1>1, <2>1, <2>2, <2>3 DEF Kept
<1>3. ASSUME NEW record \in Txn, LockUser(t, record),
             record.pc \in {"revoke", "commit"},
             record.op = txn[t].op, record.row = txn[t].row,
             record.locks = txn[t].locks,
             record.gone = IF record.effect = "refresh" THEN {txn[t].row} ELSE {},
             record.effect \in Ending \cup {"login", "refresh"} =>
                 record.op = record.effect,
             record.effect \in Ending =>
                 record.pc = "revoke" /\ user.generation < MaxChanges,
             record.effect \in {"login", "refresh"} =>
                 /\ record.pc = "commit" /\ user.status = "active"
                 /\ record.generation = IF record.effect = "login" THEN user.generation
                                        ELSE session[txn[t].row].generation
      PROVE  TypeOK' /\ IInv'
  <2> DEFINE r == [record EXCEPT !.locks = @ \cup {Account}]
  <2>1. r \in Txn
    BY <1>3 DEF Txn
  <2>2. /\ r.locks = txn[t].locks \cup {Account} /\ r.gone = record.gone
        /\ r.effect = record.effect /\ r.op = txn[t].op /\ r.pc = record.pc
        /\ r.row = txn[t].row /\ r.generation = record.generation
    BY <1>3 DEF Txn
  <2>3. Become(t, r) /\ UNCHANGED <<user, session>>
    BY <1>3 DEF LockUser
  <2> HIDE DEF r
  <2>4. Selected(r)
    BY <1>2, <2>2 DEF Selected
  <2>5. Kept(r)
    <3>1. CASE record.effect \in {"login", "refresh"}
      BY <1>2, <1>3, <2>2, <3>1 DEF Kept, Ending, AdminOps
    <3>2. CASE record.effect \notin {"login", "refresh"}
      BY <1>2, <1>3, <2>2, <3>2 DEF Kept, Ending, AdminOps
    <3> QED
      BY <3>1, <3>2
  <2>6. \A d \in Clients \ {t} : r.locks \cap txn[d].locks = {}
    BY <1>1, <2>2, FreeAlone
  <2> QED
    BY <2>1, <2>3, <2>4, <2>5, <2>6, QuietStep
<1>4. CASE Login(t)
  <2> DEFINE record == [txn[t] EXCEPT !.pc = "commit", !.effect = "login",
                                      !.generation = user.generation]
  <2>1. record \in Txn
    BY <1>1 DEF Txn, Ops, UserOps, TypeOK, User
  <2>2. /\ record.pc = "commit" /\ record.effect = "login" /\ record.op = txn[t].op
        /\ record.row = txn[t].row /\ record.locks = txn[t].locks
        /\ record.gone = {} /\ record.generation = user.generation
    BY <1>1, <1>2 DEF Txn
  <2>3. LockUser(t, record) /\ txn[t].op = "login" /\ user.status = "active"
    BY <1>4 DEF Login
  <2> HIDE DEF record
  <2> QED
    BY <1>3, <2>1, <2>2, <2>3 DEF Ending, AdminOps
<1>5. ASSUME LockUser(t, [txn[t] EXCEPT !.pc = "commit"])
      PROVE  TypeOK' /\ IInv'
  <2> DEFINE record == [txn[t] EXCEPT !.pc = "commit"]
  <2>1. record \in Txn
    BY <1>1 DEF Txn
  <2>2. /\ record.pc = "commit" /\ record.effect = "none" /\ record.op = txn[t].op
        /\ record.row = txn[t].row /\ record.locks = txn[t].locks /\ record.gone = {}
    BY <1>1, <1>2 DEF Txn
  <2> HIDE DEF record
  <2> QED
    BY <1>3, <1>5, <2>1, <2>2 DEF record, Ending, AdminOps
<1>6. CASE Rotate(t)
  <2>1. txn[t].op = "refresh"
    BY <1>6 DEF Rotate
  <2>2. CASE user.status = "active"
    <3> DEFINE record == [txn[t] EXCEPT !.pc = "commit", !.effect = "refresh",
                                        !.gone = {txn[t].row},
                                        !.generation = session[txn[t].row].generation]
    <3>1. txn[t].row \in Sessions /\ session[txn[t].row].generation \in 0..MaxChanges
      BY <1>2, <2>1 DEF Unrevoked, TypeOK, Row
    <3>2. record \in Txn
      BY <1>1, <3>1 DEF Txn, Ops, FamilyOps
    <3>3. /\ record.pc = "commit" /\ record.effect = "refresh" /\ record.op = txn[t].op
          /\ record.row = txn[t].row /\ record.locks = txn[t].locks
          /\ record.gone = {txn[t].row}
          /\ record.generation = session[txn[t].row].generation
      BY <1>1 DEF Txn
    <3>4. LockUser(t, record)
      BY <1>6, <2>2 DEF Rotate
    <3> HIDE DEF record
    <3> QED
      BY <1>3, <2>1, <2>2, <3>2, <3>3, <3>4 DEF Ending, AdminOps
  <2>3. CASE user.status # "active"
    <3> DEFINE record == [txn[t] EXCEPT !.pc = "revoke", !.audit = FALSE]
    <3>1. record \in Txn
      BY <1>1 DEF Txn
    <3>2. /\ record.pc = "revoke" /\ record.effect = "none" /\ record.op = txn[t].op
          /\ record.row = txn[t].row /\ record.locks = txn[t].locks /\ record.gone = {}
      BY <1>1, <1>2 DEF Txn
    <3>3. LockUser(t, record)
      BY <1>6, <2>3 DEF Rotate
    <3> HIDE DEF record
    <3> QED
      BY <1>3, <3>1, <3>2, <3>3 DEF Ending, AdminOps
  <2> QED
    BY <2>2, <2>3
<1>7. ASSUME NEW op \in UserOps, txn[t].op = op, NEW pc \in {"revoke", "commit"},
             op \in Ending => pc = "revoke" /\ user.generation < MaxChanges, op # "login",
             LockUser(t, [txn[t] EXCEPT !.pc = pc, !.effect = op])
      PROVE  TypeOK' /\ IInv'
  <2> DEFINE record == [txn[t] EXCEPT !.pc = pc, !.effect = op]
  <2>0. op \in Ops /\ op # "refresh"
    BY <1>7 DEF Ops, UserOps, AdminOps
  <2>1. record \in Txn
    BY <1>1, <2>0 DEF Txn
  <2>2. /\ record.pc = pc /\ record.effect = op /\ record.op = op
        /\ record.row = txn[t].row /\ record.locks = txn[t].locks /\ record.gone = {}
    BY <1>1, <1>2, <1>7 DEF Txn
  <2> HIDE DEF record
  <2> QED
    BY <1>3, <1>7, <2>0, <2>1, <2>2 DEF record
<1>8. CASE ChangeUser(t)
  BY <1>7, <1>8 DEF ChangeUser, UserOps, Ending, AdminOps
<1>9. CASE ChangeAndRevoke(t)
  BY <1>7, <1>9 DEF ChangeAndRevoke, UserOps, Ending, AdminOps
<1> QED
  BY <1>4, <1>5, <1>6, <1>8, <1>9 DEF LoginFails, AdminChangesNothing

(* The UPDATE: a change that ends the sessions has all of them in scope, and *)
(* none can be added while it holds the user.                                *)
LEMMA RevokeStep ==
    ASSUME TypeOK, IInv, NEW t \in Clients,
           Revoke(t) \/ Revoked(t) \/ (\E s \in Sessions : RevokeRow(t, s))
    PROVE  TypeOK' /\ IInv'
<1>1. txn[t] \in Txn /\ Kept(txn[t]) /\ Selected(txn[t])
  BY DEF TypeOK, IInv, AllKept, Selected
<1>2. txn[t].effect \notin {"login", "refresh"}
  BY <1>1 DEF Kept, Revoke, Revoked, RevokeRow
<1>3. txn[t].row # NoSession => txn[t].row \in txn[t].locks
  BY <1>1 DEF Selected, Revoke, Revoked, RevokeRow
<1>4. CASE Revoke(t)
  <2> DEFINE todo == {s \in Unrevoked : InScope(t, s)}
             r == [txn[t] EXCEPT !.pc = "update", !.todo = todo]
  <2>1. r \in Txn
    BY <1>1 DEF Txn, Unrevoked
  <2>2. /\ r.locks = txn[t].locks /\ r.gone = txn[t].gone /\ r.effect = txn[t].effect
        /\ r.op = txn[t].op /\ r.pc = "update" /\ r.row = txn[t].row /\ r.todo = todo
    BY <1>1 DEF Txn
  <2>3. txn[t].effect \in Ending => Unrevoked \subseteq todo
    BY <1>1 DEF Kept, InScope, Ending, AdminOps, FamilyOps
  <2>4. Become(t, r) /\ UNCHANGED <<user, session>>
    BY <1>4 DEF Revoke
  <2> HIDE DEF todo, r
  <2>5. Kept(r) /\ Selected(r)
    BY <1>1, <1>2, <1>3, <2>2, <2>3 DEF Kept, Selected
  <2>6. \A d \in Clients \ {t} : r.locks \cap txn[d].locks = {}
    BY <2>2 DEF TypeOK
  <2> QED
    BY <2>1, <2>4, <2>5, <2>6, QuietStep
<1>5. CASE Revoked(t)
  <2> DEFINE r == [txn[t] EXCEPT !.pc = "commit"]
  <2>1. r \in Txn
    BY <1>1 DEF Txn
  <2>2. /\ r.locks = txn[t].locks /\ r.gone = txn[t].gone /\ r.effect = txn[t].effect
        /\ r.op = txn[t].op /\ r.pc = "commit" /\ r.row = txn[t].row
    BY <1>1 DEF Txn
  <2>3. Become(t, r) /\ UNCHANGED <<user, session>> /\ txn[t].pc = "update"
        /\ txn[t].todo = {}
    BY <1>5 DEF Revoked
  <2> HIDE DEF r
  <2>4. Kept(r) /\ Selected(r)
    BY <1>1, <1>2, <1>3, <2>2, <2>3 DEF Kept, Selected
  <2>5. \A d \in Clients \ {t} : r.locks \cap txn[d].locks = {}
    BY <2>2 DEF TypeOK
  <2> QED
    BY <2>1, <2>3, <2>4, <2>5, QuietStep
<1>6. ASSUME NEW s \in Sessions, RevokeRow(t, s)
      PROVE  TypeOK' /\ IInv'
  <2> DEFINE gone == IF s \in Unrevoked THEN txn[t].gone \cup {s} ELSE txn[t].gone
             r == [txn[t] EXCEPT !.todo = @ \ {s}, !.locks = @ \cup {s}, !.gone = gone]
  <2>1. r \in Txn
    BY <1>1 DEF Txn
  <2>2. /\ r.locks = txn[t].locks \cup {s} /\ r.gone = gone
        /\ r.effect = txn[t].effect /\ r.op = txn[t].op /\ r.pc = txn[t].pc
        /\ r.row = txn[t].row /\ r.todo = txn[t].todo \ {s}
    BY <1>1 DEF Txn
  <2>3. /\ Become(t, r) /\ UNCHANGED <<user, session>> /\ txn[t].pc = "update"
        /\ Free(t, s)
    BY <1>6 DEF RevokeRow
  <2> HIDE DEF r
  <2>4. Kept(r) /\ Selected(r)
    BY <1>1, <1>2, <1>3, <2>2, <2>3 DEF Kept, Selected
  <2>5. \A d \in Clients \ {t} : r.locks \cap txn[d].locks = {}
    BY <2>2, <2>3, FreeAlone
  <2> QED
    BY <2>1, <2>3, <2>4, <2>5, QuietStep
<1> QED
  BY <1>4, <1>5, <1>6

(* A rollback lets go of everything.                                         *)
LEMMA RollbackStep ==
    ASSUME TypeOK, IInv, NEW t \in Clients, Rollback(t)
    PROVE  TypeOK' /\ IInv'
BY IdleKept, QuietStep DEF Rollback, Idle

-----------------------------------------------------------------------------
(* A session that expires is still there to be revoked.                      *)
LEMMA ExpireStep ==
    ASSUME TypeOK, IInv, NEW s \in Sessions, Expire(s)
    PROVE  TypeOK' /\ IInv'
<1>1. /\ session' \in [Sessions -> Row]
      /\ \A d \in Sessions : /\ session'[d].family = session[d].family
                            /\ session'[d].parent = session[d].parent
                            /\ session'[d].generation = session[d].generation
      /\ \A d \in Sessions \ {s} : session'[d] = session[d]
      /\ session'[s].state = "expired" /\ session[s].state = "live"
  BY DEF Expire, TypeOK, Row
<1>2. Unrevoked' = Unrevoked /\ Issued' = Issued
  BY <1>1 DEF Unrevoked, Issued
<1>3. UNCHANGED <<user, txn>>
  BY DEF Expire
<1>4. TypeOK'
  BY <1>1, <1>3 DEF TypeOK
<1>5. ASSUME NEW t \in Clients PROVE Kept(txn[t])'
  <2>1. Kept(txn[t]) /\ txn[t] \in Txn
    BY DEF IInv, AllKept, TypeOK
  <2>2. txn[t].gone \subseteq Sessions
    BY <2>1 DEF Txn
  <2> QED
    BY <1>1, <1>2, <1>3, <2>1, <2>2 DEF Kept
<1>6. ChangesEndSessions' /\ Families' /\ RotatedOnce'
  <2>1. Unrevoked \subseteq Sessions /\ Issued \subseteq Sessions
    BY DEF Unrevoked, Issued
  <2> QED
    BY <1>1, <1>2, <1>3, <2>1 DEF IInv, ChangesEndSessions, Families, RotatedOnce
<1> QED
  BY <1>4, <1>5, <1>6 DEF IInv, AllKept

(* What a commit does to the account: only a change that ends the sessions   *)
(* starts a new generation or takes "active" away.                           *)
LEMMA ChangedUser ==
    ASSUME TypeOK, NEW effect \in Ops \cup {"none"},
           effect \in Ending => user.generation < MaxChanges
    PROVE  /\ Changed(effect) \in User
           /\ effect \notin Ending =>
                 /\ Changed(effect).generation = user.generation
                 /\ user.status = "active" => Changed(effect).status = "active"
           /\ effect \in {"login", "refresh"} => Changed(effect) = user
<1> USE IdentityAssumption DEF IdentityAssumption
<1>1. user \in User
  BY DEF TypeOK
<1>2. CASE effect \in Ending
  <2>1. user.generation + 1 \in 0..MaxChanges
    BY <1>1, <1>2 DEF User
  <2>2. CASE effect = "confirm_password_reset"
    BY <1>1, <1>2, <2>1, <2>2 DEF Changed, User
  <2>3. CASE effect = "disable"
    BY <1>1, <1>2, <2>1, <2>3 DEF Changed, User
  <2>4. CASE effect = "enable"
    BY <1>1, <1>2, <2>1, <2>4 DEF Changed, User
  <2>5. CASE effect = "change_role"
    BY <1>1, <1>2, <2>1, <2>5 DEF Changed, User
  <2> QED
    BY <1>2, <2>2, <2>3, <2>4, <2>5 DEF Ending, AdminOps
<1>3. CASE effect \in {"verify_email", "resend_verification", "request_password_reset"}
  BY <1>1, <1>3 DEF Changed, Ending, AdminOps, User
<1>4. CASE effect \notin Ending \cup {"verify_email", "resend_verification",
                                     "request_password_reset"}
  BY <1>1, <1>4 DEF Changed, Ending, AdminOps
<1> QED
  BY <1>2, <1>3, <1>4 DEF Ending, AdminOps

(* A commit leaves what the others hold to them.                             *)
LEMMA OthersKept ==
    ASSUME TypeOK, IInv, NEW t \in Clients, NEW d \in Clients \ {t}, Finish(t),
           NEW added \in SUBSET Sessions,
           added # {} => Account \in txn[t].locks,
           Unrevoked' = (Unrevoked \ txn[t].gone) \cup added,
           \A s \in Unrevoked \ txn[t].gone :
              session'[s].generation = session[s].generation
    PROVE  Kept(txn[d])'
<1>1. /\ txn[d] \in Txn /\ Kept(txn[d]) /\ txn'[d] = txn[d]
      /\ txn[t] \in Txn /\ Kept(txn[t]) /\ txn[t].locks \cap txn[d].locks = {}
  BY DEF TypeOK, IInv, AllKept, Finish, Become
<1>2. txn[d].locks \cap Unrevoked \subseteq Unrevoked \ txn[t].gone
  BY <1>1 DEF Kept
<1>3. txn[d].op = "refresh" /\ txn[d].pc = "user" => txn[d].row \in txn[d].locks
  <2>1. \A s \in Unrevoked : s # NoSession
    BY IdentityAssumption DEF IdentityAssumption, Unrevoked
  <2> QED
    BY <1>1, <2>1 DEF TypeOK, Kept
<1>4. CASE Account \in txn[d].locks
  <2>1. txn[t].effect \notin Ending /\ added = {}
    BY <1>1, <1>4 DEF Kept
  <2>2. /\ user'.generation = user.generation
        /\ user.status = "active" => user'.status = "active"
    BY <1>1, <2>1, ChangedUser DEF Finish, Txn
  <2>3. Unrevoked' = Unrevoked \ txn[t].gone
    BY <2>1
  <2>4. txn[d].effect = "refresh" =>
           session'[txn[d].row].generation = session[txn[d].row].generation
    BY <1>1, <1>2 DEF Kept
  <2> QED
    BY <1>1, <1>2, <1>3, <2>2, <2>3, <2>4 DEF Kept
<1>5. CASE Account \notin txn[d].locks
  <2>1. txn[d].effect \notin Ending \cup {"login", "refresh"}
    BY <1>1, <1>5 DEF Kept
  <2> QED
    BY <1>1, <1>2, <1>3, <2>1 DEF Kept, Ending, AdminOps
<1> QED
  BY <1>4, <1>5

(* What a commit leaves of the types.                                        *)
LEMMA FinishType ==
    ASSUME TypeOK, IInv, NEW t \in Clients, Finish(t), session' \in [Sessions -> Row]
    PROVE  TypeOK'
<1>1. txn[t] \in Txn /\ Kept(txn[t])
  BY DEF TypeOK, IInv, AllKept
<1>2. user' \in User
  BY <1>1, ChangedUser DEF Finish, Txn, Kept
<1>3. txn' \in [Clients -> Txn] /\ txn'[t] = Idle
      /\ \A d \in Clients \ {t} : txn'[d] = txn[d]
  BY IdleKept DEF Finish, Become, TypeOK
<1>4. Idle.row = NoSession /\ Idle.locks = {}
  BY DEF Idle
<1> QED
  BY <1>2, <1>3, <1>4 DEF TypeOK

(* A commit that inserts nothing.                                            *)
LEMMA CommitStep ==
    ASSUME TypeOK, IInv, NEW t \in Clients, Commit(t)
    PROVE  TypeOK' /\ IInv'
<1>1. /\ txn[t] \in Txn /\ Kept(txn[t]) /\ Finish(t)
      /\ txn[t].effect \notin {"login", "refresh"} /\ txn[t].pc = "commit"
  BY DEF TypeOK, IInv, AllKept, Commit, Finish
<1>2. txn[t].gone \subseteq Unrevoked
  BY <1>1 DEF Kept
<1>3. /\ session' \in [Sessions -> Row]
      /\ \A s \in Sessions :
            /\ session'[s].family = session[s].family
            /\ session'[s].parent = session[s].parent
            /\ session'[s].generation = session[s].generation
            /\ session'[s].state = IF s \in txn[t].gone THEN "revoked"
                                   ELSE session[s].state
  BY DEF Commit, RevokedRow, TypeOK, Row
<1>4. Unrevoked' = Unrevoked \ txn[t].gone /\ Issued' = Issued
  BY <1>2, <1>3 DEF Unrevoked, Issued
<1>5. Unrevoked \subseteq Sessions /\ Issued \subseteq Sessions
  BY DEF Unrevoked, Issued
<1>6. TypeOK'
  BY <1>1, <1>3, FinishType
<1>7. ASSUME NEW d \in Clients PROVE Kept(txn[d])'
  <2>1. CASE d = t
    <3>1. txn'[d] = Idle
      BY <1>1, <2>1 DEF Finish, Become, TypeOK
    <3> QED
      BY <3>1 DEF Idle, Kept, Ending, AdminOps
  <2>2. CASE d # t
    <3> DEFINE added == {}
    <3>1. /\ added \in SUBSET Sessions /\ ~(added # {})
          /\ Unrevoked' = (Unrevoked \ txn[t].gone) \cup added
          /\ \A s \in Unrevoked \ txn[t].gone :
                session'[s].generation = session[s].generation
      BY <1>3, <1>4, <1>5
    <3> HIDE DEF added
    <3> QED
      BY <1>1, <2>2, <3>1, OthersKept
  <2> QED
    BY <2>1, <2>2
<1>8. ChangesEndSessions'
  <2>1. CASE txn[t].effect \in Ending
    <3>1. Unrevoked' = {}
      BY <1>1, <1>4, <2>1 DEF Kept
    <3> QED
      BY <3>1 DEF ChangesEndSessions
  <2>2. CASE txn[t].effect \notin Ending
    <3>1. /\ user'.generation = user.generation
          /\ user.status = "active" => user'.status = "active"
      BY <1>1, <2>2, ChangedUser DEF Finish, Txn
    <3> QED
      BY <1>3, <1>4, <1>5, <3>1 DEF IInv, ChangesEndSessions
  <2> QED
    BY <2>1, <2>2
<1>9. Families' /\ RotatedOnce'
  BY <1>3, <1>4, <1>5 DEF IInv, Families, RotatedOnce
<1> QED
  BY <1>6, <1>7, <1>8, <1>9 DEF IInv, AllKept

(* A commit that inserts a session: of a family of its own, or in the place  *)
(* of the one it revokes.                                                    *)
LEMMA CommitNewStep ==
    ASSUME TypeOK, IInv, NEW t \in Clients, NEW new \in Sessions, CommitNew(t, new)
    PROVE  TypeOK' /\ IInv'
<1> DEFINE row == txn[t].row
<1>1. /\ txn[t] \in Txn /\ Kept(txn[t]) /\ Finish(t)
      /\ txn[t].effect \in {"login", "refresh"}
      /\ new \notin Issued
  BY DEF TypeOK, IInv, AllKept, CommitNew, Finish, Issued
<1>2. /\ Account \in txn[t].locks /\ user.status = "active" /\ user' = user
      /\ txn[t].gone \subseteq Unrevoked
  BY <1>1, ChangedUser DEF Kept, Finish, Ending, AdminOps, Txn
<1>3. Unrevoked \subseteq Issued /\ Issued \subseteq Sessions /\ new \notin txn[t].gone
      /\ NoSession \notin Sessions
  BY <1>1, <1>2, IdentityAssumption DEF Unrevoked, Issued, IdentityAssumption
<1>5. /\ txn[t].effect = "login" => row = NoSession
      /\ txn[t].effect = "refresh" => row \in txn[t].gone /\ row \in Issued
      /\ txn[t].generation = user.generation
  <2>1. CASE txn[t].effect = "login"
    BY <1>1, <2>1 DEF Kept
  <2>2. CASE txn[t].effect = "refresh"
    <3>1. row \in txn[t].gone /\ txn[t].generation = session[row].generation
      BY <1>1, <2>2 DEF Kept
    <3>2. row \in Unrevoked
      BY <1>2, <3>1
    <3> QED
      BY <1>3, <2>2, <3>1, <3>2 DEF IInv, ChangesEndSessions
  <2> QED
    BY <1>1, <2>1, <2>2
<1>6. /\ session'[new] = Inserted(t, new)
      /\ Inserted(t, new) \in Row
      /\ Inserted(t, new).state = "live" /\ Inserted(t, new).parent = row
      /\ Inserted(t, new).generation = user.generation
      /\ Inserted(t, new).family
            = IF txn[t].effect = "login" THEN new ELSE session[row].family
  <2>1. txn[t].effect # "login" => row \in Sessions
    BY <1>1, <1>3, <1>5
  <2>2. txn[t].generation \in 0..MaxChanges /\ row \in Sessions \cup {NoSession}
    BY <1>1 DEF Txn
  <2> QED
    BY <1>5, <2>1, <2>2 DEF CommitNew, Inserted, TypeOK, Row
<1>7. \A s \in Sessions \ {new} :
            /\ session'[s] \in Row
            /\ session'[s].family = session[s].family
            /\ session'[s].parent = session[s].parent
            /\ session'[s].generation = session[s].generation
            /\ session'[s].state = IF s \in txn[t].gone THEN "revoked"
                                   ELSE session[s].state
  BY DEF CommitNew, RevokedRow, TypeOK, Row
<1>8. Unrevoked' = (Unrevoked \ txn[t].gone) \cup {new} /\ Issued' = Issued \cup {new}
  BY <1>1, <1>2, <1>3, <1>6, <1>7 DEF Unrevoked, Issued
<1>9. session' \in [Sessions -> Row]
  BY <1>6, <1>7 DEF CommitNew
<1>10. TypeOK'
  BY <1>1, <1>9, FinishType
<1>11. ASSUME NEW d \in Clients PROVE Kept(txn[d])'
  <2>1. CASE d = t
    <3>1. txn'[d] = Idle
      BY <1>1, <2>1 DEF Finish, Become, TypeOK
    <3> QED
      BY <3>1 DEF Idle, Kept, Ending, AdminOps
  <2>2. CASE d # t
    BY <1>1, <1>2, <1>3, <1>7, <1>8, <2>2, OthersKept
  <2> QED
    BY <2>1, <2>2
<1>12. ChangesEndSessions'
  BY <1>2, <1>3, <1>6, <1>7, <1>8 DEF IInv, ChangesEndSessions
<1>13. Families'
  <2>1. ASSUME NEW s \in Issued
        PROVE  /\ session'[s].family \in Issued'
               /\ session'[s].parent # NoSession =>
                     session'[s].parent \in Issued' \ Unrevoked'
    BY <1>1, <1>3, <1>7, <1>8 DEF IInv, Families
  <2>2. /\ session'[new].family \in Issued'
        /\ session'[new].parent # NoSession =>
              session'[new].parent \in Issued' \ Unrevoked'
    BY <1>1, <1>3, <1>5, <1>6, <1>8 DEF IInv, Families
  <2> QED
    BY <1>8, <2>1, <2>2 DEF Families
<1>14. RotatedOnce'
  <2>1. ASSUME NEW s \in Issued, NEW d \in Issued, s # d
        PROVE  /\ session'[s].family = session'[d].family => ~({s, d} \subseteq Unrevoked')
               /\ session'[s].parent = session'[d].parent => session'[s].parent = NoSession
               /\ session'[s].parent = d => session'[s].family = session'[d].family
    BY <1>1, <1>3, <1>7, <1>8, <2>1 DEF IInv, RotatedOnce
  <2>2. ASSUME NEW s \in Issued
        PROVE  /\ session'[s].family = session'[new].family => s \notin Unrevoked'
               /\ session'[s].parent = session'[new].parent => session'[s].parent = NoSession
               /\ session'[s].parent # new
               /\ session'[new].parent = s => session'[s].family = session'[new].family
    <3>1. /\ session'[s].family = session[s].family /\ session'[s].parent = session[s].parent
          /\ session[s].family \in Issued
          /\ session[s].parent # NoSession => session[s].parent \in Issued \ Unrevoked
      BY <1>1, <1>3, <1>7 DEF IInv, Families
    <3>2. CASE txn[t].effect = "login"
      BY <1>1, <1>3, <1>5, <1>6, <3>1, <3>2
    <3>3. CASE txn[t].effect = "refresh"
      <4>1. /\ session'[new].family = session[row].family /\ session'[new].parent = row
            /\ row \in Unrevoked /\ row \in txn[t].gone /\ row \in Issued
        BY <1>2, <1>5, <1>6, <3>3
      <4>2. session[s].family = session[row].family => s = row \/ s \notin Unrevoked
        BY <4>1 DEF IInv, RotatedOnce
      <4> QED
        BY <1>1, <1>3, <1>8, <3>1, <4>1, <4>2
    <3> QED
      BY <1>1, <3>2, <3>3
  <2> QED
    BY <1>8, <2>1, <2>2 DEF RotatedOnce
<1> QED
  BY <1>10, <1>11, <1>12, <1>13, <1>14 DEF IInv, AllKept

-----------------------------------------------------------------------------
(* Every step keeps the types and the invariant.                             *)
LEMMA Inductive == TypeOK /\ IInv /\ [Next]_vars => TypeOK' /\ IInv'
<1> SUFFICES ASSUME TypeOK, IInv, [Next]_vars PROVE TypeOK' /\ IInv'
  OBVIOUS
<1>1. CASE UNCHANGED vars
  <2>1. UNCHANGED <<user, session, txn, Unrevoked, Issued>>
    BY <1>1 DEF vars, Unrevoked, Issued
  <2> QED
    BY <2>1 DEF TypeOK, IInv, AllKept, Kept, ChangesEndSessions, Families, RotatedOnce
<1>2. ASSUME NEW t \in Clients, Arrive(t) \/ Advance(t)
      PROVE  TypeOK' /\ IInv'
  BY <1>2, ArriveStep, PresentStep, LockUserStep, RevokeStep, RollbackStep,
     CommitStep, CommitNewStep DEF Advance
<1>3. ASSUME NEW s \in Sessions, Expire(s) PROVE TypeOK' /\ IInv'
  BY <1>3, ExpireStep
<1> QED
  BY <1>1, <1>2, <1>3 DEF Next

(* The account starts without sessions and requests.                         *)
LEMMA Initial == Init => TypeOK /\ IInv
<1> SUFFICES ASSUME Init PROVE TypeOK /\ IInv
  OBVIOUS
<1>1. user \in User /\ NoRow \in Row
  BY IdentityAssumption DEF Init, User, NoRow, Row, IdentityAssumption
<1>2. Unrevoked = {} /\ Issued = {}
  BY DEF Init, NoRow, Unrevoked, Issued
<1>3. TypeOK
  BY <1>1, IdleKept DEF Init, TypeOK, Idle
<1>4. AllKept
  BY IdleKept DEF Init, AllKept
<1> QED
  BY <1>2, <1>3, <1>4 DEF IInv, ChangesEndSessions, Families, RotatedOnce

(* Every state is well typed, and a selected row is locked by one request.   *)
THEOREM TypeCorrect == Spec => []TypeOK
BY Initial, Inductive, PTL DEF Spec

(* No session outlives a password reset or a change of role or status,       *)
(* whatever logins and rotations run beside it.                              *)
THEOREM ChangesEndSessionsHolds == Spec => []ChangesEndSessions
<1>1. IInv => ChangesEndSessions
  BY DEF IInv
<1> QED
  BY <1>1, Initial, Inductive, PTL DEF Spec

(* A family has at most one unrevoked session, and each token gives way to   *)
(* at most one other.                                                        *)
THEOREM RotatedOnceHolds == Spec => []RotatedOnce
<1>1. IInv => RotatedOnce
  BY DEF IInv
<1> QED
  BY <1>1, Initial, Inductive, PTL DEF Spec
=============================================================================
