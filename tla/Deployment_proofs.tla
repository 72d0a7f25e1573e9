--------------------------- MODULE Deployment_proofs ---------------------------
(***************************************************************************)
(* Proofs about Deployment: what the page shows and which token it holds,  *)
(* for any accounts and any number of rotations, and what "ready" means,   *)
(* for any number of questions.                                            *)
(***************************************************************************)
EXTENDS Deployment, TLAPS

-----------------------------------------------------------------------------
(* Readiness                                                                 *)

Answers == {"idle", "waiting", "ok", "failed", "ready", "not_ready"}

HealthType ==
    /\ database \in {"up", "down"}
    /\ probe \in {"none", "running", "answered", "ok", "failed"}
    /\ asker \in [Askers -> Answers]
    /\ heard \in SUBSET Askers

(* Whoever got the good end of a probe was among those it ended for.         *)
HealthInv ==
    /\ HealthType
    /\ \A a \in Askers : asker[a] \in {"ok", "ready"} => a \in heard

(* Every step of the probe and of the questions keeps HealthInv.             *)
LEMMA HealthMoves == HealthInv /\ H!Next => HealthInv'
<1> SUFFICES ASSUME HealthInv, H!Next PROVE HealthInv'
    OBVIOUS
<1>1. ASSUME NEW a \in Askers, H!Ask(a) PROVE HealthInv'
    BY <1>1 DEF HealthInv, HealthType, Answers, H!Ask, H!Running
<1>2. ASSUME NEW a \in Askers, H!Resume(a) PROVE HealthInv'
    BY <1>2 DEF HealthInv, HealthType, Answers, H!Resume
<1>3. ASSUME NEW a \in Askers, H!Deadline(a) PROVE HealthInv'
    BY <1>3 DEF HealthInv, HealthType, Answers, H!Deadline
<1>4. ASSUME NEW a \in Askers, H!Gone(a) PROVE HealthInv'
    BY <1>4 DEF HealthInv, HealthType, Answers, H!Gone
<1>5. CASE H!Select
    BY <1>5 DEF HealthInv, HealthType, H!Select
<1>6. ASSUME NEW result \in {"ok", "failed"}, H!ProbeEnds(result) PROVE HealthInv'
    BY <1>6 DEF HealthInv, HealthType, Answers, H!ProbeEnds, H!Running
<1>. QED BY <1>1, <1>2, <1>3, <1>4, <1>5, <1>6 DEF H!Next

-----------------------------------------------------------------------------
(* The page                                                                  *)

PageType ==
    /\ family = None \/ family \in Families
    /\ held = None \/ held \in Pairs
    /\ uploads \in Users \cup {None} /\ payload \in Users \cup {None}
    /\ error \in BOOLEAN /\ dropped \in BOOLEAN /\ replayed \in BOOLEAN
    /\ call = None \/ call \in Calls

(* The session of the page is the one of the latest login.                   *)
SessionKnown == held # None => family # None /\ held.user = family.user

(* What a call may rely on until its reply has been dealt with: a login runs *)
(* without a session, all else for the user of the session; and what the     *)
(* server has done stays done.                                               *)
Kept ==
    call # None =>
        /\ call.step = "login" => held = None
        /\ call.step # "login" => held # None /\ held.user = call.user
        /\ call.step = "refresh" => call.then \in Accesses
        /\ call.step = "login" /\ call.reply = "done" => family # None /\ family.user = call.user
        /\ call.step = "logout" /\ call.reply = "done" => ~family.alive

(* The page holds the valid token, except while the answer to its rotation   *)
(* is on the way, or after such an answer was dropped.                       *)
TokenCurrent ==
    held # None =>
        \/ dropped
        \/ held.token = family.token
        \/ call # None /\ call.step = "refresh" /\ call.reply = "done"

PageInv ==
    /\ PageType /\ SessionKnown /\ Kept /\ TokenCurrent
    /\ PrivateIsOwners /\ ReplayOnlyAfterLoss

(* A call that begins keeps PageInv, if it is a login of a page without a    *)
(* session or else one for the user of the session.                          *)
LEMMA BeginKeeps ==
    ASSUME PageInv, NEW next \in Calls, P!Begin(next), next.reply = None,
           next.step = "login" => held = None,
           next.step # "login" => held # None /\ held.user = next.user,
           next.step = "refresh" => next.then \in Accesses
    PROVE  PageInv'
<1>1. /\ call' = next /\ call = None
      /\ UNCHANGED <<family, held, uploads, payload, error, dropped, replayed>>
    BY DEF P!Begin, P!page
<1>2. next.reply # "done"
    BY NoneAssumption
<1>3. PageType' /\ SessionKnown'
    BY <1>1 DEF PageInv, PageType, SessionKnown
<1>4. Kept'
    BY <1>1, <1>2 DEF Kept
<1>5. TokenCurrent'
    BY <1>1 DEF PageInv, TokenCurrent
<1>6. PrivateIsOwners' /\ ReplayOnlyAfterLoss'
    BY <1>1 DEF PageInv, PrivateIsOwners, ReplayOnlyAfterLoss
<1>. QED BY <1>3, <1>4, <1>5, <1>6 DEF PageInv

(* A call with the access token may turn into a refresh first.               *)
LEMMA WithAccessIsCall ==
    ASSUME PageType, held # None, NEW op \in {"list", "upload", "open", "delete"},
           NEW step \in Accesses
    PROVE  LET next == P!WithAccess(op, step)
           IN  /\ next \in Calls /\ next.reply = None /\ next.user = held.user
               /\ next.step # "login" /\ next.step # "logout"
               /\ next.step = "refresh" => next.then \in Accesses
<1>1. held \in Pairs
    BY DEF PageType
<1>. QED BY <1>1 DEF P!WithAccess, P!Calling, Calls, Pairs, Accesses

LEMMA BeginMoves ==
    ASSUME PageInv,
           \/ \E u \in Users : P!SignIn(u)
           \/ P!SignOut \/ P!List \/ P!Upload \/ P!Open \/ P!Delete
    PROVE  PageInv'
<1>. PageType
    BY DEF PageInv
<1>1. ASSUME NEW u \in Users, P!SignIn(u) PROVE PageInv'
    <2> DEFINE next == P!Calling("sign_in", u, "login", None)
    <2>1. next \in Calls /\ next.reply = None /\ next.step = "login"
        BY DEF P!Calling, Calls
    <2>2. held = None /\ P!Begin(next)
        BY <1>1 DEF P!SignIn
    <2>. HIDE DEF next
    <2>. QED BY <2>1, <2>2, BeginKeeps
<1>2. CASE P!SignOut
    <2> DEFINE next == P!Calling("sign_out", held.user, "logout", None)
    <2>1. held # None /\ P!Begin(next)
        BY <1>2 DEF P!SignOut
    <2>2. held \in Pairs
        BY <2>1 DEF PageType
    <2>3. next \in Calls /\ next.reply = None /\ next.step = "logout" /\ next.user = held.user
        BY <2>2 DEF P!Calling, Calls, Pairs
    <2>. HIDE DEF next
    <2>. QED BY <2>1, <2>3, BeginKeeps
<1>3. ASSUME NEW op \in {"list", "upload", "open", "delete"}, NEW step \in Accesses,
             held # None, P!Begin(P!WithAccess(op, step))
      PROVE  PageInv'
    <2> DEFINE next == P!WithAccess(op, step)
    <2>1. /\ next \in Calls /\ next.reply = None /\ next.user = held.user
          /\ next.step # "login"
          /\ next.step = "refresh" => next.then \in Accesses
        BY <1>3, WithAccessIsCall
    <2>2. P!Begin(next)
        BY <1>3
    <2>. HIDE DEF next
    <2>. QED BY <1>3, <2>1, <2>2, BeginKeeps
<1>4. CASE P!List
    BY <1>3, <1>4 DEF P!List, Accesses
<1>5. CASE P!Upload
    BY <1>3, <1>5 DEF P!Upload, Accesses
<1>6. CASE P!Open
    BY <1>3, <1>6 DEF P!Open, Accesses
<1>7. CASE P!Delete
    BY <1>3, <1>7 DEF P!Delete, Accesses
<1>. QED BY <1>1, <1>2, <1>4, <1>5, <1>6, <1>7

(* What the server does with a call keeps PageInv.                           *)
LEMMA ServeMoves == PageInv /\ P!Serve => PageInv'
<1> SUFFICES ASSUME PageInv, P!Serve PROVE PageInv'
    OBVIOUS
<1> USE DEF PageInv, P!Serve, P!page
<1>1. /\ call \in Calls /\ call # None /\ call.reply = None
      /\ UNCHANGED <<held, uploads, payload, error, dropped>>
    BY DEF PageType
<1>2. PrivateIsOwners'
    BY <1>1 DEF PrivateIsOwners
<1>3. ASSUME NEW reply \in {"done", "refused"}, P!Reply(reply)
      PROVE  /\ call' \in Calls /\ call'.reply = reply
             /\ call'.op = call.op /\ call'.user = call.user
             /\ call'.step = call.step /\ call'.then = call.then
    BY <1>1, <1>3 DEF P!Reply, Calls
<1>4. CASE P!Login
    <2>1. P!Reply("done") /\ call.step = "login" /\ held = None
        BY <1>1, <1>4 DEF P!Login, Kept
    <2>2. family' = [user |-> call.user, token |-> 0, alive |-> TRUE] /\ replayed' = replayed
        BY <1>4 DEF P!Login
    <2>3. family' \in Families /\ family' # None /\ family'.user = call.user
        <3>1. call.user \in Users /\ 0 \in 0..MaxRotations
            BY <1>1, RotationsAssumption DEF Calls
        <3>2. family' \in Families /\ family'.user = call.user
            BY <2>2, <3>1 DEF Families
        <3>. QED BY <3>2, NoneAssumption DEF Families
    <2>4. PageType' /\ SessionKnown' /\ TokenCurrent' /\ ReplayOnlyAfterLoss'
        BY <1>1, <1>3, <2>1, <2>2, <2>3 DEF PageType, SessionKnown, TokenCurrent, ReplayOnlyAfterLoss
    <2>5. Kept'
        BY <1>1, <1>3, <2>1, <2>3 DEF Kept
    <2>. QED BY <1>2, <2>4, <2>5
<1>5. ASSUME call.step # "login"
      PROVE  held # None /\ held \in Pairs /\ held.user = call.user /\ family \in Families
    BY <1>1, <1>5 DEF PageType, Kept, SessionKnown
<1>6. ASSUME call.step # "login", family' \in Families, family'.user = family.user,
             NEW reply \in {"done", "refused"}, P!Reply(reply),
             call.step = "logout" /\ reply = "done" => ~family'.alive,
             replayed' \in BOOLEAN
      PROVE  PageType' /\ SessionKnown' /\ Kept'
    <2>1. family' # None /\ held.user = family'.user
        BY <1>5, <1>6, NoneAssumption DEF Families, SessionKnown
    <2>2. PageType' /\ SessionKnown'
        BY <1>1, <1>3, <1>6, <2>1 DEF PageType, SessionKnown
    <2>3. Kept'
        BY <1>1, <1>3, <1>6, <2>1 DEF Kept
    <2>. QED BY <2>2, <2>3
<1>7. CASE P!Rotate
    <2>1. call.step = "refresh" /\ family \in Families
        BY <1>5, <1>7 DEF P!Rotate
    <2>2. CASE P!Valid
        <3>1. /\ family.token < MaxRotations
              /\ family' = [family EXCEPT !.token = @ + 1]
              /\ P!Reply("done") /\ replayed' = replayed
            BY <1>7, <2>2 DEF P!Rotate
        <3>2. family' \in Families /\ family'.user = family.user
            BY <2>1, <3>1, RotationsAssumption DEF Families
        <3>3. PageType' /\ SessionKnown' /\ Kept'
            BY <1>6, <2>1, <3>1, <3>2 DEF PageType
        <3>4. TokenCurrent' /\ ReplayOnlyAfterLoss'
            BY <1>1, <1>3, <2>1, <3>1, NoneAssumption DEF TokenCurrent, ReplayOnlyAfterLoss
        <3>. QED BY <1>2, <3>3, <3>4
    <2>3. CASE ~P!Valid
        <3>1. /\ family' = [family EXCEPT !.alive = FALSE]
              /\ replayed' = (replayed \/ held.token # family.token)
              /\ P!Reply("refused")
            BY <1>7, <2>3 DEF P!Rotate
        <3>2. family' \in Families /\ family'.user = family.user /\ family'.token = family.token
            BY <2>1, <3>1 DEF Families
        <3>3. PageType' /\ SessionKnown' /\ Kept'
            BY <1>6, <2>1, <3>1, <3>2 DEF PageType
        <3>4. dropped \/ held.token = family.token
            BY <1>1, <1>5, <2>1, NoneAssumption DEF TokenCurrent
        <3>5. TokenCurrent' /\ ReplayOnlyAfterLoss'
            BY <1>1, <3>1, <3>2, <3>4 DEF TokenCurrent, ReplayOnlyAfterLoss, PageType
        <3>. QED BY <1>2, <3>3, <3>5
    <2>. QED BY <2>2, <2>3
<1>8. CASE P!Logout
    <2>1. /\ call.step = "logout" /\ family \in Families
          /\ family' = [family EXCEPT !.alive = FALSE]
          /\ P!Reply("done") /\ replayed' = replayed
        BY <1>5, <1>8 DEF P!Logout
    <2>2. /\ family' \in Families /\ family'.user = family.user /\ ~family'.alive
          /\ family'.token = family.token
        BY <2>1 DEF Families
    <2>3. PageType' /\ SessionKnown' /\ Kept'
        BY <1>6, <2>1, <2>2 DEF PageType
    <2>4. TokenCurrent' /\ ReplayOnlyAfterLoss'
        BY <1>1, <2>1, <2>2 DEF TokenCurrent, ReplayOnlyAfterLoss
    <2>. QED BY <1>2, <2>3, <2>4
<1>9. ASSUME NEW reply \in {"done", "refused"}, P!Reply(reply), UNCHANGED <<family, replayed>>,
             reply = "done" => call.step \in Accesses
      PROVE  PageInv'
    <2>1. PageType' /\ SessionKnown'
        BY <1>1, <1>3, <1>9 DEF PageType, SessionKnown
    <2>2. Kept'
        BY <1>1, <1>3, <1>9 DEF Kept, Accesses
    <2>3. TokenCurrent' /\ ReplayOnlyAfterLoss'
        BY <1>1, <1>9, NoneAssumption DEF TokenCurrent, ReplayOnlyAfterLoss
    <2>. QED BY <1>2, <2>1, <2>2, <2>3
<1>10. CASE P!Access
    BY <1>9, <1>10 DEF P!Access, Accesses
<1>11. CASE P!Refuse
    BY <1>9, <1>11 DEF P!Refuse
<1>. QED BY <1>4, <1>7, <1>8, <1>10, <1>11

(* What the page does with a good reply keeps PageInv.                       *)
LEMMA SucceedMoves == PageInv /\ P!Succeed => PageInv'
<1> SUFFICES ASSUME PageInv, P!Succeed PROVE PageInv'
    OBVIOUS
<1> USE DEF PageInv, P!Succeed, P!Ended
<1>1. /\ call \in Calls /\ call # None /\ call.reply = "done"
      /\ UNCHANGED <<family, dropped, replayed>>
    BY DEF PageType
<1>2. ReplayOnlyAfterLoss'
    BY <1>1 DEF ReplayOnlyAfterLoss
<1>3. call.step # "login" => held # None /\ held \in Pairs /\ held.user = call.user
    BY <1>1 DEF PageType, Kept
<1>4. family # None /\ family.user = call.user
    BY <1>1 DEF Kept, SessionKnown
<1>5. ASSUME P!Store
      PROVE  /\ held' \in Pairs /\ held' # None
             /\ held'.user = call.user /\ held'.token = family.token
    <2>1. held' = [user |-> call.user, token |-> family.token, fresh |-> TRUE]
        BY <1>5 DEF P!Store
    <2>2. call.user \in Users /\ family.token \in 0..MaxRotations
        BY <1>1, <1>4 DEF PageType, Families, Calls
    <2>3. held' \in Pairs /\ held'.user = call.user /\ held'.token = family.token
        BY <2>1, <2>2 DEF Pairs
    <2>. QED BY <2>3, NoneAssumption
<1>6. CASE /\ call.step = "login" /\ P!Store /\ error' = FALSE /\ call' = None
           /\ UNCHANGED <<uploads, payload>>
    <2>1. uploads = None /\ payload = None
        BY <1>1, <1>6 DEF Kept, PrivateIsOwners
    <2>2. PageType' /\ SessionKnown' /\ Kept' /\ TokenCurrent' /\ PrivateIsOwners'
        BY <1>1, <1>4, <1>5, <1>6, <2>1
        DEF PageType, SessionKnown, Kept, TokenCurrent, PrivateIsOwners
    <2>. QED BY <1>2, <2>2
<1>7. CASE /\ call.step = "refresh" /\ P!Store /\ P!GoOn(call.then)
           /\ UNCHANGED <<uploads, payload, error>>
    <2>1. call.then \in Accesses
        BY <1>1, <1>7 DEF Kept
    <2>2. /\ call' \in Calls /\ call'.user = call.user
          /\ call'.step = call.then /\ call'.reply = None
        BY <1>1, <1>7, <2>1 DEF P!GoOn, Calls
    <2>3. PageType' /\ SessionKnown' /\ TokenCurrent'
        BY <1>1, <1>4, <1>5, <1>7, <2>2 DEF PageType, SessionKnown, TokenCurrent
    <2>4. Kept'
        BY <1>5, <1>7, <2>1, <2>2 DEF Kept, Accesses
    <2>5. PrivateIsOwners'
        BY <1>3, <1>5, <1>7 DEF PrivateIsOwners
    <2>. QED BY <1>2, <2>3, <2>4, <2>5
<1>8. CASE call.step = "logout" /\ P!Clear /\ error' = FALSE /\ call' = None
    BY <1>1, <1>2, <1>8
    DEF P!Clear, PageType, SessionKnown, Kept, TokenCurrent, PrivateIsOwners
<1>9. ASSUME UNCHANGED held, call.step \in Accesses,
             uploads' \in {None, uploads, call.user}, payload' \in {None, payload, call.user},
             error' \in BOOLEAN, call' = None
      PROVE  PageInv'
    <2>1. held # None /\ held.user = call.user /\ call.user \in Users
        BY <1>1, <1>3, <1>9 DEF Accesses, Calls
    <2>2. PageType' /\ SessionKnown' /\ Kept'
        BY <1>1, <1>9, <2>1 DEF PageType, SessionKnown, Kept
    <2>3. TokenCurrent'
        BY <1>1, <1>9 DEF TokenCurrent, Accesses
    <2>4. PrivateIsOwners'
        BY <1>9, <2>1 DEF PrivateIsOwners
    <2>. QED BY <1>2, <2>2, <2>3, <2>4
<1>10. CASE /\ call.step = "create" /\ payload' = call.user
            /\ call' = P!WithAccess("upload", "list")
            /\ UNCHANGED <<held, uploads, error>>
    <2>1. held # None /\ held.user = call.user /\ call.user \in Users
        BY <1>1, <1>3, <1>10 DEF Calls
    <2>2. /\ call' \in Calls /\ call'.reply = None /\ call'.user = held.user
          /\ call'.step # "login" /\ call'.step # "logout"
          /\ call'.step = "refresh" => call'.then \in Accesses
        BY <1>10, <2>1, WithAccessIsCall DEF Accesses
    <2>3. PageType' /\ SessionKnown'
        BY <1>1, <1>10, <2>1, <2>2 DEF PageType, SessionKnown
    <2>4. Kept'
        BY <1>10, <2>1, <2>2 DEF Kept
    <2>5. TokenCurrent' /\ PrivateIsOwners'
        BY <1>1, <1>10, <2>1 DEF TokenCurrent, PrivateIsOwners
    <2>. QED BY <1>2, <2>3, <2>4, <2>5
<1>11. CASE /\ call.step = "list" /\ uploads' = call.user /\ error' = FALSE /\ call' = None
            /\ UNCHANGED <<held, payload>>
    BY <1>9, <1>11 DEF Accesses
<1>12. CASE /\ call.step = "read" /\ payload' = call.user /\ call' = None
            /\ UNCHANGED <<held, uploads, error>>
    BY <1>9, <1>12 DEF Accesses, PageType
<1>13. CASE /\ call.step = "delete" /\ uploads' = None /\ payload' = None /\ call' = None
            /\ UNCHANGED <<held, error>>
    BY <1>9, <1>13 DEF Accesses, PageType
<1>. QED BY <1>6, <1>7, <1>8, <1>10, <1>11, <1>12, <1>13

(* A call that fails, or that ends with its run, keeps PageInv; a rotation   *)
(* that goes down with the run is dropped.                                   *)
LEMMA FailMoves == PageInv /\ P!Fail => PageInv'
<1> SUFFICES ASSUME PageInv, P!Fail PROVE PageInv'
    OBVIOUS
<1>1. /\ call # None /\ call' = None /\ error' = TRUE
      /\ UNCHANGED <<family, dropped, replayed>>
    BY DEF P!Fail, P!Ended
<1>2. CASE P!Clear
    BY <1>1, <1>2 DEF P!Clear, PageInv, PageType, SessionKnown, Kept, TokenCurrent,
                      PrivateIsOwners, ReplayOnlyAfterLoss
<1>3. CASE call.step # "refresh" /\ payload' \in {None, payload} /\ UNCHANGED <<held, uploads>>
    BY <1>1, <1>3 DEF PageInv, PageType, SessionKnown, Kept, TokenCurrent,
                      PrivateIsOwners, ReplayOnlyAfterLoss
<1>. QED BY <1>2, <1>3 DEF P!Fail

LEMMA BreakMoves == PageInv /\ P!Break => PageInv'
<1> SUFFICES ASSUME PageInv, P!Break PROVE PageInv'
    OBVIOUS
<1>1. /\ call # None /\ call' = None
      /\ dropped' = (dropped \/ (call.step = "refresh" /\ call.reply = "done"))
      /\ UNCHANGED <<family, held, uploads, payload, error, replayed>>
    BY DEF P!Break, P!Ended, P!page
<1>2. dropped' \in BOOLEAN /\ (dropped => dropped')
    BY <1>1
<1>3. PageType' /\ SessionKnown' /\ Kept' /\ PrivateIsOwners'
    BY <1>1, <1>2 DEF PageInv, PageType, SessionKnown, Kept, PrivateIsOwners
<1>4. TokenCurrent' /\ ReplayOnlyAfterLoss'
    BY <1>1, <1>2 DEF PageInv, TokenCurrent, ReplayOnlyAfterLoss
<1>. QED BY <1>3, <1>4 DEF PageInv

(* A revocation elsewhere and the age of the access token keep PageInv.      *)
LEMMA WorldMoves == PageInv /\ (P!RevokedElsewhere \/ P!AccessAges) => PageInv'
<1>1. ASSUME PageInv, P!RevokedElsewhere PROVE PageInv'
    <2>1. /\ family # None /\ family \in Families
          /\ family' = [family EXCEPT !.alive = FALSE]
          /\ UNCHANGED <<held, uploads, payload, error, call, dropped, replayed>>
        BY <1>1 DEF P!RevokedElsewhere, P!page, PageInv, PageType
    <2>2. /\ family' \in Families /\ ~family'.alive
          /\ family'.user = family.user /\ family'.token = family.token
        BY <2>1 DEF Families
    <2>3. family' # None
        BY <2>2, NoneAssumption
    <2>4. PageType' /\ SessionKnown' /\ TokenCurrent'
        BY <1>1, <2>1, <2>2, <2>3 DEF PageInv, PageType, SessionKnown, TokenCurrent
    <2>5. Kept' /\ PrivateIsOwners' /\ ReplayOnlyAfterLoss'
        BY <1>1, <2>1, <2>2, <2>3 DEF PageInv, Kept, PrivateIsOwners, ReplayOnlyAfterLoss
    <2>. QED BY <2>4, <2>5 DEF PageInv
<1>2. ASSUME PageInv, P!AccessAges PROVE PageInv'
    <2>1. /\ held # None /\ held \in Pairs /\ held' = [held EXCEPT !.fresh = FALSE]
          /\ UNCHANGED <<family, uploads, payload, error, call, dropped, replayed>>
        BY <1>2 DEF P!AccessAges, PageInv, PageType
    <2>2. held' \in Pairs /\ held'.user = held.user /\ held'.token = held.token
        BY <2>1 DEF Pairs
    <2>3. held' # None
        BY <2>2, NoneAssumption
    <2>4. PageType' /\ SessionKnown' /\ TokenCurrent'
        BY <1>2, <2>1, <2>2, <2>3 DEF PageInv, PageType, SessionKnown, TokenCurrent
    <2>5. Kept' /\ PrivateIsOwners' /\ ReplayOnlyAfterLoss'
        BY <1>2, <2>1, <2>2, <2>3 DEF PageInv, Kept, PrivateIsOwners, ReplayOnlyAfterLoss
    <2>. QED BY <2>4, <2>5 DEF PageInv
<1>. QED BY <1>1, <1>2

-----------------------------------------------------------------------------
(* Both together                                                             *)

IInv == HealthInv /\ PageInv

LEMMA InitIInv == Init => IInv
BY NoneAssumption DEF Init, H!Init, P!Init, IInv, HealthInv, HealthType, Answers, PageInv, PageType,
   SessionKnown, Kept, TokenCurrent, PrivateIsOwners, ReplayOnlyAfterLoss

(* HealthInv and PageInv depend on the variables of their client only, and   *)
(* HealthInv on the state of the database.                                   *)
LEMMA Framed ==
    /\ PageInv /\ UNCHANGED session => PageInv'
    /\ HealthInv /\ UNCHANGED probing /\ database' \in {"up", "down"} => HealthInv'
BY DEF session, probing, HealthInv, HealthType, PageInv, PageType, SessionKnown, Kept,
       TokenCurrent, PrivateIsOwners, ReplayOnlyAfterLoss

LEMMA StepIInv == IInv /\ [Next]_vars => IInv'
<1> SUFFICES ASSUME IInv, [Next]_vars PROVE IInv'
    OBVIOUS
<1>. USE DEF IInv
<1>1. CASE H!Next /\ UNCHANGED session
    BY <1>1, HealthMoves, Framed
<1>2. CASE P!Next /\ UNCHANGED probing
    <2>1. PageInv'
        BY <1>2, BeginMoves, ServeMoves, SucceedMoves, FailMoves, BreakMoves, WorldMoves DEF P!Next
    <2>2. database' = database
        BY <1>2 DEF P!Next, P!SignIn, P!SignOut, P!List, P!Upload, P!Open, P!Delete, P!Begin,
                    P!Serve, P!Succeed, P!Fail, P!Break, P!RevokedElsewhere, P!AccessAges
    <2>. QED BY <1>2, <2>1, <2>2, Framed DEF HealthInv, HealthType
<1>3. CASE DatabaseChanges
    BY <1>3, Framed DEF DatabaseChanges
<1>4. CASE UNCHANGED vars
    BY <1>4, Framed DEF vars, HealthInv, HealthType
<1>. QED BY <1>1, <1>2, <1>3, <1>4 DEF Next

LEMMA IInvHolds == Spec => []IInv
BY InitIInv, StepIInv, PTL DEF Spec

-----------------------------------------------------------------------------
(* The theorems                                                              *)

(* Every reachable state of the deployment is well typed, and the session    *)
(* the page holds is the one of the latest login (frontend/app.py,           *)
(* database/manager.py).                                                     *)
THEOREM TypeCorrect == Spec => []TypeOK
<1>1. IInv => TypeOK
    BY DEF IInv, HealthInv, HealthType, Answers, PageInv, PageType, SessionKnown, TypeOK
<1>. QED BY <1>1, IInvHolds, PTL

(* The page shows uploads and histories of nobody but the user it is signed  *)
(* in as, for any number of accounts (frontend/app.py,                       *)
(* _clear_stock_session).                                                    *)
THEOREM PrivateIsOwnersHolds == Spec => []PrivateIsOwners
<1>1. IInv => PrivateIsOwners
    BY DEF IInv, PageInv
<1>. QED BY <1>1, IInvHolds, PTL

(* A rotated token is presented only after a run that died between a         *)
(* rotation and its reply, for any number of rotations (frontend/app.py,     *)
(* _stock_access_token).                                                     *)
THEOREM ReplayOnlyAfterLossHolds == Spec => []ReplayOnlyAfterLoss
<1>1. IInv => ReplayOnlyAfterLoss
    BY DEF IInv, PageInv
<1>. QED BY <1>1, IInvHolds, PTL

(* "ready" is the answer of a probe that ended after the question, for any   *)
(* number of questions (database/manager.py, ping).                          *)
THEOREM ReadyIsRecentHolds == Spec => []ReadyIsRecent
<1>1. IInv => ReadyIsRecent
    BY DEF IInv, HealthInv, ReadyIsRecent
<1>. QED BY <1>1, IInvHolds, PTL

(* A page that loses its session without an error has ended the family on   *)
(* the server (frontend/app.py, the sign-out of the private part).          *)
THEOREM SignedOutIsRevokedHolds == Spec => SignedOutIsRevoked
<1> DEFINE A == held # None /\ held' = None /\ ~error' => ~family'.alive
<1>1. ASSUME IInv, Next, held # None, held' = None, ~error' PROVE ~family'.alive
    <2>1. P!Next
        BY <1>1 DEF Next, session, DatabaseChanges
    <2>2. CASE P!Succeed
        <3>1. /\ call # None /\ call.reply = "done" /\ family' = family
              /\ call.step = "logout" \/ P!Store \/ held' = held
            BY <2>2 DEF P!Succeed
        <3>2. ASSUME P!Store PROVE FALSE
            <4>1. call \in Calls /\ family \in Families
                BY <1>1, <3>1 DEF IInv, PageInv, PageType, Kept, SessionKnown
            <4>2. held' = [user |-> call.user, token |-> family.token, fresh |-> TRUE]
                BY <3>2 DEF P!Store
            <4>3. held' \in Pairs
                BY <4>1, <4>2 DEF Calls, Families, Pairs
            <4>. QED BY <1>1, <4>3, NoneAssumption
        <3>3. call.step = "logout"
            BY <1>1, <3>1, <3>2
        <3>. QED BY <1>1, <3>1, <3>3 DEF IInv, PageInv, Kept
    <2>3. CASE P!Fail
        BY <1>1, <2>3 DEF P!Fail
    <2>4. CASE P!AccessAges
        <3>1. held \in Pairs /\ held' = [held EXCEPT !.fresh = FALSE]
            BY <1>1, <2>4 DEF P!AccessAges, IInv, PageInv, PageType
        <3>2. held' \in Pairs
            BY <3>1 DEF Pairs
        <3>. QED BY <1>1, <3>2, NoneAssumption
    <2>5. CASE held' = held
        BY <1>1, <2>5
    <2>. QED BY <2>1, <2>2, <2>3, <2>4, <2>5
             DEF P!Next, P!SignIn, P!SignOut, P!List, P!Upload, P!Open, P!Delete, P!Begin, P!page,
                 P!Serve, P!Break, P!RevokedElsewhere
<1>2. IInv /\ [Next]_vars => [A]_vars
    BY <1>1
<1>. QED BY <1>2, IInvHolds, PTL DEF Spec, SignedOutIsRevoked
=============================================================================
