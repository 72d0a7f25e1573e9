----------------------------- MODULE RateLimiter -----------------------------
(***************************************************************************)
(* The fixed-window rate limiter of the API                                *)
(* (backend/app/core/rate_limits.py): Redis counts the attempts of a       *)
(* client, and while it does not answer a bounded table of the process     *)
(* does, each with windows of its own.                                     *)
(*                                                                         *)
(* Time advances in instants, a window is Window of them.  A window is the *)
(* attempts counted in it and the instants until it ends; Redis drops one  *)
(* that ended, the table keeps it until it needs the place.                *)
(***************************************************************************)
EXTENDS Naturals, FiniteSets

CONSTANTS Clients, Limit, Window,
          Capacity,  \* clients in the local table, 10 000 in the code
          MaxTries,  \* bound: attempts of a client in one instant
          None

Stores == {"redis", "table"}

(* None is no wait that a client may be told.                                *)
ASSUME LimiterAssumption ==
    /\ {Limit, Window, Capacity, MaxTries} \subseteq Nat \ {0}
    /\ None \notin [store : Stores, left : 0..(Window + 1), again : BOOLEAN]

VARIABLES redis,    \* whether Redis answers
          remote,   \* client -> window, in Redis
          local,    \* client -> window, in the table of the process
          counted,  \* client -> store -> attempts in each of the last Window instants
          passed,   \* client -> store -> those of them that were let through
          told,     \* client -> the wait it was told, and whether it had waited, or None
          verdict   \* the last verdict, or None

vars == <<redis, remote, local, counted, passed, told, verdict>>

Opened == [count |-> 0, left |-> Window]
Counted(w) == [w EXCEPT !.count = @ + 1]

(* The windows with one client's opened or counted anew.                     *)
Put(c, w, windows) ==
    [k \in DOMAIN windows \cup {c} |-> IF k = c THEN w ELSE windows[k]]

-----------------------------------------------------------------------------
(* Fault: each attempt puts the expiry off.                                  *)
RemoteProlonged(c) ==
    [Counted(IF c \in DOMAIN remote THEN remote[c] ELSE Opened) EXCEPT !.left = Window]

(* Redis: INCR, and EXPIRE for the first attempt, in one script.             *)
Remote(c) == Counted(IF c \in DOMAIN remote THEN remote[c] ELSE Opened)

(* What Redis tells of the instants a window has left: it rounds them to the *)
(* nearest whole one, which may be one short or one long, and a wait is      *)
(* never told as none.                                                       *)
Ttl(left) == {wait \in (left - 1)..(left + 1) : wait >= 1}

(* The table: a full one first forgets the windows that ended.               *)
Live == {c \in DOMAIN local : local[c].left > 0}

Kept(c) ==
    IF c \notin DOMAIN local /\ Cardinality(DOMAIN local) >= Capacity THEN Live
    ELSE DOMAIN local

(* Fault: one client more than there is place for.                           *)
FullBeyond(c) == c \notin DOMAIN local /\ Cardinality(Kept(c)) > Capacity

Full(c) == c \notin DOMAIN local /\ Cardinality(Kept(c)) >= Capacity

(* Fault: a window that ended counts from zero but does not start again.     *)
LocalUnrenewed(c) ==
    IF c \in Live THEN Counted(local[c])
    ELSE IF c \in DOMAIN local THEN [count |-> 1, left |-> 0]
    ELSE Counted(Opened)

Local(c) == Counted(IF c \in Live THEN local[c] ELSE Opened)

-----------------------------------------------------------------------------
(* History                                                                   *)

Now(log, c, store) == [log EXCEPT ![c][store][1] = @ + 1]

(* A client that waited as the store told it, and one that did so when it    *)
(* was told.                                                                 *)
Waited(c, store) == told[c] # None /\ told[c].store = store /\ told[c].left = 0
WaitedAgain(c, store) == Waited(c, store) /\ told[c].again

Judge(c, store, cause, wait) ==
    /\ verdict' = [client |-> c, store |-> store, cause |-> cause,
                   waited |-> Waited(c, store), again |-> WaitedAgain(c, store)]
    /\ told' = [told EXCEPT ![c] =
                    IF cause = "spent"
                    THEN [store |-> store, left |-> wait, again |-> Waited(c, store)]
                    ELSE None]
    /\ passed' = IF cause = "none" THEN Now(passed, c, store) ELSE passed

Cause(w) == IF w.count <= Limit THEN "none" ELSE "spent"

Tries(c) == counted[c]["redis"][1] + counted[c]["table"][1]

-----------------------------------------------------------------------------
AskRedis(c) ==
    /\ redis /\ Tries(c) < MaxTries
    /\ remote' = Put(c, Remote(c), remote)
    /\ counted' = Now(counted, c, "redis")
    /\ \E wait \in Ttl(Remote(c).left) : Judge(c, "redis", Cause(Remote(c)), wait)
    /\ UNCHANGED <<redis, local>>

(* The table decides where Redis does not answer, be it that the attempt was *)
(* counted there (heard) and only the answer is lost.                        *)
AskTable(c, heard) ==
    /\ Tries(c) < MaxTries
    /\ heard => redis
    /\ remote' = IF heard THEN Put(c, Remote(c), remote) ELSE remote
    /\ LET noted == IF heard THEN Now(counted, c, "redis") ELSE counted
       IN  IF Full(c)
           THEN /\ local' = [k \in Kept(c) |-> local[k]]
                /\ counted' = noted
                /\ Judge(c, "table", "full", Window)
           ELSE /\ local' = Put(c, Local(c), [k \in Kept(c) |-> local[k]])
                /\ counted' = Now(noted, c, "table")
                /\ Judge(c, "table", Cause(Local(c)), Local(c).left)
    /\ UNCHANGED redis

(* The middleware asks for each call of the API, whatever it is.             *)
Check(c) == AskRedis(c) \/ \E heard \in BOOLEAN : AskTable(c, heard)

Elapsed(w) == [w EXCEPT !.left = IF @ = 0 THEN 0 ELSE @ - 1]
Shifted(log) == [c \in Clients |-> [s \in Stores |->
                    [i \in 1..Window |-> IF i = 1 THEN 0 ELSE log[c][s][i - 1]]]]

Tick ==
    /\ remote' = [c \in {k \in DOMAIN remote : remote[k].left > 1} |-> Elapsed(remote[c])]
    /\ local' = [c \in DOMAIN local |-> Elapsed(local[c])]
    /\ counted' = Shifted(counted)
    /\ passed' = Shifted(passed)
    /\ told' = [c \in Clients |-> IF told[c] = None THEN None ELSE Elapsed(told[c])]
    /\ verdict' = None
    /\ UNCHANGED redis

(* Redis keeps its counts while it does not answer.                          *)
Outage == redis' = ~redis /\ UNCHANGED <<remote, local, counted, passed, told, verdict>>

Silent == [c \in Clients |-> [s \in Stores |-> [i \in 1..Window |-> 0]]]

Init ==
    /\ redis \in BOOLEAN
    /\ remote = <<>> /\ local = <<>>
    /\ counted = Silent /\ passed = Silent
    /\ told = [c \in Clients |-> None]
    /\ verdict = None

Next == (\E c \in Clients : Check(c)) \/ Tick \/ Outage

Spec == Init /\ [][Next]_vars

-----------------------------------------------------------------------------
(* The sums of the last k instants of a log, and of all Window of them.      *)
Sums(log) == LET sum[k \in 0..Window] == IF k = 0 THEN 0 ELSE sum[k - 1] + log[k] IN sum
SumOf(log) == Sums(log)[Window]

WindowOk(w) == w.count \in 1..(MaxTries * Window) /\ w.left \in 0..Window

(* Type invariant; the table never outgrows its capacity.                    *)
TypeOK ==
    /\ redis \in BOOLEAN
    /\ DOMAIN remote \subseteq Clients /\ \A c \in DOMAIN remote : WindowOk(remote[c])
    /\ DOMAIN local \subseteq Clients /\ \A c \in DOMAIN local : WindowOk(local[c])
    /\ Cardinality(DOMAIN local) <= Capacity
    /\ verdict = None \/ verdict.cause \in {"none", "spent", "full"}

(* However its attempts fall on the windows, each store lets a client through *)
(* at most twice the limit in any Window instants: over an outage of Redis   *)
(* that is four times the limit, and no more.                                *)
SpanBudget ==
    \A c \in Clients, s \in Stores : SumOf(passed[c][s]) <= 2 * Limit

(* Who is refused has used the limit up in the last Window instants, or has  *)
(* no place in a table full of others whose windows still run.  Who waited   *)
(* as the table told it is refused for the second cause only; who waited as  *)
(* Redis told it, rounded as that is, may find its window still running,     *)
(* but not when it waits as it is told then.                                 *)
RefusedForCause ==
    verdict # None =>
        LET c == verdict.client
        IN  /\ verdict.cause = "spent" =>
                  /\ SumOf(counted[c][verdict.store]) > Limit
                  /\ verdict.waited => verdict.store = "redis" /\ ~verdict.again
            /\ verdict.cause = "full" => Cardinality(Live \ {c}) >= Capacity
=============================================================================
