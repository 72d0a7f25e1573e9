---------------------------- MODULE ProviderFetch ----------------------------
(***************************************************************************)
(* ProviderManager.fetch for one cache key: callers in several processes   *)
(* that share a Redis entry with a soft and a hard expiry and a Redis lock *)
(* with an owner token and a lifetime; callers of one process also share   *)
(* an asyncio.Lock (backend/app/providers/manager.py, cache/redis_cache.py).*)
(*                                                                         *)
(* Every await is a place of its own ("pc"), and the step that leaves it   *)
(* has the effect of the command in Redis and runs the code up to the next *)
(* await.  The provider refresh is one place, "refreshing": that it ends   *)
(* in time, with one of three outcomes, is what RefreshContract promises.  *)
(*                                                                         *)
(* Timers are relative, and an age stops counting where nothing tells it   *)
(* from a higher one.                                                      *)
(***************************************************************************)
EXTENDS Naturals, Sequences

CONSTANTS Callers,     \* fetches that may run at the same time
          NoCaller,    \* nobody: the token of a lock that is free
          Processes,   \* API processes
          Process,     \* Process[c]: the process caller c runs in
          SoftTTL,     \* age from which an entry is stale
          HardTTL,     \* age from which an entry is not to be used
          LockTTL,     \* lifetime of the Redis lock
          LockWait,    \* how long a caller polls while the lock is busy
          Deadline,    \* the longest provider refresh
          ReplyMax,    \* the longest a Redis reply takes
          Flaky,       \* processes whose Redis commands may fail
          Unhandled    \* callers whose refresh may end in an unhandled exception

ASSUME FetchAssumption ==
    /\ NoCaller \notin Callers
    /\ Process \in [Callers -> Processes]
    /\ SoftTTL \in Nat \ {0} /\ HardTTL \in Nat /\ SoftTTL <= HardTTL
    /\ Deadline \in Nat \ {0} /\ LockTTL \in Nat /\ LockTTL >= Deadline
    /\ LockWait \in Nat /\ ReplyMax \in Nat
    /\ Flaky \subseteq Processes
    /\ Unhandled \subseteq Callers

VARIABLES entry,   \* the cached envelope in Redis
          lock,    \* the Redis lock of the key
          queue,   \* queue[p]: the holder of process p's local lock, then its waiters
          fetch,   \* fetch[c]: where caller c stands
          needless \* history: processes that refreshed the entry since it is fresh

vars == <<entry, lock, queue, fetch, needless>>

Nothing == HardTTL + 1   \* the age of no value

NoEntry == [state |-> "absent", age |-> 0]
NoLock  == [token |-> NoCaller, age |-> 0]
Idle    == [pc |-> "idle", resume |-> "idle", stale |-> Nothing,
            owner |-> FALSE, left |-> 0, result |-> "none"]

Entry == [state : {"absent", "valid", "invalid"}, age : 0..HardTTL]
Lock  == [token : Callers \cup {NoCaller}, age : 0..LockTTL]

(* Places of a caller that holds the local lock of its process.              *)
Guarded == {"recheck", "locking", "waiting", "fallback", "refreshing",
            "writing", "releasing", "returning"}

Places == {"idle", "lookup", "status", "queued", "purging", "answering"} \cup Guarded

Caller == [pc     : Places,
           resume : Places,          \* where a caller goes on after a purge
           stale  : 0..Nothing,      \* age of the stale value in hand
           owner  : BOOLEAN,         \* acquire_lock returned a token
           left   : Nat,             \* ticks left to refresh, or to poll
           result : {"none", "hit", "fresh", "stale", "error"}]

Typed ==
    /\ entry \in Entry
    /\ lock \in Lock
    /\ queue \in [Processes -> Seq(Callers)]
    /\ fetch \in [Callers -> Caller]
    /\ needless \subseteq Processes

(* A caller under the local lock of its process is the head of its queue.    *)
Inside(c) == \/ fetch[c].pc \in Guarded
             \/ fetch[c].pc = "purging" /\ fetch[c].resume \in Guarded

LocalLock ==
    \A c \in Callers : Inside(c) => /\ queue[Process[c]] # <<>>
                                   /\ Head(queue[Process[c]]) = c

TypeOK == Typed /\ LocalLock

(* A release may find what an older one has left in the cache.               *)
Init ==
    /\ entry \in {NoEntry} \cup [state : {"valid", "invalid"}, age : {0}]
    /\ lock = NoLock
    /\ queue = [p \in Processes |-> <<>>]
    /\ fetch = [c \in Callers |-> Idle]
    /\ needless = {}

-----------------------------------------------------------------------------
(* Redis.                                                                    *)

Fresh == entry.state = "valid" /\ entry.age < SoftTTL

(* What a read of the entry shows.  An envelope past its hard expiry that    *)
(* Redis has not dropped yet, a corrupt one, and a value of another schema   *)
(* are all purged and then count as a miss.                                  *)
Found ==
    CASE entry.state = "absent"                                -> "miss"
      [] entry.state = "invalid" \/ (entry.state = "valid"
                                     /\ entry.age >= HardTTL)  -> "purge"
      [] Fresh                                                 -> "hit"
      [] OTHER                                                 -> "stale"

(* A command that fails is a bypass: the caller goes on without Redis.       *)
Unreliable(c) == Process[c] \in Flaky

Seen(c) == {Found} \cup (IF Unreliable(c) THEN {"bypass"} ELSE {})

(* A write command is carried out, or it fails before or after its effect.   *)
Carried(c) == {[done |-> TRUE, ok |-> TRUE]}
              \cup (IF Unreliable(c) THEN [done : BOOLEAN, ok : {FALSE}] ELSE {})

(* The history is of one spell of freshness.                                 *)
Remember == needless' = IF Fresh' THEN needless ELSE {}

Set(c, f) == fetch' = [fetch EXCEPT ![c] = f]

Goto(c, place) == Set(c, [fetch[c] EXCEPT !.pc = place])

Purge(c, place) == Set(c, [fetch[c] EXCEPT !.pc = "purging", !.resume = place])

(* The caller has its answer: what remains is to give back what it holds.    *)
Settle(c, result) ==
    Set(c, [fetch[c] EXCEPT !.pc = IF fetch[c].owner THEN "releasing" ELSE "returning",
                            !.result = result, !.left = 0])

(* The stale value in hand, if any, or else an error.                        *)
FallBack(c) == Settle(c, IF fetch[c].stale = Nothing THEN "error" ELSE "stale")

-----------------------------------------------------------------------------
(* Before the local lock.                                                    *)

Begin(c) ==
    /\ fetch[c].pc = "idle"
    /\ Goto(c, "lookup")
    /\ UNCHANGED <<entry, lock, queue, needless>>

Join(c, f) ==
    /\ Set(c, [f EXCEPT !.pc = "queued"])
    /\ queue' = [queue EXCEPT ![Process[c]] = Append(@, c)]

(* the first read: a fresh value is the answer, a stale one is kept.         *)
Lookup(c) ==
    /\ fetch[c].pc = "lookup"
    /\ \E seen \in Seen(c) :
          \/ /\ seen = "hit"
             /\ Set(c, [fetch[c] EXCEPT !.pc = "answering", !.result = "hit"])
             /\ UNCHANGED queue
          \/ seen = "stale" /\ Join(c, [fetch[c] EXCEPT !.stale = entry.age])
          \/ seen = "purge" /\ Purge(c, "status") /\ UNCHANGED queue
          \/ seen \in {"miss", "bypass"} /\ Goto(c, "status") /\ UNCHANGED queue
    /\ UNCHANGED <<entry, lock, needless>>

(* the second read is for the status only: a value it finds is not used, nor *)
(* is its schema looked at.                                                  *)
Status(c) ==
    /\ fetch[c].pc = "status"
    /\ \/ Found = "purge" /\ Purge(c, "queued") /\ UNCHANGED queue
       \/ /\ Seen(c) # {"purge"} \/ entry.state = "invalid"
          /\ Join(c, fetch[c])
    /\ UNCHANGED <<entry, lock, needless>>

(* the delete that follows a read, whatever the entry is by now.             *)
Delete(c) ==
    /\ fetch[c].pc = "purging"
    /\ \E carried \in Carried(c) :
          entry' = IF carried.done THEN NoEntry ELSE entry
    /\ LET f == [fetch[c] EXCEPT !.resume = "idle"]
       IN  IF fetch[c].resume = "queued"
           THEN Join(c, f)
           ELSE Set(c, [f EXCEPT !.pc = fetch[c].resume]) /\ UNCHANGED queue
    /\ Remember
    /\ UNCHANGED lock

-----------------------------------------------------------------------------
(* Under the local lock, which is granted in the order of arrival.           *)

(* Fault: no local lock.                                                     *)
EnterAtOnce(c) ==
    /\ fetch[c].pc = "queued"
    /\ Goto(c, "recheck")
    /\ UNCHANGED <<entry, lock, queue, needless>>

Enter(c) ==
    /\ fetch[c].pc = "queued"
    /\ queue[Process[c]] # <<>> /\ Head(queue[Process[c]]) = c
    /\ Goto(c, "recheck")
    /\ UNCHANGED <<entry, lock, queue, needless>>

(* Fault: no second read under the local lock.                               *)
RecheckNothing(c) ==
    /\ fetch[c].pc = "recheck"
    /\ Goto(c, "locking")
    /\ UNCHANGED <<entry, lock, queue, needless>>

(* a stale value replaces the one in hand; a miss does not.                  *)
Recheck(c) ==
    /\ fetch[c].pc = "recheck"
    /\ \E seen \in Seen(c) :
          \/ seen = "hit" /\ Settle(c, "hit")
          \/ seen = "stale" /\ Set(c, [fetch[c] EXCEPT !.pc = "locking", !.stale = entry.age])
          \/ seen = "purge" /\ Purge(c, "locking")
          \/ seen \in {"miss", "bypass"} /\ Goto(c, "locking")
    /\ UNCHANGED <<entry, lock, queue, needless>>

Refreshing(c, owner) ==
    Set(c, [fetch[c] EXCEPT !.pc = "refreshing", !.owner = owner,
                            !.left = Deadline + ReplyMax])

(* SET NX: the reply may be lost with the lock taken, and then nobody knows  *)
(* its token.  A caller that got no answer refreshes without the lock.       *)
AcquireLock(c) ==
    /\ fetch[c].pc = "locking"
    /\ \E carried \in Carried(c) :
          /\ lock' = IF carried.done /\ lock = NoLock
                     THEN [token |-> c, age |-> 0] ELSE lock
          /\ IF carried.ok /\ lock # NoLock
             THEN Set(c, [fetch[c] EXCEPT !.pc = "waiting", !.left = LockWait])
                  /\ UNCHANGED needless
             ELSE Refreshing(c, carried.ok)
                  /\ needless' = IF Fresh THEN needless \cup {Process[c]} ELSE needless
    /\ UNCHANGED <<entry, queue>>

(* the lock is busy: poll for a fresh value.                                 *)
Poll(c) ==
    /\ fetch[c].pc = "waiting"
    /\ fetch[c].left > 0
    /\ \/ Found = "hit" /\ Settle(c, "hit")
       \/ Found = "purge" /\ Purge(c, "waiting")
    /\ UNCHANGED <<entry, lock, queue, needless>>

(* the wait is over: one more read, and a stale value will do.               *)
GiveUp(c) ==
    /\ fetch[c].pc = "waiting"
    /\ fetch[c].left = 0
    /\ \E seen \in Seen(c) :
          \/ seen = "hit" /\ Settle(c, "hit")
          \/ seen = "stale" /\ Set(c, [fetch[c] EXCEPT !.pc = "fallback", !.stale = entry.age])
          \/ seen = "purge" /\ Purge(c, "fallback")
          \/ seen \in {"miss", "bypass"} /\ Goto(c, "fallback")
    /\ UNCHANGED <<entry, lock, queue, needless>>

(* Fault: a busy lock is an error, whatever is in hand.                      *)
AnswerBusy(c) ==
    /\ fetch[c].pc = "fallback"
    /\ Settle(c, "error")
    /\ UNCHANGED <<entry, lock, queue, needless>>

AnswerStale(c) ==
    /\ fetch[c].pc = "fallback"
    /\ FallBack(c)
    /\ UNCHANGED <<entry, lock, queue, needless>>

-----------------------------------------------------------------------------
(* The refresh and what follows it.                                          *)

RefreshSucceeds(c) ==
    /\ fetch[c].pc = "refreshing"
    /\ Set(c, [fetch[c] EXCEPT !.pc = "writing", !.left = 0])
    /\ UNCHANGED <<entry, lock, queue, needless>>

(* a ProviderError: circuit, quota, transport, status or schema.             *)
RefreshFails(c) ==
    /\ fetch[c].pc = "refreshing"
    /\ FallBack(c)
    /\ UNCHANGED <<entry, lock, queue, needless>>

(* any other exception passes through fetch, and "finally" releases.         *)
RefreshAborts(c) ==
    /\ c \in Unhandled
    /\ fetch[c].pc = "refreshing"
    /\ Settle(c, "error")
    /\ UNCHANGED <<entry, lock, queue, needless>>

(* the cache write, whose failure is no more than a warning.                 *)
Write(c) ==
    /\ fetch[c].pc = "writing"
    /\ \E carried \in Carried(c) :
          entry' = IF carried.done THEN [state |-> "valid", age |-> 0] ELSE entry
    /\ Settle(c, "fresh")
    /\ Remember
    /\ UNCHANGED <<lock, queue>>

(* Fault: whoever holds the lock loses it.                                   *)
ReleaseAnyLock(c) ==
    /\ fetch[c].pc = "releasing"
    /\ \E carried \in Carried(c) : lock' = IF carried.done THEN NoLock ELSE lock
    /\ Goto(c, "returning")
    /\ UNCHANGED <<entry, queue, needless>>

(* the release script deletes the lock only if it holds the caller's token.  *)
ReleaseLock(c) ==
    /\ fetch[c].pc = "releasing"
    /\ \E carried \in Carried(c) :
          lock' = IF carried.done /\ lock.token = c THEN NoLock ELSE lock
    /\ Goto(c, "returning")
    /\ UNCHANGED <<entry, queue, needless>>

(* Fault: the local lock is not given back.                                  *)
ReturnWithLock(c) ==
    /\ fetch[c].pc = "returning"
    /\ Set(c, Idle)
    /\ UNCHANGED <<entry, lock, queue, needless>>

(* the local lock goes to the next waiter.                                   *)
Return(c) ==
    /\ fetch[c].pc = "returning"
    /\ queue' = [queue EXCEPT ![Process[c]] = Tail(@)]
    /\ Set(c, Idle)
    /\ UNCHANGED <<entry, lock, needless>>

(* an answer that needed no lock.                                            *)
Answer(c) ==
    /\ fetch[c].pc = "answering"
    /\ Set(c, Idle)
    /\ UNCHANGED <<entry, lock, queue, needless>>

-----------------------------------------------------------------------------
(* Redis drops an entry at its hard expiry, on a clock of its own.           *)
Expire ==
    /\ entry.state # "absent"
    /\ entry.age = HardTTL
    /\ entry' = NoEntry
    /\ Remember
    /\ UNCHANGED <<lock, queue, fetch>>

Older(age, limit) == IF age < limit THEN age + 1 ELSE age

(* A refresh does not outlast its deadline.                                  *)
Tick ==
    /\ \A c \in Callers : fetch[c].pc = "refreshing" => fetch[c].left > 0
    /\ entry' = IF entry.state = "absent" THEN entry
                ELSE [entry EXCEPT !.age = Older(@, HardTTL)]
    /\ lock' = IF lock = NoLock \/ lock.age + 1 >= LockTTL THEN NoLock
               ELSE [lock EXCEPT !.age = @ + 1]
    /\ fetch' = [c \in Callers |->
                   [fetch[c] EXCEPT
                      !.stale = IF @ = Nothing THEN @ ELSE Older(@, HardTTL),
                      !.left  = IF @ = 0 THEN @ ELSE @ - 1]]
    /\ Remember
    /\ UNCHANGED queue

Advance(c) ==
    \/ Lookup(c) \/ Status(c) \/ Delete(c) \/ Enter(c) \/ Recheck(c)
    \/ AcquireLock(c) \/ Poll(c) \/ GiveUp(c) \/ AnswerStale(c)
    \/ RefreshSucceeds(c) \/ RefreshFails(c) \/ RefreshAborts(c)
    \/ Write(c) \/ ReleaseLock(c) \/ Return(c) \/ Answer(c)

Next ==
    \/ Tick
    \/ Expire
    \/ \E c \in Callers : Begin(c) \/ Advance(c)

Spec == Init /\ [][Next]_vars

(* The clock runs and every command and refresh is answered or times out.    *)
FairSpec == Spec /\ WF_vars(Tick) /\ \A c \in Callers : WF_vars(Advance(c))

-----------------------------------------------------------------------------
(* Safety.                                                                   *)

InRefresh == {c \in Callers : fetch[c].pc = "refreshing"}

(* Single flight (local lock and acquire_lock/release_lock): one refresh per *)
(* process at a time, Redis or no Redis, and at most one among the callers   *)
(* that hold the Redis lock, however late any of them releases it.           *)
SingleFlight ==
    \A c, d \in InRefresh :
        Process[c] = Process[d] \/ (fetch[c].owner /\ fetch[d].owner) => c = d

(* Why it holds: who is under a local lock is the head of its queue          *)
(* (LocalLock), and, while a lock outlives the slowest refresh, who          *)
(* refreshes under the Redis lock still has it.                              *)
RedisLock ==
    \A c \in InRefresh : fetch[c].owner => /\ lock.token = c
                                          /\ lock.age + fetch[c].left <= Deadline + ReplyMax

(* A caller that holds a stale value which has not reached its hard expiry   *)
(* does not end in an error because the refresh failed or another process    *)
(* kept the lock; only an exception nobody handles takes the value from it.  *)
StaleRatherThanError ==
    \A c \in Callers \ Unhandled : fetch[c].result = "error" => fetch[c].stale >= HardTTL

(* "At or after hard expiry: miss; the value is not returned"                *)
(* (docs/phase_2_infrastructure.md:72).  fetch looks at the expiry when it   *)
(* reads a value and not when it falls back on it.                           *)
NeverPastExpiry ==
    [][\A c \in Callers : fetch[c].result = "none" /\ fetch'[c].result = "stale"
                             => fetch[c].stale < HardTTL]_vars

(* Why it holds: a caller has a result only on its way out, where it reads   *)
(* no more.                                                                  *)
Candid(f) ==
    /\ f.result # "none" => f.pc \in {"answering", "releasing", "returning"}
    /\ f.result = "error" => f.stale = Nothing
AllCandid == \A c \in Callers \ Unhandled : Candid(fetch[c])

(* No stampede ("a distributed lock prevents cache stampedes",               *)
(* docs/architecture.md:137): a caller may take the lock just after another  *)
(* process has written and released, and nothing makes it read again; but    *)
(* its process, as long as Redis answers it, does that once while the value  *)
(* is fresh, however many callers queue for it.                              *)
StampedeBounded ==
    [][\A c \in Callers : c \notin InRefresh /\ (c \in InRefresh)' /\ Fresh
                             => Process[c] \notin needless \ Flaky]_vars

(* Why it holds: nobody of such a process is on the way to the lock.         *)
Bound(c) == \/ fetch[c].pc = "locking"
            \/ fetch[c].pc = "purging" /\ fetch[c].resume = "locking"

OnceInv ==
    /\ needless # {} => Fresh
    /\ \A c \in Callers : Bound(c) => Process[c] \notin needless \ Flaky

-----------------------------------------------------------------------------
(* Liveness.                                                                 *)

(* Every fetch is answered, whoever else waits for the key or has left its   *)
(* Redis lock behind.                                                        *)
FetchEnds == \A c \in Callers : fetch[c].pc = "lookup" ~> fetch[c].pc = "idle"
=============================================================================
