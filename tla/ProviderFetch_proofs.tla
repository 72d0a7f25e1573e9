------------------------ MODULE ProviderFetch_proofs ------------------------
(***************************************************************************)
(* Proofs about ProviderFetch, for any number of callers and processes and *)
(* any values of the timers.                                               *)
(***************************************************************************)
EXTENDS ProviderFetch, TLAPS

-----------------------------------------------------------------------------
(* An age that gets older stays below its limit.                             *)
LEMMA OlderType ==
    ASSUME NEW limit \in Nat, NEW age \in 0..limit
    PROVE  Older(age, limit) \in 0..limit
BY DEF Older

(* Setting one caller keeps the type of all.                                 *)
LEMMA SetType ==
    ASSUME fetch \in [Callers -> Caller], NEW c \in Callers, NEW f \in Caller, Set(c, f)
    PROVE  /\ fetch' \in [Callers -> Caller]
           /\ fetch'[c] = f
           /\ \A d \in Callers \ {c} : fetch'[d] = fetch[d]
BY DEF Set

(* What the helpers make of a caller is well typed.                          *)
LEMMA PlaceType ==
    ASSUME NEW f \in Caller, NEW place \in Places
    PROVE  /\ [f EXCEPT !.pc = place] \in Caller
           /\ [f EXCEPT !.pc = "purging", !.resume = place] \in Caller
           /\ \A age \in 0..HardTTL : [f EXCEPT !.pc = place, !.stale = age] \in Caller
<1>1. \A age \in 0..HardTTL : age \in 0..Nothing
  BY FetchAssumption DEF FetchAssumption, Nothing
<1>2. "purging" \in Places
  BY DEF Places
<1> QED
  BY <1>1, <1>2 DEF Caller

(* The same for a place with a timer, and for a place alone.                 *)
LEMMA TimerType ==
    ASSUME NEW f \in Caller, NEW place \in Places, NEW n \in Nat
    PROVE  [f EXCEPT !.pc = place, !.left = n] \in Caller
BY DEF Caller

LEMMA MoveType ==
    ASSUME NEW f \in Caller, NEW place \in Places
    PROVE  [f EXCEPT !.pc = place] \in Caller
BY DEF Caller

(* A caller keeps its type when it notes a stale age or forgets its purge.   *)
LEMMA NoteType ==
    ASSUME NEW f \in Caller
    PROVE  /\ \A age \in 0..HardTTL : [f EXCEPT !.stale = age] \in Caller
           /\ [f EXCEPT !.resume = "idle"] \in Caller
<1>1. \A age \in 0..HardTTL : age \in 0..Nothing
  BY FetchAssumption DEF FetchAssumption, Nothing
<1>2. "idle" \in Places
  BY DEF Places
<1> QED
  BY <1>1, <1>2 DEF Caller

(* A caller that settles or falls back stays well typed.                     *)
LEMMA SettleType ==
    ASSUME Typed, NEW c \in Callers,
           NEW result \in {"none", "hit", "fresh", "stale", "error"}, Settle(c, result)
    PROVE  fetch' \in [Callers -> Caller]
<1>1. fetch[c] \in Caller
  BY DEF Typed
<1>2. "releasing" \in Places /\ "returning" \in Places
  BY DEF Places, Guarded
<1>3. [fetch[c] EXCEPT !.pc = IF fetch[c].owner THEN "releasing" ELSE "returning",
                       !.result = result, !.left = 0] \in Caller
  BY <1>1, <1>2 DEF Caller
<1> QED
  BY <1>3, SetType DEF Settle, Typed

(* A caller that falls back on its stale value stays well typed.             *)
LEMMA FallBackType ==
    ASSUME Typed, NEW c \in Callers, FallBack(c)
    PROVE  fetch' \in [Callers -> Caller]
BY SettleType DEF FallBack

(* A caller that moves or purges stays well typed.                           *)
LEMMA GotoType ==
    ASSUME Typed, NEW c \in Callers, NEW place \in Places,
           Goto(c, place) \/ Purge(c, place)
    PROVE  fetch' \in [Callers -> Caller]
BY SetType, PlaceType DEF Goto, Purge, Typed

(* A caller that joins the queue of its process leaves it a sequence.        *)
LEMMA JoinType ==
    ASSUME Typed, NEW c \in Callers, NEW f \in Caller, Join(c, f)
    PROVE  /\ fetch' \in [Callers -> Caller]
           /\ queue' \in [Processes -> Seq(Callers)]
<1>0. "queued" \in Places
  BY DEF Places
<1>1. [f EXCEPT !.pc = "queued"] \in Caller
  BY <1>0, MoveType
<1>2. Append(queue[Process[c]], c) \in Seq(Callers)
  BY FetchAssumption DEF Typed, FetchAssumption
<1> QED
  BY <1>1, <1>2, SetType DEF Join, Typed

(* A stale entry is younger than its hard expiry, and an age of an entry.    *)
LEMMA EntryAge ==
    ASSUME Typed
    PROVE  entry.age \in 0..HardTTL
BY DEF Typed, Entry

(* The history stays a set of processes.                                     *)
LEMMA NeedlessType == Typed /\ [Next]_vars => needless' \subseteq Processes
<1> SUFFICES ASSUME Typed, [Next]_vars PROVE needless' \subseteq Processes
  OBVIOUS
<1> USE FetchAssumption DEF FetchAssumption, Typed
<1>1. ASSUME Remember PROVE needless' \subseteq Processes
  BY <1>1 DEF Remember
<1>2. ASSUME NEW c \in Callers, Begin(c) \/ Advance(c) PROVE needless' \subseteq Processes
  BY <1>1, <1>2 DEF Begin, Advance, Lookup, Status, Delete, Enter, Recheck, AcquireLock,
     Poll, GiveUp, AnswerStale, RefreshSucceeds, RefreshFails, RefreshAborts, Write,
     ReleaseLock, Return, Answer
<1>3. CASE Tick \/ Expire \/ UNCHANGED vars
  BY <1>1, <1>3 DEF Tick, Expire, vars
<1> QED
  BY <1>2, <1>3 DEF Next

(* A step keeps the types: a queue is popped only by a caller that heads it. *)
LEMMA TypeStep == Typed /\ LocalLock /\ [Next]_vars => Typed'
<1> SUFFICES ASSUME Typed, LocalLock, [Next]_vars PROVE Typed'
  OBVIOUS
<1> USE FetchAssumption DEF FetchAssumption
<1>0. NoEntry \in Entry /\ NoLock \in Lock /\ Idle \in Caller
  BY DEF NoEntry, Entry, NoLock, Lock, Idle, Caller, Places, Nothing
<1>a. needless' \subseteq Processes
  BY NeedlessType
<1>1. ASSUME NEW c \in Callers, Begin(c) PROVE Typed'
  BY <1>1, GotoType DEF Begin, Typed, Places
<1>2. ASSUME NEW c \in Callers, Lookup(c) PROVE Typed'
  <2>1. CASE Set(c, [fetch[c] EXCEPT !.pc = "answering", !.result = "hit"]) /\ UNCHANGED queue
    <3>0. fetch[c] \in Caller /\ "answering" \in Places
      BY DEF Typed, Places
    <3>1. [fetch[c] EXCEPT !.pc = "answering", !.result = "hit"] \in Caller
      BY <3>0 DEF Caller
    <3> QED
      BY <1>2, <2>1, <3>1, SetType DEF Lookup, Typed
  <2>2. CASE Join(c, [fetch[c] EXCEPT !.stale = entry.age])
    <3>1. [fetch[c] EXCEPT !.stale = entry.age] \in Caller
      BY EntryAge, NoteType DEF Typed
    <3> QED
      BY <1>2, <2>2, <3>1, JoinType DEF Lookup, Typed
  <2>3. CASE (Purge(c, "status") \/ Goto(c, "status")) /\ UNCHANGED queue
    BY <1>2, <2>3, GotoType DEF Lookup, Typed, Places
  <2> QED
    BY <1>2, <2>1, <2>2, <2>3 DEF Lookup
<1>3. ASSUME NEW c \in Callers, Status(c) PROVE Typed'
  <2>1. CASE Purge(c, "queued") /\ UNCHANGED queue
    BY <1>3, <2>1, GotoType DEF Status, Typed, Places
  <2>2. CASE Join(c, fetch[c])
    BY <1>3, <2>2, JoinType DEF Status, Typed
  <2> QED
    BY <1>3, <2>1, <2>2 DEF Status
<1>4. ASSUME NEW c \in Callers, Delete(c) PROVE Typed'
  <2> DEFINE f == [fetch[c] EXCEPT !.resume = "idle"]
  <2>0. fetch[c] \in Caller
    BY DEF Typed
  <2>1. f \in Caller /\ fetch[c].resume \in Places
    BY <2>0, NoteType DEF Caller
  <2>2. entry' \in Entry
    BY <1>0, <1>4 DEF Delete, Typed
  <2>3. CASE Join(c, f)
    BY <1>4, <1>a, <2>1, <2>2, <2>3, JoinType DEF Delete, Typed
  <2>4. CASE Set(c, [f EXCEPT !.pc = fetch[c].resume]) /\ UNCHANGED queue
    <3>1. [f EXCEPT !.pc = fetch[c].resume] \in Caller
      BY <2>1, MoveType
    <3> QED
      BY <1>4, <1>a, <2>2, <2>4, <3>1, SetType DEF Delete, Typed
  <2> QED
    BY <1>4, <2>3, <2>4 DEF Delete
<1>5. ASSUME NEW c \in Callers, Enter(c) PROVE Typed'
  BY <1>5, GotoType DEF Enter, Typed, Places, Guarded
<1>6. ASSUME NEW c \in Callers, Recheck(c) \/ GiveUp(c) PROVE Typed'
  <2>1. CASE Settle(c, "hit")
    BY <1>6, <2>1, SettleType DEF Recheck, GiveUp, Typed
  <2>2. ASSUME NEW place \in {"locking", "fallback"},
               \/ Set(c, [fetch[c] EXCEPT !.pc = place, !.stale = entry.age])
               \/ Purge(c, place)
               \/ Goto(c, place)
        PROVE  Typed'
    <3>1. place \in Places
      BY DEF Places, Guarded
    <3>2. [fetch[c] EXCEPT !.pc = place, !.stale = entry.age] \in Caller
      BY <3>1, EntryAge, PlaceType DEF Typed
    <3>3. fetch' \in [Callers -> Caller]
      BY <2>2, <3>1, <3>2, SetType, GotoType DEF Typed
    <3> QED
      BY <1>6, <3>3 DEF Recheck, GiveUp, Typed
  <2> QED
    BY <1>6, <2>1, <2>2 DEF Recheck, GiveUp
<1>7. ASSUME NEW c \in Callers, AcquireLock(c) PROVE Typed'
  <2>1. lock' \in Lock
    BY <1>7 DEF AcquireLock, Typed, Lock
  <2>2. CASE Set(c, [fetch[c] EXCEPT !.pc = "waiting", !.left = LockWait])
    <3>0. fetch[c] \in Caller /\ "waiting" \in Places /\ LockWait \in Nat
      BY DEF Typed, Places, Guarded
    <3>1. [fetch[c] EXCEPT !.pc = "waiting", !.left = LockWait] \in Caller
      BY <3>0, TimerType
    <3> QED
      BY <1>7, <1>a, <2>1, <2>2, <3>1, SetType DEF AcquireLock, Typed
  <2>3. ASSUME NEW owner \in BOOLEAN, Refreshing(c, owner) PROVE Typed'
    <3>0. fetch[c] \in Caller /\ "refreshing" \in Places /\ Deadline + ReplyMax \in Nat
      BY DEF Typed, Places, Guarded
    <3>1. \A n \in Nat, b \in BOOLEAN :
            [fetch[c] EXCEPT !.pc = "refreshing", !.owner = b, !.left = n] \in Caller
      BY <3>0, Zenon DEF Caller
    <3> QED
      BY <1>7, <1>a, <2>1, <2>3, <3>0, <3>1, SetType DEF AcquireLock, Refreshing, Typed
  <2>4. \A carried \in Carried(c) : carried.ok \in BOOLEAN
    <3>1. [done |-> TRUE, ok |-> TRUE].ok \in BOOLEAN
      BY Zenon
    <3>2. \A carried \in [done : BOOLEAN, ok : {FALSE}] : carried.ok \in BOOLEAN
      BY Zenon
    <3> QED
      BY <3>1, <3>2, Zenon DEF Carried
  <2> QED
    BY <1>7, <2>2, <2>3, <2>4 DEF AcquireLock
<1>8. ASSUME NEW c \in Callers, Poll(c) PROVE Typed'
  BY <1>8, SettleType, GotoType DEF Poll, Typed, Places, Guarded
<1>9. ASSUME NEW c \in Callers, AnswerStale(c) \/ RefreshFails(c) PROVE Typed'
  BY <1>9, FallBackType DEF AnswerStale, RefreshFails, Typed
<1>10. ASSUME NEW c \in Callers, RefreshSucceeds(c) PROVE Typed'
  <2>0. fetch[c] \in Caller /\ "writing" \in Places
    BY DEF Typed, Places, Guarded
  <2>1. [fetch[c] EXCEPT !.pc = "writing", !.left = 0] \in Caller
    BY <2>0, TimerType
  <2> QED
    BY <1>10, <2>1, SetType DEF RefreshSucceeds, Typed
<1>11. ASSUME NEW c \in Callers, RefreshAborts(c) PROVE Typed'
  BY <1>11, SettleType DEF RefreshAborts, Typed
<1>12. ASSUME NEW c \in Callers, Write(c) PROVE Typed'
  <2>1. entry' \in Entry
    BY <1>12 DEF Write, Typed, Entry
  <2> QED
    BY <1>12, <1>a, <2>1, SettleType DEF Write, Typed
<1>13. ASSUME NEW c \in Callers, ReleaseLock(c) PROVE Typed'
  <2>1. lock' \in Lock
    BY <1>0, <1>13 DEF ReleaseLock, Typed
  <2> QED
    BY <1>13, <2>1, GotoType DEF ReleaseLock, Typed, Places, Guarded
<1>14. ASSUME NEW c \in Callers, Return(c) PROVE Typed'
  <2>1. queue[Process[c]] \in Seq(Callers) /\ queue[Process[c]] # <<>>
    BY <1>14 DEF Return, LocalLock, Inside, Guarded, Typed
  <2>2. Tail(queue[Process[c]]) \in Seq(Callers)
    BY <2>1
  <2> QED
    BY <1>0, <1>14, <2>2, SetType DEF Return, Typed
<1>15. ASSUME NEW c \in Callers, Answer(c) PROVE Typed'
  BY <1>0, <1>15, SetType DEF Answer, Typed
<1>16. CASE Expire
  BY <1>0, <1>16, <1>a DEF Expire, Typed
<1>17. CASE Tick
  <2>1. entry' \in Entry
    BY <1>17, OlderType DEF Tick, Typed, Entry
  <2>2. lock' \in Lock
    <3>1. lock.token \in Callers \cup {NoCaller} /\ lock.age \in 0..LockTTL
      BY DEF Typed, Lock
    <3>2. CASE lock = NoLock \/ lock.age + 1 >= LockTTL
      BY <1>0, <1>17, <3>2 DEF Tick
    <3>3. CASE lock # NoLock /\ lock.age + 1 < LockTTL
      <4>1. ~(lock.age + 1 >= LockTTL) /\ lock.age + 1 \in 0..LockTTL
        BY <3>1, <3>3
      <4>2. lock' = [lock EXCEPT !.age = @ + 1]
        BY <1>17, <3>3, <4>1, Zenon DEF Tick
      <4> QED
        BY <4>1, <4>2 DEF Typed, Lock
    <3> QED
      BY <3>1, <3>2, <3>3
  <2>3. ASSUME NEW c \in Callers PROVE fetch'[c] \in Caller
    <3> DEFINE stale == IF fetch[c].stale = Nothing THEN fetch[c].stale
                        ELSE Older(fetch[c].stale, HardTTL)
               left  == IF fetch[c].left = 0 THEN fetch[c].left ELSE fetch[c].left - 1
    <3>1. fetch[c] \in Caller
      BY DEF Typed
    <3>2. stale \in 0..Nothing
      BY <3>1 DEF Caller, Nothing, Older
    <3>3. left \in Nat
      BY <3>1 DEF Caller
    <3>4. fetch'[c] = [fetch[c] EXCEPT !.stale = stale, !.left = left]
      BY <1>17 DEF Tick
    <3> HIDE DEF stale, left
    <3> QED
      BY <3>1, <3>2, <3>3, <3>4 DEF Caller
  <2>4. fetch' \in [Callers -> Caller]
    BY <1>17, <2>3 DEF Tick
  <2> QED
    BY <1>17, <1>a, <2>1, <2>2, <2>4 DEF Tick, Typed
<1>18. CASE UNCHANGED vars
  BY <1>18 DEF vars, Typed
<1> QED
  BY <1>1, <1>2, <1>3, <1>4, <1>5, <1>6, <1>7, <1>8, <1>9, <1>10, <1>11, <1>12,
     <1>13, <1>14, <1>15, <1>16, <1>17, <1>18 DEF Next, Advance

-----------------------------------------------------------------------------
(* The local lock.                                                           *)

(* A step after which nobody new is under a local lock, the queues being the *)
(* same.                                                                     *)
LEMMA LocalFewer ==
    ASSUME LocalLock, UNCHANGED queue, \A d \in Callers : Inside(d)' => Inside(d)
    PROVE  LocalLock'
BY DEF LocalLock

(* A caller that joins a queue does not displace its head.                   *)
LEMMA LocalJoin ==
    ASSUME Typed, LocalLock, NEW c \in Callers, NEW f \in Caller, Join(c, f)
    PROVE  LocalLock'
<1>1. \A d \in Callers : Inside(d)' => Inside(d)
  <2>1. fetch'[c].pc = "queued" /\ \A d \in Callers \ {c} : fetch'[d] = fetch[d]
    BY DEF Join, Set, Typed, Caller
  <2> QED
    BY <2>1 DEF Inside, Guarded
<1>2. ASSUME NEW d \in Callers, Inside(d)
      PROVE  queue'[Process[d]] # <<>> /\ Head(queue'[Process[d]]) = d
  <2>1. /\ queue[Process[d]] \in Seq(Callers) /\ queue[Process[d]] # <<>>
        /\ Head(queue[Process[d]]) = d
    BY <1>2, FetchAssumption DEF LocalLock, Typed, FetchAssumption
  <2>2. queue'[Process[d]] \in {queue[Process[d]], Append(queue[Process[d]], c)}
    BY <2>1, FetchAssumption DEF Join, Typed, FetchAssumption
  <2> QED
    BY <2>1, <2>2
<1> QED
  BY <1>1, <1>2 DEF LocalLock

(* What a caller that settles becomes.                                       *)
LEMMA Settled ==
    ASSUME Typed, NEW c \in Callers, NEW result, Settle(c, result) \/ FallBack(c)
    PROVE  /\ fetch'[c].pc \in {"releasing", "returning"}
           /\ \A d \in Callers \ {c} : fetch'[d] = fetch[d]
<1>1. ASSUME NEW r, Settle(c, r)
      PROVE  /\ fetch'[c].pc \in {"releasing", "returning"}
             /\ \A d \in Callers \ {c} : fetch'[d] = fetch[d]
  <2>1. fetch[c] \in Caller /\ fetch \in [Callers -> Caller]
    BY DEF Typed
  <2>2. CASE fetch[c].owner
    BY <1>1, <2>1, <2>2 DEF Settle, Set, Caller
  <2>3. CASE ~fetch[c].owner
    BY <1>1, <2>1, <2>3 DEF Settle, Set, Caller
  <2> QED
    BY <2>2, <2>3
<1> QED
  BY <1>1 DEF FallBack

(* Steps under the local lock, but the last one: the same callers are under  *)
(* it.                                                                       *)
Within(c) ==
    \/ Recheck(c) \/ AcquireLock(c) \/ Poll(c) \/ GiveUp(c) \/ AnswerStale(c)
    \/ RefreshSucceeds(c) \/ RefreshFails(c) \/ RefreshAborts(c)
    \/ Write(c) \/ ReleaseLock(c)

(* Such a step brings nobody new under the lock.                             *)
LEMMA WithinStays ==
    ASSUME Typed, NEW c \in Callers, Within(c)
    PROVE  /\ Inside(c)
           /\ UNCHANGED queue
           /\ \A d \in Callers \ {c} : fetch'[d] = fetch[d]
<1>1. Inside(c) /\ UNCHANGED queue
  BY DEF Within, Recheck, AcquireLock, Poll, GiveUp, AnswerStale, RefreshSucceeds,
         RefreshFails, RefreshAborts, Write, ReleaseLock, Inside, Guarded
<1>2. ASSUME NEW f, Set(c, f) PROVE \A d \in Callers \ {c} : fetch'[d] = fetch[d]
  BY <1>2 DEF Set, Typed
<1>3. \A d \in Callers \ {c} : fetch'[d] = fetch[d]
  BY <1>2 DEF Within, Recheck, AcquireLock, Poll, GiveUp, AnswerStale, RefreshSucceeds,
         RefreshFails, RefreshAborts, Write, ReleaseLock, Settle, FallBack, Purge,
         Goto, Refreshing
<1> QED
  BY <1>1, <1>3

(* The local lock of a process is held by the head of its queue.             *)
LEMMA LocalStep == Typed /\ LocalLock /\ [Next]_vars => LocalLock'
<1> SUFFICES ASSUME Typed, LocalLock, [Next]_vars PROVE LocalLock'
  OBVIOUS
<1> USE DEF Inside, Guarded
<1>1. ASSUME NEW c \in Callers, UNCHANGED queue, ~Inside(c)',
             \A d \in Callers \ {c} : fetch'[d] = fetch[d]
      PROVE  LocalLock'
  BY <1>1, LocalFewer
<1>2. ASSUME NEW c \in Callers, NEW place \in {"lookup", "status", "queued"},
             UNCHANGED queue, Goto(c, place) \/ Purge(c, place)
      PROVE  LocalLock'
  <2>1. ~Inside(c)' /\ \A d \in Callers \ {c} : fetch'[d] = fetch[d]
    <3>1. fetch \in [Callers -> Caller] /\ place \notin Guarded
      BY DEF Typed
    <3>2. CASE Goto(c, place)
      BY <3>1, <3>2 DEF Goto, Set, Caller
    <3>3. CASE Purge(c, place)
      BY <3>1, <3>3 DEF Purge, Set, Caller
    <3> QED
      BY <1>2, <3>2, <3>3
  <2> QED
    BY <1>1, <1>2, <2>1
<1>3. ASSUME NEW c \in Callers, Within(c) PROVE LocalLock'
  BY <1>3, WithinStays, LocalFewer
<1>4. ASSUME NEW c \in Callers, Begin(c) \/ Lookup(c) \/ Status(c) PROVE LocalLock'
  <2>1. CASE \E f \in Caller : Join(c, f)
    BY <2>1, LocalJoin
  <2>2. CASE Set(c, [fetch[c] EXCEPT !.pc = "answering", !.result = "hit"]) /\ UNCHANGED queue
    <3>1. ~Inside(c)' /\ \A d \in Callers \ {c} : fetch'[d] = fetch[d]
      BY <2>2 DEF Set, Typed, Caller
    <3> QED
      BY <1>1, <2>2, <3>1
  <2>3. fetch[c] \in Caller /\ [fetch[c] EXCEPT !.stale = entry.age] \in Caller
    BY EntryAge, NoteType DEF Typed
  <2> QED
    BY <1>2, <1>4, <2>1, <2>2, <2>3 DEF Begin, Lookup, Status
<1>5. ASSUME NEW c \in Callers, Delete(c) PROVE LocalLock'
  <2> DEFINE f == [fetch[c] EXCEPT !.resume = "idle"]
  <2>0. f \in Caller
    BY NoteType DEF Typed
  <2>1. CASE Join(c, f)
    BY <2>0, <2>1, LocalJoin
  <2>2. CASE Set(c, [f EXCEPT !.pc = fetch[c].resume]) /\ UNCHANGED queue
    <3>1. /\ fetch'[c].pc = fetch[c].resume /\ fetch'[c].resume = "idle"
          /\ \A d \in Callers \ {c} : fetch'[d] = fetch[d]
      BY <2>2 DEF Set, Typed, Caller
    <3>2. fetch[c].pc = "purging"
      BY <1>5 DEF Delete
    <3> QED
      BY <2>2, <3>1, <3>2, LocalFewer
  <2> QED
    BY <1>5, <2>1, <2>2 DEF Delete
<1>6. ASSUME NEW c \in Callers, Enter(c) PROVE LocalLock'
  <2>1. \A d \in Callers \ {c} : fetch'[d] = fetch[d]
    BY <1>6 DEF Enter, Goto, Set, Typed
  <2> QED
    BY <1>6, <2>1 DEF Enter, LocalLock
<1>7. ASSUME NEW c \in Callers, Return(c) PROVE LocalLock'
  <2>1. fetch'[c].pc = "idle" /\ \A d \in Callers \ {c} : fetch'[d] = fetch[d]
    BY <1>7 DEF Return, Set, Idle, Typed
  <2>2. ASSUME NEW d \in Callers \ {c}, Inside(d) PROVE Process[d] # Process[c]
    <3>1. Head(queue[Process[d]]) = d /\ Head(queue[Process[c]]) = c
      BY <1>7, <2>2 DEF Return, LocalLock
    <3> QED
      BY <3>1
  <2>3. \A p \in Processes \ {Process[c]} : queue'[p] = queue[p]
    BY <1>7 DEF Return, Typed
  <2>4. \A d \in Callers : Process[d] \in Processes
    BY FetchAssumption DEF FetchAssumption
  <2> QED
    BY <2>1, <2>2, <2>3, <2>4 DEF LocalLock
<1>8. ASSUME NEW c \in Callers, Answer(c) PROVE LocalLock'
  <2>1. ~Inside(c)' /\ \A d \in Callers \ {c} : fetch'[d] = fetch[d]
    BY <1>8 DEF Answer, Set, Idle, Typed
  <2> QED
    BY <1>1, <1>8, <2>1 DEF Answer
<1>9. CASE Expire \/ UNCHANGED vars
  BY <1>9, LocalFewer DEF Expire, vars
<1>10. CASE Tick
  <2>0. UNCHANGED queue
    BY <1>10 DEF Tick
  <2>1. \A d \in Callers : fetch'[d].pc = fetch[d].pc /\ fetch'[d].resume = fetch[d].resume
    BY <1>10 DEF Tick, Typed, Caller
  <2> QED
    BY <2>0, <2>1, LocalFewer
<1> QED
  BY <1>3, <1>4, <1>5, <1>6, <1>7, <1>8, <1>9, <1>10 DEF Next, Advance, Within

(* Every state is well typed, and who is under a local lock heads its queue. *)
LEMMA TypedHolds == Spec => [](Typed /\ LocalLock)
<1>1. Init => Typed /\ LocalLock
  <2> SUFFICES ASSUME Init PROVE Typed /\ LocalLock
    OBVIOUS
  <2> USE FetchAssumption DEF FetchAssumption
  <2>1. entry \in Entry /\ lock \in Lock
    BY DEF Init, NoEntry, Entry, NoLock, Lock
  <2>2. queue \in [Processes -> Seq(Callers)]
    BY DEF Init
  <2>3. Idle \in Caller
    BY DEF Idle, Caller, Places, Nothing
  <2>4. \A c \in Callers : ~Inside(c)
    BY DEF Init, Idle, Inside, Guarded
  <2> QED
    BY <2>1, <2>2, <2>3, <2>4 DEF Init, Typed, LocalLock
<1> QED
  BY <1>1, TypeStep, LocalStep, PTL DEF Spec

(* The type invariant, of which both are the parts.                          *)
THEOREM TypeCorrect == Spec => []TypeOK
<1>1. Typed /\ LocalLock => TypeOK
  BY DEF TypeOK
<1> QED
  BY <1>1, TypedHolds, PTL

-----------------------------------------------------------------------------
(* The Redis lock.                                                           *)

(* A step that starts no refresh and leaves the lock to those that refresh.  *)
LEMMA RedisFewer ==
    ASSUME RedisLock,
           \A d \in InRefresh' : d \in InRefresh /\ fetch'[d] = fetch[d],
           \/ UNCHANGED lock
           \/ \A d \in InRefresh' : lock.token # d
    PROVE  RedisLock'
BY DEF RedisLock

(* What a caller does without the lock key.                                  *)
Elsewhere(c) ==
    \/ Begin(c) \/ Lookup(c) \/ Status(c) \/ Delete(c) \/ Enter(c) \/ Recheck(c)
    \/ Poll(c) \/ GiveUp(c) \/ AnswerStale(c)
    \/ RefreshSucceeds(c) \/ RefreshFails(c) \/ RefreshAborts(c)
    \/ Write(c) \/ Return(c) \/ Answer(c)

(* A caller goes on after a purge in one of four places.                     *)
Resumes == \A c \in Callers : fetch[c].resume # "refreshing"

(* So a step of a caller that is not about to refresh starts no refresh.     *)
LEMMA ElsewhereStays ==
    ASSUME Typed, Resumes, NEW c \in Callers, Elsewhere(c)
    PROVE  /\ UNCHANGED lock
           /\ fetch'[c].pc # "refreshing" /\ fetch'[c].resume # "refreshing"
           /\ \A d \in Callers \ {c} : fetch'[d] = fetch[d]
<1>0. fetch \in [Callers -> Caller] /\ fetch[c] \in Caller
      /\ fetch[c].resume # "refreshing"
  BY DEF Typed, Resumes
<1> DEFINE Done == /\ fetch'[c].pc # "refreshing" /\ fetch'[c].resume # "refreshing"
                   /\ \A d \in Callers \ {c} : fetch'[d] = fetch[d]
<1>1. UNCHANGED lock
  BY DEF Elsewhere, Begin, Lookup, Status, Delete, Enter, Recheck, Poll, GiveUp,
         AnswerStale, RefreshSucceeds, RefreshFails, RefreshAborts, Write, Return, Answer
<1>2. ASSUME NEW place \in {"lookup", "status", "queued", "recheck", "locking",
                            "waiting", "fallback"},
             Goto(c, place) \/ Purge(c, place)
      PROVE  Done
  <2>1. CASE Goto(c, place)
    BY <1>0, <2>1 DEF Goto, Set, Caller
  <2>2. CASE Purge(c, place)
    BY <1>0, <2>2 DEF Purge, Set, Caller
  <2> QED
    BY <1>2, <2>1, <2>2
<1>3. ASSUME NEW result, Settle(c, result) \/ FallBack(c) PROVE Done
  <2>1. ASSUME NEW r, Settle(c, r) PROVE fetch'[c].resume = fetch[c].resume
    BY <1>0, <2>1 DEF Settle, Set, Caller
  <2> QED
    BY <1>0, <1>3, <2>1, Settled DEF FallBack
<1>4. ASSUME NEW f \in Caller, f.resume # "refreshing", Join(c, f) PROVE Done
  BY <1>0, <1>4 DEF Join, Set, Caller
<1>5. ASSUME NEW place \in {"locking", "fallback"},
             Set(c, [fetch[c] EXCEPT !.pc = place, !.stale = entry.age])
      PROVE  Done
  BY <1>0, <1>5 DEF Set, Caller
<1>6. ASSUME Begin(c) \/ Lookup(c) \/ Status(c) PROVE Done
  <2>1. [fetch[c] EXCEPT !.stale = entry.age] \in Caller
        /\ [fetch[c] EXCEPT !.stale = entry.age].resume # "refreshing"
    BY <1>0, EntryAge, NoteType DEF Caller
  <2>2. ASSUME Set(c, [fetch[c] EXCEPT !.pc = "answering", !.result = "hit"])
        PROVE  Done
    BY <1>0, <2>2 DEF Set, Caller
  <2> HIDE DEF Done
  <2> QED
    BY <1>0, <1>2, <1>4, <1>6, <2>1, <2>2 DEF Begin, Lookup, Status
<1>7. ASSUME Delete(c) PROVE Done
  <2> DEFINE f == [fetch[c] EXCEPT !.resume = "idle"]
  <2>1. f \in Caller /\ f.resume # "refreshing"
    BY <1>0, NoteType DEF Caller
  <2>2. ASSUME Set(c, [f EXCEPT !.pc = fetch[c].resume]) PROVE Done
    BY <1>0, <2>1, <2>2 DEF Set, Caller
  <2> HIDE DEF Done, f
  <2> QED
    BY <1>4, <1>7, <2>1, <2>2 DEF Delete, f
<1>8. ASSUME \/ Enter(c) \/ Recheck(c) \/ Poll(c) \/ GiveUp(c) \/ AnswerStale(c)
             \/ RefreshFails(c) \/ RefreshAborts(c) \/ Write(c)
      PROVE  Done
  <2> HIDE DEF Done
  <2> QED
    BY <1>2, <1>3, <1>5, <1>8 DEF Enter, Recheck, Poll, GiveUp, AnswerStale,
       RefreshFails, RefreshAborts, Write
<1>9. ASSUME RefreshSucceeds(c) PROVE Done
  BY <1>0, <1>9 DEF RefreshSucceeds, Set, Caller
<1>10. ASSUME Return(c) \/ Answer(c) PROVE Done
  BY <1>0, <1>10 DEF Return, Answer, Set, Idle
<1> QED
  BY <1>1, <1>6, <1>7, <1>8, <1>9, <1>10 DEF Elsewhere

(* At most one refresh per process, and at most one under the Redis lock, if *)
(* a lock lives longer than the slowest refresh and reply: then nobody else  *)
(* can have taken the lock of a caller that still refreshes.                 *)
THEOREM SingleFlightHolds ==
    ASSUME LockTTL > Deadline + ReplyMax
    PROVE  Spec => []SingleFlight
<1> DEFINE Inv == Resumes /\ RedisLock
<1>1. Init => Inv
  BY DEF Init, Idle, Resumes, RedisLock, InRefresh
<1>2. Typed /\ Typed' /\ Inv /\ [Next]_vars => Inv'
  <2> SUFFICES ASSUME Typed, Typed', Resumes, RedisLock, [Next]_vars
               PROVE  Resumes' /\ RedisLock'
    OBVIOUS
  <2> USE FetchAssumption DEF FetchAssumption
  <2>0. fetch \in [Callers -> Caller] /\ lock \in Lock
    BY DEF Typed
  <2>1. ASSUME NEW c \in Callers, Elsewhere(c) PROVE Resumes' /\ RedisLock'
    BY <2>1, ElsewhereStays, RedisFewer DEF Resumes, InRefresh
  <2>2. ASSUME NEW c \in Callers, AcquireLock(c) PROVE Resumes' /\ RedisLock'
    <3>1. PICK carried \in Carried(c) :
            /\ lock' = IF carried.done /\ lock = NoLock
                       THEN [token |-> c, age |-> 0] ELSE lock
            /\ IF carried.ok /\ lock # NoLock
               THEN Set(c, [fetch[c] EXCEPT !.pc = "waiting", !.left = LockWait])
               ELSE Refreshing(c, carried.ok)
      BY <2>2 DEF AcquireLock
    <3>2. carried.ok => carried.done
      <4>1. \A r \in [done : BOOLEAN, ok : {FALSE}] : ~r.ok
        BY Zenon
      <4>2. [done |-> TRUE, ok |-> TRUE].done
        BY Zenon
      <4> QED
        BY <4>1, <4>2, Zenon DEF Carried
    <3>3. /\ \A d \in Callers \ {c} : fetch'[d] = fetch[d]
          /\ fetch'[c].resume = fetch[c].resume
          /\ c \in InRefresh' => /\ fetch'[c].left = Deadline + ReplyMax
                                 /\ fetch'[c].owner = carried.ok
                                 /\ ~(carried.ok /\ lock # NoLock)
      <4>1. CASE Set(c, [fetch[c] EXCEPT !.pc = "waiting", !.left = LockWait])
        BY <2>0, <4>1 DEF Set, Caller, InRefresh
      <4>2. CASE Refreshing(c, carried.ok) /\ ~(carried.ok /\ lock # NoLock)
        BY <2>0, <4>2 DEF Refreshing, Set, Caller, InRefresh
      <4> QED
        BY <3>1, <4>1, <4>2
    <3>4. lock = NoLock => \A d \in InRefresh : ~fetch[d].owner
      BY DEF RedisLock, NoLock, InRefresh
    <3>5. CASE lock = NoLock
      <4>1. ASSUME c \in InRefresh', fetch'[c].owner
            PROVE  lock'.token = c /\ lock'.age + fetch'[c].left <= Deadline + ReplyMax
        <5>1. lock' = [token |-> c, age |-> 0]
          BY <3>1, <3>2, <3>3, <3>5, <4>1
        <5> QED
          BY <3>3, <4>1, <5>1
      <4>2. \A d \in InRefresh' \ {c} : ~fetch'[d].owner
        BY <3>3, <3>4, <3>5 DEF InRefresh
      <4> QED
        BY <3>3, <4>1, <4>2 DEF RedisLock, Resumes
    <3>6. CASE lock # NoLock
      <4>1. UNCHANGED lock
        BY <3>1, <3>6
      <4>2. c \in InRefresh' => ~fetch'[c].owner
        BY <3>3, <3>6
      <4> QED
        BY <3>3, <4>1, <4>2 DEF RedisLock, Resumes, InRefresh
    <3> QED
      BY <3>5, <3>6
  <2>3. ASSUME NEW c \in Callers, ReleaseLock(c) PROVE Resumes' /\ RedisLock'
    <3>1. /\ fetch'[c].pc = "returning" /\ fetch'[c].resume = fetch[c].resume
          /\ \A d \in Callers \ {c} : fetch'[d] = fetch[d]
      BY <2>0, <2>3 DEF ReleaseLock, Goto, Set, Caller
    <3>2. UNCHANGED lock \/ lock.token = c
      BY <2>3 DEF ReleaseLock
    <3>3. c \notin InRefresh'
      BY <3>1 DEF InRefresh
    <3> QED
      BY <3>1, <3>2, <3>3, RedisFewer DEF Resumes, InRefresh
  <2>4. CASE Tick
    <3>1. ASSUME NEW d \in Callers
          PROVE  /\ fetch'[d].pc = fetch[d].pc /\ fetch'[d].resume = fetch[d].resume
                 /\ fetch'[d].owner = fetch[d].owner
                 /\ fetch[d].left \in Nat
                 /\ fetch[d].left > 0 => fetch'[d].left = fetch[d].left - 1
      <4> DEFINE stale == IF fetch[d].stale = Nothing THEN fetch[d].stale
                          ELSE Older(fetch[d].stale, HardTTL)
                 left  == IF fetch[d].left = 0 THEN fetch[d].left ELSE fetch[d].left - 1
      <4>1. fetch'[d] = [fetch[d] EXCEPT !.stale = stale, !.left = left]
        BY <2>4 DEF Tick
      <4>2. fetch[d] \in Caller /\ fetch[d].left \in Nat
        BY <2>0 DEF Caller
      <4>3. fetch[d].left > 0 => left = fetch[d].left - 1
        BY <4>2
      <4> HIDE DEF stale, left
      <4> QED
        BY <4>1, <4>2, <4>3 DEF Caller
    <3>2. ASSUME NEW d \in InRefresh, fetch[d].owner
          PROVE  /\ lock'.token = d
                 /\ lock'.age + fetch'[d].left <= Deadline + ReplyMax
      <4>1. d \in Callers /\ fetch[d].left > 0
        BY <2>4 DEF Tick, InRefresh
      <4>2. lock.token = d /\ lock.age + fetch[d].left <= Deadline + ReplyMax
        BY <3>2 DEF RedisLock
      <4>3. lock.age \in Nat /\ lock # NoLock
        BY <2>0, <4>1, <4>2 DEF Lock, NoLock
      <4>4. ~(lock.age + 1 >= LockTTL)
        BY <3>1, <4>1, <4>2, <4>3
      <4>5. lock' = [lock EXCEPT !.age = @ + 1]
        BY <2>4, <4>3, <4>4, Zenon DEF Tick
      <4>6. lock'.token = d /\ lock'.age = lock.age + 1
        BY <2>0, <4>2, <4>5 DEF Lock
      <4> QED
        BY <3>1, <4>1, <4>2, <4>3, <4>6
    <3>3. InRefresh' = InRefresh
      BY <3>1 DEF InRefresh
    <3> QED
      BY <3>1, <3>2, <3>3 DEF RedisLock, Resumes, InRefresh
  <2>5. CASE Expire \/ UNCHANGED vars
    BY <2>5, RedisFewer DEF Expire, vars, Resumes, InRefresh
  <2> QED
    BY <2>1, <2>2, <2>3, <2>4, <2>5 DEF Next, Advance, Elsewhere
<1>3. LocalLock /\ RedisLock => SingleFlight
  BY DEF LocalLock, RedisLock, SingleFlight, InRefresh, Inside, Guarded
<1> QED
  BY <1>1, <1>2, <1>3, TypedHolds, PTL DEF Spec

-----------------------------------------------------------------------------
(* The stale value.                                                          *)

(* One caller moves, and is candid or not spoken of.                         *)
LEMMA CandidSet ==
    ASSUME Typed, AllCandid, NEW c \in Callers, NEW f, Set(c, f),
           Candid(f) \/ c \in Unhandled
    PROVE  AllCandid'
<1>1. fetch' = [fetch EXCEPT ![c] = f] /\ fetch \in [Callers -> Caller]
  BY DEF Set, Typed
<1>2. fetch'[c] = f /\ \A d \in Callers \ {c} : fetch'[d] = fetch[d]
  BY <1>1
<1> QED
  BY <1>2 DEF AllCandid, Candid

(* A caller that settles is candid, unless it hides a stale value.           *)
LEMMA CandidSettle ==
    ASSUME Typed, AllCandid, NEW c \in Callers,
           NEW result \in {"hit", "fresh", "stale", "error"}, Settle(c, result),
           result = "error" => fetch[c].stale = Nothing \/ c \in Unhandled
    PROVE  AllCandid'
<1> DEFINE place == IF fetch[c].owner THEN "releasing" ELSE "returning"
           f     == [fetch[c] EXCEPT !.pc = place, !.result = result, !.left = 0]
<1>1. fetch[c] \in Caller /\ place \in {"releasing", "returning"}
  BY DEF Typed
<1>2. f.pc = place /\ f.result = result /\ f.stale = fetch[c].stale
  <2> HIDE DEF place
  <2> QED
    BY <1>1 DEF Caller
<1>3. Candid(f) \/ c \in Unhandled
  <2> HIDE DEF f, place
  <2> QED
    BY <1>1, <1>2 DEF Candid
<1>4. Set(c, f)
  BY DEF Settle
<1> HIDE DEF f
<1> QED
  BY <1>3, <1>4, CandidSet

(* A caller without a result stays without one as it moves on.               *)
LEMMA CandidOnward ==
    ASSUME Typed, AllCandid, NEW c \in Callers, NEW f, Set(c, f),
           f.result = fetch[c].result,
           fetch[c].pc \notin {"answering", "releasing", "returning"}
    PROVE  AllCandid'
<1>1. CASE c \in Unhandled
  BY <1>1, CandidSet
<1>2. CASE c \notin Unhandled
  <2>1. fetch[c].result = "none"
    BY <1>2 DEF AllCandid, Candid
  <2>2. Candid(f)
    BY <2>1 DEF Candid
  <2> QED
    BY <2>2, CandidSet
<1> QED
  BY <1>1, <1>2

(* Going on, purging and joining the queue leave the result alone.           *)
LEMMA CandidMoves ==
    ASSUME Typed, AllCandid, NEW c \in Callers, NEW place, NEW f \in Caller,
           f.result = fetch[c].result,
           fetch[c].pc \notin {"answering", "releasing", "returning"},
           Goto(c, place) \/ Purge(c, place) \/ Join(c, f)
    PROVE  AllCandid'
<1>1. fetch[c] \in Caller
  BY DEF Typed
<1>2. CASE Goto(c, place)
  <2>1. [fetch[c] EXCEPT !.pc = place].result = fetch[c].result
    BY <1>1 DEF Caller
  <2> QED
    BY <1>2, <2>1, CandidOnward DEF Goto
<1>3. CASE Purge(c, place)
  <2>1. [fetch[c] EXCEPT !.pc = "purging", !.resume = place].result = fetch[c].result
    BY <1>1 DEF Caller
  <2> QED
    BY <1>3, <2>1, CandidOnward DEF Purge
<1>4. CASE Join(c, f)
  <2>1. [f EXCEPT !.pc = "queued"].result = fetch[c].result
    BY <1>1 DEF Caller
  <2> QED
    BY <1>4, <2>1, CandidOnward DEF Join
<1> QED
  BY <1>2, <1>3, <1>4

(* A step leaves every caller candid whose refresh raises nothing unhandled. *)
LEMMA CandidStep == Typed /\ AllCandid /\ [Next]_vars => AllCandid'
<1> SUFFICES ASSUME Typed, AllCandid, [Next]_vars PROVE AllCandid'
  OBVIOUS
<1>0. \A c \in Callers : fetch[c] \in Caller
  BY DEF Typed
<1>1. ASSUME NEW c \in Callers, Begin(c) PROVE AllCandid'
  BY <1>0, <1>1, CandidMoves DEF Begin
<1>2. ASSUME NEW c \in Callers, Lookup(c) PROVE AllCandid'
  <2> DEFINE hit  == [fetch[c] EXCEPT !.pc = "answering", !.result = "hit"]
             kept == [fetch[c] EXCEPT !.stale = entry.age]
  <2>1. hit.pc = "answering" /\ hit.result = "hit"
    BY <1>0 DEF Caller
  <2>2. kept \in Caller /\ kept.result = fetch[c].result
    <3>1. kept \in Caller
      BY <1>0, EntryAge, NoteType
    <3>2. kept.result = fetch[c].result
      BY <1>0 DEF Caller
    <3> QED
      BY <3>1, <3>2
  <2>3. CASE Set(c, hit)
    <3>1. Candid(hit)
      BY <2>1 DEF Candid
    <3> HIDE DEF hit
    <3> QED
      BY <2>3, <3>1, CandidSet
  <2>4. CASE Join(c, kept)
    BY <1>2, <2>2, <2>4, CandidMoves DEF Lookup
  <2>5. CASE Purge(c, "status") \/ Goto(c, "status")
    BY <1>0, <1>2, <2>5, CandidMoves DEF Lookup
  <2> QED
    BY <1>2, <2>3, <2>4, <2>5 DEF Lookup
<1>3. ASSUME NEW c \in Callers, Status(c) \/ Enter(c) PROVE AllCandid'
  BY <1>0, <1>3, CandidMoves DEF Status, Enter
<1>4. ASSUME NEW c \in Callers, Delete(c) PROVE AllCandid'
  <2> DEFINE f == [fetch[c] EXCEPT !.resume = "idle"]
             g == [f EXCEPT !.pc = fetch[c].resume]
  <2>1. f \in Caller /\ f.result = fetch[c].result /\ g.result = fetch[c].result
    BY <1>0, NoteType DEF Caller
  <2>2. CASE Join(c, f)
    BY <1>4, <2>1, <2>2, CandidMoves DEF Delete
  <2>3. CASE Set(c, g)
    BY <1>4, <2>1, <2>3, CandidOnward DEF Delete
  <2> QED
    BY <1>4, <2>2, <2>3 DEF Delete
<1>5. ASSUME NEW c \in Callers, Recheck(c) \/ GiveUp(c) PROVE AllCandid'
  <2>1. CASE Settle(c, "hit")
    BY <2>1, CandidSettle
  <2>2. ASSUME NEW place \in {"locking", "fallback"},
               Set(c, [fetch[c] EXCEPT !.pc = place, !.stale = entry.age])
        PROVE  AllCandid'
    <3>1. [fetch[c] EXCEPT !.pc = place, !.stale = entry.age].result = fetch[c].result
      BY <1>0 DEF Caller
    <3> QED
      BY <1>5, <2>2, <3>1, CandidOnward DEF Recheck, GiveUp
  <2>3. ASSUME NEW place \in {"locking", "fallback"}, Purge(c, place) \/ Goto(c, place)
        PROVE  AllCandid'
    BY <1>0, <1>5, <2>3, CandidMoves DEF Recheck, GiveUp
  <2> QED
    BY <1>5, <2>1, <2>2, <2>3 DEF Recheck, GiveUp
<1>6. ASSUME NEW c \in Callers, AcquireLock(c) PROVE AllCandid'
  <2>1. [fetch[c] EXCEPT !.pc = "waiting", !.left = LockWait].result = fetch[c].result
    BY <1>0 DEF Caller
  <2>2. \A owner : [fetch[c] EXCEPT !.pc = "refreshing", !.owner = owner,
                                    !.left = Deadline + ReplyMax].result = fetch[c].result
    BY <1>0 DEF Caller
  <2>3. fetch[c].pc \notin {"answering", "releasing", "returning"}
    BY <1>6 DEF AcquireLock
  <2>4. CASE Set(c, [fetch[c] EXCEPT !.pc = "waiting", !.left = LockWait])
    BY <2>1, <2>3, <2>4, CandidOnward
  <2>5. ASSUME NEW owner, Refreshing(c, owner) PROVE AllCandid'
    BY <2>2, <2>3, <2>5, CandidOnward DEF Refreshing
  <2> QED
    BY <1>6, <2>4, <2>5 DEF AcquireLock
<1>7. ASSUME NEW c \in Callers, Poll(c) PROVE AllCandid'
  BY <1>0, <1>7, CandidSettle, CandidMoves DEF Poll
<1>8. ASSUME NEW c \in Callers, AnswerStale(c) \/ RefreshFails(c) PROVE AllCandid'
  <2>1. CASE fetch[c].stale = Nothing
    BY <1>8, <2>1, CandidSettle DEF AnswerStale, RefreshFails, FallBack
  <2>2. CASE fetch[c].stale # Nothing
    BY <1>8, <2>2, CandidSettle DEF AnswerStale, RefreshFails, FallBack
  <2> QED
    BY <2>1, <2>2
<1>9. ASSUME NEW c \in Callers, RefreshSucceeds(c) PROVE AllCandid'
  <2>1. [fetch[c] EXCEPT !.pc = "writing", !.left = 0].result = fetch[c].result
    BY <1>0 DEF Caller
  <2> QED
    BY <1>9, <2>1, CandidOnward DEF RefreshSucceeds
<1>10. ASSUME NEW c \in Callers, RefreshAborts(c) \/ Write(c) PROVE AllCandid'
  BY <1>10, CandidSettle DEF RefreshAborts, Write
<1>11. ASSUME NEW c \in Callers, ReleaseLock(c) PROVE AllCandid'
  <2> DEFINE f == [fetch[c] EXCEPT !.pc = "returning"]
  <2>1. f.pc = "returning" /\ f.result = fetch[c].result /\ f.stale = fetch[c].stale
    BY <1>0 DEF Caller
  <2>2. Set(c, f)
    BY <1>11 DEF ReleaseLock, Goto
  <2>3. Candid(f) \/ c \in Unhandled
    BY <2>1 DEF AllCandid, Candid
  <2> HIDE DEF f
  <2> QED
    BY <2>2, <2>3, CandidSet
<1>12. ASSUME NEW c \in Callers, Return(c) \/ Answer(c) PROVE AllCandid'
  <2>1. Candid(Idle)
    BY DEF Candid, Idle
  <2> QED
    BY <1>12, <2>1, CandidSet DEF Return, Answer
<1>13. CASE Expire \/ UNCHANGED vars
  BY <1>13 DEF Expire, vars, AllCandid, Candid
<1>14. CASE Tick
  <2>1. ASSUME NEW c \in Callers
        PROVE  /\ fetch'[c].pc = fetch[c].pc /\ fetch'[c].result = fetch[c].result
               /\ fetch[c].stale = Nothing => fetch'[c].stale = Nothing
    <3> DEFINE stale == IF fetch[c].stale = Nothing THEN fetch[c].stale
                        ELSE Older(fetch[c].stale, HardTTL)
               left  == IF fetch[c].left = 0 THEN fetch[c].left ELSE fetch[c].left - 1
    <3>1. fetch'[c] = [fetch[c] EXCEPT !.stale = stale, !.left = left]
      BY <1>14 DEF Tick
    <3>2. fetch[c].stale = Nothing => stale = Nothing
      OBVIOUS
    <3> HIDE DEF stale, left
    <3> QED
      BY <1>0, <3>1, <3>2 DEF Caller
  <2> QED
    BY <2>1 DEF AllCandid, Candid
<1> QED
  BY <1>1, <1>2, <1>3, <1>4, <1>5, <1>6, <1>7, <1>8, <1>9, <1>10, <1>11, <1>12, <1>13, <1>14
  DEF Next, Advance

(* Whoever holds a stale value gets it rather than an error, for every       *)
(* number of callers and processes and all lifetimes, unless the refresh     *)
(* ends in an exception fetch does not handle.                               *)
THEOREM StaleRatherThanErrorHolds == Spec => []StaleRatherThanError
<1>1. Init => AllCandid
  <2> SUFFICES ASSUME Init, NEW c \in Callers PROVE Candid(fetch[c])
    BY DEF AllCandid
  <2>1. fetch[c] = Idle
    BY DEF Init
  <2> QED
    BY <2>1 DEF Idle, Candid
<1>2. AllCandid => StaleRatherThanError
  BY FetchAssumption DEF FetchAssumption, Nothing, AllCandid, Candid, StaleRatherThanError
<1> QED
  BY <1>1, <1>2, CandidStep, TypedHolds, PTL DEF Spec

-----------------------------------------------------------------------------
(* The stampede.                                                             *)

(* A tick leaves every caller at its place.                                  *)
LEMMA TickMoves ==
    ASSUME Typed, Tick, NEW c \in Callers
    PROVE  fetch'[c].pc = fetch[c].pc /\ fetch'[c].resume = fetch[c].resume
<1> DEFINE stale == IF fetch[c].stale = Nothing THEN fetch[c].stale
                    ELSE Older(fetch[c].stale, HardTTL)
           left  == IF fetch[c].left = 0 THEN fetch[c].left ELSE fetch[c].left - 1
<1>1. fetch[c] \in Caller
  BY DEF Typed
<1>2. fetch'[c] = [fetch[c] EXCEPT !.stale = stale, !.left = left]
  BY DEF Tick
<1> HIDE DEF stale, left
<1> QED
  BY <1>1, <1>2 DEF Caller

(* After a purge nobody goes on to refresh.                                  *)
LEMMA ResumesHold == Spec => []Resumes
<1>1. Init => Resumes
  <2>1. Idle.resume # "refreshing"
    BY DEF Idle
  <2> QED
    BY <2>1 DEF Init, Resumes
<1>2. Typed /\ Resumes /\ [Next]_vars => Resumes'
  <2> SUFFICES ASSUME Typed, Resumes, [Next]_vars PROVE Resumes'
    OBVIOUS
  <2>0. fetch \in [Callers -> Caller]
    BY DEF Typed
  <2>1. ASSUME NEW c \in Callers, Elsewhere(c) PROVE Resumes'
    BY <2>1, ElsewhereStays DEF Resumes
  <2>2. ASSUME NEW c \in Callers, AcquireLock(c) PROVE Resumes'
    <3>1. ASSUME NEW place, NEW owner, NEW left,
                 \/ Set(c, [fetch[c] EXCEPT !.pc = place, !.left = left])
                 \/ Set(c, [fetch[c] EXCEPT !.pc = place, !.owner = owner, !.left = left])
          PROVE  Resumes'
      BY <2>0, <3>1 DEF Set, Caller, Resumes
    <3> QED
      BY <2>2, <3>1 DEF AcquireLock, Refreshing
  <2>3. ASSUME NEW c \in Callers, ReleaseLock(c) PROVE Resumes'
    BY <2>0, <2>3 DEF ReleaseLock, Goto, Set, Caller, Resumes
  <2>4. CASE Tick
    BY <2>0, <2>4, TickMoves DEF Resumes
  <2>5. CASE Expire \/ UNCHANGED vars
    BY <2>5 DEF Expire, vars, Resumes
  <2> QED
    BY <2>1, <2>2, <2>3, <2>4, <2>5 DEF Next, Advance, Elsewhere
<1> QED
  BY <1>1, <1>2, TypedHolds, PTL DEF Spec

(* A refresh is started by AcquireLock and by nothing else.                  *)
LEMMA OnlyAcquireStarts ==
    ASSUME Typed, Resumes, Next, NEW c \in Callers, c \notin InRefresh, (c \in InRefresh)'
    PROVE  AcquireLock(c)
<1>1. ASSUME NEW d \in Callers, Elsewhere(d) PROVE FALSE
  BY <1>1, ElsewhereStays DEF InRefresh
<1>2. ASSUME NEW d \in Callers, ReleaseLock(d) PROVE FALSE
  BY <1>2 DEF ReleaseLock, Goto, Set, Typed, Caller, InRefresh
<1>3. ASSUME NEW d \in Callers, AcquireLock(d) PROVE d = c
  BY <1>3 DEF AcquireLock, Refreshing, Set, Typed, InRefresh
<1>4. ~Tick
  BY TickMoves DEF InRefresh
<1>5. ~Expire
  BY DEF Expire, InRefresh
<1> QED
  BY <1>1, <1>2, <1>3, <1>4, <1>5 DEF Next, Advance, Elsewhere

(* The history is of a value that is fresh.                                  *)
LEMMA HistoryFresh ==
    ASSUME needless # {} => Fresh, [Next]_vars
    PROVE  needless' # {} => Fresh'
<1>1. ASSUME Remember PROVE needless' # {} => Fresh'
  BY <1>1 DEF Remember
<1>2. ASSUME UNCHANGED <<entry, needless>> PROVE needless' # {} => Fresh'
  BY <1>2 DEF Fresh
<1>3. ASSUME NEW c \in Callers, AcquireLock(c) PROVE needless' # {} => Fresh'
  <2>1. Fresh' <=> Fresh
    BY <1>3 DEF AcquireLock, Fresh
  <2> QED
    BY <1>3, <2>1 DEF AcquireLock
<1>4. ASSUME NEW c \in Callers, Begin(c) \/ Advance(c) PROVE needless' # {} => Fresh'
  BY <1>1, <1>2, <1>3, <1>4 DEF Begin, Advance, Lookup, Status, Delete, Enter, Recheck,
     Poll, GiveUp, AnswerStale, RefreshSucceeds, RefreshFails, RefreshAborts, Write,
     ReleaseLock, Return, Answer
<1>5. CASE Tick \/ Expire \/ UNCHANGED vars
  BY <1>1, <1>2, <1>5 DEF Tick, Expire, vars
<1> QED
  BY <1>4, <1>5 DEF Next

(* A process enters the history as one of its callers starts to refresh.     *)
LEMMA HistoryGrows ==
    ASSUME Typed, NEW c \in Callers, Begin(c) \/ Advance(c), NEW p \in needless', p \notin needless
    PROVE  AcquireLock(c) /\ p = Process[c]
BY DEF Remember, Begin, Advance, Lookup, Status, Delete, Enter, Recheck, AcquireLock,
   Poll, GiveUp, AnswerStale, RefreshSucceeds, RefreshFails, RefreshAborts, Write,
   ReleaseLock, Return, Answer

(* A caller that settles, moves elsewhere, purges for elsewhere or joins the *)
(* queue is not bound for the lock.                                          *)
LEMMA UnboundMoves ==
    ASSUME Typed, NEW c \in Callers, NEW result, NEW f \in Caller,
           NEW place \in Places \ {"locking", "purging"},
           \/ Goto(c, place) \/ Purge(c, place) \/ Join(c, f)
           \/ Settle(c, result) \/ FallBack(c)
    PROVE  ~Bound(c)'
<1>0. fetch[c] \in Caller /\ fetch \in [Callers -> Caller]
  BY DEF Typed
<1>1. CASE Goto(c, place)
  BY <1>0, <1>1 DEF Goto, Set, Caller, Bound
<1>2. CASE Purge(c, place)
  BY <1>0, <1>2 DEF Purge, Set, Caller, Bound
<1>3. CASE Join(c, f)
  BY <1>0, <1>3 DEF Join, Set, Caller, Bound
<1>4. CASE Settle(c, result) \/ FallBack(c)
  <2>1. fetch'[c].pc \in {"releasing", "returning"}
    BY <1>4, Settled
  <2> QED
    BY <2>1 DEF Bound
<1> QED
  BY <1>1, <1>2, <1>3, <1>4

(* Only the read under the local lock, and the purge after it, send a caller *)
(* to the Redis lock.                                                        *)
LEMMA BoundByRecheck ==
    ASSUME Typed, NEW c \in Callers, Begin(c) \/ Advance(c), Bound(c)'
    PROVE  \/ Recheck(c) /\ \E seen \in Seen(c) : seen # "hit"
           \/ Bound(c)
<1>0. fetch[c] \in Caller /\ fetch \in [Callers -> Caller]
  BY DEF Typed
<1>1. {"idle", "lookup", "status", "queued", "recheck", "waiting", "fallback",
       "refreshing", "writing", "returning"} \subseteq Places \ {"locking", "purging"}
  BY DEF Places, Guarded
<1>2. [fetch[c] EXCEPT !.stale = entry.age] \in Caller
  BY <1>0, EntryAge, NoteType
<1>3. ~Begin(c) /\ ~Status(c) /\ ~Enter(c) /\ ~Poll(c) /\ ~AnswerStale(c)
      /\ ~RefreshFails(c) /\ ~RefreshAborts(c) /\ ~Write(c) /\ ~ReleaseLock(c)
  BY <1>0, <1>1, UnboundMoves DEF Begin, Status, Enter, Poll, AnswerStale, RefreshFails,
     RefreshAborts, Write, ReleaseLock
<1>4. ~Return(c) /\ ~Answer(c)
  BY <1>0 DEF Return, Answer, Set, Idle, Bound
<1>5. ~RefreshSucceeds(c)
  BY <1>0 DEF RefreshSucceeds, Set, Caller, Bound
<1>6. ~Lookup(c)
  <2>1. ~Set(c, [fetch[c] EXCEPT !.pc = "answering", !.result = "hit"])
    BY <1>0 DEF Set, Caller, Bound
  <2> QED
    BY <1>0, <1>1, <1>2, <2>1, UnboundMoves DEF Lookup
<1>7. ~GiveUp(c)
  <2>1. ~Set(c, [fetch[c] EXCEPT !.pc = "fallback", !.stale = entry.age])
    BY <1>0 DEF Set, Caller, Bound
  <2> QED
    BY <1>0, <1>1, <2>1, UnboundMoves DEF GiveUp
<1>8. ~AcquireLock(c)
  <2>1. ~Set(c, [fetch[c] EXCEPT !.pc = "waiting", !.left = LockWait])
    BY <1>0 DEF Set, Caller, Bound
  <2>2. ASSUME NEW owner, Refreshing(c, owner) PROVE FALSE
    BY <1>0, <2>2 DEF Refreshing, Set, Caller, Bound
  <2> QED
    BY <2>1, <2>2 DEF AcquireLock
<1>9. ASSUME Delete(c) PROVE Bound(c)
  <2> DEFINE f == [fetch[c] EXCEPT !.resume = "idle"]
  <2>1. f \in Caller
    BY <1>0, NoteType
  <2>2. ~Join(c, f)
    BY <1>0, <1>1, <2>1, UnboundMoves
  <2>3. Set(c, [f EXCEPT !.pc = fetch[c].resume])
    BY <1>9, <2>2 DEF Delete
  <2>4. fetch'[c].pc = fetch[c].resume /\ fetch'[c].resume = "idle"
    BY <1>0, <2>3 DEF Set, Caller
  <2> QED
    BY <1>9, <2>4 DEF Delete, Bound
<1>10. ASSUME Recheck(c) PROVE \E seen \in Seen(c) : seen # "hit"
  BY <1>0, <1>1, <1>10, UnboundMoves DEF Recheck
<1> QED
  BY <1>3, <1>4, <1>5, <1>6, <1>7, <1>8, <1>9, <1>10 DEF Advance

(* A step moves one caller at most.                                          *)
LEMMA OthersStay ==
    ASSUME Typed, NEW c \in Callers, Begin(c) \/ Advance(c), NEW d \in Callers \ {c}
    PROVE  fetch'[d] = fetch[d]
<1>1. ASSUME NEW f, Set(c, f) PROVE fetch'[d] = fetch[d]
  BY <1>1 DEF Set, Typed
<1> QED
  BY <1>1 DEF Begin, Advance, Lookup, Status, Delete, Enter, Recheck, AcquireLock, Poll,
     GiveUp, AnswerStale, RefreshSucceeds, RefreshFails, RefreshAborts, Write,
     ReleaseLock, Return, Answer, Join, Settle, FallBack, Purge, Goto, Refreshing

(* A process that has refreshed a fresh value has nobody on the way to the   *)
(* lock: the one that refreshes holds the local lock, and who comes after it *)
(* reads the fresh value.                                                    *)
LEMMA OnceStep == Typed /\ LocalLock /\ OnceInv /\ [Next]_vars => OnceInv'
<1> SUFFICES ASSUME Typed, LocalLock, OnceInv, [Next]_vars PROVE OnceInv'
  OBVIOUS
<1>1. needless' # {} => Fresh'
  BY HistoryFresh DEF OnceInv
<1>2. ASSUME NEW d \in Callers, Bound(d)', Process[d] \notin Flaky
      PROVE  Process[d] \notin needless'
  <2>1. ASSUME Bound(d), Process[d] \in needless' \ needless PROVE FALSE
    <3>1. PICK c \in Callers : AcquireLock(c) /\ Process[d] = Process[c]
      <4>1. ~(Tick \/ Expire \/ UNCHANGED vars)
        BY <2>1 DEF Tick, Expire, vars, Remember
      <4> QED
        BY <2>1, <4>1, HistoryGrows DEF Next
    <3>2. Inside(d) /\ Inside(c)
      BY <2>1, <3>1 DEF Bound, AcquireLock, Inside, Guarded
    <3>3. c = d
      BY <3>1, <3>2 DEF LocalLock
    <3>4. ~Bound(c)'
      <4>0. fetch[c] \in Caller /\ fetch \in [Callers -> Caller]
        BY DEF Typed
      <4>1. ~Set(c, [fetch[c] EXCEPT !.pc = "waiting", !.left = LockWait]) \/ ~Bound(c)'
        BY <4>0 DEF Set, Caller, Bound
      <4>2. ASSUME NEW owner, Refreshing(c, owner) PROVE ~Bound(c)'
        BY <4>0, <4>2 DEF Refreshing, Set, Caller, Bound
      <4> QED
        BY <3>1, <4>1, <4>2 DEF AcquireLock
    <3> QED
      BY <1>2, <3>3, <3>4
  <2>2. CASE Bound(d)
    BY <1>2, <2>1, <2>2 DEF OnceInv
  <2>3. CASE ~Bound(d)
    <3>1. PICK c \in Callers : Begin(c) \/ Advance(c)
      <4>1. ~Tick
        BY <1>2, <2>3, TickMoves DEF Bound
      <4>2. ~Expire /\ ~UNCHANGED vars
        BY <1>2, <2>3 DEF Expire, vars, Bound
      <4> QED
        BY <4>1, <4>2 DEF Next
    <3>2. c = d
      BY <1>2, <2>3, <3>1, OthersStay DEF Bound
    <3>3. Recheck(d) /\ \E seen \in Seen(d) : seen # "hit"
      BY <1>2, <2>3, <3>1, <3>2, BoundByRecheck
    <3>4. ~Fresh
      BY <1>2, <3>3 DEF Seen, Unreliable, Found, Fresh
    <3> QED
      BY <3>3, <3>4 DEF OnceInv, Recheck
  <2> QED
    BY <2>2, <2>3
<1> QED
  BY <1>1, <1>2 DEF OnceInv

(* However many callers of however many processes ask for a value, a process *)
(* that Redis answers refreshes it at most once while it is fresh.           *)
THEOREM StampedeBoundedHolds == Spec => StampedeBounded
<1>1. Init => OnceInv
  BY DEF Init, Idle, OnceInv, Bound
<1>2. Typed /\ Resumes /\ OnceInv /\ [Next]_vars
        => [\A c \in Callers : c \notin InRefresh /\ (c \in InRefresh)' /\ Fresh
                                 => Process[c] \notin needless \ Flaky]_vars
  <2> SUFFICES ASSUME Typed, Resumes, OnceInv, Next, NEW c \in Callers,
                      c \notin InRefresh, (c \in InRefresh)'
               PROVE  Process[c] \notin needless \ Flaky
    OBVIOUS
  <2>1. AcquireLock(c)
    BY OnlyAcquireStarts
  <2> QED
    BY <2>1 DEF AcquireLock, OnceInv, Bound
<1> QED
  BY <1>1, <1>2, OnceStep, ResumesHold, TypedHolds, PTL DEF Spec, StampedeBounded
=============================================================================
