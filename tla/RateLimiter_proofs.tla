-------------------------- MODULE RateLimiter_proofs --------------------------
(***************************************************************************)
(* Proofs about RateLimiter, for any number of clients and any limit,      *)
(* window and capacity.                                                    *)
(***************************************************************************)
EXTENDS RateLimiter, SetInduction

Logs == [1..Window -> Nat]

-----------------------------------------------------------------------------
(* Sums over a span                                                          *)

(* What the definition of Sums says.                                         *)
LEMMA SumsOf ==
    ASSUME NEW log
    PROVE  /\ Sums(log)[0] = 0
           /\ \A j, k \in 0..Window : k = j + 1 => Sums(log)[k] = Sums(log)[j] + log[k]
<1>1. Window \in Nat \ {0}
    BY LimiterAssumption
<1> DEFINE Is(f) == f = [k \in 0..Window |-> IF k = 0 THEN 0 ELSE f[k - 1] + log[k]]
<1>2. \E f : Is(f)
    BY <1>1, PrefixSumsExist
<1>3. Is(CHOOSE f : Is(f))
    <2> HIDE DEF Is
    <2>. QED BY <1>2
<1>4. Is(Sums(log))
    BY <1>3 DEF Sums
<1>. QED BY <1>1, <1>4

(* A sum is a natural number and grows with its length.                      *)
LEMMA SumsBounded ==
    ASSUME NEW log \in Logs, NEW k \in 0..Window
    PROVE  /\ Sums(log)[k] \in Nat
           /\ k # 0 => Sums(log)[k] >= log[1]
           /\ Sums(log)[k] <= Sums(log)[Window]
<1>1. Window \in Nat \ {0}
    BY LimiterAssumption
<1> DEFINE T == {n \in Nat : n <= Window =>
                    /\ Sums(log)[n] \in Nat
                    /\ n # 0 => Sums(log)[n] >= log[1]
                    /\ \A m \in 0..n : Sums(log)[m] \in Nat /\ Sums(log)[m] <= Sums(log)[n]}
<1>2. 0 \in T
    BY <1>1, SumsOf
<1>3. ASSUME NEW n \in T \cap Nat PROVE n + 1 \in T
    <2> SUFFICES ASSUME n + 1 <= Window
                 PROVE  /\ Sums(log)[n + 1] \in Nat
                        /\ Sums(log)[n + 1] >= log[1]
                        /\ \A m \in 0..(n + 1) :
                              Sums(log)[m] \in Nat /\ Sums(log)[m] <= Sums(log)[n + 1]
        OBVIOUS
    <2>1. /\ Sums(log)[n] \in Nat
          /\ n # 0 => Sums(log)[n] >= log[1]
          /\ \A m \in 0..n : Sums(log)[m] \in Nat /\ Sums(log)[m] <= Sums(log)[n]
        BY <1>1
    <2>2. log[n + 1] \in Nat
        BY <1>1 DEF Logs
    <2>3. Sums(log)[n + 1] = Sums(log)[n] + log[n + 1]
        BY <1>1, SumsOf
    <2>5. Sums(log)[n + 1] >= log[1]
        <3>1. CASE n = 0
            BY <1>1, <2>1, <2>2, <2>3, <3>1, SumsOf
        <3>2. CASE n # 0
            BY <1>1, <2>1, <2>2, <2>3, <3>2 DEF Logs
        <3>. QED BY <3>1, <3>2
    <2>6. Sums(log)[n + 1] \in Nat
        BY <2>1, <2>2, <2>3
    <2>7. ASSUME NEW m \in 0..(n + 1) PROVE Sums(log)[m] \in Nat /\ Sums(log)[m] <= Sums(log)[n + 1]
        <3>1. CASE m = n + 1
            BY <2>6, <3>1
        <3>2. CASE m \in 0..n
            <4>1. Sums(log)[m] \in Nat /\ Sums(log)[m] <= Sums(log)[n]
                BY <2>1, <3>2
            <4>2. Sums(log)[n] <= Sums(log)[n + 1]
                BY <2>1, <2>2, <2>3
            <4>. QED BY <4>1, <4>2, <2>1, <2>6
        <3>. QED BY <3>1, <3>2
    <2>. QED BY <2>5, <2>6, <2>7
<1>4. Nat \subseteq T
    <2> HIDE DEF T
    <2>. QED BY <1>2, <1>3, NatSetInduction
<1>. QED BY <1>1, <1>4

(* One more in the present instant is one more in every sum.                 *)
LEMMA SumsNow ==
    ASSUME NEW log \in Logs, NEW more \in Logs,
           more = [log EXCEPT ![1] = @ + 1], NEW k \in 1..Window
    PROVE  Sums(more)[k] = Sums(log)[k] + 1
<1>1. Window \in Nat \ {0}
    BY LimiterAssumption
<1> DEFINE T == {n \in Nat : n \in 1..Window => Sums(more)[n] = Sums(log)[n] + 1}
<1>2. 0 \in T
    OBVIOUS
<1>3. ASSUME NEW n \in T \cap Nat PROVE n + 1 \in T
    <2> SUFFICES ASSUME n + 1 <= Window PROVE Sums(more)[n + 1] = Sums(log)[n + 1] + 1
        OBVIOUS
    <2>0. n \in 0..Window /\ n + 1 \in 0..Window
        BY <1>1
    <2>1. /\ Sums(more)[n + 1] = Sums(more)[n] + more[n + 1]
          /\ Sums(log)[n + 1] = Sums(log)[n] + log[n + 1]
        BY <2>0, SumsOf
    <2>2. log[n + 1] \in Nat /\ Sums(log)[n] \in Nat
        BY <1>1, SumsBounded DEF Logs
    <2>3. CASE n = 0
        BY <2>1, <2>2, <2>3, SumsOf DEF Logs
    <2>4. CASE n # 0
        <3>1. Sums(more)[n] = Sums(log)[n] + 1 /\ more[n + 1] = log[n + 1]
            BY <1>1, <2>4 DEF Logs
        <3>. QED BY <2>1, <2>2, <3>1
    <2>. QED BY <2>3, <2>4
<1>4. Nat \subseteq T
    <2> HIDE DEF T
    <2>. QED BY <1>2, <1>3, NatSetInduction
<1>5. k \in T
    <2> HIDE DEF T
    <2>1. k \in Nat
        BY <1>1
    <2>. QED BY <1>4, <2>1
<1>. QED BY <1>5

(* An instant later a sum of one instant more is what it was.                *)
LEMMA SumsLater ==
    ASSUME NEW log \in Logs, NEW later \in Logs,
           later = [i \in 1..Window |-> IF i = 1 THEN 0 ELSE log[i - 1]], NEW k \in 1..Window
    PROVE  Sums(later)[k] = Sums(log)[k - 1]
<1>1. Window \in Nat \ {0}
    BY LimiterAssumption
<1> DEFINE T == {n \in Nat : n + 1 <= Window => Sums(later)[n + 1] = Sums(log)[n]}
<1>2. 0 \in T
    <2>1. Sums(later)[1] = Sums(later)[0] + later[1] /\ later[1] = 0
        BY <1>1, SumsOf
    <2>. QED BY <1>1, <2>1, SumsOf
<1>3. ASSUME NEW n \in T \cap Nat PROVE n + 1 \in T
    <2> SUFFICES ASSUME n + 2 <= Window PROVE Sums(later)[n + 2] = Sums(log)[n + 1]
        OBVIOUS
    <2>1. Sums(later)[n + 1] = Sums(log)[n]
        BY <1>1
    <2>2. later[n + 2] = log[n + 1]
        BY <1>1
    <2>3. /\ Sums(later)[n + 2] = Sums(later)[n + 1] + later[n + 2]
          /\ Sums(log)[n + 1] = Sums(log)[n] + log[n + 1]
        BY <1>1, SumsOf
    <2>. QED BY <2>1, <2>2, <2>3
<1>4. Nat \subseteq T
    <2> HIDE DEF T
    <2>. QED BY <1>2, <1>3, NatSetInduction
<1>5. k - 1 \in T
    BY <1>1, <1>4
<1>. QED BY <1>1, <1>5

(* At most MaxTries in each instant, that is MaxTries * k in k of them.      *)
LEMMA SumsWithin ==
    ASSUME NEW log \in [1..Window -> 0..MaxTries], NEW k \in 0..Window
    PROVE  Sums(log)[k] <= MaxTries * k
<1>1. Window \in Nat \ {0} /\ MaxTries \in Nat \ {0}
    BY LimiterAssumption
<1>2. log \in Logs
    BY <1>1 DEF Logs
<1> DEFINE T == {n \in Nat : n <= Window => Sums(log)[n] <= MaxTries * n}
<1>3. 0 \in T
    BY <1>1, SumsOf
<1>4. ASSUME NEW n \in T \cap Nat PROVE n + 1 \in T
    <2> SUFFICES ASSUME n + 1 <= Window PROVE Sums(log)[n + 1] <= MaxTries * (n + 1)
        OBVIOUS
    <2>1. n \in 0..Window /\ n + 1 \in 0..Window /\ n + 1 \in 1..Window
        BY <1>1
    <2>2. Sums(log)[n + 1] = Sums(log)[n] + log[n + 1]
        BY <2>1, SumsOf
    <2>3. Sums(log)[n] \in Nat /\ Sums(log)[n] <= MaxTries * n /\ log[n + 1] \in 0..MaxTries
        BY <1>1, <1>2, <2>1, SumsBounded
    <2>4. MaxTries * (n + 1) = MaxTries * n + MaxTries /\ MaxTries * n \in Nat
        BY <1>1
    <2>. QED BY <1>1, <2>2, <2>3, <2>4
<1>5. Nat \subseteq T
    <2> HIDE DEF T
    <2>. QED BY <1>3, <1>4, NatSetInduction
<1>. QED BY <1>1, <1>5

-----------------------------------------------------------------------------
(* One window of one client in one store: what it counted and let through    *)
(* since it opened are sums of the two logs, and so is what windows before   *)
(* it let through in the span that ends now.                                 *)

Span(w) == (Window - w.left) + 1

CellOk(on, w, in, out) ==
    IF on
    THEN /\ w.count \in Nat /\ w.left \in 1..Window
         /\ Sums(in)[Span(w)] = w.count
         /\ Sums(out)[Span(w)] <= w.count /\ Sums(out)[Span(w)] <= Limit
         /\ Sums(out)[Window] <= Sums(out)[Span(w)] + Limit
    ELSE in[1] = 0 /\ out[1] = 0 /\ Sums(out)[Window] <= Limit

Plus(log) == [log EXCEPT ![1] = @ + 1]
Later(log) == [i \in 1..Window |-> IF i = 1 THEN 0 ELSE log[i - 1]]

LEMMA CellBudget ==
    ASSUME NEW on \in BOOLEAN, NEW w, NEW in \in Logs, NEW out \in Logs, CellOk(on, w, in, out)
    PROVE  Sums(out)[Window] <= 2 * Limit
<1>1. Window \in Nat \ {0} /\ Limit \in Nat \ {0}
    BY LimiterAssumption
<1>2. Sums(out)[Window] \in Nat
    BY <1>1, SumsBounded
<1>3. CASE on
    <2>1. Span(w) \in 0..Window
        BY <1>1, <1>3 DEF CellOk, Span
    <2>2. Sums(out)[Span(w)] \in Nat
        BY <2>1, SumsBounded
    <2>. QED BY <1>1, <1>2, <1>3, <2>2 DEF CellOk
<1>4. CASE ~on
    BY <1>1, <1>2, <1>4 DEF CellOk
<1>. QED BY <1>3, <1>4

(* An attempt is counted in the window that runs or opens the next one, and  *)
(* perhaps let through; a count beyond the limit is one of a window that ran. *)
LEMMA CellCounts ==
    ASSUME NEW on \in BOOLEAN, NEW w, NEW in \in Logs, NEW out \in Logs, CellOk(on, w, in, out),
           NEW w2, w2 = Counted(IF on THEN w ELSE Opened),
           on => w \in [count : Nat, left : 0..Window],
           NEW out2, out2 = out \/ (out2 = Plus(out) /\ w2.count <= Limit)
    PROVE  /\ Plus(in) \in Logs /\ out2 \in Logs
           /\ CellOk(TRUE, w2, Plus(in), out2)
           /\ w2 \in [count : Nat \ {0}, left : 1..Window]
           /\ w2.count <= Sums(Plus(in))[Window]
           /\ w2.count > Limit => on
<1>1. Window \in Nat \ {0} /\ Limit \in Nat \ {0}
    BY LimiterAssumption
<1> DEFINE v == IF on THEN w ELSE Opened
           k == Span(w2)
<1>2. v \in [count : Nat, left : 1..Window]
    BY <1>1 DEF Opened, CellOk
<1>3. /\ w2 \in [count : Nat \ {0}, left : 1..Window]
      /\ w2.count = v.count + 1 /\ w2.left = v.left
    BY <1>1, <1>2 DEF Counted
<1>4. k \in 1..Window /\ k = Span(v)
    BY <1>1, <1>3 DEF Span
<1>5. Plus(in) \in Logs /\ Plus(out) \in Logs /\ out2 \in Logs
    <2>1. Plus(in) \in Logs /\ Plus(out) \in Logs
        BY <1>1 DEF Logs, Plus
    <2>. QED BY <2>1
<1>6. /\ Sums(Plus(in))[k] = Sums(in)[k] + 1
      /\ Sums(Plus(out))[k] = Sums(out)[k] + 1
      /\ Sums(Plus(out))[Window] = Sums(out)[Window] + 1
    BY <1>1, <1>4, <1>5, SumsNow DEF Plus
<1>7. /\ Sums(in)[k] \in Nat /\ Sums(out)[k] \in Nat /\ Sums(out)[Window] \in Nat
      /\ Sums(Plus(in))[k] <= Sums(Plus(in))[Window]
    BY <1>1, <1>4, <1>5, SumsBounded
<1>8. /\ Sums(in)[k] = v.count
      /\ Sums(out)[k] <= v.count /\ Sums(out)[k] <= Limit
      /\ Sums(out)[Window] <= Sums(out)[k] + Limit
    <2>1. CASE on
        BY <1>4, <2>1 DEF CellOk
    <2>2. CASE ~on
        <3>1. v.count = 0 /\ k = 1
            BY <1>1, <1>4, <2>2 DEF Opened, Span
        <3>2. Sums(in)[1] = 0 /\ Sums(out)[1] = 0
            <4>1. \A log \in Logs : Sums(log)[1] = Sums(log)[0] + log[1] /\ Sums(log)[0] = 0
                BY <1>1, SumsOf
            <4>. QED BY <2>2, <4>1 DEF CellOk
        <3>. QED BY <1>1, <1>7, <2>2, <3>1, <3>2 DEF CellOk
    <2>. QED BY <2>1, <2>2
<1>9. CellOk(TRUE, w2, Plus(in), out2)
    <2> HIDE DEF k, v
    <2>1. Sums(Plus(in))[k] = w2.count
        BY <1>3, <1>6, <1>8
    <2>2. /\ Sums(out2)[k] <= w2.count /\ Sums(out2)[k] <= Limit
          /\ Sums(out2)[Window] <= Sums(out2)[k] + Limit
        <3>1. CASE out2 = Plus(out) /\ w2.count <= Limit
            BY <1>1, <1>2, <1>3, <1>6, <1>7, <1>8, <3>1
        <3>2. CASE out2 = out
            BY <1>1, <1>2, <1>3, <1>7, <1>8, <3>2
        <3>. QED BY <3>1, <3>2
    <2>. QED BY <1>3, <2>1, <2>2 DEF CellOk, k
<1>10. w2.count <= Sums(Plus(in))[Window]
    BY <1>3, <1>6, <1>7, <1>8
<1>11. w2.count > Limit => on
    BY <1>1, <1>3 DEF Opened
<1>. QED BY <1>3, <1>5, <1>9, <1>10, <1>11

(* An instant later the window has an instant less, or has ended and left    *)
(* no more than the limit behind.                                            *)
LEMMA CellTicks ==
    ASSUME NEW on \in BOOLEAN, NEW w, NEW in \in Logs, NEW out \in Logs, CellOk(on, w, in, out),
           on => w \in [count : Nat, left : 0..Window]
    PROVE  /\ Later(in) \in Logs /\ Later(out) \in Logs
           /\ on /\ w.left > 1 => CellOk(TRUE, Elapsed(w), Later(in), Later(out))
           /\ ~(on /\ w.left > 1) => CellOk(FALSE, Elapsed(w), Later(in), Later(out))
<1>1. Window \in Nat \ {0} /\ Limit \in Nat \ {0}
    BY LimiterAssumption
<1>2. Later(in) \in Logs /\ Later(out) \in Logs
    BY <1>1 DEF Logs, Later
<1>3. \A k \in 1..Window : /\ Sums(Later(in))[k] = Sums(in)[k - 1]
                           /\ Sums(Later(out))[k] = Sums(out)[k - 1]
    BY <1>2, SumsLater DEF Later
<1>4. /\ Sums(Later(out))[Window] = Sums(out)[Window - 1]
      /\ Sums(out)[Window - 1] <= Sums(out)[Window]
      /\ Sums(out)[Window] \in Nat /\ Sums(out)[Window - 1] \in Nat
    BY <1>1, <1>3, SumsBounded
<1>5. CASE on /\ w.left > 1
    <2>1. /\ Elapsed(w).count = w.count /\ Elapsed(w).left = w.left - 1
          /\ w.left \in 1..Window /\ w.count \in Nat
        BY <1>1, <1>5 DEF Elapsed, CellOk
    <2>2. Span(Elapsed(w)) = Span(w) + 1 /\ Span(w) \in 1..Window /\ Span(w) + 1 \in 1..Window
        BY <1>1, <1>5, <2>1 DEF Span
    <2>3. /\ Sums(Later(in))[Span(Elapsed(w))] = Sums(in)[Span(w)]
          /\ Sums(Later(out))[Span(Elapsed(w))] = Sums(out)[Span(w)]
        BY <1>3, <2>2
    <2>4. Sums(out)[Span(w)] \in Nat
        BY <2>2, SumsBounded
    <2>5. /\ Sums(in)[Span(w)] = w.count
          /\ Sums(out)[Span(w)] <= w.count /\ Sums(out)[Span(w)] <= Limit
          /\ Sums(out)[Window] <= Sums(out)[Span(w)] + Limit
        BY <1>5 DEF CellOk
    <2>6. Sums(Later(out))[Window] <= Sums(Later(out))[Span(Elapsed(w))] + Limit
        BY <1>1, <1>4, <2>3, <2>4, <2>5
    <2>7. Elapsed(w).left \in 1..Window
        BY <1>1, <1>5, <2>1
    <2>8. CellOk(TRUE, Elapsed(w), Later(in), Later(out))
        BY <2>1, <2>3, <2>5, <2>6, <2>7 DEF CellOk
    <2>. QED BY <1>2, <1>5, <2>8
<1>6. CASE ~(on /\ w.left > 1)
    <2>1. Later(in)[1] = 0 /\ Later(out)[1] = 0
        BY <1>1 DEF Later
    <2>2. Sums(out)[Window] <= Limit
        <3>1. CASE on
            <4>1. w.left = 1 /\ Span(w) = Window
                BY <1>1, <1>6, <3>1 DEF CellOk, Span
            <4>. QED BY <3>1, <4>1 DEF CellOk
        <3>2. CASE ~on
            BY <3>2 DEF CellOk
        <3>. QED BY <3>1, <3>2
    <2>3. Sums(Later(out))[Window] <= Limit
        BY <1>1, <1>4, <2>2
    <2>4. CellOk(FALSE, Elapsed(w), Later(in), Later(out))
        BY <2>1, <2>3 DEF CellOk
    <2>. QED BY <1>2, <1>6, <2>4
<1>. QED BY <1>5, <1>6

-----------------------------------------------------------------------------
(* The inductive invariant                                                   *)

Windows == [count : 1..(MaxTries * Window), left : 0..Window]
Tallies == [Clients -> [Stores -> [1..Window -> 0..MaxTries]]]
History == [Clients -> [Stores -> Logs]]
Tellings == [store : Stores, left : 0..(Window + 1), again : BOOLEAN]

Types ==
    /\ redis \in BOOLEAN
    /\ DOMAIN remote \subseteq Clients /\ remote \in [DOMAIN remote -> Windows]
    /\ DOMAIN local \subseteq Clients /\ local \in [DOMAIN local -> Windows]
    /\ IsFiniteSet(DOMAIN local) /\ Cardinality(DOMAIN local) <= Capacity
    /\ counted \in Tallies /\ passed \in History
    /\ told \in [Clients -> Tellings \cup {None}]
    /\ verdict = None \/ verdict.cause \in {"none", "spent", "full"}

RemoteOk ==
    \A c \in Clients :
        CellOk(c \in DOMAIN remote, remote[c], counted[c]["redis"], passed[c]["redis"])

LocalOk ==
    \A c \in Clients :
        CellOk(c \in Live, local[c], counted[c]["table"], passed[c]["table"])

(* The wait a client was told lasts as long as the window it was told of;    *)
(* what Redis told may be an instant short, but not to who had waited.       *)
ToldOk ==
    \A c \in Clients : told[c] # None =>
        /\ told[c].store = "redis" /\ c \in DOMAIN remote =>
              /\ remote[c].left <= told[c].left + 1
              /\ told[c].again => remote[c].left <= told[c].left
        /\ told[c].store = "table" /\ c \in DOMAIN local => local[c].left <= told[c].left

IInv == Types /\ RemoteOk /\ LocalOk /\ ToldOk /\ RefusedForCause

(* The types give the logs their types.                                      *)
LEMMA LogTypes ==
    ASSUME Types, NEW c \in Clients, NEW s \in Stores
    PROVE  /\ counted[c][s] \in [1..Window -> 0..MaxTries]
           /\ counted[c][s] \in Logs /\ passed[c][s] \in Logs
<1>1. MaxTries \in Nat
    BY LimiterAssumption
<1>. QED BY <1>1 DEF Types, Tallies, History, Logs

(* Now changes the log of one client in one store.                           *)
LEMMA NowIs ==
    ASSUME NEW log \in History, NEW c \in Clients, NEW s \in Stores
    PROVE  /\ Now(log, c, s) \in History
           /\ \A d \in Clients, t \in Stores :
                 Now(log, c, s)[d][t] = IF d = c /\ t = s THEN Plus(log[d][t]) ELSE log[d][t]
<1>1. Window \in Nat \ {0}
    BY LimiterAssumption
<1>2. Now(log, c, s) = [log EXCEPT ![c] = [log[c] EXCEPT ![s] = Plus(log[c][s])]]
    BY DEF Now, Plus
<1>3. Plus(log[c][s]) \in Logs
    BY <1>1 DEF History, Logs, Plus
<1>. QED BY <1>2, <1>3 DEF History

(* As long as the guard of the attempts holds, a tally stays one.            *)
LEMMA NowTally ==
    ASSUME NEW log \in Tallies, NEW c \in Clients, NEW s \in Stores, log[c][s][1] < MaxTries
    PROVE  Now(log, c, s) \in Tallies
<1>1. Window \in Nat \ {0} /\ MaxTries \in Nat \ {0}
    BY LimiterAssumption
<1>2. Now(log, c, s) = [log EXCEPT ![c] = [log[c] EXCEPT ![s] = Plus(log[c][s])]]
    BY DEF Now, Plus
<1>3. log[c][s] \in [1..Window -> 0..MaxTries]
    BY DEF Tallies
<1>4. Plus(log[c][s]) \in [1..Window -> 0..MaxTries]
    BY <1>1, <1>3 DEF Plus
<1>. QED BY <1>2, <1>4 DEF Tallies

LEMMA TalliesAreHistory == Tallies \subseteq History
<1>1. MaxTries \in Nat
    BY LimiterAssumption
<1>2. [1..Window -> 0..MaxTries] \subseteq Logs
    BY <1>1 DEF Logs
<1>. QED BY <1>2 DEF Tallies, History

(* CellCounts for the windows of a state: the next window fits its type too. *)
LEMMA WindowCounts ==
    ASSUME NEW on \in BOOLEAN, NEW w, NEW in \in [1..Window -> 0..MaxTries], NEW out \in Logs,
           CellOk(on, w, in, out), on => w \in Windows, in[1] < MaxTries,
           NEW w2, w2 = Counted(IF on THEN w ELSE Opened),
           NEW out2, out2 = out \/ (out2 = Plus(out) /\ w2.count <= Limit)
    PROVE  /\ CellOk(TRUE, w2, Plus(in), out2)
           /\ w2 \in Windows /\ w2.left > 0
           /\ w2.count <= Sums(Plus(in))[Window]
           /\ w2.count > Limit => on
           /\ on => w2.left = w.left
<1>1. Window \in Nat \ {0} /\ MaxTries \in Nat \ {0}
    BY LimiterAssumption
<1>2. in \in Logs
    BY <1>1 DEF Logs
<1>3. on => w \in [count : Nat, left : 0..Window]
    BY <1>1 DEF Windows
<1>4. /\ CellOk(TRUE, w2, Plus(in), out2)
      /\ w2 \in [count : Nat \ {0}, left : 1..Window]
      /\ w2.count <= Sums(Plus(in))[Window]
      /\ w2.count > Limit => on
    BY <1>2, <1>3, CellCounts
<1>5. Plus(in) \in [1..Window -> 0..MaxTries]
    BY <1>1 DEF Plus
<1>6. Sums(Plus(in))[Window] <= MaxTries * Window
    BY <1>1, <1>5, Window \in 0..Window, SumsWithin, Zenon
<1>7. Sums(Plus(in))[Window] \in Nat /\ MaxTries * Window \in Nat
    <2>1. Plus(in) \in Logs
        BY <1>1, <1>5 DEF Logs
    <2>. QED BY <1>1, <2>1, SumsBounded
<1>8. w2 \in Windows /\ w2.left > 0
    BY <1>1, <1>4, <1>6, <1>7 DEF Windows
<1>9. on => w2.left = w.left
    BY <1>3 DEF Counted
<1>. QED BY <1>4, <1>8, <1>9

(* What an attempt makes of the window of a client in Redis, ...             *)
LEMMA RemoteCounts ==
    ASSUME Types, RemoteOk, NEW c \in Clients, Tries(c) < MaxTries,
           NEW out2, \/ out2 = passed[c]["redis"]
                     \/ out2 = Plus(passed[c]["redis"]) /\ Remote(c).count <= Limit
    PROVE  /\ CellOk(TRUE, Remote(c), Plus(counted[c]["redis"]), out2)
           /\ Remote(c) \in Windows /\ Remote(c).left > 0
           /\ Remote(c).count <= SumOf(Plus(counted[c]["redis"]))
           /\ Remote(c).count > Limit => c \in DOMAIN remote
           /\ c \in DOMAIN remote => Remote(c).left = remote[c].left
           /\ counted[c]["redis"][1] < MaxTries
<1>1. Window \in Nat \ {0} /\ MaxTries \in Nat \ {0}
    BY LimiterAssumption
<1>2. /\ counted[c]["redis"] \in [1..Window -> 0..MaxTries]
      /\ counted[c]["table"] \in [1..Window -> 0..MaxTries]
      /\ passed[c]["redis"] \in Logs
    BY LogTypes DEF Stores
<1>3. counted[c]["redis"][1] < MaxTries
    BY <1>1, <1>2 DEF Tries
<1> DEFINE on == c \in DOMAIN remote
<1>4. on \in BOOLEAN /\ CellOk(on, remote[c], counted[c]["redis"], passed[c]["redis"])
    BY DEF RemoteOk
<1>5. on => remote[c] \in Windows
    BY DEF Types
<1>6. Remote(c) = Counted(IF on THEN remote[c] ELSE Opened)
    BY DEF Remote
<1> DEFINE w == remote[c]
           w2 == Remote(c)
           in == counted[c]["redis"]
           out == passed[c]["redis"]
<1>7. /\ on \in BOOLEAN /\ CellOk(on, w, in, out) /\ (on => w \in Windows)
      /\ in \in [1..Window -> 0..MaxTries] /\ in[1] < MaxTries /\ out \in Logs
      /\ w2 = Counted(IF on THEN w ELSE Opened)
      /\ out2 = out \/ (out2 = Plus(out) /\ w2.count <= Limit)
    BY <1>2, <1>3, <1>4, <1>5, <1>6
<1>8. /\ CellOk(TRUE, w2, Plus(in), out2)
      /\ w2 \in Windows /\ w2.left > 0
      /\ w2.count <= Sums(Plus(in))[Window]
      /\ w2.count > Limit => on
      /\ on => w2.left = w.left
    <2> HIDE DEF on, w, w2, in, out
    <2>. QED BY <1>7, WindowCounts
<1>. QED BY <1>3, <1>8 DEF SumOf

(* ... and in the table.                                                     *)
LEMMA LocalCounts ==
    ASSUME Types, LocalOk, NEW c \in Clients, Tries(c) < MaxTries,
           NEW out2, \/ out2 = passed[c]["table"]
                     \/ out2 = Plus(passed[c]["table"]) /\ Local(c).count <= Limit
    PROVE  /\ CellOk(TRUE, Local(c), Plus(counted[c]["table"]), out2)
           /\ Local(c) \in Windows /\ Local(c).left > 0
           /\ Local(c).count <= SumOf(Plus(counted[c]["table"]))
           /\ Local(c).count > Limit => c \in Live
           /\ c \in Live => Local(c).left = local[c].left
           /\ counted[c]["table"][1] < MaxTries
<1>1. Window \in Nat \ {0} /\ MaxTries \in Nat \ {0}
    BY LimiterAssumption
<1>2. /\ counted[c]["redis"] \in [1..Window -> 0..MaxTries]
      /\ counted[c]["table"] \in [1..Window -> 0..MaxTries]
      /\ passed[c]["table"] \in Logs
    BY LogTypes DEF Stores
<1>3. counted[c]["table"][1] < MaxTries
    BY <1>1, <1>2 DEF Tries
<1> DEFINE on == c \in Live
<1>4. on \in BOOLEAN /\ CellOk(on, local[c], counted[c]["table"], passed[c]["table"])
    BY DEF LocalOk
<1>5. on => local[c] \in Windows
    BY DEF Types, Live
<1>6. Local(c) = Counted(IF on THEN local[c] ELSE Opened)
    BY DEF Local
<1> DEFINE w == local[c]
           w2 == Local(c)
           in == counted[c]["table"]
           out == passed[c]["table"]
<1>7. /\ on \in BOOLEAN /\ CellOk(on, w, in, out) /\ (on => w \in Windows)
      /\ in \in [1..Window -> 0..MaxTries] /\ in[1] < MaxTries /\ out \in Logs
      /\ w2 = Counted(IF on THEN w ELSE Opened)
      /\ out2 = out \/ (out2 = Plus(out) /\ w2.count <= Limit)
    BY <1>2, <1>3, <1>4, <1>5, <1>6
<1>8. /\ CellOk(TRUE, w2, Plus(in), out2)
      /\ w2 \in Windows /\ w2.left > 0
      /\ w2.count <= Sums(Plus(in))[Window]
      /\ w2.count > Limit => on
      /\ on => w2.left = w.left
    <2> HIDE DEF on, w, w2, in, out
    <2>. QED BY <1>7, WindowCounts
<1>. QED BY <1>3, <1>8 DEF SumOf

-----------------------------------------------------------------------------
(* The invariant at the start                                                *)

LEMMA InitIInv == Init => IInv
<1> SUFFICES ASSUME Init PROVE IInv
    OBVIOUS
<1>1. Window \in Nat \ {0} /\ MaxTries \in Nat \ {0} /\ Limit \in Nat \ {0} /\ Capacity \in Nat
    BY LimiterAssumption
<1>2. DOMAIN remote = {} /\ DOMAIN local = {}
    BY DEF Init
<1>3. Types
    <2>1. remote \in [DOMAIN remote -> Windows] /\ local \in [DOMAIN local -> Windows]
        BY <1>2 DEF Init
    <2>2. IsFiniteSet({}) /\ Cardinality({}) = 0
        BY FS_EmptySet
    <2>3. Silent \in Tallies /\ Silent \in History
        BY <1>1 DEF Silent, Tallies, History, Logs
    <2>. QED BY <1>1, <1>2, <2>1, <2>2, <2>3 DEF Types, Init
<1>4. ASSUME NEW c \in Clients, NEW s \in Stores
      PROVE  counted[c][s][1] = 0 /\ passed[c][s][1] = 0 /\ Sums(passed[c][s])[Window] <= Limit
    <2> DEFINE zeros == [i \in 1..Window |-> 0]
    <2>1. counted[c][s] = zeros /\ passed[c][s] = zeros
        BY DEF Init, Silent
    <2>2. zeros \in Logs /\ zeros = Later(zeros)
        BY <1>1 DEF Logs, Later
    <2>3. zeros[1] = 0
        BY <1>1
    <2> DEFINE T == {n \in Nat : n <= Window => Sums(zeros)[n] = 0}
    <2>4. 0 \in T
        BY SumsOf
    <2>5. ASSUME NEW n \in T \cap Nat PROVE n + 1 \in T
        <3> SUFFICES ASSUME n + 1 <= Window PROVE Sums(zeros)[n + 1] = 0
            OBVIOUS
        <3>1. n \in 0..Window /\ n + 1 \in 0..Window /\ n + 1 \in 1..Window
            BY <1>1
        <3>2. Sums(zeros)[n + 1] = Sums(zeros)[n] + zeros[n + 1]
            <4> HIDE DEF zeros
            <4>. QED BY <3>1, SumsOf
        <3>3. zeros[n + 1] = 0
            BY <3>1
        <3>4. Sums(zeros)[n] = 0
            BY <1>1
        <3>. QED BY <3>2, <3>3, <3>4
    <2>6. Window \in T
        <3> HIDE DEF T
        <3>. QED BY <1>1, <2>4, <2>5, NatSetInduction
    <2>7. Sums(zeros)[Window] = 0
        BY <1>1, <2>6
    <2> HIDE DEF zeros
    <2>. QED BY <1>1, <2>1, <2>3, <2>7
<1>5. RemoteOk
    BY <1>2, <1>4 DEF RemoteOk, CellOk, Stores
<1>6. LocalOk
    <2>1. Live = {}
        BY <1>2 DEF Live
    <2>. QED BY <1>4, <2>1 DEF LocalOk, CellOk, Stores
<1>7. ToldOk /\ RefusedForCause
    BY DEF Init, ToldOk, RefusedForCause
<1>. QED BY <1>3, <1>5, <1>6, <1>7 DEF IInv

-----------------------------------------------------------------------------
(* The steps                                                                 *)

(* The history a verdict leaves.                                             *)
LEMMA JudgeIs ==
    ASSUME Types, NEW c \in Clients, NEW s \in Stores, NEW cause \in {"none", "spent", "full"},
           NEW wait \in 0..(Window + 1), Judge(c, s, cause, wait)
    PROVE  /\ passed' \in History
           /\ \A d \in Clients, t \in Stores : ~(d = c /\ t = s) => passed'[d][t] = passed[d][t]
           /\ \/ passed'[c][s] = passed[c][s]
              \/ passed'[c][s] = Plus(passed[c][s]) /\ cause = "none"
           /\ told' \in [Clients -> Tellings \cup {None}]
           /\ \A d \in Clients : d # c => told'[d] = told[d]
           /\ told'[c] # None =>
                  told'[c] = [store |-> s, left |-> wait, again |-> Waited(c, s)] /\ cause = "spent"
           /\ verdict'.client = c /\ verdict'.store = s /\ verdict'.cause = cause
           /\ verdict'.waited = Waited(c, s) /\ verdict'.again = WaitedAgain(c, s)
<1>1. passed \in History
    BY DEF Types
<1>2. passed' = IF cause = "none" THEN Now(passed, c, s) ELSE passed
    BY DEF Judge
<1>3. /\ passed' \in History
      /\ \A d \in Clients, t \in Stores : ~(d = c /\ t = s) => passed'[d][t] = passed[d][t]
      /\ \/ passed'[c][s] = passed[c][s]
         \/ passed'[c][s] = Plus(passed[c][s]) /\ cause = "none"
    <2>1. CASE cause = "none"
        BY <1>1, <1>2, <2>1, NowIs
    <2>2. CASE cause # "none"
        BY <1>1, <1>2, <2>2
    <2>. QED BY <2>1, <2>2
<1>4. told \in [Clients -> Tellings \cup {None}]
    BY DEF Types
<1> DEFINE telling == [store |-> s, left |-> wait, again |-> Waited(c, s)]
<1>5. told' = [told EXCEPT ![c] = IF cause = "spent" THEN telling ELSE None]
    BY DEF Judge
<1>8. telling \in Tellings
    <2>1. Waited(c, s) \in BOOLEAN
        BY DEF Waited
    <2>. QED BY <2>1 DEF Tellings
<1> HIDE DEF telling
<1>6. /\ told' \in [Clients -> Tellings \cup {None}]
      /\ \A d \in Clients : d # c => told'[d] = told[d]
      /\ told'[c] # None => told'[c] = telling /\ cause = "spent"
    BY <1>4, <1>5, <1>8
<1>7. verdict' = [client |-> c, store |-> s, cause |-> cause,
                  waited |-> Waited(c, s), again |-> WaitedAgain(c, s)]
    BY DEF Judge
<1>9. /\ verdict'.client = c /\ verdict'.store = s /\ verdict'.cause = cause
      /\ verdict'.waited = Waited(c, s) /\ verdict'.again = WaitedAgain(c, s)
    BY <1>7
<1>. QED BY <1>3, <1>6, <1>9 DEF telling

(* Who waited as the table told it finds no window running there; who waited *)
(* as Redis told it finds one of an instant, and none the second time.       *)
LEMMA WaitedOut ==
    ASSUME Types, ToldOk, NEW c \in Clients
    PROVE  /\ Waited(c, "redis") /\ c \in DOMAIN remote => remote[c].left <= 1
           /\ WaitedAgain(c, "redis") /\ c \in DOMAIN remote => remote[c].left = 0
           /\ Waited(c, "table") /\ c \in DOMAIN local => local[c].left = 0
<1>1. Window \in Nat \ {0}
    BY LimiterAssumption
<1>2. c \in DOMAIN remote => remote[c].left \in Nat
    BY <1>1 DEF Types, Windows
<1>3. c \in DOMAIN local => local[c].left \in Nat
    BY <1>1 DEF Types, Windows
<1>. QED BY <1>2, <1>3 DEF ToldOk, Waited, WaitedAgain

LEMMA RedisStep ==
    ASSUME IInv, NEW c \in Clients, AskRedis(c)
    PROVE  IInv'
<1>1. Window \in Nat \ {0} /\ MaxTries \in Nat \ {0} /\ Limit \in Nat \ {0}
    BY LimiterAssumption
<1>2. Types /\ RemoteOk /\ LocalOk /\ ToldOk
    BY DEF IInv
<1>3. /\ Tries(c) < MaxTries
      /\ remote' = Put(c, Remote(c), remote)
      /\ counted' = Now(counted, c, "redis")
      /\ redis' = redis /\ local' = local
    BY DEF AskRedis
<1> DEFINE cause == Cause(Remote(c))
<1>4. cause \in {"none", "spent"} /\ (cause = "none" <=> Remote(c).count <= Limit)
    BY DEF Cause
<1>5. PICK wait \in Ttl(Remote(c).left) : Judge(c, "redis", cause, wait)
    BY DEF AskRedis
<1>6. /\ Remote(c) \in Windows /\ Remote(c).left > 0
      /\ Remote(c).count <= SumOf(Plus(counted[c]["redis"]))
      /\ Remote(c).count > Limit => c \in DOMAIN remote
      /\ c \in DOMAIN remote => Remote(c).left = remote[c].left
      /\ counted[c]["redis"][1] < MaxTries
    BY <1>2, <1>3, RemoteCounts
<1>7. Remote(c).count \in Nat /\ Remote(c).left \in 0..Window
    BY <1>1, <1>6 DEF Windows
<1>17. wait \in 0..(Window + 1) /\ wait >= 1 /\ Remote(c).left <= wait + 1
    BY <1>1, <1>5, <1>7 DEF Ttl
<1>8. /\ passed' \in History
      /\ \A d \in Clients, t \in Stores : ~(d = c /\ t = "redis") => passed'[d][t] = passed[d][t]
      /\ \/ passed'[c]["redis"] = passed[c]["redis"]
         \/ passed'[c]["redis"] = Plus(passed[c]["redis"]) /\ cause = "none"
      /\ told' \in [Clients -> Tellings \cup {None}]
      /\ \A d \in Clients : d # c => told'[d] = told[d]
      /\ told'[c] # None =>
            /\ told'[c] = [store |-> "redis", left |-> wait, again |-> Waited(c, "redis")]
            /\ cause = "spent"
      /\ verdict'.client = c /\ verdict'.store = "redis" /\ verdict'.cause = cause
      /\ verdict'.waited = Waited(c, "redis") /\ verdict'.again = WaitedAgain(c, "redis")
    <2> HIDE DEF cause
    <2>1. cause \in {"none", "spent", "full"} /\ "redis" \in Stores
        BY <1>4 DEF Stores
    <2>. QED BY <1>2, <1>5, <1>17, <2>1, JudgeIs
<1>9. /\ counted \in Tallies /\ counted' \in Tallies
      /\ \A d \in Clients, t \in Stores :
            counted'[d][t] = IF d = c /\ t = "redis" THEN Plus(counted[d][t]) ELSE counted[d][t]
    <2>1. counted \in Tallies /\ counted \in History /\ "redis" \in Stores
        BY <1>2, TalliesAreHistory DEF Types, Stores
    <2>. QED BY <1>3, <1>6, <2>1, NowIs, NowTally
<1>10. /\ DOMAIN remote' = DOMAIN remote \cup {c} /\ remote' \in [DOMAIN remote' -> Windows]
       /\ remote'[c] = Remote(c) /\ \A d \in DOMAIN remote : d # c => remote'[d] = remote[d]
    <2>1. remote \in [DOMAIN remote -> Windows] /\ Remote(c) \in Windows
        BY <1>2, <1>6 DEF Types
    <2>2. /\ DOMAIN Put(c, Remote(c), remote) = DOMAIN remote \cup {c}
          /\ Put(c, Remote(c), remote) \in [DOMAIN remote \cup {c} -> Windows]
          /\ Put(c, Remote(c), remote)[c] = Remote(c)
          /\ \A d \in DOMAIN remote : d # c => Put(c, Remote(c), remote)[d] = remote[d]
        BY <2>1 DEF Put
    <2>. QED BY <1>3, <2>2
<1>11. CellOk(TRUE, Remote(c), Plus(counted[c]["redis"]), passed'[c]["redis"])
    BY <1>2, <1>3, <1>4, <1>8, RemoteCounts
<1> HIDE DEF cause
<1>12. Types'
    <2>1. verdict'.cause \in {"none", "spent", "full"}
        BY <1>4, <1>8
    <2>. QED BY <1>2, <1>3, <1>8, <1>9, <1>10, <2>1 DEF Types
<1>13. RemoteOk'
    <2> SUFFICES ASSUME NEW d \in Clients
                 PROVE  CellOk(d \in DOMAIN remote, remote[d],
                               counted[d]["redis"], passed[d]["redis"])'
        BY DEF RemoteOk
    <2>1. CASE d = c
        BY <1>9, <1>10, <1>11, <2>1 DEF CellOk, Stores
    <2>2. CASE d # c
        <3>1. /\ counted'[d]["redis"] = counted[d]["redis"] /\ passed'[d]["redis"] = passed[d]["redis"]
              /\ d \in DOMAIN remote' <=> d \in DOMAIN remote
              /\ d \in DOMAIN remote => remote'[d] = remote[d]
            BY <1>8, <1>9, <1>10, <2>2 DEF Stores
        <3>. QED BY <1>2, <3>1 DEF RemoteOk, CellOk
    <2>. QED BY <2>1, <2>2
<1>14. LocalOk'
    <2>1. \A d \in Clients : /\ counted'[d]["table"] = counted[d]["table"]
                             /\ passed'[d]["table"] = passed[d]["table"]
        BY <1>8, <1>9 DEF Stores
    <2>. QED BY <1>2, <1>3, <2>1 DEF LocalOk, CellOk, Live
<1>15. ToldOk'
    <2> SUFFICES ASSUME NEW d \in Clients, told'[d] # None
                 PROVE  /\ told'[d].store = "redis" /\ d \in DOMAIN remote' =>
                              /\ remote'[d].left <= told'[d].left + 1
                              /\ told'[d].again => remote'[d].left <= told'[d].left
                        /\ told'[d].store = "table" /\ d \in DOMAIN local' =>
                              local'[d].left <= told'[d].left
        BY DEF ToldOk
    <2>1. CASE d = c
        <3>1. /\ told'[c].store = "redis" /\ told'[c].left = wait
              /\ told'[c].again = Waited(c, "redis")
            BY <1>8, <2>1
        <3>2. ASSUME Waited(c, "redis") PROVE Remote(c).left <= wait
            <4>1. c \in DOMAIN remote
                BY <1>1, <1>4, <1>6, <1>7, <1>8, <2>1
            <4>. QED BY <1>2, <1>6, <1>7, <1>17, <3>2, <4>1, WaitedOut
        <3>. QED BY <1>10, <1>17, <2>1, <3>1, <3>2
    <2>2. CASE d # c
        BY <1>2, <1>3, <1>8, <1>10, <2>2 DEF ToldOk
    <2>. QED BY <2>1, <2>2
<1>16. RefusedForCause'
    <2> SUFFICES ASSUME cause = "spent"
                 PROVE  SumOf(counted'[c]["redis"]) > Limit /\ ~WaitedAgain(c, "redis")
        BY <1>4, <1>8 DEF RefusedForCause
    <2>1. Remote(c).count > Limit
        BY <1>1, <1>4, <1>7
    <2>2. counted'[c]["redis"] = Plus(counted[c]["redis"])
        BY <1>9 DEF Stores
    <2>3. SumOf(Plus(counted[c]["redis"])) \in Nat
        <3>1. counted'[c]["redis"] \in Logs
            BY <1>9, TalliesAreHistory DEF History, Stores
        <3>. QED BY <1>1, <2>2, <3>1, SumsBounded DEF SumOf
    <2>4. ~WaitedAgain(c, "redis")
        BY <1>2, <1>6, <1>7, <2>1, WaitedOut
    <2>. QED BY <1>1, <1>6, <1>7, <2>1, <2>2, <2>3, <2>4
<1>. QED BY <1>12, <1>13, <1>14, <1>15, <1>16 DEF IInv

(* What the attempt counts in Redis while only the answer is lost, if it     *)
(* does: the table decides, so that Redis lets nothing through.              *)
Noted(c, heard) == IF heard THEN Now(counted, c, "redis") ELSE counted

LEMMA HeardStep ==
    ASSUME Types, RemoteOk, NEW c \in Clients, NEW heard \in BOOLEAN, Tries(c) < MaxTries,
           remote' = IF heard THEN Put(c, Remote(c), remote) ELSE remote
    PROVE  /\ Noted(c, heard) \in Tallies
           /\ \A d \in Clients : Noted(c, heard)[d]["table"] = counted[d]["table"]
           /\ DOMAIN remote' \subseteq Clients /\ remote' \in [DOMAIN remote' -> Windows]
           /\ \A d \in Clients : d # c =>
                  /\ d \in DOMAIN remote' <=> d \in DOMAIN remote
                  /\ d \in DOMAIN remote => remote'[d] = remote[d]
           /\ \A d \in Clients :
                  CellOk(d \in DOMAIN remote', remote'[d],
                         Noted(c, heard)[d]["redis"], passed[d]["redis"])
<1>1. counted \in Tallies /\ counted \in History /\ "redis" \in Stores
    BY TalliesAreHistory DEF Types, Stores
<1>2. CASE ~heard
    BY <1>1, <1>2 DEF Noted, Types, RemoteOk
<1>3. CASE heard
    <2>1. /\ Remote(c) \in Windows /\ counted[c]["redis"][1] < MaxTries
          /\ CellOk(TRUE, Remote(c), Plus(counted[c]["redis"]), passed[c]["redis"])
        BY RemoteCounts
    <2>2. /\ Noted(c, heard) = Now(counted, c, "redis")
          /\ remote' = Put(c, Remote(c), remote)
        BY <1>3 DEF Noted
    <2>3. /\ Noted(c, heard) \in Tallies
          /\ \A d \in Clients, t \in Stores :
                Noted(c, heard)[d][t] = IF d = c /\ t = "redis" THEN Plus(counted[d][t])
                                        ELSE counted[d][t]
        BY <1>1, <2>1, <2>2, NowIs, NowTally
    <2>4. remote \in [DOMAIN remote -> Windows] /\ DOMAIN remote \subseteq Clients
        BY DEF Types
    <2>5. /\ DOMAIN remote' = DOMAIN remote \cup {c} /\ remote' \in [DOMAIN remote' -> Windows]
          /\ remote'[c] = Remote(c) /\ \A d \in DOMAIN remote : d # c => remote'[d] = remote[d]
        <3>1. /\ DOMAIN Put(c, Remote(c), remote) = DOMAIN remote \cup {c}
              /\ Put(c, Remote(c), remote) \in [DOMAIN remote \cup {c} -> Windows]
              /\ Put(c, Remote(c), remote)[c] = Remote(c)
              /\ \A d \in DOMAIN remote : d # c => Put(c, Remote(c), remote)[d] = remote[d]
            BY <2>1, <2>4 DEF Put
        <3>. QED BY <2>2, <3>1
    <2>6. ASSUME NEW d \in Clients
          PROVE  CellOk(d \in DOMAIN remote', remote'[d],
                        Noted(c, heard)[d]["redis"], passed[d]["redis"])
        <3>1. CASE d = c
            BY <2>1, <2>3, <2>5, <3>1 DEF CellOk, Stores
        <3>2. CASE d # c
            <4>1. /\ Noted(c, heard)[d]["redis"] = counted[d]["redis"]
                  /\ d \in DOMAIN remote' <=> d \in DOMAIN remote
                  /\ d \in DOMAIN remote => remote'[d] = remote[d]
                BY <2>3, <2>5, <3>2 DEF Stores
            <4>. QED BY <4>1 DEF RemoteOk, CellOk
        <3>. QED BY <3>1, <3>2
    <2>7. \A d \in Clients : Noted(c, heard)[d]["table"] = counted[d]["table"]
        BY <2>3 DEF Stores
    <2>. QED BY <2>3, <2>4, <2>5, <2>6, <2>7
<1>. QED BY <1>2, <1>3

(* The table keeps the windows that run, and a client it refuses for want of *)
(* a place finds it full of them.                                            *)
LEMMA KeptIs ==
    ASSUME Types, NEW c \in Clients
    PROVE  /\ Live \subseteq Kept(c) /\ Kept(c) \subseteq DOMAIN local
           /\ c \in DOMAIN local => Kept(c) = DOMAIN local
           /\ IsFiniteSet(Kept(c)) /\ Cardinality(Kept(c)) <= Capacity
           /\ Full(c) => c \notin DOMAIN local /\ Kept(c) = Live /\ Cardinality(Live) >= Capacity
           /\ ~Full(c) => /\ IsFiniteSet(Kept(c) \cup {c})
                          /\ Cardinality(Kept(c) \cup {c}) <= Capacity
<1>1. Capacity \in Nat
    BY LimiterAssumption
<1>2. Live \subseteq DOMAIN local /\ IsFiniteSet(DOMAIN local) /\ Cardinality(DOMAIN local) <= Capacity
    BY DEF Types, Live
<1>3. /\ Live \subseteq Kept(c) /\ Kept(c) \subseteq DOMAIN local
      /\ c \in DOMAIN local => Kept(c) = DOMAIN local
    BY <1>2 DEF Kept
<1>4. /\ IsFiniteSet(Kept(c)) /\ Cardinality(Kept(c)) <= Cardinality(DOMAIN local)
      /\ Cardinality(Kept(c)) \in Nat /\ Cardinality(DOMAIN local) \in Nat
    BY <1>2, <1>3, FS_Subset, FS_CardinalityType
<1>5. Cardinality(Kept(c)) <= Capacity
    BY <1>1, <1>2, <1>4
<1>6. Full(c) => c \notin DOMAIN local /\ Kept(c) = Live /\ Cardinality(Live) >= Capacity
    BY <1>1, <1>4 DEF Full, Kept
<1>7. ASSUME ~Full(c)
      PROVE  IsFiniteSet(Kept(c) \cup {c}) /\ Cardinality(Kept(c) \cup {c}) <= Capacity
    <2>1. CASE c \in Kept(c)
        <3>1. Kept(c) \cup {c} = Kept(c)
            BY <2>1
        <3>. QED BY <1>4, <1>5, <3>1
    <2>2. CASE c \notin Kept(c)
        <3>1. Cardinality(Kept(c)) < Capacity
            BY <1>1, <1>3, <1>4, <1>7, <2>2 DEF Full
        <3>2. /\ IsFiniteSet(Kept(c) \cup {c})
              /\ Cardinality(Kept(c) \cup {c}) = Cardinality(Kept(c)) + 1
            BY <1>4, <2>2, FS_AddElement
        <3>. QED BY <1>1, <1>4, <3>1, <3>2
    <2>. QED BY <2>1, <2>2
<1>. QED BY <1>3, <1>4, <1>5, <1>6, <1>7

LEMMA TableStep ==
    ASSUME IInv, NEW c \in Clients, NEW heard \in BOOLEAN, AskTable(c, heard)
    PROVE  IInv'
<1>1. Window \in Nat \ {0} /\ MaxTries \in Nat \ {0} /\ Limit \in Nat \ {0}
    BY LimiterAssumption
<1>2. Types /\ RemoteOk /\ LocalOk /\ ToldOk
    BY DEF IInv
<1>3. /\ Tries(c) < MaxTries /\ redis' = redis
      /\ remote' = IF heard THEN Put(c, Remote(c), remote) ELSE remote
    BY DEF AskTable
<1> DEFINE noted == Noted(c, heard)
<1>4. /\ noted \in Tallies
      /\ \A d \in Clients : noted[d]["table"] = counted[d]["table"]
      /\ DOMAIN remote' \subseteq Clients /\ remote' \in [DOMAIN remote' -> Windows]
      /\ \A d \in Clients : d # c =>
            /\ d \in DOMAIN remote' <=> d \in DOMAIN remote
            /\ d \in DOMAIN remote => remote'[d] = remote[d]
      /\ \A d \in Clients :
            CellOk(d \in DOMAIN remote', remote'[d], noted[d]["redis"], passed[d]["redis"])
    BY <1>2, <1>3, HeardStep
<1>5. /\ Live \subseteq Kept(c) /\ Kept(c) \subseteq DOMAIN local /\ DOMAIN local \subseteq Clients
      /\ c \in DOMAIN local => Kept(c) = DOMAIN local
      /\ IsFiniteSet(Kept(c)) /\ Cardinality(Kept(c)) <= Capacity
    BY <1>2, KeptIs DEF Types
<1>6. \A d \in DOMAIN local : local[d] \in Windows
    BY <1>2 DEF Types
<1>7. CASE Full(c)
    <2>1. /\ local' = [k \in Kept(c) |-> local[k]] /\ counted' = noted
          /\ Judge(c, "table", "full", Window)
        BY <1>7 DEF AskTable, Noted
    <2>2. /\ c \notin DOMAIN local /\ Kept(c) = Live /\ Cardinality(Live) >= Capacity
        BY <1>2, <1>7, KeptIs
    <2>3. /\ passed' \in History
          /\ \A d \in Clients, t \in Stores : ~(d = c /\ t = "table") => passed'[d][t] = passed[d][t]
          /\ passed'[c]["table"] = passed[c]["table"]
          /\ told' \in [Clients -> Tellings \cup {None}]
          /\ \A d \in Clients : d # c => told'[d] = told[d]
          /\ told'[c] = None
          /\ verdict'.client = c /\ verdict'.store = "table" /\ verdict'.cause = "full"
        <3>1. Window \in 0..(Window + 1) /\ "table" \in Stores
            BY <1>1 DEF Stores
        <3>. QED BY <1>2, <2>1, <3>1, JudgeIs
    <2>4. \A d \in Clients, t \in Stores : passed'[d][t] = passed[d][t]
        BY <2>3
    <2>5. Live' = Live /\ \A d \in Live : local'[d] = local[d]
        BY <2>1, <2>2 DEF Live
    <2>6. Types'
        <3>1. local' \in [DOMAIN local' -> Windows] /\ DOMAIN local' = Kept(c)
            BY <1>5, <1>6, <2>1
        <3>2. verdict'.cause \in {"none", "spent", "full"}
            BY <2>3
        <3>. QED BY <1>2, <1>3, <1>4, <1>5, <2>1, <2>3, <3>1, <3>2 DEF Types
    <2>7. RemoteOk'
        BY <1>4, <2>1, <2>4 DEF RemoteOk, CellOk, Stores
    <2>8. LocalOk'
        BY <1>2, <1>4, <2>1, <2>4, <2>5 DEF LocalOk, CellOk, Stores
    <2>9. ToldOk'
        <3> SUFFICES ASSUME NEW d \in Clients, told'[d] # None
                     PROVE  /\ told'[d].store = "redis" /\ d \in DOMAIN remote' =>
                                  /\ remote'[d].left <= told'[d].left + 1
                                  /\ told'[d].again => remote'[d].left <= told'[d].left
                            /\ told'[d].store = "table" /\ d \in DOMAIN local' =>
                                  local'[d].left <= told'[d].left
            BY DEF ToldOk
        <3>1. DOMAIN local' \subseteq DOMAIN local /\ \A k \in DOMAIN local' : local'[k] = local[k]
            BY <1>5, <2>1
        <3>2. CASE d = c
            BY <2>3, <3>2
        <3>3. CASE d # c
            BY <1>2, <1>4, <2>3, <3>1, <3>3 DEF ToldOk
        <3>. QED BY <3>2, <3>3
    <2>10. RefusedForCause'
        <3>1. Live' \ {c} = Live
            BY <2>2, <2>5 DEF Live
        <3>. QED BY <2>2, <2>3, <3>1 DEF RefusedForCause
    <2>. QED BY <2>6, <2>7, <2>8, <2>9, <2>10 DEF IInv
<1>8. CASE ~Full(c)
    <2> DEFINE cause == Cause(Local(c))
    <2>1. /\ local' = Put(c, Local(c), [k \in Kept(c) |-> local[k]])
          /\ counted' = Now(noted, c, "table")
          /\ Judge(c, "table", cause, Local(c).left)
        BY <1>8 DEF AskTable, Noted
    <2>2. cause \in {"none", "spent"} /\ (cause = "none" <=> Local(c).count <= Limit)
        BY DEF Cause
    <2>3. /\ Local(c) \in Windows /\ Local(c).left > 0
          /\ Local(c).count <= SumOf(Plus(counted[c]["table"]))
          /\ Local(c).count > Limit => c \in Live
          /\ c \in Live => Local(c).left = local[c].left
          /\ counted[c]["table"][1] < MaxTries
        BY <1>2, <1>3, LocalCounts
    <2>4. Local(c).count \in Nat /\ Local(c).left \in 0..Window
        BY <1>1, <2>3 DEF Windows
    <2>5. /\ passed' \in History
          /\ \A d \in Clients, t \in Stores : ~(d = c /\ t = "table") => passed'[d][t] = passed[d][t]
          /\ \/ passed'[c]["table"] = passed[c]["table"]
             \/ passed'[c]["table"] = Plus(passed[c]["table"]) /\ cause = "none"
          /\ told' \in [Clients -> Tellings \cup {None}]
          /\ \A d \in Clients : d # c => told'[d] = told[d]
          /\ told'[c] # None =>
                told'[c] = [store |-> "table", left |-> Local(c).left, again |-> Waited(c, "table")]
          /\ verdict'.client = c /\ verdict'.store = "table" /\ verdict'.cause = cause
          /\ verdict'.waited = Waited(c, "table")
        <3> HIDE DEF cause
        <3>1. cause \in {"none", "spent", "full"} /\ "table" \in Stores
            BY <2>2 DEF Stores
        <3>2. Local(c).left \in 0..(Window + 1)
            BY <1>1, <2>4
        <3>. QED BY <1>2, <2>1, <3>1, <3>2, JudgeIs
    <2>6. CellOk(TRUE, Local(c), Plus(counted[c]["table"]), passed'[c]["table"])
        BY <1>2, <1>3, <2>2, <2>5, LocalCounts
    <2> HIDE DEF cause
    <2>7. /\ counted' \in Tallies
          /\ \A d \in Clients, t \in Stores :
                counted'[d][t] = IF d = c /\ t = "table" THEN Plus(noted[d][t]) ELSE noted[d][t]
        <3>1. noted \in History /\ "table" \in Stores /\ noted[c]["table"][1] < MaxTries
            BY <1>4, <2>3, TalliesAreHistory DEF Stores
        <3> HIDE DEF noted
        <3>. QED BY <1>4, <2>1, <3>1, NowIs, NowTally
    <2>8. counted'[c]["table"] = Plus(counted[c]["table"])
        BY <1>4, <2>7 DEF Stores
    <2>9. \A d \in Clients : /\ counted'[d]["redis"] = noted[d]["redis"]
                             /\ passed'[d]["redis"] = passed[d]["redis"]
                             /\ d # c => /\ counted'[d]["table"] = counted[d]["table"]
                                         /\ passed'[d]["table"] = passed[d]["table"]
        BY <1>4, <2>5, <2>7 DEF Stores
    <2>10. /\ DOMAIN local' = Kept(c) \cup {c} /\ local' \in [DOMAIN local' -> Windows]
           /\ local'[c] = Local(c)
           /\ \A d \in DOMAIN local' : d # c => local'[d] = local[d]
        BY <1>5, <1>6, <2>1, <2>3 DEF Put
    <2>11. /\ c \in Live'
           /\ \A d \in Clients : d # c => (d \in Live' <=> d \in Live)
        BY <1>5, <2>3, <2>10 DEF Live
    <2>12. Types'
        <3>1. IsFiniteSet(DOMAIN local') /\ Cardinality(DOMAIN local') <= Capacity
            BY <1>2, <1>8, <2>10, KeptIs
        <3>2. verdict'.cause \in {"none", "spent", "full"}
            BY <2>2, <2>5
        <3>. QED BY <1>2, <1>3, <1>4, <1>5, <2>5, <2>7, <2>10, <3>1, <3>2 DEF Types
    <2>13. RemoteOk'
        BY <1>4, <2>9 DEF RemoteOk, CellOk
    <2>14. LocalOk'
        <3> SUFFICES ASSUME NEW d \in Clients
                     PROVE  CellOk(d \in Live, local[d], counted[d]["table"], passed[d]["table"])'
            BY DEF LocalOk
        <3>1. CASE d = c
            BY <2>6, <2>8, <2>10, <2>11, <3>1 DEF CellOk
        <3>2. CASE d # c
            <4>1. d \in Live => local'[d] = local[d]
                BY <1>5, <2>10, <3>2
            <4>. QED BY <1>2, <2>9, <2>11, <3>2, <4>1 DEF LocalOk, CellOk
        <3>. QED BY <3>1, <3>2
    <2>15. ToldOk'
        <3> SUFFICES ASSUME NEW d \in Clients, told'[d] # None
                     PROVE  /\ told'[d].store = "redis" /\ d \in DOMAIN remote' =>
                                  /\ remote'[d].left <= told'[d].left + 1
                                  /\ told'[d].again => remote'[d].left <= told'[d].left
                            /\ told'[d].store = "table" /\ d \in DOMAIN local' =>
                                  local'[d].left <= told'[d].left
            BY DEF ToldOk
        <3>1. CASE d = c
            BY <2>4, <2>5, <2>10, <3>1
        <3>2. CASE d # c
            <4>1. d \in DOMAIN local' => d \in DOMAIN local /\ local'[d] = local[d]
                BY <1>5, <2>10, <3>2
            <4>. QED BY <1>2, <1>4, <2>5, <3>2, <4>1 DEF ToldOk
        <3>. QED BY <3>1, <3>2
    <2>16. RefusedForCause'
        <3> SUFFICES ASSUME cause = "spent"
                     PROVE  SumOf(counted'[c]["table"]) > Limit /\ ~Waited(c, "table")
            BY <2>2, <2>5 DEF RefusedForCause
        <3>1. Local(c).count > Limit
            BY <1>1, <2>2, <2>4
        <3>2. SumOf(Plus(counted[c]["table"])) \in Nat
            <4>1. counted'[c]["table"] \in Logs
                BY <2>7, TalliesAreHistory DEF History, Stores
            <4>. QED BY <1>1, <2>8, <4>1, SumsBounded DEF SumOf
        <3>3. ~Waited(c, "table")
            BY <1>2, <2>3, <2>4, <3>1, WaitedOut DEF Live
        <3>. QED BY <1>1, <2>3, <2>4, <2>8, <3>1, <3>2, <3>3
    <2>. QED BY <2>12, <2>13, <2>14, <2>15, <2>16 DEF IInv
<1>. QED BY <1>7, <1>8

LEMMA TickStep ==
    ASSUME IInv, Tick
    PROVE  IInv'
<1>1. Window \in Nat \ {0} /\ MaxTries \in Nat \ {0} /\ Limit \in Nat \ {0}
    BY LimiterAssumption
<1>2. Types /\ RemoteOk /\ LocalOk /\ ToldOk
    BY DEF IInv
<1>3. \A w \in Windows : /\ Elapsed(w) \in Windows
                         /\ Elapsed(w).left = IF w.left = 0 THEN 0 ELSE w.left - 1
    BY <1>1 DEF Windows, Elapsed
<1>4. /\ \A c \in DOMAIN remote : remote[c] \in Windows
      /\ \A c \in DOMAIN local : local[c] \in Windows
      /\ \A w \in Windows : w.left \in Nat /\ w \in [count : Nat, left : 0..Window]
    BY <1>1, <1>2 DEF Types, Windows
<1>5. \A c \in Clients, s \in Stores : /\ counted'[c][s] = Later(counted[c][s])
                                      /\ passed'[c][s] = Later(passed[c][s])
    BY DEF Tick, Shifted, Later
<1>6. /\ DOMAIN remote' = {k \in DOMAIN remote : remote[k].left > 1}
      /\ \A c \in DOMAIN remote' : remote'[c] = Elapsed(remote[c])
      /\ DOMAIN local' = DOMAIN local
      /\ \A c \in DOMAIN local : local'[c] = Elapsed(local[c])
    BY DEF Tick
<1>7. Live' = {c \in Live : local[c].left > 1}
    BY <1>3, <1>4, <1>6 DEF Live
<1>8. Types'
    <2>1. /\ remote' \in [DOMAIN remote' -> Windows] /\ local' \in [DOMAIN local' -> Windows]
          /\ DOMAIN remote' \subseteq Clients
        BY <1>2, <1>3, <1>4, <1>6 DEF Types, Tick
    <2>2. /\ counted' = [c \in Clients |-> [s \in Stores |-> Later(counted[c][s])]]
          /\ passed' = [c \in Clients |-> [s \in Stores |-> Later(passed[c][s])]]
        BY DEF Tick, Shifted, Later
    <2>3. ASSUME NEW c \in Clients, NEW s \in Stores
          PROVE  /\ Later(counted[c][s]) \in [1..Window -> 0..MaxTries]
                 /\ Later(passed[c][s]) \in Logs
        <3>1. /\ counted[c][s] \in [1..Window -> 0..MaxTries] /\ passed[c][s] \in Logs
            BY <1>2, LogTypes
        <3>. QED BY <1>1, <3>1 DEF Later, Logs
    <2>4. counted' \in Tallies /\ passed' \in History
        BY <2>2, <2>3 DEF Tallies, History
    <2>5. told' \in [Clients -> Tellings \cup {None}]
        <3>1. \A t \in Tellings : Elapsed(t) \in Tellings
            BY <1>1 DEF Elapsed, Tellings
        <3>. QED BY <1>2, <3>1 DEF Types, Tick
    <2>. QED BY <1>2, <1>6, <2>1, <2>4, <2>5 DEF Types, Tick
<1>9. RemoteOk'
    <2> SUFFICES ASSUME NEW c \in Clients
                 PROVE  CellOk(c \in DOMAIN remote, remote[c],
                               counted[c]["redis"], passed[c]["redis"])'
        BY DEF RemoteOk
    <2> DEFINE on == c \in DOMAIN remote
               w == remote[c]
               in == counted[c]["redis"]
               out == passed[c]["redis"]
    <2>1. /\ on \in BOOLEAN /\ CellOk(on, w, in, out) /\ in \in Logs /\ out \in Logs
          /\ on => w \in [count : Nat, left : 0..Window]
        BY <1>2, <1>4, LogTypes DEF RemoteOk, Stores
    <2>2. /\ on /\ w.left > 1 => CellOk(TRUE, Elapsed(w), Later(in), Later(out))
          /\ ~(on /\ w.left > 1) => CellOk(FALSE, Elapsed(w), Later(in), Later(out))
        <3> HIDE DEF on, w, in, out
        <3>. QED BY <2>1, CellTicks
    <2>. QED BY <1>5, <1>6, <2>2 DEF CellOk, Stores
<1>10. LocalOk'
    <2> SUFFICES ASSUME NEW c \in Clients
                 PROVE  CellOk(c \in Live, local[c], counted[c]["table"], passed[c]["table"])'
        BY DEF LocalOk
    <2> DEFINE on == c \in Live
               w == local[c]
               in == counted[c]["table"]
               out == passed[c]["table"]
    <2>1. /\ on \in BOOLEAN /\ CellOk(on, w, in, out) /\ in \in Logs /\ out \in Logs
          /\ on => w \in [count : Nat, left : 0..Window]
        BY <1>2, <1>4, LogTypes DEF LocalOk, Stores, Live
    <2>2. /\ on /\ w.left > 1 => CellOk(TRUE, Elapsed(w), Later(in), Later(out))
          /\ ~(on /\ w.left > 1) => CellOk(FALSE, Elapsed(w), Later(in), Later(out))
        <3> HIDE DEF on, w, in, out
        <3>. QED BY <2>1, CellTicks
    <2>3. on => local'[c] = Elapsed(w)
        BY <1>6 DEF Live
    <2>. QED BY <1>5, <1>7, <2>2, <2>3 DEF CellOk, Stores
<1>11. ToldOk'
    <2> SUFFICES ASSUME NEW c \in Clients, told'[c] # None
                 PROVE  /\ told'[c].store = "redis" /\ c \in DOMAIN remote' =>
                              /\ remote'[c].left <= told'[c].left + 1
                              /\ told'[c].again => remote'[c].left <= told'[c].left
                        /\ told'[c].store = "table" /\ c \in DOMAIN local' =>
                              local'[c].left <= told'[c].left
        BY DEF ToldOk
    <2>1. told[c] # None /\ told'[c] = Elapsed(told[c])
        BY DEF Tick
    <2>2. told[c] \in Tellings
        BY <1>2, <2>1 DEF Types
    <2>3. /\ told'[c].store = told[c].store /\ told[c].left \in Nat
          /\ told'[c].again = told[c].again
          /\ told'[c].left = IF told[c].left = 0 THEN 0 ELSE told[c].left - 1
        BY <1>1, <2>1, <2>2 DEF Elapsed, Tellings
    <2>4. ASSUME told'[c].store = "redis", c \in DOMAIN remote'
          PROVE  /\ remote'[c].left <= told'[c].left + 1
                 /\ told'[c].again => remote'[c].left <= told'[c].left
        <3>1. /\ remote[c].left <= told[c].left + 1 /\ remote[c].left \in Nat
              /\ told'[c].again => remote[c].left <= told[c].left
            BY <1>2, <1>4, <1>6, <2>1, <2>3, <2>4 DEF ToldOk
        <3>2. remote'[c].left = remote[c].left - 1 /\ remote[c].left > 1
            BY <1>3, <1>4, <1>6, <2>4
        <3>. QED BY <2>3, <3>1, <3>2
    <2>5. ASSUME told'[c].store = "table", c \in DOMAIN local'
          PROVE  local'[c].left <= told'[c].left
        <3>1. local[c].left <= told[c].left /\ local[c].left \in Nat
            BY <1>2, <1>4, <1>6, <2>1, <2>3, <2>5 DEF ToldOk
        <3>2. local'[c].left = IF local[c].left = 0 THEN 0 ELSE local[c].left - 1
            BY <1>3, <1>4, <1>6, <2>5
        <3>. QED BY <2>3, <3>1, <3>2
    <2>. QED BY <2>4, <2>5
<1>12. RefusedForCause'
    BY DEF Tick, RefusedForCause
<1>. QED BY <1>8, <1>9, <1>10, <1>11, <1>12 DEF IInv

LEMMA NextIInv == IInv /\ [Next]_vars => IInv'
<1> SUFFICES ASSUME IInv, [Next]_vars PROVE IInv'
    OBVIOUS
<1>1. ASSUME NEW c \in Clients, Check(c) PROVE IInv'
    <2>1. CASE AskRedis(c)
        BY <2>1, RedisStep
    <2>2. ASSUME NEW heard \in BOOLEAN, AskTable(c, heard) PROVE IInv'
        BY <2>2, TableStep
    <2>. QED BY <1>1, <2>1, <2>2 DEF Check
<1>2. CASE Tick
    BY <1>2, TickStep
<1>3. CASE Outage
    BY <1>3 DEF Outage, IInv, Types, RemoteOk, LocalOk, ToldOk, RefusedForCause, Live
<1>4. CASE UNCHANGED vars
    BY <1>4 DEF vars, IInv, Types, RemoteOk, LocalOk, ToldOk, RefusedForCause, Live
<1>. QED BY <1>1, <1>2, <1>3, <1>4 DEF Next

-----------------------------------------------------------------------------
(* The theorems                                                              *)

(* IInv is an invariant: the sums of the logs of a client are what its       *)
(* windows say, for every limit, window and number of clients.               *)
THEOREM Invariance == Spec => []IInv
<1>. QED BY InitIInv, NextIInv, PTL DEF Spec

(* Every state has its type, counts stay within the bound of the attempts,   *)
(* and the table of the process never outgrows its capacity.                 *)
THEOREM TypeCorrect == Spec => []TypeOK
<1>1. IInv => TypeOK
    <2> SUFFICES ASSUME IInv PROVE TypeOK
        OBVIOUS
    <2>1. \A w \in Windows : WindowOk(w)
        BY DEF Windows, WindowOk
    <2>. QED BY <2>1 DEF IInv, Types, TypeOK
<1>. QED BY <1>1, Invariance, PTL

(* Each store lets a client through at most twice the limit in any Window    *)
(* instants, wherever its windows began.                                     *)
THEOREM SpanBudgetHolds == Spec => []SpanBudget
<1>1. IInv => SpanBudget
    <2> SUFFICES ASSUME IInv, NEW c \in Clients, NEW s \in Stores
                 PROVE  Sums(passed[c][s])[Window] <= 2 * Limit
        BY DEF SpanBudget, SumOf
    <2>1. Types /\ RemoteOk /\ LocalOk
        BY DEF IInv
    <2>2. counted[c][s] \in Logs /\ passed[c][s] \in Logs
        BY <2>1, LogTypes
    <2>3. CASE s = "redis"
        <3> DEFINE on == c \in DOMAIN remote
        <3>1. on \in BOOLEAN /\ CellOk(on, remote[c], counted[c][s], passed[c][s])
            BY <2>1, <2>3 DEF RemoteOk
        <3> HIDE DEF on
        <3>. QED BY <2>2, <3>1, CellBudget
    <2>4. CASE s = "table"
        <3> DEFINE on == c \in Live
        <3>1. on \in BOOLEAN /\ CellOk(on, local[c], counted[c][s], passed[c][s])
            BY <2>1, <2>4 DEF LocalOk
        <3> HIDE DEF on
        <3>. QED BY <2>2, <3>1, CellBudget
    <2>. QED BY <2>3, <2>4 DEF Stores
<1>. QED BY <1>1, Invariance, PTL

(* Who is refused has used the limit up in the span that ends now, or finds  *)
(* the table full of windows that run.  Who waited as the table told it is   *)
(* refused for the second cause only, and who waited as Redis told it finds  *)
(* its window running at most once in a row, whatever Redis's rounding.      *)
THEOREM RefusedForCauseHolds == Spec => []RefusedForCause
<1>1. IInv => RefusedForCause
    BY DEF IInv
<1>. QED BY <1>1, Invariance, PTL
=============================================================================
