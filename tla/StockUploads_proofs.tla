-------------------------- MODULE StockUploads_proofs --------------------------
(***************************************************************************)
(* Proofs about StockUploads, for any number of requests, rows, assets and *)
(* contents, and for all limits.                                           *)
(***************************************************************************)
EXTENDS StockUploads, FiniteSetTheorems, FunctionTheorems, TLAPS

(* Where an upload has the owner's lock.                                     *)
Counting == {"purge", "usage", "asset", "insert"}

HiddenBy(r) == IF r.pc = "idle" THEN {} ELSE r.hidden

RoomOfOwner(rows, key) ==
    /\ Cardinality(rows) < MaxPerUser
    /\ Cardinality(CandlesOf(rows)) + Candles[key[2]] <= MaxRowsPerUser

RoomOfAsset(hidden, asset) == Cardinality(Of(asset) \ hidden) < MaxPerAsset

(* What a transaction relies on: the rows it deleted stay, the room it       *)
(* counted does not shrink, and the row it deletes is not there afterwards.  *)
Kept(r) ==
    /\ HiddenBy(r) \subseteq Stored
    /\ r.pc \in {"lock", "purge", "delete"} => r.hidden = {}
    /\ r.pc = "asset" /\ r.fits => RoomOfOwner(Stored \ r.hidden, r.key)
    /\ r.pc = "insert" =>
          RoomOfOwner(Stored \ r.hidden, r.key) /\ RoomOfAsset(r.hidden, r.key[1])
    /\ r.pc \in {"delete", "record"} => upload[r.target].state # "none"
    /\ r.pc = "record" => r.target \notin Stored \ r.hidden

AllKept == \A t \in Clients : Kept(txn[t])

RecordedAreGone == \A u \in recorded : upload[u].state = "gone"

IInv == AllKept /\ RecordedAreGone /\ LimitsHold /\ StoredOnce

-----------------------------------------------------------------------------
(* The candles of finitely many rows are finitely many.                      *)
LEMMA FiniteCandles ==
    ASSUME NEW rows, IsFiniteSet(rows), NEW n \in [rows -> Nat]
    PROVE  IsFiniteSet(UNION {{u} \X (1..n[u]) : u \in rows})
<1> DEFINE f == [u \in rows |-> {u} \X (1..n[u])]
           image == {{u} \X (1..n[u]) : u \in rows}
<1>1. f \in Surjection(rows, image)
  BY Fun_IsSurj
<1>2. IsFiniteSet(image)
  BY <1>1, FS_Surjection
<1>3. ASSUME NEW T \in image PROVE IsFiniteSet(T)
  <2>1. PICK u \in rows : T = {u} \X (1..n[u])
    OBVIOUS
  <2>2. IsFiniteSet({u})
    BY FS_Singleton
  <2>3. 1 \in Int /\ n[u] \in Int
    OBVIOUS
  <2>4. IsFiniteSet(1..n[u])
    BY <2>3, FS_Interval
  <2> QED
    BY <2>1, <2>2, <2>4, FS_Product
<1> QED
  BY <1>2, <1>3, FS_UNION

(* The rows of a table, and their candles, can be counted; of fewer rows     *)
(* there are no more.                                                        *)
LEMMA Counts ==
    ASSUME UploadAssumption, NEW table \in [Uploads -> Row], NEW more, NEW less,
           more \subseteq {u \in Uploads : table[u].state = "stored"},
           less \subseteq more
    PROVE  LET candles(rows) == UNION {{u} \X (1..Candles[table[u].key[2]]) : u \in rows}
           IN  /\ IsFiniteSet(more)
               /\ Cardinality(more) \in Nat /\ Cardinality(less) \in Nat
               /\ Cardinality(less) <= Cardinality(more)
               /\ IsFiniteSet(candles(more))
               /\ Cardinality(candles(more)) \in Nat /\ Cardinality(candles(less)) \in Nat
               /\ Cardinality(candles(less)) <= Cardinality(candles(more))
<1> DEFINE candles(rows) == UNION {{u} \X (1..Candles[table[u].key[2]]) : u \in rows}
           n == [u \in more |-> Candles[table[u].key[2]]]
<1>1. IsFiniteSet(more) /\ IsFiniteSet(less) /\ Cardinality(less) <= Cardinality(more)
  <2>1. IsFiniteSet(more)
    BY FS_Subset DEF UploadAssumption
  <2> QED
    BY <2>1, FS_Subset
<1>2. n \in [more -> Nat]
  <2>1. ASSUME NEW u \in more PROVE Candles[table[u].key[2]] \in Nat
    <3>1. table[u].key[2] \in Contents
      BY DEF Row, Keys
    <3> QED
      BY <3>1 DEF UploadAssumption
  <2> QED
    BY <2>1
<1>3. candles(more) = UNION {{u} \X (1..n[u]) : u \in more}
  <2>1. {{u} \X (1..Candles[table[u].key[2]]) : u \in more} = {{u} \X (1..n[u]) : u \in more}
    OBVIOUS
  <2> QED
    BY <2>1
<1>4. IsFiniteSet(candles(more))
  <2> HIDE DEF n, candles
  <2>1. IsFiniteSet(UNION {{u} \X (1..n[u]) : u \in more})
    BY <1>1, <1>2, FiniteCandles
  <2> QED
    BY <1>3, <2>1
<1>5. candles(less) \subseteq candles(more)
  OBVIOUS
<1> HIDE DEF candles
<1>6. IsFiniteSet(candles(less)) /\ Cardinality(candles(less)) <= Cardinality(candles(more))
  BY <1>4, <1>5, FS_Subset
<1>7. /\ Cardinality(more) \in Nat /\ Cardinality(less) \in Nat
      /\ Cardinality(candles(more)) \in Nat /\ Cardinality(candles(less)) \in Nat
  BY <1>1, <1>4, <1>6, FS_CardinalityType
<1> QED
  BY <1>1, <1>4, <1>6, <1>7 DEF candles

-----------------------------------------------------------------------------
Transactions == {Idle} \cup Uploading \cup Deleting

(* The stage of a transaction tells what it is.                              *)
LEMMA ByStage ==
    ASSUME NEW r \in Transactions
    PROVE  /\ r.pc = "idle" <=> r = Idle
           /\ r.pc \in {"lock", "purge", "usage", "asset", "insert"} <=> r \in Uploading
           /\ r.pc \in {"delete", "record"} <=> r \in Deleting
           /\ HiddenBy(r) \in SUBSET Uploads
           /\ r.pc # "idle" => HiddenBy(r) = r.hidden
<1>1. CASE r = Idle
  BY <1>1 DEF Idle, Uploading, Deleting, HiddenBy
<1>2. CASE r \in Uploading
  BY <1>2 DEF Idle, Uploading, Deleting, HiddenBy
<1>3. CASE r \in Deleting
  BY <1>3 DEF Idle, Uploading, Deleting, HiddenBy
<1> QED
  BY <1>1, <1>2, <1>3 DEF Transactions

(* What one transaction relies on survives a step that inserts no row.       *)
LEMMA KeptWhenFewer ==
    ASSUME UploadAssumption, TypeOK, upload' \in [Uploads -> Row],
           \A u \in Uploads : upload'[u].state # "none" <=> upload[u].state # "none",
           \A u \in Stored' : u \in Stored /\ upload'[u].key = upload[u].key,
           NEW r \in Transactions, Kept(r), HiddenBy(r) \subseteq Stored'
    PROVE  Kept(r)'
<1>1. HiddenBy(r)' = HiddenBy(r)
  BY DEF HiddenBy
<1>2. Stored' \subseteq Stored /\ Stored \subseteq Uploads /\ upload \in [Uploads -> Row]
  BY DEF Stored, TypeOK
<1>3. ASSUME NEW hidden PROVE CandlesOf(Stored \ hidden)' \subseteq CandlesOf(Stored \ hidden)
  BY DEF CandlesOf
<1>4. ASSUME NEW hidden, NEW key, Candles[key[2]] \in Nat, RoomOfOwner(Stored \ hidden, key)
      PROVE  RoomOfOwner(Stored \ hidden, key)'
  <2> DEFINE more == Stored \ hidden
             less == Stored' \ hidden
  <2>1. less \subseteq more
    BY <1>2
  <2>2. /\ IsFiniteSet(CandlesOf(more))
        /\ Cardinality(more) \in Nat /\ Cardinality(less) \in Nat
        /\ Cardinality(less) <= Cardinality(more)
        /\ Cardinality(CandlesOf(more)) \in Nat
    BY <1>2, <2>1, Counts DEF CandlesOf, Stored
  <2>3. /\ Cardinality(CandlesOf(more)') \in Nat
        /\ Cardinality(CandlesOf(more)') <= Cardinality(CandlesOf(more))
    BY <1>3, <2>2, FS_Subset, FS_CardinalityType
  <2>4. MaxPerUser \in Nat /\ MaxRowsPerUser \in Nat
    BY DEF UploadAssumption
  <2> QED
    BY <1>4, <2>2, <2>3, <2>4 DEF RoomOfOwner
<1>5. ASSUME NEW hidden, NEW asset, RoomOfAsset(hidden, asset)
      PROVE  RoomOfAsset(hidden, asset)'
  <2>1. Of(asset)' \ hidden \subseteq Of(asset) \ hidden
    BY <1>2 DEF Of
  <2>2. /\ Cardinality(Of(asset) \ hidden) \in Nat /\ Cardinality(Of(asset)' \ hidden) \in Nat
        /\ Cardinality(Of(asset)' \ hidden) <= Cardinality(Of(asset) \ hidden)
    <3>1. Of(asset) \ hidden \subseteq {u \in Uploads : upload[u].state = "stored"}
      BY DEF Of, Stored
    <3> QED
      BY <1>2, <2>1, <3>1, Counts
  <2>3. MaxPerAsset \in Nat
    BY DEF UploadAssumption
  <2> QED
    BY <1>5, <2>2, <2>3 DEF RoomOfAsset
<1>6. r \in Uploading => Candles[r.key[2]] \in Nat
  BY DEF Uploading, Keys, UploadAssumption
<1>7. r.pc = "record" => r.target \notin (Stored \ r.hidden)'
  BY <1>2 DEF Kept
<1>8. r.pc \in {"delete", "record"} => upload'[r.target].state # "none"
  BY ByStage DEF Kept, Deleting
<1>9. r.pc \in {"asset", "insert"} => Candles[r.key[2]] \in Nat
  BY <1>6, ByStage
<1> QED
  BY <1>1, <1>4, <1>5, <1>7, <1>8, <1>9 DEF Kept

(* The owner's lock goes from one transaction to none, or from none to one.  *)
OwnedAfter(t, r) ==
    /\ owner' \in Clients \cup {NoClient}
    /\ r.pc \in Counting <=> owner' = t
    /\ \A d \in Clients \ {t} : owner' = d <=> owner = d

(* A step that changes only one transaction.                                 *)
LEMMA QuietStep ==
    ASSUME TypeOK, IInv, NEW t \in Clients, NEW r \in Transactions,
           Become(t, r), UNCHANGED <<upload, recorded>>,
           OwnedAfter(t, r), Kept(r),
           \A u \in HiddenBy(r) : Free(t, u)
    PROVE  TypeOK' /\ IInv'
<1>1. txn'[t] = r /\ \A d \in Clients \ {t} : txn'[d] = txn[d]
  BY DEF Become, TypeOK
<1>2. txn' \in [Clients -> Transactions]
  BY DEF Become, TypeOK, Transactions
<1>3. Hidden(t)' = HiddenBy(r) /\ \A d \in Clients \ {t} : Hidden(d)' = Hidden(d)
  BY <1>1 DEF Hidden, HiddenBy
<1>4. \A d, e \in Clients : d # e => Hidden(d)' \cap Hidden(e)' = {}
  <2>1. \A d \in Clients \ {t} : HiddenBy(r) \cap Hidden(d) = {}
    BY DEF Free
  <2> QED
    BY <1>3, <2>1 DEF TypeOK
<1>5. \A d \in Clients : txn'[d].pc \in Counting <=> owner' = d
  <2>1. txn'[t].pc \in Counting <=> owner' = t
    BY <1>1 DEF OwnedAfter
  <2>2. ASSUME NEW d \in Clients \ {t} PROVE txn'[d].pc \in Counting <=> owner' = d
    BY <1>1 DEF OwnedAfter, TypeOK, Counting
  <2> QED
    BY <2>1, <2>2
<1>6. TypeOK'
  BY <1>2, <1>4, <1>5 DEF TypeOK, Transactions, Counting, OwnedAfter
<1>7. ASSUME NEW k \in Transactions, Kept(k) PROVE Kept(k)'
  BY <1>7 DEF Kept, HiddenBy, Stored, RoomOfOwner, CandlesOf, RoomOfAsset, Of
<1>8. ASSUME NEW d \in Clients PROVE Kept(txn[d])'
  <2>1. CASE d = t
    <3>1. txn'[d] = r
      BY <1>1, <2>1
    <3>2. Kept(r)'
      BY <1>7
    <3> QED
      BY <3>1, <3>2 DEF Kept, HiddenBy
  <2>2. CASE d # t
    <3>1. txn'[d] = txn[d] /\ txn[d] \in Transactions
      BY <1>1, <2>2 DEF TypeOK, Transactions
    <3>2. Kept(txn[d])
      BY DEF IInv, AllKept
    <3> DEFINE k == txn[d]
    <3>3. ASSUME NEW x \in Transactions, x = txn[d] PROVE Kept(txn[d])'
      <4>1. Kept(x)'
        BY <1>7, <3>2, <3>3
      <4>2. x = txn'[d]
        BY <3>1, <3>3
      <4> QED
        BY <4>1, <4>2 DEF Kept, HiddenBy
    <3> QED
      BY <3>1, <3>3
  <2> QED
    BY <2>1, <2>2
<1>9. RecordedAreGone' /\ LimitsHold' /\ StoredOnce'
  BY DEF IInv, RecordedAreGone, LimitsHold, StoredOnce, Stored, Of, CandlesOf
<1> QED
  BY <1>6, <1>8, <1>9 DEF IInv, AllKept

(* A transaction that ends without a commit.                                 *)
LEMMA EndStep ==
    ASSUME UploadAssumption, TypeOK, IInv, NEW t \in Clients, End(t),
           UNCHANGED <<upload, recorded>>
    PROVE  TypeOK' /\ IInv'
<1>1. Idle \in Transactions /\ HiddenBy(Idle) = {} /\ Kept(Idle)
  BY DEF Transactions, Idle, HiddenBy, Kept
<1>2. OwnedAfter(t, Idle)
  BY DEF OwnedAfter, End, UploadAssumption, Idle, Counting, TypeOK
<1>3. Become(t, Idle)
  BY DEF End
<1> QED
  BY <1>1, <1>2, <1>3, QuietStep

-----------------------------------------------------------------------------
(* A request that arrives has deleted nothing.                               *)
LEMMA ArriveStep ==
    ASSUME UploadAssumption, TypeOK, IInv, NEW t \in Clients,
           \/ \E key \in Keys : Upload(t, key)
           \/ \E u \in Uploads : Delete(t, u)
    PROVE  TypeOK' /\ IInv'
<1>1. txn[t].pc = "idle" /\ UNCHANGED <<upload, recorded, owner>> /\ owner # t
  BY DEF Upload, Delete, TypeOK
<1>2. ASSUME NEW key \in Keys, Upload(t, key) PROVE TypeOK' /\ IInv'
  <2> DEFINE r == [pc |-> "lock", key |-> key, hidden |-> {}, fits |-> FALSE,
                   expired |-> {u \in Stored : upload[u].old}]
  <2>1. r \in Transactions
    BY DEF Transactions, Uploading, Stored
  <2>2. r.pc = "lock" /\ r.hidden = {}
    OBVIOUS
  <2>3. Become(t, r)
    BY <1>2 DEF Upload
  <2> HIDE DEF r
  <2>4. OwnedAfter(t, r) /\ Kept(r) /\ HiddenBy(r) = {}
    BY <1>1, <2>2 DEF OwnedAfter, Kept, HiddenBy, Counting, TypeOK
  <2> QED
    BY <1>1, <2>1, <2>3, <2>4, QuietStep
<1>3. ASSUME NEW u \in Uploads, Delete(t, u) PROVE TypeOK' /\ IInv'
  <2> DEFINE r == [pc |-> "delete", target |-> u, hidden |-> {}]
  <2>1. r \in Transactions
    BY DEF Transactions, Deleting
  <2>2. r.pc = "delete" /\ r.hidden = {} /\ r.target = u
    OBVIOUS
  <2>3. Become(t, r) /\ u \in Stored
    BY <1>3 DEF Delete
  <2> HIDE DEF r
  <2>4. OwnedAfter(t, r) /\ Kept(r) /\ HiddenBy(r) = {}
    BY <1>1, <2>2, <2>3 DEF OwnedAfter, Kept, HiddenBy, Counting, TypeOK, Stored
  <2> QED
    BY <1>1, <2>1, <2>3, <2>4, QuietStep
<1> QED
  BY <1>2, <1>3

(* An upload locks the owner, whom nobody has, and then purges: it hides only*)
(* rows that nobody else has deleted.                                        *)
LEMMA LockAndPurgeStep ==
    ASSUME UploadAssumption, TypeOK, IInv, NEW t \in Clients, LockOwner(t) \/ Purge(t)
    PROVE  TypeOK' /\ IInv'
<1>1. txn[t] \in Uploading /\ Kept(txn[t]) /\ txn[t].hidden = {}
  <2>1. txn[t] \in Transactions /\ Kept(txn[t]) /\ txn[t].pc \in {"lock", "purge"}
    BY DEF TypeOK, Transactions, IInv, AllKept, LockOwner, Purge
  <2> QED
    BY <2>1, ByStage DEF Kept
<1>2. CASE LockOwner(t)
  <2> DEFINE r == [txn[t] EXCEPT !.pc = "purge"]
  <2>1. r \in Transactions /\ r.pc = "purge" /\ r.hidden = {}
    BY <1>1 DEF Transactions, Uploading
  <2>2. Become(t, r) /\ owner = NoClient /\ owner' = t /\ UNCHANGED <<upload, recorded>>
    BY <1>2 DEF LockOwner
  <2> HIDE DEF r
  <2>3. OwnedAfter(t, r) /\ Kept(r) /\ HiddenBy(r) = {}
    BY <2>1, <2>2 DEF OwnedAfter, Kept, HiddenBy, Counting, UploadAssumption
  <2> QED
    BY <2>1, <2>2, <2>3, QuietStep
<1>3. CASE Purge(t)
  <2> DEFINE r == [txn[t] EXCEPT !.pc = "usage", !.hidden = txn[t].expired \cap Stored]
  <2>1. r \in Transactions /\ r.pc = "usage" /\ r.hidden = txn[t].expired \cap Stored
    BY <1>1 DEF Transactions, Uploading
  <2>2. /\ Become(t, r) /\ UNCHANGED <<upload, recorded, owner>>
        /\ txn[t].pc = "purge" /\ \A u \in txn[t].expired \cap Stored : Free(t, u)
    BY <1>3 DEF Purge
  <2> HIDE DEF r
  <2>3. OwnedAfter(t, r)
    BY <2>1, <2>2 DEF OwnedAfter, Counting, TypeOK
  <2>4. Kept(r) /\ HiddenBy(r) = txn[t].expired \cap Stored
    BY <2>1 DEF Kept, HiddenBy
  <2> QED
    BY <2>1, <2>2, <2>3, <2>4, QuietStep
<1> QED
  BY <1>2, <1>3

(* What is counted is the room there is without the rows it deleted.         *)
LEMMA UsageStep ==
    ASSUME UploadAssumption, TypeOK, IInv, NEW t \in Clients,
           UsageOfOwner(t) \/ UsageOfAsset(t)
    PROVE  TypeOK' /\ IInv'
<1>1. /\ txn[t] \in Uploading /\ txn[t] \in Transactions /\ Kept(txn[t])
      /\ txn[t].pc \in {"usage", "asset"} /\ owner = t
      /\ Hidden(t) = txn[t].hidden /\ UNCHANGED <<upload, recorded, owner>>
  <2>1. txn[t] \in Transactions /\ Kept(txn[t]) /\ txn[t].pc \in {"usage", "asset"}
    BY DEF TypeOK, Transactions, IInv, AllKept, UsageOfOwner, UsageOfAsset
  <2> QED
    BY <2>1, ByStage DEF TypeOK, Hidden, UsageOfOwner, UsageOfAsset
<1>2. \A u \in txn[t].hidden : Free(t, u)
  BY <1>1 DEF TypeOK, Free
<1>3. ASSUME NEW r \in Transactions, Become(t, r), r.pc \in {"asset", "insert"},
             r.hidden = txn[t].hidden, Kept(r)
      PROVE  TypeOK' /\ IInv'
  <2>1. OwnedAfter(t, r) /\ HiddenBy(r) = txn[t].hidden
    BY <1>1, <1>3 DEF OwnedAfter, Counting, HiddenBy, TypeOK
  <2> QED
    BY <1>1, <1>2, <1>3, <2>1, QuietStep
<1>4. txn[t].hidden \subseteq Stored
  BY <1>1 DEF Kept, HiddenBy
<1>5. CASE UsageOfOwner(t)
  <2> DEFINE fits == /\ Cardinality(Stored \ txn[t].hidden) < MaxPerUser
                     /\ Cardinality(CandlesOf(Stored \ txn[t].hidden))
                          + Candles[txn[t].key[2]] <= MaxRowsPerUser
             r == [txn[t] EXCEPT !.pc = "asset", !.fits = fits]
  <2>1. r \in Transactions
    BY <1>1 DEF Transactions, Uploading
  <2>2. r.pc = "asset" /\ r.hidden = txn[t].hidden /\ r.key = txn[t].key /\ r.fits = fits
    BY <1>1 DEF Uploading
  <2>3. Become(t, r)
    BY <1>1, <1>5 DEF UsageOfOwner
  <2> HIDE DEF r
  <2>4. Kept(r)
    BY <1>4, <2>2 DEF Kept, HiddenBy, RoomOfOwner
  <2> QED
    BY <1>3, <2>1, <2>2, <2>3, <2>4
<1>6. CASE UsageOfAsset(t)
  <2> DEFINE r == [txn[t] EXCEPT !.pc = "insert"]
  <2>1. r \in Transactions
    BY <1>1 DEF Transactions, Uploading
  <2>2. r.pc = "insert" /\ r.hidden = txn[t].hidden /\ r.key = txn[t].key
    BY <1>1 DEF Uploading
  <2>3. Become(t, r) /\ Fits(t) /\ txn[t].pc = "asset"
    BY <1>6 DEF UsageOfAsset
  <2> HIDE DEF r
  <2>4. /\ RoomOfOwner(Stored \ r.hidden, r.key)
        /\ RoomOfAsset(r.hidden, r.key[1])
    BY <1>1, <2>2, <2>3 DEF Kept, Fits, RoomOfAsset
  <2>5. Kept(r)
    BY <1>4, <2>2, <2>4 DEF Kept, HiddenBy
  <2> QED
    BY <1>3, <2>1, <2>2, <2>3, <2>5
<1> QED
  BY <1>5, <1>6

(* A deletion has its row or finds it gone.                                  *)
LEMMA DeleteOwnedStep ==
    ASSUME UploadAssumption, TypeOK, IInv, NEW t \in Clients, DeleteOwned(t)
    PROVE  TypeOK' /\ IInv'
<1>1. txn[t] \in Deleting /\ Kept(txn[t]) /\ txn[t].pc = "delete" /\ owner # t
  <2>1. txn[t] \in Transactions /\ Kept(txn[t]) /\ txn[t].pc = "delete"
    BY DEF TypeOK, Transactions, IInv, AllKept, DeleteOwned
  <2> QED
    BY <2>1, ByStage DEF TypeOK
<1> DEFINE r == [txn[t] EXCEPT !.pc = "record", !.hidden = {txn[t].target} \cap Stored]
<1>2. r \in Transactions
  BY <1>1 DEF Transactions, Deleting, Stored
<1>3. /\ r.pc = "record" /\ r.target = txn[t].target
      /\ r.hidden = {txn[t].target} \cap Stored
  BY <1>1 DEF Deleting
<1>4. /\ Become(t, r) /\ Free(t, txn[t].target)
      /\ UNCHANGED <<upload, recorded, owner>>
  BY DEF DeleteOwned
<1> HIDE DEF r
<1>5. Kept(r) /\ HiddenBy(r) = {txn[t].target} \cap Stored
  BY <1>1, <1>3 DEF Kept, HiddenBy
<1>6. OwnedAfter(t, r)
  BY <1>1, <1>3, <1>4 DEF OwnedAfter, Counting, TypeOK
<1> QED
  BY <1>2, <1>4, <1>5, <1>6, QuietStep

-----------------------------------------------------------------------------
(* Fewer rows are within the limits and still differ.                        *)
LEMMA LimitsWhenFewer ==
    ASSUME UploadAssumption, TypeOK, LimitsHold, StoredOnce, upload' \in [Uploads -> Row],
           \A u \in Stored' : u \in Stored /\ upload'[u].key = upload[u].key
    PROVE  LimitsHold' /\ StoredOnce'
<1>1. Stored' \subseteq Stored /\ \A asset : Of(asset)' \subseteq Of(asset)
  BY DEF Of
<1>2. CandlesOf(Stored)' \subseteq CandlesOf(Stored)
  BY DEF CandlesOf
<1>3. upload \in [Uploads -> Row] /\ Stored \subseteq {u \in Uploads : upload[u].state = "stored"}
  BY DEF TypeOK, Stored
<1>4. MaxPerUser \in Nat /\ MaxPerAsset \in Nat /\ MaxRowsPerUser \in Nat
  BY DEF UploadAssumption
<1>5. Cardinality(Stored') <= MaxPerUser
  <2>1. /\ Cardinality(Stored) \in Nat /\ Cardinality(Stored') \in Nat
        /\ Cardinality(Stored') <= Cardinality(Stored)
    BY <1>1, <1>3, Counts
  <2> QED
    BY <1>4, <2>1 DEF LimitsHold
<1>6. ASSUME NEW asset \in Assets PROVE Cardinality(Of(asset)') <= MaxPerAsset
  <2>1. Of(asset) \subseteq {u \in Uploads : upload[u].state = "stored"}
    BY DEF Of, Stored
  <2>2. /\ Cardinality(Of(asset)) \in Nat /\ Cardinality(Of(asset)') \in Nat
        /\ Cardinality(Of(asset)') <= Cardinality(Of(asset))
    BY <1>1, <1>3, <2>1, Counts
  <2> QED
    BY <1>4, <2>2 DEF LimitsHold
<1>7. Cardinality(CandlesOf(Stored)') <= MaxRowsPerUser
  <2>1. IsFiniteSet(CandlesOf(Stored)) /\ Cardinality(CandlesOf(Stored)) \in Nat
    BY <1>3, Counts DEF CandlesOf
  <2>2. /\ Cardinality(CandlesOf(Stored)') \in Nat
        /\ Cardinality(CandlesOf(Stored)') <= Cardinality(CandlesOf(Stored))
    BY <1>2, <2>1, FS_Subset, FS_CardinalityType
  <2> QED
    BY <1>4, <2>1, <2>2 DEF LimitsHold
<1>8. LimitsHold'
  BY <1>5, <1>6, <1>7 DEF LimitsHold
<1>9. StoredOnce'
  BY DEF StoredOnce
<1> QED
  BY <1>8, <1>9

(* A deletion commits: its row is not there any more.                        *)
LEMMA RecordStep ==
    ASSUME UploadAssumption, TypeOK, IInv, NEW t \in Clients, Record(t)
    PROVE  TypeOK' /\ IInv'
<1>1. /\ txn[t] \in Deleting /\ Kept(txn[t]) /\ txn[t].pc = "record"
      /\ Hidden(t) = txn[t].hidden /\ HiddenBy(txn[t]) = txn[t].hidden
  <2>1. txn[t] \in Transactions /\ Kept(txn[t]) /\ txn[t].pc = "record"
    BY DEF TypeOK, Transactions, IInv, AllKept, Record
  <2> QED
    BY <2>1, ByStage DEF Hidden
<1>2. upload' = Without(t) /\ recorded' = recorded \cup {txn[t].target} /\ owner = NoClient
  BY DEF Record
<1>3. /\ txn'[t] = Idle /\ \A d \in Clients \ {t} : txn'[d] = txn[d]
      /\ txn' \in [Clients -> Transactions]
      /\ owner' = NoClient
  BY <1>2 DEF Record, End, Become, TypeOK, Transactions
<1>4. \A u \in Uploads : upload'[u] = IF u \in txn[t].hidden /\ u \in Stored
                                      THEN [state |-> "gone"] ELSE upload[u]
  BY <1>1, <1>2 DEF Without
<1>5. upload' \in [Uploads -> Row]
  BY <1>2 DEF Without, TypeOK, Row
<1>6. \A u \in Uploads : upload'[u].state # "none" <=> upload[u].state # "none"
  BY <1>4 DEF Stored
<1>7. Stored' = Stored \ txn[t].hidden /\ \A u \in Stored' : upload'[u] = upload[u]
  BY <1>4 DEF Stored
<1>8. TypeOK'
  <2>1. Hidden(t)' = {} /\ \A d \in Clients \ {t} : Hidden(d)' = Hidden(d)
    BY <1>3 DEF Hidden, Idle
  <2>2. \A d, e \in Clients : d # e => Hidden(d)' \cap Hidden(e)' = {}
    BY <2>1 DEF TypeOK
  <2>3. \A d \in Clients : txn'[d].pc \in Counting <=> owner' = d
    BY <1>2, <1>3 DEF TypeOK, Counting, Idle, UploadAssumption
  <2>4. recorded' \in SUBSET Uploads
    BY <1>1, <1>2 DEF Deleting, TypeOK
  <2> QED
    BY <1>3, <1>5, <2>2, <2>3, <2>4 DEF TypeOK, Transactions, Counting
<1>9. ASSUME NEW d \in Clients PROVE Kept(txn[d])'
  <2>1. CASE d = t
    BY <1>3, <2>1 DEF Kept, HiddenBy, Idle
  <2>2. CASE d # t
    <3>1. txn'[d] = txn[d] /\ txn[d] \in Transactions /\ Kept(txn[d])
      BY <1>3, <2>2 DEF TypeOK, Transactions, IInv, AllKept
    <3>2. HiddenBy(txn[d]) \subseteq Stored'
      BY <1>1, <1>7, <2>2, <3>1 DEF TypeOK, Kept, Hidden, HiddenBy
    <3>3. ASSUME NEW x \in Transactions, x = txn[d] PROVE Kept(txn[d])'
      <4>1. Kept(x)'
        BY <1>5, <1>6, <1>7, <3>1, <3>2, <3>3, KeptWhenFewer
      <4>2. x = txn'[d]
        BY <3>1, <3>3
      <4> QED
        BY <4>1, <4>2 DEF Kept, HiddenBy
    <3> QED
      BY <3>1, <3>3
  <2> QED
    BY <2>1, <2>2
<1>10. RecordedAreGone'
  <2>1. txn[t].target \in Uploads /\ upload[txn[t].target].state # "none"
        /\ txn[t].target \notin Stored'
    BY <1>1, <1>7 DEF Kept, Deleting
  <2>2. upload'[txn[t].target].state = "gone"
    BY <1>5, <1>6, <2>1 DEF Stored, Row
  <2>3. \A u \in recorded : upload'[u].state = "gone"
    BY <1>4 DEF IInv, RecordedAreGone, TypeOK
  <2> QED
    BY <1>2, <2>2, <2>3 DEF RecordedAreGone
<1>11. LimitsHold' /\ StoredOnce'
  BY <1>5, <1>7, LimitsWhenFewer DEF IInv
<1> QED
  BY <1>8, <1>9, <1>10, <1>11 DEF IInv, AllKept

(* A row that gets old stays where it is.                                    *)
LEMMA ExpireStep ==
    ASSUME UploadAssumption, TypeOK, IInv, NEW v \in Uploads, Expire(v)
    PROVE  TypeOK' /\ IInv'
<1>1. v \in Stored /\ upload' = [upload EXCEPT ![v].old = TRUE]
      /\ UNCHANGED <<recorded, owner, txn>>
  BY DEF Expire
<1>2. upload' \in [Uploads -> Row]
  BY <1>1 DEF TypeOK, Stored, Row
<1>3. \A u \in Uploads : /\ upload'[u].state = upload[u].state
                         /\ u \in Stored => upload'[u].key = upload[u].key
  BY <1>1, <1>2 DEF TypeOK, Stored, Row
<1>4. /\ Stored' = Stored
      /\ \A u \in Stored' : u \in Stored /\ upload'[u].key = upload[u].key
      /\ \A u \in Uploads : upload'[u].state # "none" <=> upload[u].state # "none"
  BY <1>3 DEF Stored
<1>5. TypeOK'
  BY <1>1, <1>2 DEF TypeOK, Hidden
<1>6. ASSUME NEW d \in Clients PROVE Kept(txn[d])'
  <2>1. txn[d] \in Transactions /\ Kept(txn[d])
    BY DEF TypeOK, Transactions, IInv, AllKept
  <2>2. ASSUME NEW x \in Transactions, x = txn[d] PROVE Kept(txn[d])'
    <3>1. HiddenBy(x) \subseteq Stored'
      BY <1>4, <2>1, <2>2 DEF Kept
    <3>2. Kept(x)'
      BY <1>2, <1>4, <2>1, <2>2, <3>1, KeptWhenFewer
    <3>3. x = txn'[d]
      BY <1>1, <2>2
    <3> QED
      BY <3>2, <3>3 DEF Kept, HiddenBy
  <2> QED
    BY <2>1, <2>2
<1>7. RecordedAreGone'
  BY <1>1, <1>3 DEF IInv, RecordedAreGone, TypeOK
<1>8. LimitsHold' /\ StoredOnce'
  BY <1>2, <1>4, LimitsWhenFewer DEF IInv
<1> QED
  BY <1>5, <1>6, <1>7, <1>8 DEF IInv, AllKept

(* One more row is at most one more.                                         *)
LEMMA OneMore ==
    ASSUME NEW S, NEW x, IsFiniteSet(S)
    PROVE  /\ Cardinality(S \cup {x}) \in Nat
           /\ Cardinality(S \cup {x}) <= Cardinality(S) + 1
<1>1. IsFiniteSet(S \cup {x})
  BY FS_AddElement
<1>2. Cardinality(S) \in Nat /\ Cardinality(S \cup {x}) \in Nat
  BY <1>1, FS_CardinalityType
<1>3. Cardinality(S \cup {x}) = IF x \in S THEN Cardinality(S) ELSE Cardinality(S) + 1
  BY FS_AddElement
<1> QED
  BY <1>2, <1>3

(* An upload commits: its row and its candles fit in the room it counted.    *)
LEMMA InsertStep ==
    ASSUME UploadAssumption, TypeOK, IInv, NEW t \in Clients, NEW v \in Uploads, Insert(t, v)
    PROVE  TypeOK' /\ IInv'
<1> DEFINE hidden == txn[t].hidden
           key == txn[t].key
           left == Stored \ hidden
<1>1. /\ txn[t] \in Uploading /\ Kept(txn[t]) /\ txn[t].pc = "insert" /\ owner = t
      /\ Hidden(t) = hidden /\ hidden \subseteq Stored
      /\ key \in Keys /\ Candles[key[2]] \in Nat
  <2>1. txn[t] \in Transactions /\ Kept(txn[t]) /\ txn[t].pc = "insert"
    BY DEF TypeOK, Transactions, IInv, AllKept, Insert
  <2>2. txn[t] \in Uploading
    BY <2>1, ByStage
  <2>3. key \in Keys
    BY <2>2 DEF Uploading
  <2>4. Candles[key[2]] \in Nat
    BY <2>3 DEF Keys, UploadAssumption
  <2> QED
    BY <2>1, <2>2, <2>3, <2>4 DEF TypeOK, Hidden, Kept, HiddenBy
<1>2. /\ upload[v].state = "none" /\ Equal(key) \subseteq hidden
      /\ upload' = [Without(t) EXCEPT ![v] = [state |-> "stored", key |-> key, old |-> FALSE]]
      /\ recorded' = recorded
  BY <1>1 DEF Insert
<1>3. /\ txn'[t] = Idle /\ \A d \in Clients \ {t} : txn'[d] = txn[d]
      /\ txn' \in [Clients -> Transactions]
      /\ owner' = NoClient
  BY <1>1 DEF Insert, End, Become, TypeOK, Transactions
<1>4. \A u \in Uploads : upload'[u] = IF u = v THEN [state |-> "stored", key |-> key, old |-> FALSE]
                                      ELSE IF u \in hidden THEN [state |-> "gone"] ELSE upload[u]
  BY <1>1, <1>2 DEF Without
<1>5. upload' \in [Uploads -> Row]
  BY <1>1, <1>2 DEF Without, TypeOK, Row
<1>6. /\ Stored' = left \cup {v} /\ v \notin Stored
      /\ upload'[v].key = key
      /\ \A u \in left : upload'[u] = upload[u]
  BY <1>1, <1>2, <1>4 DEF Stored
<1>7. TypeOK'
  <2>1. Hidden(t)' = {} /\ \A d \in Clients \ {t} : Hidden(d)' = Hidden(d)
    BY <1>3 DEF Hidden, Idle
  <2>2. \A d, e \in Clients : d # e => Hidden(d)' \cap Hidden(e)' = {}
    BY <2>1 DEF TypeOK
  <2>3. \A d \in Clients : txn'[d].pc \in Counting <=> owner' = d
    BY <1>1, <1>3 DEF TypeOK, Counting, Idle, UploadAssumption
  <2> QED
    BY <1>2, <1>3, <1>5, <2>2, <2>3 DEF TypeOK, Transactions, Counting
<1>8. ASSUME NEW d \in Clients PROVE Kept(txn[d])'
  <2>1. CASE d = t
    BY <1>3, <2>1 DEF Kept, HiddenBy, Idle
  <2>2. CASE d # t
    <3>1. /\ txn'[d] = txn[d] /\ txn[d] \in Transactions /\ Kept(txn[d])
          /\ txn[d].pc \notin Counting
      BY <1>1, <1>3, <2>2 DEF TypeOK, Transactions, IInv, AllKept, Counting
    <3>2. HiddenBy(txn[d]) \subseteq Stored'
      BY <1>1, <1>6, <2>2, <3>1 DEF TypeOK, Kept, Hidden, HiddenBy
    <3>3. txn[d].pc \in {"delete", "record"} =>
             /\ txn[d].target \in Uploads /\ upload[txn[d].target].state # "none"
             /\ txn[d].target # v
      BY <1>2, <3>1, ByStage DEF Kept, Deleting
    <3>4. txn[d].pc \in {"delete", "record"} => upload'[txn[d].target].state # "none"
      BY <1>4, <3>3
    <3>5. txn[d].pc = "record" => txn[d].target \notin Stored' \ txn[d].hidden
      BY <1>6, <3>1, <3>3 DEF Kept
    <3> QED
      BY <3>1, <3>2, <3>4, <3>5 DEF Kept, HiddenBy, Counting
  <2> QED
    BY <2>1, <2>2
<1>9. RecordedAreGone'
  <2>1. ASSUME NEW u \in recorded PROVE upload'[u].state = "gone"
    <3>1. u \in Uploads /\ upload[u].state = "gone" /\ u # v
      BY <1>2 DEF IInv, RecordedAreGone, TypeOK
    <3> QED
      BY <1>4, <3>1
  <2> QED
    BY <1>2, <2>1 DEF RecordedAreGone
<1>10. /\ RoomOfOwner(left, key) /\ RoomOfAsset(hidden, key[1])
       /\ upload \in [Uploads -> Row] /\ left \subseteq {u \in Uploads : upload[u].state = "stored"}
       /\ MaxPerUser \in Nat /\ MaxPerAsset \in Nat /\ MaxRowsPerUser \in Nat
  BY <1>1 DEF Kept, TypeOK, Stored, UploadAssumption
<1>11. /\ IsFiniteSet(left) /\ Cardinality(left) \in Nat
       /\ IsFiniteSet(CandlesOf(left)) /\ Cardinality(CandlesOf(left)) \in Nat
  BY <1>10, Counts DEF CandlesOf
<1> HIDE DEF left, hidden, key
<1>12. Cardinality(Stored') <= MaxPerUser
  <2>1. /\ Cardinality(left \cup {v}) \in Nat
        /\ Cardinality(left \cup {v}) <= Cardinality(left) + 1
    BY <1>11, OneMore
  <2> QED
    BY <1>6, <1>10, <1>11, <2>1 DEF RoomOfOwner
<1>13. ASSUME NEW asset \in Assets PROVE Cardinality(Of(asset)') <= MaxPerAsset
  <2> DEFINE others == Of(asset) \ hidden
  <2>1. others \subseteq {u \in Uploads : upload[u].state = "stored"}
    BY DEF Of, Stored
  <2>2. IsFiniteSet(others) /\ Cardinality(others) \in Nat
    BY <1>10, <2>1, Counts
  <2>3. CASE asset = key[1]
    <3>1. Of(asset)' = others \cup {v}
      BY <1>6, <2>3 DEF Of, left
    <3>2. Cardinality(others \cup {v}) \in Nat /\ Cardinality(others \cup {v}) <= Cardinality(others) + 1
      BY <2>2, OneMore
    <3> QED
      BY <1>10, <2>2, <2>3, <3>1, <3>2 DEF RoomOfAsset
  <2>4. CASE asset # key[1]
    <3>1. Of(asset)' \subseteq Of(asset)
      BY <1>6, <2>4 DEF Of, left
    <3>2. Of(asset) \subseteq {u \in Uploads : upload[u].state = "stored"}
      BY DEF Of, Stored
    <3>3. /\ Cardinality(Of(asset)) \in Nat /\ Cardinality(Of(asset)') \in Nat
          /\ Cardinality(Of(asset)') <= Cardinality(Of(asset))
      BY <1>10, <3>1, <3>2, Counts
    <3> QED
      BY <1>10, <3>3 DEF IInv, LimitsHold
  <2> QED
    BY <2>3, <2>4
<1>14. Cardinality(CandlesOf(Stored)') <= MaxRowsPerUser
  <2> DEFINE new == {v} \X (1..Candles[key[2]])
             n == Candles[key[2]]
  <2>1. n \in Nat
    BY <1>1 DEF key
  <2>2. IsFiniteSet(1..n) /\ Cardinality(1..n) = n
    <3>1. 1 \in Int /\ n \in Int
      BY <2>1
    <3>2. IsFiniteSet(1..n) /\ Cardinality(1..n) = IF 1 > n THEN 0 ELSE n - 1 + 1
      BY <3>1, FS_Interval
    <3> QED
      BY <2>1, <3>2
  <2>3. IsFiniteSet({v}) /\ Cardinality({v}) = 1
    BY FS_Singleton
  <2>4. IsFiniteSet(new) /\ Cardinality(new) = n
    <3> HIDE DEF n
    <3>1. /\ IsFiniteSet({v} \X (1..n))
          /\ Cardinality({v} \X (1..n)) = Cardinality({v}) * Cardinality(1..n)
      BY <2>2, <2>3, FS_Product
    <3>2. Cardinality({v}) * Cardinality(1..n) = n
      BY <2>1, <2>2, <2>3
    <3> QED
      BY <3>1, <3>2 DEF n
  <2>5. CandlesOf(Stored)' = CandlesOf(left) \cup new
    BY <1>6 DEF CandlesOf
  <2> HIDE DEF new, n
  <2>6. /\ Cardinality(CandlesOf(left) \cup new) =
             Cardinality(CandlesOf(left)) + Cardinality(new)
               - Cardinality(CandlesOf(left) \cap new)
        /\ IsFiniteSet(CandlesOf(left) \cap new)
    BY <1>11, <2>4, FS_Union, FS_Intersection
  <2>7. Cardinality(CandlesOf(left) \cap new) \in Nat
    BY <2>6, FS_CardinalityType
  <2> QED
    BY <1>10, <1>11, <2>1, <2>4, <2>5, <2>6, <2>7 DEF RoomOfOwner, n
<1>15. StoredOnce'
  <2>1. \A u \in left : upload[u].key # key
    BY <1>2 DEF Equal, left
  <2> QED
    BY <1>6, <2>1 DEF IInv, StoredOnce, left
<1>16. LimitsHold'
  BY <1>12, <1>13, <1>14 DEF LimitsHold
<1> QED
  BY <1>7, <1>8, <1>9, <1>15, <1>16 DEF IInv, AllKept

-----------------------------------------------------------------------------
LEMMA Initially == UploadAssumption /\ Init => TypeOK /\ IInv
<1> SUFFICES ASSUME UploadAssumption, Init PROVE TypeOK /\ IInv
  OBVIOUS
<1>1. TypeOK
  BY DEF Init, TypeOK, Row, Idle, Hidden, UploadAssumption
<1>2. Stored = {} /\ \A asset : Of(asset) = {}
  BY DEF Init, Stored, Of
<1>3. CandlesOf(Stored) = {}
  BY <1>2 DEF CandlesOf
<1>4. LimitsHold
  BY <1>2, <1>3, FS_EmptySet DEF LimitsHold, UploadAssumption
<1>5. AllKept /\ RecordedAreGone /\ StoredOnce
  BY <1>2 DEF Init, AllKept, Kept, HiddenBy, Idle, RecordedAreGone, StoredOnce
<1> QED
  BY <1>1, <1>4, <1>5 DEF IInv

LEMMA Preserved == UploadAssumption /\ TypeOK /\ IInv /\ [Next]_vars => TypeOK' /\ IInv'
<1> SUFFICES ASSUME UploadAssumption, TypeOK, IInv, [Next]_vars PROVE TypeOK' /\ IInv'
  OBVIOUS
<1>1. CASE UNCHANGED vars
  <2>1. TypeOK'
    BY <1>1 DEF vars, TypeOK, Hidden
  <2>2. ASSUME NEW d \in Clients PROVE Kept(txn[d])'
    <3>1. Kept(txn[d]) /\ txn'[d] = txn[d] /\ upload' = upload
      BY <1>1 DEF vars, IInv, AllKept
    <3> QED
      BY <3>1 DEF Kept, HiddenBy, Stored, RoomOfOwner, CandlesOf, RoomOfAsset, Of
  <2>3. RecordedAreGone' /\ LimitsHold' /\ StoredOnce'
    BY <1>1 DEF vars, IInv, RecordedAreGone, LimitsHold, StoredOnce, Stored, CandlesOf, Of
  <2> QED
    BY <2>1, <2>2, <2>3 DEF IInv, AllKept
<1>2. ASSUME NEW t \in Clients, Advance(t) PROVE TypeOK' /\ IInv'
  <2>1. CASE Refuse(t) \/ Conflict(t) \/ Rollback(t)
    BY <2>1, EndStep DEF Refuse, Conflict, Rollback
  <2> QED
    BY <1>2, <2>1, LockAndPurgeStep, UsageStep, DeleteOwnedStep, RecordStep, InsertStep
       DEF Advance
<1> QED
  BY <1>1, <1>2, ArriveStep, ExpireStep DEF Next

LEMMA Inductive == Spec => [](TypeOK /\ IInv)
<1>1. UploadAssumption
  BY UploadAssumption
<1> QED
  BY <1>1, Initially, Preserved, PTL DEF Spec

(* Every reachable state is well typed, no row is locked by two requests, and*)
(* only who has the owner's lock counts and inserts.                         *)
THEOREM TypeCorrect == Spec => []TypeOK
BY Inductive, PTL

(* An owner stays within the three limits whatever requests run at once,     *)
(* although deletions take no lock on the owner and the counts are two       *)
(* statements: only who has the owner's lock inserts, and until then the room*)
(* it counted can only grow.                                                 *)
THEOREM LimitsAlwaysHold == Spec => []LimitsHold
BY Inductive, PTL DEF IInv

(* A content is stored once per asset although two uploads of it may both    *)
(* find no duplicate.                                                        *)
THEOREM StoredOnceHolds == Spec => []StoredOnce
BY Inductive, PTL DEF IInv

(* A deletion on record is of a row that is gone for good.                   *)
THEOREM DeletedIsGoneHolds == Spec => []DeletedIsGone
<1>1. IInv => DeletedIsGone
  BY DEF IInv, RecordedAreGone, DeletedIsGone, Stored
<1> QED
  BY <1>1, Inductive, PTL

-----------------------------------------------------------------------------
(* The refinement.  What a transaction has deleted is what it may delete:    *)
(* an upload rows that have expired, a deletion its row.                     *)
OldOrGone(row) == \/ row.state = "gone"
                  \/ row.state = "stored" /\ row.old

Entitled(r, table) ==
    /\ r \in Uploading =>
          /\ r.hidden \subseteq r.expired
          /\ \A u \in r.expired : OldOrGone(table[u])
    /\ r \in Deleting => r.hidden \subseteq {r.target}

AllEntitled == \A t \in Clients : Entitled(txn[t], upload)

(* No step brings a row back or makes an expired one young.                  *)
LEMMA RowsAge ==
    ASSUME TypeOK, [Next]_vars, NEW u \in Uploads,
           OldOrGone(upload[u])
    PROVE  OldOrGone(upload'[u])
<1>1. upload[u].state # "none" /\ upload \in [Uploads -> Row]
  BY DEF TypeOK, OldOrGone
<1>2. ASSUME NEW t \in Clients
      PROVE  OldOrGone(Without(t)[u])
  BY DEF Without, OldOrGone
<1>3. ASSUME NEW v \in Uploads, Expire(v)
      PROVE  OldOrGone(upload'[u])
  <2>1. CASE u = v
    <3>1. upload'[u] = [upload[u] EXCEPT !.old = TRUE] /\ upload[u].state = "stored"
      BY <1>1, <1>3, <2>1 DEF Expire, Stored, OldOrGone
    <3>2. PICK key \in Keys, old \in BOOLEAN :
             upload[u] = [state |-> "stored", key |-> key, old |-> old]
      BY <1>1, <3>1 DEF Row
    <3> QED
      BY <3>1, <3>2 DEF OldOrGone
  <2>2. CASE u # v
    BY <1>1, <1>3, <2>2 DEF Expire
  <2> QED
    BY <2>1, <2>2
<1>4. ASSUME NEW t \in Clients, NEW v \in Uploads, Insert(t, v)
      PROVE  OldOrGone(upload'[u])
  <2>1. u # v
    BY <1>1, <1>4 DEF Insert
  <2>2. upload'[u] = Without(t)[u]
    BY <1>4, <2>1 DEF Insert, Without
  <2> QED
    BY <1>2, <2>2
<1>5. ASSUME NEW t \in Clients, Advance(t)
      PROVE  OldOrGone(upload'[u])
  <2>1. CASE Record(t)
    BY <1>2, <2>1 DEF Record
  <2>2. CASE LockOwner(t) \/ Purge(t) \/ UsageOfOwner(t) \/ UsageOfAsset(t)
    BY <2>2 DEF LockOwner, Purge, UsageOfOwner, UsageOfAsset
  <2>3. CASE Refuse(t) \/ Conflict(t) \/ DeleteOwned(t) \/ Rollback(t)
    BY <2>3 DEF Refuse, Conflict, DeleteOwned, Rollback
  <2> QED
    BY <1>4, <1>5, <2>1, <2>2, <2>3 DEF Advance
<1>6. CASE UNCHANGED vars
  BY <1>6 DEF vars
<1>7. ASSUME NEW t \in Clients, NEW key \in Keys, Upload(t, key)
      PROVE  upload' = upload
  BY <1>7 DEF Upload
<1>8. ASSUME NEW t \in Clients, NEW v \in Uploads, Delete(t, v)
      PROVE  upload' = upload
  BY <1>8 DEF Delete
<1> QED
  BY <1>3, <1>5, <1>6, <1>7, <1>8 DEF Next
LEMMA EntitledStays ==
    ASSUME TypeOK, AllEntitled, [Next]_vars
    PROVE  AllEntitled'
<1> SUFFICES ASSUME NEW d \in Clients PROVE Entitled(txn'[d], upload')
  BY DEF AllEntitled
<1>1. /\ txn \in [Clients -> Transactions] /\ txn[d] \in Transactions
      /\ Entitled(txn[d], upload)
      /\ Stored \subseteq Uploads
  BY DEF TypeOK, AllEntitled, Transactions, Stored
<1>2. ASSUME NEW r, Entitled(r, upload), r \in Transactions PROVE Entitled(r, upload')
  <2>1. CASE r \in Uploading
    <3>1. r.expired \subseteq Uploads /\ r \notin Deleting
      BY <2>1 DEF Uploading, Deleting
    <3>2. \A u \in r.expired : OldOrGone(upload[u])
      BY <1>2, <2>1 DEF Entitled
    <3>3. \A u \in r.expired : OldOrGone(upload'[u])
      BY <3>1, <3>2, RowsAge
    <3> QED
      BY <1>2, <2>1, <3>1, <3>3 DEF Entitled
  <2>2. CASE r \notin Uploading
    BY <1>2, <2>2 DEF Entitled
  <2> QED
    BY <2>1, <2>2
<1>3. Entitled(Idle, upload') /\ Idle \in Transactions
  BY DEF Entitled, Idle, Uploading, Deleting, Transactions
<1>4. CASE txn'[d] = txn[d]
  BY <1>1, <1>2, <1>4
<1>5. ASSUME NEW t \in Clients, End(t) PROVE Entitled(txn'[d], upload')
  <2>1. txn'[d] = Idle \/ txn'[d] = txn[d]
    BY <1>1, <1>5 DEF End, Become
  <2> QED
    BY <1>3, <1>4, <2>1
<1>6. ASSUME NEW t \in Clients, NEW key \in Keys, Upload(t, key)
      PROVE  Entitled(txn'[d], upload')
  <2> DEFINE r == [pc |-> "lock", key |-> key, hidden |-> {}, fits |-> FALSE,
                   expired |-> {u \in Stored : upload[u].old}]
  <2>1. Entitled(r, upload) /\ r \in Transactions
    BY <1>1 DEF Entitled, Uploading, Deleting, Transactions, OldOrGone, Stored
  <2>2. txn'[d] = r \/ txn'[d] = txn[d]
    BY <1>1, <1>6 DEF Upload, Become
  <2> HIDE DEF r
  <2> QED
    BY <1>2, <1>4, <2>1, <2>2
<1>7. ASSUME NEW t \in Clients, txn[t] \in Uploading, NEW r \in Uploading, Become(t, r),
             r.expired = txn[t].expired, r.hidden \subseteq r.expired
      PROVE  Entitled(txn'[d], upload')
  <2>1. Entitled(r, upload) /\ r \in Transactions
    BY <1>7 DEF AllEntitled, Entitled, Transactions, Uploading, Deleting
  <2>2. txn'[d] = r \/ txn'[d] = txn[d]
    BY <1>1, <1>7 DEF Become
  <2> QED
    BY <1>2, <1>4, <2>1, <2>2
<1>8. ASSUME NEW t \in Clients, LockOwner(t) \/ Purge(t) \/ UsageOfOwner(t) \/ UsageOfAsset(t)
      PROVE  Entitled(txn'[d], upload')
  <2>1. txn[t] \in Uploading /\ txn[t].hidden \subseteq txn[t].expired
    <3>1. txn[t].pc \in {"lock", "purge", "usage", "asset"} /\ txn[t] \in Transactions
      BY <1>1, <1>8 DEF LockOwner, Purge, UsageOfOwner, UsageOfAsset
    <3>2. txn[t] \in Uploading
      BY <3>1, ByStage
    <3> QED
      BY <3>2 DEF AllEntitled, Entitled
  <2>2. CASE LockOwner(t)
    <3> DEFINE r == [txn[t] EXCEPT !.pc = "purge"]
    <3>1. /\ r \in Uploading /\ Become(t, r)
          /\ r.expired = txn[t].expired /\ r.hidden \subseteq r.expired
      BY <2>1, <2>2 DEF LockOwner, Uploading
    <3> HIDE DEF r
    <3> QED
      BY <1>7, <2>1, <3>1
  <2>3. CASE Purge(t)
    <3> DEFINE r == [txn[t] EXCEPT !.pc = "usage", !.hidden = txn[t].expired \cap Stored]
    <3>1. /\ r \in Uploading /\ Become(t, r)
          /\ r.expired = txn[t].expired /\ r.hidden \subseteq r.expired
      BY <1>1, <2>1, <2>3 DEF Purge, Uploading
    <3> HIDE DEF r
    <3> QED
      BY <1>7, <2>1, <3>1
  <2>4. CASE UsageOfOwner(t)
    <3>0. PICK fits \in BOOLEAN : Become(t, [txn[t] EXCEPT !.pc = "asset", !.fits = fits])
      BY <2>4 DEF UsageOfOwner
    <3> DEFINE r == [txn[t] EXCEPT !.pc = "asset", !.fits = fits]
    <3>1. /\ r \in Uploading /\ Become(t, r)
          /\ r.expired = txn[t].expired /\ r.hidden \subseteq r.expired
      BY <2>1, <3>0 DEF Uploading
    <3> HIDE DEF r
    <3> QED
      BY <1>7, <2>1, <3>1
  <2>5. CASE UsageOfAsset(t)
    <3> DEFINE r == [txn[t] EXCEPT !.pc = "insert"]
    <3>1. /\ r \in Uploading /\ Become(t, r)
          /\ r.expired = txn[t].expired /\ r.hidden \subseteq r.expired
      BY <2>1, <2>5 DEF UsageOfAsset, Uploading
    <3> HIDE DEF r
    <3> QED
      BY <1>7, <2>1, <3>1
  <2> QED
    BY <1>8, <2>2, <2>3, <2>4, <2>5
<1>9. ASSUME NEW t \in Clients, NEW r \in Deleting, Become(t, r), r.hidden \subseteq {r.target}
      PROVE  Entitled(txn'[d], upload')
  <2>1. Entitled(r, upload) /\ r \in Transactions
    BY <1>9 DEF Entitled, Transactions, Uploading, Deleting
  <2>2. txn'[d] = r \/ txn'[d] = txn[d]
    BY <1>1, <1>9 DEF Become
  <2> QED
    BY <1>2, <1>4, <2>1, <2>2
<1>10. ASSUME NEW t \in Clients, NEW u \in Uploads, Delete(t, u)
       PROVE  Entitled(txn'[d], upload')
  <2> DEFINE r == [pc |-> "delete", target |-> u, hidden |-> {}]
  <2>1. r \in Deleting /\ Become(t, r) /\ r.hidden \subseteq {r.target}
    BY <1>10 DEF Delete, Deleting
  <2> HIDE DEF r
  <2> QED
    BY <1>9, <2>1
<1>11. ASSUME NEW t \in Clients, DeleteOwned(t)
       PROVE  Entitled(txn'[d], upload')
  <2> DEFINE r == [txn[t] EXCEPT !.pc = "record", !.hidden = {txn[t].target} \cap Stored]
  <2>1. txn[t].pc = "delete" /\ txn[t] \in Transactions
    BY <1>1, <1>11 DEF DeleteOwned
  <2>2. txn[t] \in Deleting
    BY <2>1, ByStage
  <2>3. r \in Deleting /\ Become(t, r) /\ r.hidden \subseteq {r.target}
    BY <1>1, <1>11, <2>2 DEF DeleteOwned, Deleting
  <2> HIDE DEF r
  <2> QED
    BY <1>9, <2>3
<1>12. ASSUME NEW t \in Clients, Advance(t) PROVE Entitled(txn'[d], upload')
  <2>1. CASE Refuse(t) \/ Conflict(t) \/ Record(t) \/ Rollback(t) \/ \E u \in Uploads : Insert(t, u)
    BY <1>5, <2>1 DEF Refuse, Conflict, Record, Rollback, Insert
  <2> QED
    BY <1>8, <1>11, <1>12, <2>1 DEF Advance
<1>13. CASE UNCHANGED vars \/ \E u \in Uploads : Expire(u)
  BY <1>4, <1>13 DEF vars, Expire
<1> QED
  BY <1>6, <1>10, <1>12, <1>13 DEF Next
LEMMA WithinIsAllowed ==
    ASSUME LimitsHold, StoredOnce PROVE Ledger!Allowed(upload)
<1>1. Ledger!Stored(upload) = Stored
  BY DEF Ledger!Stored, Stored
<1>2. Ledger!CandlesOf(upload) = CandlesOf(Stored)
  BY <1>1 DEF Ledger!CandlesOf, CandlesOf
<1>3. \A asset : {u \in Ledger!Stored(upload) : upload[u].key[1] = asset} = Of(asset)
  BY <1>1 DEF Of
<1>4. ASSUME NEW S PROVE Ledger!Cardinality(S) = Cardinality(S)
  BY DEF Cardinality, Ledger!Cardinality
<1> QED
  BY <1>1, <1>2, <1>3, <1>4 DEF Ledger!Allowed, LimitsHold, StoredOnce

(* Only the commits of uploads and deletions, and the passing of time, are   *)
(* seen in the ledger.                                                       *)
LEMMA StepsOfTheLedger ==
    ASSUME UploadAssumption, TypeOK, IInv, AllEntitled, [Next]_vars, Ledger!Allowed(upload)'
    PROVE  [Ledger!Next]_<<upload, recorded>>
<1>1. upload \in [Uploads -> Row] /\ txn \in [Clients -> Transactions]
  BY DEF TypeOK, Transactions
<1>2. ASSUME NEW t \in Clients, NEW u \in Uploads, Insert(t, u) PROVE Ledger!Next
  <2> DEFINE purged == Hidden(t) \cap Stored
  <2>1. txn[t] \in Uploading /\ Hidden(t) = txn[t].hidden
    <3>1. txn[t].pc = "insert" /\ txn[t] \in Transactions
      BY <1>1, <1>2 DEF Insert
    <3> QED
      BY <3>1, ByStage DEF Hidden
  <2>2. \A v \in purged : upload[v].old
    <3>1. \A v \in txn[t].hidden : OldOrGone(upload[v])
      BY <2>1 DEF AllEntitled, Entitled
    <3> QED
      BY <2>1, <3>1 DEF OldOrGone, Stored
  <2>3. Without(t) = Ledger!Gone(purged)
    BY DEF Without, Ledger!Gone, Stored
  <2>4. txn[t].key \in Assets \X Contents
    BY <2>1 DEF Uploading, Keys
  <2>5. purged \in SUBSET Ledger!Stored(upload)
    BY DEF Stored, Ledger!Stored
  <2>6. /\ upload[u].state = "none" /\ UNCHANGED recorded
        /\ upload' = [Ledger!Gone(purged) EXCEPT ![u] =
                        [state |-> "stored", key |-> txn[t].key, old |-> FALSE]]
    BY <1>2, <2>3 DEF Insert
  <2> HIDE DEF purged
  <2>7. Ledger!Store(u, txn[t].key, purged)
    BY <2>2, <2>6 DEF Ledger!Store
  <2> QED
    BY <2>4, <2>5, <2>7 DEF Ledger!Next
<1>3. ASSUME NEW t \in Clients, Record(t) PROVE Ledger!Next
  <2> DEFINE v == txn[t].target
  <2>1. /\ txn[t].pc = "record" /\ txn[t] \in Deleting /\ v \in Uploads
        /\ Hidden(t) = txn[t].hidden /\ Hidden(t) \subseteq {v}
    <3>1. txn[t].pc = "record" /\ txn[t] \in Transactions
      BY <1>1, <1>3 DEF Record
    <3>2. txn[t] \in Deleting
      BY <3>1, ByStage
    <3> QED
      BY <3>1, <3>2 DEF AllEntitled, Entitled, Hidden, Deleting
  <2>2. upload[v].state # "none" /\ v \notin Stored \ Hidden(t)
    BY <2>1 DEF IInv, AllKept, Kept
  <2>3. v \notin Stored => upload[v] = [state |-> "gone"]
    BY <1>1, <2>1, <2>2 DEF Row, Stored
  <2>4. Without(t) = Ledger!Gone({v})
    BY <2>1, <2>2, <2>3 DEF Without, Ledger!Gone
  <2>5. Ledger!Remove(v)
    BY <1>3, <2>2, <2>4 DEF Record, Ledger!Remove
  <2> HIDE DEF v
  <2> QED
    BY <2>1, <2>5 DEF Ledger!Next
<1>4. ASSUME NEW u \in Uploads, Expire(u) PROVE Ledger!Next
  <2>1. Ledger!Expire(u)
    BY <1>4 DEF Expire, Ledger!Expire, Stored, Ledger!Stored
  <2> QED
    BY <2>1 DEF Ledger!Next
<1>5. ASSUME NEW t \in Clients, Advance(t) PROVE Ledger!Next \/ UNCHANGED <<upload, recorded>>
  <2>1. CASE LockOwner(t) \/ Purge(t) \/ UsageOfOwner(t) \/ UsageOfAsset(t)
    BY <2>1 DEF LockOwner, Purge, UsageOfOwner, UsageOfAsset
  <2>2. CASE Refuse(t) \/ Conflict(t) \/ DeleteOwned(t) \/ Rollback(t)
    BY <2>2 DEF Refuse, Conflict, DeleteOwned, Rollback
  <2> QED
    BY <1>2, <1>3, <1>5, <2>1, <2>2 DEF Advance
<1>6. ASSUME NEW t \in Clients, \/ \E key \in Keys : Upload(t, key)
                               \/ \E u \in Uploads : Delete(t, u)
      PROVE  UNCHANGED <<upload, recorded>>
  BY <1>6 DEF Upload, Delete
<1>7. CASE UNCHANGED vars
  BY <1>7 DEF vars
<1> QED
  BY <1>4, <1>5, <1>6, <1>7 DEF Next

(* StockUploads implements UploadLedger: uploads and deletions that run in   *)
(* several statements beside each other look to the owner like changes that  *)
(* happen at once, each within the limits, and nothing is purged that has not*)
(* expired.                                                                  *)
THEOREM LedgerImplemented == Spec => ImplementsLedger
<1> DEFINE Strong == TypeOK /\ IInv /\ AllEntitled
<1>1. UploadAssumption
  BY UploadAssumption
<1>2. Init => Strong /\ Ledger!Init
  <2>1. Init => AllEntitled
    BY DEF Init, AllEntitled, Entitled, Idle, Uploading, Deleting
  <2>2. Init => Ledger!Init
    BY DEF Init, Ledger!Init
  <2> QED
    BY <1>1, <2>1, <2>2, Initially
<1>3. Strong /\ [Next]_vars => Strong'
  BY <1>1, Preserved, EntitledStays
<1>4. Strong => Ledger!Allowed(upload)
  BY WithinIsAllowed DEF IInv
<1>5. Strong /\ [Next]_vars /\ Ledger!Allowed(upload)' => [Ledger!Next]_<<upload, recorded>>
  BY <1>1, StepsOfTheLedger
<1> HIDE DEF Strong
<1>6. Spec => Ledger!Spec
  BY <1>2, <1>3, <1>4, <1>5, PTL DEF Spec, Ledger!Spec
<1> QED
  BY <1>6 DEF ImplementsLedger

=============================================================================
