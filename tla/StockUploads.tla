----------------------------- MODULE StockUploads -----------------------------
(***************************************************************************)
(* The private price uploads of one owner in PostgreSQL, under concurrent  *)
(* requests (backend/app/services/stock_upload_service.py,                 *)
(* repositories/stock_repository.py).  Every statement names the owner, so *)
(* owners do not meet.                                                     *)
(*                                                                         *)
(* A request is one READ COMMITTED transaction.  An upload looks for a     *)
(* duplicate, locks the owner ("lock"), deletes what has expired           *)
(* ("purge"), counts ("usage", then "asset"), and inserts and commits      *)
(* ("insert").  A deletion finds its row, deletes it ("delete"), and       *)
(* commits with an audit record, whose key-share lock on the owner waits   *)
(* for an upload ("record").                                               *)
(*                                                                         *)
(* Two CSV texts are the same content when they have the same digest.      *)
(***************************************************************************)
EXTENDS Naturals, FiniteSets

CONSTANTS Clients,          \* requests that may run at the same time
          NoClient,         \* no request
          Uploads,          \* ids of rows of stock_price_uploads (a bound)
          Assets,           \* pairs of exchange and symbol
          Contents,         \* CSV texts that pass parse_price_csv
          Candles,          \* Candles[c]: how many candles the content has
          MaxPerUser,       \* stock_upload_max_per_user
          MaxPerAsset,      \* stock_upload_max_per_asset
          MaxRowsPerUser    \* stock_upload_max_rows_per_user

ASSUME UploadAssumption ==
    /\ NoClient \notin Clients
    /\ IsFiniteSet(Uploads)
    /\ Candles \in [Contents -> Nat \ {0}]
    /\ MaxPerUser \in Nat /\ MaxPerAsset \in Nat /\ MaxRowsPerUser \in Nat

VARIABLES upload,     \* upload[u]: the committed row u
          recorded,   \* rows with a committed audit record of their deletion
          owner,      \* the request that has the owner's row FOR UPDATE
          txn         \* txn[t]: the transaction of request t

vars == <<upload, recorded, owner, txn>>

Keys == Assets \X Contents

(* "none" has not been inserted yet, "gone" was deleted.  A row is old once  *)
(* created_at lies more than the retention back.                             *)
Row == [state : {"none", "gone"}] \cup [state : {"stored"}, key : Keys, old : BOOLEAN]

Idle == [pc |-> "idle"]

(* "expired": the rows that are old at the time of the request; "hidden": the*)
(* rows it has deleted and not yet committed, each locked.                   *)
Uploading == [pc      : {"lock", "purge", "usage", "asset", "insert"},
              key     : Keys,
              expired : SUBSET Uploads,
              hidden  : SUBSET Uploads,
              fits    : BOOLEAN]     \* the owner's usage leaves room

Deleting == [pc     : {"delete", "record"},
             target : Uploads,
             hidden : SUBSET Uploads]

Hidden(t) == IF txn[t].pc = "idle" THEN {} ELSE txn[t].hidden

(* Types; a row is locked by one request, and only the owner's lock admits to*)
(* the counts.                                                               *)
TypeOK ==
    /\ upload \in [Uploads -> Row]
    /\ recorded \in SUBSET Uploads
    /\ owner \in Clients \cup {NoClient}
    /\ txn \in [Clients -> {Idle} \cup Uploading \cup Deleting]
    /\ \A t, d \in Clients : t # d => Hidden(t) \cap Hidden(d) = {}
    /\ \A t \in Clients :
          txn[t].pc \in {"purge", "usage", "asset", "insert"} <=> owner = t

Init ==
    /\ upload = [u \in Uploads |-> [state |-> "none"]]
    /\ recorded = {}
    /\ owner = NoClient
    /\ txn = [t \in Clients |-> Idle]

-----------------------------------------------------------------------------
Stored     == {u \in Uploads : upload[u].state = "stored"}
Equal(key) == {u \in Stored : upload[u].key = key}
Of(asset)  == {u \in Stored : upload[u].key[1] = asset}

(* The candles that some rows hold, one by one.                              *)
CandlesOf(rows) ==
    UNION {{u} \X (1..Candles[upload[u].key[2]]) : u \in rows}

(* No other transaction has deleted the row and is still to commit.          *)
Free(t, u) == \A d \in Clients \ {t} : u \notin Hidden(d)

Become(t, record) == txn' = [txn EXCEPT ![t] = record]

(* The transaction ends and lets go of the owner.                            *)
End(t) ==
    /\ Become(t, Idle)
    /\ owner' = IF owner = t THEN NoClient ELSE owner

-----------------------------------------------------------------------------
(* An upload whose content is not a duplicate; a duplicate is answered with  *)
(* the row there is, and nothing changes.                                    *)
Upload(t, key) ==
    /\ txn[t].pc = "idle"
    /\ Equal(key) = {}
    /\ Become(t, [pc |-> "lock", key |-> key, hidden |-> {}, fits |-> FALSE,
                  expired |-> {u \in Stored : upload[u].old}])
    /\ UNCHANGED <<upload, recorded, owner>>

(* Fault: the owner's row is read without a lock.                            *)
LockOwnerShared(t) ==
    /\ txn[t].pc = "lock"
    /\ owner' = t
    /\ Become(t, [txn[t] EXCEPT !.pc = "purge"])
    /\ UNCHANGED <<upload, recorded>>

LockOwner(t) ==
    /\ txn[t].pc = "lock"
    /\ owner = NoClient
    /\ owner' = t
    /\ Become(t, [txn[t] EXCEPT !.pc = "purge"])
    /\ UNCHANGED <<upload, recorded>>

(* delete_expired_owned waits for deletions of the rows it meets.            *)
Purge(t) ==
    /\ txn[t].pc = "purge"
    /\ \A u \in txn[t].expired \cap Stored : Free(t, u)
    /\ Become(t, [txn[t] EXCEPT !.pc = "usage", !.hidden = txn[t].expired \cap Stored])
    /\ UNCHANGED <<upload, recorded, owner>>

(* How many rows and candles the owner has, those to be deleted left out.    *)
UsageOfOwner(t) ==
    LET visible == Stored \ Hidden(t)
    IN  /\ txn[t].pc = "usage"
        /\ Become(t, [txn[t] EXCEPT !.pc = "asset",
                !.fits = /\ Cardinality(visible) < MaxPerUser
                         /\ Cardinality(CandlesOf(visible)) + Candles[txn[t].key[2]]
                              <= MaxRowsPerUser])
        /\ UNCHANGED <<upload, recorded, owner>>

(* The usage of the asset, and the three limits.                             *)
Fits(t) ==
    txn[t].fits /\ Cardinality(Of(txn[t].key[1]) \ Hidden(t)) < MaxPerAsset

UsageOfAsset(t) ==
    /\ txn[t].pc = "asset"
    /\ Fits(t)
    /\ Become(t, [txn[t] EXCEPT !.pc = "insert"])
    /\ UNCHANGED <<upload, recorded, owner>>

Refuse(t) ==
    /\ txn[t].pc = "asset"
    /\ ~Fits(t)
    /\ End(t)
    /\ UNCHANGED <<upload, recorded>>

(* What the commit makes of the rows the transaction deleted.                *)
Without(t) ==
    [u \in Uploads |-> IF u \in Hidden(t) /\ u \in Stored
                       THEN [state |-> "gone"] ELSE upload[u]]

(* Fault: there is no unique constraint.                                     *)
InsertUnchecked(t, u) ==
    /\ txn[t].pc = "insert"
    /\ upload[u].state = "none"
    /\ upload' = [Without(t) EXCEPT ![u] =
                    [state |-> "stored", key |-> txn[t].key, old |-> FALSE]]
    /\ End(t)
    /\ UNCHANGED recorded

(* The insert waits for the deletion of a row with the same key.             *)
Insert(t, u) ==
    /\ txn[t].pc = "insert"
    /\ Equal(txn[t].key) \subseteq Hidden(t)
    /\ upload[u].state = "none"
    /\ upload' = [Without(t) EXCEPT ![u] =
                    [state |-> "stored", key |-> txn[t].key, old |-> FALSE]]
    /\ End(t)
    /\ UNCHANGED recorded

(* The unique constraint refuses a duplicate that was committed meanwhile.   *)
Conflict(t) ==
    /\ txn[t].pc = "insert"
    /\ \E u \in Equal(txn[t].key) \ Hidden(t) : Free(t, u)
    /\ End(t)
    /\ UNCHANGED <<upload, recorded>>

-----------------------------------------------------------------------------
(* A deletion of a row that is there; any other is answered "not found".     *)
Delete(t, u) ==
    /\ txn[t].pc = "idle"
    /\ u \in Stored
    /\ Become(t, [pc |-> "delete", target |-> u, hidden |-> {}])
    /\ UNCHANGED <<upload, recorded, owner>>

(* Fault: a row that someone else has locked is skipped.                     *)
DeleteSkipLocked(t) ==
    /\ txn[t].pc = "delete"
    /\ Become(t, [txn[t] EXCEPT !.pc = "record",
                    !.hidden = {u \in {txn[t].target} \cap Stored : Free(t, u)}])
    /\ UNCHANGED <<upload, recorded, owner>>

(* The row may be gone by now: whether one was deleted is not looked at.     *)
DeleteOwned(t) ==
    /\ txn[t].pc = "delete"
    /\ Free(t, txn[t].target)
    /\ Become(t, [txn[t] EXCEPT !.pc = "record", !.hidden = {txn[t].target} \cap Stored])
    /\ UNCHANGED <<upload, recorded, owner>>

Record(t) ==
    /\ txn[t].pc = "record"
    /\ owner = NoClient
    /\ upload' = Without(t)
    /\ recorded' = recorded \cup {txn[t].target}
    /\ End(t)

-----------------------------------------------------------------------------
(* Fault: the purge is committed although the upload is not.                 *)
RollbackKeepingPurge(t) ==
    /\ txn[t].pc # "idle"
    /\ upload' = Without(t)
    /\ End(t)
    /\ UNCHANGED recorded

(* The request ends without a commit: it is the victim of a deadlock, a      *)
(* statement timed out waiting for a lock, or the connection or the process  *)
(* is gone.                                                                  *)
Rollback(t) ==
    /\ txn[t].pc # "idle"
    /\ End(t)
    /\ UNCHANGED <<upload, recorded>>

(* The retention of a row runs out.                                          *)
Expire(u) ==
    /\ u \in Stored
    /\ ~upload[u].old
    /\ upload' = [upload EXCEPT ![u].old = TRUE]
    /\ UNCHANGED <<recorded, owner, txn>>

Advance(t) ==
    \/ LockOwner(t) \/ Purge(t) \/ UsageOfOwner(t) \/ UsageOfAsset(t)
    \/ Refuse(t) \/ Conflict(t) \/ DeleteOwned(t) \/ Record(t) \/ Rollback(t)
    \/ \E u \in Uploads : Insert(t, u)

Next ==
    \/ \E t \in Clients :
          \/ \E key \in Keys : Upload(t, key)
          \/ \E u \in Uploads : Delete(t, u)
          \/ Advance(t)
    \/ \E u \in Uploads : Expire(u)

Spec == Init /\ [][Next]_vars

-----------------------------------------------------------------------------
(* Safety.                                                                   *)

(* However many requests run at once, the owner stays within all three       *)
(* limits: uploads, uploads of one asset, and candles (docs/privacy.md:7,    *)
(* "per-user and per-asset upload limits, a total row budget").              *)
LimitsHold ==
    /\ Cardinality(Stored) <= MaxPerUser
    /\ \A asset \in Assets : Cardinality(Of(asset)) <= MaxPerAsset
    /\ Cardinality(CandlesOf(Stored)) <= MaxRowsPerUser

(* One content is stored once per asset, although the search for a duplicate *)
(* comes before the lock (docs/database_design.md:234).                      *)
StoredOnce ==
    \A u, v \in Stored : upload[u].key = upload[v].key => u = v

(* An upload that the audit log says was deleted is gone, whatever purge,    *)
(* refused upload or second deletion ran beside the deletion                 *)
(* (docs/privacy.md:12).                                                     *)
DeletedIsGone == recorded \cap Stored = {}

-----------------------------------------------------------------------------
(* Whatever the transactions do to each other on the way, the owner sees     *)
(* uploads and deletions that happen at once, each allowed when it happens.  *)
Ledger == INSTANCE UploadLedger WITH upload <- upload, recorded <- recorded
ImplementsLedger == Ledger!Spec
=============================================================================
