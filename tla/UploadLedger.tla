----------------------------- MODULE UploadLedger -----------------------------
(***************************************************************************)
(* What StockUploads promises an owner: a table of uploads in which every  *)
(* change is one step.  An upload takes away only what has expired and is  *)
(* there only within the limits and once; a deletion is there with its     *)
(* record or not at all (docs/privacy.md, docs/database_design.md).        *)
(***************************************************************************)
EXTENDS Naturals, FiniteSets

CONSTANTS Uploads, Assets, Contents, Candles, MaxPerUser, MaxPerAsset, MaxRowsPerUser

VARIABLES upload,    \* upload[u]: the row u
          recorded   \* the rows whose deletion is on record

Stored(table) == {u \in Uploads : table[u].state = "stored"}
CandlesOf(table) ==
    UNION {{u} \X (1..Candles[table[u].key[2]]) : u \in Stored(table)}

Allowed(table) ==
    /\ Cardinality(Stored(table)) <= MaxPerUser
    /\ \A asset \in Assets :
          Cardinality({u \in Stored(table) : table[u].key[1] = asset}) <= MaxPerAsset
    /\ Cardinality(CandlesOf(table)) <= MaxRowsPerUser
    /\ \A u, v \in Stored(table) : table[u].key = table[v].key => u = v

Gone(rows) == [u \in Uploads |-> IF u \in rows THEN [state |-> "gone"] ELSE upload[u]]

Store(u, key, purged) ==
    /\ upload[u].state = "none"
    /\ \A v \in purged : upload[v].old
    /\ upload' = [Gone(purged) EXCEPT ![u] = [state |-> "stored", key |-> key, old |-> FALSE]]
    /\ Allowed(upload')
    /\ UNCHANGED recorded

(* A row that an upload purged while its owner deleted it is recorded too.   *)
Remove(u) ==
    /\ upload[u].state # "none"
    /\ upload' = Gone({u})
    /\ recorded' = recorded \cup {u}

Expire(u) ==
    /\ u \in Stored(upload)
    /\ upload' = [upload EXCEPT ![u].old = TRUE]
    /\ UNCHANGED recorded

Init == upload = [u \in Uploads |-> [state |-> "none"]] /\ recorded = {}

Next ==
    \E u \in Uploads :
        \/ \E key \in Assets \X Contents, purged \in SUBSET Stored(upload) : Store(u, key, purged)
        \/ Remove(u)
        \/ Expire(u)

Spec == Init /\ [][Next]_<<upload, recorded>>
=============================================================================
