---------------------------- MODULE LocalHistory ----------------------------
(***************************************************************************)
(* The rows of one client, as src-tauri/src/storage.rs keeps them in its   *)
(* SQLite cache.  `content_hash` is unique there, so the cache is a        *)
(* function from content to a row or None.  Every operation below is one   *)
(* critical section of the client's database mutex.                        *)
(*                                                                         *)
(* `updated` is updated_at together with the clock that issued it: a       *)
(* device stamps its own edits, and a pulled row keeps the server's stamp. *)
(* The code compares two of them for equality only.  `edit` is auxiliary:  *)
(* the stamp of the capture that created the row here or of its last star  *)
(* toggle here, None for a row that was pulled and never toggled.          *)
(***************************************************************************)
EXTENDS Integers, FiniteSets

CONSTANTS Content,  \* what clipboard entries hold, up to content_hash
          None,     \* no row
          Clock     \* the devices and servers that issue timestamps

Stamp == [by : Clock, at : Nat]

LocalRow == [starred : BOOLEAN, synced : BOOLEAN, updated : Stamp,
             edit : Stamp \cup {None}]

\* The copy of a row that a push carries.
Snapshot == [key : Content, starred : BOOLEAN, updated : Stamp,
             edit : Stamp \cup {None}]

Cache == [Content -> LocalRow \cup {None}]

EmptyCache == [k \in Content |-> None]

\* A local capture: a known content only moves to the top, `synced` untouched.
InsertEntry(rows, k, now) ==
    [rows EXCEPT ![k] =
        IF rows[k] = None
        THEN [starred |-> FALSE, synced |-> FALSE, updated |-> now,
              edit |-> now]
        ELSE [rows[k] EXCEPT !.updated = now]]

\* Mutant: the toggle does not move updated_at.
FlipStarInPlace(rows, k, now) ==
    [rows EXCEPT ![k] =
        [rows[k] EXCEPT !.starred = ~@, !.synced = FALSE, !.edit = now]]

FlipStar(rows, k, now) ==
    [rows EXCEPT ![k] =
        [starred |-> ~rows[k].starred, synced |-> FALSE, updated |-> now,
         edit |-> now]]

\* A pulled row that content or id does not already identify here.
InsertRemoteEntry(rows, k, starred, updated) ==
    IF rows[k] # None THEN rows
    ELSE [rows EXCEPT ![k] =
            [starred |-> starred, synced |-> TRUE, updated |-> updated,
             edit |-> None]]

\* Mutant: a pulled star wins over an unsynced local one.
ApplyRemoteStarAlways(rows, k, starred, now) ==
    IF rows[k] = None \/ rows[k].starred = starred
    THEN rows
    ELSE [rows EXCEPT ![k] =
            [rows[k] EXCEPT !.starred = starred, !.updated = now]]

\* A pulled star never overwrites a local change that is still to be pushed.
ApplyRemoteStarState(rows, k, starred, now) ==
    IF \/ rows[k] = None
       \/ ~rows[k].synced
       \/ rows[k].starred = starred
    THEN rows
    ELSE [rows EXCEPT ![k] =
            [rows[k] EXCEPT !.starred = starred, !.updated = now]]

\* Mutant: whatever the row is by now.
MarkSynced(rows, k, pushed) ==
    IF rows[k] # None
    THEN [rows EXCEPT ![k] = [rows[k] EXCEPT !.synced = TRUE]]
    ELSE rows

\* The push acknowledgement: only if the row is still what was pushed.
MarkSyncedIfUnchanged(rows, k, pushed) ==
    IF rows[k] # None /\ rows[k].updated = pushed
    THEN [rows EXCEPT ![k] = [rows[k] EXCEPT !.synced = TRUE]]
    ELSE rows

RemoveEntry(rows, k) == [rows EXCEPT ![k] = None]

SnapshotOf(rows, k) ==
    [key |-> k, starred |-> rows[k].starred, updated |-> rows[k].updated,
     edit |-> rows[k].edit]

\* Mutant: a row that was copied again before its push is passed over.
UnsyncedAsCreated(rows) ==
    {SnapshotOf(rows, k) : k \in {c \in Content :
        rows[c] # None /\ ~rows[c].synced /\ rows[c].updated = rows[c].edit}}

Unsynced(rows) ==
    {SnapshotOf(rows, k) : k \in {c \in Content : rows[c] # None /\ ~rows[c].synced}}

\* One batch of get_unsynced_entries.  Which rows the LIMIT keeps (the oldest)
\* and the order they are pushed in are left open.
UnsyncedBatches(rows, limit) ==
    {b \in SUBSET Unsynced(rows) :
        \/ Cardinality(b) = limit
        \/ Cardinality(b) < limit /\ b = Unsynced(rows)}
=============================================================================
