------------------------------ MODULE BlobStore ------------------------------
(***************************************************************************)
(* One store's rows and the files beside them.                             *)
(*                                                                         *)
(* The client (src-tauri/src/storage.rs) and the server                    *)
(* (server/src/storage.rs) keep the bytes of an image outside SQLite, in a *)
(* directory of files named by the hash of their bytes, and share one      *)
(* discipline: a single mutex around the connection is held from the first *)
(* query of an insertion or a deletion to its last file operation, and     *)
(* get_blob reads the directory without it.  This module models that       *)
(* discipline for any number of threads (`Actor'): threads interleave      *)
(* between any two file or database operations, the process may be killed  *)
(* between any two of them, and each of them may fail.                     *)
(***************************************************************************)
EXTENDS Naturals, FiniteSets

CONSTANTS
    Content,    \* payloads, named by their content_hash (one row each)
    Blob,       \* blob hashes, which are the names of the files
    BlobOf,     \* the blob of a payload, or None for text
    Actor,      \* threads calling into the store
    None,       \* no blob, no holder of the mutex
    MaxFaults   \* bound: kills and failed operations in one behaviour

ASSUME BlobStoreAssumption ==
    /\ BlobOf \in [Content -> Blob \cup {None}]
    /\ None \notin Blob \cup Actor \cup Content
    /\ MaxFaults \in Nat

VARIABLES
    rows,     \* contents that have a committed row in `entries'
    files,    \* what the blob directory holds under each name
    db,       \* the thread that holds the connection's mutex
    op,       \* per thread: the operation under way and its last answer
    faults    \* kills and failures so far

vars == <<rows, files, db, op, faults>>

FileState == {"absent", "torn", "whole"}

Step == {"idle", "blob", "write", "row", "unlink", "look", "open"}

Answer == {"nothing", "missing", "error", "torn", "whole"}

Operation == [at : Step, c : Content \cup {None}, got : Answer, steady : BOOLEAN]

\* `steady': since this reader found its row, nobody deleted that row.
Idle == [at |-> "idle", c |-> None, got |-> "nothing", steady |-> FALSE]

TypeOK ==
    /\ rows \in SUBSET Content
    /\ files \in [Blob -> FileState]
    /\ db \in Actor \cup {None}
    /\ op \in [Actor -> Operation]
    /\ faults \in 0..MaxFaults

HasBlob(c) == BlobOf[c] # None

\* SELECT COUNT(*) ... WHERE blob_hash = ?: the rows that name this file.
References(b, in) == {c \in in : BlobOf[c] = b}

(***************************************************************************)
(* A store's constructor may meet files of an earlier process; an empty    *)
(* store and its later kills reach every such state, so it starts empty.   *)
(***************************************************************************)
Init ==
    /\ rows = {}
    /\ files = [b \in Blob |-> "absent"]
    /\ db = None
    /\ op = [a \in Actor |-> Idle]
    /\ faults = 0

Goto(a, step) == op' = [op EXCEPT ![a].at = step]

Return(a) == op' = [op EXCEPT ![a] = Idle] /\ db' = None

Fault == faults < MaxFaults /\ faults' = faults + 1

-----------------------------------------------------------------------------
(* Inserting: insert_entry, insert_remote_entry, the server's create_entry *)

\* (Mutant: the blob is written before the mutex is taken.)
BeginInsertUnlocked(a, c) ==
    /\ op[a].at = "idle" /\ db = None
    /\ c \notin rows
    /\ op' = [op EXCEPT ![a] = [Idle EXCEPT !.at = "blob", !.c = c]]
    /\ UNCHANGED <<rows, files, db, faults>>

(***************************************************************************)
(* The mutex is taken and the duplicate check made.  A duplicate (and, for *)
(* a pulled entry, an identity that is taken) returns at once with neither *)
(* a row nor a file touched, which is a stuttering step here.              *)
(***************************************************************************)
BeginInsert(a, c) ==
    /\ op[a].at = "idle" /\ db = None
    /\ c \notin rows
    /\ db' = a
    /\ op' = [op EXCEPT ![a] = [Idle EXCEPT !.at = "blob", !.c = c]]
    /\ UNCHANGED <<rows, files, faults>>

\* (Mutant: the row is committed, and the mutex released, before the bytes
\* are written.)
WriteBlobLater(a) ==
    /\ op[a].at = "blob"
    /\ LET b == BlobOf[op[a].c] IN
        IF b # None /\ files[b] = "absent"
        THEN /\ files' = [files EXCEPT ![b] = "torn"]
             /\ rows' = rows \cup {op[a].c} /\ db' = None
             /\ Goto(a, "write")
        ELSE Goto(a, "row") /\ UNCHANGED <<files, rows, db>>
    /\ UNCHANGED faults

(***************************************************************************)
(* write_blob: a name that exists is trusted to hold its bytes; otherwise  *)
(* fs::write creates the file and then fills it.                           *)
(***************************************************************************)
WriteBlob(a) ==
    /\ op[a].at = "blob"
    /\ LET b == BlobOf[op[a].c] IN
        IF b # None /\ files[b] = "absent"
        THEN files' = [files EXCEPT ![b] = "torn"] /\ Goto(a, "write")
        ELSE Goto(a, "row") /\ UNCHANGED files
    /\ UNCHANGED <<rows, db, faults>>

FillBlob(a) ==
    /\ op[a].at = "write"
    /\ files' = [files EXCEPT ![BlobOf[op[a].c]] = "whole"]
    /\ Goto(a, "row")
    /\ UNCHANGED <<rows, db, faults>>

\* (Mutant: the row is entered under the hash of its blob.)
CommitRowByBlob(a) ==
    /\ op[a].at = "row"
    /\ rows' = rows \cup {BlobOf[op[a].c]}
    /\ Return(a)
    /\ UNCHANGED <<files, faults>>

CommitRow(a) ==
    /\ op[a].at = "row"
    /\ rows' = rows \cup {op[a].c}
    /\ Return(a)
    /\ UNCHANGED <<files, faults>>

(***************************************************************************)
(* fs::write or the INSERT returns an error: `?' leaves the function, the  *)
(* transaction (if any) rolls back, and whatever was written stays.        *)
(***************************************************************************)
InsertFails(a) ==
    /\ op[a].at \in {"write", "row"}
    /\ Fault
    /\ Return(a)
    /\ UNCHANGED <<rows, files>>

-----------------------------------------------------------------------------
(* Deleting: delete_entry of both stores                                   *)

\* (Mutant: the deletion counts no other row.)
LastReferenceUncounted(c) == HasBlob(c)

\* The file goes with the last row that names it.
LastReference(c) == HasBlob(c) /\ References(BlobOf[c], rows \ {c}) = {}

DeleteEntry(a, c) ==
    /\ op[a].at = "idle" /\ db = None
    /\ c \in rows
    /\ rows' = rows \ {c}
    /\ db' = IF LastReference(c) THEN a ELSE None
    /\ op' = [x \in Actor |->
                IF x = a
                THEN IF LastReference(c) THEN [Idle EXCEPT !.at = "unlink", !.c = c] ELSE Idle
                ELSE IF op[x].c = c THEN [op[x] EXCEPT !.steady = FALSE] ELSE op[x]]
    /\ UNCHANGED <<files, faults>>

\* (Mutant: the file stays behind when its last row goes.)
UnlinkSkipped(a) ==
    /\ op[a].at = "unlink"
    /\ Return(a)
    /\ UNCHANGED <<rows, files, faults>>

Unlink(a) ==
    /\ op[a].at = "unlink"
    /\ files' = [files EXCEPT ![BlobOf[op[a].c]] = "absent"]
    /\ Return(a)
    /\ UNCHANGED <<rows, faults>>

\* `let _ = remove_file(..)', or the COUNT query returns an error.
UnlinkFails(a) ==
    /\ op[a].at = "unlink"
    /\ Fault
    /\ Return(a)
    /\ UNCHANGED <<rows, files>>

-----------------------------------------------------------------------------
(* Reading: get_blob, with the hash of a row read earlier, without the     *)
(* mutex                                                                   *)

FindRow(a, c) ==
    /\ op[a].at = "idle" /\ db = None
    /\ c \in rows /\ HasBlob(c)
    /\ op' = [op EXCEPT ![a] = [Idle EXCEPT !.at = "look", !.c = c, !.steady = TRUE]]
    /\ UNCHANGED <<rows, files, db, faults>>

Answered(a, got) == op' = [op EXCEPT ![a].at = "idle", ![a].got = got]

LookForBlob(a) ==
    /\ op[a].at = "look"
    /\ IF files[BlobOf[op[a].c]] = "absent"
       THEN Answered(a, "missing")
       ELSE Goto(a, "open")
    /\ UNCHANGED <<rows, files, db, faults>>

\* A file that is being filled is read as far as it has been filled.
ReadBlob(a) ==
    /\ op[a].at = "open"
    /\ CASE files[BlobOf[op[a].c]] = "absent" -> Answered(a, "error")
         [] files[BlobOf[op[a].c]] = "torn"   -> \E got \in {"torn", "whole"} : Answered(a, got)
         [] files[BlobOf[op[a].c]] = "whole"  -> Answered(a, "whole")
    /\ UNCHANGED <<rows, files, db, faults>>

-----------------------------------------------------------------------------
\* The process is killed and started again: rows and files are what is left.
Kill ==
    /\ Fault
    /\ db' = None
    /\ op' = [a \in Actor |-> Idle]
    /\ UNCHANGED <<rows, files>>

Next ==
    \/ \E a \in Actor :
        \/ \E c \in Content : BeginInsert(a, c) \/ DeleteEntry(a, c) \/ FindRow(a, c)
        \/ WriteBlob(a) \/ FillBlob(a) \/ CommitRow(a) \/ InsertFails(a)
        \/ Unlink(a) \/ UnlinkFails(a)
        \/ LookForBlob(a) \/ ReadBlob(a)
    \/ Kill

Spec == Init /\ [][Next]_vars

-----------------------------------------------------------------------------
(* Properties                                                              *)

(***************************************************************************)
(* A row's file exists, whatever is killed or fails and however insertions *)
(* and deletions of payloads that share a file interleave: "The file must  *)
(* exist before committing its row" (insert_remote_entry), and the mutex   *)
(* keeps a deletion from removing the file in between.                     *)
(***************************************************************************)
RowHasFile ==
    \A c \in rows : HasBlob(c) => files[BlobOf[c]] # "absent"

(***************************************************************************)
(* A get_blob whose row was not deleted while it ran finds bytes: the      *)
(* mutex it does not take is not needed, because no file disappears while  *)
(* a row names it, not even when another row with the same blob is deleted.*)
(***************************************************************************)
SteadyReadFindsBlob ==
    \A a \in Actor : op[a].at = "idle" /\ op[a].steady => op[a].got \in {"torn", "whole"}

(***************************************************************************)
(* When nothing has failed so far, such a reader gets all the bytes, though*)
(* a new payload with the same blob may be on its way in at the same time. *)
(***************************************************************************)
SteadyReadIsWhole ==
    faults = 0 =>
      \A a \in Actor : op[a].at = "idle" /\ op[a].steady => op[a].got = "whole"

(***************************************************************************)
(* When nothing has failed so far and no thread is inside the store, the   *)
(* directory holds exactly the files the rows name: nothing is left over.  *)
(***************************************************************************)
NoOrphanFile ==
    faults = 0 /\ db = None =>
      \A b \in Blob : files[b] # "absent" => References(b, rows) # {}
=============================================================================
