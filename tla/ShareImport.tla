------------------------------ MODULE ShareImport ------------------------------
(***************************************************************************)
(* What other Android applications share, from the file it is staged in to *)
(* the history (CopywraithSharePlugin.kt, commands.rs).                    *)
(*                                                                         *)
(* A share becomes a batch: a JSON file among the pending shares, and one  *)
(* staged file for each of its items that is a file.  An import is a       *)
(* command of the backend.  The frontend gives up waiting for it but does  *)
(* not end it, so that two imports may run at once, and the process may be *)
(* killed between any two steps of either.                                 *)
(***************************************************************************)
EXTENDS ClipboardList

CONSTANTS
    Batch,      \* what may be shared
    Items,      \* by batch: its items, each a record of kind, content, usable
    Importer    \* imports that may run at the same time

ASSUME ShareImportAssumption ==
    /\ Importer \subseteq Nat
    /\ Items \in [Batch -> Seq([kind : {"text", "file", "other"}, content : Content,
                               usable : BOOLEAN])]

VARIABLES
    batch,      \* where the JSON file of a batch is
    files,      \* staged files that are there: <<batch, item>>
    importer,   \* per import: its step
    everStored  \* history: content that was once inserted

shareVars == <<batch, files, importer, everStored>>

NoImport == [at |-> "off", todo |-> {}, b |-> {}, i |-> 1, new |-> FALSE, err |-> FALSE,
             imported |-> FALSE]

FilesOf(b) == {<<b, i>> : i \in {j \in DOMAIN Items[b] : Items[b][j].kind = "file"}}

ShareTypeOK ==
    /\ batch \in [Batch -> {"none", "pending", "failed", "gone"}]
    /\ files \subseteq UNION {FilesOf(b) : b \in Batch}
    /\ \A m \in Importer :
         /\ importer[m].at \in {"off", "pick", "item", "unlink", "announce"}
         /\ importer[m].todo \subseteq Batch
    /\ everStored \subseteq Content

ShareInit ==
    /\ batch = [b \in Batch |-> "none"] /\ files = {}
    /\ importer = [m \in Importer |-> NoImport]
    /\ everStored = {}

(***************************************************************************)
(* handleShareIntent: the files are copied, then the batch is written      *)
(* under a temporary name and renamed; when that fails nothing is staged   *)
(* and the intent is kept for the next try.  A text that the Shizuku       *)
(* service reports is staged as a batch in the same way.                   *)
(***************************************************************************)
ShareStaged(b) ==
    /\ batch[b] = "none" /\ batch' = [batch EXCEPT ![b] = "pending"]
    /\ files' = files \cup FilesOf(b)
    /\ UNCHANGED <<importer, everStored>> /\ UNCHANGED listVars

\* The rows of others, and the events that tell of them, are all that the
\* list sees of what they do.
Frontend == UNCHANGED <<query, shown, selected, loading, loadingMore, hasMore, nextOffset,
                        timer, shownFor, failed>>

ListRest == Frontend /\ UNCHANGED <<star, listening, calls, raced>>

Goes(m, step) == importer' = [importer EXCEPT ![m] = step]

\* import_pending_shares, from its start to the reading of the directory.
BeginImport(m) ==
    /\ importer[m] = NoImport /\ \A n \in Importer : n < m => importer[n] # NoImport
    /\ Goes(m, [NoImport EXCEPT !.at = "pick", !.todo = {b \in Batch : batch[b] = "pending"}])

\* The next file of the directory, if it still is one.
PickBatch(m) ==
    /\ importer[m].at = "pick"
    /\ \E b \in importer[m].todo :
         LET rest == [importer[m] EXCEPT !.todo = @ \ {b}] IN
         Goes(m, IF batch[b] = "pending"
                 THEN [rest EXCEPT !.at = "item", !.b = b, !.i = 1, !.err = FALSE]
                 ELSE rest)
    /\ UNCHANGED <<batch, files, everStored, db, notices>> /\ ListRest

\* A batch that cannot be read or parsed is retained among the failed ones.
PickFails(m) ==
    /\ importer[m].at = "pick"
    /\ \E b \in importer[m].todo :
         /\ Goes(m, [importer[m] EXCEPT !.todo = @ \ {b}])
         /\ batch[b] = "pending" /\ batch' = [batch EXCEPT ![b] = "failed"]
    /\ UNCHANGED <<files, everStored, db, notices>> /\ ListRest

Item(m) == Items[importer[m].b][importer[m].i]

File(m) == <<importer[m].b, importer[m].i>>

AtItem(m) == importer[m].at = "item" /\ importer[m].i <= Len(Items[importer[m].b])

NextItem(m) == [importer[m] EXCEPT !.at = "item", !.i = @ + 1]

\* A text that is blank and an item of a kind that is not known are skipped.
SkipItem(m) ==
    /\ AtItem(m) /\ Item(m).kind # "file"
    /\ Item(m).kind = "other" \/ ~Item(m).usable
    /\ Goes(m, NextItem(m))
    /\ UNCHANGED <<batch, files, everStored, db, notices>> /\ ListRest

New(m) == Item(m).content \notin Range(db)

\* If a row that was there already moves to the top no event tells of it.
Insert(m) ==
    /\ db' = Inserted(Item(m).content) /\ everStored' = everStored \cup {Item(m).content}
    /\ IF New(m) \/ db' = db THEN UNCHANGED <<calls, raced>> ELSE Unheard
    /\ Frontend /\ UNCHANGED <<star, listening, notices>>

ImportText(m) ==
    /\ AtItem(m) /\ Item(m).kind = "text" /\ Item(m).usable
    /\ Insert(m)
    /\ Goes(m, IF New(m) THEN [importer[m] EXCEPT !.at = "announce"] ELSE NextItem(m))
    /\ UNCHANGED <<batch, files>>

\* A staged file that is empty or too large is dropped; one that is gone is
\* an error of the item.
FileUnusable(m) ==
    /\ AtItem(m) /\ Item(m).kind = "file" /\ File(m) \in files /\ ~Item(m).usable
    /\ files' = files \ {File(m)}
    /\ Goes(m, NextItem(m))
    /\ UNCHANGED <<batch, everStored, db, notices>> /\ ListRest

FileGone(m) ==
    /\ AtItem(m) /\ Item(m).kind = "file" /\ File(m) \notin files
    /\ Goes(m, [NextItem(m) EXCEPT !.err = TRUE])
    /\ UNCHANGED <<batch, files, everStored, db, notices>> /\ ListRest

ImportFile(m) ==
    /\ AtItem(m) /\ Item(m).kind = "file" /\ File(m) \in files /\ Item(m).usable
    /\ Insert(m)
    /\ Goes(m, [importer[m] EXCEPT !.at = "unlink", !.new = New(m)])
    /\ UNCHANGED <<batch, files>>

\* Once it is stored its staged file is removed.
UnlinkFile(m) ==
    /\ importer[m].at = "unlink"
    /\ files' = files \ {File(m)}
    /\ Goes(m, IF importer[m].new THEN [importer[m] EXCEPT !.at = "announce", !.new = FALSE]
               ELSE NextItem(m))
    /\ UNCHANGED <<batch, everStored, db, notices>> /\ ListRest

\* (Mutant: an item that failed is only counted as skipped.)
ItemSkipped(m) ==
    /\ AtItem(m) /\ Item(m).usable /\ Item(m).kind # "other"
    /\ Item(m).kind = "file" => File(m) \in files
    /\ Goes(m, NextItem(m))
    /\ UNCHANGED <<batch, files, everStored, db, notices>> /\ ListRest

\* The storage refuses the item; a staged file stays where it is.
ItemFails(m) ==
    /\ AtItem(m) /\ Item(m).usable /\ Item(m).kind # "other"
    /\ Item(m).kind = "file" => File(m) \in files
    /\ Goes(m, [NextItem(m) EXCEPT !.err = TRUE])
    /\ UNCHANGED <<batch, files, everStored, db, notices>> /\ ListRest

\* clipboard-updated, once per new row.
Announce(m) ==
    /\ importer[m].at = "announce" /\ Emit
    /\ Goes(m, [NextItem(m) EXCEPT !.imported = TRUE])
    /\ UNCHANGED <<batch, files, everStored, db, star, listening>> /\ Frontend

(***************************************************************************)
(* The end of a batch: it is removed, or moved to the failed ones if one   *)
(* of its items failed.  Either may fail itself, for instance because the  *)
(* other import was faster; a batch that is left is imported again.        *)
(***************************************************************************)
CloseBatch(m) ==
    /\ importer[m].at = "item" /\ importer[m].i > Len(Items[importer[m].b])
    /\ LET b == importer[m].b IN
       batch' = IF batch[b] # "pending" THEN batch
                ELSE [batch EXCEPT ![b] = IF importer[m].err THEN "failed" ELSE "gone"]
    /\ Goes(m, [importer[m] EXCEPT !.at = "pick"])
    /\ UNCHANGED <<files, everStored, db, notices>> /\ ListRest

CloseFails(m) ==
    /\ importer[m].at = "item" /\ importer[m].i > Len(Items[importer[m].b])
    /\ batch[importer[m].b] = "pending"
    /\ Goes(m, [importer[m] EXCEPT !.at = "pick"])
    /\ UNCHANGED <<batch, files, everStored, db, notices>> /\ ListRest

\* One more clipboard-updated if there was anything new.
EndImport(m) ==
    /\ importer[m].at = "pick" /\ importer[m].todo = {}
    /\ IF importer[m].imported THEN Emit ELSE UNCHANGED <<notices, calls, raced>>
    /\ Goes(m, NoImport)
    /\ UNCHANGED <<batch, files, everStored, db, star, listening>> /\ Frontend

Importing(m) ==
    \/ PickBatch(m) \/ SkipItem(m) \/ ImportText(m) \/ FileUnusable(m) \/ FileGone(m)
    \/ ImportFile(m) \/ UnlinkFile(m) \/ Announce(m) \/ CloseBatch(m)

ImportFails(m) == PickFails(m) \/ ItemFails(m) \/ CloseFails(m)

-----------------------------------------------------------------------------
(* Properties                                                              *)

(***************************************************************************)
(* Whatever has been staged is never lost: every usable item of a batch    *)
(* has been stored, or its batch is still pending or retained as failed    *)
(* and, if it is a file, so is the file.  This through kills at any step,  *)
(* failures of the storage and of the clean-up, and imports that overtake  *)
(* each other.                                                             *)
(***************************************************************************)
NoShareLost ==
    \A b \in Batch : batch[b] # "none" =>
      \A i \in DOMAIN Items[b] :
        LET item == Items[b][i] IN
        item.usable /\ item.kind # "other" =>
          \/ item.content \in everStored
          \/ batch[b] \in {"pending", "failed"} /\ (item.kind = "file" => <<b, i>> \in files)
=============================================================================
