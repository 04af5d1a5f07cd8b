--------------------------- MODULE ServerHistory ---------------------------
(***************************************************************************)
(* The rows of one sync server, as server/src/storage.rs keeps them: a     *)
(* history is a function from content (what `content_hash` identifies) to  *)
(* the row that stores it, or None.  Every operation below runs under the  *)
(* server's database mutex and reads the clock under it, so the stamps of  *)
(* one history are distinct and grow with each write.                      *)
(*                                                                         *)
(* A row keeps the two fields sync depends on, `updated` (updated_at) and  *)
(* `starred`, and an auxiliary field, `edit`: the edit whose star the row  *)
(* shows.  No operation reads it.                                          *)
(***************************************************************************)
EXTENDS Integers, FiniteSets

CONSTANTS Content,  \* what clipboard entries hold, up to content_hash
          Edit,     \* what identifies an edit
          None      \* no row, no mark, no value

ServerRow == [updated : Nat, starred : BOOLEAN, edit : Edit]

History == [Content -> ServerRow \cup {None}]

EmptyHistory == [k \in Content |-> None]

(***************************************************************************)
(* POST /api/entries.  Content the server has moves to the top and takes   *)
(* the request's star, unless the request has none.                        *)
(***************************************************************************)
CreateEntry(h, k, starred, edit, now) ==
    [h EXCEPT ![k] =
        IF starred # None
        THEN [updated |-> now, starred |-> starred, edit |-> edit]
        ELSE IF h[k] = None
             THEN [updated |-> now, starred |-> FALSE, edit |-> edit]
             ELSE [h[k] EXCEPT !.updated = now]]

\* Mutant: the star does not move the row to the top.
UpdateEntryStarredInPlace(h, k, starred, edit, now) ==
    IF h[k] = None THEN h
    ELSE [h EXCEPT ![k] = [h[k] EXCEPT !.starred = starred, !.edit = edit]]

\* PATCH /api/entries/{id}: the star is an update and moves the row to the top.
UpdateEntryStarred(h, k, starred, edit, now) ==
    IF h[k] = None THEN h
    ELSE [h EXCEPT ![k] =
            [updated |-> now, starred |-> starred, edit |-> edit]]

\* DELETE /api/entries/{id}.  No tombstone is kept.
DeleteEntry(h, k) == [h EXCEPT ![k] = None]

(***************************************************************************)
(* GET /api/entries as the sync client asks for it: the newest `limit`     *)
(* rows, or the newest `limit` rows older than the cursor `before`.        *)
(***************************************************************************)
Item == [key : Content, updated : Nat, starred : BOOLEAN]

Items(h) ==
    {[key |-> k, updated |-> h[k].updated, starred |-> h[k].starred] :
        k \in {c \in Content : h[c] # None}}

ItemsBefore(h, before) ==
    {i \in Items(h) : before = None \/ i.updated < before}

NewestItems(items, limit) ==
    {i \in items : Cardinality({j \in items : i.updated < j.updated}) < limit}
=============================================================================
