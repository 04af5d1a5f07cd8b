----------------------------- MODULE ServerVault -----------------------------
(***************************************************************************)
(* Encryption at rest on the server: the password and the key in memory    *)
(* and in auth.json (server/src/crypto.rs), the requests that authorize    *)
(* themselves and then take the key (server/src/api.rs), the rows and blob *)
(* files they read and write, and the migration that auth/setup runs over  *)
(* what was stored before there was a password (server/src/storage.rs).    *)
(*                                                                         *)
(* Handlers run on the threads of a multi-threaded runtime and share two   *)
(* mutexes: one around CryptoState, held within one action here, and one   *)
(* around the database (`db'), held across several.  Between two actions   *)
(* of a handler any other handler may run.                                 *)
(***************************************************************************)
EXTENDS Naturals, FiniteSets

CONSTANTS
    Entry,       \* entries, named by their content_hash
    WithBlob,    \* the entries that have a blob (one of their own)
    Lookalike,   \* the entries whose text starts with "ENC:1:" as it stands
    Password,
    Key,         \* data encryption keys the random generator may produce
    Request,     \* requests in flight, each reused when it is answered
    Migration,   \* the holder of `db' that is running encrypt_all_entries
    Ops,         \* the operations requests make
    None,
    MaxFaults    \* bound: kills and failed writes in one behaviour

Operations == {"create", "get", "list", "blob", "delete", "change", "lock"}

\* The contents of auth.json that matter: the password it verifies and the
\* key that password unwraps.
Auth == [pw : Password, key : Key]

ASSUME VaultAssumption ==
    /\ WithBlob \subseteq Entry /\ Lookalike \subseteq Entry
    /\ Ops \subseteq Operations
    /\ None \notin Entry \cup Password \cup Key \cup Request \cup Auth
    /\ Migration \notin Request \cup {None}
    /\ Key \cap {"none", "plain", "empty", "damaged"} = {}
    /\ MaxFaults \in Nat

VARIABLES
    disk,     \* auth.json: the password and the key it wraps, or None
    conf,     \* CryptoState.auth_config
    dek,      \* CryptoState.dek
    cache,    \* CryptoState.password_hash_cache
    text,     \* the text columns of each row: "none" is no row
    blob,     \* the blob file of each entry: "none" is no file
    db,       \* who holds the mutex of the database
    req,      \* per request: where it is, what it holds, what it answered
    mig,      \* the migration inside auth_setup
    faults,   \* kills and failures so far
    overtaken \* auxiliary: a lock fell between an authorization and its get_dek

session == <<disk, conf, dek, cache, overtaken>>
vars == <<session, text, blob, db, req, mig, faults>>

TextState == {"none", "plain"} \cup Key

\* "empty" is created or truncated and not yet filled; "damaged" is encrypted
\* in form, but its bytes are not, or not all, the entry's.
BlobState == {"none", "empty", "plain", "damaged"} \cup Key

\* "error" is a stored value that did not decrypt, "refused" and "failed" are
\* requests that were turned down or met a failed write.
Answer == {"nothing", "done", "refused", "failed", "missing",
           "plain", "cipher", "torn", "error"}

RequestState ==
    [at : {"idle", "authorized", "ready", "file", "fill", "insert"},
     op : Operations \cup {None}, e : Entry \cup {None},
     dek : Key \cup {None}, got : Answer]

\* `raced' is auxiliary: the files it read before they were filled.
MigrationState ==
    [at : {"idle", "rows", "encrypt", "files", "read", "truncate", "fill",
           "done", "failed", "cut"},
     key : Key \cup {None}, e : Entry \cup {None},
     left : SUBSET Entry, data : {"plain", "empty", "gone"},
     raced : SUBSET Entry]

TypeOK ==
    /\ disk \in Auth \cup {None} /\ conf \in Auth \cup {None}
    /\ dek \in Key \cup {None}
    /\ cache \in Password \cup {None}
    /\ text \in [Entry -> TextState]
    /\ blob \in [Entry -> BlobState]
    /\ db \in Request \cup {Migration, None}
    /\ req \in [Request -> RequestState]
    /\ mig \in MigrationState
    /\ faults \in 0..MaxFaults
    /\ overtaken \in BOOLEAN

Quiet == [at |-> "idle", op |-> None, e |-> None, dek |-> None, got |-> "nothing"]

NoMigration == [at |-> "idle", key |-> None, e |-> None, left |-> {}, data |-> "gone",
                raced |-> {}]

(***************************************************************************)
(* A store from before encryption: some rows, each with its whole file.    *)
(***************************************************************************)
Init ==
    /\ disk = None /\ conf = None /\ dek = None /\ cache = None
    /\ text \in [Entry -> {"none", "plain"}]
    /\ blob = [e \in Entry |-> IF e \in WithBlob THEN text[e] ELSE "none"]
    /\ db = None
    /\ req = [r \in Request |-> Quiet]
    /\ mig = NoMigration
    /\ faults = 0
    /\ overtaken = FALSE

Fault == faults < MaxFaults /\ faults' = faults + 1

\* (Mutant: the missing key is not noticed.)
StoredUnchecked(k) == k

\* What is stored for a plaintext by a request that holds key k, or none.
Stored(k) == IF k = None THEN "plain" ELSE k

\* What a reader that holds key k, or none, makes of entry e's text columns.
ReadText(e, k) ==
    CASE text[e] = "none"                      -> "missing"
      [] text[e] = "plain" /\ k = None         -> "plain"
      [] text[e] = "plain" /\ k # None         -> IF e \in Lookalike THEN "error" ELSE "plain"
      [] text[e] \in Key   /\ k = None         -> "cipher"
      [] text[e] \in Key   /\ k # None         -> IF text[e] = k THEN "plain" ELSE "error"

\* Likewise for the bytes of its file.  One that is being written comes back
\* cut short, or as an error when the cut leaves half a ciphertext: "torn".
ReadFile(e, k) ==
    CASE blob[e] = "none"    -> "missing"
      [] blob[e] = "empty"   -> "torn"
      [] blob[e] = "damaged" -> IF k = None THEN "cipher" ELSE "torn"
      [] blob[e] = "plain"   -> "plain"
      [] blob[e] \in Key     -> IF k = None THEN "cipher"
                                ELSE IF blob[e] = k THEN "plain" ELSE "error"

-----------------------------------------------------------------------------
(* Sessions                                                                *)

\* (Mutant: the slow path remembers the password and not the key.)
VerifyAndUnlockNoKey(pw) ==
    /\ conf # None
    /\ \/ cache = pw /\ UNCHANGED cache
       \/ cache # pw /\ conf.pw = pw /\ cache' = pw
    /\ UNCHANGED <<disk, conf, dek, overtaken>>

(***************************************************************************)
(* verify_and_unlock succeeds with pw: the cached password answers at once *)
(* and leaves memory alone, any other goes through auth.json's copy in     *)
(* memory and unwraps the key.  A wrong password changes nothing.          *)
(***************************************************************************)
VerifyAndUnlock(pw) ==
    /\ conf # None
    /\ \/ cache = pw /\ UNCHANGED <<dek, cache>>
       \/ cache # pw /\ conf.pw = pw /\ dek' = conf.key /\ cache' = pw
    /\ UNCHANGED <<disk, conf, overtaken>>

\* auth_unlock and health: the verification and nothing else that changes.
Unlock(pw) ==
    /\ VerifyAndUnlock(pw)
    /\ UNCHANGED <<text, blob, db, req, mig, faults>>

\* ensure_authorized, the first thing every other handler does.
Authorize(r, pw, what, e) ==
    /\ req[r].at = "idle" /\ what \in Ops
    /\ VerifyAndUnlock(pw)
    /\ req' = [req EXCEPT ![r] = [Quiet EXCEPT !.at = "authorized", !.op = what, !.e = e]]
    /\ UNCHANGED <<text, blob, db, mig, faults>>

\* get_dek: the key as it is by now, under the mutex a second time.
TakeDek(r) ==
    /\ req[r].at = "authorized"
    /\ req[r].op \in {"create", "get", "list", "blob"}
    /\ req' = [req EXCEPT ![r].at = "ready", ![r].dek = dek]
    /\ UNCHANGED <<session, text, blob, db, mig, faults>>

Answered(r, got) == req' = [req EXCEPT ![r] = [Quiet EXCEPT !.got = got]]

\* The lock of r overtakes a request that was authorized and has no key yet.
Overtakes(r) ==
    overtaken' = (overtaken \/ \E q \in Request \ {r} : req[q].at = "authorized")

\* (Mutant: locking forgets the key and not the password.)
LockKeepsCache(r) ==
    /\ req[r].at = "authorized" /\ req[r].op = "lock"
    /\ dek' = None
    /\ Overtakes(r) /\ Answered(r, "done")
    /\ UNCHANGED <<disk, conf, cache, text, blob, db, mig, faults>>

Lock(r) ==
    /\ req[r].at = "authorized" /\ req[r].op = "lock"
    /\ dek' = None /\ cache' = None
    /\ Overtakes(r) /\ Answered(r, "done")
    /\ UNCHANGED <<disk, conf, text, blob, db, mig, faults>>

\* (Mutant: a new password comes with a new key.)
ChangePasswordFreshKey(r, old, new) ==
    /\ req[r].at = "authorized" /\ req[r].op = "change"
    /\ IF conf.pw = old
       THEN \E k \in Key :
            /\ disk' = [pw |-> new, key |-> k] /\ conf' = [pw |-> new, key |-> k]
            /\ dek' = k /\ cache' = new
            /\ Answered(r, "done") /\ UNCHANGED overtaken
       ELSE Answered(r, "refused") /\ UNCHANGED session
    /\ UNCHANGED <<text, blob, db, mig, faults>>

(***************************************************************************)
(* change_password with the right old password: the same key under a new   *)
(* password, in auth.json first and then in memory.  A wrong old password  *)
(* puts the session back as it was.                                        *)
(***************************************************************************)
ChangePassword(r, old, new) ==
    /\ req[r].at = "authorized" /\ req[r].op = "change"
    /\ IF conf.pw = old
       THEN /\ disk' = [pw |-> new, key |-> conf.key]
            /\ conf' = [pw |-> new, key |-> conf.key]
            /\ dek' = conf.key /\ cache' = new
            /\ Answered(r, "done") /\ UNCHANGED overtaken
       ELSE Answered(r, "refused") /\ UNCHANGED session
    /\ UNCHANGED <<text, blob, db, mig, faults>>

\* auth.json cannot be written: the old password stays, freshly verified.
ChangePasswordFails(r) ==
    /\ req[r].at = "authorized" /\ req[r].op = "change"
    /\ Fault
    /\ dek' = conf.key /\ cache' = conf.pw
    /\ Answered(r, "failed")
    /\ UNCHANGED <<disk, conf, overtaken, text, blob, db, mig>>

-----------------------------------------------------------------------------
(* Rows and blobs                                                          *)

\* get_entry, and update_entry, which sets the star and then reads the row.
GetEntry(r) ==
    /\ req[r].at = "ready" /\ req[r].op = "get" /\ db = None
    /\ Answered(r, ReadText(req[r].e, req[r].dek))
    /\ UNCHANGED <<session, text, blob, db, mig, faults>>

\* list_entries: one row that does not decrypt fails the whole page.
ListEntries(r) ==
    /\ req[r].at = "ready" /\ req[r].op = "list" /\ db = None
    /\ LET page == {ReadText(e, req[r].dek) : e \in Entry} \ {"missing"} IN
        Answered(r, CASE "error" \in page -> "error"
                      [] "error" \notin page /\ "cipher" \in page -> "cipher"
                      [] page \subseteq {"plain"} -> "plain")
    /\ UNCHANGED <<session, text, blob, db, mig, faults>>

\* get_blob: the row first, under the mutex ...
FindBlob(r) ==
    /\ req[r].at = "ready" /\ req[r].op = "blob" /\ db = None
    /\ LET row == ReadText(req[r].e, req[r].dek) IN
        CASE row \in {"error", "missing"} -> Answered(r, row)
          [] row \notin {"error", "missing"} /\ req[r].e \notin WithBlob -> Answered(r, "missing")
          [] row \notin {"error", "missing"} /\ req[r].e \in WithBlob ->
                req' = [req EXCEPT ![r].at = "file"]
    /\ UNCHANGED <<session, text, blob, db, mig, faults>>

\* ... then the file, without it.
GetBlob(r) ==
    /\ req[r].at = "file"
    /\ Answered(r, ReadFile(req[r].e, req[r].dek))
    /\ UNCHANGED <<session, text, blob, db, mig, faults>>

(***************************************************************************)
(* create_entry.  A duplicate is answered with the row as this request     *)
(* reads it; otherwise the file, if there is none of that name, is created *)
(* and filled, and the row inserted, all under the mutex.                  *)
(***************************************************************************)
CreateEntry(r) ==
    /\ req[r].at = "ready" /\ req[r].op = "create" /\ db = None
    /\ LET e == req[r].e IN
        IF text[e] # "none"
        THEN Answered(r, ReadText(e, req[r].dek)) /\ UNCHANGED <<blob, db>>
        ELSE /\ db' = r
             /\ IF e \in WithBlob /\ blob[e] = "none"
                THEN /\ blob' = [blob EXCEPT ![e] = "empty"]
                     /\ req' = [req EXCEPT ![r].at = "fill"]
                ELSE req' = [req EXCEPT ![r].at = "insert"] /\ UNCHANGED blob
    /\ UNCHANGED <<session, text, mig, faults>>

FillBlob(r) ==
    /\ req[r].at = "fill"
    /\ blob' = [blob EXCEPT ![req[r].e] = Stored(req[r].dek)]
    /\ req' = [req EXCEPT ![r].at = "insert"]
    /\ UNCHANGED <<session, text, db, mig, faults>>

InsertRow(r) ==
    /\ req[r].at = "insert"
    /\ text' = [text EXCEPT ![req[r].e] = Stored(req[r].dek)]
    /\ db' = None
    /\ Answered(r, "done")
    /\ UNCHANGED <<session, blob, mig, faults>>

CreateFails(r) ==
    /\ req[r].at \in {"fill", "insert"}
    /\ Fault
    /\ db' = None
    /\ Answered(r, "failed")
    /\ UNCHANGED <<session, text, blob, mig>>

\* delete_entry needs no key.  A migration that has this file open for
\* writing goes on writing to a file without a name.
DeleteEntry(r) ==
    /\ req[r].at = "authorized" /\ req[r].op = "delete" /\ db = None
    /\ LET e == req[r].e IN
        IF text[e] = "none"
        THEN Answered(r, "missing") /\ UNCHANGED <<text, blob, mig>>
        ELSE /\ text' = [text EXCEPT ![e] = "none"]
             /\ blob' = [blob EXCEPT ![e] = "none"]
             /\ mig' = IF mig.at = "fill" /\ mig.e = e THEN [mig EXCEPT !.data = "gone"] ELSE mig
             /\ Answered(r, "done")
    /\ UNCHANGED <<session, db, faults>>

-----------------------------------------------------------------------------
(* Setting a password: auth_setup and its migration                        *)

(***************************************************************************)
(* Refused when a password is configured.  auth.json is written and memory *)
(* set before the crypto mutex is released; the migration then runs with a *)
(* copy of the key while other requests are already served.                *)
(***************************************************************************)
Setup(pw, k) ==
    /\ conf = None
    /\ disk' = [pw |-> pw, key |-> k] /\ conf' = [pw |-> pw, key |-> k]
    /\ dek' = k /\ cache' = pw /\ UNCHANGED overtaken
    /\ mig' = [NoMigration EXCEPT !.at = "rows", !.key = k]
    /\ UNCHANGED <<text, blob, db, req, faults>>

\* is_encrypted_text decides by the prefix alone.
NeedsEncryption(e) == text[e] = "plain" /\ e \notin Lookalike

\* encrypt_all_entries: all rows under one hold of the mutex, one UPDATE each.
LockRows ==
    /\ mig.at = "rows" /\ db = None
    /\ db' = Migration
    /\ mig' = [mig EXCEPT !.at = "encrypt"]
    /\ UNCHANGED <<session, text, blob, req, faults>>

EncryptRow(e) ==
    /\ mig.at = "encrypt" /\ NeedsEncryption(e)
    /\ text' = [text EXCEPT ![e] = mig.key]
    /\ UNCHANGED <<session, blob, db, req, mig, faults>>

\* The mutex is released and the directory opened for listing.
ListFiles ==
    /\ mig.at = "encrypt" /\ \A e \in Entry : ~NeedsEncryption(e)
    /\ db' = None
    /\ mig' = [mig EXCEPT !.at = "files", !.left = {e \in Entry : blob[e] # "none"}]
    /\ UNCHANGED <<session, text, blob, req, faults>>

\* encrypt_all_blobs takes the next name.  A file created since the listing
\* began may turn up in it, and a name whose file is gone is passed over.
NextFile(e) ==
    /\ mig.at = "files"
    /\ IF blob[e] # "none"
       THEN mig' = [mig EXCEPT !.at = "read", !.e = e, !.left = @ \ {e}]
       ELSE e \in mig.left /\ mig' = [mig EXCEPT !.left = @ \ {e}]
    /\ UNCHANGED <<session, text, blob, db, req, faults>>

\* The file is read; one that starts with the magic header is left alone,
\* and one that disappeared ends the migration with an error.
ReadNextFile ==
    /\ mig.at = "read"
    /\ \/ /\ blob[mig.e] = "none"
          /\ mig' = [mig EXCEPT !.at = "failed"]
       \/ /\ blob[mig.e] \in Key \cup {"damaged", "empty"}
          /\ mig' = [mig EXCEPT !.at = "files"]
       \/ /\ blob[mig.e] \in {"plain", "empty"}
          /\ mig' = [mig EXCEPT !.at = "truncate", !.data = blob[mig.e],
                                !.raced = IF blob[mig.e] = "empty" THEN @ \cup {mig.e} ELSE @]
    /\ UNCHANGED <<session, text, blob, db, req, faults>>

\* (Mutant: the file is opened for writing before it is read.)
TruncateFileFirst ==
    /\ mig.at = "truncate"
    /\ blob' = [blob EXCEPT ![mig.e] = "empty"]
    /\ mig' = [mig EXCEPT !.at = "fill", !.data = "empty"]
    /\ UNCHANGED <<session, text, db, req, faults>>

\* fs::write: open with truncation (creating the file if it is gone) ...
TruncateFile ==
    /\ mig.at = "truncate"
    /\ blob' = [blob EXCEPT ![mig.e] = "empty"]
    /\ mig' = [mig EXCEPT !.at = "fill"]
    /\ UNCHANGED <<session, text, db, req, faults>>

\* ... and write what was read, encrypted, into the file that was opened.
FillFile ==
    /\ mig.at = "fill"
    /\ blob' = CASE mig.data = "plain" -> [blob EXCEPT ![mig.e] = mig.key]
                 [] mig.data = "empty" -> [blob EXCEPT ![mig.e] = "damaged"]
                 [] mig.data = "gone"  -> blob
    /\ mig' = [mig EXCEPT !.at = "files"]
    /\ UNCHANGED <<session, text, db, req, faults>>

FinishMigration ==
    /\ mig.at = "files" /\ mig.left = {}
    /\ mig' = [mig EXCEPT !.at = "done"]
    /\ UNCHANGED <<session, text, blob, db, req, faults>>

\* (Mutant: an error of the migration is logged and the setup answers 200.)
MigrationFailsQuietly ==
    /\ mig.at \in {"encrypt", "read", "truncate", "fill"}
    /\ Fault
    /\ mig' = [mig EXCEPT !.at = "done"]
    /\ db' = IF mig.at = "encrypt" THEN None ELSE db
    /\ UNCHANGED <<session, text, blob, req>>

\* An UPDATE, a read or a write of the migration returns an error.
MigrationFails ==
    /\ mig.at \in {"encrypt", "read", "truncate", "fill"}
    /\ Fault
    /\ mig' = [mig EXCEPT !.at = "failed"]
    /\ db' = IF mig.at = "encrypt" THEN None ELSE db
    /\ UNCHANGED <<session, text, blob, req>>

-----------------------------------------------------------------------------
(***************************************************************************)
(* The process is killed and CryptoState::load starts the next one locked. *)
(* Nothing records that a migration was under way.                         *)
(***************************************************************************)
Restart ==
    /\ Fault
    /\ conf' = disk /\ dek' = None /\ cache' = None
    /\ db' = None
    /\ req' = [r \in Request |-> Quiet]
    /\ mig' = IF mig.at \in {"idle", "done", "failed"} THEN mig ELSE [mig EXCEPT !.at = "cut"]
    /\ UNCHANGED <<disk, overtaken, text, blob>>

Migrate ==
    \/ LockRows \/ ListFiles \/ ReadNextFile \/ TruncateFile \/ FillFile
    \/ FinishMigration \/ MigrationFails
    \/ \E e \in Entry : EncryptRow(e) \/ NextFile(e)

Serve(r) ==
    \/ \E pw \in Password, what \in Operations, e \in Entry : Authorize(r, pw, what, e)
    \/ TakeDek(r) \/ Lock(r)
    \/ \E old, new \in Password : ChangePassword(r, old, new)
    \/ ChangePasswordFails(r)
    \/ GetEntry(r) \/ ListEntries(r) \/ FindBlob(r) \/ GetBlob(r)
    \/ CreateEntry(r) \/ FillBlob(r) \/ InsertRow(r) \/ CreateFails(r)
    \/ DeleteEntry(r)

Next ==
    \/ \E r \in Request : Serve(r)
    \/ \E pw \in Password, k \in Key : Setup(pw, k)
    \/ \E pw \in Password : Unlock(pw)
    \/ Migrate
    \/ Restart

Spec == Init /\ [][Next]_vars

-----------------------------------------------------------------------------
(* Properties                                                              *)

(***************************************************************************)
(* Whatever is stored encrypted opens with the one key auth.json holds:    *)
(* no password change, restart or failed write ever strands a row or blob  *)
(* ("password change re-wraps the same DEK", ENCRYPTION.md).               *)
(***************************************************************************)
CiphertextHasItsKey ==
    \A e \in Entry :
        /\ text[e] \in Key => disk # None /\ text[e] = disk.key
        /\ blob[e] \in Key => disk # None /\ blob[e] = disk.key

(***************************************************************************)
(* The session in memory is always that of the password in auth.json: the  *)
(* fast path of verify_and_unlock never lets in a password that was        *)
(* changed, and never without a key to go with it.                         *)
(***************************************************************************)
SessionIsCurrent ==
    /\ conf = disk
    /\ cache = None <=> dek = None
    /\ cache # None => conf # None /\ cache = conf.pw /\ dek = conf.key

(***************************************************************************)
(* "Get the DEK. Returns `Some` after `ensure_authorized` has succeeded."  *)
(* (get_dek): a request that was authorized works with a key.              *)
(***************************************************************************)
DekAfterAuthorization ==
    \A r \in Request : req[r].at \in {"ready", "file", "fill", "insert"} => req[r].dek # None

(***************************************************************************)
(* A setup that answered 200 left nothing in the clear that the migration  *)
(* could tell from ciphertext, and nothing is stored in the clear          *)
(* afterwards, not by the requests that ran while it migrated and not      *)
(* after a restart, unless a lock overtook a request before its get_dek.   *)
(***************************************************************************)
MigratedMeansEncrypted ==
    mig.at = "done" /\ ~overtaken => \A e \in Entry : ~NeedsEncryption(e) /\ blob[e] # "plain"

(***************************************************************************)
(* No request is answered with what encryption made of a text or a blob,   *)
(* through password changes, locks and restarts, unless a lock overtook it *)
(* before its get_dek: an authorization always brings the key back.        *)
(***************************************************************************)
NoCiphertextServed == ~overtaken => \A r \in Request : req[r].got # "cipher"

(***************************************************************************)
(* The migration rewrites files that requests read, create and delete      *)
(* meanwhile.  When nothing fails, every row's file holds its bytes, in    *)
(* the clear or encrypted, except the one file it is rewriting and those   *)
(* it read while they were being created.                                  *)
(***************************************************************************)
BlobsKeepTheirBytes ==
    faults = 0 =>
      \A e \in WithBlob \ mig.raced : text[e] # "none" =>
        \/ blob[e] \in Key \cup {"plain"}
        \/ blob[e] = "empty" /\ mig.at = "fill" /\ mig.e = e
=============================================================================
