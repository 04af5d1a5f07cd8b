-------------------------- MODULE ServerVaultProofs --------------------------
(***************************************************************************)
(* What TLAPS proves of ServerVault, for every set of entries, passwords,  *)
(* keys and requests and every bound on failures: the key in auth.json     *)
(* opens everything that is encrypted, the session in memory is that of    *)
(* the password in auth.json, no answer carries ciphertext, a finished     *)
(* migration leaves nothing in the clear, and rewriting the files while    *)
(* requests use them loses no bytes.                                       *)
(***************************************************************************)
EXTENDS ServerVault, TLAPS

\* Every copy of a key that is under way is the one auth.json wraps, and the
\* migration has taken a file before it reads or rewrites it.
KeysUnderWay ==
    /\ \A r \in Request :
        /\ req[r].dek \in Key => disk # None /\ req[r].dek = disk.key
        /\ req[r].at # "idle" => conf # None /\ req[r].e \in Entry
    /\ mig.at # "idle" => disk # None /\ mig.key = disk.key
    /\ mig.at \in {"read", "truncate", "fill"} => mig.e \in Entry

(***************************************************************************)
(* The inductive invariant.  CiphertextHasItsKey needs KeysUnderWay, since *)
(* requests and the migration write under copies of the key taken earlier, *)
(* and SessionIsCurrent, since those copies are taken from memory.         *)
(***************************************************************************)
Inv == TypeOK /\ SessionIsCurrent /\ CiphertextHasItsKey /\ KeysUnderWay

-----------------------------------------------------------------------------
(* The records of a request keep their type.                               *)

\* The record of a request that was answered is one of a request.
LEMMA QuietType ==
    ASSUME NEW got \in Answer
    PROVE  [Quiet EXCEPT !.got = got] \in RequestState
BY DEF Quiet, RequestState

\* An answer returns the request to idle and drops its key.
LEMMA AnsweredType ==
    ASSUME NEW r \in Request, NEW got \in Answer, req \in [Request -> RequestState],
           Answered(r, got)
    PROVE  req' \in [Request -> RequestState] /\ req'[r].dek = None /\ req'[r].at = "idle"
BY QuietType DEF Answered, Quiet

\* What a reader makes of a row that is there, or of none.
LEMMA ReadTextType ==
    ASSUME NEW e \in Entry, NEW k \in Key \cup {None}, text[e] \in TextState
    PROVE  ReadText(e, k) \in {"plain", "cipher", "error", "missing"}
BY VaultAssumption DEF ReadText, TextState

\* Likewise for a file.
LEMMA ReadFileType ==
    ASSUME NEW e \in Entry, NEW k \in Key \cup {None}, blob[e] \in BlobState
    PROVE  ReadFile(e, k) \in Answer
BY VaultAssumption DEF ReadFile, Answer, BlobState

\* Moving a request on, with the key it is given, keeps its record's type.
LEMMA MovedType ==
    ASSUME NEW q \in RequestState, NEW k \in Key \cup {None},
           NEW at \in {"idle", "authorized", "ready", "file", "fill", "insert"}
    PROVE  [q EXCEPT !.at = at, !.dek = k] \in RequestState /\ [q EXCEPT !.at = at] \in RequestState
BY DEF RequestState

\* What a request stores is in the clear or under the key it holds.
LEMMA StoredKey ==
    ASSUME NEW k \in Key \cup {None}
    PROVE  /\ Stored(k) \in {"plain"} \cup Key
           /\ Stored(k) \in Key => k \in Key /\ Stored(k) = k
BY VaultAssumption DEF Stored

\* A store from before encryption satisfies the invariant.
THEOREM InitInv == Init => Inv
<1> SUFFICES ASSUME Init PROVE Inv
    OBVIOUS
<1> USE VaultAssumption DEF Init
<1>1. TypeOK
    <2>1. req \in [Request -> RequestState]
      BY DEF RequestState, Answer, Quiet
    <2>2. mig \in MigrationState
      BY DEF MigrationState, NoMigration
    <2>3. text \in [Entry -> TextState] /\ blob \in [Entry -> BlobState]
      BY DEF TextState, BlobState
    <2>4. overtaken \in BOOLEAN
      OBVIOUS
    <2>5. faults \in 0..MaxFaults
      OBVIOUS
    <2> QED
      BY <2>1, <2>2, <2>3, <2>4, <2>5 DEF TypeOK
<1>2. SessionIsCurrent
    BY DEF SessionIsCurrent
<1>3. CiphertextHasItsKey
    BY DEF CiphertextHasItsKey
<1>4. KeysUnderWay
    BY DEF KeysUnderWay, Quiet, NoMigration
<1> QED
    BY <1>1, <1>2, <1>3, <1>4 DEF Inv

-----------------------------------------------------------------------------
(* Steps that leave a part of the state alone.                             *)

\* An answer alone disturbs nothing.
LEMMA AnswerKeepsInv ==
    ASSUME Inv, NEW r \in Request, NEW got \in Answer, Answered(r, got),
           UNCHANGED <<session, text, blob, db, mig, faults>>
    PROVE  Inv'
<1>1. req' \in [Request -> RequestState] /\ req'[r].dek = None /\ req'[r].at = "idle"
    BY AnsweredType DEF Inv, TypeOK
<1>2. \A q \in Request \ {r} : req'[q] = req[q]
    BY DEF Answered
<1>3. TypeOK' /\ SessionIsCurrent' /\ CiphertextHasItsKey'
    BY <1>1 DEF Inv, TypeOK, session, SessionIsCurrent, CiphertextHasItsKey
<1>4. KeysUnderWay'
    BY <1>1, <1>2, VaultAssumption DEF Inv, session, KeysUnderWay
<1> QED
    BY <1>3, <1>4 DEF Inv

\* No handler, no step of the migration and no restart breaks the invariant.
THEOREM StepInv == Inv /\ [Next]_vars => Inv'
<1> SUFFICES ASSUME Inv, [Next]_vars PROVE Inv'
    OBVIOUS
<1> USE VaultAssumption DEF Inv
<1>1. ASSUME NEW pw \in Password, Unlock(pw) PROVE Inv'
    <2>1. TypeOK'
      BY <1>1 DEF Unlock, VerifyAndUnlock, TypeOK, Auth
    <2>2. SessionIsCurrent'
      BY <1>1 DEF Unlock, VerifyAndUnlock, TypeOK, Auth, SessionIsCurrent
    <2>3. CiphertextHasItsKey' /\ KeysUnderWay'
      BY <1>1 DEF Unlock, VerifyAndUnlock, CiphertextHasItsKey, KeysUnderWay
    <2> QED
      BY <2>1, <2>2, <2>3
<1>2. ASSUME NEW pw \in Password, NEW k \in Key, Setup(pw, k) PROVE Inv'
    <2>1. TypeOK'
      BY <1>2 DEF Setup, TypeOK, Auth, NoMigration, MigrationState
    <2>2. SessionIsCurrent'
      BY <1>2 DEF Setup, TypeOK, Auth, SessionIsCurrent
    <2>3. CiphertextHasItsKey'
      BY <1>2 DEF Setup, SessionIsCurrent, CiphertextHasItsKey
    <2>4. KeysUnderWay'
      <3>1. disk = None /\ disk'.key = k /\ disk' # None /\ conf' # None
        BY <1>2 DEF Setup, SessionIsCurrent, Auth
      <3>2. mig'.key = k
        BY <1>2 DEF Setup, NoMigration
      <3> QED
        BY <1>2, <3>1, <3>2 DEF Setup, KeysUnderWay
    <2> QED
      BY <2>1, <2>2, <2>3, <2>4
<1>3. CASE Restart
    <2>1. TypeOK'
      BY <1>3 DEF Restart, Fault, TypeOK, Quiet, RequestState, Answer, MigrationState
    <2>2. SessionIsCurrent' /\ CiphertextHasItsKey' /\ KeysUnderWay'
      BY <1>3 DEF Restart, TypeOK, SessionIsCurrent, CiphertextHasItsKey, KeysUnderWay, Quiet,
                  MigrationState
    <2> QED
      BY <2>1, <2>2
<1>4. CASE Migrate
    <2> USE DEF session
    <2>1. CASE LockRows
      BY <1>4, <2>1 DEF LockRows, TypeOK, MigrationState, SessionIsCurrent,
                        CiphertextHasItsKey, KeysUnderWay
    <2>2. CASE ListFiles
      BY <1>4, <2>2 DEF ListFiles, TypeOK, MigrationState, SessionIsCurrent,
                        CiphertextHasItsKey, KeysUnderWay
    <2>3. CASE ReadNextFile
      <3>1. mig' \in MigrationState /\ mig'.key = mig.key /\ mig.at = "read" /\ mig'.e = mig.e
        <4>1. mig \in MigrationState /\ mig.at = "read"
          BY <2>3 DEF ReadNextFile, TypeOK
        <4>2. PICK seen \in SUBSET Entry :
                \/ mig' = [mig EXCEPT !.at = "failed"]
                \/ mig' = [mig EXCEPT !.at = "files"]
                \/ \E data \in {"plain", "empty"} :
                      mig' = [mig EXCEPT !.at = "truncate", !.data = data, !.raced = seen]
          <5>1. mig.raced \in SUBSET Entry /\ mig.e \in Entry
            BY <4>1 DEF KeysUnderWay, MigrationState
          <5> QED
            BY <2>3, <5>1 DEF ReadNextFile
        <4> QED
          BY <4>1, <4>2 DEF MigrationState
      <3>2. UNCHANGED <<session, text, blob, db, req, faults>>
        BY <2>3 DEF ReadNextFile
      <3> QED
        BY <3>1, <3>2 DEF TypeOK, SessionIsCurrent, CiphertextHasItsKey, KeysUnderWay
    <2>4. CASE TruncateFile
      BY <1>4, <2>4 DEF TruncateFile, TypeOK, BlobState, MigrationState, SessionIsCurrent,
                        CiphertextHasItsKey, KeysUnderWay
    <2>5. CASE FillFile
      BY <1>4, <2>5 DEF FillFile, TypeOK, Auth, BlobState, MigrationState, SessionIsCurrent,
                        CiphertextHasItsKey, KeysUnderWay
    <2>6. CASE FinishMigration
      BY <1>4, <2>6 DEF FinishMigration, TypeOK, MigrationState, SessionIsCurrent,
                        CiphertextHasItsKey, KeysUnderWay
    <2>7. CASE MigrationFails
      BY <1>4, <2>7 DEF MigrationFails, Fault, TypeOK, MigrationState, SessionIsCurrent,
                        CiphertextHasItsKey, KeysUnderWay
    <2>8. ASSUME NEW e \in Entry, EncryptRow(e) PROVE Inv'
      BY <2>8 DEF EncryptRow, TypeOK, Auth, TextState, MigrationState, SessionIsCurrent,
                  CiphertextHasItsKey, KeysUnderWay
    <2>9. ASSUME NEW e \in Entry, NextFile(e) PROVE Inv'
      <3>1. /\ mig' \in MigrationState /\ mig'.key = mig.key /\ mig.at = "files"
            /\ mig'.at = "read" => mig'.e = e
            /\ mig'.at \in {"read", "files"}
        <4>1. /\ mig \in MigrationState /\ mig.left \ {e} \in SUBSET Entry /\ mig.at = "files"
          BY <2>9 DEF NextFile, TypeOK, MigrationState
        <4>2. \/ mig' = [mig EXCEPT !.at = "read", !.e = e, !.left = mig.left \ {e}]
              \/ mig' = [mig EXCEPT !.left = mig.left \ {e}]
          BY <2>9 DEF NextFile
        <4> QED
          BY <4>1, <4>2 DEF MigrationState
      <3>2. UNCHANGED <<session, text, blob, db, req, faults>>
        BY <2>9 DEF NextFile
      <3> QED
        BY <3>1, <3>2 DEF TypeOK, SessionIsCurrent, CiphertextHasItsKey, KeysUnderWay
    <2> QED
      BY <1>4, <2>1, <2>2, <2>3, <2>4, <2>5, <2>6, <2>7, <2>8, <2>9 DEF Migrate
<1>5. ASSUME NEW r \in Request, Serve(r) PROVE Inv'
    <2>1. ASSUME NEW pw \in Password, NEW what \in Operations, NEW e \in Entry,
                 Authorize(r, pw, what, e) PROVE Inv'
      <3>1. TypeOK'
        BY <2>1 DEF Authorize, VerifyAndUnlock, TypeOK, Auth, Quiet, RequestState, Answer
      <3>2. SessionIsCurrent'
        BY <2>1 DEF Authorize, VerifyAndUnlock, TypeOK, Auth, SessionIsCurrent
      <3>3. CiphertextHasItsKey' /\ KeysUnderWay'
        BY <2>1 DEF Authorize, VerifyAndUnlock, TypeOK, CiphertextHasItsKey, KeysUnderWay, Quiet
      <3> QED
        BY <3>1, <3>2, <3>3
    <2>2. CASE TakeDek(r)
      <3>1. TypeOK'
        <4>1. [req[r] EXCEPT !.at = "ready", !.dek = dek] \in RequestState
          BY MovedType DEF TypeOK
        <4>2. req' = [req EXCEPT ![r] = [req[r] EXCEPT !.at = "ready", !.dek = dek]]
          BY <2>2 DEF TakeDek
        <4>3. req' \in [Request -> RequestState]
          BY <4>1, <4>2 DEF TypeOK
        <4> QED
          BY <2>2, <4>3 DEF TakeDek, session, TypeOK
      <3>2. SessionIsCurrent' /\ CiphertextHasItsKey'
        BY <2>2 DEF TakeDek, session, SessionIsCurrent, CiphertextHasItsKey
      <3>3. KeysUnderWay'
        BY <2>2 DEF TakeDek, session, TypeOK, SessionIsCurrent, KeysUnderWay
      <3> QED
        BY <3>1, <3>2, <3>3
    <2>3. CASE Lock(r)
      <3>1. req' \in [Request -> RequestState] /\ req'[r].dek = None /\ req'[r].at = "idle"
            /\ \A q \in Request \ {r} : req'[q] = req[q]
        BY <2>3, AnsweredType DEF Lock, TypeOK, Answer, Answered
      <3>2. TypeOK' /\ SessionIsCurrent'
        <4>1. overtaken' \in BOOLEAN
          BY <2>3 DEF Lock, Overtakes, TypeOK
        <4> QED
          BY <2>3, <3>1, <4>1 DEF Lock, TypeOK, SessionIsCurrent
      <3>3. CiphertextHasItsKey' /\ KeysUnderWay'
        BY <2>3, <3>1 DEF Lock, CiphertextHasItsKey, KeysUnderWay
      <3> QED
        BY <3>2, <3>3
    <2>4. ASSUME NEW old \in Password, NEW new \in Password, ChangePassword(r, old, new)
          PROVE Inv'
      <3>1. CASE conf.pw # old
        BY <2>4, <3>1, AnswerKeepsInv DEF ChangePassword, Answer
      <3>2. CASE conf.pw = old
        <4>1. /\ req' \in [Request -> RequestState] /\ req'[r].dek = None /\ req'[r].at = "idle"
              /\ \A q \in Request \ {r} : req'[q] = req[q]
          BY <2>4, <3>2, AnsweredType DEF ChangePassword, TypeOK, Answer, Answered
        <4>2. conf # None /\ conf \in Auth /\ disk = conf
          BY <2>4 DEF ChangePassword, TypeOK, SessionIsCurrent, KeysUnderWay
        <4>3. /\ disk' = [pw |-> new, key |-> conf.key] /\ conf' = disk'
              /\ dek' = conf.key /\ cache' = new
              /\ UNCHANGED <<overtaken, text, blob, db, mig, faults>>
          BY <2>4, <3>2 DEF ChangePassword
        <4>4. TypeOK'
          BY <4>1, <4>2, <4>3 DEF TypeOK, Auth
        <4>5. SessionIsCurrent'
          BY <4>2, <4>3 DEF SessionIsCurrent, Auth
        <4>6. CiphertextHasItsKey' /\ KeysUnderWay'
          BY <4>1, <4>2, <4>3 DEF CiphertextHasItsKey, KeysUnderWay, Auth
        <4> QED
          BY <4>4, <4>5, <4>6
      <3> QED
        BY <3>1, <3>2
    <2>5. CASE ChangePasswordFails(r)
      <3>1. /\ req' \in [Request -> RequestState] /\ req'[r].dek = None /\ req'[r].at = "idle"
            /\ \A q \in Request \ {r} : req'[q] = req[q]
        BY <2>5, AnsweredType DEF ChangePasswordFails, TypeOK, Answer, Answered
      <3>2. conf # None /\ conf \in Auth /\ disk = conf
        BY <2>5 DEF ChangePasswordFails, TypeOK, SessionIsCurrent, KeysUnderWay
      <3>3. TypeOK' /\ SessionIsCurrent'
        BY <2>5, <3>1, <3>2 DEF ChangePasswordFails, Fault, TypeOK, Auth, SessionIsCurrent
      <3>4. CiphertextHasItsKey' /\ KeysUnderWay'
        BY <2>5, <3>1 DEF ChangePasswordFails, CiphertextHasItsKey, KeysUnderWay
      <3> QED
        BY <3>3, <3>4
    <2> DEFINE Moved(at) == req' = [req EXCEPT ![r].at = at]
    <2>a. /\ text \in [Entry -> TextState] /\ blob \in [Entry -> BlobState]
          /\ req[r] \in RequestState /\ req[r].dek \in Key \cup {None}
          /\ {"plain", "cipher", "error", "missing", "done", "failed"} \subseteq Answer
      BY DEF TypeOK, RequestState, Answer
    <2>b. req[r].at # "idle" => ReadText(req[r].e, req[r].dek) \in Answer
                                /\ ReadFile(req[r].e, req[r].dek) \in Answer
      BY <2>a, ReadTextType, ReadFileType DEF KeysUnderWay
    <2>c. ASSUME NEW at \in {"file", "fill", "insert"}, Moved(at), req[r].at # "idle",
                 UNCHANGED <<session, mig>>
          PROVE  req' \in [Request -> RequestState] /\ KeysUnderWay'
      <3>1. [req[r] EXCEPT !.at = at] \in RequestState
        BY <2>a, MovedType
      <3>2. req' \in [Request -> RequestState]
        BY <2>c, <3>1 DEF TypeOK
      <3>3. \A q \in Request : /\ req'[q].dek = req[q].dek /\ req'[q].e = req[q].e
                               /\ req'[q].at # "idle" => req[q].at # "idle"
        BY <2>c DEF TypeOK
      <3>4. KeysUnderWay'
        BY <2>c, <3>3 DEF KeysUnderWay, session
      <3> QED
        BY <3>2, <3>4
    <2>d. ASSUME NEW got \in Answer, Answered(r, got), UNCHANGED <<session, mig>>
          PROVE  req' \in [Request -> RequestState] /\ KeysUnderWay'
      <3>1. req' \in [Request -> RequestState] /\ req'[r].dek = None /\ req'[r].at = "idle"
        BY <2>d, AnsweredType DEF TypeOK
      <3>2. \A q \in Request \ {r} : req'[q] = req[q]
        BY <2>d DEF Answered
      <3> QED
        BY <2>d, <3>1, <3>2 DEF KeysUnderWay, session
    <2>6. CASE GetEntry(r)
      BY <2>6, <2>b, AnswerKeepsInv DEF GetEntry
    <2>7. CASE ListEntries(r)
      <3>1. \E got \in {"error", "cipher", "plain"} : Answered(r, got)
        <4> DEFINE page == {ReadText(e, req[r].dek) : e \in Entry} \ {"missing"}
        <4>1. page \subseteq {"plain", "cipher", "error"}
          BY <2>a, ReadTextType
        <4>2. Answered(r, CASE "error" \in page -> "error"
                            [] "error" \notin page /\ "cipher" \in page -> "cipher"
                            [] page \subseteq {"plain"} -> "plain")
          BY <2>7 DEF ListEntries
        <4> HIDE DEF page
        <4> QED
          BY <4>1, <4>2
      <3> QED
        BY <2>7, <2>a, <3>1, AnswerKeepsInv DEF ListEntries
    <2>8. CASE FindBlob(r)
      <3> DEFINE row == ReadText(req[r].e, req[r].dek)
      <3>1. /\ UNCHANGED <<session, text, blob, db, mig, faults>>
            /\ req[r].at # "idle"
            /\ Answered(r, row) \/ Answered(r, "missing") \/ Moved("file")
        BY <2>8 DEF FindBlob
      <3>2. CASE Answered(r, row) \/ Answered(r, "missing")
        BY <2>a, <2>b, <3>1, <3>2, AnswerKeepsInv
      <3>3. CASE Moved("file")
        BY <2>c, <3>1, <3>3 DEF TypeOK, session, SessionIsCurrent, CiphertextHasItsKey
      <3> QED
        BY <3>1, <3>2, <3>3
    <2>9. CASE GetBlob(r)
      BY <2>9, <2>b, AnswerKeepsInv DEF GetBlob
    <2>10. CASE CreateEntry(r)
      <3>1. CASE text[req[r].e] # "none"
        BY <2>10, <2>b, <3>1, AnswerKeepsInv DEF CreateEntry
      <3>2. CASE text[req[r].e] = "none"
        <4>1. /\ UNCHANGED <<session, text, mig, faults>> /\ db' = r /\ req[r].at # "idle"
              /\ Moved("fill") \/ Moved("insert")
              /\ blob' = blob \/ blob' = [blob EXCEPT ![req[r].e] = "empty"]
          BY <2>10, <3>2 DEF CreateEntry
        <4>2. req' \in [Request -> RequestState] /\ KeysUnderWay'
          BY <2>c, <4>1
        <4>3. blob' \in [Entry -> BlobState] /\ \A e \in Entry : blob'[e] \in Key => blob'[e] = blob[e]
          BY <2>a, <4>1 DEF BlobState
        <4>4. TypeOK' /\ SessionIsCurrent'
          BY <4>1, <4>2, <4>3 DEF TypeOK, session, SessionIsCurrent
        <4>5. CiphertextHasItsKey'
          BY <4>1, <4>3 DEF session, CiphertextHasItsKey
        <4> QED
          BY <4>2, <4>4, <4>5
      <3> QED
        BY <3>1, <3>2
    <2>e. /\ Stored(req[r].dek) \in {"plain"} \cup Key
          /\ Stored(req[r].dek) \in Key => disk # None /\ Stored(req[r].dek) = disk.key
      BY <2>a, StoredKey DEF KeysUnderWay
    <2>11. CASE FillBlob(r)
      <3>1. req' \in [Request -> RequestState] /\ KeysUnderWay'
        BY <2>11, <2>c DEF FillBlob
      <3>2. TypeOK' /\ SessionIsCurrent'
        BY <2>11, <2>a, <2>e, <3>1 DEF FillBlob, TypeOK, BlobState, session, SessionIsCurrent
      <3>3. CiphertextHasItsKey'
        BY <2>11, <2>a, <2>e DEF FillBlob, session, CiphertextHasItsKey
      <3> QED
        BY <3>1, <3>2, <3>3
    <2>12. CASE InsertRow(r)
      <3>1. req' \in [Request -> RequestState] /\ KeysUnderWay'
        BY <2>12, <2>a, <2>d DEF InsertRow
      <3>2. TypeOK' /\ SessionIsCurrent'
        BY <2>12, <2>a, <2>e, <3>1 DEF InsertRow, TypeOK, TextState, session, SessionIsCurrent
      <3>3. CiphertextHasItsKey'
        BY <2>12, <2>a, <2>e DEF InsertRow, session, CiphertextHasItsKey
      <3> QED
        BY <3>1, <3>2, <3>3
    <2>13. CASE CreateFails(r)
      <3>1. req' \in [Request -> RequestState] /\ KeysUnderWay'
        BY <2>13, <2>a, <2>d DEF CreateFails
      <3>2. TypeOK' /\ SessionIsCurrent' /\ CiphertextHasItsKey'
        BY <2>13, <3>1 DEF CreateFails, Fault, TypeOK, session, SessionIsCurrent,
                           CiphertextHasItsKey
      <3> QED
        BY <3>1, <3>2
    <2>14. CASE DeleteEntry(r)
      <3>1. CASE text[req[r].e] = "none"
        <4>1. Answered(r, "missing") /\ UNCHANGED <<session, text, blob, db, mig, faults>>
          BY <2>14, <3>1 DEF DeleteEntry
        <4> QED
          BY <4>1, <2>a, AnswerKeepsInv
      <3>2. CASE text[req[r].e] # "none"
        <4>1. /\ text' = [text EXCEPT ![req[r].e] = "none"]
              /\ blob' = [blob EXCEPT ![req[r].e] = "none"]
              /\ mig' = mig \/ mig' = [mig EXCEPT !.data = "gone"]
              /\ Answered(r, "done")
              /\ UNCHANGED <<session, db, faults>>
          BY <2>14, <3>2 DEF DeleteEntry
        <4>2. req' \in [Request -> RequestState] /\ req'[r].dek = None /\ req'[r].at = "idle"
              /\ \A q \in Request \ {r} : req'[q] = req[q]
          BY <4>1, <2>a, AnsweredType DEF Answered, TypeOK
        <4>3. mig' \in MigrationState /\ mig'.at = mig.at /\ mig'.key = mig.key /\ mig'.e = mig.e
          BY <4>1 DEF TypeOK, MigrationState
        <4>4. TypeOK' /\ SessionIsCurrent'
          BY <2>a, <4>1, <4>2, <4>3 DEF TypeOK, TextState, BlobState, session, SessionIsCurrent
        <4>5. CiphertextHasItsKey' /\ KeysUnderWay'
          BY <2>a, <4>1, <4>2, <4>3 DEF session, CiphertextHasItsKey, KeysUnderWay
        <4> QED
          BY <4>4, <4>5
      <3> QED
        BY <3>1, <3>2
    <2> QED
      BY <1>5, <2>1, <2>2, <2>3, <2>4, <2>5, <2>6, <2>7, <2>8, <2>9, <2>10, <2>11, <2>12, <2>13,
         <2>14 DEF Serve
<1>6. CASE UNCHANGED vars
    BY <1>6 DEF vars, session, TypeOK, SessionIsCurrent, CiphertextHasItsKey, KeysUnderWay
<1> QED
    BY <1>1, <1>2, <1>3, <1>4, <1>5, <1>6 DEF Next

\* The invariant holds throughout.
THEOREM InvAlways == Spec => []Inv
BY InitInv, StepInv, PTL DEF Spec

(***************************************************************************)
(* No sequence of setups, password changes, locks, restarts and failed     *)
(* writes, however it interleaves with requests and the migration, leaves  *)
(* a row or a blob encrypted under a key that auth.json does not hold.     *)
(***************************************************************************)
THEOREM EverythingOpensWithTheStoredKey == Spec => []CiphertextHasItsKey
<1>1. Inv => CiphertextHasItsKey
    BY DEF Inv
<1> QED
    BY <1>1, InvAlways, PTL

(***************************************************************************)
(* The password the fast path compares with is always the one in auth.json *)
(* and comes with its key.                                                 *)
(***************************************************************************)
THEOREM SessionAlwaysCurrent == Spec => []SessionIsCurrent
<1>1. Inv => SessionIsCurrent
    BY DEF Inv
<1> QED
    BY <1>1, InvAlways, PTL
-----------------------------------------------------------------------------
(***************************************************************************)
(* The texts and blobs, beyond the keys they are encrypted under.          *)
(***************************************************************************)

\* Every request under way has a key, or will find one when it asks for it.
Provided ==
    \A r \in Request :
        /\ req[r].at = "authorized" => dek # None
        /\ req[r].at \in {"ready", "file", "fill", "insert"} => req[r].dek # None
        /\ req[r].got # "cipher"

\* How far the migration has come: the rows are done before the files are
\* listed, and a file in the clear is one it has still to rewrite.
RowsSealed ==
    mig.at \in {"files", "read", "truncate", "fill", "done"} =>
        \A e \in Entry : ~NeedsEncryption(e)

FilesSealed ==
    \A e \in Entry : blob[e] = "plain" =>
        /\ mig.at \in {"files", "fill"} => e \in mig.left
        /\ mig.at \in {"read", "truncate"} => e \in mig.left \cup {mig.e}
        /\ mig.at # "done"

(***************************************************************************)
(* Strengthens NoCiphertextServed and MigratedMeansEncrypted, neither of   *)
(* which is inductive: a request that holds no key would be answered with  *)
(* ciphertext, and store in the clear, a few steps later.                  *)
(***************************************************************************)
Sealed == ~overtaken => Provided /\ RowsSealed /\ FilesSealed

\* A request that writes holds the mutex, and its row is not there yet.
SoleWriter ==
    /\ \A r \in Request : req[r].at \in {"fill", "insert"} => db = r /\ text[req[r].e] = "none"
    /\ mig.at = "encrypt" => db = Migration

\* A file holds its bytes, or is being written by the migration or by a
\* request; the migration has them in memory.
FilesWhole ==
    \A e \in WithBlob \ mig.raced :
        \/ blob[e] \in Key \cup {"plain", "none"}
        \/ blob[e] = "empty" /\ mig.at = "fill" /\ mig.e = e /\ mig.data = "plain"
        \/ blob[e] = "empty" /\ \E r \in Request : req[r].at = "fill" /\ req[r].e = e

\* A row that is there, or about to be, has a file.
FilesThere ==
    /\ \A e \in WithBlob : text[e] # "none" => blob[e] # "none"
    /\ \A r \in Request : req[r].at = "insert" /\ req[r].e \in WithBlob => blob[req[r].e] # "none"

\* What the migration has in memory.
InMemory ==
    /\ mig.at = "truncate" => mig.data # "gone"
    /\ mig.at \in {"truncate", "fill"} /\ mig.data = "empty" => mig.e \in mig.raced
    /\ mig.at = "idle" => mig.raced = {}

\* Strengthens BlobsKeepTheirBytes.
Faithful == faults = 0 => SoleWriter /\ FilesWhole /\ FilesThere /\ InMemory

-----------------------------------------------------------------------------
(* Nothing in the clear, nothing encrypted in an answer                    *)

\* With a key in hand no reader returns ciphertext, and no writer stores
\* plaintext.
LEMMA KeyInHand ==
    ASSUME NEW e \in Entry, NEW k \in Key, text[e] \in TextState, blob[e] \in BlobState
    PROVE  /\ ReadText(e, k) \in {"plain", "error", "missing"}
           /\ ReadFile(e, k) \in {"plain", "torn", "error", "missing"}
           /\ Stored(k) \in Key /\ Stored(k) # "plain"
BY VaultAssumption DEF ReadText, ReadFile, Stored, TextState, BlobState

\* An answer in the clear keeps every request provided, if memory keeps its key.
LEMMA AnswerKeepsProvided ==
    ASSUME Inv, Provided, NEW r \in Request, NEW got \in Answer \ {"cipher"}, Answered(r, got),
           dek' # None \/ (\A q \in Request \ {r} : req[q].at = "authorized" => dek' = dek)
    PROVE  Provided'
<1>1. req'[r] = [Quiet EXCEPT !.got = got] /\ \A q \in Request \ {r} : req'[q] = req[q]
    BY DEF Answered, Inv, TypeOK
<1>2. req'[r].at = "idle" /\ req'[r].got # "cipher"
    BY <1>1 DEF Quiet
<1> QED
    BY <1>1, <1>2 DEF Provided

\* So does moving a request on, once it has its key.
LEMMA MoveKeepsProvided ==
    ASSUME Inv, Provided, NEW r \in Request, NEW at \in {"file", "fill", "insert"},
           req' = [req EXCEPT ![r].at = at], req[r].dek # None, dek' = dek
    PROVE  Provided'
<1>1. /\ req'[r].at = at /\ req'[r].dek = req[r].dek /\ req'[r].got = req[r].got
      /\ \A q \in Request \ {r} : req'[q] = req[q]
    BY DEF Inv, TypeOK, RequestState
<1> QED
    BY <1>1 DEF Provided

\* The two conditions on what is stored survive a step that stores nothing in
\* the clear and leaves the migration alone.
LEMMA StoreKeepsSealed ==
    ASSUME RowsSealed, FilesSealed,
           \A e \in Entry : text'[e] = "plain" => text[e] = "plain",
           \A e \in Entry : blob'[e] = "plain" => blob[e] = "plain",
           mig' = mig \/ (/\ mig'.at = mig.at /\ mig'.e = mig.e /\ mig'.left = mig.left)
    PROVE  RowsSealed' /\ FilesSealed'
BY DEF RowsSealed, FilesSealed, NeedsEncryption

\* The lemma for the steps of the migration.
LEMMA MigrateSealed ==
    ASSUME Inv, Sealed, Migrate
    PROVE  Sealed'
<1> SUFFICES ASSUME ~overtaken' PROVE Provided' /\ RowsSealed' /\ FilesSealed'
    BY DEF Sealed
<1> USE VaultAssumption
<1>a. UNCHANGED <<session, req>>
    BY DEF Migrate, LockRows, ListFiles, ReadNextFile, TruncateFile, FillFile, FinishMigration,
           MigrationFails, EncryptRow, NextFile
<1>b. Provided /\ RowsSealed /\ FilesSealed /\ UNCHANGED dek
    BY <1>a DEF session, Sealed
<1>c. Provided'
    BY <1>a, <1>b DEF Provided
<1>d. mig \in MigrationState /\ text \in [Entry -> TextState] /\ blob \in [Entry -> BlobState]
    BY DEF Inv, TypeOK
<1>1. CASE LockRows
    BY <1>b, <1>c, <1>d, <1>1 DEF LockRows, RowsSealed, FilesSealed, MigrationState
<1>2. CASE ListFiles
    BY <1>b, <1>c, <1>d, <1>2 DEF ListFiles, RowsSealed, FilesSealed, MigrationState,
                                  NeedsEncryption
<1>3. CASE ReadNextFile
    <2>1. /\ UNCHANGED <<text, blob>> /\ mig.at = "read"
          /\ mig'.left = mig.left /\ mig'.e = mig.e
          /\ \/ mig'.at = "failed"
             \/ mig'.at = "files" /\ blob[mig.e] # "plain"
             \/ mig'.at = "truncate"
      BY <1>d, <1>3 DEF ReadNextFile, MigrationState
    <2> QED
      BY <1>b, <1>c, <2>1 DEF RowsSealed, FilesSealed, NeedsEncryption
<1>4. CASE TruncateFile
    <2>1. /\ UNCHANGED text /\ mig.at = "truncate" /\ mig'.at = "fill"
          /\ mig'.left = mig.left /\ mig'.e = mig.e
          /\ blob' = [blob EXCEPT ![mig.e] = "empty"]
      BY <1>d, <1>4 DEF TruncateFile, MigrationState
    <2> QED
      BY <1>b, <1>c, <1>d, <2>1 DEF RowsSealed, FilesSealed, NeedsEncryption
<1>5. CASE FillFile
    <2>1. /\ UNCHANGED text /\ mig.at = "fill" /\ mig'.at = "files"
          /\ mig'.left = mig.left /\ mig.key \in Key \cup {None}
      BY <1>d, <1>5 DEF FillFile, MigrationState
    <2>2. mig.key \in Key
      BY <2>1 DEF Inv, KeysUnderWay, TypeOK, Auth
    <2>3. \A e \in Entry : blob'[e] = "plain" => blob[e] = "plain"
      BY <1>d, <1>5, <2>2 DEF FillFile, MigrationState
    <2> QED
      BY <1>b, <1>c, <2>1, <2>3 DEF RowsSealed, FilesSealed, NeedsEncryption
<1>6. CASE FinishMigration
    <2>1. UNCHANGED <<text, blob>> /\ mig.at = "files" /\ mig'.at = "done" /\ mig.left = {}
      BY <1>d, <1>6 DEF FinishMigration, MigrationState
    <2> QED
      BY <1>b, <1>c, <2>1 DEF RowsSealed, FilesSealed, NeedsEncryption
<1>7. CASE MigrationFails
    <2>1. UNCHANGED <<text, blob>> /\ mig'.at = "failed"
      BY <1>d, <1>7 DEF MigrationFails, MigrationState
    <2> QED
      BY <1>b, <1>c, <2>1 DEF RowsSealed, FilesSealed, NeedsEncryption
<1>8. ASSUME NEW e \in Entry, EncryptRow(e) PROVE RowsSealed' /\ FilesSealed'
    <2>1. UNCHANGED <<blob, mig>> /\ mig.at = "encrypt"
      BY <1>8 DEF EncryptRow
    <2> QED
      BY <1>b, <2>1 DEF RowsSealed, FilesSealed
<1>9. ASSUME NEW e \in Entry, NextFile(e) PROVE RowsSealed' /\ FilesSealed'
    <2>1. /\ UNCHANGED <<text, blob>> /\ mig.at = "files" /\ mig'.left = mig.left \ {e}
          /\ \/ mig'.at = "read" /\ mig'.e = e
             \/ mig'.at = "files" /\ blob[e] = "none"
      BY <1>d, <1>9 DEF NextFile, MigrationState
    <2> QED
      BY <1>b, <2>1 DEF RowsSealed, FilesSealed, NeedsEncryption
<1> QED
    BY <1>c, <1>1, <1>2, <1>3, <1>4, <1>5, <1>6, <1>7, <1>8, <1>9 DEF Migrate

\* The lemma for the steps of a request.
LEMMA ServeSealed ==
    ASSUME Inv, Sealed, NEW r \in Request, Serve(r)
    PROVE  Sealed'
<1> SUFFICES ASSUME ~overtaken' PROVE Provided' /\ RowsSealed' /\ FilesSealed'
    BY DEF Sealed
<1> USE VaultAssumption
<1> DEFINE q == req[r]
<1>a. ~overtaken
    BY DEF Serve, Authorize, VerifyAndUnlock, TakeDek, Lock, Overtakes, ChangePassword,
           ChangePasswordFails, GetEntry, ListEntries, FindBlob, GetBlob, CreateEntry, FillBlob,
           InsertRow, CreateFails, DeleteEntry, session
<1>b. Provided /\ RowsSealed /\ FilesSealed
    BY <1>a DEF Sealed
<1>c. /\ mig \in MigrationState /\ text \in [Entry -> TextState] /\ blob \in [Entry -> BlobState]
      /\ req \in [Request -> RequestState] /\ conf \in Auth \cup {None} /\ SessionIsCurrent
      /\ {"nothing", "done", "refused", "failed", "missing", "plain", "torn", "error"}
            \subseteq Answer \ {"cipher"}
    BY DEF Inv, TypeOK, Answer
<1>d. conf # None => conf.key \in Key
    BY <1>c DEF Auth
<1>e. q.at # "idle" => q.e \in Entry /\ conf # None
    BY DEF Inv, KeysUnderWay
<1>f. ASSUME q.at \in {"ready", "file", "fill", "insert"}
      PROVE  /\ q.dek \in Key
             /\ ReadText(q.e, q.dek) \in {"plain", "error", "missing"}
             /\ ReadFile(q.e, q.dek) \in {"plain", "torn", "error", "missing"}
             /\ Stored(q.dek) \in Key /\ Stored(q.dek) # "plain"
    <2>1. q.dek \in Key
      BY <1>b, <1>c, <1>f DEF Provided, RequestState
    <2> QED
      BY <1>c, <1>e, <1>f, <2>1, KeyInHand
\* A step that answers in the clear and stores nothing new.
<1>g. ASSUME NEW got \in Answer \ {"cipher"}, Answered(r, got), UNCHANGED <<text, blob, mig>>,
             dek' # None \/ dek' = dek
      PROVE  Provided' /\ RowsSealed' /\ FilesSealed'
    BY <1>b, <1>g, AnswerKeepsProvided, StoreKeepsSealed
<1>1. ASSUME NEW pw \in Password, NEW what \in Operations, NEW e \in Entry,
             Authorize(r, pw, what, e)
      PROVE  Provided' /\ RowsSealed' /\ FilesSealed'
    <2>1. RowsSealed' /\ FilesSealed'
      BY <1>b, <1>1, StoreKeepsSealed DEF Authorize
    <2>2. dek' # None
      BY <1>1, <1>c, <1>d DEF Authorize, VerifyAndUnlock, SessionIsCurrent
    <2>3. /\ req'[r].at = "authorized" /\ req'[r].got = "nothing"
          /\ \A o \in Request \ {r} : req'[o] = req[o]
      BY <1>1, <1>c DEF Authorize, Quiet
    <2> QED
      BY <1>b, <2>1, <2>2, <2>3 DEF Provided
<1>2. CASE TakeDek(r)
    <2>1. RowsSealed' /\ FilesSealed'
      BY <1>b, <1>2, StoreKeepsSealed DEF TakeDek
    <2>2. /\ dek # None /\ dek' = dek /\ req'[r].at = "ready" /\ req'[r].dek = dek
          /\ req'[r].got = q.got /\ \A o \in Request \ {r} : req'[o] = req[o]
      BY <1>2, <1>b, <1>c DEF TakeDek, session, Provided, RequestState
    <2> QED
      BY <1>b, <2>1, <2>2 DEF Provided
<1>3. CASE Lock(r)
    <2>1. RowsSealed' /\ FilesSealed'
      BY <1>b, <1>3, StoreKeepsSealed DEF Lock
    <2>2. Answered(r, "done") /\ \A o \in Request \ {r} : req[o].at # "authorized"
      BY <1>3 DEF Lock, Overtakes
    <2> QED
      BY <1>b, <1>c, <2>1, <2>2, AnswerKeepsProvided
<1>4. ASSUME NEW old \in Password, NEW new \in Password, ChangePassword(r, old, new)
      PROVE  Provided' /\ RowsSealed' /\ FilesSealed'
    <2>1. /\ Answered(r, "done") \/ Answered(r, "refused")
          /\ dek' = conf.key \/ dek' = dek
          /\ UNCHANGED <<text, blob, mig>> /\ q.at = "authorized"
      BY <1>4 DEF ChangePassword, session
    <2> QED
      BY <1>c, <1>d, <1>e, <1>g, <2>1
<1>5. CASE ChangePasswordFails(r)
    BY <1>5, <1>c, <1>d, <1>e, <1>g DEF ChangePasswordFails
<1>6. CASE GetEntry(r)
    BY <1>6, <1>c, <1>f, <1>g DEF GetEntry, session
<1>7. CASE ListEntries(r)
    <2> DEFINE page == {ReadText(e, q.dek) : e \in Entry} \ {"missing"}
    <2>1. q.at = "ready" /\ UNCHANGED <<session, text, blob, mig>>
      BY <1>7 DEF ListEntries
    <2>2. page \subseteq {"plain", "error"}
      BY <1>c, <1>f, <2>1, KeyInHand
    <2>3. Answered(r, CASE "error" \in page -> "error"
                        [] "error" \notin page /\ "cipher" \in page -> "cipher"
                        [] page \subseteq {"plain"} -> "plain")
      BY <1>7 DEF ListEntries
    <2> HIDE DEF page
    <2>4. Answered(r, "error") \/ Answered(r, "plain")
      BY <2>2, <2>3
    <2> QED
      BY <1>c, <1>g, <2>1, <2>4 DEF session
<1>8. CASE FindBlob(r)
    <2>1. /\ q.at = "ready" /\ UNCHANGED <<session, text, blob, mig>>
          /\ \/ Answered(r, ReadText(q.e, q.dek)) \/ Answered(r, "missing")
             \/ req' = [req EXCEPT ![r].at = "file"]
      BY <1>8 DEF FindBlob
    <2>2. CASE Answered(r, ReadText(q.e, q.dek)) \/ Answered(r, "missing")
      BY <1>c, <1>f, <1>g, <2>1, <2>2 DEF session
    <2>3. CASE req' = [req EXCEPT ![r].at = "file"]
      <3>1. Provided'
        BY <1>b, <1>f, <2>1, <2>3, MoveKeepsProvided DEF session
      <3> QED
        BY <1>b, <2>1, <3>1, StoreKeepsSealed
    <2> QED
      BY <2>1, <2>2, <2>3
<1>9. CASE GetBlob(r)
    BY <1>9, <1>c, <1>f, <1>g DEF GetBlob, session
<1>10. CASE CreateEntry(r)
    <2>1. CASE text[q.e] # "none"
      BY <1>10, <1>c, <1>f, <1>g, <2>1 DEF CreateEntry, session
    <2>2. CASE text[q.e] = "none"
      <3>1. /\ q.at = "ready" /\ UNCHANGED <<session, text, mig>>
            /\ \/ req' = [req EXCEPT ![r].at = "fill"]
               \/ req' = [req EXCEPT ![r].at = "insert"]
            /\ blob' = blob \/ blob' = [blob EXCEPT ![q.e] = "empty"]
        BY <1>10, <2>2 DEF CreateEntry
      <3>2. Provided'
        BY <1>b, <1>f, <3>1, MoveKeepsProvided DEF session
      <3>3. \A e \in Entry : blob'[e] = "plain" => blob[e] = "plain"
        BY <1>c, <3>1
      <3> QED
        BY <1>b, <3>1, <3>2, <3>3, StoreKeepsSealed
    <2> QED
      BY <2>1, <2>2
<1>11. CASE FillBlob(r)
    <2>1. /\ q.at = "fill" /\ UNCHANGED <<session, text, mig>>
          /\ req' = [req EXCEPT ![r].at = "insert"]
          /\ blob' = [blob EXCEPT ![q.e] = Stored(q.dek)]
      BY <1>11 DEF FillBlob
    <2>2. Provided'
      BY <1>b, <1>f, <2>1, MoveKeepsProvided DEF session
    <2>3. \A e \in Entry : blob'[e] = "plain" => blob[e] = "plain"
      BY <1>c, <1>f, <2>1
    <2> QED
      BY <1>b, <2>1, <2>2, <2>3, StoreKeepsSealed
<1>12. CASE InsertRow(r)
    <2>1. /\ q.at = "insert" /\ UNCHANGED <<session, blob, mig>> /\ Answered(r, "done")
          /\ text' = [text EXCEPT ![q.e] = Stored(q.dek)]
      BY <1>12 DEF InsertRow
    <2>2. Provided'
      BY <1>b, <1>c, <2>1, AnswerKeepsProvided DEF session
    <2>3. \A e \in Entry : text'[e] = "plain" => text[e] = "plain"
      BY <1>c, <1>f, <2>1
    <2> QED
      BY <1>b, <2>1, <2>2, <2>3, StoreKeepsSealed
<1>13. CASE CreateFails(r)
    BY <1>13, <1>c, <1>g DEF CreateFails, session
<1>14. CASE DeleteEntry(r)
    <2>1. CASE text[q.e] = "none"
      BY <1>14, <1>c, <1>g, <2>1 DEF DeleteEntry, session
    <2>2. CASE text[q.e] # "none"
      <3>1. /\ UNCHANGED session /\ Answered(r, "done")
            /\ text' = [text EXCEPT ![q.e] = "none"] /\ blob' = [blob EXCEPT ![q.e] = "none"]
            /\ mig' = mig \/ mig' = [mig EXCEPT !.data = "gone"]
        BY <1>14, <2>2 DEF DeleteEntry
      <3>2. mig' = mig \/ (mig'.at = mig.at /\ mig'.e = mig.e /\ mig'.left = mig.left)
        BY <1>c, <3>1 DEF MigrationState
      <3>3. Provided'
        BY <1>b, <1>c, <3>1, AnswerKeepsProvided DEF session
      <3>4. \A e \in Entry : text'[e] = "plain" => text[e] = "plain"
        BY <1>c, <3>1
      <3>5. \A e \in Entry : blob'[e] = "plain" => blob[e] = "plain"
        BY <1>c, <3>1
      <3> QED
        BY <1>b, <3>2, <3>3, <3>4, <3>5, StoreKeepsSealed
    <2> QED
      BY <2>1, <2>2
<1> QED
    BY <1>1, <1>2, <1>3, <1>4, <1>5, <1>6, <1>7, <1>8, <1>9, <1>10, <1>11, <1>12, <1>13, <1>14
       DEF Serve

\* No step puts plaintext where there was none or ciphertext into an answer.
LEMMA StepSealed == Inv /\ Sealed /\ [Next]_vars => Sealed'
<1> SUFFICES ASSUME Inv, Sealed, [Next]_vars PROVE Sealed'
    OBVIOUS
<1> USE VaultAssumption
<1>1. ASSUME NEW pw \in Password, Unlock(pw) PROVE Sealed'
    <2>1. dek' # None /\ UNCHANGED <<overtaken, text, blob, req, mig>>
      BY <1>1 DEF Unlock, VerifyAndUnlock, Inv, TypeOK, Auth, SessionIsCurrent
    <2> QED
      BY <2>1 DEF Sealed, Provided, RowsSealed, FilesSealed, NeedsEncryption
<1>2. ASSUME NEW pw \in Password, NEW k \in Key, Setup(pw, k) PROVE Sealed'
    <2>1. /\ dek' = k /\ k # None /\ mig'.at = "rows"
          /\ UNCHANGED <<overtaken, text, blob, req>>
      BY <1>2 DEF Setup, NoMigration
    <2> QED
      BY <2>1 DEF Sealed, Provided, RowsSealed, FilesSealed
<1>3. CASE Restart
    <2>1. /\ UNCHANGED <<overtaken, text, blob>>
          /\ \A r \in Request : req'[r].at = "idle" /\ req'[r].got = "nothing"
          /\ mig' = mig \/ mig'.at = "cut"
      BY <1>3 DEF Restart, Quiet, Inv, TypeOK, MigrationState
    <2> QED
      BY <2>1 DEF Sealed, Provided, RowsSealed, FilesSealed, NeedsEncryption
<1>4. CASE Migrate
    BY <1>4, MigrateSealed
<1>5. ASSUME NEW r \in Request, Serve(r) PROVE Sealed'
    BY <1>5, ServeSealed
<1>6. CASE UNCHANGED vars
    BY <1>6 DEF vars, session, Sealed, Provided, RowsSealed, FilesSealed, NeedsEncryption
<1> QED
    BY <1>1, <1>2, <1>3, <1>4, <1>5, <1>6 DEF Next

\* Nothing in the clear where it should not be, throughout.
THEOREM SealedAlways == Spec => []Sealed
<1>1. Init => Sealed
    BY DEF Init, Sealed, Provided, RowsSealed, FilesSealed, Quiet, NoMigration
<1> QED
    BY <1>1, StepSealed, InvAlways, PTL DEF Spec

(***************************************************************************)
(* No request is ever answered with ciphertext, whatever passwords are     *)
(* changed and locks taken around it, unless a lock falls between its      *)
(* authorization and its get_dek.                                          *)
(***************************************************************************)
THEOREM CiphertextIsNeverServed == Spec => []NoCiphertextServed
<1>1. Sealed => NoCiphertextServed
    BY DEF Sealed, Provided, NoCiphertextServed
<1> QED
    BY <1>1, SealedAlways, PTL

(***************************************************************************)
(* Once auth_setup has answered 200, nothing the migration could have      *)
(* encrypted is in the clear, and nothing is stored in the clear again,    *)
(* with the same exception.                                                *)
(***************************************************************************)
THEOREM SetupEncryptsEverything == Spec => []MigratedMeansEncrypted
<1>1. Sealed => MigratedMeansEncrypted
    BY DEF Sealed, RowsSealed, FilesSealed, MigratedMeansEncrypted
<1> QED
    BY <1>1, SealedAlways, PTL

-----------------------------------------------------------------------------
(* Rewriting files while they are used                                     *)

\* Steps that store nothing and leave the migration and the mutex alone.
LEMMA StorelessKeepsFaithful ==
    ASSUME Inv, SoleWriter, FilesWhole, FilesThere, InMemory, NEW r \in Request,
           UNCHANGED <<text, blob, db, mig>>,
           \A q \in Request \ {r} : req'[q] = req[q],
           req[r].at \notin {"fill", "insert"}, req'[r].at \notin {"fill", "insert"}
    PROVE  SoleWriter' /\ FilesWhole' /\ FilesThere' /\ InMemory'
<1>1. \A q \in Request : req'[q].at \in {"fill", "insert"} => q # r /\ req'[q] = req[q]
    OBVIOUS
<1>2. \A q \in Request : req[q].at \in {"fill", "insert"} => q # r /\ req'[q] = req[q]
    OBVIOUS
<1>3. SoleWriter' /\ InMemory'
    BY <1>1 DEF SoleWriter, InMemory
<1>4. FilesThere'
    BY <1>1 DEF FilesThere
<1>5. FilesWhole'
    BY <1>2 DEF FilesWhole
<1> QED
    BY <1>3, <1>4, <1>5

\* The lemma for the steps of the migration.
LEMMA MigrateFaithful ==
    ASSUME Inv, Faithful, Migrate
    PROVE  Faithful'
<1> USE VaultAssumption
<1>a. faults \in Nat /\ mig \in MigrationState /\ text \in [Entry -> TextState]
      /\ blob \in [Entry -> BlobState]
    BY DEF Inv, TypeOK
<1>1. CASE MigrationFails
    BY <1>a, <1>1 DEF MigrationFails, Fault, Faithful
<1> SUFFICES ASSUME ~MigrationFails, faults' = 0
             PROVE  SoleWriter' /\ FilesWhole' /\ FilesThere' /\ InMemory'
    BY <1>1 DEF Faithful
<1>b. UNCHANGED <<req, faults>>
    BY DEF Migrate, LockRows, ListFiles, ReadNextFile, TruncateFile, FillFile, FinishMigration,
           EncryptRow, NextFile
<1>c. SoleWriter /\ FilesWhole /\ FilesThere /\ InMemory
    BY <1>b DEF Faithful
<1>2. CASE LockRows
    <2>1. /\ UNCHANGED <<text, blob, req>> /\ db = None /\ db' = Migration
          /\ mig' = [mig EXCEPT !.at = "encrypt"] /\ mig.at = "rows"
      BY <1>b, <1>2 DEF LockRows
    <2>2. \A r \in Request : req[r].at \notin {"fill", "insert"}
      BY <1>c, <2>1 DEF SoleWriter
    <2> QED
      BY <1>a, <1>c, <2>1, <2>2 DEF SoleWriter, FilesWhole, FilesThere, InMemory, MigrationState
<1>3. CASE ListFiles
    <2>1. /\ UNCHANGED <<text, blob, req>> /\ mig.at = "encrypt" /\ mig'.at = "files"
          /\ mig'.raced = mig.raced
      BY <1>a, <1>b, <1>3 DEF ListFiles, MigrationState
    <2>2. \A r \in Request : req[r].at \notin {"fill", "insert"}
      BY <1>c, <2>1 DEF SoleWriter
    <2> QED
      BY <1>c, <2>1, <2>2 DEF SoleWriter, FilesWhole, FilesThere, InMemory
<1>4. CASE ReadNextFile
    <2>1. UNCHANGED <<text, blob, db, req>> /\ mig.at = "read"
      BY <1>b, <1>4 DEF ReadNextFile
    <2>2. \/ mig'.at \in {"failed", "files"} /\ mig'.raced = mig.raced
          \/ mig'.at = "truncate" /\ mig'.data = "plain" /\ mig'.raced = mig.raced
          \/ /\ mig'.at = "truncate" /\ mig'.data = "empty" /\ mig'.e = mig.e
             /\ mig'.raced = mig.raced \cup {mig.e}
      BY <1>a, <1>4 DEF ReadNextFile, MigrationState
    <2>3. mig.raced \subseteq mig'.raced
      BY <2>2
    <2>4. SoleWriter' /\ FilesThere' /\ InMemory'
      BY <1>c, <2>1, <2>2 DEF SoleWriter, FilesThere, InMemory
    <2>5. FilesWhole'
      BY <1>c, <2>1, <2>2, <2>3 DEF FilesWhole
    <2> QED
      BY <2>4, <2>5
<1>5. CASE TruncateFile
    <2>1. /\ UNCHANGED <<text, db, req>> /\ blob' = [blob EXCEPT ![mig.e] = "empty"]
          /\ mig.at = "truncate" /\ mig'.at = "fill"
          /\ mig'.raced = mig.raced /\ mig'.e = mig.e /\ mig'.data = mig.data
      BY <1>a, <1>b, <1>5 DEF TruncateFile, MigrationState
    <2>2. mig.data = "plain" \/ (mig.data = "empty" /\ mig.e \in mig.raced)
      BY <1>a, <1>c, <2>1 DEF InMemory, MigrationState
    <2>3. SoleWriter' /\ FilesThere' /\ InMemory'
      BY <1>a, <1>c, <2>1, <2>2 DEF SoleWriter, FilesThere, InMemory
    <2>4. FilesWhole'
      BY <1>a, <1>c, <2>1, <2>2 DEF FilesWhole
    <2> QED
      BY <2>3, <2>4
<1>6. CASE FillFile
    <2>1. /\ UNCHANGED <<text, db, req>> /\ mig.at = "fill" /\ mig'.at = "files"
          /\ mig'.raced = mig.raced
      BY <1>a, <1>b, <1>6 DEF FillFile, MigrationState
    <2>2. mig.key \in Key /\ mig.e \in Entry
      BY <1>a, <2>1 DEF Inv, KeysUnderWay, TypeOK, Auth
    <2>3. \/ mig.data = "plain" /\ blob' = [blob EXCEPT ![mig.e] = mig.key]
          \/ mig.data = "empty" /\ blob' = [blob EXCEPT ![mig.e] = "damaged"] /\ mig.e \in mig.raced
          \/ mig.data = "gone" /\ blob' = blob
      BY <1>a, <1>c, <1>6, <2>1 DEF FillFile, MigrationState, InMemory
    <2>4. \A e \in Entry : blob[e] # "none" => blob'[e] # "none"
      BY <1>a, <2>2, <2>3
    <2>5. SoleWriter' /\ InMemory'
      BY <1>c, <2>1 DEF SoleWriter, InMemory
    <2>6. FilesThere'
      BY <1>c, <2>1, <2>4, <1>a DEF FilesThere, Inv, KeysUnderWay
    <2>7. FilesWhole'
      BY <1>a, <1>c, <2>1, <2>2, <2>3 DEF FilesWhole
    <2> QED
      BY <2>5, <2>6, <2>7
<1>7. CASE FinishMigration
    <2>1. /\ UNCHANGED <<text, blob, db, req>> /\ mig.at = "files" /\ mig'.at = "done"
          /\ mig'.raced = mig.raced
      BY <1>a, <1>b, <1>7 DEF FinishMigration, MigrationState
    <2> QED
      BY <1>c, <2>1 DEF SoleWriter, FilesWhole, FilesThere, InMemory
<1>8. ASSUME NEW e \in Entry, EncryptRow(e)
      PROVE  SoleWriter' /\ FilesWhole' /\ FilesThere' /\ InMemory'
    <2>0. mig.key \in Key
      BY <1>a, <1>8 DEF EncryptRow, Inv, KeysUnderWay, TypeOK, Auth
    <2>1. /\ UNCHANGED <<blob, db, req, mig>> /\ mig.at = "encrypt"
          /\ \A f \in Entry : text'[f] = "none" <=> text[f] = "none"
      BY <1>a, <1>b, <1>8, <2>0 DEF EncryptRow, NeedsEncryption
    <2>2. \A r \in Request : req[r].at \notin {"fill", "insert"}
      BY <1>c, <2>1 DEF SoleWriter
    <2> QED
      BY <1>c, <2>1, <2>2 DEF SoleWriter, FilesWhole, FilesThere, InMemory
<1>9. ASSUME NEW e \in Entry, NextFile(e)
      PROVE  SoleWriter' /\ FilesWhole' /\ FilesThere' /\ InMemory'
    <2>1. /\ UNCHANGED <<text, blob, db, req>> /\ mig.at = "files"
          /\ mig'.at \in {"read", "files"} /\ mig'.raced = mig.raced
      BY <1>a, <1>b, <1>9 DEF NextFile, MigrationState
    <2> QED
      BY <1>c, <2>1 DEF SoleWriter, FilesWhole, FilesThere, InMemory
<1> QED
    BY <1>2, <1>3, <1>4, <1>5, <1>6, <1>7, <1>8, <1>9 DEF Migrate

\* The lemma for the steps of a request.
LEMMA ServeFaithful ==
    ASSUME Inv, Faithful, NEW r \in Request, Serve(r)
    PROVE  Faithful'
<1> USE VaultAssumption
<1> DEFINE q == req[r]
<1>a. /\ faults \in Nat /\ mig \in MigrationState /\ text \in [Entry -> TextState]
      /\ blob \in [Entry -> BlobState] /\ req \in [Request -> RequestState]
    BY DEF Inv, TypeOK
<1>b. q.at # "idle" => q.e \in Entry
    BY DEF Inv, KeysUnderWay
<1>1. CASE ChangePasswordFails(r) \/ CreateFails(r)
    BY <1>a, <1>1 DEF ChangePasswordFails, CreateFails, Fault, Faithful
<1> DEFINE Good == SoleWriter' /\ FilesWhole' /\ FilesThere' /\ InMemory'
<1> SUFFICES ASSUME ~ChangePasswordFails(r), ~CreateFails(r), faults' = 0 PROVE Good
    BY <1>1 DEF Faithful
<1>c. SoleWriter /\ FilesWhole /\ FilesThere /\ InMemory
    BY DEF Faithful, Serve, Authorize, TakeDek, Lock, ChangePassword, GetEntry, ListEntries, FindBlob,
           GetBlob, CreateEntry, FillBlob, InsertRow, DeleteEntry
\* Answering, or moving to a step that writes nothing yet.
<1>d. ASSUME NEW got \in Answer, Answered(r, got) PROVE
      req'[r].at = "idle" /\ \A o \in Request \ {r} : req'[o] = req[o]
    BY <1>a, <1>d, AnsweredType DEF Answered
<1>e. ASSUME q.at \notin {"fill", "insert"}, UNCHANGED <<text, blob, db, mig>>,
             NEW got \in Answer, Answered(r, got)
      PROVE  Good
    BY <1>c, <1>d, <1>e, StorelessKeepsFaithful
<1>f. {"done", "refused", "missing", "plain", "cipher", "error"} \subseteq Answer
    BY DEF Answer
<1>g. q.at # "idle" => /\ ReadText(q.e, q.dek) \in Answer
                       /\ ReadFile(q.e, q.dek) \in Answer
    BY <1>a, <1>b, <1>f, ReadTextType, ReadFileType DEF RequestState
<1>h. Stored(q.dek) \in Key \cup {"plain"}
    BY <1>a, StoredKey DEF RequestState
<1>2. ASSUME NEW pw \in Password, NEW what \in Operations, NEW e \in Entry,
             Authorize(r, pw, what, e)
      PROVE  Good
    <2>1. /\ UNCHANGED <<text, blob, db, mig>> /\ q.at = "idle" /\ req'[r].at = "authorized"
          /\ \A o \in Request \ {r} : req'[o] = req[o]
      BY <1>a, <1>2 DEF Authorize, Quiet
    <2> QED
      BY <1>c, <2>1, StorelessKeepsFaithful
<1>3. CASE TakeDek(r)
    <2>1. /\ UNCHANGED <<text, blob, db, mig>> /\ q.at = "authorized" /\ req'[r].at = "ready"
          /\ \A o \in Request \ {r} : req'[o] = req[o]
      BY <1>a, <1>3 DEF TakeDek, RequestState
    <2> QED
      BY <1>c, <2>1, StorelessKeepsFaithful
<1>4. CASE Lock(r)
    BY <1>4, <1>e, <1>f DEF Lock
<1>5. ASSUME NEW old \in Password, NEW new \in Password, ChangePassword(r, old, new) PROVE Good
    BY <1>5, <1>e, <1>f DEF ChangePassword
<1>6. CASE GetEntry(r)
    BY <1>6, <1>e, <1>g DEF GetEntry
<1>7. CASE ListEntries(r)
    <2> DEFINE page == {ReadText(e, q.dek) : e \in Entry} \ {"missing"}
    <2>1. q.at = "ready" /\ UNCHANGED <<text, blob, db, mig>>
      BY <1>7 DEF ListEntries
    <2>2. page \subseteq {"plain", "cipher", "error"}
      BY <1>a, <2>1, ReadTextType DEF RequestState
    <2>3. Answered(r, CASE "error" \in page -> "error"
                        [] "error" \notin page /\ "cipher" \in page -> "cipher"
                        [] page \subseteq {"plain"} -> "plain")
      BY <1>7 DEF ListEntries
    <2> HIDE DEF page
    <2>4. Answered(r, "error") \/ Answered(r, "cipher") \/ Answered(r, "plain")
      BY <2>2, <2>3
    <2> QED
      BY <1>e, <1>f, <2>1, <2>4
<1>8. CASE FindBlob(r)
    <2>1. /\ q.at = "ready" /\ UNCHANGED <<text, blob, db, mig>>
          /\ \/ Answered(r, ReadText(q.e, q.dek)) \/ Answered(r, "missing")
             \/ req' = [req EXCEPT ![r].at = "file"]
      BY <1>8 DEF FindBlob
    <2>2. CASE Answered(r, ReadText(q.e, q.dek)) \/ Answered(r, "missing")
      BY <1>e, <1>f, <1>g, <2>1, <2>2
    <2>3. CASE req' = [req EXCEPT ![r].at = "file"]
      <3>1. req'[r].at = "file" /\ \A o \in Request \ {r} : req'[o] = req[o]
        BY <1>a, <2>3 DEF RequestState
      <3> QED
        BY <1>c, <2>1, <3>1, StorelessKeepsFaithful
    <2> QED
      BY <2>1, <2>2, <2>3
<1>9. CASE GetBlob(r)
    BY <1>9, <1>e, <1>g DEF GetBlob
<1>10. CASE CreateEntry(r)
    <2>1. CASE text[q.e] # "none"
      BY <1>10, <1>e, <1>g, <2>1 DEF CreateEntry
    <2>2. CASE text[q.e] = "none"
      <3>1. q.at = "ready" /\ db = None /\ db' = r /\ UNCHANGED <<text, mig>>
        BY <1>10, <2>2 DEF CreateEntry
      <3>2. mig.at # "encrypt" /\ \A o \in Request : req[o].at \notin {"fill", "insert"}
        BY <1>c, <3>1 DEF SoleWriter
      <3>3. \A e \in WithBlob \ mig.raced :
              \/ blob[e] \in Key \cup {"plain", "none"}
              \/ blob[e] = "empty" /\ mig.at = "fill" /\ mig.e = e /\ mig.data = "plain"
        BY <1>c, <3>2 DEF FilesWhole
      <3>4. CASE q.e \in WithBlob /\ blob[q.e] = "none"
        <4>1. blob' = [blob EXCEPT ![q.e] = "empty"] /\ req' = [req EXCEPT ![r].at = "fill"]
          BY <1>10, <2>2, <3>4 DEF CreateEntry
        <4>2. /\ req'[r].at = "fill" /\ req'[r].e = q.e
              /\ \A o \in Request \ {r} : req'[o] = req[o]
          BY <1>a, <4>1 DEF RequestState
        <4>3. SoleWriter' /\ InMemory'
          BY <1>c, <2>2, <3>1, <3>2, <4>2 DEF SoleWriter, InMemory
        <4>4. FilesThere'
          BY <1>a, <1>c, <3>1, <3>2, <4>1, <4>2 DEF FilesThere
        <4>5. FilesWhole'
          BY <1>a, <3>1, <3>3, <4>1, <4>2 DEF FilesWhole
        <4> QED
          BY <4>3, <4>4, <4>5
      <3>5. CASE ~(q.e \in WithBlob /\ blob[q.e] = "none")
        <4>1. blob' = blob /\ req' = [req EXCEPT ![r].at = "insert"]
          BY <1>10, <2>2, <3>5 DEF CreateEntry
        <4>2. /\ req'[r].at = "insert" /\ req'[r].e = q.e
              /\ \A o \in Request \ {r} : req'[o] = req[o]
          BY <1>a, <4>1 DEF RequestState
        <4>3. SoleWriter' /\ InMemory'
          BY <1>c, <2>2, <3>1, <3>2, <4>2 DEF SoleWriter, InMemory
        <4>4. FilesThere'
          BY <1>c, <3>1, <3>2, <3>5, <4>1, <4>2 DEF FilesThere
        <4>5. FilesWhole'
          BY <3>1, <3>3, <4>1 DEF FilesWhole
        <4> QED
          BY <4>3, <4>4, <4>5
      <3> QED
        BY <3>4, <3>5
    <2> QED
      BY <2>1, <2>2
<1>11. CASE FillBlob(r)
    <2>1. /\ q.at = "fill" /\ UNCHANGED <<text, db, mig>>
          /\ req' = [req EXCEPT ![r].at = "insert"]
          /\ blob' = [blob EXCEPT ![q.e] = Stored(q.dek)]
      BY <1>11 DEF FillBlob
    <2>2. /\ req'[r].at = "insert" /\ req'[r].e = q.e
          /\ \A o \in Request \ {r} : req'[o] = req[o]
      BY <1>a, <2>1 DEF RequestState
    <2>3. db = r /\ \A o \in Request \ {r} : req[o].at \notin {"fill", "insert"}
      BY <1>c, <2>1 DEF SoleWriter
    <2>4. SoleWriter' /\ InMemory'
      BY <1>c, <2>1, <2>2, <2>3 DEF SoleWriter, InMemory
    <2>5. FilesThere'
      BY <1>a, <1>b, <1>c, <1>h, <2>1, <2>2, <2>3 DEF FilesThere
    <2>6. FilesWhole'
      BY <1>a, <1>b, <1>c, <1>h, <2>1, <2>2, <2>3 DEF FilesWhole
    <2> QED
      BY <2>4, <2>5, <2>6
<1>12. CASE InsertRow(r)
    <2>1. /\ q.at = "insert" /\ UNCHANGED <<blob, mig>> /\ db' = None /\ Answered(r, "done")
          /\ text' = [text EXCEPT ![q.e] = Stored(q.dek)]
      BY <1>12 DEF InsertRow
    <2>2. req'[r].at = "idle" /\ \A o \in Request \ {r} : req'[o] = req[o]
      BY <1>d, <1>f, <2>1
    <2>3. /\ mig.at # "encrypt" /\ q.e \in WithBlob => blob[q.e] # "none"
          /\ \A o \in Request \ {r} : req[o].at \notin {"fill", "insert"}
      BY <1>c, <2>1 DEF SoleWriter, FilesThere
    <2>4. SoleWriter' /\ InMemory'
      BY <1>c, <2>1, <2>2, <2>3 DEF SoleWriter, InMemory
    <2>5. FilesThere'
      BY <1>a, <1>b, <1>c, <2>1, <2>2, <2>3 DEF FilesThere
    <2>6. FilesWhole'
      BY <1>c, <2>1, <2>2, <2>3 DEF FilesWhole
    <2> QED
      BY <2>4, <2>5, <2>6
<1>13. CASE DeleteEntry(r)
    <2>1. q.at = "authorized" /\ db = None
      BY <1>13 DEF DeleteEntry
    <2>2. CASE text[q.e] = "none"
      BY <1>13, <1>e, <1>f, <2>1, <2>2 DEF DeleteEntry
    <2>3. CASE text[q.e] # "none"
      <3>1. /\ UNCHANGED db /\ Answered(r, "done")
            /\ text' = [text EXCEPT ![q.e] = "none"] /\ blob' = [blob EXCEPT ![q.e] = "none"]
            /\ mig' = IF mig.at = "fill" /\ mig.e = q.e THEN [mig EXCEPT !.data = "gone"] ELSE mig
        BY <1>13, <2>3 DEF DeleteEntry
      <3>2. /\ mig'.at = mig.at /\ mig'.e = mig.e /\ mig'.raced = mig.raced
            /\ mig'.data = mig.data \/ (mig.at = "fill" /\ mig.e = q.e /\ mig'.data = "gone")
        BY <1>a, <3>1 DEF MigrationState
      <3>3. req'[r].at = "idle" /\ \A o \in Request \ {r} : req'[o] = req[o]
        BY <1>d, <1>f, <3>1
      <3>4. mig.at # "encrypt" /\ \A o \in Request : req[o].at \notin {"fill", "insert"}
        BY <1>c, <2>1 DEF SoleWriter
      <3>5. \A o \in Request : req'[o].at \notin {"fill", "insert"}
        BY <3>3, <3>4
      <3>6. SoleWriter' /\ InMemory'
        BY <1>c, <3>2, <3>4, <3>5 DEF SoleWriter, InMemory
      <3>7. FilesThere'
        BY <1>a, <1>b, <1>c, <2>1, <3>1, <3>5 DEF FilesThere
      <3>8. FilesWhole'
        BY <1>a, <1>b, <1>c, <2>1, <3>1, <3>2, <3>4 DEF FilesWhole
      <3> QED
        BY <3>6, <3>7, <3>8
    <2> QED
      BY <2>2, <2>3
<1> QED
    BY <1>2, <1>3, <1>4, <1>5, <1>6, <1>7, <1>8, <1>9, <1>10, <1>11, <1>12, <1>13 DEF Serve

\* No step of a request, of the migration or of a restart loses a file's bytes.
LEMMA StepFaithful == Inv /\ Faithful /\ [Next]_vars => Faithful'
<1> SUFFICES ASSUME Inv, Faithful, [Next]_vars PROVE Faithful'
    OBVIOUS
<1>1. ASSUME NEW pw \in Password, Unlock(pw) PROVE Faithful'
    BY <1>1 DEF Unlock, Faithful, SoleWriter, FilesWhole, FilesThere, InMemory
<1>2. ASSUME NEW pw \in Password, NEW k \in Key, Setup(pw, k) PROVE Faithful'
    <2>1. /\ UNCHANGED <<text, blob, db, req, faults>> /\ mig.at = "idle" /\ mig'.at = "rows"
          /\ mig'.raced = {}
      BY <1>2 DEF Setup, NoMigration, Inv, SessionIsCurrent, KeysUnderWay
    <2> QED
      BY <2>1 DEF Faithful, SoleWriter, FilesWhole, FilesThere, InMemory
<1>3. CASE Restart
    BY <1>3 DEF Restart, Fault, Faithful, Inv, TypeOK
<1>4. CASE Migrate
    BY <1>4, MigrateFaithful
<1>5. ASSUME NEW r \in Request, Serve(r) PROVE Faithful'
    BY <1>5, ServeFaithful
<1>6. CASE UNCHANGED vars
    BY <1>6 DEF vars, Faithful, SoleWriter, FilesWhole, FilesThere, InMemory
<1> QED
    BY <1>1, <1>2, <1>3, <1>4, <1>5, <1>6 DEF Next

\* The files' invariant holds throughout.
THEOREM FaithfulAlways == Spec => []Faithful
<1>1. Init => Faithful
    BY VaultAssumption DEF Init, Faithful, SoleWriter, FilesWhole, FilesThere, InMemory, Quiet, NoMigration
<1> QED
    BY <1>1, StepFaithful, InvAlways, PTL DEF Spec

(***************************************************************************)
(* Until something fails, no interleaving of the migration with requests   *)
(* that read, create and delete loses the bytes of a row's file, except    *)
(* where the migration read a file that was just being created.            *)
(***************************************************************************)
THEOREM RewritingLosesNoBytes == Spec => []BlobsKeepTheirBytes
<1>1. ASSUME Inv, Faithful PROVE BlobsKeepTheirBytes
    <2> SUFFICES ASSUME faults = 0, NEW e \in WithBlob \ mig.raced, text[e] # "none"
                 PROVE  \/ blob[e] \in Key \cup {"plain"}
                        \/ blob[e] = "empty" /\ mig.at = "fill" /\ mig.e = e
      BY DEF BlobsKeepTheirBytes
    <2> QED
      BY <1>1 DEF Faithful, SoleWriter, FilesWhole, FilesThere
<1> QED
    BY <1>1, FaithfulAlways, InvAlways, PTL

\* The type invariant, on its own.
THEOREM VaultTypeCorrect == Spec => []TypeOK
<1>1. Inv => TypeOK
    BY DEF Inv
<1> QED
    BY <1>1, InvAlways, PTL
=============================================================================
