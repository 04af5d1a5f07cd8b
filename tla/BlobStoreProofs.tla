--------------------------- MODULE BlobStoreProofs ---------------------------
(***************************************************************************)
(* What the mutex of a store guarantees about its rows and files, for any  *)
(* number of threads, payloads, shared blobs, kills and failures.          *)
(***************************************************************************)
EXTENDS BlobStore, TLAPS

\* The thread is inside a critical section of the connection's mutex.
Inside(a) == op[a].at \in {"blob", "write", "row", "unlink"}

\* One thread at a time is inside, and the mutex says which.
Exclusion == \A a \in Actor : Inside(a) => db = a /\ op[a].c \in Content

\* What a thread knows at each step of the operation under way.
Knowledge ==
    \A a \in Actor :
        /\ op[a].at \in {"write", "unlink"} => HasBlob(op[a].c)
        /\ op[a].at \in {"write", "row"} /\ HasBlob(op[a].c) => files[BlobOf[op[a].c]] # "absent"
        /\ op[a].at = "unlink" => \A c \in rows : BlobOf[c] # BlobOf[op[a].c]

\* A reader whose row was not deleted still has it.
Steady ==
    \A a \in Actor :
        /\ op[a].at \in {"look", "open"} => op[a].c \in Content /\ HasBlob(op[a].c)
        /\ op[a].steady => op[a].c \in rows /\ HasBlob(op[a].c)

(***************************************************************************)
(* The inductive invariant: RowHasFile alone is not inductive, since it    *)
(* does not say that a committing thread's file is there nor that no row   *)
(* appears between the COUNT of a deletion and its remove_file.            *)
(***************************************************************************)
Inv == TypeOK /\ Exclusion /\ Knowledge /\ Steady /\ RowHasFile /\ SteadyReadFindsBlob

\* An answer of the right kind leaves a thread's record well typed.
LEMMA AnswerType ==
    ASSUME NEW o \in [Actor -> Operation], NEW a \in Actor, NEW got \in Answer
    PROVE  [o EXCEPT ![a].at = "idle", ![a].got = got] \in [Actor -> Operation]
<1>1. \A r \in Operation : [r EXCEPT !.at = "idle", !.got = got] \in Operation
    BY DEF Operation, Step
<1>2. [o EXCEPT ![a].at = "idle", ![a].got = got]
        = [o EXCEPT ![a] = [o[a] EXCEPT !.at = "idle", !.got = got]]
    OBVIOUS
<1> QED
    BY <1>1, <1>2

\* Before the first operation nothing is under way, and no row misses its file.
THEOREM InitInv == Init => Inv
BY BlobStoreAssumption
DEF Init, Inv, TypeOK, Operation, Idle, Step, Answer, FileState, Exclusion, Inside, Knowledge, Steady,
    RowHasFile, SteadyReadFindsBlob

\* No file or database operation of any thread, no failure and no kill breaks
\* the invariant.
THEOREM StepInv == Inv /\ [Next]_vars => Inv'
<1> SUFFICES ASSUME Inv, [Next]_vars PROVE Inv'
    OBVIOUS
<1> USE BlobStoreAssumption
    DEF Inv, TypeOK, Operation, Idle, Step, Answer, FileState, Exclusion, Inside, Knowledge, Steady,
        RowHasFile, SteadyReadFindsBlob, HasBlob
<1>1. ASSUME NEW a \in Actor, NEW c \in Content, BeginInsert(a, c) PROVE Inv'
    BY <1>1 DEF BeginInsert
<1>2. ASSUME NEW a \in Actor, NEW c \in Content, DeleteEntry(a, c) PROVE Inv'
  <2> HIDE DEF HasBlob
  <2>1. /\ op[a].at = "idle" /\ db = None /\ c \in rows
        /\ rows' = rows \ {c} /\ files' = files /\ faults' = faults
        /\ db' = IF LastReference(c) THEN a ELSE None
    BY <1>2 DEF DeleteEntry
  <2>2. /\ op'[a] = IF LastReference(c)
                    THEN [at |-> "unlink", c |-> c, got |-> "nothing", steady |-> FALSE]
                    ELSE [at |-> "idle", c |-> None, got |-> "nothing", steady |-> FALSE]
        /\ \A x \in Actor \ {a} :
              op'[x] = IF op[x].c = c THEN [op[x] EXCEPT !.steady = FALSE] ELSE op[x]
        /\ op' \in [Actor -> Operation]
    <3> DEFINE New(x) == IF x = a
                         THEN IF LastReference(c) THEN [Idle EXCEPT !.at = "unlink", !.c = c]
                                                  ELSE Idle
                         ELSE IF op[x].c = c THEN [op[x] EXCEPT !.steady = FALSE] ELSE op[x]
    <3>1. op' = [x \in Actor |-> New(x)]
      BY <1>2 DEF DeleteEntry
    <3>2. ASSUME NEW x \in Actor PROVE New(x) \in Operation
      <4>1. op[x] \in Operation
        OBVIOUS
      <4>2. CASE x = a
        BY <4>2
      <4>3. CASE x # a
        BY <4>1, <4>3
      <4> QED
        BY <4>2, <4>3
    <3> HIDE DEF New
    <3>3. op' \in [Actor -> Operation]
      BY <3>1, <3>2
    <3>4. op'[a] = New(a) /\ \A x \in Actor \ {a} : op'[x] = New(x)
      BY <3>1
    <3> QED
      BY <3>3, <3>4 DEF New
  <2>3. TypeOK'
    BY <2>1, <2>2
  <2>4. \A x \in Actor \ {a} : op'[x].at = op[x].at /\ op'[x].c = op[x].c
                              /\ op'[x].got = op[x].got /\ ~Inside(x)
    BY <2>1, <2>2
  <2>5. \A x \in Actor \ {a} : op'[x].steady => op[x].steady /\ op[x].c # c
    BY <2>2
  <2>6. Exclusion' /\ Knowledge'
    BY <2>1, <2>2, <2>4 DEF LastReference, References, HasBlob
  <2>7. Steady' /\ SteadyReadFindsBlob'
    BY <2>1, <2>2, <2>4, <2>5
  <2>8. RowHasFile'
    BY <2>1
  <2> QED
    BY <2>3, <2>6, <2>7, <2>8
<1>3. ASSUME NEW a \in Actor, NEW c \in Content, FindRow(a, c) PROVE Inv'
    BY <1>3 DEF FindRow
<1>4. ASSUME NEW a \in Actor, WriteBlob(a) PROVE Inv'
    BY <1>4 DEF WriteBlob, Goto
<1>5. ASSUME NEW a \in Actor, FillBlob(a) PROVE Inv'
    BY <1>5 DEF FillBlob, Goto
<1>6. ASSUME NEW a \in Actor, CommitRow(a) PROVE Inv'
    BY <1>6 DEF CommitRow, Return
<1>7. ASSUME NEW a \in Actor, InsertFails(a) PROVE Inv'
    BY <1>7 DEF InsertFails, Return, Fault
<1>8. ASSUME NEW a \in Actor, Unlink(a) PROVE Inv'
    BY <1>8 DEF Unlink, Return
<1>9. ASSUME NEW a \in Actor, UnlinkFails(a) PROVE Inv'
    BY <1>9 DEF UnlinkFails, Return, Fault
<1>10. ASSUME NEW a \in Actor, LookForBlob(a) PROVE Inv'
    BY <1>10 DEF LookForBlob, Answered, Goto
<1>11. ASSUME NEW a \in Actor, ReadBlob(a) PROVE Inv'
  <2>1. CASE files[BlobOf[op[a].c]] = "absent"
    BY <1>11, <2>1 DEF ReadBlob, Answered
  <2>2. CASE files[BlobOf[op[a].c]] = "torn"
    <3>1. PICK got \in {"torn", "whole"} : Answered(a, got)
      BY <1>11, <2>2 DEF ReadBlob
    <3>2. op[a].at = "open" /\ UNCHANGED <<rows, files, db, faults>>
      BY <1>11 DEF ReadBlob
    <3>3. op' \in [Actor -> Operation]
      BY <3>1, AnswerType DEF Answered
    <3>4. TypeOK'
      BY <3>2, <3>3
    <3>5. Exclusion' /\ Knowledge'
      BY <3>1, <3>2 DEF Answered
    <3>6. Steady' /\ RowHasFile' /\ SteadyReadFindsBlob'
      BY <3>1, <3>2 DEF Answered
    <3> QED
      BY <3>4, <3>5, <3>6
  <2>3. CASE files[BlobOf[op[a].c]] = "whole"
    BY <1>11, <2>3 DEF ReadBlob, Answered
  <2>4. files[BlobOf[op[a].c]] \in FileState
    BY <1>11 DEF ReadBlob
  <2> QED
    BY <2>1, <2>2, <2>3, <2>4
<1>12. CASE Kill
    BY <1>12 DEF Kill, Fault
<1>13. CASE UNCHANGED vars
    BY <1>13 DEF vars
<1> QED
    BY <1>1, <1>2, <1>3, <1>4, <1>5, <1>6, <1>7, <1>8, <1>9, <1>10, <1>11, <1>12, <1>13 DEF Next

\* The invariant holds throughout.
THEOREM InvAlways == Spec => []Inv
BY InitInv, StepInv, PTL DEF Spec

(***************************************************************************)
(* No row of either store ever names a file that is not there, for any     *)
(* interleaving of insertions and deletions of payloads that share blobs   *)
(* and any kill or failed write between them.                              *)
(***************************************************************************)
THEOREM RowAlwaysHasFile == Spec => []RowHasFile
<1>1. Inv => RowHasFile
    BY DEF Inv
<1> QED
    BY <1>1, InvAlways, PTL

(***************************************************************************)
(* get_blob, which takes no lock, never comes back empty-handed for a row  *)
(* that nobody deleted meanwhile.                                          *)
(***************************************************************************)
THEOREM SteadyReadAlwaysFindsBlob == Spec => []SteadyReadFindsBlob
<1>1. Inv => SteadyReadFindsBlob
    BY DEF Inv
<1> QED
    BY <1>1, InvAlways, PTL

-----------------------------------------------------------------------------
(* While nothing fails                                                     *)

\* A file is half written only while its first row is on its way in ...
TornWhileWritten ==
    /\ \A b \in Blob : files[b] = "torn" => \E a \in Actor : op[a].at = "write" /\ BlobOf[op[a].c] = b
    /\ \A a \in Actor : op[a].at = "write" => \A c \in rows : BlobOf[c] # BlobOf[op[a].c]

\* ... and without a row only while one is committed or its last one deleted.
KeptForARow ==
    \A b \in Blob : files[b] # "absent" =>
        \/ \E c \in rows : BlobOf[c] = b
        \/ \E a \in Actor : op[a].at \in {"write", "row", "unlink"} /\ BlobOf[op[a].c] = b

\* Strengthens SteadyReadIsWhole and NoOrphanFile.
Tidy == faults = 0 => TornWhileWritten /\ KeptForARow /\ SteadyReadIsWhole

\* While nothing fails, no step leaves half a file, or one without a row.
LEMMA StepTidy == Inv /\ Inv' /\ Tidy /\ [Next]_vars => Tidy'
<1> SUFFICES ASSUME Inv, Inv', Tidy, [Next]_vars, faults' = 0 PROVE Tidy'
    BY DEF Tidy
<1> USE BlobStoreAssumption
<1>a. faults \in Nat /\ op \in [Actor -> Operation] /\ files \in [Blob -> FileState]
      /\ rows \in SUBSET Content
    BY DEF Inv, TypeOK
<1>1. CASE Kill \/ \E a \in Actor : InsertFails(a) \/ UnlinkFails(a)
    BY <1>1, <1>a DEF Kill, InsertFails, UnlinkFails, Fault
<1>b. CASE faults # 0
    BY <1>1, <1>a, <1>b DEF Next, vars, BeginInsert, DeleteEntry, FindRow, WriteBlob, FillBlob, CommitRow,
                     Unlink, LookForBlob, ReadBlob
<1> SUFFICES ASSUME faults = 0 PROVE Tidy'
    BY <1>b
<1>c. TornWhileWritten /\ KeptForARow /\ SteadyReadIsWhole
    BY DEF Tidy
<1>d. \A a \in Actor : op[a].at \in {"blob", "write", "row", "unlink"} =>
          db = a /\ op[a].c \in Content /\ \A x \in Actor \ {a} : ~Inside(x)
    BY DEF Inv, Exclusion, Inside
<1>2. ASSUME NEW a \in Actor, NEW c \in Content, BeginInsert(a, c) PROVE Tidy'
  <2>1. /\ UNCHANGED <<rows, files, faults>> /\ op[a].at = "idle"
        /\ op'[a].at = "blob" /\ \A x \in Actor \ {a} : op'[x] = op[x]
    BY <1>a, <1>2 DEF BeginInsert, Idle
  <2> QED
    BY <1>c, <2>1 DEF Tidy, TornWhileWritten, KeptForARow, SteadyReadIsWhole
<1>3. ASSUME NEW a \in Actor, NEW c \in Content, DeleteEntry(a, c) PROVE Tidy'
  <2>1. /\ UNCHANGED <<files, faults>> /\ op[a].at = "idle" /\ db = None /\ c \in rows
        /\ rows' = rows \ {c}
    BY <1>3 DEF DeleteEntry
  <2>2. /\ ~op'[a].steady
        /\ LastReference(c) => op'[a].at = "unlink" /\ op'[a].c = c
    BY <1>3 DEF DeleteEntry, Idle
  <2>3. \A x \in Actor \ {a} : op'[x] = IF op[x].c = c THEN [op[x] EXCEPT !.steady = FALSE] ELSE op[x]
    BY <1>3 DEF DeleteEntry
  <2>4. \A x \in Actor \ {a} : /\ op'[x].at = op[x].at /\ op'[x].got = op[x].got
                               /\ op'[x].steady => op[x].steady
    BY <1>a, <2>3 DEF Operation
  <2>5. \A x \in Actor : ~Inside(x)
    BY <2>1, <1>d DEF Inside
  <2>6. \A b \in Blob : files[b] # "torn"
    BY <1>c, <2>5 DEF TornWhileWritten, Inside
  <2>7. \A x \in Actor : op'[x].at # "write"
    <3>1. op'[a].at = "idle" \/ op'[a].at = "unlink"
      BY <1>3 DEF DeleteEntry, Idle
    <3>2. ASSUME NEW x \in Actor, x # a PROVE op'[x].at # "write"
      BY <2>4, <2>5, <3>2 DEF Inside
    <3> QED
      BY <3>1, <3>2
  <2>8. TornWhileWritten'
    BY <2>1, <2>6, <2>7 DEF TornWhileWritten
  <2>9. SteadyReadIsWhole'
    <3>1. ASSUME NEW x \in Actor, op'[x].at = "idle", op'[x].steady PROVE op'[x].got = "whole"
      <4>1. x # a /\ op[x].at = "idle" /\ op[x].steady /\ op'[x].got = op[x].got
        BY <2>2, <2>4, <3>1
      <4> QED
        BY <1>c, <4>1 DEF SteadyReadIsWhole
    <3> QED
      BY <3>1 DEF SteadyReadIsWhole
  <2>10. KeptForARow'
    <3> SUFFICES ASSUME NEW b \in Blob, files[b] # "absent"
                 PROVE  \/ \E d \in rows \ {c} : BlobOf[d] = b
                        \/ op'[a].at = "unlink" /\ BlobOf[op'[a].c] = b
      BY <2>1 DEF KeptForARow
    <3>1. PICK d \in rows : BlobOf[d] = b
      BY <1>c, <2>5 DEF KeptForARow, Inside
    <3>2. CASE \E other \in rows \ {c} : BlobOf[other] = b
      BY <3>2
    <3>3. CASE ~\E other \in rows \ {c} : BlobOf[other] = b
      BY <2>2, <3>1, <3>3 DEF LastReference, HasBlob, References
    <3> QED
      BY <3>2, <3>3
  <2> QED
    BY <2>8, <2>9, <2>10 DEF Tidy
<1>4. ASSUME NEW a \in Actor, NEW c \in Content, FindRow(a, c) PROVE Tidy'
  <2>1. /\ UNCHANGED <<rows, files, faults>> /\ op[a].at = "idle"
        /\ op'[a].at = "look" /\ \A x \in Actor \ {a} : op'[x] = op[x]
    BY <1>a, <1>4 DEF FindRow, Idle
  <2> QED
    BY <1>c, <2>1 DEF Tidy, TornWhileWritten, KeptForARow, SteadyReadIsWhole
<1>5. ASSUME NEW a \in Actor, WriteBlob(a) PROVE Tidy'
  <2> DEFINE b == BlobOf[op[a].c]
  <2>1. /\ UNCHANGED <<rows, faults>> /\ op[a].at = "blob" /\ op[a].c \in Content
        /\ \A x \in Actor \ {a} : ~Inside(x)
    BY <1>d, <1>5 DEF WriteBlob
  <2>2. CASE b # None /\ files[b] = "absent"
    <3>1. /\ files' = [files EXCEPT ![b] = "torn"] /\ b \in Blob
          /\ op'[a].at = "write" /\ op'[a].c = op[a].c
          /\ \A x \in Actor \ {a} : op'[x] = op[x]
      BY <1>a, <1>5, <2>1, <2>2 DEF WriteBlob, Goto, Operation
    <3>2. \A c \in rows : BlobOf[c] # b
      BY <2>1, <2>2 DEF Inv, RowHasFile, HasBlob
    <3>3. TornWhileWritten' /\ KeptForARow'
      BY <1>a, <1>c, <2>1, <3>1, <3>2 DEF TornWhileWritten, KeptForARow, Inside
    <3>4. SteadyReadIsWhole'
      BY <1>c, <2>1, <3>1 DEF SteadyReadIsWhole
    <3> QED
      BY <3>3, <3>4 DEF Tidy
  <2>3. CASE ~(b # None /\ files[b] = "absent")
    <3>1. /\ files' = files /\ op'[a].at = "row" /\ op'[a].c = op[a].c
          /\ \A x \in Actor \ {a} : op'[x] = op[x]
      BY <1>a, <1>5, <2>3 DEF WriteBlob, Goto, Operation
    <3> QED
      BY <1>c, <2>1, <3>1 DEF Tidy, TornWhileWritten, KeptForARow, SteadyReadIsWhole
  <2> QED
    BY <2>2, <2>3
<1>6. ASSUME NEW a \in Actor, FillBlob(a) PROVE Tidy'
  <2>1. /\ UNCHANGED <<rows, faults>> /\ op[a].at = "write"
        /\ files' = [files EXCEPT ![BlobOf[op[a].c]] = "whole"]
        /\ op'[a].at = "row" /\ op'[a].c = op[a].c /\ \A x \in Actor \ {a} : op'[x] = op[x]
    BY <1>a, <1>6 DEF FillBlob, Goto, Operation
  <2>2. \A x \in Actor \ {a} : ~Inside(x)
    BY <1>d, <2>1
  <2> QED
    BY <1>a, <1>c, <2>1, <2>2 DEF Tidy, TornWhileWritten, KeptForARow, SteadyReadIsWhole, Inside
<1>7. ASSUME NEW a \in Actor, CommitRow(a) PROVE Tidy'
  <2>1. /\ UNCHANGED <<files, faults>> /\ op[a].at = "row" /\ rows' = rows \cup {op[a].c}
        /\ op'[a].at = "idle" /\ op'[a].steady = FALSE /\ \A x \in Actor \ {a} : op'[x] = op[x]
    BY <1>a, <1>7 DEF CommitRow, Return, Idle
  <2>2. \A x \in Actor \ {a} : ~Inside(x)
    BY <1>d, <2>1
  <2> QED
    BY <1>c, <2>1, <2>2 DEF Tidy, TornWhileWritten, KeptForARow, SteadyReadIsWhole, Inside
<1>8. ASSUME NEW a \in Actor, Unlink(a) PROVE Tidy'
  <2>1. /\ UNCHANGED <<rows, faults>> /\ op[a].at = "unlink"
        /\ files' = [files EXCEPT ![BlobOf[op[a].c]] = "absent"]
        /\ op'[a].at = "idle" /\ op'[a].steady = FALSE /\ \A x \in Actor \ {a} : op'[x] = op[x]
    BY <1>a, <1>8 DEF Unlink, Return, Idle
  <2>2. \A x \in Actor \ {a} : ~Inside(x)
    BY <1>d, <2>1
  <2> QED
    BY <1>a, <1>c, <2>1, <2>2 DEF Tidy, TornWhileWritten, KeptForARow, SteadyReadIsWhole, Inside
<1>9. ASSUME NEW a \in Actor, LookForBlob(a) PROVE Tidy'
  <2>1. /\ UNCHANGED <<rows, files, db, faults>> /\ op[a].at = "look"
        /\ \A x \in Actor \ {a} : op'[x] = op[x]
    BY <1>a, <1>9 DEF LookForBlob, Answered, Goto
  <2>2. \/ op'[a].at = "open"
        \/ /\ files[BlobOf[op[a].c]] = "absent" /\ op'[a].at = "idle"
           /\ op'[a].steady = op[a].steady
    BY <1>a, <1>9 DEF LookForBlob, Answered, Goto, Operation
  <2>3. op'[a].at = "idle" => ~op'[a].steady
    BY <2>1, <2>2 DEF Inv, Steady, RowHasFile, HasBlob
  <2> QED
    BY <1>c, <2>1, <2>2, <2>3 DEF Tidy, TornWhileWritten, KeptForARow, SteadyReadIsWhole
<1>10. ASSUME NEW a \in Actor, ReadBlob(a) PROVE Tidy'
  <2> DEFINE b == BlobOf[op[a].c]
  <2>1. /\ UNCHANGED <<rows, files, db, faults>> /\ op[a].at = "open"
        /\ op[a].c \in Content /\ b \in Blob
    BY <1>10 DEF ReadBlob, Inv, Steady, HasBlob
  <2>2. op[a].steady => files[b] = "whole"
    <3>1. op[a].steady => op[a].c \in rows /\ files[b] # "absent"
      BY <2>1 DEF Inv, Steady, RowHasFile, HasBlob
    <3>2. op[a].steady => files[b] # "torn"
      BY <1>c, <2>1, <3>1 DEF TornWhileWritten
    <3> QED
      BY <1>a, <2>1, <3>1, <3>2 DEF FileState
  <2>3. PICK got \in Answer : Answered(a, got) /\ (files[b] = "whole" => got = "whole")
    <3>1. CASE files[b] = "absent"
      BY <1>10, <3>1 DEF ReadBlob, Answer
    <3>2. CASE files[b] = "torn"
      BY <1>10, <3>2 DEF ReadBlob, Answer
    <3>3. CASE files[b] = "whole"
      BY <1>10, <3>3 DEF ReadBlob, Answer
    <3> QED
      BY <1>a, <2>1, <3>1, <3>2, <3>3 DEF FileState
  <2>4. /\ op'[a].at = "idle" /\ op'[a].got = got /\ op'[a].steady = op[a].steady
        /\ \A x \in Actor \ {a} : op'[x] = op[x]
    BY <1>a, <2>3 DEF Answered, Operation
  <2> QED
    BY <1>c, <2>1, <2>2, <2>3, <2>4 DEF Tidy, TornWhileWritten, KeptForARow, SteadyReadIsWhole
<1>11. CASE UNCHANGED vars
    BY <1>c, <1>11 DEF vars, Tidy, TornWhileWritten, KeptForARow, SteadyReadIsWhole
<1> QED
    BY <1>1, <1>2, <1>3, <1>4, <1>5, <1>6, <1>7, <1>8, <1>9, <1>10, <1>11 DEF Next

\* While nothing fails the directory stays tidy, throughout.
THEOREM TidyAlways == Spec => []Tidy
<1>1. Init => Tidy
    BY DEF Init, Tidy, TornWhileWritten, KeptForARow, SteadyReadIsWhole, Idle
<1> QED
    BY <1>1, StepTidy, InvAlways, PTL DEF Spec

(***************************************************************************)
(* While nothing fails, get_blob never sees a file half written, although  *)
(* it reads without the mutex the writers hold.                            *)
(***************************************************************************)
THEOREM SteadyReadAlwaysWhole == Spec => []SteadyReadIsWhole
<1>1. Tidy => SteadyReadIsWhole
    BY DEF Tidy, SteadyReadIsWhole
<1> QED
    BY <1>1, TidyAlways, PTL

(***************************************************************************)
(* While nothing fails, no order of insertions and deletions of payloads   *)
(* that share blobs leaves a file that no row names.                       *)
(***************************************************************************)
THEOREM NoFileIsOrphaned == Spec => []NoOrphanFile
<1>1. ASSUME Inv, Tidy PROVE NoOrphanFile
    <2> SUFFICES ASSUME faults = 0, db = None, NEW b \in Blob, files[b] # "absent"
                 PROVE  \E c \in rows : BlobOf[c] = b
      BY DEF NoOrphanFile, References
    <2>1. \A a \in Actor : ~Inside(a)
      BY BlobStoreAssumption, <1>1 DEF Inv, Exclusion
    <2> QED
      BY <1>1, <2>1 DEF Tidy, KeptForARow, Inside
<1> QED
    BY <1>1, TidyAlways, InvAlways, PTL

\* The type invariant, on its own.
THEOREM StoreTypeCorrect == Spec => []TypeOK
<1>1. Inv => TypeOK
    BY DEF Inv
<1> QED
    BY <1>1, InvAlways, PTL
=============================================================================
