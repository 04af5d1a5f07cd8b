----------------------------- MODULE MobileProofs -----------------------------
(***************************************************************************)
(* What TLAPS proves of the application on Android, for any history, page  *)
(* size and number of commands under way, and any number of batches,       *)
(* items, imports at once, failures and kills: nothing that was shared is  *)
(* lost, Enter pastes what the filter asks for, and the list that is shown *)
(* has no gap.                                                             *)
(***************************************************************************)
EXTENDS MobileApp, TLAPS, FiniteSetTheorems, WellFoundedInduction

-----------------------------------------------------------------------------
(* The shares                                                              *)

ImportState ==
    [at : {"off", "pick", "item", "unlink", "announce"}, todo : SUBSET Batch,
     b : Batch \cup {{}}, i : Nat \ {0}, new : BOOLEAN, err : BOOLEAN, imported : BOOLEAN]

\* The items that an import is to store.
Wanted(b, i) == Items[b][i].usable /\ Items[b][i].kind # "other"

Kept(b, i) ==
    \/ Items[b][i].content \in everStored
    \/ /\ batch[b] \in {"pending", "failed"}
       /\ Items[b][i].kind = "file" => <<b, i>> \in files

\* Of the batch an import is at, every item that it has left behind is stored
\* or makes it keep the batch; between the insertion of an item and the next
\* one, that item is stored as well.
Progress(m) ==
    LET s == importer[m] IN
    /\ \A b \in s.todo : batch[b] # "none"
    /\ s.at \in {"item", "unlink", "announce"} =>
         /\ s.b \in Batch /\ batch[s.b] # "none"
         /\ \A j \in DOMAIN Items[s.b] :
              j < s.i /\ Wanted(s.b, j) => s.err \/ Items[s.b][j].content \in everStored
    /\ s.at \in {"unlink", "announce"} => Items[s.b][s.i].content \in everStored

(***************************************************************************)
(* Strengthens NoShareLost by how far each import is: only with it does    *)
(* the removal of a batch at its end say that all of it is stored.         *)
(***************************************************************************)
ShareInv ==
    /\ batch \in [Batch -> {"none", "pending", "failed", "gone"}]
    /\ importer \in [Importer -> ImportState]
    /\ \A m \in Importer : Progress(m)
    /\ NoShareLost

\* NoShareLost, one item at a time.
LEMMA LostItem ==
    NoShareLost <=> \A b \in Batch : batch[b] # "none" =>
                      \A i \in DOMAIN Items[b] : Wanted(b, i) => Kept(b, i)
  BY DEF NoShareLost, Wanted, Kept

LEMMA ItemsAreSequences ==
    ASSUME NEW b \in Batch
    PROVE  /\ DOMAIN Items[b] = 1..Len(Items[b]) /\ Len(Items[b]) \in Nat
           /\ \A i \in DOMAIN Items[b] :
                /\ Items[b][i].kind \in {"text", "file", "other"}
                /\ Items[b][i].usable \in BOOLEAN /\ Items[b][i].content \in Content
  <1> DEFINE S == [kind : {"text", "file", "other"}, content : Content, usable : BOOLEAN]
  <1>1. Items[b] \in Seq(S)
    BY ShareImportAssumption DEF ShareImportAssumption
  <1> HIDE DEF S
  <1>2. DOMAIN Items[b] = 1..Len(Items[b]) /\ Len(Items[b]) \in Nat
    BY <1>1
  <1>3. \A i \in DOMAIN Items[b] : Items[b][i] \in S
    BY <1>1, <1>2
  <1> QED
    BY <1>2, <1>3 DEF S

\* What another import, or anything else, does to the state of import m.
LEMMA OthersProgress ==
    ASSUME ShareInv, NEW m \in Importer, importer'[m] = importer[m],
           everStored \subseteq everStored',
           \A b \in Batch : batch[b] # "none" => batch'[b] # "none"
    PROVE  Progress(m)'
  BY DEF ShareInv, Progress, Wanted, ImportState

\* A step that starts no batch, ends none and removes no wanted file.
LEMMA NothingRemoved ==
    ASSUME ShareInv, batch' = batch, everStored \subseteq everStored',
           \A b \in Batch : \A i \in DOMAIN Items[b] :
             /\ Wanted(b, i) /\ Items[b][i].kind = "file" /\ <<b, i>> \in files
             => <<b, i>> \in files' \/ Items[b][i].content \in everStored'
    PROVE  NoShareLost'
  <1>1. \A b \in Batch : batch[b] # "none" =>
          \A i \in DOMAIN Items[b] : Wanted(b, i) => Kept(b, i)
    BY LostItem DEF ShareInv
  <1>2. \A b \in Batch : batch'[b] # "none" =>
          \A i \in DOMAIN Items[b] : Wanted(b, i) => Kept(b, i)'
    BY <1>1 DEF Kept
  <1> QED
    BY <1>2 DEF NoShareLost, Wanted, Kept

\* A step that leaves the imports alone.
LEMMA ImportsUntouched ==
    ASSUME ShareInv, UNCHANGED <<batch, files, importer>>, everStored \subseteq everStored'
    PROVE  ShareInv'
  <1>1. NoShareLost'
    BY NothingRemoved
  <1>2. \A m \in Importer : Progress(m)'
    BY OthersProgress
  <1> QED
    BY <1>1, <1>2 DEF ShareInv

\* A step of one import that leaves the batches as they are.
LEMMA ImportMoves ==
    ASSUME ShareInv, NEW m \in Importer, NEW s \in ImportState, Goes(m, s), batch' = batch,
           everStored \subseteq everStored', Progress(m)',
           \A b \in Batch : \A i \in DOMAIN Items[b] :
             /\ Wanted(b, i) /\ Items[b][i].kind = "file" /\ <<b, i>> \in files
             => <<b, i>> \in files' \/ Items[b][i].content \in everStored'
    PROVE  ShareInv'
  <1>1. NoShareLost'
    BY NothingRemoved
  <1>2. \A n \in Importer : Progress(n)'
    BY OthersProgress DEF Goes, ShareInv
  <1>3. importer' \in [Importer -> ImportState]
    BY DEF Goes, ShareInv
  <1> QED
    BY <1>1, <1>2, <1>3 DEF ShareInv

\* The next item, when the one before is stored, unwanted or an error.
LEMMA NextItemProgress ==
    ASSUME ShareInv, NEW m \in Importer, NEW s \in ImportState,
           importer[m].at \in {"item", "unlink", "announce"},
           Goes(m, s), batch' = batch, everStored \subseteq everStored',
           s.at = "item", s.todo = importer[m].todo, s.b = importer[m].b,
           s.i = importer[m].i + 1, importer[m].err => s.err,
           importer[m].i \in DOMAIN Items[importer[m].b] /\ Wanted(importer[m].b, importer[m].i)
             => s.err \/ Item(m).content \in everStored'
    PROVE  Progress(m)'
  <1>1. importer'[m] = s
    BY DEF Goes, ShareInv
  <1>2. importer[m] \in ImportState /\ Progress(m)
    BY DEF ShareInv
  <1> DEFINE b == importer[m].b
  <1>3. b \in Batch /\ importer[m].i \in Nat
    BY <1>2 DEF Progress, ImportState
  <1>4. \A j \in DOMAIN Items[b] : j \in Nat
    BY <1>3, ItemsAreSequences
  <1>5. \A j \in DOMAIN Items[b] :
          j < s.i /\ Wanted(b, j) => s.err \/ Items[b][j].content \in everStored'
    <2> TAKE j \in DOMAIN Items[b]
    <2> HAVE j < s.i /\ Wanted(b, j)
    <2>1. CASE j = importer[m].i
      BY <2>1 DEF Item
    <2>2. CASE j < importer[m].i
      BY <2>2, <1>2 DEF Progress
    <2> QED
      BY <2>1, <2>2, <1>3, <1>4
  <1> QED
    BY <1>1, <1>2, <1>3, <1>5 DEF Progress, Wanted

\* Between an item and the next: the item is stored.
LEMMA StoredProgress ==
    ASSUME ShareInv, NEW m \in Importer, NEW s \in ImportState,
           importer[m].at \in {"item", "unlink"},
           Goes(m, s), batch' = batch, everStored \subseteq everStored',
           s.at \in {"unlink", "announce"}, s.todo = importer[m].todo, s.b = importer[m].b,
           s.i = importer[m].i, s.err = importer[m].err,
           Item(m).content \in everStored'
    PROVE  Progress(m)'
  <1>1. importer'[m] = s
    BY DEF Goes, ShareInv
  <1>2. Progress(m)
    BY DEF ShareInv
  <1> QED
    BY <1>1, <1>2 DEF Progress, Wanted, Item

-----------------------------------------------------------------------------
(* One lemma per step of an import                                         *)

LEMMA StepType ==
    ASSUME ShareInv, NEW m \in Importer
    PROVE  importer[m] \in ImportState /\ Progress(m)
  BY DEF ShareInv

LEMMA NextItemType ==
    ASSUME ShareInv, NEW m \in Importer
    PROVE  /\ NextItem(m) \in ImportState
           /\ NextItem(m).at = "item" /\ NextItem(m).todo = importer[m].todo
           /\ NextItem(m).b = importer[m].b /\ NextItem(m).i = importer[m].i + 1
           /\ NextItem(m).err = importer[m].err
  <1>1. importer[m].i \in Nat \ {0} /\ importer[m] \in ImportState
    BY StepType DEF ImportState
  <1> DEFINE i == importer[m].i + 1
  <1>2. i \in Nat \ {0}
    BY <1>1
  <1>3. NextItem(m) = [importer[m] EXCEPT !.at = "item", !.i = i]
    BY DEF NextItem
  <1> HIDE DEF i
  <1>4. NextItem(m) \in ImportState /\ NextItem(m).i = i
    BY <1>1, <1>2, <1>3 DEF ImportState
  <1>5. /\ NextItem(m).at = "item" /\ NextItem(m).todo = importer[m].todo
        /\ NextItem(m).b = importer[m].b /\ NextItem(m).err = importer[m].err
    BY <1>1, <1>3 DEF ImportState
  <1> QED
    BY <1>4, <1>5 DEF i

LEMMA ItemType ==
    ASSUME ShareInv, NEW m \in Importer, AtItem(m)
    PROVE  /\ importer[m].b \in Batch /\ importer[m].i \in Nat \ {0}
           /\ NextItem(m) \in ImportState
           /\ [NextItem(m) EXCEPT !.err = TRUE] \in ImportState
  <1>1. importer[m].b \in Batch /\ importer[m].i \in Nat \ {0}
    BY StepType DEF AtItem, ImportState, Progress
  <1>2. [NextItem(m) EXCEPT !.err = TRUE] \in ImportState
    BY NextItemType DEF ImportState
  <1> QED
    BY <1>1, <1>2, NextItemType

LEMMA BeginSafe ==
    ASSUME ShareInv, NEW m \in Importer, BeginImport(m), UNCHANGED <<batch, files, everStored>>
    PROVE  ShareInv'
  <1> DEFINE todo == {b \in Batch : batch[b] = "pending"}
             s == [NoImport EXCEPT !.at = "pick", !.todo = todo]
  <1>1. s \in ImportState
    <2>1. todo \in SUBSET Batch /\ 1 \in Nat \ {0}
      OBVIOUS
    <2> HIDE DEF todo
    <2> QED
      BY <2>1 DEF NoImport, ImportState
  <1>2. Progress(m)'
    BY DEF BeginImport, Goes, NoImport, Progress, ShareInv
  <1> QED
    BY <1>1, <1>2, ImportMoves DEF BeginImport

LEMMA EndSafe ==
    ASSUME ShareInv, NEW m \in Importer, EndImport(m)
    PROVE  ShareInv'
  <1>1. NoImport \in ImportState
    BY DEF NoImport, ImportState
  <1>2. Progress(m)'
    BY DEF EndImport, Goes, NoImport, Progress, ShareInv
  <1> QED
    BY <1>1, <1>2, ImportMoves DEF EndImport

LEMMA PickSafe ==
    ASSUME ShareInv, NEW m \in Importer, PickBatch(m)
    PROVE  ShareInv'
  <1>1. PICK b \in importer[m].todo :
          LET rest == [importer[m] EXCEPT !.todo = @ \ {b}] IN
          Goes(m, IF batch[b] = "pending"
                  THEN [rest EXCEPT !.at = "item", !.b = b, !.i = 1, !.err = FALSE]
                  ELSE rest)
    BY DEF PickBatch
  <1> DEFINE rest == [importer[m] EXCEPT !.todo = @ \ {b}]
             s == IF batch[b] = "pending"
                  THEN [rest EXCEPT !.at = "item", !.b = b, !.i = 1, !.err = FALSE]
                  ELSE rest
  <1>2. importer[m].at = "pick" /\ UNCHANGED <<batch, files, everStored>>
    BY DEF PickBatch
  <1>3. b \in Batch
    BY <1>1, StepType DEF ImportState
  <1>4. s \in ImportState /\ s.at \in {"pick", "item"} /\ s.todo = importer[m].todo \ {b}
        /\ (s.at = "item" => s.b = b /\ s.i = 1 /\ batch[b] = "pending")
    <2>1. importer[m] \in ImportState /\ 1 \in Nat \ {0}
      BY StepType
    <2>2. rest \in ImportState /\ rest.at = "pick" /\ rest.todo = importer[m].todo \ {b}
      BY <1>2, <2>1 DEF ImportState
    <2> HIDE DEF rest
    <2>3. CASE batch[b] = "pending"
      BY <1>3, <2>1, <2>2, <2>3 DEF ImportState
    <2>4. CASE batch[b] # "pending"
      BY <2>2, <2>4
    <2> QED
      BY <2>3, <2>4
  <1>5. importer'[m] = s
    BY <1>1 DEF Goes, ShareInv
  <1>6. \A j \in DOMAIN Items[b] : ~(j < 1)
    BY <1>3, ItemsAreSequences
  <1>7. Progress(m)'
    BY <1>2, <1>3, <1>4, <1>5, <1>6, StepType DEF Progress
  <1> QED
    BY <1>1, <1>2, <1>4, <1>7, ImportMoves

LEMMA SkipSafe ==
    ASSUME ShareInv, NEW m \in Importer, SkipItem(m)
    PROVE  ShareInv'
  <1>1. AtItem(m) /\ ~Wanted(importer[m].b, importer[m].i) /\ Goes(m, NextItem(m))
        /\ UNCHANGED <<batch, files, everStored>>
    BY DEF SkipItem, Wanted, Item
  <1>2. Progress(m)'
    BY <1>1, ItemType, StepType, NextItemProgress DEF NextItem, AtItem, ImportState
  <1> QED
    BY <1>1, <1>2, ItemType, ImportMoves

LEMMA FileGoneSafe ==
    ASSUME ShareInv, NEW m \in Importer, FileGone(m) \/ ItemFails(m)
    PROVE  ShareInv'
  <1>1. AtItem(m) /\ Goes(m, [NextItem(m) EXCEPT !.err = TRUE])
        /\ UNCHANGED <<batch, files, everStored>>
    BY DEF FileGone, ItemFails
  <1>2. Progress(m)'
    BY <1>1, ItemType, StepType, NextItemProgress DEF NextItem, AtItem, ImportState
  <1> QED
    BY <1>1, <1>2, ItemType, ImportMoves

LEMMA FileUnusableSafe ==
    ASSUME ShareInv, NEW m \in Importer, FileUnusable(m)
    PROVE  ShareInv'
  <1>1. AtItem(m) /\ ~Wanted(importer[m].b, importer[m].i) /\ Goes(m, NextItem(m))
        /\ files' = files \ {<<importer[m].b, importer[m].i>>}
        /\ UNCHANGED <<batch, everStored>>
    BY DEF FileUnusable, Wanted, Item, File
  <1>2. Progress(m)'
    BY <1>1, ItemType, StepType, NextItemProgress DEF NextItem, AtItem, ImportState
  <1>3. \A b \in Batch : \A i \in DOMAIN Items[b] :
          Wanted(b, i) /\ <<b, i>> \in files => <<b, i>> \in files'
    BY <1>1
  <1> QED
    BY <1>1, <1>2, <1>3, ItemType, ImportMoves

LEMMA TextSafe ==
    ASSUME ShareInv, NEW m \in Importer, ImportText(m)
    PROVE  ShareInv'
  <1>1. AtItem(m) /\ UNCHANGED <<batch, files>> /\ everStored \subseteq everStored'
        /\ Item(m).content \in everStored'
    BY DEF ImportText, Insert
  <1>2. CASE New(m)
    <2> DEFINE s == [importer[m] EXCEPT !.at = "announce"]
    <2>1. Goes(m, s)
      BY <1>2 DEF ImportText
    <2>2. s \in ImportState /\ s.at = "announce" /\ s.todo = importer[m].todo /\ s.b = importer[m].b
          /\ s.i = importer[m].i /\ s.err = importer[m].err
      BY StepType DEF ImportState
    <2>3. Progress(m)'
      BY <1>1, <2>1, <2>2, StoredProgress DEF AtItem
    <2> QED
      BY <1>1, <2>1, <2>2, <2>3, ImportMoves
  <1>3. CASE ~New(m)
    <2>1. Goes(m, NextItem(m))
      BY <1>3 DEF ImportText
    <2>2. Progress(m)'
      BY <1>1, <2>1, ItemType, StepType, NextItemProgress DEF NextItem, AtItem, ImportState
    <2> QED
      BY <1>1, <2>1, <2>2, ItemType, ImportMoves
  <1> QED
    BY <1>2, <1>3

LEMMA FileSafe ==
    ASSUME ShareInv, NEW m \in Importer, ImportFile(m)
    PROVE  ShareInv'
  <1> DEFINE s == [importer[m] EXCEPT !.at = "unlink", !.new = New(m)]
  <1>1. AtItem(m) /\ UNCHANGED <<batch, files>> /\ everStored \subseteq everStored'
        /\ Item(m).content \in everStored' /\ Goes(m, s)
    BY DEF ImportFile, Insert
  <1>2. New(m) \in BOOLEAN
    BY DEF New
  <1>3. s \in ImportState /\ s.at = "unlink" /\ s.todo = importer[m].todo /\ s.b = importer[m].b
        /\ s.i = importer[m].i /\ s.err = importer[m].err
    BY <1>2, StepType DEF ImportState
  <1>4. Progress(m)'
    BY <1>1, <1>3, StoredProgress DEF AtItem
  <1> QED
    BY <1>1, <1>3, <1>4, ImportMoves

LEMMA UnlinkSafe ==
    ASSUME ShareInv, NEW m \in Importer, UnlinkFile(m)
    PROVE  ShareInv'
  <1>1. importer[m].at = "unlink" /\ UNCHANGED <<batch, everStored>>
        /\ files' = files \ {<<importer[m].b, importer[m].i>>}
    BY DEF UnlinkFile, File
  <1>2. importer[m].b \in Batch /\ Item(m).content \in everStored
    BY <1>1, StepType DEF Progress, Item
  <1>3. \A b \in Batch : \A i \in DOMAIN Items[b] :
          <<b, i>> \in files => <<b, i>> \in files' \/ Items[b][i].content \in everStored'
    BY <1>1, <1>2 DEF Item
  <1>4. CASE importer[m].new
    <2> DEFINE s == [importer[m] EXCEPT !.at = "announce", !.new = FALSE]
    <2>1. Goes(m, s)
      BY <1>4 DEF UnlinkFile
    <2>2. s \in ImportState /\ s.at = "announce" /\ s.todo = importer[m].todo /\ s.b = importer[m].b
          /\ s.i = importer[m].i /\ s.err = importer[m].err
      BY StepType DEF ImportState
    <2>3. Progress(m)'
      BY <1>1, <1>2, <2>1, <2>2, StoredProgress
    <2> QED
      BY <1>1, <1>3, <2>1, <2>2, <2>3, ImportMoves
  <1>5. CASE ~importer[m].new
    <2>1. Goes(m, NextItem(m))
      BY <1>5 DEF UnlinkFile
    <2>2. NextItem(m) \in ImportState
      BY NextItemType
    <2>3. Progress(m)'
      BY <1>1, <1>2, <2>1, <2>2, StepType, NextItemProgress DEF NextItem, ImportState
    <2> QED
      BY <1>1, <1>3, <2>1, <2>2, <2>3, ImportMoves
  <1> QED
    BY <1>4, <1>5

LEMMA AnnounceSafe ==
    ASSUME ShareInv, NEW m \in Importer, Announce(m)
    PROVE  ShareInv'
  <1> DEFINE s == [NextItem(m) EXCEPT !.imported = TRUE]
  <1>1. importer[m].at = "announce" /\ Goes(m, s) /\ UNCHANGED <<batch, files, everStored>>
    BY DEF Announce
  <1>2. s \in ImportState /\ s.at = "item" /\ s.todo = importer[m].todo /\ s.b = importer[m].b
        /\ s.i = importer[m].i + 1 /\ s.err = importer[m].err
    BY NextItemType DEF ImportState
  <1>3. Progress(m)'
    BY <1>1, <1>2, StepType, NextItemProgress DEF Progress, Item
  <1> QED
    BY <1>1, <1>2, <1>3, ImportMoves

\* A batch that is moved to the failed ones, or that is removed when all of
\* its wanted items are stored.
LEMMA BatchEnds ==
    ASSUME ShareInv, NEW m \in Importer, NEW s \in ImportState, NEW b \in Batch,
           Goes(m, s), Progress(m)', UNCHANGED <<files, everStored>>,
           batch[b] # "none",
           \/ batch' = [batch EXCEPT ![b] = "failed"] /\ batch[b] = "pending"
           \/ batch' = [batch EXCEPT ![b] = "gone"]
              /\ \A j \in DOMAIN Items[b] : Wanted(b, j) => Items[b][j].content \in everStored
    PROVE  ShareInv'
  <1>1. batch' \in [Batch -> {"none", "pending", "failed", "gone"}]
    BY DEF ShareInv
  <1>2. \A c \in Batch : batch[c] # "none" <=> batch'[c] # "none"
    BY DEF ShareInv
  <1>3. importer' \in [Importer -> ImportState]
    BY DEF Goes, ShareInv
  <1>4. \A n \in Importer : Progress(n)'
    BY <1>2, OthersProgress DEF Goes, ShareInv
  <1>5. \A c \in Batch : batch[c] # "none" =>
          \A i \in DOMAIN Items[c] : Wanted(c, i) => Kept(c, i)
    BY LostItem DEF ShareInv
  <1>6. \A c \in Batch : batch'[c] # "none" =>
          \A i \in DOMAIN Items[c] : Wanted(c, i) => Kept(c, i)'
    <2> TAKE c \in Batch
    <2> HAVE batch'[c] # "none"
    <2> TAKE i \in DOMAIN Items[c]
    <2> HAVE Wanted(c, i)
    <2>1. CASE c = b
      BY <2>1, <1>5 DEF Kept, ShareInv
    <2>2. CASE c # b
      BY <2>2, <1>2, <1>5 DEF Kept, ShareInv
    <2> QED
      BY <2>1, <2>2
  <1>7. NoShareLost'
    BY <1>6 DEF NoShareLost, Wanted, Kept
  <1> QED
    BY <1>1, <1>3, <1>4, <1>7 DEF ShareInv

LEMMA PickFailsSafe ==
    ASSUME ShareInv, NEW m \in Importer, PickFails(m)
    PROVE  ShareInv'
  <1>1. PICK b \in importer[m].todo :
          /\ Goes(m, [importer[m] EXCEPT !.todo = @ \ {b}])
          /\ batch[b] = "pending" /\ batch' = [batch EXCEPT ![b] = "failed"]
    BY DEF PickFails
  <1> DEFINE s == [importer[m] EXCEPT !.todo = @ \ {b}]
  <1>2. importer[m].at = "pick" /\ UNCHANGED <<files, everStored>>
    BY DEF PickFails
  <1>3. b \in Batch /\ s \in ImportState /\ s.at = "pick" /\ s.todo = importer[m].todo \ {b}
    BY <1>1, <1>2, StepType DEF ImportState
  <1>4. importer'[m] = s
    BY <1>1 DEF Goes, ShareInv
  <1>5. \A c \in Batch : batch[c] # "none" => batch'[c] # "none"
    BY <1>1 DEF ShareInv
  <1>6. importer[m].todo \subseteq Batch
    BY StepType DEF ImportState
  <1>7. Progress(m)'
    BY <1>3, <1>4, <1>5, <1>6, StepType DEF Progress
  <1> QED
    BY <1>1, <1>2, <1>3, <1>7, BatchEnds

LEMMA CloseSafe ==
    ASSUME ShareInv, NEW m \in Importer, CloseBatch(m) \/ CloseFails(m)
    PROVE  ShareInv'
  <1> DEFINE s == [importer[m] EXCEPT !.at = "pick"]
             b == importer[m].b
  <1>1. /\ importer[m].at = "item" /\ importer[m].i > Len(Items[b])
        /\ Goes(m, s) /\ UNCHANGED <<files, everStored>>
        /\ \/ batch' = batch
           \/ /\ batch[b] = "pending"
              /\ batch' = [batch EXCEPT ![b] = IF importer[m].err THEN "failed" ELSE "gone"]
    BY DEF CloseBatch, CloseFails
  <1>2. s \in ImportState /\ s.at = "pick" /\ s.todo = importer[m].todo
    BY StepType DEF ImportState
  <1>3. b \in Batch /\ importer[m].i \in Nat /\ batch[b] # "none"
    BY <1>1, StepType DEF Progress, ImportState
  <1>4. importer'[m] = s
    BY <1>1 DEF Goes, ShareInv
  <1>5. \A c \in Batch : batch[c] # "none" => batch'[c] # "none"
    BY <1>1, <1>3 DEF ShareInv
  <1>6. importer[m].todo \subseteq Batch
    BY StepType DEF ImportState
  <1>7. Progress(m)'
    BY <1>2, <1>4, <1>5, <1>6, StepType DEF Progress
  <1>8. \A j \in DOMAIN Items[b] : j < importer[m].i
    BY <1>1, <1>3, ItemsAreSequences
  <1>9. ~importer[m].err =>
          \A j \in DOMAIN Items[b] : Wanted(b, j) => Items[b][j].content \in everStored
    BY <1>1, <1>8, StepType DEF Progress
  <1>10. CASE batch' = batch
    BY <1>1, <1>2, <1>7, <1>10, ImportMoves
  <1>11. CASE batch' # batch
    BY <1>1, <1>2, <1>3, <1>7, <1>9, <1>11, BatchEnds
  <1> QED
    BY <1>10, <1>11

LEMMA StagedSafe ==
    ASSUME ShareInv, NEW b \in Batch, ShareStaged(b)
    PROVE  ShareInv'
  <1>1. /\ batch[b] = "none" /\ batch' = [batch EXCEPT ![b] = "pending"]
        /\ files' = files \cup FilesOf(b) /\ UNCHANGED <<importer, everStored>>
    BY DEF ShareStaged
  <1>2. batch' \in [Batch -> {"none", "pending", "failed", "gone"}]
    BY <1>1 DEF ShareInv
  <1>3. \A m \in Importer : Progress(m)'
    BY <1>1, OthersProgress DEF ShareInv
  <1>4. \A c \in Batch : batch[c] # "none" =>
          \A i \in DOMAIN Items[c] : Wanted(c, i) => Kept(c, i)
    BY LostItem DEF ShareInv
  <1>5. \A c \in Batch : batch'[c] # "none" =>
          \A i \in DOMAIN Items[c] : Wanted(c, i) => Kept(c, i)'
    <2> TAKE c \in Batch
    <2> HAVE batch'[c] # "none"
    <2> TAKE i \in DOMAIN Items[c]
    <2> HAVE Wanted(c, i)
    <2>1. CASE c = b
      BY <2>1, <1>1 DEF Kept, ShareInv, FilesOf
    <2>2. CASE c # b
      BY <2>2, <1>1, <1>4 DEF Kept, ShareInv
    <2> QED
      BY <2>1, <2>2
  <1>6. NoShareLost'
    BY <1>5 DEF NoShareLost, Wanted, Kept
  <1> QED
    BY <1>1, <1>2, <1>3, <1>6 DEF ShareInv

LEMMA KilledSafe ==
    ASSUME ShareInv, Killed
    PROVE  ShareInv'
  <1>1. importer' = [m \in Importer |-> NoImport] /\ UNCHANGED <<batch, files, everStored>>
    BY DEF Killed
  <1>2. NoImport \in ImportState
    BY DEF NoImport, ImportState
  <1>3. NoShareLost'
    BY <1>1, NothingRemoved
  <1>4. \A m \in Importer : Progress(m)'
    BY <1>1 DEF Progress, NoImport
  <1> QED
    BY <1>1, <1>2, <1>3, <1>4 DEF ShareInv

-----------------------------------------------------------------------------
(* The application                                                         *)

LEMMA InitSafe ==
    ASSUME Init
    PROVE  ShareInv
  <1>1. batch = [b \in Batch |-> "none"] /\ importer = [m \in Importer |-> NoImport]
    BY DEF Init, ShareInit
  <1>2. NoImport \in ImportState
    BY DEF NoImport, ImportState
  <1>3. \A m \in Importer : Progress(m)
    BY <1>1 DEF Progress, NoImport
  <1>4. NoShareLost
    BY <1>1 DEF NoShareLost
  <1> QED
    BY <1>1, <1>2, <1>3, <1>4 DEF ShareInv

LEMMA NextSafe ==
    ASSUME ShareInv, [Next]_vars
    PROVE  ShareInv'
  <1>1. CASE Killed
    BY <1>1, KilledSafe
  <1>2. CASE SharesChecked
    <2>1. CASE \E m \in Importer : BeginImport(m)
      BY <1>2, <2>1, BeginSafe DEF SharesChecked
    <2>2. CASE UNCHANGED importer
      BY <1>2, <2>2, ImportsUntouched DEF SharesChecked
    <2> QED
      BY <1>2, <2>1, <2>2 DEF SharesChecked
  <1>3. CASE (\E w \in Waited : CaptureServed(w)) \/ \E w \in Puller : SyncPulls(w)
    BY <1>3, ImportsUntouched DEF CaptureServed, SyncPulls, PullsRow, PullsStar
  <1>4. CASE \E m \in Importer : ImportAnswered(m)
    BY <1>4, EndSafe DEF ImportAnswered
  <1>5. CASE Shared
    BY <1>5, StagedSafe DEF Shared
  <1>6. CASE Imports
    BY <1>6, PickSafe, SkipSafe, TextSafe, FileUnusableSafe, FileGoneSafe, FileSafe, UnlinkSafe,
       AnnounceSafe, CloseSafe DEF Imports, Importing
  <1>7. CASE Faults
    BY <1>7, PickFailsSafe, FileGoneSafe, CloseSafe, ImportsUntouched
       DEF Faults, ImportFails, shareVars
  <1>8. CASE UNCHANGED shareVars
    BY <1>8, ImportsUntouched DEF shareVars
  <1>9. Mount \/ Resume \/ ConfigRead \/ RefreshLoads \/ Loading \/ StepTimesOut \/ WatchdogFires
        \/ (\E w \in Waited : CaptureFails(w) \/ SyncPushed(w))
        \/ (\E w \in Puller : SyncAnswered(w) \/ SyncCutOff(w)) \/ (\E c \in Call : LoadGivenUp(c))
        \/ ListCommands \/ ListSteps \/ UserAtList \/ UNCHANGED vars
        => UNCHANGED shareVars
    BY DEF Mount, Resume, ConfigRead, RefreshLoads, Loading, LoadReturns, StepTimesOut,
       WatchdogFires, CaptureFails, SyncPushed, SyncAnswered, SyncCutOff, SyncEnds, LoadGivenUp, ListCommands, ListSteps, UserAtList, vars
  <1> QED
    BY <1>1, <1>2, <1>3, <1>4, <1>5, <1>6, <1>7, <1>8, <1>9 DEF Next

\* The inductive invariant.
THEOREM ShareInvAlways == Spec => []ShareInv
  BY InitSafe, NextSafe, PTL DEF Spec

(***************************************************************************)
(* What was shared with the application is never lost: it is in the        *)
(* history, or its batch is still pending or retained, with its files,     *)
(* whatever imports run at once, fail or are killed.                       *)
(***************************************************************************)
THEOREM NoShareIsLost == Spec => []NoShareLost
  BY ShareInvAlways, PTL DEF ShareInv

-----------------------------------------------------------------------------
(* Lists                                                                   *)

\* x stands before y in s.
Before(s, x, y) == \E i, j \in DOMAIN s : i < j /\ s[i] = x /\ s[j] = y

\* How many of places are not beyond i.
Rank(places, i) == Cardinality({j \in places : j <= i})

LEMMA LeastOf ==
    ASSUME NEW S \in SUBSET Nat, S # {}
    PROVE  \E i \in S : \A j \in S : i <= j
  <1>1. PICK i \in S : \A j \in S : <<j, i>> \notin OpToRel(<, Nat)
    BY NatLessThanWellFounded, WFMin, Zenon
  <1>2. \A j \in S : ~(j < i)
    BY <1>1, Zenon DEF OpToRel
  <1> QED
    BY <1>2

LEMMA RankType ==
    ASSUME NEW n \in Nat, NEW P, P \subseteq 1..n
    PROVE  /\ IsFiniteSet(P) /\ Cardinality(P) \in Nat
           /\ \A i \in Nat : /\ IsFiniteSet({j \in P : j <= i}) /\ Rank(P, i) \in Nat
                             /\ Rank(P, i) <= Cardinality(P)
  <1>1. IsFiniteSet(1..n)
    BY FS_Interval
  <1>2. IsFiniteSet(P) /\ Cardinality(P) \in Nat
    BY <1>1, FS_Subset, FS_CardinalityType, Zenon
  <1>3. ASSUME NEW i \in Nat
        PROVE  IsFiniteSet({j \in P : j <= i}) /\ Rank(P, i) \in Nat /\ Rank(P, i) <= Cardinality(P)
    <2> DEFINE below == {j \in P : j <= i}
    <2>1. below \in SUBSET P
      OBVIOUS
    <2> HIDE DEF below
    <2>2. IsFiniteSet(below) /\ Cardinality(below) \in Nat /\ Cardinality(below) <= Cardinality(P)
      BY <1>2, <2>1, FS_Subset, FS_CardinalityType, Zenon
    <2> QED
      BY <2>2, Zenon DEF Rank, below
  <1> QED
    BY <1>2, <1>3

LEMMA RankStep ==
    ASSUME NEW n \in Nat, NEW P, P \subseteq 1..n, NEW i \in Nat
    PROVE  Rank(P, i + 1) = IF i + 1 \in P THEN Rank(P, i) + 1 ELSE Rank(P, i)
  <1> DEFINE below == {j \in P : j <= i}
  <1>1. IsFiniteSet(below) /\ i + 1 \notin below
    <2>1. IsFiniteSet(below)
      BY RankType, Zenon
    <2>2. ~(i + 1 <= i)
      OBVIOUS
    <2> QED
      BY <2>1, <2>2, Zenon
  <1>2. CASE i + 1 \in P
    <2>1. \A j \in P : j <= i + 1 <=> j <= i \/ j = i + 1
      OBVIOUS
    <2>2. {j \in P : j <= i + 1} = below \cup {i + 1}
      BY <1>2, <2>1, Zenon
    <2> HIDE DEF below
    <2>3. Cardinality(below \cup {i + 1}) = Cardinality(below) + 1
      BY <1>1, FS_AddElement, Zenon
    <2> QED
      BY <1>2, <2>2, <2>3, Zenon DEF Rank, below
  <1>3. CASE i + 1 \notin P
    <2>1. \A j \in P : j <= i + 1 <=> j <= i
      BY <1>3
    <2>2. {j \in P : j <= i + 1} = below
      BY <2>1, Zenon
    <2> QED
      BY <1>3, <2>2, Zenon DEF Rank
  <1> QED
    BY <1>2, <1>3, Zenon

LEMMA RankOrder ==
    ASSUME NEW n \in Nat, NEW P, P \subseteq 1..n
    PROVE  /\ \A i, j \in P : i < j => Rank(P, i) < Rank(P, j)
           /\ \A i, j \in P : Rank(P, i) = Rank(P, j) => i = j
           /\ \A i \in P : Rank(P, i) \in 1..Cardinality(P)
  <1>0. \A i \in P : i \in Nat /\ i - 1 \in Nat /\ i = (i - 1) + 1 /\ Rank(P, i) \in Nat
    <2>1. \A i \in P : i \in Nat /\ i - 1 \in Nat /\ i = (i - 1) + 1
      OBVIOUS
    <2> QED
      BY <2>1, RankType, Zenon
  <1>1. ASSUME NEW i \in P, NEW j \in P, i < j
        PROVE  Rank(P, i) < Rank(P, j)
    <2> DEFINE upto == {k \in P : k <= j}
               below == {k \in P : k <= i}
    <2>1. IsFiniteSet(upto)
      BY <1>0, RankType
    <2>2. (\A k \in P : k <= i => k <= j) /\ j <= j /\ ~(j <= i)
      BY <1>0, <1>1
    <2>3. below \in SUBSET upto /\ j \in upto /\ j \notin below
      BY <2>2, Zenon
    <2> HIDE DEF upto, below
    <2>4. Cardinality(below) <= Cardinality(upto) /\ Cardinality(upto) # Cardinality(below)
      BY <2>1, <2>3, FS_Subset, Zenon
    <2>5. Rank(P, i) <= Rank(P, j) /\ Rank(P, i) # Rank(P, j)
      BY <2>4, Zenon DEF Rank, upto, below
    <2> QED
      BY <1>0, <2>5
  <1>2. ASSUME NEW i \in P
        PROVE  Rank(P, i) \in 1..Cardinality(P)
    <2>1. i - 1 \in Nat /\ i = (i - 1) + 1
      BY <1>0
    <2>2. Rank(P, i) = Rank(P, i - 1) + 1
      BY <2>1, RankStep
    <2>3. Rank(P, i) <= Cardinality(P) /\ Rank(P, i - 1) \in Nat /\ Cardinality(P) \in Nat
      BY <1>0, <2>1, RankType, Zenon
    <2> QED
      BY <2>2, <2>3
  <1> QED
    BY <1>0, <1>1, <1>2

LEMMA RankTaken ==
    ASSUME NEW n \in Nat, NEW P, P \subseteq 1..n, NEW k \in 1..Cardinality(P)
    PROVE  \E i \in P : Rank(P, i) = k
  <1>0. Cardinality(P) \in Nat /\ k \in Nat /\ \A i \in Nat : Rank(P, i) \in Nat
    <2>1. Cardinality(P) \in Nat /\ \A i \in Nat : Rank(P, i) \in Nat
      BY RankType, Zenon
    <2> QED
      BY <2>1
  <1> DEFINE D == {i \in Nat : Rank(P, i) >= k}
  <1>1. Rank(P, n) >= k
    <2>1. \A j \in P : j <= n
      OBVIOUS
    <2>2. {j \in P : j <= n} = P
      BY <2>1, Zenon
    <2>3. Rank(P, n) = Cardinality(P)
      BY <2>2, Zenon DEF Rank
    <2> QED
      BY <1>0, <2>3
  <1>2. PICK i \in D : \A j \in D : i <= j
    BY <1>1, LeastOf
  <1>3. Rank(P, 0) = 0
    <2>1. \A j \in P : ~(j <= 0)
      OBVIOUS
    <2>2. {j \in P : j <= 0} = {}
      BY <2>1, Zenon
    <2> QED
      BY <2>2, FS_EmptySet, Zenon DEF Rank
  <1>4. i \in Nat /\ i # 0 /\ i - 1 \in Nat /\ i = (i - 1) + 1
    BY <1>0, <1>2, <1>3
  <1>5. ~(Rank(P, i - 1) >= k)
    BY <1>2, <1>4
  <1>6. Rank(P, i) = IF i \in P THEN Rank(P, i - 1) + 1 ELSE Rank(P, i - 1)
    BY <1>4, RankStep
  <1> QED
    BY <1>0, <1>2, <1>4, <1>5, <1>6

Places(s, keep) == {i \in DOMAIN s : s[i] \in keep}

\* What Only returns, place by place.
LEMMA OnlyPlaces ==
    ASSUME NEW X, NEW s \in Seq(X), NEW keep
    PROVE  LET P == Places(s, keep)
               t == Only(s, keep)
           IN  /\ P \subseteq 1..Len(s) /\ t \in Seq(X) /\ Len(t) = Cardinality(P)
               /\ DOMAIN t = 1..Cardinality(P)
               /\ \A k \in DOMAIN t : \E i \in P : t[k] = s[i] /\ Rank(P, i) = k
               /\ \A i \in P : Rank(P, i) \in DOMAIN t /\ t[Rank(P, i)] = s[i]
  <1> DEFINE P == Places(s, keep)
             t == Only(s, keep)
             nth(k) == CHOOSE i \in P : Rank(P, i) = k
  <1>1. P \subseteq 1..Len(s) /\ Len(s) \in Nat
    BY DEF Places
  <1>2. t = [k \in 1..Cardinality(P) |-> s[nth(k)]]
    BY DEF Only, Places, Rank
  <1> HIDE DEF P, t
  <1>3. \A k \in 1..Cardinality(P) : nth(k) \in P /\ Rank(P, nth(k)) = k
    BY <1>1, RankTaken
  <1>4. \A i \in P : s[i] \in X
    BY <1>1
  <1>5. Cardinality(P) \in Nat
    BY <1>1, RankType
  <1>6. DOMAIN t = 1..Cardinality(P) /\ \A k \in 1..Cardinality(P) : t[k] = s[nth(k)]
    BY <1>2
  <1>7. t \in Seq(X) /\ Len(t) = Cardinality(P)
    <2>1. \A k \in 1..Cardinality(P) : s[nth(k)] \in X
      BY <1>3, <1>4
    <2> HIDE DEF nth
    <2> QED
      BY <1>2, <1>5, <2>1
  <1>8. \A k \in DOMAIN t : \E i \in P : t[k] = s[i] /\ Rank(P, i) = k
    BY <1>3, <1>6
  <1>9. ASSUME NEW i \in P
        PROVE  Rank(P, i) \in DOMAIN t /\ t[Rank(P, i)] = s[i]
    <2>1. Rank(P, i) \in 1..Cardinality(P)
      BY <1>1, RankOrder, Zenon
    <2>2. nth(Rank(P, i)) \in P /\ Rank(P, nth(Rank(P, i))) = Rank(P, i)
      BY <1>3, <2>1
    <2>3. nth(Rank(P, i)) = i
      BY <1>1, <2>2, RankOrder, Zenon
    <2> QED
      BY <1>6, <2>1, <2>3
  <1> QED
    BY <1>1, <1>6, <1>7, <1>8, <1>9 DEF P, t

\* Only keeps what it should, in its order, and nothing twice.
LEMMA OnlyFacts ==
    ASSUME NEW X, NEW s \in Seq(X), NEW keep
    PROVE  LET t == Only(s, keep) IN
           /\ t \in Seq(X) /\ Len(t) <= Len(s)
           /\ Range(t) = Range(s) \cap keep
           /\ \A x, y : Before(t, x, y) <=> Before(s, x, y) /\ x \in keep /\ y \in keep
           /\ IsInjective(s) => IsInjective(t)
  <1> DEFINE P == Places(s, keep)
             t == Only(s, keep)
  <1>1. /\ P \subseteq 1..Len(s) /\ t \in Seq(X) /\ Len(t) = Cardinality(P)
        /\ DOMAIN t = 1..Cardinality(P)
        /\ \A k \in DOMAIN t : \E i \in P : t[k] = s[i] /\ Rank(P, i) = k
        /\ \A i \in P : Rank(P, i) \in DOMAIN t /\ t[Rank(P, i)] = s[i]
    BY OnlyPlaces
  <1>2. /\ Len(s) \in Nat /\ DOMAIN s = 1..Len(s)
        /\ \A i \in P : i \in DOMAIN s /\ s[i] \in keep
        /\ \A i \in DOMAIN s : s[i] \in keep => i \in P
    BY DEF Places
  <1> HIDE DEF P, t
  <1>3. Len(t) <= Len(s)
    <2>1. IsFiniteSet(1..Len(s)) /\ Cardinality(1..Len(s)) = Len(s)
      BY <1>2, FS_Interval
    <2> QED
      BY <1>1, <2>1, FS_Subset, Zenon
  <1>4. Range(t) = Range(s) \cap keep
    <2>1. ASSUME NEW k \in DOMAIN t PROVE t[k] \in Range(s) \cap keep
      BY <1>1, <1>2 DEF Range
    <2>2. ASSUME NEW i \in DOMAIN s, s[i] \in keep PROVE s[i] \in Range(t)
      BY <1>1, <1>2, <2>2 DEF Range
    <2> QED
      BY <2>1, <2>2 DEF Range
  <1>5. ASSUME NEW x, NEW y, Before(t, x, y)
        PROVE  Before(s, x, y) /\ x \in keep /\ y \in keep
    <2>1. PICK k \in DOMAIN t, l \in DOMAIN t : k < l /\ t[k] = x /\ t[l] = y
      BY <1>5 DEF Before
    <2>2. PICK i \in P : t[k] = s[i] /\ Rank(P, i) = k
      BY <1>1
    <2>3. PICK j \in P : t[l] = s[j] /\ Rank(P, j) = l
      BY <1>1
    <2>4. j < i => l < k
      BY <1>1, <1>2, <2>2, <2>3, RankOrder, Zenon
    <2>5. i < j
      <3>1. k \in Nat /\ l \in Nat /\ i \in Nat /\ j \in Nat
        BY <1>1, <1>2
      <3> QED
        BY <2>1, <2>2, <2>3, <2>4, <3>1
    <2> QED
      BY <1>2, <2>1, <2>2, <2>3, <2>5 DEF Before
  <1>6. ASSUME NEW x, NEW y, Before(s, x, y), x \in keep, y \in keep
        PROVE  Before(t, x, y)
    <2>1. PICK i \in DOMAIN s, j \in DOMAIN s : i < j /\ s[i] = x /\ s[j] = y
      BY <1>6 DEF Before
    <2>2. i \in P /\ j \in P
      BY <1>2, <1>6, <2>1
    <2>3. Rank(P, i) < Rank(P, j)
      BY <1>1, <1>2, <2>1, <2>2, RankOrder
    <2> QED
      BY <1>1, <2>1, <2>2, <2>3 DEF Before
  <1>7. ASSUME IsInjective(s), NEW k \in DOMAIN t, NEW l \in DOMAIN t, t[k] = t[l]
        PROVE  k = l
    <2>1. PICK i \in P : t[k] = s[i] /\ Rank(P, i) = k
      BY <1>1
    <2>2. PICK j \in P : t[l] = s[j] /\ Rank(P, j) = l
      BY <1>1
    <2>3. i = j
      BY <1>2, <1>7, <2>1, <2>2 DEF IsInjective
    <2> QED
      BY <2>1, <2>2, <2>3
  <1>8. IsInjective(s) => IsInjective(t)
    BY <1>7 DEF IsInjective
  <1> QED
    BY <1>1, <1>3, <1>4, <1>5, <1>6, <1>8 DEF t

\* The length of a list without repetitions is the number of what is in it.
LEMMA LengthIsCardinality ==
    ASSUME NEW X, NEW s \in Seq(X), IsInjective(s)
    PROVE  IsFiniteSet(Range(s)) /\ Cardinality(Range(s)) = Len(s)
  <1>1. Len(s) \in Nat /\ DOMAIN s = 1..Len(s) /\ s \in [1..Len(s) -> Range(s)]
    BY DEF Range
  <1>2. s \in Bijection(1..Len(s), Range(s))
    BY <1>1, Zenon DEF IsInjective, Range, Bijection, Injection, Surjection
  <1>3. ExistsBijection(1..Len(s), Range(s))
    BY <1>2, Zenon DEF ExistsBijection
  <1> QED
    BY <1>1, <1>3, FS_CountingElements, FS_NatBijection, Zenon

\* S is a newest part of m: with an element it has all that stand before it.
Initial(m, S) ==
    S \subseteq Range(m) /\ \A x \in S : \A y \in Range(m) : Before(m, y, x) => y \in S

FirstOf(m, k) == {m[i] : i \in 1..k}

LEMMA FirstIsInitial ==
    ASSUME NEW X, NEW m \in Seq(X), IsInjective(m), NEW k \in 0..Len(m)
    PROVE  Initial(m, FirstOf(m, k))
  <1>1. Len(m) \in Nat /\ DOMAIN m = 1..Len(m)
    OBVIOUS
  <1>2. FirstOf(m, k) \subseteq Range(m)
    BY <1>1 DEF FirstOf, Range
  <1>3. ASSUME NEW x \in FirstOf(m, k), NEW y \in Range(m), Before(m, y, x)
        PROVE  y \in FirstOf(m, k)
    <2>1. PICK i \in 1..k : x = m[i]
      BY DEF FirstOf
    <2>2. PICK a \in DOMAIN m, b \in DOMAIN m : a < b /\ m[a] = y /\ m[b] = x
      BY <1>3 DEF Before
    <2>3. b = i
      BY <1>1, <2>1, <2>2 DEF IsInjective
    <2>4. a \in 1..k
      BY <1>1, <2>2, <2>3
    <2> QED
      BY <2>2, <2>4 DEF FirstOf
  <1> QED
    BY <1>2, <1>3 DEF Initial

LEMMA InitialIsFirst ==
    ASSUME NEW X, NEW m \in Seq(X), IsInjective(m), NEW S, Initial(m, S)
    PROVE  /\ IsFiniteSet(S) /\ Cardinality(S) \in 0..Len(m)
           /\ S = FirstOf(m, Cardinality(S))
  <1>1. Len(m) \in Nat /\ DOMAIN m = 1..Len(m)
    OBVIOUS
  <1> DEFINE D == {i \in Nat : i # 0 /\ (i <= Len(m) => m[i] \notin S)}
  <1>2. Len(m) + 1 \in D
    BY <1>1
  <1>3. PICK e \in D : \A i \in D : e <= i
    BY <1>2, LeastOf
  <1> DEFINE k == e - 1
  <1>4. k \in 0..Len(m) /\ e = k + 1
    BY <1>1, <1>2, <1>3
  <1>5. \A i \in 1..k : m[i] \in S
    BY <1>1, <1>3, <1>4
  <1>6. ASSUME NEW x \in S
        PROVE  x \in FirstOf(m, k)
    <2>1. PICK i \in 1..Len(m) : x = m[i]
      BY <1>1 DEF Initial, Range
    <2>2. CASE i <= k
      <3>1. i \in 1..k
        BY <1>1, <1>4, <2>2
      <3> QED
        BY <2>1, <3>1 DEF FirstOf
    <2>3. CASE e < i
      <3>1. e \in 1..Len(m)
        BY <1>1, <1>4, <2>3
      <3>2. Before(m, m[e], x) /\ m[e] \in Range(m)
        BY <1>1, <2>1, <2>3, <3>1 DEF Before, Range
      <3>3. m[e] \in S
        BY <3>2 DEF Initial
      <3> QED
        BY <1>3, <3>1, <3>3
    <2>4. CASE i = e
      BY <1>3, <2>1, <2>4
    <2> QED
      BY <1>1, <1>4, <2>2, <2>3, <2>4
  <1>7. S = FirstOf(m, k)
    BY <1>5, <1>6 DEF FirstOf
  <1> HIDE DEF k
  <1> DEFINE first == [i \in 1..k |-> m[i]]
  <1>8. first \in Seq(X) /\ Len(first) = k
    BY <1>1, <1>4
  <1>9. IsInjective(first)
    BY <1>1, <1>4 DEF IsInjective
  <1>10. Range(first) = FirstOf(m, k)
    BY DEF Range, FirstOf
  <1> HIDE DEF first
  <1>11. IsFiniteSet(S) /\ Cardinality(S) = k
    BY <1>7, <1>8, <1>9, <1>10, LengthIsCardinality, Zenon
  <1> QED
    BY <1>4, <1>7, <1>11

LEMMA Slice ==
    ASSUME NEW X, NEW m \in Seq(X), NEW o \in Nat, NEW top \in Nat, top > o, top <= Len(m)
    PROVE  /\ SubSeq(m, o + 1, top) \in Seq(X) /\ Len(SubSeq(m, o + 1, top)) = top - o
           /\ \A i \in 1..(top - o) : SubSeq(m, o + 1, top)[i] = m[o + i]
  <1>1. PICK p : p = SubSeq(m, o + 1, top)
    OBVIOUS
  <1>2. top - o \in Nat
    OBVIOUS
  <1>3. p \in Seq(X) /\ Len(p) = top - o
    BY <1>1, <1>2
  <1>4. \A i \in 1..(top - o) : p[i] = m[o + i]
    BY <1>1, <1>2
  <1> QED
    BY <1>1, <1>3, <1>4, Zenon

\* A page of a list.
LEMMA PageOf ==
    ASSUME NEW X, NEW m \in Seq(X), NEW o \in Nat, NEW size \in Nat \ {0}
    PROVE  LET p == SubSeq(m, o + 1, IF Len(m) < o + size THEN Len(m) ELSE o + size)
           IN  /\ p \in Seq(X) /\ Len(p) <= size
               /\ p # <<>> => o < Len(m) /\ o + Len(p) <= Len(m)
               /\ \A i \in 1..Len(p) : p[i] = m[o + i]
               /\ Len(p) < size /\ o <= Len(m) => o + Len(p) = Len(m)
  <1>0. PICK top \in Nat : top = IF Len(m) < o + size THEN Len(m) ELSE o + size
    OBVIOUS
  <1> DEFINE p == SubSeq(m, o + 1, top)
  <1> SUFFICES /\ p \in Seq(X) /\ Len(p) <= size
               /\ p # <<>> => o < Len(m) /\ o + Len(p) <= Len(m)
               /\ \A i \in 1..Len(p) : p[i] = m[o + i]
               /\ Len(p) < size /\ o <= Len(m) => o + Len(p) = Len(m)
    BY <1>0, Zenon
  <1>1. /\ Len(m) \in Nat /\ top <= Len(m) /\ top <= o + size
        /\ top < o + size => top = Len(m)
    BY <1>0
  <1>2. CASE top < o + 1
    <2>1. p = <<>> /\ Len(p) = 0
      BY <1>1, <1>2
    <2>2. p \in Seq(X)
      BY <2>1
    <2>3. o <= Len(m) => o = Len(m)
      BY <1>1, <1>2
    <2> QED
      BY <1>1, <2>1, <2>2, <2>3
  <1>3. CASE top > o
    <2>0. top > o /\ top <= Len(m)
      BY <1>1, <1>3
    <2>1. top - o \in Nat /\ top - o <= size /\ o < Len(m) /\ (top - o < size => top = Len(m))
      BY <1>1, <1>3
    <2>2. p \in Seq(X) /\ Len(p) = top - o /\ \A i \in 1..(top - o) : p[i] = m[o + i]
      BY <2>0, Slice, Zenon
    <2>4. o + Len(p) <= Len(m) /\ (Len(p) < size => o + Len(p) = Len(m))
      BY <1>1, <2>1, <2>2
    <2> QED
      BY <1>1, <2>1, <2>2, <2>4
  <1> QED
    BY <1>1, <1>2, <1>3

\* What the backend answers a query with.
LEMMA PageFacts ==
    ASSUME db \in Seq(Content), IsInjective(db), NEW q \in Query, NEW o \in Nat
    PROVE  LET m == Matching(q)
               p == Page(q, o)
           IN  /\ m \in Seq(Content) /\ IsInjective(m) /\ Len(m) <= Cardinality(Content)
               /\ p \in Seq(Content) /\ Len(p) <= PageSize
               /\ p # <<>> => o < Len(m) /\ o + Len(p) <= Len(m)
               /\ \A i \in 1..Len(p) : p[i] = m[o + i]
               /\ Len(p) < PageSize /\ o <= Len(m) => o + Len(p) = Len(m)
  <1> DEFINE m == Matching(q)
             p == SubSeq(m, o + 1, IF Len(m) < o + PageSize THEN Len(m) ELSE o + PageSize)
  <1>1. m \in Seq(Content) /\ IsInjective(m)
    BY OnlyFacts, Zenon DEF Matching
  <1>2. p = Page(q, o)
    BY DEF Page
  <1>3. PageSize \in Nat \ {0} /\ IsFiniteSet(Content)
    BY MobileAppAssumption DEF ClipboardListAssumption
  <1> HIDE DEF m
  <1>4. Len(m) \in Nat /\ DOMAIN m = 1..Len(m)
    BY <1>1, <1>3
  <1>5. Len(m) <= Cardinality(Content)
    <2>1. Range(m) \in SUBSET Content
      BY <1>1, <1>4 DEF Range
    <2>2. Cardinality(Range(m)) = Len(m)
      BY <1>1, LengthIsCardinality, Zenon
    <2> QED
      BY <1>3, <2>1, <2>2, FS_Subset, Zenon
  <1>6. /\ p \in Seq(Content) /\ Len(p) <= PageSize
        /\ p # <<>> => o < Len(m) /\ o + Len(p) <= Len(m)
        /\ \A i \in 1..Len(p) : p[i] = m[o + i]
        /\ Len(p) < PageSize /\ o <= Len(m) => o + Len(p) = Len(m)
    BY <1>1, <1>3, PageOf, Zenon
  <1> HIDE DEF p
  <1> QED
    BY <1>1, <1>2, <1>5, <1>6, Zenon DEF m

-----------------------------------------------------------------------------
(* The list and the calls it is filled by                                  *)

CallState ==
    [kind : {"none", "load", "more", "star", "delete"}, fresh : BOOLEAN, q : Query,
     offset : Nat, row : Content \cup {NoRow}, by : {"other", "refresh"}, done : BOOLEAN,
     answer : Seq(Content), raced : BOOLEAN]

ListTypes ==
    /\ db \in Seq(Content) /\ IsInjective(db) /\ star \subseteq Range(db)
    /\ listening \in BOOLEAN /\ notices \in BOOLEAN /\ query \in Query /\ shownFor \in Query
    /\ shown \in Seq(Content) /\ selected \in Content \cup {NoRow}
    /\ loading \in BOOLEAN /\ loadingMore \in BOOLEAN /\ hasMore \in BOOLEAN
    /\ nextOffset \in 0..Cardinality(Content) /\ timer \in BOOLEAN
    /\ calls \in [Call -> CallState]
    /\ failed \in BOOLEAN /\ raced \in BOOLEAN

\* A page ends before the last of the rows, if there is anything in it.
PageEnds(s) == s.answer # <<>> => s.offset + Len(s.answer) <= Cardinality(Content)

\* Only the call that was made last, if no query came after it, may change
\* the list: it asks for what the filter bar says and continues the list.
CurrentCall(s) ==
    /\ s.q = query
    /\ \/ s.kind = "load" /\ s.offset = 0 /\ loading
       \/ s.kind = "more" /\ nextOffset <= s.offset /\ ~loading /\ loadingMore

CallsInv ==
    /\ \A c \in Call : calls[c].fresh => CurrentCall(calls[c]) /\ PageEnds(calls[c])
    /\ \A c, d \in Call : calls[c].fresh /\ calls[d].fresh => c = d

SelectionInv ==
    /\ selected = NoRow \/ selected \in Range(shown)
    /\ ~loading => shownFor = query \/ failed

(***************************************************************************)
(* EnterMatchesQuery is not inductive: an answer only keeps it if the call *)
(* that is current asks for the query of the filter bar.                   *)
(***************************************************************************)
ListInv == ListTypes /\ CallsInv /\ SelectionInv

LEMMA ContentFinite ==
    IsFiniteSet(Content) /\ Cardinality(Content) \in Nat /\ PageSize \in Nat \ {0}
  BY MobileAppAssumption, FS_CardinalityType DEF ClipboardListAssumption

LEMMA CallStateFields ==
    ASSUME NEW s \in CallState
    PROVE  /\ s.kind \in {"none", "load", "more", "star", "delete"} /\ s.fresh \in BOOLEAN
           /\ s.q \in Query /\ s.offset \in Nat /\ s.row \in Content \cup {NoRow}
           /\ s.by \in {"other", "refresh"} /\ s.done \in BOOLEAN /\ s.answer \in Seq(Content)
           /\ s.raced \in BOOLEAN
  BY DEF CallState

LEMMA CallStateUpdates ==
    ASSUME NEW s \in CallState, NEW b \in BOOLEAN, NEW a \in Seq(Content)
    PROVE  /\ [s EXCEPT !.fresh = b] \in CallState
           /\ [s EXCEPT !.done = b] \in CallState
           /\ [s EXCEPT !.raced = b] \in CallState
           /\ [s EXCEPT !.done = TRUE, !.answer = a] \in CallState
  BY DEF CallState

LEMMA NoCallFacts ==
    NoCall \in CallState /\ ~NoCall.fresh /\ NoCall.kind = "none" /\ ~NoCall.done /\ NoCall.by = "other"
  <1>1. <<>> \in Seq(Content)
    OBVIOUS
  <1> QED
    BY <1>1 DEF NoCall, CallState, Query

\* What no step of the list but the loading of it changes.
LEMMA CallsKept ==
    ASSUME ListInv, UNCHANGED <<query, loading, loadingMore>>, nextOffset' \in Nat,
           nextOffset' <= nextOffset,
           calls' \in [Call -> CallState],
           \A c \in Call : /\ calls'[c].fresh => calls[c].fresh
                           /\ calls'[c].fresh => /\ calls'[c].q = calls[c].q
                                                 /\ calls'[c].kind = calls[c].kind
                                                 /\ calls'[c].offset = calls[c].offset
                                                 /\ PageEnds(calls'[c])
    PROVE  CallsInv'
  <1>1. ASSUME NEW c \in Call, calls'[c].fresh PROVE CurrentCall(calls[c])'
    <2>1. CurrentCall(calls[c])
      BY <1>1 DEF ListInv, CallsInv
    <2>2. calls[c].offset \in Nat /\ nextOffset \in Nat
      BY CallStateFields DEF ListInv, ListTypes
    <2> QED
      BY <1>1, <2>1, <2>2 DEF CurrentCall
  <1>2. \A c \in Call : calls'[c].fresh => PageEnds(calls'[c])
    OBVIOUS
  <1>3. \A c, d \in Call : calls'[c].fresh /\ calls'[d].fresh => c = d
    BY DEF ListInv, CallsInv
  <1> QED
    BY <1>1, <1>2, <1>3 DEF CallsInv, PageEnds

\* A call that is over.
LEMMA CallOver ==
    ASSUME ListInv, NEW c \in Call, calls' = [calls EXCEPT ![c] = NoCall]
    PROVE  /\ calls' \in [Call -> CallState] /\ calls'[c] = NoCall
           /\ \A d \in Call : d # c => calls'[d] = calls[d]
           /\ \A d \in Call : calls'[d].fresh =>
                /\ d # c /\ calls[d].fresh /\ PageEnds(calls'[d]) /\ calls'[d] = calls[d]
  <1>1. /\ calls' \in [Call -> CallState] /\ calls'[c] = NoCall
        /\ \A d \in Call : d # c => calls'[d] = calls[d]
    BY NoCallFacts DEF ListInv, ListTypes
  <1>2. ASSUME NEW d \in Call, calls'[d].fresh
        PROVE  d # c /\ calls[d].fresh /\ PageEnds(calls'[d]) /\ calls'[d] = calls[d]
    BY <1>1, <1>2, NoCallFacts DEF ListInv, CallsInv
  <1> QED
    BY <1>1, <1>2

LEMMA ListUntouched ==
    ASSUME ListInv, UNCHANGED listVars
    PROVE  ListInv'
  BY DEF ListInv, listVars, ListTypes, CallsInv, PageEnds, CurrentCall, SelectionInv

LEMMA Prepended ==
    ASSUME NEW s \in Seq(Content), IsInjective(s), NEW x \in Content, x \notin Range(s)
    PROVE  /\ <<x>> \o s \in Seq(Content) /\ IsInjective(<<x>> \o s)
           /\ Range(<<x>> \o s) = {x} \cup Range(s)
           /\ \A y, z : Before(<<x>> \o s, y, z) <=> (y = x /\ z \in Range(s)) \/ Before(s, y, z)
  <1> DEFINE t == <<x>> \o s
  <1>1. /\ Len(s) \in Nat /\ DOMAIN s = 1..Len(s) /\ t \in Seq(Content)
        /\ Len(t) = Len(s) + 1 /\ DOMAIN t = 1..(Len(s) + 1) /\ t[1] = x
    OBVIOUS
  <1>2. \A i \in DOMAIN s : t[i + 1] = s[i] /\ i + 1 \in DOMAIN t
    BY <1>1
  <1>3. \A k \in DOMAIN t : k = 1 \/ (k - 1 \in DOMAIN s /\ t[k] = s[k - 1])
    BY <1>1
  <1> HIDE DEF t
  <1>4. IsInjective(t)
    <2>1. ASSUME NEW k \in DOMAIN t, NEW l \in DOMAIN t, t[k] = t[l] PROVE k = l
      <3>1. CASE k = 1 /\ l # 1
        BY <1>1, <1>3, <2>1, <3>1 DEF Range
      <3>2. CASE k # 1 /\ l = 1
        BY <1>1, <1>3, <2>1, <3>2 DEF Range
      <3>3. CASE k # 1 /\ l # 1
        BY <1>1, <1>3, <2>1, <3>3 DEF IsInjective
      <3> QED
        BY <3>1, <3>2, <3>3
    <2> QED
      BY <2>1 DEF IsInjective
  <1>5. Range(t) = {x} \cup Range(s)
    <2>1. \A k \in DOMAIN t : t[k] \in {x} \cup Range(s)
      BY <1>1, <1>3 DEF Range
    <2>2. x \in Range(t) /\ \A i \in DOMAIN s : s[i] \in Range(t)
      BY <1>1, <1>2 DEF Range
    <2> QED
      BY <2>1, <2>2 DEF Range
  <1>6. ASSUME NEW y, NEW z, Before(t, y, z)
        PROVE  (y = x /\ z \in Range(s)) \/ Before(s, y, z)
    <2>1. PICK k \in DOMAIN t, l \in DOMAIN t : k < l /\ t[k] = y /\ t[l] = z
      BY <1>6 DEF Before
    <2>2. l - 1 \in DOMAIN s /\ z = s[l - 1]
      BY <1>1, <1>3, <2>1
    <2>3. CASE k = 1
      BY <1>1, <2>1, <2>2, <2>3 DEF Range
    <2>4. CASE k # 1
      <3>1. k - 1 \in DOMAIN s /\ y = s[k - 1] /\ k - 1 < l - 1
        BY <1>1, <1>3, <2>1, <2>4
      <3> QED
        BY <2>2, <3>1 DEF Before
    <2> QED
      BY <2>3, <2>4
  <1>7. ASSUME NEW y, NEW z, (y = x /\ z \in Range(s)) \/ Before(s, y, z)
        PROVE  Before(t, y, z)
    <2>1. CASE y = x /\ z \in Range(s)
      <3>1. PICK i \in DOMAIN s : z = s[i]
        BY <2>1 DEF Range
      <3>2. 1 \in DOMAIN t /\ i + 1 \in DOMAIN t /\ 1 < i + 1 /\ t[1] = y /\ t[i + 1] = z
        BY <1>1, <1>2, <2>1, <3>1
      <3> QED
        BY <3>2 DEF Before
    <2>2. CASE Before(s, y, z)
      <3>1. PICK i \in DOMAIN s, j \in DOMAIN s : i < j /\ s[i] = y /\ s[j] = z
        BY <2>2 DEF Before
      <3>2. i + 1 \in DOMAIN t /\ j + 1 \in DOMAIN t /\ i + 1 < j + 1 /\ t[i + 1] = y /\ t[j + 1] = z
        BY <1>1, <1>2, <3>1
      <3> QED
        BY <3>2 DEF Before
    <2> QED
      BY <1>7, <2>1, <2>2
  <1> QED
    BY <1>1, <1>4, <1>5, <1>6, <1>7, Zenon DEF t

\* Rows are marked as behind; nothing else of the calls changes.
LEMMA UnheardFacts ==
    ASSUME ListTypes, Unheard
    PROVE  /\ raced' = TRUE /\ calls' \in [Call -> CallState]
           /\ \A d \in Call :
                /\ calls'[d].kind = calls[d].kind /\ calls'[d].fresh = calls[d].fresh
                /\ calls'[d].q = calls[d].q /\ calls'[d].offset = calls[d].offset
                /\ calls'[d].row = calls[d].row /\ calls'[d].by = calls[d].by
                /\ calls'[d].done = calls[d].done /\ calls'[d].answer = calls[d].answer
                /\ ~calls'[d].raced => ~calls[d].raced /\ ~(d \in Loads /\ calls[d].done)
  <1>1. ASSUME NEW d \in Call
        PROVE  LET b == calls[d].raced \/ (d \in Loads /\ calls[d].done) IN
               b \in BOOLEAN /\ calls'[d] = [calls[d] EXCEPT !.raced = b]
    <2>1. calls[d].raced \in BOOLEAN
      BY CallStateFields DEF ListTypes
    <2> QED
      BY <2>1 DEF Unheard
  <1>2. ASSUME NEW d \in Call
        PROVE  /\ calls'[d] \in CallState
               /\ calls'[d].kind = calls[d].kind /\ calls'[d].fresh = calls[d].fresh
               /\ calls'[d].q = calls[d].q /\ calls'[d].offset = calls[d].offset
               /\ calls'[d].row = calls[d].row /\ calls'[d].by = calls[d].by
               /\ calls'[d].done = calls[d].done /\ calls'[d].answer = calls[d].answer
               /\ ~calls'[d].raced => ~calls[d].raced /\ ~(d \in Loads /\ calls[d].done)
    <2> DEFINE b == calls[d].raced \/ (d \in Loads /\ calls[d].done)
    <2>1. b \in BOOLEAN /\ calls'[d] = [calls[d] EXCEPT !.raced = b]
      BY <1>1
    <2>2. ~b => (~calls[d].raced /\ ~(d \in Loads /\ calls[d].done))
      OBVIOUS
    <2> HIDE DEF b
    <2>3. calls[d] \in CallState
      BY DEF ListTypes
    <2>4. /\ calls'[d] \in CallState /\ calls'[d].raced = b
          /\ calls'[d].kind = calls[d].kind /\ calls'[d].fresh = calls[d].fresh
          /\ calls'[d].q = calls[d].q /\ calls'[d].offset = calls[d].offset
          /\ calls'[d].row = calls[d].row /\ calls'[d].by = calls[d].by
          /\ calls'[d].done = calls[d].done /\ calls'[d].answer = calls[d].answer
      BY <2>1, <2>3 DEF CallState
    <2> QED
      BY <2>2, <2>4
  <1>3. raced' = TRUE /\ calls' = [d \in Call |-> calls'[d]]
    BY DEF Unheard
  <1> QED
    BY <1>2, <1>3

\* A row that comes in somewhere among the others.
LEMMA InsertAtFacts ==
    ASSUME NEW s \in Seq(Content), IsInjective(s), NEW x \in Content, x \notin Range(s),
           NEW p \in 1..(Len(s) + 1)
    PROVE  /\ InsertAt(s, p, x) \in Seq(Content) /\ IsInjective(InsertAt(s, p, x))
           /\ Range(s) \subseteq Range(InsertAt(s, p, x)) /\ x \in Range(InsertAt(s, p, x))
  <1> DEFINE t == InsertAt(s, p, x)
             u == SubSeq(s, 1, p - 1)
             v == SubSeq(s, p, Len(s))
  <1>1. /\ Len(s) \in Nat /\ DOMAIN s = 1..Len(s) /\ p \in Nat /\ 1 <= p /\ p <= Len(s) + 1
        /\ \A k \in DOMAIN s : s[k] \in Content
    OBVIOUS
  <1>2. /\ u \in Seq(Content) /\ Len(u) = p - 1 /\ \A k \in 1..(p - 1) : u[k] = s[k]
    BY <1>1
  <1>3. /\ v \in Seq(Content) /\ Len(v) = Len(s) + 1 - p
        /\ \A k \in 1..(Len(s) + 1 - p) : v[k] = s[p + k - 1]
    BY <1>1
  <1>4. t = (u \o <<x>>) \o v
    BY DEF InsertAt
  <1> HIDE DEF t, u, v
  <1>5. /\ t \in Seq(Content) /\ Len(t) = Len(s) + 1 /\ DOMAIN t = 1..(Len(s) + 1)
        /\ \A k \in 1..(p - 1) : t[k] = u[k]
        /\ t[p] = x
        /\ \A k \in 1..(Len(s) + 1 - p) : t[p + k] = v[k]
    <2> DEFINE w == u \o <<x>>
    <2>1. /\ w \in Seq(Content) /\ Len(w) = p /\ w[p] = x
          /\ \A k \in 1..(p - 1) : w[k] = u[k]
      BY <1>1, <1>2
    <2>2. t = w \o v
      BY <1>4
    <2> HIDE DEF w
    <2>3. w \in Seq(Content) /\ v \in Seq(Content)
      BY <1>3, <2>1
    <2>4. t \in Seq(Content)
      BY <2>2, <2>3
    <2>5. t \in Seq(Content) /\ Len(t) = Len(w) + Len(v)
      BY <2>2, <2>3, <2>4
    <2>6. Len(t) = Len(s) + 1 /\ DOMAIN t = 1..(Len(s) + 1)
      BY <1>1, <1>3, <2>1, <2>5
    <2>7. /\ \A k \in 1..Len(w) : t[k] = w[k]
          /\ \A k \in 1..Len(v) : t[Len(w) + k] = v[k]
      BY <1>3, <2>1, <2>2
    <2>8. p \in 1..Len(w) /\ \A k \in 1..(p - 1) : k \in 1..Len(w)
      BY <1>1, <2>1
    <2> QED
      BY <1>3, <2>1, <2>5, <2>6, <2>7, <2>8
  <1>6. \A k \in DOMAIN t : \/ k < p /\ k \in DOMAIN s /\ t[k] = s[k]
                            \/ k = p /\ t[k] = x
                            \/ k > p /\ k - 1 \in DOMAIN s /\ t[k] = s[k - 1]
    <2> SUFFICES ASSUME NEW k \in DOMAIN t
                 PROVE  \/ k < p /\ k \in DOMAIN s /\ t[k] = s[k]
                        \/ k = p /\ t[k] = x
                        \/ k > p /\ k - 1 \in DOMAIN s /\ t[k] = s[k - 1]
      OBVIOUS
    <2>0. k \in Nat /\ 1 <= k /\ k <= Len(s) + 1
      BY <1>1, <1>5
    <2>1. CASE k < p
      <3>1. k \in 1..(p - 1) /\ k \in DOMAIN s
        BY <1>1, <2>0, <2>1
      <3> QED
        BY <1>2, <1>5, <2>1, <3>1
    <2>2. CASE k > p
      <3>1. k - p \in 1..(Len(s) + 1 - p) /\ p + (k - p) = k /\ p + (k - p) - 1 = k - 1
            /\ k - 1 \in DOMAIN s
        BY <1>1, <2>0, <2>2
      <3>2. t[p + (k - p)] = v[k - p] /\ v[k - p] = s[p + (k - p) - 1]
        BY <1>3, <1>5, <3>1
      <3> QED
        BY <2>2, <3>1, <3>2
    <2>3. k < p \/ k = p \/ k > p
      BY <1>1, <2>0
    <2> QED
      BY <1>5, <2>1, <2>2, <2>3
  <1>7. \A k \in DOMAIN s : s[k] \in Range(t)
    <2> SUFFICES ASSUME NEW k \in DOMAIN s PROVE s[k] \in Range(t)
      OBVIOUS
    <2>1. CASE k < p
      <3>1. k \in 1..(p - 1) /\ k \in DOMAIN t
        BY <1>1, <1>5, <2>1
      <3> QED
        BY <1>2, <1>5, <3>1 DEF Range
    <2>2. CASE k >= p
      <3>1. k + 1 - p \in 1..(Len(s) + 1 - p) /\ p + (k + 1 - p) = k + 1
            /\ p + (k + 1 - p) - 1 = k /\ k + 1 \in DOMAIN t
        BY <1>1, <1>5, <2>2
      <3>2. t[p + (k + 1 - p)] = v[k + 1 - p] /\ v[k + 1 - p] = s[p + (k + 1 - p) - 1]
        BY <1>3, <1>5, <3>1
      <3> QED
        BY <3>1, <3>2 DEF Range
    <2> QED
      BY <1>1, <2>1, <2>2
  <1>8. IsInjective(t)
    <2>0. \A k \in DOMAIN s : s[k] # x
      BY DEF Range
    <2>1. ASSUME NEW k \in DOMAIN t, NEW l \in DOMAIN t, t[k] = t[l], k < l PROVE FALSE
      <3>1. /\ \/ k < p /\ k \in DOMAIN s /\ t[k] = s[k]
               \/ k = p /\ t[k] = x
               \/ k > p /\ k - 1 \in DOMAIN s /\ t[k] = s[k - 1]
            /\ \/ l < p /\ l \in DOMAIN s /\ t[l] = s[l]
               \/ l = p /\ t[l] = x
               \/ l > p /\ l - 1 \in DOMAIN s /\ t[l] = s[l - 1]
        BY <1>6
      <3>2. k \in Nat /\ l \in Nat /\ \A i, j \in DOMAIN s : s[i] = s[j] => i = j
        BY <1>5 DEF IsInjective
      <3> QED
        BY <1>1, <2>0, <2>1, <3>1, <3>2
    <2>2. DOMAIN t \subseteq Nat
      BY <1>5
    <2>3. \A k, l \in DOMAIN t : t[k] = t[l] => ~(k < l) /\ ~(l < k)
      BY <2>1
    <2> QED
      BY <2>2, <2>3 DEF IsInjective
  <1>9. Range(s) \subseteq Range(t)
    BY <1>7 DEF Range
  <1>10. x \in Range(t)
    <2>1. p \in DOMAIN t
      BY <1>1, <1>5
    <2> QED
      BY <1>5, <2>1 DEF Range
  <1> QED
    BY <1>5, <1>8, <1>9, <1>10 DEF t

LEMMA ServeQuerySafe ==
    ASSUME ListInv, NEW c \in Call, ServeQuery(c)
    PROVE  ListInv'
  <1> DEFINE p == Page(calls[c].q, calls[c].offset)
  <1>0. calls \in [Call -> CallState] /\ calls[c].q \in Query /\ calls[c].offset \in Nat
    BY CallStateFields DEF ListInv, ListTypes
  <1>1. /\ p \in Seq(Content) /\ Len(p) <= PageSize
        /\ p # <<>> => calls[c].offset + Len(p) <= Cardinality(Content)
    <2>1. LET m == Matching(calls[c].q) IN
          /\ Len(m) <= Cardinality(Content) /\ m \in Seq(Content)
          /\ p \in Seq(Content) /\ Len(p) <= PageSize
          /\ p # <<>> => calls[c].offset + Len(p) <= Len(m)
      BY <1>0, PageFacts, Zenon DEF ListInv, ListTypes
    <2> HIDE DEF p
    <2> QED
      BY <1>0, <2>1, ContentFinite
  <1> HIDE DEF p
  <1>2. calls' = [calls EXCEPT ![c] = [calls[c] EXCEPT !.done = TRUE, !.answer = p]]
    BY <1>0 DEF ServeQuery, p
  <1>3. [calls[c] EXCEPT !.done = TRUE, !.answer = p] \in CallState
    BY <1>0, <1>1, CallStateUpdates
  <1>4. calls' \in [Call -> CallState]
    BY <1>0, <1>2, <1>3
  <1>5. ListTypes'
    BY <1>4 DEF ListInv, ListTypes, ServeQuery
  <1>6. \A d \in Call : /\ calls'[d].fresh = calls[d].fresh /\ calls'[d].q = calls[d].q
                        /\ calls'[d].kind = calls[d].kind /\ calls'[d].offset = calls[d].offset
                        /\ d # c => calls'[d] = calls[d]
    BY <1>0, <1>2 DEF CallState
  <1>7. calls'[c].answer = p
    BY <1>0, <1>2 DEF CallState
  <1>8. \A d \in Call : calls'[d].fresh => PageEnds(calls'[d])
    BY <1>1, <1>6, <1>7 DEF PageEnds, ListInv, CallsInv
  <1>9. nextOffset' = nextOffset /\ nextOffset \in Nat /\ UNCHANGED <<query, loading, loadingMore>>
    BY ContentFinite DEF ServeQuery, ListInv, ListTypes
  <1>10. CallsInv'
    BY <1>4, <1>6, <1>8, <1>9, CallsKept
  <1>11. SelectionInv'
    BY DEF ListInv, ServeQuery, SelectionInv
  <1> QED
    BY <1>5, <1>10, <1>11 DEF ListInv

LEMMA WithoutFacts ==
    ASSUME NEW s \in Seq(Content), NEW r
    PROVE  /\ Without(s, r) \in Seq(Content) /\ Len(Without(s, r)) <= Len(s)
           /\ Range(Without(s, r)) = Range(s) \ {r}
           /\ IsInjective(s) => IsInjective(Without(s, r))
           /\ \A x, y : Before(Without(s, r), x, y) <=> Before(s, x, y) /\ x # r /\ y # r
  <1> DEFINE t == Without(s, r)
             keep == Range(s) \ {r}
  <1>1. /\ t \in Seq(Content) /\ Len(t) <= Len(s) /\ Range(t) = Range(s) \cap keep
        /\ \A x, y : Before(t, x, y) <=> Before(s, x, y) /\ x \in keep /\ y \in keep
        /\ IsInjective(s) => IsInjective(t)
    BY OnlyFacts, Zenon DEF Without
  <1>2. Range(s) \cap keep = Range(s) \ {r}
    OBVIOUS
  <1>3. \A x, y : Before(s, x, y) => x \in Range(s) /\ y \in Range(s)
    BY DEF Before, Range
  <1>4. \A x, y : Before(t, x, y) <=> Before(s, x, y) /\ x # r /\ y # r
    <2> HIDE DEF t
    <2> QED
      BY <1>1, <1>3
  <1> HIDE DEF t, keep
  <1> QED
    BY <1>1, <1>2, <1>4, Zenon DEF t, keep

LEMMA ToTopFacts ==
    ASSUME db \in Seq(Content), IsInjective(db), NEW r \in Range(db)
    PROVE  /\ ToTop(r) \in Seq(Content) /\ IsInjective(ToTop(r)) /\ Range(ToTop(r)) = Range(db)
           /\ \A x, y : Before(ToTop(r), x, y) <=>
                          \/ x = r /\ y \in Range(db) /\ y # r
                          \/ Before(db, x, y) /\ x # r /\ y # r
  <1> DEFINE s == Without(db, r)
  <1>1. /\ s \in Seq(Content) /\ Range(s) = Range(db) \ {r} /\ IsInjective(s)
        /\ \A x, y : Before(s, x, y) <=> Before(db, x, y) /\ x # r /\ y # r
    BY WithoutFacts, Zenon
  <1>2. r \in Content /\ Range(db) \subseteq Content
    BY DEF Range
  <1> HIDE DEF s
  <1>3. r \notin Range(s) /\ {r} \cup Range(s) = Range(db)
    BY <1>1
  <1>4. /\ <<r>> \o s \in Seq(Content) /\ IsInjective(<<r>> \o s)
        /\ Range(<<r>> \o s) = {r} \cup Range(s)
        /\ \A y, z : Before(<<r>> \o s, y, z) <=> (y = r /\ z \in Range(s)) \/ Before(s, y, z)
    BY <1>1, <1>2, <1>3, Prepended, Zenon
  <1>5. \A x, y : Before(<<r>> \o s, x, y) <=>
                    \/ x = r /\ y \in Range(db) /\ y # r
                    \/ Before(db, x, y) /\ x # r /\ y # r
    <2> DEFINE u == <<r>> \o s
    <2>1. \A y, z : Before(u, y, z) <=> (y = r /\ z \in Range(s)) \/ Before(s, y, z)
      BY <1>4, Zenon
    <2> HIDE DEF u
    <2>2. \A x, y : Before(u, x, y) <=>
                      \/ x = r /\ y \in Range(db) /\ y # r
                      \/ Before(db, x, y) /\ x # r /\ y # r
      BY <1>1, <2>1
    <2> QED
      BY <2>2, Zenon DEF u
  <1> QED
    BY <1>3, <1>4, <1>5, Zenon DEF ToTop, s

\* insert_entry: the row is the newest, whether it was there or not.
LEMMA InsertedFacts ==
    ASSUME ListTypes, NEW x \in Content
    PROVE  /\ Inserted(x) \in Seq(Content) /\ IsInjective(Inserted(x))
           /\ Range(db) \subseteq Range(Inserted(x)) /\ x \in Range(Inserted(x))
  <1> DEFINE s == Without(db, x)
  <1>1. s \in Seq(Content) /\ Range(s) = Range(db) \ {x} /\ IsInjective(s)
    BY WithoutFacts, Zenon DEF ListTypes
  <1>2. Inserted(x) = <<x>> \o s
    BY DEF Inserted, ToTop
  <1> HIDE DEF s
  <1>3. x \notin Range(s)
    BY <1>1
  <1>4. /\ <<x>> \o s \in Seq(Content) /\ IsInjective(<<x>> \o s)
        /\ Range(<<x>> \o s) = {x} \cup Range(s)
    BY <1>1, <1>3, Prepended, Zenon
  <1> DEFINE t == <<x>> \o s
  <1>5. t \in Seq(Content) /\ IsInjective(t) /\ Range(t) = {x} \cup Range(s) /\ Inserted(x) = t
    BY <1>2, <1>4, Zenon
  <1> HIDE DEF t
  <1> QED
    BY <1>1, <1>5

LEMMA SelectionFacts ==
    ASSUME NEW list \in Seq(Content), selected \in Content \cup {NoRow}
    PROVE  LET r == SyncSelection(list) IN
           r \in Content \cup {NoRow} /\ (r = NoRow \/ r \in Range(list))
  <1>1. CASE list = <<>>
    BY <1>1 DEF SyncSelection
  <1>2. CASE list # <<>>
    <2>1. 1 \in DOMAIN list /\ Head(list) = list[1] /\ list[1] \in Content
      BY <1>2
    <2> QED
      BY <1>2, <2>1 DEF SyncSelection, Range
  <1> QED
    BY <1>1, <1>2

LEMMA ServeStarSafe ==
    ASSUME ListInv, NEW c \in Call, ServeStar(c)
    PROVE  ListInv'
  <1>0. calls \in [Call -> CallState] /\ calls[c] \in CallState /\ nextOffset \in Nat
    BY ContentFinite DEF ListInv, ListTypes
  <1>1. nextOffset' = nextOffset /\ UNCHANGED <<query, loading, loadingMore>>
    BY DEF ServeStar
  <1>2. SelectionInv'
    BY DEF ListInv, ServeStar, SelectionInv
  <1>3. CASE calls[c].row \notin Range(db)
    <2>1. calls' = [calls EXCEPT ![c] = NoCall] /\ UNCHANGED <<db, star>>
      BY <1>3 DEF ServeStar
    <2>2. /\ calls' \in [Call -> CallState]
          /\ \A d \in Call : calls'[d].fresh =>
                calls[d].fresh /\ PageEnds(calls'[d]) /\ calls'[d] = calls[d]
      BY <2>1, CallOver
    <2>3. ListTypes'
      BY <2>1, <2>2 DEF ListInv, ListTypes, ServeStar
    <2>4. CallsInv'
      BY <1>0, <1>1, <2>2, CallsKept
    <2> QED
      BY <1>2, <2>3, <2>4 DEF ListInv
  <1>4. CASE calls[c].row \in Range(db)
    <2> DEFINE r == calls[c].row
               a == IF r \in star THEN <<>> ELSE <<r>>
    <2>1. /\ star' = IF r \in star THEN star \ {r} ELSE star \cup {r}
          /\ db' = ToTop(r)
          /\ calls' = [calls EXCEPT ![c] = [calls[c] EXCEPT !.done = TRUE, !.answer = a]]
      BY <1>0, <1>4 DEF ServeStar
    <2>2. r \in Content /\ <<>> \in Seq(Content)
      BY <1>4 DEF ListInv, ListTypes, Range
    <2>3. a \in Seq(Content) /\ calls[c].kind = "star"
      BY <2>2 DEF ServeStar
    <2>4. /\ ToTop(r) \in Seq(Content) /\ IsInjective(ToTop(r)) /\ Range(ToTop(r)) = Range(db)
      BY <1>4, ToTopFacts DEF ListInv, ListTypes
    <2>5. star' \subseteq Range(db)
      BY <1>4, <2>1 DEF ListInv, ListTypes
    <2> HIDE DEF a, r
    <2>6. [calls[c] EXCEPT !.done = TRUE, !.answer = a] \in CallState
      BY <1>0, <2>3, CallStateUpdates
    <2>7. calls' \in [Call -> CallState] /\ \A d \in Call : d # c => calls'[d] = calls[d]
      BY <1>0, <2>1, <2>6
    <2>8. ListTypes'
      BY <2>1, <2>4, <2>5, <2>7 DEF ListInv, ListTypes, ServeStar
    <2>9. calls'[c].fresh = calls[c].fresh
      BY <1>0, <2>1 DEF CallState
    <2>10. ~calls[c].fresh
      BY <2>3 DEF ListInv, CallsInv, CurrentCall
    <2>11. CallsInv'
      BY <1>0, <1>1, <2>7, <2>9, <2>10, CallsKept DEF ListInv, CallsInv
    <2> QED
      BY <1>2, <2>8, <2>11 DEF ListInv
  <1> QED
    BY <1>3, <1>4

LEMMA ServeDeleteSafe ==
    ASSUME ListInv, NEW c \in Call, ServeDelete(c)
    PROVE  ListInv'
  <1> DEFINE r == calls[c].row
  <1>0. calls \in [Call -> CallState] /\ calls[c] \in CallState /\ nextOffset \in Nat
    BY ContentFinite DEF ListInv, ListTypes
  <1>1. /\ db' = Without(db, r) /\ star' = star \ {r}
        /\ calls' = [calls EXCEPT ![c] = [calls[c] EXCEPT !.done = TRUE]]
    BY <1>0 DEF ServeDelete
  <1>2. /\ Without(db, r) \in Seq(Content) /\ IsInjective(Without(db, r))
        /\ Range(Without(db, r)) = Range(db) \ {r}
    BY WithoutFacts, Zenon DEF ListInv, ListTypes
  <1> HIDE DEF r
  <1>3. [calls[c] EXCEPT !.done = TRUE] \in CallState
    BY <1>0 DEF CallState
  <1>4. calls' \in [Call -> CallState] /\ \A d \in Call : d # c => calls'[d] = calls[d]
    BY <1>0, <1>1, <1>3
  <1>5. star' \subseteq Range(db')
    BY <1>1, <1>2 DEF ListInv, ListTypes
  <1>6. ListTypes'
    BY <1>1, <1>2, <1>4, <1>5 DEF ListInv, ListTypes, ServeDelete
  <1>7. calls'[c].fresh = calls[c].fresh
    BY <1>0, <1>1 DEF CallState
  <1>8. ~calls[c].fresh
    BY DEF ListInv, CallsInv, CurrentCall, ServeDelete
  <1>9. nextOffset' = nextOffset /\ UNCHANGED <<query, loading, loadingMore>>
    BY DEF ServeDelete
  <1>10. \A d \in Call : calls'[d].fresh => calls[d].fresh /\ PageEnds(calls'[d]) /\ calls'[d] = calls[d]
    BY <1>4, <1>7, <1>8 DEF ListInv, CallsInv
  <1>11. CallsInv'
    BY <1>0, <1>4, <1>9, <1>10, CallsKept
  <1>12. SelectionInv'
    BY DEF ListInv, ServeDelete, SelectionInv
  <1> QED
    BY <1>6, <1>11, <1>12 DEF ListInv

LEMMA OutdatedFacts ==
    ASSUME ListTypes
    PROVE  /\ Outdated \in [Call -> CallState]
           /\ \A c \in Call : /\ ~Outdated[c].fresh /\ Outdated[c].kind = calls[c].kind
                              /\ Outdated[c].row = calls[c].row /\ Outdated[c].done = calls[c].done
                              /\ Outdated[c].answer = calls[c].answer
                              /\ Outdated[c].by = calls[c].by
                              /\ Outdated[c] = [calls[c] EXCEPT !.fresh = FALSE]
  <1>1. \A c \in Call : calls[c] \in CallState
    BY DEF ListTypes
  <1>2. \A c \in Call : Outdated[c] = [calls[c] EXCEPT !.fresh = FALSE]
    BY DEF Outdated
  <1>3. ASSUME NEW c \in Call PROVE Outdated[c] \in CallState
    <2>1. calls[c] \in CallState /\ Outdated[c] = [calls[c] EXCEPT !.fresh = FALSE]
      BY <1>1, <1>2
    <2> QED
      BY <2>1 DEF CallState
  <1>4. Outdated \in [Call -> CallState]
    BY <1>3 DEF Outdated
  <1>5. ASSUME NEW c \in Call
        PROVE  /\ ~Outdated[c].fresh /\ Outdated[c].kind = calls[c].kind
               /\ Outdated[c].row = calls[c].row /\ Outdated[c].done = calls[c].done
               /\ Outdated[c].answer = calls[c].answer /\ Outdated[c].by = calls[c].by
    <2>1. calls[c] \in CallState /\ Outdated[c] = [calls[c] EXCEPT !.fresh = FALSE]
      BY <1>1, <1>2
    <2> QED
      BY <2>1 DEF CallState
  <1> QED
    BY <1>2, <1>4, <1>5

\* The record of a call of loadEntries.
LEMMA BeginLoadFacts ==
    ASSUME ListTypes, NEW by \in {"other", "refresh"}, BeginLoad(by, query)
    PROVE  \E c \in Call : \E s \in CallState :
             /\ calls[c] = NoCall /\ calls' = [Outdated EXCEPT ![c] = s]
             /\ PageEnds(s) /\ s.fresh /\ s.q = query /\ s.kind = "load" /\ s.offset = 0
             /\ s.by = by /\ s.raced = (Changes # {}) /\ ~s.done
             /\ calls' \in [Call -> CallState] /\ calls'[c] = s
             /\ \A d \in Call : d # c => calls'[d] = Outdated[d]
  <1> DEFINE b == Changes # {}
             s == [NoCall EXCEPT !.kind = "load", !.fresh = TRUE, !.q = query, !.by = by, !.raced = b]
  <1>1. PICK c \in Call : Ask(c, s)
    BY DEF BeginLoad
  <1>2. b \in BOOLEAN /\ query \in Query
    BY DEF ListTypes
  <1> HIDE DEF b
  <1>3. /\ s \in CallState /\ PageEnds(s) /\ s.fresh /\ s.q = query /\ s.kind = "load"
        /\ s.offset = 0 /\ s.by = by /\ s.raced = b /\ ~s.done
    <2>1. <<>> \in Seq(Content)
      OBVIOUS
    <2> QED
      BY <1>2, <2>1 DEF NoCall, CallState, PageEnds
  <1> HIDE DEF s
  <1>4. calls[c] = NoCall /\ calls' = [Outdated EXCEPT ![c] = s]
    BY <1>1 DEF Ask, Free
  <1>5. calls' \in [Call -> CallState] /\ calls'[c] = s /\ \A d \in Call : d # c => calls'[d] = Outdated[d]
    BY <1>3, <1>4, OutdatedFacts
  <1> QED
    BY <1>3, <1>4, <1>5, Zenon DEF b

LEMMA BeginLoadSafe ==
    ASSUME ListInv, NEW by \in {"other", "refresh"}, BeginLoad(by, query), LoadRest,
           notices' \in BOOLEAN, timer' \in BOOLEAN
    PROVE  ListInv'
  <1>1. PICK c \in Call : \E s \in CallState :
             /\ calls[c] = NoCall /\ calls' = [Outdated EXCEPT ![c] = s]
             /\ PageEnds(s) /\ s.fresh /\ s.q = query /\ s.kind = "load" /\ s.offset = 0
             /\ s.by = by /\ s.raced = (Changes # {}) /\ ~s.done
             /\ calls' \in [Call -> CallState] /\ calls'[c] = s
             /\ \A d \in Call : d # c => calls'[d] = Outdated[d]
    BY BeginLoadFacts DEF ListInv
  <1>2. loading' = TRUE /\ loadingMore' = FALSE /\ hasMore' = FALSE
    BY DEF BeginLoad
  <1>3. ListTypes'
    BY <1>1, <1>2 DEF ListInv, ListTypes, LoadRest
  <1>4. \A d \in Call : calls'[d].fresh => d = c
    BY <1>1, OutdatedFacts DEF ListInv
  <1>5. CurrentCall(calls[c])' /\ PageEnds(calls'[c])
    BY <1>1, <1>2 DEF CurrentCall, LoadRest
  <1>6. CallsInv'
    BY <1>4, <1>5 DEF CallsInv, PageEnds
  <1>7. SelectionInv'
    BY <1>2 DEF ListInv, LoadRest, SelectionInv
  <1> QED
    BY <1>3, <1>6, <1>7 DEF ListInv

LEMMA QueryChangesSafe ==
    ASSUME ListInv, NEW q \in Query, QueryChanges(q)
    PROVE  ListInv'
  <1>1. calls' \in [Call -> CallState] /\ \A d \in Call : ~calls'[d].fresh
    BY OutdatedFacts DEF ListInv, QueryChanges
  <1>2. ListTypes'
    BY <1>1 DEF ListInv, ListTypes, QueryChanges
  <1>3. CallsInv' /\ SelectionInv'
    BY <1>1 DEF ListInv, CallsInv, SelectionInv, QueryChanges
  <1> QED
    BY <1>2, <1>3 DEF ListInv

LEMMA LoadAnsweredSafe ==
    ASSUME ListInv, NEW c \in Call, LoadAnswered(c)
    PROVE  ListInv'
  <1>0. calls[c] \in CallState /\ nextOffset \in Nat /\ UNCHANGED <<query, loadingMore>>
    BY ContentFinite DEF ListInv, ListTypes, LoadAnswered
  <1>1. /\ calls' \in [Call -> CallState] /\ calls'[c] = NoCall
        /\ \A d \in Call : d # c => calls'[d] = calls[d]
        /\ \A d \in Call : calls'[d].fresh =>
             /\ d # c /\ calls[d].fresh /\ PageEnds(calls'[d]) /\ calls'[d] = calls[d]
    BY CallOver DEF LoadAnswered
  <1>2. CASE calls[c].fresh
    <2> DEFINE a == calls[c].answer
    <2>1. /\ shown' = a /\ nextOffset' = Len(a) /\ hasMore' = (Len(a) = PageSize)
          /\ selected' = SyncSelection(a) /\ loading' = FALSE /\ shownFor' = calls[c].q
          /\ failed' = FALSE /\ raced' = calls[c].raced /\ UNCHANGED <<db, star, listening, notices, query, loadingMore, timer>>
      BY <1>2 DEF LoadAnswered
    <2>2. a \in Seq(Content) /\ calls[c].q = query /\ calls[c].offset = 0 /\ PageEnds(calls[c])
      BY <1>0, <1>2, CallStateFields DEF ListInv, CallsInv, CurrentCall, LoadAnswered
    <2>3. Len(a) \in 0..Cardinality(Content)
      BY <2>2, ContentFinite DEF PageEnds
    <2> HIDE DEF a
    <2>4. selected' \in Content \cup {NoRow} /\ (selected' = NoRow \/ selected' \in Range(shown'))
      BY <2>1, <2>2, SelectionFacts DEF ListInv, ListTypes
    <2>5. raced' \in BOOLEAN
      BY <1>0, <2>1, CallStateFields
    <2>6. ListTypes'
      BY <1>1, <2>1, <2>2, <2>3, <2>4, <2>5 DEF ListInv, ListTypes
    <2>7. CallsInv'
      BY <1>1, <1>2 DEF ListInv, CallsInv, PageEnds
    <2>8. SelectionInv'
      BY <2>1, <2>2, <2>4 DEF SelectionInv
    <2> QED
      BY <2>6, <2>7, <2>8 DEF ListInv
  <1>3. CASE ~calls[c].fresh
    <2>1. UNCHANGED <<shown, nextOffset, hasMore, selected, loading, shownFor, failed, raced>>
      BY <1>3 DEF LoadAnswered
    <2>2. ListTypes'
      BY <1>1, <2>1 DEF ListInv, ListTypes, LoadAnswered
    <2>3. CallsInv'
      BY <1>0, <1>1, <2>1, CallsKept
    <2>4. SelectionInv'
      BY <1>0, <2>1 DEF ListInv, SelectionInv
    <2> QED
      BY <2>2, <2>3, <2>4 DEF ListInv
  <1> QED
    BY <1>2, <1>3

LEMMA LoadFailsSafe ==
    ASSUME ListInv, NEW c \in Call, LoadFails(c)
    PROVE  ListInv'
  <1>0. /\ calls[c] \in CallState /\ nextOffset' = nextOffset /\ nextOffset \in Nat
        /\ UNCHANGED <<query, loadingMore>> /\ loading \in BOOLEAN /\ failed \in BOOLEAN
    BY ContentFinite DEF ListInv, ListTypes, LoadFails
  <1>1. /\ calls' \in [Call -> CallState] /\ calls'[c] = NoCall
        /\ \A d \in Call : d # c => calls'[d] = calls[d]
        /\ \A d \in Call : calls'[d].fresh =>
             /\ d # c /\ calls[d].fresh /\ PageEnds(calls'[d]) /\ calls'[d] = calls[d]
    BY CallOver DEF LoadFails
  <1>2. loading' \in BOOLEAN /\ failed' \in BOOLEAN
    BY DEF LoadFails
  <1>3. ListTypes'
    BY <1>1, <1>2 DEF ListInv, ListTypes, LoadFails
  <1>4. CASE calls[c].fresh
    <2>1. loading' = FALSE /\ failed' = TRUE
      BY <1>4 DEF LoadFails
    <2>2. CallsInv'
      BY <1>1, <1>4 DEF ListInv, CallsInv, PageEnds
    <2>3. SelectionInv'
      BY <2>1 DEF ListInv, SelectionInv, LoadFails
    <2> QED
      BY <1>3, <2>2, <2>3 DEF ListInv
  <1>5. CASE ~calls[c].fresh
    <2>1. loading' = loading /\ failed' = failed
      BY <1>0, <1>5 DEF LoadFails
    <2>2. CallsInv'
      BY <1>0, <1>1, <2>1, CallsKept
    <2>3. SelectionInv'
      BY <2>1 DEF ListInv, SelectionInv, LoadFails
    <2> QED
      BY <1>3, <2>2, <2>3 DEF ListInv
  <1> QED
    BY <1>4, <1>5

\* The record of a call of loadMoreEntries.
LEMMA LoadMoreFacts ==
    ASSUME ListTypes, LoadMore
    PROVE  \E c \in Call : \E s \in CallState :
             /\ calls[c] = NoCall /\ PageEnds(s) /\ s.fresh /\ s.q = query /\ s.kind = "more"
             /\ s.offset = nextOffset /\ s.by = "other" /\ s.raced = (Changes # {}) /\ ~s.done
             /\ calls' \in [Call -> CallState] /\ calls'[c] = s
             /\ \A d \in Call : d # c => calls'[d] = calls[d]
  <1> DEFINE b == Changes # {}
             s == [NoCall EXCEPT !.kind = "more", !.fresh = TRUE, !.q = query,
                                 !.offset = nextOffset, !.raced = b]
  <1>1. PICK c \in Call : Free(c) /\ calls' = [calls EXCEPT ![c] = s]
    BY DEF LoadMore
  <1>2. b \in BOOLEAN /\ query \in Query /\ nextOffset \in Nat
    BY ContentFinite DEF ListTypes
  <1> HIDE DEF b
  <1>3. /\ s \in CallState /\ PageEnds(s) /\ s.fresh /\ s.q = query /\ s.kind = "more"
        /\ s.offset = nextOffset /\ s.by = "other" /\ s.raced = b /\ ~s.done
    <2>1. <<>> \in Seq(Content)
      OBVIOUS
    <2> QED
      BY <1>2, <2>1 DEF NoCall, CallState, PageEnds
  <1> HIDE DEF s
  <1>4. calls[c] = NoCall
    BY <1>1 DEF Free
  <1>5. calls' \in [Call -> CallState] /\ calls'[c] = s /\ \A d \in Call : d # c => calls'[d] = calls[d]
    BY <1>1, <1>3 DEF ListTypes
  <1> QED
    BY <1>3, <1>4, <1>5, Zenon DEF b

LEMMA LoadMoreSafe ==
    ASSUME ListInv, LoadMore
    PROVE  ListInv'
  <1>1. PICK c \in Call : \E s \in CallState :
             /\ calls[c] = NoCall /\ PageEnds(s) /\ s.fresh /\ s.q = query /\ s.kind = "more"
             /\ s.offset = nextOffset /\ s.by = "other" /\ s.raced = (Changes # {}) /\ ~s.done
             /\ calls' \in [Call -> CallState] /\ calls'[c] = s
             /\ \A d \in Call : d # c => calls'[d] = calls[d]
    BY LoadMoreFacts DEF ListInv
  <1>2. /\ ~loading /\ loadingMore' = TRUE /\ nextOffset \in Nat
        /\ UNCHANGED <<db, star, listening, notices, query, shown, selected, loading, hasMore, nextOffset,
                       timer, shownFor, failed, raced>>
    BY ContentFinite DEF LoadMore, ListInv, ListTypes
  <1>3. ListTypes'
    BY <1>1, <1>2 DEF ListInv, ListTypes
  <1>4. \A d \in Call : ~calls[d].fresh
    BY DEF ListInv, CallsInv, CurrentCall, LoadMore
  <1>5. CurrentCall(calls[c])' /\ PageEnds(calls'[c])
    BY <1>1, <1>2 DEF CurrentCall
  <1>6. \A d \in Call : calls'[d].fresh => d = c
    BY <1>1, <1>4
  <1>7. CallsInv'
    BY <1>5, <1>6 DEF CallsInv, PageEnds
  <1>8. SelectionInv'
    BY <1>2 DEF ListInv, SelectionInv
  <1> QED
    BY <1>3, <1>7, <1>8 DEF ListInv

LEMMA AppendedFacts ==
    ASSUME NEW s \in Seq(Content), NEW t \in Seq(Content)
    PROVE  /\ s \o t \in Seq(Content) /\ Len(s \o t) = Len(s) + Len(t)
           /\ Range(s \o t) = Range(s) \cup Range(t)
           /\ IsInjective(s) /\ IsInjective(t) /\ Range(s) \cap Range(t) = {} => IsInjective(s \o t)
  <1> DEFINE u == s \o t
  <1>1. /\ Len(s) \in Nat /\ Len(t) \in Nat /\ DOMAIN s = 1..Len(s) /\ DOMAIN t = 1..Len(t)
        /\ u \in Seq(Content) /\ Len(u) = Len(s) + Len(t) /\ DOMAIN u = 1..(Len(s) + Len(t))
    OBVIOUS
  <1>2. \A i \in DOMAIN s : i \in DOMAIN u /\ u[i] = s[i]
    BY <1>1
  <1>3. \A i \in DOMAIN t : Len(s) + i \in DOMAIN u /\ u[Len(s) + i] = t[i]
    BY <1>1
  <1>4. \A i \in DOMAIN u : i \notin DOMAIN s => i - Len(s) \in DOMAIN t /\ u[i] = t[i - Len(s)]
    BY <1>1
  <1> HIDE DEF u
  <1>5. Range(u) = Range(s) \cup Range(t)
    BY <1>2, <1>3, <1>4 DEF Range
  <1>6. ASSUME IsInjective(s), IsInjective(t), Range(s) \cap Range(t) = {},
               NEW i \in DOMAIN u, NEW j \in DOMAIN u, u[i] = u[j]
        PROVE  i = j
    <2>1. CASE i \in DOMAIN s /\ j \in DOMAIN s
      BY <1>2, <1>6, <2>1 DEF IsInjective
    <2>2. CASE i \notin DOMAIN s /\ j \notin DOMAIN s
      <3>1. i - Len(s) = j - Len(s)
        BY <1>4, <1>6, <2>2 DEF IsInjective
      <3> QED
        BY <1>1, <3>1
    <2>3. CASE i \in DOMAIN s /\ j \notin DOMAIN s
      <3>1. u[i] \in Range(s)
        BY <1>2, <2>3 DEF Range
      <3>2. u[j] \in Range(t)
        BY <1>4, <2>3 DEF Range
      <3> QED
        BY <1>6, <3>1, <3>2
    <2>4. CASE i \notin DOMAIN s /\ j \in DOMAIN s
      <3>1. u[j] \in Range(s)
        BY <1>2, <2>4 DEF Range
      <3>2. u[i] \in Range(t)
        BY <1>4, <2>4 DEF Range
      <3> QED
        BY <1>6, <3>1, <3>2
    <2> QED
      BY <2>1, <2>2, <2>3, <2>4
  <1>7. IsInjective(s) /\ IsInjective(t) /\ Range(s) \cap Range(t) = {} => IsInjective(u)
    BY <1>6 DEF IsInjective
  <1> QED
    BY <1>1, <1>5, <1>7, Zenon DEF u

LEMMA MoreAnsweredSafe ==
    ASSUME ListInv, NEW c \in Call, MoreAnswered(c)
    PROVE  ListInv'
  <1>0. /\ calls[c] \in CallState /\ nextOffset \in Nat
        /\ UNCHANGED <<db, star, listening, notices, query, loading, timer, shownFor, failed>>
    BY ContentFinite DEF ListInv, ListTypes, MoreAnswered
  <1>1. /\ calls' \in [Call -> CallState] /\ calls'[c] = NoCall
        /\ \A d \in Call : d # c => calls'[d] = calls[d]
        /\ \A d \in Call : calls'[d].fresh =>
             /\ d # c /\ calls[d].fresh /\ PageEnds(calls'[d]) /\ calls'[d] = calls[d]
    BY CallOver DEF MoreAnswered
  <1>2. CASE calls[c].fresh
    <2> DEFINE page == calls[c].answer
               more == Only(page, Content \ Range(shown))
               all == shown \o more
    <2>1. /\ shown' = all /\ selected' = SyncSelection(all)
          /\ nextOffset' = nextOffset + Len(page) /\ hasMore' = (Len(page) = PageSize)
          /\ loadingMore' = FALSE /\ raced' = (raced \/ calls[c].raced)
      BY <1>2 DEF MoreAnswered
    <2>2. /\ page \in Seq(Content) /\ calls[c].offset \in Nat /\ nextOffset <= calls[c].offset
          /\ PageEnds(calls[c]) /\ calls[c].raced \in BOOLEAN
      BY <1>0, <1>2, CallStateFields DEF ListInv, CallsInv, CurrentCall, MoreAnswered
    <2>3. more \in Seq(Content)
      BY <2>2, OnlyFacts
    <2>4. nextOffset' \in 0..Cardinality(Content)
      <3>1. CASE page = <<>>
        BY <1>0, <2>1, <3>1 DEF ListInv, ListTypes
      <3>2. CASE page # <<>>
        <4>1. calls[c].offset + Len(page) <= Cardinality(Content) /\ Len(page) \in Nat
          BY <2>2, <3>2 DEF PageEnds
        <4> QED
          BY <1>0, <2>1, <2>2, <4>1, ContentFinite
      <3> QED
        BY <3>1, <3>2
    <2> HIDE DEF page, more
    <2>5. all \in Seq(Content)
      BY <2>3 DEF ListInv, ListTypes
    <2> HIDE DEF all
    <2>6. selected' \in Content \cup {NoRow} /\ (selected' = NoRow \/ selected' \in Range(shown'))
      BY <2>1, <2>5, SelectionFacts DEF ListInv, ListTypes
    <2>7. hasMore' \in BOOLEAN /\ raced' \in BOOLEAN
      BY <2>1, <2>2 DEF ListInv, ListTypes
    <2>8. ListTypes'
      BY <1>0, <1>1, <2>1, <2>4, <2>5, <2>6, <2>7 DEF ListInv, ListTypes
    <2>9. CallsInv'
      BY <1>1, <1>2 DEF ListInv, CallsInv, PageEnds
    <2>10. SelectionInv'
      BY <1>0, <2>6 DEF ListInv, SelectionInv
    <2> QED
      BY <2>8, <2>9, <2>10 DEF ListInv
  <1>3. CASE ~calls[c].fresh
    <2>1. UNCHANGED <<shown, nextOffset, hasMore, selected, loadingMore, raced>>
      BY <1>3 DEF MoreAnswered
    <2>2. ListTypes'
      BY <1>0, <1>1, <2>1 DEF ListInv, ListTypes
    <2>3. CallsInv'
      BY <1>0, <1>1, <2>1, CallsKept
    <2>4. SelectionInv'
      BY <1>0, <2>1 DEF ListInv, SelectionInv
    <2> QED
      BY <2>2, <2>3, <2>4 DEF ListInv
  <1> QED
    BY <1>2, <1>3

LEMMA MoreFailsSafe ==
    ASSUME ListInv, NEW c \in Call, MoreFails(c)
    PROVE  ListInv'
  <1>0. /\ calls[c] \in CallState /\ nextOffset' = nextOffset /\ nextOffset \in Nat
        /\ UNCHANGED <<query, loading>> /\ loadingMore \in BOOLEAN
    BY ContentFinite DEF ListInv, ListTypes, MoreFails
  <1>1. /\ calls' \in [Call -> CallState] /\ calls'[c] = NoCall
        /\ \A d \in Call : d # c => calls'[d] = calls[d]
        /\ \A d \in Call : calls'[d].fresh =>
             /\ d # c /\ calls[d].fresh /\ PageEnds(calls'[d]) /\ calls'[d] = calls[d]
    BY CallOver DEF MoreFails
  <1>2. ListTypes' /\ SelectionInv'
    BY <1>1 DEF ListInv, ListTypes, SelectionInv, MoreFails
  <1>4. CASE calls[c].fresh
    <2>2. CallsInv'
      BY <1>1, <1>4 DEF ListInv, CallsInv, PageEnds
    <2> QED
      BY <1>2, <2>2 DEF ListInv
  <1>5. CASE ~calls[c].fresh
    <2>1. loadingMore' = loadingMore
      BY <1>0, <1>5 DEF MoreFails
    <2>2. CallsInv'
      BY <1>0, <1>1, <2>1, CallsKept
    <2> QED
      BY <1>2, <2>2 DEF ListInv
  <1> QED
    BY <1>4, <1>5

\* The record of a call of toggleStar or deleteEntry.
LEMMA AskChangeFacts ==
    ASSUME ListTypes, NEW kind \in {"star", "delete"}, NEW r \in Content, AskChange(kind, r)
    PROVE  \E c \in Call : \E s \in CallState :
             /\ calls[c] = NoCall /\ ~s.fresh /\ s.kind = kind /\ s.row = r
             /\ s.by = "other" /\ ~s.done
             /\ calls' \in [Call -> CallState] /\ calls'[c] = s
             /\ \A d \in Call : d # c =>
                  /\ \A f \in {"kind", "fresh", "q", "offset", "row", "by", "done", "answer"} :
                       calls'[d][f] = calls[d][f]
                  /\ calls'[d].raced = (calls[d].raced \/ d \in Loads)
  <1> DEFINE s == [NoCall EXCEPT !.kind = kind, !.row = r]
             old(d) == [calls[d] EXCEPT !.raced = calls[d].raced \/ d \in Loads]
  <1>1. PICK c \in Call : /\ Free(c)
                          /\ calls' = [d \in Call |-> IF d = c THEN s ELSE old(d)]
    BY DEF AskChange
  <1>2. s \in CallState /\ ~s.fresh /\ s.kind = kind /\ s.row = r /\ s.by = "other" /\ ~s.done
    <2>1. <<>> \in Seq(Content)
      OBVIOUS
    <2> QED
      BY <2>1 DEF NoCall, CallState, Query
  <1> HIDE DEF s
  <1>3. ASSUME NEW d \in Call
        PROVE  /\ old(d) \in CallState
               /\ \A f \in {"kind", "fresh", "q", "offset", "row", "by", "done", "answer"} :
                    old(d)[f] = calls[d][f]
               /\ old(d).raced = (calls[d].raced \/ d \in Loads)
    <2> DEFINE b == calls[d].raced \/ d \in Loads
    <2>1. calls[d] \in CallState /\ calls[d].raced \in BOOLEAN
      BY CallStateFields DEF ListTypes
    <2>2. b \in BOOLEAN
      BY <2>1
    <2> HIDE DEF b
    <2> QED
      BY <2>1, <2>2 DEF CallState
  <1> HIDE DEF old
  <1>4. calls' \in [Call -> CallState] /\ calls'[c] = s /\ \A d \in Call : d # c => calls'[d] = old(d)
    BY <1>1, <1>2, <1>3
  <1>5. calls[c] = NoCall
    BY <1>1 DEF Free
  <1> QED
    BY <1>2, <1>3, <1>4, <1>5

LEMMA AskChangeSafe ==
    ASSUME ListInv, NEW kind \in {"star", "delete"}, NEW r \in Content, AskChange(kind, r)
    PROVE  ListInv'
  <1>1. PICK c \in Call : \E s \in CallState :
             /\ calls[c] = NoCall /\ ~s.fresh /\ s.kind = kind /\ s.row = r
             /\ s.by = "other" /\ ~s.done
             /\ calls' \in [Call -> CallState] /\ calls'[c] = s
             /\ \A d \in Call : d # c =>
                  /\ \A f \in {"kind", "fresh", "q", "offset", "row", "by", "done", "answer"} :
                       calls'[d][f] = calls[d][f]
                  /\ calls'[d].raced = (calls[d].raced \/ d \in Loads)
    BY AskChangeFacts DEF ListInv
  <1>2. /\ raced' \in BOOLEAN /\ nextOffset \in Nat
        /\ UNCHANGED <<db, star, listening, notices, query, shown, selected, loading, loadingMore,
                       hasMore, nextOffset, timer, shownFor, failed>>
    BY ContentFinite DEF AskChange, ListInv, ListTypes
  <1>3. ListTypes' /\ SelectionInv'
    BY <1>1, <1>2 DEF ListInv, ListTypes, SelectionInv
  <1>4. \A d \in Call : calls'[d].fresh =>
          /\ calls[d].fresh /\ calls'[d].q = calls[d].q /\ calls'[d].kind = calls[d].kind
          /\ calls'[d].offset = calls[d].offset /\ calls'[d].answer = calls[d].answer
    BY <1>1
  <1>5. \A d \in Call : calls'[d].fresh => PageEnds(calls'[d])
    BY <1>4 DEF ListInv, CallsInv, PageEnds
  <1>6. CallsInv'
    BY <1>1, <1>2, <1>4, <1>5, CallsKept
  <1> QED
    BY <1>3, <1>6 DEF ListInv

LEMMA ChangeAnsweredSafe ==
    ASSUME ListInv, NEW c \in Call, ChangeAnswered(c)
    PROVE  ListInv'
  <1> DEFINE leaves == calls[c].kind = "delete" \/ (query = "starred" /\ calls[c].answer = <<>>)
             list == IF leaves THEN Without(shown, calls[c].row) ELSE shown
  <1>1. /\ calls' \in [Call -> CallState]
        /\ \A d \in Call : calls'[d].fresh =>
             /\ d # c /\ calls[d].fresh /\ PageEnds(calls'[d]) /\ calls'[d] = calls[d]
    BY CallOver DEF ChangeAnswered
  <1>2. list \in Seq(Content)
    BY WithoutFacts DEF ListInv, ListTypes
  <1>3. /\ shown' = list /\ nextOffset' = IF nextOffset < Len(list) THEN nextOffset ELSE Len(list)
        /\ selected' = SyncSelection(list)
        /\ UNCHANGED <<db, star, listening, notices, query, loading, loadingMore, hasMore, timer,
                       shownFor, failed, raced>>
    BY DEF ChangeAnswered
  <1> HIDE DEF list
  <1>4. selected' \in Content \cup {NoRow} /\ (selected' = NoRow \/ selected' \in Range(shown'))
    BY <1>2, <1>3, SelectionFacts DEF ListInv, ListTypes
  <1>5. nextOffset' \in 0..Cardinality(Content) /\ nextOffset' <= nextOffset /\ nextOffset' \in Nat
    BY <1>2, <1>3, ContentFinite DEF ListInv, ListTypes
  <1>6. ListTypes'
    BY <1>1, <1>2, <1>3, <1>4, <1>5 DEF ListInv, ListTypes
  <1>7. CallsInv'
    BY <1>1, <1>3, <1>5, CallsKept
  <1>8. SelectionInv'
    BY <1>3, <1>4 DEF ListInv, SelectionInv
  <1> QED
    BY <1>6, <1>7, <1>8 DEF ListInv

LEMMA ChangeFailsSafe ==
    ASSUME ListInv, NEW c \in Call, ChangeFails(c)
    PROVE  ListInv'
  <1>1. /\ calls' \in [Call -> CallState]
        /\ \A d \in Call : calls'[d].fresh =>
             /\ d # c /\ calls[d].fresh /\ PageEnds(calls'[d]) /\ calls'[d] = calls[d]
    BY CallOver DEF ChangeFails
  <1>2. ListTypes' /\ SelectionInv'
    BY <1>1 DEF ListInv, ListTypes, SelectionInv, ChangeFails
  <1>3. nextOffset' = nextOffset /\ nextOffset \in Nat /\ UNCHANGED <<query, loading, loadingMore>>
    BY ContentFinite DEF ChangeFails, ListInv, ListTypes
  <1>4. CallsInv'
    BY <1>1, <1>3, CallsKept
  <1> QED
    BY <1>2, <1>4 DEF ListInv

LEMMA SelectEntrySafe ==
    ASSUME ListInv, NEW r \in Content, SelectEntry(r)
    PROVE  ListInv'
  BY DEF SelectEntry, ListInv, ListTypes, CallsInv, PageEnds, CurrentCall, SelectionInv

LEMMA KilledEmptiesList ==
    ASSUME ListInv, Killed
    PROVE  ListInv'
  <1>1. /\ query' = "all" /\ shown' = <<>> /\ selected' = NoRow
        /\ loading' = FALSE /\ loadingMore' = FALSE /\ hasMore' = FALSE
        /\ nextOffset' = 0 /\ timer' = FALSE /\ listening' = FALSE /\ notices' = FALSE
        /\ calls' = [c \in Call |-> NoCall]
        /\ shownFor' = "all" /\ failed' = FALSE /\ raced' = FALSE /\ UNCHANGED <<db, star>>
    BY DEF Killed
  <1>2. <<>> \in Seq(Content) /\ 0 \in 0..Cardinality(Content)
    BY ContentFinite
  <1>3. calls' \in [Call -> CallState] /\ \A c \in Call : ~calls'[c].fresh
    BY <1>1, NoCallFacts
  <1>4. ListTypes'
    BY <1>1, <1>2, <1>3 DEF ListInv, ListTypes, Query
  <1>5. CallsInv' /\ SelectionInv'
    BY <1>1, <1>3 DEF CallsInv, SelectionInv
  <1> QED
    BY <1>4, <1>5 DEF ListInv

LEMMA ListInitially == Init => ListInv
  <1> SUFFICES ASSUME Init PROVE ListInv
    OBVIOUS
  <1>1. PICK s \in Starts : ListInit(s.rows, s.starred)
    BY DEF Init
  <1>2. /\ s.rows \in Seq(Content) /\ IsInjective(s.rows) /\ s.starred \subseteq Range(s.rows)
    BY MobileAppAssumption
  <1>3. <<>> \in Seq(Content) /\ 0 \in 0..Cardinality(Content)
    BY ContentFinite
  <1>4. calls \in [Call -> CallState] /\ \A c \in Call : ~calls[c].fresh
    BY <1>1, NoCallFacts DEF ListInit
  <1> QED
    BY <1>1, <1>2, <1>3, <1>4 DEF ListInit, ListInv, ListTypes, CallsInv, SelectionInv, Query

-----------------------------------------------------------------------------
(* The refresh, and what of the application moves the list                 *)

RefreshState == [at : RefreshStep, m : SUBSET Importer, load : BOOLEAN]

AppTypes ==
    /\ mounted \in BOOLEAN /\ refresh \in RefreshState
    /\ capture \subseteq Waited /\ sync \in [Puller -> SyncStep]
    /\ status \in {"checking", "settled"} /\ watchdog \in BOOLEAN
    /\ allowed \in [EventClass -> Nat]

StoreTypes == files \subseteq UNION {FilesOf(b) : b \in Batch} /\ everStored \subseteq Content

ByRefresh == {c \in Call : calls[c].by = "refresh"}

\* A command that the refresh awaits is that of its step, and it is the only
\* one: what is awaited is not asked for again before it is given up.
RefreshInv ==
    /\ "awaited" \in capture => refresh.at = "capture"
    /\ sync["awaited"] # "none" => refresh.at = "sync"
    /\ ByRefresh # {} => refresh.at \in LoadStep /\ refresh.load
    /\ \A c, d \in ByRefresh : c = d
    /\ ~mounted => refresh.at = "idle"

AppInv == AppTypes /\ StoreTypes /\ RefreshInv

\* Every row that is new or moved has been announced, and the announcement
\* was heard.
Quiet ==
    /\ ~notices /\ "pulled" \notin Range(sync)
    /\ \A m \in Importer : /\ importer[m].at # "announce"
                           /\ importer[m].at = "unlink" => ~importer[m].new

NothingNewIsHidden == (mounted' => mounted) /\ (Quiet' => Quiet)

\* A step of others: they may insert, move and star rows, which will be
\* announced, or which the calls are marked as being behind.
OthersMove ==
    /\ Frontend /\ notices' \in BOOLEAN /\ listening' \in BOOLEAN /\ (mounted' => mounted)
    /\ db' \in Seq(Content) /\ IsInjective(db') /\ star' \subseteq Range(db')
    /\ \/ UNCHANGED <<db, star, calls, raced>> /\ (Quiet' => Quiet)
       \/ UNCHANGED <<calls, raced>> /\ ~Quiet'
       \/ Unheard

CallMoves(c) ==
    \/ ServeQuery(c) \/ ServeStar(c) \/ ServeDelete(c)
    \/ LoadAnswered(c) \/ LoadFails(c) \/ MoreAnswered(c) \/ MoreFails(c)
    \/ ChangeAnswered(c) \/ ChangeFails(c)

UserMoves ==
    \/ \E q \in Query : QueryChanges(q)
    \/ LoadMore
    \/ \E r \in Content : AskChange("star", r) \/ AskChange("delete", r) \/ SelectEntry(r)

BeginsLoad ==
    \E by \in {"other", "refresh"} :
      BeginLoad(by, query) /\ LoadRest /\ notices' \in BOOLEAN /\ timer' \in BOOLEAN

ListMove ==
    \/ OthersMove \/ BeginsLoad \/ Killed
    \/ (UserMoves \/ \E c \in Call : CallMoves(c)) /\ NothingNewIsHidden

LEMMA OthersSafe ==
    ASSUME ListInv, OthersMove
    PROVE  ListInv'
  <1>1. /\ UNCHANGED <<query, shown, selected, loading, loadingMore, hasMore, nextOffset, timer,
                       shownFor, failed>>
        /\ notices' \in BOOLEAN /\ listening' \in BOOLEAN
        /\ db' \in Seq(Content) /\ IsInjective(db') /\ star' \subseteq Range(db')
    BY DEF OthersMove, Frontend
  <1>2. SelectionInv'
    BY <1>1 DEF ListInv, SelectionInv
  <1>3. CASE UNCHANGED <<calls, raced>>
    <2>1. ListTypes'
      BY <1>1, <1>3 DEF ListInv, ListTypes
    <2>2. CallsInv'
      BY <1>1, <1>3 DEF ListInv, CallsInv, PageEnds, CurrentCall
    <2> QED
      BY <1>2, <2>1, <2>2 DEF ListInv
  <1>4. CASE Unheard
    <2>1. /\ raced' = TRUE /\ calls' \in [Call -> CallState]
          /\ \A d \in Call :
               /\ calls'[d].kind = calls[d].kind /\ calls'[d].fresh = calls[d].fresh
               /\ calls'[d].q = calls[d].q /\ calls'[d].offset = calls[d].offset
               /\ calls'[d].answer = calls[d].answer
      BY <1>4, UnheardFacts DEF ListInv
    <2>2. ListTypes'
      BY <1>1, <2>1 DEF ListInv, ListTypes
    <2>3. \A d \in Call : calls'[d].fresh => PageEnds(calls'[d])
      BY <2>1 DEF ListInv, CallsInv, PageEnds
    <2>4. nextOffset \in Nat /\ nextOffset' = nextOffset
      BY <1>1, ContentFinite DEF ListInv, ListTypes
    <2>5. CallsInv'
      BY <1>1, <2>1, <2>3, <2>4, CallsKept
    <2> QED
      BY <1>2, <2>2, <2>5 DEF ListInv
  <1> QED
    BY <1>3, <1>4 DEF OthersMove

\* Others ask for nothing.
LEMMA OthersByRefresh ==
    ASSUME ListTypes, OthersMove
    PROVE  ByRefresh' = ByRefresh
  <1>1. CASE calls' = calls
    BY <1>1 DEF ByRefresh
  <1>2. CASE Unheard
    BY <1>2, UnheardFacts DEF ByRefresh
  <1> QED
    BY <1>1, <1>2 DEF OthersMove

LEMMA ListMoveSafe ==
    ASSUME ListInv, ListMove
    PROVE  ListInv'
  <1>1. CASE OthersMove
    BY <1>1, OthersSafe
  <1>2. CASE BeginsLoad
    BY <1>2, BeginLoadSafe DEF BeginsLoad
  <1>3. CASE Killed
    BY <1>3, KilledEmptiesList
  <1>4. CASE UserMoves
    BY <1>4, QueryChangesSafe, LoadMoreSafe, AskChangeSafe, SelectEntrySafe DEF UserMoves
  <1>5. ASSUME NEW c \in Call, CallMoves(c)
        PROVE  ListInv'
    BY <1>5, ServeQuerySafe, ServeStarSafe, ServeDeleteSafe, LoadAnsweredSafe, LoadFailsSafe,
       MoreAnsweredSafe, MoreFailsSafe, ChangeAnsweredSafe, ChangeFailsSafe DEF CallMoves
  <1> QED
    BY <1>1, <1>2, <1>3, <1>4, <1>5 DEF ListMove

\* Without a row that is new, a step only has to leave alone what announces
\* one.
LEMMA StillQuiet ==
    ASSUME mounted' => mounted, notices' \/ ~notices,
           "pulled" \in Range(sync) => "pulled" \in Range(sync') \/ notices',
           UNCHANGED importer
    PROVE  NothingNewIsHidden
  BY DEF NothingNewIsHidden, Quiet

\* Rows of which clipboard-updated tells at once, or nothing does.
LEMMA RowsMove ==
    ASSUME ListTypes, Frontend, UNCHANGED listening, mounted' => mounted,
           Emit \/ (Unheard /\ UNCHANGED notices),
           db' \in Seq(Content), IsInjective(db'), star' \subseteq Range(db')
    PROVE  OthersMove
  <1>1. notices' \in BOOLEAN /\ listening' \in BOOLEAN
    BY DEF ListTypes, Emit
  <1>2. (UNCHANGED <<calls, raced>> /\ notices') \/ Unheard
    BY DEF Emit
  <1>3. notices' => ~Quiet'
    BY DEF Quiet
  <1> QED
    BY <1>1, <1>2, <1>3 DEF OthersMove

LEMMA ImportMovesList ==
    ASSUME ShareInv, ListTypes, NEW m \in Importer, NEW s, Goes(m, s),
           UNCHANGED <<sync, mounted, notices>>, ListRest,
           db' \in Seq(Content), IsInjective(db'), star' \subseteq Range(db'),
           \/ s.at = "announce" \/ (s.at = "unlink" /\ s.new)
           \/ /\ db' = db /\ importer[m].at # "announce"
              /\ importer[m].at # "unlink" \/ ~importer[m].new
    PROVE  OthersMove
  <1>1. importer'[m] = s /\ \A n \in Importer : n # m => importer'[n] = importer[n]
    BY DEF Goes, ShareInv
  <1>2. /\ Frontend /\ notices' \in BOOLEAN /\ listening' \in BOOLEAN /\ (mounted' => mounted)
        /\ UNCHANGED <<calls, raced, star>>
    BY DEF ListRest, ListTypes
  <1>3. CASE s.at = "announce" \/ (s.at = "unlink" /\ s.new)
    <2>1. ~Quiet'
      BY <1>1, <1>3 DEF Quiet
    <2> QED
      BY <1>2, <2>1 DEF OthersMove
  <1>4. CASE /\ db' = db /\ importer[m].at # "announce"
             /\ importer[m].at # "unlink" \/ ~importer[m].new
    <2>1. Quiet' => Quiet
      BY <1>1, <1>4 DEF Quiet
    <2> QED
      BY <1>2, <1>4, <2>1 DEF OthersMove
  <1> QED
    BY <1>3, <1>4

LEMMA ItemContent ==
    ASSUME ShareInv, NEW m \in Importer, AtItem(m)
    PROVE  Item(m).content \in Content
  <1>1. /\ importer[m].b \in Batch /\ importer[m].i \in Nat /\ importer[m].i # 0
        /\ importer[m].i <= Len(Items[importer[m].b])
    BY ItemType DEF AtItem
  <1>2. importer[m].i \in DOMAIN Items[importer[m].b]
    BY <1>1, ItemsAreSequences
  <1> QED
    BY <1>1, <1>2, ItemsAreSequences DEF Item

\* The items that are stored, and what the list sees of it.
LEMMA InsertionMoves ==
    ASSUME ShareInv, ListTypes, StoreTypes, NEW m \in Importer, UNCHANGED <<sync, mounted>>,
           ImportText(m) \/ ImportFile(m)
    PROVE  OthersMove /\ StoreTypes'
  <1> DEFINE x == Item(m).content
  <1>1. /\ AtItem(m) /\ importer[m].at = "item" /\ Frontend
        /\ UNCHANGED <<star, listening, notices, files>>
        /\ db' = Inserted(x) /\ everStored' = everStored \cup {x}
        /\ IF New(m) \/ db' = db THEN UNCHANGED <<calls, raced>> ELSE Unheard
    BY DEF ImportText, ImportFile, AtItem, Insert
  <1>2. x \in Content
    BY <1>1, ItemContent
  <1>3. StoreTypes'
    BY <1>1, <1>2 DEF StoreTypes
  <1>4. importer[m] \in ImportState
    BY StepType
  <1> HIDE DEF x
  <1>5. db' \in Seq(Content) /\ IsInjective(db') /\ star' \subseteq Range(db')
    BY <1>1, <1>2, InsertedFacts DEF ListTypes
  <1>6. CASE New(m)
    <2>1. ListRest
      BY <1>1, <1>6 DEF ListRest
    <2>2. CASE ImportText(m)
      <3> DEFINE s == [importer[m] EXCEPT !.at = "announce"]
      <3>1. Goes(m, s)
        BY <1>6, <2>2 DEF ImportText
      <3>2. s.at = "announce"
        BY <1>4 DEF ImportState
      <3> HIDE DEF s
      <3> QED
        BY <1>1, <1>3, <1>5, <2>1, <3>1, <3>2, ImportMovesList
    <2>3. CASE ImportFile(m)
      <3> DEFINE s == [importer[m] EXCEPT !.at = "unlink", !.new = New(m)]
      <3>1. Goes(m, s)
        BY <2>3 DEF ImportFile
      <3>2. s.at = "unlink" /\ s.new
        BY <1>4, <1>6 DEF ImportState
      <3> HIDE DEF s
      <3> QED
        BY <1>1, <1>3, <1>5, <2>1, <3>1, <3>2, ImportMovesList
    <2> QED
      BY <2>2, <2>3
  <1>7. CASE ~New(m) /\ db' = db
    <2>1. ListRest
      BY <1>1, <1>7 DEF ListRest
    <2>2. PICK s : Goes(m, s)
      BY DEF ImportText, ImportFile
    <2> QED
      BY <1>1, <1>3, <1>5, <1>7, <2>1, <2>2, ImportMovesList
  <1>8. CASE ~New(m) /\ db' # db
    <2>1. Unheard
      BY <1>1, <1>8
    <2> QED
      BY <1>1, <1>3, <1>5, <2>1, RowsMove
  <1> QED
    BY <1>6, <1>7, <1>8

LEMMA UnlinkMoves ==
    ASSUME ShareInv, ListTypes, StoreTypes, NEW m \in Importer, UNCHANGED <<sync, mounted>>,
           UnlinkFile(m)
    PROVE  OthersMove /\ StoreTypes'
  <1>1. importer[m] \in ImportState /\ importer[m].at = "unlink" /\ importer[m].new \in BOOLEAN
    BY StepType DEF UnlinkFile, ImportState
  <1>2. /\ ListRest /\ UNCHANGED <<db, notices, everStored>> /\ files' \subseteq files
        /\ db' \in Seq(Content) /\ IsInjective(db') /\ star' \subseteq Range(db')
    BY DEF UnlinkFile, ListRest, ListTypes
  <1>3. StoreTypes'
    BY <1>2 DEF StoreTypes
  <1>4. CASE importer[m].new
    <2> DEFINE s == [importer[m] EXCEPT !.at = "announce", !.new = FALSE]
    <2>1. Goes(m, s)
      BY <1>4 DEF UnlinkFile
    <2>2. s.at = "announce"
      BY <1>1 DEF ImportState
    <2> HIDE DEF s
    <2> QED
      BY <1>2, <1>3, <2>1, <2>2, ImportMovesList
  <1>5. CASE ~importer[m].new
    <2>1. PICK s : Goes(m, s)
      BY DEF UnlinkFile
    <2> QED
      BY <1>1, <1>2, <1>3, <1>5, <2>1, ImportMovesList
  <1> QED
    BY <1>1, <1>4, <1>5

LEMMA OtherImportSteps ==
    ASSUME ShareInv, ListTypes, StoreTypes, NEW m \in Importer, UNCHANGED <<sync, mounted>>,
           \/ PickBatch(m) \/ SkipItem(m) \/ FileUnusable(m) \/ FileGone(m) \/ CloseBatch(m)
           \/ PickFails(m) \/ ItemFails(m) \/ CloseFails(m) \/ Announce(m) \/ EndImport(m)
    PROVE  OthersMove /\ StoreTypes'
  <1>1. /\ Frontend /\ UNCHANGED <<db, star, listening, everStored>> /\ files' \subseteq files
        /\ \E s : Goes(m, s)
    BY DEF PickBatch, SkipItem, FileUnusable, FileGone, CloseBatch, PickFails, ItemFails, CloseFails,
       Announce, EndImport, ListRest
  <1>2. PICK s : Goes(m, s)
    BY <1>1
  <1>3. StoreTypes' /\ db' \in Seq(Content) /\ IsInjective(db') /\ star' \subseteq Range(db')
    BY <1>1 DEF StoreTypes, ListTypes
  <1>4. CASE Emit
    BY <1>1, <1>3, <1>4, RowsMove
  <1>5. CASE ~Emit
    <2>1. UNCHANGED <<notices, calls, raced>> /\ importer[m].at # "announce" /\ importer[m].at # "unlink"
      BY <1>5 DEF PickBatch, SkipItem, FileUnusable, FileGone, CloseBatch, AtItem,
         PickFails, ItemFails, CloseFails, Announce, EndImport, ListRest
    <2>2. ListRest
      BY <1>1, <2>1 DEF ListRest
    <2> QED
      BY <1>1, <1>2, <1>3, <2>1, <2>2, ImportMovesList
  <1> QED
    BY <1>4, <1>5

-----------------------------------------------------------------------------
(* One lemma per step of the application                                   *)

MobileInv == ListInv /\ ShareInv /\ AppInv

LEMMA RefreshStates ==
    /\ NoRefresh \in RefreshState /\ NoRefresh.at = "idle"
    /\ \A step \in RefreshStep :
         LET r == [NoRefresh EXCEPT !.at = step] IN r \in RefreshState /\ r.at = step
  BY DEF NoRefresh, RefreshState, RefreshStep

\* The refresh goes on to the capture, or to the synchronisation.
LEMMA GoOn ==
    ASSUME AppTypes, refresh.at # "sync", RefreshInv,
           GoOnToCapture \/ (GoOnToSync /\ capture' \subseteq Waited \ {"awaited"}),
           ByRefresh' = {}, UNCHANGED mounted, mounted, allowed' \in [EventClass -> Nat]
    PROVE  /\ AppTypes' /\ RefreshInv'
           /\ "pulled" \in Range(sync) => "pulled" \in Range(sync')
  <1>0. "awaited" \in Waited /\ "awaited" \in Puller /\ "asked" \in SyncStep
        /\ sync["awaited"] = "none" /\ DOMAIN sync = Puller /\ DOMAIN sync' = Puller
    BY DEF Waited, Puller, SyncStep, AppTypes, RefreshInv, GoOnToCapture, GoOnToSync
  <1>1. CASE GoOnToCapture
    <2>1. refresh' \in RefreshState /\ refresh'.at = "capture"
      BY <1>1, RefreshStates DEF GoOnToCapture, RefreshGoes, RefreshStep
    <2> QED
      BY <1>0, <1>1, <2>1 DEF GoOnToCapture, AppTypes, RefreshInv
  <1>2. CASE GoOnToSync /\ capture' \subseteq Waited \ {"awaited"}
    <2>1. refresh' \in RefreshState /\ refresh'.at = "sync"
      BY <1>2, RefreshStates DEF GoOnToSync, RefreshGoes, RefreshStep
    <2>2. /\ sync' = [sync EXCEPT !["awaited"] = "asked"] /\ status' = "checking"
          /\ watchdog' = TRUE /\ capture' \subseteq Waited /\ "awaited" \notin capture'
      BY <1>2 DEF GoOnToSync
    <2>3. AppTypes' /\ RefreshInv'
      BY <1>0, <2>1, <2>2 DEF AppTypes, RefreshInv
    <2>4. "pulled" \in Range(sync) => "pulled" \in Range(sync')
      <3>1. \A w \in Puller : sync[w] = "pulled" => sync'[w] = "pulled"
        BY <1>0, <2>2 DEF AppTypes
      <3> QED
        BY <1>0, <3>1 DEF Range
    <2> QED
      BY <2>3, <2>4
  <1> QED
    BY <1>1, <1>2

\* The refresh goes to another step.
LEMMA GoesTo ==
    ASSUME AppTypes, RefreshInv, NEW step \in RefreshStep, RefreshGoes(step),
           ByRefresh' = {}, mounted' \in BOOLEAN, ~mounted' => step = "idle",
           status' \in {"checking", "settled"}, watchdog' \in BOOLEAN,
           allowed' \in [EventClass -> Nat], capture' \subseteq Waited \ {"awaited"},
           sync' \in [Puller -> SyncStep], sync'["awaited"] = "none"
    PROVE  AppTypes' /\ RefreshInv'
  <1>1. refresh' \in RefreshState /\ refresh'.at = step
    BY RefreshStates DEF RefreshGoes
  <1> QED
    BY <1>1 DEF AppTypes, RefreshInv

LEMMA EventSpent ==
    ASSUME AppTypes, NEW c \in EventClass, Event(c)
    PROVE  allowed' \in [EventClass -> Nat]
  BY DEF AppTypes, Event

\* A call of the refresh that is over, or none.
LEMMA CallsByRefresh ==
    ASSUME ListTypes, NEW c \in Call, calls' = [calls EXCEPT ![c] = NoCall]
    PROVE  ByRefresh' = ByRefresh \ {c}
  <1>1. calls'[c].by = "other" /\ \A d \in Call : d # c => calls'[d] = calls[d]
    BY NoCallFacts DEF ListTypes
  <1> QED
    BY <1>1 DEF ByRefresh

\* A step that leaves the refresh and what it awaits alone.
LEMMA RefreshKept ==
    ASSUME AppTypes, RefreshInv, UNCHANGED <<mounted, refresh, capture, sync>>,
           ByRefresh' \subseteq ByRefresh,
           status' \in {"checking", "settled"}, watchdog' \in BOOLEAN,
           allowed' \in [EventClass -> Nat]
    PROVE  AppTypes' /\ RefreshInv'
  BY DEF AppTypes, RefreshInv

\* The steps of the list ask for nothing in the name of the refresh.
LEMMA NoCallByRefresh ==
    ASSUME ListTypes, UserMoves \/ \E c \in Call : CallMoves(c)
    PROVE  ByRefresh' \subseteq ByRefresh
  <1>0. \A d \in Call : calls[d] \in CallState
    BY DEF ListTypes
  <1>1. CASE \E q \in Query : QueryChanges(q)
    BY <1>1, OutdatedFacts DEF QueryChanges, ByRefresh
  <1>2. CASE LoadMore
    BY <1>2, LoadMoreFacts DEF ByRefresh
  <1>3. ASSUME NEW kind \in {"star", "delete"}, NEW r \in Content, AskChange(kind, r)
        PROVE  ByRefresh' \subseteq ByRefresh
    BY <1>3, AskChangeFacts DEF ByRefresh
  <1>4. CASE \E r \in Content : SelectEntry(r)
    BY <1>4 DEF SelectEntry, ByRefresh
  <1>5. ASSUME NEW c \in Call, calls' = [calls EXCEPT ![c] = NoCall]
        PROVE  ByRefresh' \subseteq ByRefresh
    BY <1>5, CallsByRefresh
  <1>6. ASSUME NEW c \in Call, NEW s, s.by = calls[c].by, calls' = [calls EXCEPT ![c] = s]
        PROVE  ByRefresh' \subseteq ByRefresh
    <2>1. calls'[c].by = calls[c].by /\ \A d \in Call : d # c => calls'[d] = calls[d]
      BY <1>6 DEF ListTypes
    <2> QED
      BY <2>1 DEF ByRefresh
  <1>7. ASSUME NEW c \in Call, ServeQuery(c)
        PROVE  ByRefresh' \subseteq ByRefresh
    <2> DEFINE a == Page(calls[c].q, calls[c].offset)
               s == [calls[c] EXCEPT !.done = TRUE, !.answer = a]
    <2>1. calls' = [calls EXCEPT ![c] = s]
      BY <1>0, <1>7 DEF ServeQuery
    <2> HIDE DEF a
    <2>2. s.by = calls[c].by
      BY <1>0 DEF CallState
    <2> HIDE DEF s
    <2> QED
      BY <1>6, <2>1, <2>2
  <1>8. ASSUME NEW c \in Call, ServeStar(c)
        PROVE  ByRefresh' \subseteq ByRefresh
    <2> DEFINE a == IF calls[c].row \in star THEN <<>> ELSE <<calls[c].row>>
               s == [calls[c] EXCEPT !.done = TRUE, !.answer = a]
    <2>1. calls' = [calls EXCEPT ![c] = s] \/ calls' = [calls EXCEPT ![c] = NoCall]
      BY <1>0, <1>8 DEF ServeStar
    <2> HIDE DEF a
    <2>2. s.by = calls[c].by
      BY <1>0 DEF CallState
    <2> HIDE DEF s
    <2> QED
      BY <1>5, <1>6, <2>1, <2>2
  <1>9. ASSUME NEW c \in Call, ServeDelete(c)
        PROVE  ByRefresh' \subseteq ByRefresh
    <2> DEFINE s == [calls[c] EXCEPT !.done = TRUE]
    <2>1. calls' = [calls EXCEPT ![c] = s]
      BY <1>0, <1>9 DEF ServeDelete
    <2>2. s.by = calls[c].by
      BY <1>0 DEF CallState
    <2> HIDE DEF s
    <2> QED
      BY <1>6, <2>1, <2>2
  <1>10. ASSUME NEW c \in Call, CallMoves(c)
         PROVE  ByRefresh' \subseteq ByRefresh
    BY <1>5, <1>7, <1>8, <1>9, <1>10 DEF CallMoves, LoadAnswered, LoadFails, MoreAnswered, MoreFails,
       ChangeAnswered, ChangeFails
  <1> QED
    BY <1>1, <1>2, <1>3, <1>4, <1>10 DEF UserMoves

\* A load that is begun in somebody's name.
LEMMA LoadBegins ==
    ASSUME ListTypes, NEW by \in {"other", "refresh"}, BeginLoad(by, query)
    PROVE  \E c \in Call : ByRefresh' = (ByRefresh \ {c}) \cup (IF by = "refresh" THEN {c} ELSE {})
  <1>1. PICK c \in Call : \E s \in CallState :
             /\ calls[c] = NoCall /\ calls' = [Outdated EXCEPT ![c] = s]
             /\ PageEnds(s) /\ s.fresh /\ s.q = query /\ s.kind = "load" /\ s.offset = 0
             /\ s.by = by /\ s.raced = (Changes # {}) /\ ~s.done
             /\ calls' \in [Call -> CallState] /\ calls'[c] = s
             /\ \A d \in Call : d # c => calls'[d] = Outdated[d]
    BY BeginLoadFacts
  <1>2. calls'[c].by = by /\ \A d \in Call : d # c => calls'[d].by = calls[d].by
    BY <1>1, OutdatedFacts
  <1>3. ByRefresh' = (ByRefresh \ {c}) \cup (IF by = "refresh" THEN {c} ELSE {})
    BY <1>2 DEF ByRefresh
  <1> QED
    BY <1>3

LEMMA ListAsItWas ==
    ASSUME ListTypes, UNCHANGED <<listVars, importer>>, mounted' => mounted,
           "pulled" \in Range(sync) => "pulled" \in Range(sync')
    PROVE  OthersMove /\ ByRefresh' = ByRefresh
  <1>1. /\ Frontend /\ UNCHANGED <<db, star, listening, notices, calls, raced>>
        /\ ByRefresh' = ByRefresh
    BY DEF listVars, Frontend, ByRefresh
  <1>2. Quiet' => Quiet
    BY <1>1, StillQuiet DEF NothingNewIsHidden
  <1> QED
    BY <1>1, <1>2 DEF OthersMove, ListTypes

LEMMA NotAwaited ==
    ASSUME AppTypes, RefreshInv, refresh.at \notin LoadStep
    PROVE  ByRefresh = {} /\ (refresh.at # "sync" => sync["awaited"] = "none")
           /\ (refresh.at # "capture" => capture \subseteq Waited \ {"awaited"})
  BY DEF AppTypes, RefreshInv

LEMMA MountMoves ==
    ASSUME MobileInv, Mount
    PROVE  ListMove /\ AppInv'
  <1>1. BeginLoad("other", query) /\ LoadRest /\ UNCHANGED <<notices, timer>>
        /\ mounted' = TRUE /\ ~mounted /\ RefreshGoes("config")
        /\ UNCHANGED <<files, everStored, capture, sync, status, watchdog, allowed>>
    BY DEF Mount, LoadEntries, RefreshGoes, shareVars
  <1>2. BeginsLoad
    BY <1>1 DEF BeginsLoad, MobileInv, ListInv, ListTypes
  <1>3. refresh.at = "idle" /\ refresh.at \notin LoadStep
    BY <1>1 DEF MobileInv, AppInv, RefreshInv, LoadStep
  <1>4. ByRefresh = {} /\ sync["awaited"] = "none" /\ capture \subseteq Waited \ {"awaited"}
    BY <1>3, NotAwaited DEF MobileInv, AppInv
  <1>5. ByRefresh' = {}
    BY <1>1, <1>4, LoadBegins DEF MobileInv, ListInv
  <1>6. AppTypes' /\ RefreshInv'
    BY <1>1, <1>4, <1>5, GoesTo DEF MobileInv, AppInv, AppTypes, RefreshStep
  <1>7. StoreTypes'
    BY <1>1 DEF MobileInv, AppInv, StoreTypes
  <1> QED
    BY <1>2, <1>6, <1>7 DEF ListMove, AppInv

LEMMA ResumeMoves ==
    ASSUME MobileInv, Resume
    PROVE  ListMove /\ AppInv'
  <1>1. /\ mounted /\ RefreshGoes("config") /\ refresh.at = "idle" /\ Event("resume")
        /\ UNCHANGED <<listVars, importer, files, everStored, mounted, capture, sync, status, watchdog>>
    BY DEF Resume, RefreshGoes, shareVars
  <1>2. OthersMove /\ ByRefresh' = ByRefresh
    BY <1>1, ListAsItWas DEF MobileInv, ListInv
  <1>3. ByRefresh = {} /\ sync["awaited"] = "none" /\ capture \subseteq Waited \ {"awaited"}
    BY <1>1, NotAwaited DEF MobileInv, AppInv, LoadStep
  <1>4. allowed' \in [EventClass -> Nat]
    BY <1>1, EventSpent DEF MobileInv, AppInv, EventClass
  <1>5. AppTypes' /\ RefreshInv'
    BY <1>1, <1>2, <1>3, <1>4, GoesTo DEF MobileInv, AppInv, AppTypes, RefreshStep
  <1> QED
    BY <1>1, <1>2, <1>5 DEF MobileInv, ListMove, AppInv, StoreTypes

LEMMA KilledMoves ==
    ASSUME MobileInv, Killed
    PROVE  ListMove /\ AppInv'
  <1>1. /\ mounted' = FALSE /\ refresh' = NoRefresh /\ capture' = {}
        /\ sync' = [w \in Puller |-> "none"] /\ status' = "checking" /\ watchdog' = FALSE
        /\ calls' = [c \in Call |-> NoCall] /\ Event("fault") /\ UNCHANGED <<files, everStored>>
    BY DEF Killed
  <1>2. allowed' \in [EventClass -> Nat]
    BY <1>1, EventSpent DEF MobileInv, AppInv, EventClass
  <1>3. ByRefresh' = {}
    BY <1>1, NoCallFacts DEF ByRefresh
  <1>4. AppTypes' /\ RefreshInv'
    BY <1>1, <1>2, <1>3, RefreshStates DEF AppTypes, RefreshInv, Waited, Puller, SyncStep
  <1> QED
    BY <1>1, <1>4 DEF MobileInv, ListMove, AppInv, StoreTypes

LEMMA ConfigReadMoves ==
    ASSUME MobileInv, ConfigRead
    PROVE  ListMove /\ AppInv'
  <1>1. /\ RefreshGoes("shares") /\ refresh.at = "config" /\ status' = "checking" /\ watchdog' = TRUE
        /\ UNCHANGED <<listVars, importer, files, everStored, mounted, capture, sync, allowed>>
    BY DEF ConfigRead, shareVars
  <1>2. OthersMove /\ ByRefresh' = ByRefresh
    BY <1>1, ListAsItWas DEF MobileInv, ListInv
  <1>3. ByRefresh = {} /\ sync["awaited"] = "none" /\ capture \subseteq Waited \ {"awaited"} /\ mounted
    BY <1>1, NotAwaited DEF MobileInv, AppInv, LoadStep, RefreshInv
  <1>4. AppTypes' /\ RefreshInv'
    BY <1>1, <1>2, <1>3, GoesTo DEF MobileInv, AppInv, AppTypes, RefreshStep
  <1> QED
    BY <1>1, <1>2, <1>4 DEF MobileInv, ListMove, AppInv, StoreTypes

LEMMA SharesCheckedMoves ==
    ASSUME MobileInv, SharesChecked
    PROVE  ListMove /\ AppInv'
  <1>1. refresh.at = "shares" /\ UNCHANGED <<listVars, files, everStored, mounted, allowed>>
    BY DEF SharesChecked
  <1>2. ByRefresh = {} /\ sync["awaited"] = "none" /\ capture \subseteq Waited \ {"awaited"} /\ mounted
    BY <1>1, NotAwaited DEF MobileInv, AppInv, LoadStep, RefreshInv
  <1>3. ASSUME NEW m \in Importer, BeginImport(m),
               refresh' = [NoRefresh EXCEPT !.at = "import", !.m = {m}],
               UNCHANGED <<capture, sync, status, watchdog>>
        PROVE  ListMove /\ AppInv'
    <2> DEFINE r == [NoRefresh EXCEPT !.at = "import", !.m = {m}]
    <2>1. r \in RefreshState /\ r.at = "import"
      BY DEF NoRefresh, RefreshState, RefreshStep
    <2> HIDE DEF r
    <2>2. AppTypes'
      BY <1>1, <1>3, <2>1 DEF MobileInv, AppInv, AppTypes, r
    <2>3. ByRefresh' = {}
      BY <1>1, <1>2 DEF ByRefresh, listVars
    <2>4. RefreshInv'
      BY <1>1, <1>2, <1>3, <2>1, <2>3 DEF RefreshInv, r
    <2>5. PICK s : Goes(m, s)
      BY <1>3 DEF BeginImport
    <2>6. importer[m].at # "announce" /\ importer[m].at # "unlink"
      BY <1>3 DEF BeginImport, NoImport
    <2>7. ListRest /\ UNCHANGED <<db, star, notices>>
      BY <1>1 DEF ListRest, Frontend, listVars
    <2>8. OthersMove
      BY <1>1, <1>3, <2>5, <2>6, <2>7, ImportMovesList DEF MobileInv, ListInv, ListTypes
    <2> QED
      BY <1>1, <2>2, <2>4, <2>8 DEF MobileInv, ListMove, AppInv, StoreTypes
  <1>4. ASSUME GoOnToCapture, UNCHANGED importer
        PROVE  ListMove /\ AppInv'
    <2>1. ByRefresh' = {}
      BY <1>1, <1>2 DEF ByRefresh, listVars
    <2>2. AppTypes' /\ RefreshInv' /\ ("pulled" \in Range(sync) => "pulled" \in Range(sync'))
      BY <1>1, <1>2, <1>4, <2>1, GoOn DEF MobileInv, AppInv, AppTypes
    <2>3. OthersMove
      BY <1>1, <1>4, <2>2, ListAsItWas DEF MobileInv, ListInv
    <2> QED
      BY <1>1, <2>2, <2>3 DEF MobileInv, ListMove, AppInv, StoreTypes
  <1> QED
    BY <1>3, <1>4 DEF SharesChecked

LEMMA ImportAnsweredMoves ==
    ASSUME MobileInv, NEW m \in Importer, ImportAnswered(m)
    PROVE  ListMove /\ AppInv'
  <1>1. EndImport(m) /\ UNCHANGED <<mounted, allowed>>
    BY DEF ImportAnswered
  <1>2. ASSUME OthersMove
        PROVE  ByRefresh' = ByRefresh
    BY <1>2, OthersByRefresh DEF MobileInv, ListInv
  <1>3. CASE Stays
    <2>1. OthersMove /\ StoreTypes'
      BY <1>1, <1>3, OtherImportSteps DEF Stays, MobileInv, ListInv, AppInv
    <2>2. AppTypes' /\ RefreshInv'
      BY <1>1, <1>2, <1>3, <2>1, RefreshKept DEF Stays, MobileInv, AppInv, AppTypes
    <2> QED
      BY <2>1, <2>2 DEF ListMove, AppInv
  <1>4. ASSUME refresh.at = "import", RefreshGoes("importLoad") /\ UNCHANGED <<capture, sync, status, watchdog>>
        PROVE  ListMove /\ AppInv'
    <2>1. OthersMove /\ StoreTypes'
      BY <1>1, <1>4, OtherImportSteps DEF MobileInv, ListInv, AppInv
    <2>2. ByRefresh = {} /\ sync["awaited"] = "none" /\ capture \subseteq Waited \ {"awaited"} /\ mounted
      BY <1>4, NotAwaited DEF MobileInv, AppInv, LoadStep, RefreshInv
    <2>3. AppTypes' /\ RefreshInv'
      BY <1>1, <1>2, <1>4, <2>1, <2>2, GoesTo DEF MobileInv, AppInv, AppTypes, RefreshStep
    <2> QED
      BY <2>1, <2>3 DEF ListMove, AppInv
  <1>5. ASSUME refresh.at = "import", GoOnToCapture
        PROVE  ListMove /\ AppInv'
    <2>1. OthersMove /\ StoreTypes'
      BY <1>1, <1>5, OtherImportSteps DEF GoOnToCapture, MobileInv, ListInv, AppInv
    <2>2. ByRefresh = {} /\ mounted
      BY <1>5, NotAwaited DEF MobileInv, AppInv, LoadStep, RefreshInv
    <2>3. AppTypes' /\ RefreshInv'
      BY <1>1, <1>2, <1>5, <2>1, <2>2, GoOn DEF MobileInv, AppInv, AppTypes
    <2> QED
      BY <2>1, <2>3 DEF ListMove, AppInv
  <1> QED
    BY <1>3, <1>4, <1>5 DEF ImportAnswered

LEMMA RefreshLoadsMoves ==
    ASSUME MobileInv, RefreshLoads
    PROVE  ListMove /\ AppInv'
  <1>1. /\ refresh.at \in LoadStep /\ ~refresh.load /\ refresh' = [refresh EXCEPT !.load = TRUE]
        /\ BeginLoad("refresh", query) /\ LoadRest
        /\ UNCHANGED <<notices, timer, files, everStored, mounted, capture, sync, status, watchdog, allowed>>
    BY DEF RefreshLoads, LoadEntries, shareVars
  <1>2. BeginsLoad
    BY <1>1 DEF BeginsLoad, MobileInv, ListInv, ListTypes
  <1>3. ByRefresh = {} /\ mounted
    BY <1>1 DEF MobileInv, AppInv, RefreshInv, LoadStep
  <1>4. PICK c \in Call : ByRefresh' = {c}
    <2>1. PICK c \in Call : ByRefresh' = (ByRefresh \ {c}) \cup {c}
      BY <1>1, LoadBegins DEF MobileInv, ListInv
    <2> QED
      BY <1>3, <2>1
  <1>5. refresh' \in RefreshState /\ refresh'.at = refresh.at /\ refresh'.load
    BY <1>1 DEF MobileInv, AppInv, AppTypes, RefreshState
  <1>6. AppTypes' /\ RefreshInv'
    BY <1>1, <1>3, <1>4, <1>5 DEF MobileInv, AppInv, AppTypes, RefreshInv
  <1> QED
    BY <1>1, <1>2, <1>6 DEF MobileInv, ListMove, AppInv, StoreTypes

\* The refresh goes on when its load has ended.
LEMMA ReturnedMoves ==
    ASSUME MobileInv, NEW c \in Call, LoadAnswered(c) \/ LoadFails(c), Returned(c),
           UNCHANGED <<shareVars, mounted>>, allowed' \in [EventClass -> Nat]
    PROVE  ListMove /\ AppInv'
  <1>1. calls' = [calls EXCEPT ![c] = NoCall] /\ notices' = notices
    BY DEF LoadAnswered, LoadFails
  <1>2. ByRefresh' = ByRefresh \ {c} /\ CallMoves(c)
    BY <1>1, CallsByRefresh DEF MobileInv, ListInv, CallMoves
  <1>3. StoreTypes' /\ UNCHANGED importer /\ notices' \in BOOLEAN
    BY <1>1 DEF MobileInv, AppInv, StoreTypes, shareVars, ListInv, ListTypes
  <1>4. ASSUME AppTypes', RefreshInv', "pulled" \in Range(sync) => "pulled" \in Range(sync')
        PROVE  ListMove /\ AppInv'
    <2>1. NothingNewIsHidden
      BY <1>1, <1>3, <1>4, StillQuiet
    <2> QED
      BY <1>2, <1>3, <1>4, <2>1 DEF ListMove, AppInv
  <1>5. CASE calls[c].by # "refresh"
    <2>1. UNCHANGED <<refresh, capture, sync, status, watchdog>>
      BY <1>5 DEF Returned, Stays
    <2>2. AppTypes' /\ RefreshInv'
      BY <1>2, <2>1, RefreshKept DEF MobileInv, AppInv, AppTypes
    <2> QED
      BY <1>4, <2>1, <2>2
  <1>6. CASE calls[c].by = "refresh"
    <2>1. c \in ByRefresh /\ refresh.at \in LoadStep
      BY <1>6 DEF ByRefresh, MobileInv, AppInv, RefreshInv
    <2>2. ByRefresh' = {}
      BY <1>2, <2>1 DEF MobileInv, AppInv, RefreshInv
    <2>3. /\ mounted /\ sync["awaited"] = "none" /\ capture \subseteq Waited \ {"awaited"}
          /\ refresh.at # "sync"
      BY <2>1 DEF MobileInv, AppInv, AppTypes, RefreshInv, LoadStep
    <2>4. CASE refresh.at = "importLoad"
      <3>1. GoOnToCapture
        BY <1>6, <2>4 DEF Returned
      <3>2. AppTypes' /\ RefreshInv' /\ ("pulled" \in Range(sync) => "pulled" \in Range(sync'))
        BY <2>2, <2>3, <3>1, GoOn DEF MobileInv, AppInv
      <3> QED
        BY <1>4, <3>2
    <2>5. CASE refresh.at = "captureLoad"
      <3>1. GoOnToSync /\ capture' \subseteq Waited \ {"awaited"}
        BY <1>6, <2>3, <2>5 DEF Returned
      <3>2. AppTypes' /\ RefreshInv' /\ ("pulled" \in Range(sync) => "pulled" \in Range(sync'))
        BY <2>2, <2>3, <3>1, GoOn DEF MobileInv, AppInv
      <3> QED
        BY <1>4, <3>2
    <2>6. CASE refresh.at = "list"
      <3>1. RefreshGoes("idle") /\ UNCHANGED <<capture, sync, status, watchdog>>
        BY <1>6, <2>6 DEF Returned
      <3>2. AppTypes' /\ RefreshInv'
        BY <2>2, <2>3, <3>1, GoesTo DEF MobileInv, AppInv, AppTypes, RefreshStep
      <3> QED
        BY <1>4, <3>1, <3>2
    <2> QED
      BY <2>1, <2>4, <2>5, <2>6 DEF LoadStep
  <1> QED
    BY <1>5, <1>6

LEMMA LoadEnds ==
    ASSUME MobileInv, NEW c \in Call, LoadReturns(c) \/ LoadGivenUp(c)
    PROVE  ListMove /\ AppInv'
  <1>1. allowed' \in [EventClass -> Nat]
    BY EventSpent DEF MobileInv, AppInv, AppTypes, EventClass, LoadReturns, LoadGivenUp
  <1> QED
    BY <1>1, ReturnedMoves DEF LoadReturns, LoadGivenUp

\* What a step of others leaves of the refresh.
LEMMA OthersKeepTypes ==
    ASSUME MobileInv, OthersMove, AppTypes', RefreshInv', StoreTypes'
    PROVE  ListMove /\ AppInv'
  BY DEF ListMove, AppInv

LEMMA CaptureServedMoves ==
    ASSUME MobileInv, NEW w \in Waited, CaptureServed(w)
    PROVE  ListMove /\ AppInv'
  <1>1. /\ Event("outside") /\ w \in capture /\ db' = Inserted(OnBoard)
        /\ everStored' = everStored \cup {OnBoard} /\ capture' = capture \ {w} /\ Frontend
        /\ UNCHANGED <<star, listening, files, importer, mounted>>
    BY DEF CaptureServed
  <1>2. OnBoard \in Content /\ ListTypes
    BY MobileAppAssumption DEF MobileInv, ListInv
  <1>3. StoreTypes'
    BY <1>1, <1>2 DEF MobileInv, AppInv, StoreTypes
  <1>4. allowed' \in [EventClass -> Nat]
    BY <1>1, EventSpent DEF MobileInv, AppInv, EventClass
  <1>5. db' \in Seq(Content) /\ IsInjective(db') /\ star' \subseteq Range(db')
    BY <1>1, <1>2, InsertedFacts DEF ListTypes
  <1>6. ASSUME "pulled" \in Range(sync) => "pulled" \in Range(sync')
        PROVE  OthersMove
    <2>1. CASE Emit \/ (Unheard /\ UNCHANGED notices)
      BY <1>1, <1>2, <1>5, <2>1, RowsMove
    <2>2. CASE db' = db /\ UNCHANGED <<notices, calls, raced>>
      <3>1. Quiet' => Quiet
        BY <1>1, <1>6, <2>2, StillQuiet DEF NothingNewIsHidden
      <3> QED
        BY <1>1, <1>2, <1>5, <2>2, <3>1 DEF OthersMove, ListTypes
    <2> QED
      BY <2>1, <2>2 DEF CaptureServed
  <1>7. ASSUME OthersMove
        PROVE  ByRefresh' = ByRefresh
    BY <1>2, <1>7, OthersByRefresh
  <1>8. CASE w = "awaited"
    <2>1. refresh.at = "capture"
      BY <1>1, <1>8 DEF MobileInv, AppInv, RefreshInv
    <2>2. ByRefresh = {} /\ sync["awaited"] = "none" /\ mounted /\ capture' \subseteq Waited \ {"awaited"}
      BY <1>1, <1>8, <2>1, NotAwaited DEF MobileInv, AppInv, LoadStep, RefreshInv, AppTypes
    <2>3. CASE OnBoard \notin Range(db)
      <3>1. RefreshGoes("captureLoad") /\ UNCHANGED <<sync, status, watchdog>>
        BY <1>8, <2>3 DEF CaptureServed
      <3>2. OthersMove /\ ByRefresh' = {}
        BY <1>6, <1>7, <2>2, <3>1
      <3>3. AppTypes' /\ RefreshInv'
        BY <1>1, <1>4, <2>2, <3>1, <3>2, GoesTo DEF MobileInv, AppInv, AppTypes, RefreshStep
      <3> QED
        BY <1>3, <3>2, <3>3, OthersKeepTypes
    <2>4. CASE OnBoard \in Range(db)
      <3>1. GoOnToSync
        BY <1>8, <2>4 DEF CaptureServed
      <3>2. "pulled" \in Range(sync) => "pulled" \in Range(sync')
        <4>1. sync' = [sync EXCEPT !["awaited"] = "asked"] /\ sync \in [Puller -> SyncStep]
          BY <3>1 DEF GoOnToSync, MobileInv, AppInv, AppTypes
        <4>2. "awaited" \in Puller
          BY DEF Puller, Waited
        <4>3. \A v \in Puller : sync[v] = "pulled" => sync'[v] = "pulled"
          BY <2>2, <4>1, <4>2
        <4> QED
          BY <4>1, <4>3 DEF Range
      <3>3. OthersMove /\ ByRefresh' = {}
        BY <1>6, <1>7, <2>2, <3>2
      <3>4. AppTypes' /\ RefreshInv'
        BY <1>1, <1>4, <2>1, <2>2, <3>1, <3>3, GoOn DEF MobileInv, AppInv
      <3> QED
        BY <1>3, <3>3, <3>4, OthersKeepTypes
    <2> QED
      BY <2>3, <2>4
  <1>9. CASE w # "awaited"
    <2>1. UNCHANGED <<refresh, sync, status, watchdog>>
      BY <1>9 DEF CaptureServed
    <2>2. OthersMove /\ ByRefresh' = ByRefresh
      BY <1>6, <1>7, <2>1
    <2>3. AppTypes' /\ RefreshInv'
      BY <1>1, <1>4, <2>1, <2>2 DEF MobileInv, AppInv, AppTypes, RefreshInv
    <2> QED
      BY <1>3, <2>2, <2>3, OthersKeepTypes
  <1> QED
    BY <1>8, <1>9

LEMMA CaptureFailsMoves ==
    ASSUME MobileInv, NEW w \in Waited, CaptureFails(w)
    PROVE  ListMove /\ AppInv'
  <1>1. /\ Event("outside") /\ w \in capture /\ capture' = capture \ {w}
        /\ UNCHANGED <<listVars, importer, files, everStored, mounted>>
    BY DEF CaptureFails, shareVars
  <1>2. allowed' \in [EventClass -> Nat]
    BY <1>1, EventSpent DEF MobileInv, AppInv, EventClass
  <1>3. StoreTypes'
    BY <1>1 DEF MobileInv, AppInv, StoreTypes
  <1>4. ByRefresh' = ByRefresh
    BY <1>1 DEF listVars, ByRefresh
  <1>5. CASE w = "awaited"
    <2>1. refresh.at = "capture" /\ GoOnToSync
      BY <1>1, <1>5 DEF MobileInv, AppInv, RefreshInv, CaptureFails
    <2>2. ByRefresh = {} /\ mounted /\ capture' \subseteq Waited \ {"awaited"}
      BY <1>1, <1>5, <2>1, NotAwaited DEF MobileInv, AppInv, LoadStep, RefreshInv, AppTypes
    <2>3. AppTypes' /\ RefreshInv' /\ ("pulled" \in Range(sync) => "pulled" \in Range(sync'))
      BY <1>1, <1>2, <1>4, <2>1, <2>2, GoOn DEF MobileInv, AppInv
    <2>4. OthersMove
      BY <1>1, <2>3, ListAsItWas DEF MobileInv, ListInv
    <2> QED
      BY <1>3, <2>3, <2>4, OthersKeepTypes
  <1>6. CASE w # "awaited"
    <2>1. UNCHANGED <<refresh, sync, status, watchdog>>
      BY <1>6 DEF CaptureFails
    <2>2. AppTypes' /\ RefreshInv'
      BY <1>1, <1>2, <1>4, <2>1 DEF MobileInv, AppInv, AppTypes, RefreshInv
    <2>3. OthersMove
      BY <1>1, <2>1, ListAsItWas DEF MobileInv, ListInv
    <2> QED
      BY <1>3, <2>2, <2>3, OthersKeepTypes
  <1> QED
    BY <1>5, <1>6

LEMMA SyncPushedMoves ==
    ASSUME MobileInv, NEW w \in Waited, SyncPushed(w)
    PROVE  ListMove /\ AppInv'
  <1>1. /\ sync[w] = "asked" /\ sync' = [sync EXCEPT ![w] = "pulling"] /\ status' = "checking"
        /\ watchdog' = TRUE
        /\ UNCHANGED <<listVars, importer, files, everStored, mounted, refresh, capture, allowed>>
    BY DEF SyncPushed, shareVars
  <1>2. sync \in [Puller -> SyncStep] /\ w \in Puller /\ "pulling" \in SyncStep
    BY DEF MobileInv, AppInv, AppTypes, Puller, SyncStep
  <1>3. sync' \in [Puller -> SyncStep] /\ \A v \in Puller : sync'[v] = sync[v] \/ v = w
    BY <1>1, <1>2
  <1>4. "pulled" \in Range(sync) => "pulled" \in Range(sync')
    <2>1. \A v \in Puller : sync[v] = "pulled" => sync'[v] = "pulled"
      BY <1>1, <1>3
    <2> QED
      BY <1>2, <1>3, <2>1 DEF Range
  <1>5. OthersMove /\ ByRefresh' = ByRefresh
    BY <1>1, <1>4, ListAsItWas DEF MobileInv, ListInv
  <1>6. AppTypes' /\ RefreshInv'
    BY <1>1, <1>3, <1>5 DEF MobileInv, AppInv, AppTypes, RefreshInv
  <1>7. StoreTypes'
    BY <1>1 DEF MobileInv, AppInv, StoreTypes
  <1> QED
    BY <1>5, <1>6, <1>7, OthersKeepTypes

\* The rows after an entry of the server was taken over.
LEMMA PulledRows ==
    ASSUME ListTypes, StoreTypes, PullsRow \/ PullsStar
    PROVE  /\ db' \in Seq(Content) /\ IsInjective(db') /\ star' \subseteq Range(db')
           /\ everStored' \subseteq Content
  <1>1. CASE PullsRow
    <2>1. PICK x \in Remote \ Range(db), p \in 1..(Len(db) + 1) :
            /\ db' = InsertAt(db, p, x) /\ everStored' = everStored \cup {x}
            /\ star' \subseteq star \cup {x}
      BY <1>1 DEF PullsRow
    <2>2. x \in Content
      BY MobileAppAssumption
    <2>3. /\ db' \in Seq(Content) /\ IsInjective(db') /\ Range(db) \subseteq Range(db') /\ x \in Range(db')
      BY <2>1, <2>2, InsertAtFacts DEF ListTypes
    <2> QED
      BY <2>1, <2>2, <2>3 DEF ListTypes, StoreTypes
  <1>2. CASE PullsStar
    <2>1. PICK r \in Remote \cap Range(db) : db' = ToTop(r) /\ star' \subseteq star \cup {r}
      BY <1>2 DEF PullsStar
    <2>2. db' \in Seq(Content) /\ IsInjective(db') /\ Range(db') = Range(db)
      BY <2>1, ToTopFacts DEF ListTypes
    <2> QED
      BY <1>2, <2>1, <2>2 DEF PullsStar, ListTypes, StoreTypes
  <1> QED
    BY <1>1, <1>2

LEMMA SyncPullsMoves ==
    ASSUME MobileInv, NEW w \in Puller, SyncPulls(w)
    PROVE  ListMove /\ AppInv'
  <1>1. /\ Event("pull") /\ (sync[w] # "none" \/ w = "loop") /\ sync' = [sync EXCEPT ![w] = "pulled"]
        /\ PullsRow \/ PullsStar
        /\ Frontend
        /\ UNCHANGED <<listening, notices, calls, raced, files, importer, mounted, refresh, capture,
                       status, watchdog>>
    BY DEF SyncPulls
  <1>2. /\ db' \in Seq(Content) /\ IsInjective(db') /\ star' \subseteq Range(db') /\ StoreTypes'
    BY <1>1, PulledRows DEF MobileInv, ListInv, AppInv, StoreTypes
  <1>3. allowed' \in [EventClass -> Nat]
    BY <1>1, EventSpent DEF MobileInv, AppInv, EventClass
  <1>4. sync' \in [Puller -> SyncStep] /\ sync'[w] = "pulled"
        /\ \A v \in Puller : v # w => sync'[v] = sync[v]
    BY <1>1 DEF MobileInv, AppInv, AppTypes, SyncStep
  <1>5. "pulled" \in Range(sync')
    BY <1>4 DEF Range
  <1>6. OthersMove
    <2>1. ~Quiet'
      BY <1>5 DEF Quiet
    <2> QED
      BY <1>1, <1>2, <2>1 DEF OthersMove, MobileInv, ListInv, ListTypes
  <1>7. ByRefresh' = ByRefresh
    BY <1>1 DEF ByRefresh
  <1>8. sync'["awaited"] # "none" => sync["awaited"] # "none"
    <2>1. "awaited" \in Puller /\ "loop" # "awaited"
      BY DEF Puller, Waited
    <2> QED
      BY <1>1, <1>4, <2>1
  <1>9. AppTypes' /\ RefreshInv'
    BY <1>1, <1>3, <1>4, <1>7, <1>8 DEF MobileInv, AppInv, AppTypes, RefreshInv
  <1> QED
    BY <1>2, <1>6, <1>9, OthersKeepTypes

LEMMA SyncEndsMoves ==
    ASSUME MobileInv, NEW w \in Puller, SyncAnswered(w) \/ SyncCutOff(w)
    PROVE  ListMove /\ AppInv'
  <1>1. /\ Event("outside") /\ (sync[w] # "none" \/ w = "loop") /\ sync' = [sync EXCEPT ![w] = "none"]
        /\ status' = "settled" /\ watchdog' = FALSE /\ Frontend
        /\ IF w = "awaited" THEN RefreshGoes("list") ELSE UNCHANGED refresh
        /\ UNCHANGED <<db, star, listening, importer, files, everStored, mounted, capture>>
    BY DEF SyncAnswered, SyncCutOff, SyncEnds, shareVars
  <1>2. StoreTypes' /\ db' \in Seq(Content) /\ IsInjective(db') /\ star' \subseteq Range(db')
    BY <1>1 DEF MobileInv, AppInv, StoreTypes, ListInv, ListTypes
  <1>3. sync \in [Puller -> SyncStep] /\ "awaited" \in Puller /\ "loop" # "awaited" /\ "none" \in SyncStep
    BY DEF MobileInv, AppInv, AppTypes, Puller, Waited, SyncStep
  <1>4. sync' \in [Puller -> SyncStep] /\ sync'[w] = "none" /\ \A v \in Puller : v # w => sync'[v] = sync[v]
    BY <1>1, <1>3
  <1>5. allowed' \in [EventClass -> Nat]
    BY <1>1, EventSpent DEF MobileInv, AppInv, EventClass
  <1>6. OthersMove
    <2>1. CASE Emit \/ (Unheard /\ UNCHANGED notices)
      BY <1>1, <1>2, <2>1, RowsMove DEF MobileInv, ListInv
    <2>2. CASE sync[w] # "pulled" /\ UNCHANGED <<notices, calls, raced>>
      <3>1. "pulled" \in Range(sync) => "pulled" \in Range(sync')
        BY <1>3, <1>4, <2>2 DEF Range
      <3>2. Quiet' => Quiet
        BY <1>1, <2>2, <3>1, StillQuiet DEF NothingNewIsHidden
      <3> QED
        BY <1>1, <1>2, <2>2, <3>2 DEF OthersMove, MobileInv, ListInv, ListTypes
    <2> QED
      BY <2>1, <2>2 DEF SyncAnswered, SyncCutOff
  <1>7. ByRefresh' = ByRefresh
    BY <1>6, OthersByRefresh DEF MobileInv, ListInv
  <1>8. CASE w = "awaited"
    <2>1. refresh.at = "sync" /\ RefreshGoes("list")
      BY <1>1, <1>3, <1>8 DEF MobileInv, AppInv, RefreshInv
    <2>2. ByRefresh = {} /\ capture \subseteq Waited \ {"awaited"} /\ mounted
      BY <2>1, NotAwaited DEF MobileInv, AppInv, LoadStep, RefreshInv
    <2>3. AppTypes' /\ RefreshInv'
      BY <1>1, <1>4, <1>5, <1>7, <1>8, <2>1, <2>2, GoesTo DEF MobileInv, AppInv, AppTypes, RefreshStep
    <2> QED
      BY <1>2, <1>6, <2>3, OthersKeepTypes
  <1>9. CASE w # "awaited"
    <2>1. refresh' = refresh /\ sync'["awaited"] = sync["awaited"]
      BY <1>1, <1>3, <1>4, <1>9
    <2>2. AppTypes' /\ RefreshInv'
      BY <1>1, <1>4, <1>5, <1>7, <2>1 DEF MobileInv, AppInv, AppTypes, RefreshInv
    <2> QED
      BY <1>2, <1>6, <2>2, OthersKeepTypes
  <1> QED
    BY <1>8, <1>9

LEMMA StepTimesOutMoves ==
    ASSUME MobileInv, StepTimesOut
    PROVE  ListMove /\ AppInv'
  <1>1. UNCHANGED <<listVars, importer, files, everStored, mounted, allowed>>
    BY DEF StepTimesOut, shareVars
  <1>2. refresh.at \in {"shares", "import", "capture", "sync"}
    BY DEF StepTimesOut
  <1>3. ByRefresh = {} /\ mounted /\ ByRefresh' = {}
    <2>1. refresh.at \notin LoadStep /\ refresh.at # "idle"
      BY <1>2 DEF LoadStep
    <2> QED
      BY <1>1, <2>1, NotAwaited DEF MobileInv, AppInv, RefreshInv, ByRefresh, listVars
  <1>4. StoreTypes'
    BY <1>1 DEF MobileInv, AppInv, StoreTypes
  <1>5. ASSUME AppTypes', RefreshInv', "pulled" \in Range(sync) => "pulled" \in Range(sync')
        PROVE  ListMove /\ AppInv'
    <2>1. OthersMove
      BY <1>1, <1>5, ListAsItWas DEF MobileInv, ListInv
    <2> QED
      BY <1>4, <1>5, <2>1 DEF ListMove, AppInv
  <1>6. allowed' \in [EventClass -> Nat]
    BY <1>1 DEF MobileInv, AppInv, AppTypes
  <1>7. CASE refresh.at \in {"shares", "import"}
    <2>1. GoOnToCapture /\ refresh.at # "sync"
      BY <1>7 DEF StepTimesOut
    <2>2. AppTypes' /\ RefreshInv' /\ ("pulled" \in Range(sync) => "pulled" \in Range(sync'))
      BY <1>1, <1>3, <1>6, <2>1, GoOn DEF MobileInv, AppInv
    <2> QED
      BY <1>5, <2>2
  <1>8. CASE refresh.at = "capture"
    <2>1. GoOnToSync /\ capture' = {"late"} /\ refresh.at # "sync"
      BY <1>8 DEF StepTimesOut
    <2>2. {"late"} \subseteq Waited \ {"awaited"}
      BY DEF Waited
    <2>3. AppTypes' /\ RefreshInv' /\ ("pulled" \in Range(sync) => "pulled" \in Range(sync'))
      BY <1>1, <1>3, <1>6, <2>1, <2>2, GoOn DEF MobileInv, AppInv
    <2> QED
      BY <1>5, <2>3
  <1>9. CASE refresh.at = "sync"
    <2> DEFINE late == IF sync["late"] = "pulled" THEN "pulled" ELSE sync["awaited"]
    <2>0. sync \in [Puller -> SyncStep] /\ Puller = {"awaited", "late", "loop"} /\ "pulled" \in SyncStep
      BY DEF MobileInv, AppInv, AppTypes, Puller, Waited, SyncStep
    <2>1. RefreshGoes("list") /\ UNCHANGED <<capture, status, watchdog>>
          /\ sync' = [sync EXCEPT !["awaited"] = "none", !["late"] = late]
      BY <1>9, <2>0 DEF StepTimesOut
    <2>2. late \in SyncStep /\ (sync["late"] = "pulled" \/ sync["awaited"] = "pulled" => late = "pulled")
      BY <2>0
    <2> HIDE DEF late
    <2>3. sync' \in [Puller -> SyncStep] /\ sync'["awaited"] = "none"
          /\ sync'["late"] = late /\ sync'["loop"] = sync["loop"]
      BY <2>0, <2>1, <2>2 DEF SyncStep
    <2>4. capture' \subseteq Waited \ {"awaited"}
      BY <1>9, <2>1, NotAwaited DEF MobileInv, AppInv, LoadStep
    <2>5. AppTypes' /\ RefreshInv'
      BY <1>1, <1>3, <1>6, <2>1, <2>3, <2>4, GoesTo DEF MobileInv, AppInv, AppTypes, RefreshStep
    <2>6. "pulled" \in Range(sync) => "pulled" \in Range(sync')
      BY <2>0, <2>2, <2>3 DEF Range
    <2> QED
      BY <1>5, <2>5, <2>6
  <1> QED
    BY <1>2, <1>7, <1>8, <1>9

LEMMA WatchdogMoves ==
    ASSUME MobileInv, WatchdogFires
    PROVE  ListMove /\ AppInv'
  <1>1. /\ watchdog' = FALSE /\ status' = "settled"
        /\ UNCHANGED <<listVars, importer, files, everStored, mounted, refresh, capture, sync, allowed>>
    BY DEF WatchdogFires, shareVars
  <1>2. OthersMove /\ ByRefresh' = ByRefresh
    BY <1>1, ListAsItWas DEF MobileInv, ListInv
  <1>3. AppTypes' /\ RefreshInv'
    BY <1>1, <1>2, RefreshKept DEF MobileInv, AppInv, AppTypes
  <1> QED
    BY <1>1, <1>2, <1>3 DEF MobileInv, ListMove, AppInv, StoreTypes

\* A step of the list that leaves the rest of the application alone.
LEMMA ListStepMoves ==
    ASSUME MobileInv, UserMoves \/ \E c \in Call : CallMoves(c), UNCHANGED shareVars, Calm,
           allowed' \in [EventClass -> Nat]
    PROVE  ListMove /\ AppInv'
  <1>1. notices' = notices
    BY DEF UserMoves, CallMoves, QueryChanges, LoadMore, AskChange, SelectEntry, ServeQuery, ServeStar,
       ServeDelete, LoadAnswered, LoadFails, MoreAnswered, MoreFails, ChangeAnswered, ChangeFails
  <1>2. NothingNewIsHidden
    BY <1>1, StillQuiet DEF Calm, shareVars, MobileInv, ListInv, ListTypes
  <1>3. ByRefresh' \subseteq ByRefresh
    BY NoCallByRefresh DEF MobileInv, ListInv
  <1>4. AppTypes' /\ RefreshInv'
    BY <1>3, RefreshKept DEF Calm, MobileInv, AppInv, AppTypes
  <1> QED
    BY <1>2, <1>4 DEF ListMove, AppInv, MobileInv, StoreTypes, shareVars

LEMMA ListCommandsMoves ==
    ASSUME MobileInv, ListCommands
    PROVE  ListMove /\ AppInv'
  <1>1. /\ \E c \in Call : CallMoves(c)
        /\ UNCHANGED shareVars /\ Calm /\ allowed' \in [EventClass -> Nat]
    BY DEF ListCommands, CallMoves, MobileInv, AppInv, AppTypes
  <1> QED
    BY <1>1, ListStepMoves

LEMMA ListStepsMoves ==
    ASSUME MobileInv, ListSteps
    PROVE  ListMove /\ AppInv'
  <1>1. UNCHANGED shareVars /\ Calm /\ allowed' \in [EventClass -> Nat]
    BY DEF ListSteps, MobileInv, AppInv, AppTypes
  <1>2. CASE \E c \in Call : MoreAnswered(c) \/ ChangeAnswered(c)
    BY <1>1, <1>2, ListStepMoves DEF CallMoves
  <1>3. CASE EventHeard \/ TimerFires
    <2>1. BeginLoad("other", query) /\ LoadRest /\ notices' \in BOOLEAN /\ timer' \in BOOLEAN
      BY <1>3 DEF EventHeard, TimerFires, MobileInv, ListInv, ListTypes
    <2>2. ByRefresh' \subseteq ByRefresh
      BY <2>1, LoadBegins DEF MobileInv, ListInv
    <2>3. AppTypes' /\ RefreshInv'
      BY <1>1, <2>2, RefreshKept DEF Calm, MobileInv, AppInv, AppTypes
    <2> QED
      BY <1>1, <2>1, <2>3 DEF ListMove, BeginsLoad, AppInv, MobileInv, StoreTypes, shareVars
  <1>4. CASE Listens
    <2>1. OthersMove
      BY <1>1, <1>4 DEF Listens, OthersMove, Frontend, Quiet, Calm, shareVars, MobileInv, ListInv, ListTypes
    <2>2. ByRefresh' = ByRefresh
      BY <2>1, OthersByRefresh DEF MobileInv, ListInv
    <2>3. AppTypes' /\ RefreshInv'
      BY <1>1, <2>2, RefreshKept DEF Calm, MobileInv, AppInv, AppTypes
    <2> QED
      BY <1>1, <2>1, <2>3 DEF ListMove, AppInv, MobileInv, StoreTypes, shareVars
  <1> QED
    BY <1>2, <1>3, <1>4 DEF ListSteps

LEMMA UserAtListMoves ==
    ASSUME MobileInv, UserAtList
    PROVE  ListMove /\ AppInv'
  <1>1. UserMoves /\ UNCHANGED shareVars /\ Calm /\ Event("user")
    BY DEF UserAtList, UserMoves
  <1>2. allowed' \in [EventClass -> Nat]
    BY <1>1, EventSpent DEF MobileInv, AppInv, EventClass
  <1> QED
    BY <1>1, <1>2, ListStepMoves

LEMMA SharedMoves ==
    ASSUME MobileInv, Shared
    PROVE  ListMove /\ AppInv'
  <1>1. PICK b \in Batch : ShareStaged(b)
    BY DEF Shared
  <1>2. /\ files' = files \cup FilesOf(b) /\ UNCHANGED <<importer, everStored, listVars>>
        /\ Calm /\ Event("share")
    BY <1>1 DEF ShareStaged, Shared
  <1>3. StoreTypes'
    BY <1>2 DEF MobileInv, AppInv, StoreTypes
  <1>4. OthersMove /\ ByRefresh' = ByRefresh
    BY <1>2, ListAsItWas DEF MobileInv, ListInv, Calm
  <1>5. allowed' \in [EventClass -> Nat]
    BY <1>2, EventSpent DEF MobileInv, AppInv, EventClass
  <1>6. AppTypes' /\ RefreshInv'
    BY <1>2, <1>4, <1>5, RefreshKept DEF Calm, MobileInv, AppInv, AppTypes
  <1> QED
    BY <1>3, <1>4, <1>6 DEF ListMove, AppInv

LEMMA ImportStepMoves ==
    ASSUME MobileInv, NEW m \in Importer, Importing(m) \/ ImportFails(m), Calm,
           allowed' \in [EventClass -> Nat]
    PROVE  ListMove /\ AppInv'
  <1>1. OthersMove /\ StoreTypes'
    BY InsertionMoves, UnlinkMoves, OtherImportSteps
       DEF Importing, ImportFails, Calm, MobileInv, ListInv, AppInv
  <1>2. ByRefresh' = ByRefresh
    BY <1>1, OthersByRefresh DEF MobileInv, ListInv
  <1>3. AppTypes' /\ RefreshInv'
    BY <1>2, RefreshKept DEF Calm, MobileInv, AppInv, AppTypes
  <1> QED
    BY <1>1, <1>3 DEF ListMove, AppInv

LEMMA FaultsMoves ==
    ASSUME MobileInv, Faults
    PROVE  ListMove /\ AppInv'
  <1>1. allowed' \in [EventClass -> Nat] /\ Calm
    BY EventSpent DEF Faults, MobileInv, AppInv, EventClass
  <1>2. CASE \E m \in Importer : ImportFails(m)
    BY <1>1, <1>2, ImportStepMoves
  <1>3. CASE (\E c \in Call : MoreFails(c) \/ ChangeFails(c)) /\ UNCHANGED shareVars
    BY <1>1, <1>3, ListStepMoves DEF CallMoves
  <1> QED
    BY <1>2, <1>3 DEF Faults

\* Every step moves the list in one of these ways, or does not move it.
LEMMA NextMoves ==
    ASSUME MobileInv, [Next]_vars
    PROVE  ListMove /\ AppInv'
  <1>1. CASE UNCHANGED vars
    <2>1. UNCHANGED <<listVars, shareVars, appVars>>
      BY <1>1 DEF vars
    <2>2. OthersMove /\ ByRefresh' = ByRefresh
      BY <2>1, ListAsItWas DEF MobileInv, ListInv, shareVars, appVars
    <2>3. AppTypes' /\ RefreshInv'
      BY <2>1, <2>2, RefreshKept DEF appVars, MobileInv, AppInv, AppTypes
    <2> QED
      BY <2>1, <2>2, <2>3 DEF ListMove, AppInv, MobileInv, StoreTypes, shareVars
  <1>2. CASE Imports
    <2>1. allowed' \in [EventClass -> Nat] /\ Calm
      BY <1>2 DEF Imports, MobileInv, AppInv, AppTypes
    <2> QED
      BY <1>2, <2>1, ImportStepMoves DEF Imports
  <1>3. CASE Loading \/ \E c \in Call : LoadGivenUp(c)
    BY <1>3, LoadEnds DEF Loading
  <1>4. CASE \/ \E w \in Waited : CaptureServed(w) \/ CaptureFails(w) \/ SyncPushed(w)
             \/ \E w \in Puller : SyncPulls(w) \/ SyncAnswered(w) \/ SyncCutOff(w)
    BY <1>4, CaptureServedMoves, CaptureFailsMoves, SyncPushedMoves, SyncPullsMoves, SyncEndsMoves
  <1>5. CASE \E m \in Importer : ImportAnswered(m)
    BY <1>5, ImportAnsweredMoves
  <1>6. CASE Mount \/ Resume \/ Killed \/ ConfigRead \/ SharesChecked \/ RefreshLoads
             \/ StepTimesOut \/ WatchdogFires
    BY <1>6, MountMoves, ResumeMoves, KilledMoves, ConfigReadMoves, SharesCheckedMoves,
       RefreshLoadsMoves, StepTimesOutMoves, WatchdogMoves
  <1>7. CASE ListCommands \/ ListSteps \/ UserAtList \/ Shared \/ Faults
    BY <1>7, ListCommandsMoves, ListStepsMoves, UserAtListMoves, SharedMoves, FaultsMoves
  <1> QED
    BY <1>1, <1>2, <1>3, <1>4, <1>5, <1>6, <1>7 DEF Next

LEMMA MobileInitially == Init => MobileInv
  <1> SUFFICES ASSUME Init PROVE MobileInv
    OBVIOUS
  <1>1. ListInv /\ ShareInv
    BY ListInitially, InitSafe
  <1>2. PICK s \in Starts : ListInit(s.rows, s.starred) /\ allowed = [c \in EventClass |-> s[c]]
    BY DEF Init
  <1>3. allowed \in [EventClass -> Nat]
    BY <1>2, MobileAppAssumption
  <1>4. ByRefresh = {}
    BY <1>2, NoCallFacts DEF ByRefresh, ListInit
  <1>5. AppTypes /\ RefreshInv
    BY <1>3, <1>4, RefreshStates DEF Init, AppTypes, RefreshInv, Waited, Puller, SyncStep
  <1>6. StoreTypes
    BY DEF Init, ShareInit, StoreTypes
  <1> QED
    BY <1>1, <1>5, <1>6 DEF MobileInv, AppInv

\* The inductive invariant of the types and of the list.
THEOREM MobileInvAlways == Spec => []MobileInv
  <1>1. MobileInv /\ [Next]_vars => MobileInv'
    BY NextMoves, NextSafe, ListMoveSafe DEF MobileInv
  <1> QED
    BY <1>1, MobileInitially, PTL DEF Spec

\* Every variable of the application on Android keeps its type.
THEOREM MobileTypeOK == Spec => []TypeOK
  <1>1. MobileInv => TypeOK
    <2> SUFFICES ASSUME MobileInv PROVE TypeOK
      OBVIOUS
    <2>1. ListTypeOK
      <3>1. \A c \in Call : calls[c] \in CallState
        BY DEF MobileInv, ListInv, ListTypes
      <3>2. \A c \in Call : /\ DOMAIN calls[c] = DOMAIN NoCall
                            /\ calls[c].kind \in {"none", "load", "more", "star", "delete"}
        BY <3>1 DEF CallState, NoCall
      <3>3. Range(db) \subseteq Content /\ Range(shown) \subseteq Content
        BY DEF MobileInv, ListInv, ListTypes, Range
      <3> QED
        BY <3>2, <3>3 DEF MobileInv, ListInv, ListTypes, ListTypeOK
    <2>2. ShareTypeOK
      BY DEF MobileInv, ShareInv, AppInv, StoreTypes, ImportState, ShareTypeOK
    <2> QED
      BY <2>1, <2>2 DEF MobileInv, AppInv, AppTypes, RefreshState, TypeOK
  <1> QED
    BY <1>1, MobileInvAlways, PTL

(***************************************************************************)
(* What Enter pastes is a row of the list, and the list is an answer to    *)
(* what the filter bar says now, unless loading that answer failed, for    *)
(* any number of commands under way and answers in any order.              *)
(***************************************************************************)
THEOREM EnterPastesAMatch == Spec => []EnterMatchesQuery
  <1>1. MobileInv => EnterMatchesQuery
    BY DEF MobileInv, ListInv, SelectionInv, EnterMatchesQuery
  <1> QED
    BY <1>1, MobileInvAlways, PTL

-----------------------------------------------------------------------------
(* The list has no gap                                                     *)

\* The rows that the filter bar asks for.
Keep == IF query = "all" THEN Content ELSE star
Rows == Range(db) \cap Keep

\* A change that was carried out and will take its row from the list.
Removed(c) ==
    /\ calls[c].done
    /\ \/ calls[c].kind = "delete"
       \/ calls[c].kind = "star" /\ query = "starred" /\ calls[c].answer = <<>>

Gone == {calls[c].row : c \in {d \in Call : Removed(d)}}

\* What the list will hold once the changes that were carried out have been
\* answered.
Left == Range(shown) \ Gone

Newest(S) ==
    S \subseteq Rows /\ \A x \in S : \A y \in Rows : Before(db, y, x) => y \in S

(***************************************************************************)
(* Why the list has no gap when it is at rest: also before that, what will *)
(* be left of it is a newest part of the rows.  A star that is on its way  *)
(* is that of a row which is left, so that moving it to the top, or out of *)
(* the starred ones, opens no gap; and the next page that is on its way    *)
(* continues the list unless a change of a row overlaps it.                *)
(***************************************************************************)
Whole ==
    /\ IsInjective(shown) /\ nextOffset = Len(shown) /\ Newest(Left)
    /\ ~hasMore => Rows \subseteq Left
    /\ \A c \in Call : calls[c].kind = "star" /\ ~calls[c].done /\ calls[c].row \in Range(db)
                         => calls[c].row \in Left
    /\ \A c \in Call : calls[c].kind = "delete" /\ calls[c].done => calls[c].row \notin Range(db)
    /\ \A c, d \in Call : c # d /\ calls[c].kind = "star" /\ calls[d].kind = "star"
                            => calls[c].row # calls[d].row
    /\ \A c \in Call : calls[c].fresh /\ ~calls[c].raced => calls[c].offset = nextOffset

GapInv == mounted /\ Quiet /\ ~loading /\ ~failed /\ ~raced => Whole

\* A page that is on its way is what the query would find now.
AnswerInv ==
    Quiet => \A c \in Call : calls[c].fresh /\ calls[c].done /\ ~calls[c].raced
                               => calls[c].answer = Page(query, calls[c].offset)

RaceInv == \A c \in Call : calls[c].fresh /\ ~calls[c].raced => Changes = {}

WholeInv == GapInv /\ AnswerInv /\ RaceInv

\* Nothing that the list is about changes, but calls that are no change that
\* was carried out.
SameChange(d) ==
    \/ /\ calls'[d].kind = calls[d].kind /\ calls'[d].row = calls[d].row
       /\ calls'[d].done = calls[d].done /\ calls'[d].answer = calls[d].answer
    \/ /\ calls'[d].kind \notin {"star", "delete"}
       /\ calls[d].kind \in {"star", "delete"} => ~calls[d].done

LEMMA WholeKept ==
    ASSUME Whole, UNCHANGED <<query, db, star, shown, nextOffset, hasMore>>,
           \A d \in Call : SameChange(d),
           \A d \in Call : calls'[d].fresh /\ ~calls'[d].raced => calls'[d].offset = nextOffset
    PROVE  Whole'
  <1>1. Rows' = Rows /\ Keep' = Keep
    BY DEF Rows, Keep
  <1>2. \A d \in Call : (Removed(d)' <=> Removed(d)) /\ (Removed(d) => calls'[d].row = calls[d].row)
    BY DEF SameChange, Removed
  <1>3. Gone' = Gone
    BY <1>2 DEF Gone
  <1>4. Left' = Left
    BY <1>3 DEF Left
  <1>5. \A d \in Call : calls'[d].kind \in {"star", "delete"} =>
          calls[d].kind = calls'[d].kind /\ calls'[d].row = calls[d].row /\ calls'[d].done = calls[d].done
    BY DEF SameChange
  <1>6. Newest(Left)'
    BY <1>1, <1>4 DEF Whole, Newest
  <1>7. ~hasMore' => Rows' \subseteq Left'
    BY <1>1, <1>4 DEF Whole
  <1>8. \A c \in Call : calls'[c].kind = "star" /\ ~calls'[c].done /\ calls'[c].row \in Range(db')
                          => calls'[c].row \in Left'
    BY <1>4, <1>5 DEF Whole
  <1>9. \A c \in Call : calls'[c].kind = "delete" /\ calls'[c].done => calls'[c].row \notin Range(db')
    BY <1>5 DEF Whole
  <1>10. \A c, d \in Call : c # d /\ calls'[c].kind = "star" /\ calls'[d].kind = "star"
                            => calls'[c].row # calls'[d].row
    BY <1>5 DEF Whole
  <1>11. IsInjective(shown') /\ nextOffset' = Len(shown')
    BY DEF Whole
  <1> QED
    BY <1>6, <1>7, <1>8, <1>9, <1>10, <1>11 DEF Whole

\* The rows that match, and what an initial part of them is.
LEMMA MatchingFacts ==
    ASSUME ListTypes
    PROVE  LET m == Matching(query) IN
           /\ m \in Seq(Content) /\ IsInjective(m) /\ Range(m) = Rows
           /\ \A S : Newest(S) <=> Initial(m, S)
  <1> DEFINE m == Only(db, Keep)
  <1>1. Matching(query) = m
    BY DEF Matching, Keep
  <1>2. /\ m \in Seq(Content) /\ IsInjective(m) /\ Range(m) = Rows
        /\ \A x, y : Before(m, x, y) <=> Before(db, x, y) /\ x \in Keep /\ y \in Keep
    BY OnlyFacts, Zenon DEF ListTypes, Rows
  <1> HIDE DEF m
  <1>3. \A S : Newest(S) <=> Initial(m, S)
    <2>1. \A x, y \in Rows : Before(m, x, y) <=> Before(db, x, y)
      BY <1>2 DEF Rows
    <2> QED
      BY <1>2, <2>1 DEF Newest, Initial
  <1> QED
    BY <1>1, <1>2, <1>3, Zenon

\* A page continues the list.
LEMMA PageContinues ==
    ASSUME ListTypes, NEW k \in Nat, NEW S, Newest(S), S = FirstOf(Matching(query), k),
           k <= Len(Matching(query)), NEW p, p = Page(query, k)
    PROVE  /\ p \in Seq(Content) /\ IsInjective(p) /\ Range(p) \cap S = {}
           /\ k + Len(p) <= Len(Matching(query))
           /\ S \cup Range(p) = FirstOf(Matching(query), k + Len(p))
           /\ Newest(S \cup Range(p))
           /\ Len(p) # PageSize => Rows \subseteq S \cup Range(p)
  <1> DEFINE m == Matching(query)
             n == k + Len(p)
  <1>1. m \in Seq(Content) /\ IsInjective(m) /\ Range(m) = Rows /\ (\A T : Newest(T) <=> Initial(m, T))
    BY MatchingFacts
  <1>2. /\ p \in Seq(Content) /\ Len(p) <= PageSize
        /\ p # <<>> => k < Len(m) /\ k + Len(p) <= Len(m)
        /\ \A i \in 1..Len(p) : p[i] = m[k + i]
        /\ Len(p) < PageSize /\ k <= Len(m) => k + Len(p) = Len(m)
    BY PageFacts, Zenon DEF ListTypes
  <1>3. S = FirstOf(m, k) /\ k <= Len(m)
    OBVIOUS
  <1> HIDE DEF m
  <1>4. Len(m) \in Nat /\ DOMAIN m = 1..Len(m) /\ Len(p) \in Nat /\ DOMAIN p = 1..Len(p)
    BY <1>1, <1>2
  <1>5. n \in 0..Len(m) /\ n \in Nat
    <2>1. CASE p = <<>>
      <3>1. Len(p) = 0
        BY <2>1
      <3> QED
        BY <1>3, <1>4, <3>1
    <2>2. CASE p # <<>>
      <3>1. k + Len(p) <= Len(m)
        BY <1>2, <2>2, Zenon
      <3> QED
        BY <1>4, <3>1
    <2> QED
      BY <2>1, <2>2
  <1>6. \A i \in DOMAIN p : k + i \in DOMAIN m /\ p[i] = m[k + i]
    <2>1. \A i \in 1..Len(p) : k + i \in 1..Len(m)
      BY <1>4, <1>5
    <2> QED
      BY <1>2, <1>4, <2>1, Zenon
  <1>7. IsInjective(p)
    <2>1. ASSUME NEW i \in DOMAIN p, NEW j \in DOMAIN p, p[i] = p[j] PROVE i = j
      <3>1. k + i = k + j
        BY <1>1, <1>6, <2>1 DEF IsInjective
      <3> QED
        BY <1>4, <3>1
    <2> QED
      BY <2>1 DEF IsInjective
  <1>8. Range(p) \cap S = {}
    <2>1. ASSUME NEW i \in DOMAIN p, NEW j \in 1..k, p[i] = m[j] PROVE FALSE
      <3>1. j \in DOMAIN m
        BY <1>3, <1>4
      <3>2. k + i = j
        BY <1>1, <1>6, <2>1, <3>1 DEF IsInjective
      <3> QED
        BY <1>4, <3>2
    <2> QED
      BY <1>3, <2>1 DEF FirstOf, Range
  <1>9. S \cup Range(p) = FirstOf(m, n)
    <2>1. \A i \in 1..k : i \in 1..n
      BY <1>4
    <2>2. \A i \in DOMAIN p : k + i \in 1..n /\ p[i] = m[k + i]
      BY <1>4, <1>6
    <2>3. \A i \in 1..n : i \in 1..k \/ (i - k \in DOMAIN p /\ m[i] = p[i - k])
      <3>1. ASSUME NEW i \in 1..n, i \notin 1..k PROVE i - k \in DOMAIN p /\ m[i] = p[i - k]
        <4>1. i - k \in 1..Len(p) /\ k + (i - k) = i
          BY <1>4, <3>1
        <4> QED
          BY <1>4, <1>6, <4>1
      <3> QED
        BY <3>1
    <2>4. \A x \in S \cup Range(p) : \E i \in 1..n : x = m[i]
      <3> HIDE DEF n
      <3> QED
        BY <1>3, <2>1, <2>2 DEF FirstOf, Range
    <2>5. \A i \in 1..n : m[i] \in S \cup Range(p)
      <3> HIDE DEF n
      <3> QED
        BY <1>3, <2>3 DEF FirstOf, Range
    <2> HIDE DEF n
    <2> QED
      BY <2>4, <2>5, Zenon DEF FirstOf
  <1>10. Newest(S \cup Range(p))
    BY <1>1, <1>5, <1>9, FirstIsInitial
  <1>11. ASSUME Len(p) # PageSize PROVE Rows \subseteq S \cup Range(p)
    <2>1. n = Len(m)
      <3>1. Len(p) < PageSize
        <4>1. Len(p) <= PageSize
          BY <1>2, Zenon
        <4>2. PageSize \in Nat /\ Len(p) \in Nat
          BY <1>4, ContentFinite
        <4>3. Len(p) # PageSize
          BY <1>11
        <4> QED
          BY <4>1, <4>2, <4>3
      <3> QED
        BY <1>2, <1>3, <3>1, Zenon
    <2> HIDE DEF n
    <2> QED
      BY <1>1, <1>4, <1>9, <2>1 DEF FirstOf, Range
  <1> QED
    BY <1>2, <1>5, <1>7, <1>8, <1>9, <1>10, <1>11 DEF m

\* A step that changes neither what the list is about nor the calls that may
\* change it, and at most adds calls that are no change.
LEMMA WholeInvKept ==
    ASSUME WholeInv, mounted' => mounted, Quiet' => Quiet,
           UNCHANGED <<query, db, star, shown, nextOffset, hasMore>>,
           \A d \in Call : SameChange(d),
           ~loading' /\ ~failed' /\ ~raced' => ~loading /\ ~failed /\ ~raced,
           \A d \in Call : calls'[d].fresh /\ ~calls'[d].raced =>
             /\ Changes' = {}
             /\ ~loading' /\ ~failed' /\ ~raced' =>
                  calls'[d].offset = nextOffset \/ (calls[d].fresh /\ ~calls[d].raced /\ calls'[d].offset = calls[d].offset)
             /\ calls'[d].done => \/ calls'[d].answer = Page(query, calls'[d].offset)
                                  \/ calls[d].fresh /\ calls[d].done /\ ~calls[d].raced
                                     /\ calls'[d].answer = calls[d].answer /\ calls'[d].offset = calls[d].offset
    PROVE  WholeInv'
  <1>1. GapInv'
    <2> SUFFICES ASSUME mounted', Quiet', ~loading', ~failed', ~raced' PROVE Whole'
      BY DEF GapInv
    <2>1. Whole
      BY DEF WholeInv, GapInv
    <2>2. \A d \in Call : calls'[d].fresh /\ ~calls'[d].raced => calls'[d].offset = nextOffset
      BY <2>1 DEF Whole
    <2> QED
      BY <2>1, <2>2, WholeKept
  <1>2. AnswerInv'
    <2> SUFFICES ASSUME Quiet', NEW d \in Call, calls'[d].fresh, calls'[d].done, ~calls'[d].raced
                 PROVE  calls'[d].answer = Page(query, calls[d].offset)'
      BY DEF AnswerInv
    <2>1. Page(query, calls[d].offset)' = Page(query, calls'[d].offset)
      BY DEF Page, Matching
    <2>2. CASE calls'[d].answer = Page(query, calls'[d].offset)
      BY <2>1, <2>2
    <2>3. CASE calls[d].fresh /\ calls[d].done /\ ~calls[d].raced
               /\ calls'[d].answer = calls[d].answer /\ calls'[d].offset = calls[d].offset
      <3>1. calls[d].answer = Page(query, calls[d].offset)
        BY <2>3 DEF WholeInv, AnswerInv
      <3> QED
        BY <2>1, <2>3, <3>1
    <2> QED
      BY <2>2, <2>3
  <1>3. RaceInv'
    BY DEF RaceInv
  <1> QED
    BY <1>1, <1>2, <1>3 DEF WholeInv

LEMMA NoNewChange ==
    ASSUME \A d \in Call : SameChange(d)
    PROVE  Changes' \subseteq Changes
  BY DEF SameChange, Changes

LEMMA CallOverKept ==
    ASSUME ListInv, WholeInv, NEW c \in Call, calls' = [calls EXCEPT ![c] = NoCall],
           calls[c].kind \in {"star", "delete"} => ~calls[c].done, NothingNewIsHidden,
           UNCHANGED <<query, db, star, shown, nextOffset, hasMore>>,
           ~loading' /\ ~failed' /\ ~raced' => ~loading /\ ~failed /\ ~raced
    PROVE  WholeInv'
  <1>1. /\ calls'[c] = NoCall /\ \A d \in Call : d # c => calls'[d] = calls[d]
        /\ \A d \in Call : calls'[d].fresh => d # c /\ calls[d].fresh /\ calls'[d] = calls[d]
    BY CallOver
  <1>2. \A d \in Call : SameChange(d)
    BY <1>1, NoCallFacts DEF SameChange
  <1>3. Changes' \subseteq Changes
    BY <1>2, NoNewChange
  <1>4. \A d \in Call : calls'[d].fresh /\ ~calls'[d].raced => Changes' = {}
    BY <1>1, <1>3 DEF WholeInv, RaceInv
  <1> QED
    BY <1>1, <1>2, <1>4, WholeInvKept DEF NothingNewIsHidden

LEMMA OthersWhole ==
    ASSUME ListInv, WholeInv, OthersMove
    PROVE  WholeInv'
  <1>1. UNCHANGED <<query, shown, nextOffset, hasMore, loading, failed>> /\ (mounted' => mounted)
    BY DEF OthersMove, Frontend
  <1>2. CASE UNCHANGED <<db, star, calls, raced>> /\ (Quiet' => Quiet)
    <2>1. \A d \in Call : SameChange(d)
      BY <1>2 DEF SameChange
    <2>2. Changes' = Changes
      BY <1>2 DEF Changes
    <2>3. \A d \in Call : calls'[d].fresh /\ ~calls'[d].raced => Changes' = {}
      BY <1>2, <2>2 DEF WholeInv, RaceInv
    <2> QED
      BY <1>1, <1>2, <2>1, <2>3, WholeInvKept
  <1>3. CASE UNCHANGED <<calls, raced>> /\ ~Quiet'
    <2>1. Changes' = Changes
      BY <1>3 DEF Changes
    <2> QED
      BY <1>3, <2>1 DEF WholeInv, GapInv, AnswerInv, RaceInv
  <1>4. CASE Unheard
    <2>1. raced' = TRUE /\ \A d \in Call : calls'[d].kind = calls[d].kind
      BY <1>4, UnheardFacts, Zenon DEF ListInv
    <2>2. \A d \in Call : calls'[d].fresh = calls[d].fresh /\ calls'[d].done = calls[d].done
      BY <1>4, UnheardFacts, Zenon DEF ListInv
    <2>3. \A d \in Call : ~calls'[d].raced => (~calls[d].raced /\ ~(d \in Loads /\ calls[d].done))
      BY <1>4, UnheardFacts, Zenon DEF ListInv
    <2>4. Changes' = Changes
      BY <2>1 DEF Changes
    <2>5. \A d \in Call : calls[d].fresh => d \in Loads
      BY DEF ListInv, CallsInv, CurrentCall, Loads
    <2>6. GapInv'
      BY <2>1 DEF GapInv
    <2>7. RaceInv'
      BY <2>2, <2>3, <2>4 DEF WholeInv, RaceInv
    <2>8. AnswerInv'
      BY <2>2, <2>3, <2>5 DEF AnswerInv
    <2> QED
      BY <2>6, <2>7, <2>8 DEF WholeInv
  <1> QED
    BY <1>2, <1>3, <1>4 DEF OthersMove

LEMMA BeginsLoadWhole ==
    ASSUME ListInv, WholeInv, BeginsLoad
    PROVE  WholeInv'
  <1>1. PICK by \in {"other", "refresh"} : BeginLoad(by, query) /\ LoadRest
    BY DEF BeginsLoad
  <1>2. PICK c \in Call : \E s \in CallState :
             /\ calls[c] = NoCall /\ calls' = [Outdated EXCEPT ![c] = s]
             /\ PageEnds(s) /\ s.fresh /\ s.q = query /\ s.kind = "load" /\ s.offset = 0
             /\ s.by = by /\ s.raced = (Changes # {}) /\ ~s.done
             /\ calls' \in [Call -> CallState] /\ calls'[c] = s
             /\ \A d \in Call : d # c => calls'[d] = Outdated[d]
    BY <1>1, BeginLoadFacts DEF ListInv
  <1>3. \A d \in Call : calls'[d].fresh => d = c
    BY <1>2, OutdatedFacts DEF ListInv
  <1>4. ~calls'[c].done /\ calls'[c].raced = (Changes # {})
    BY <1>2
  <1>5. Changes' \subseteq Changes
    BY <1>2, OutdatedFacts DEF ListInv, Changes
  <1>6. GapInv'
    BY <1>1 DEF BeginLoad, GapInv
  <1>7. AnswerInv'
    BY <1>3, <1>4 DEF AnswerInv
  <1>8. RaceInv'
    BY <1>3, <1>4, <1>5 DEF RaceInv
  <1> QED
    BY <1>6, <1>7, <1>8 DEF WholeInv

LEMMA KilledWhole ==
    ASSUME Killed
    PROVE  WholeInv'
  <1>1. mounted' = FALSE /\ \A c \in Call : ~calls'[c].fresh
    BY NoCallFacts DEF Killed
  <1> QED
    BY <1>1 DEF WholeInv, GapInv, AnswerInv, RaceInv

LEMMA QueryChangesWhole ==
    ASSUME ListInv, NEW q \in Query, QueryChanges(q)
    PROVE  WholeInv'
  <1>1. loading' = TRUE /\ \A c \in Call : ~calls'[c].fresh
    BY OutdatedFacts DEF ListInv, QueryChanges
  <1> QED
    BY <1>1 DEF WholeInv, GapInv, AnswerInv, RaceInv

LEMMA LoadMoreWhole ==
    ASSUME ListInv, WholeInv, LoadMore, NothingNewIsHidden
    PROVE  WholeInv'
  <1>1. PICK c \in Call : \E s \in CallState :
             /\ calls[c] = NoCall /\ PageEnds(s) /\ s.fresh /\ s.q = query /\ s.kind = "more"
             /\ s.offset = nextOffset /\ s.by = "other" /\ s.raced = (Changes # {}) /\ ~s.done
             /\ calls' \in [Call -> CallState] /\ calls'[c] = s
             /\ \A d \in Call : d # c => calls'[d] = calls[d]
    BY LoadMoreFacts DEF ListInv
  <1>2. /\ UNCHANGED <<query, db, star, shown, nextOffset, hasMore, loading, failed, raced>>
        /\ (mounted' => mounted) /\ (Quiet' => Quiet)
    BY DEF LoadMore, NothingNewIsHidden
  <1>3. \A d \in Call : SameChange(d)
    BY <1>1, NoCallFacts DEF SameChange
  <1>4. Changes' \subseteq Changes
    BY <1>3, NoNewChange
  <1>5. \A d \in Call : calls'[d].fresh /\ ~calls'[d].raced => Changes' = {}
    BY <1>1, <1>4 DEF WholeInv, RaceInv
  <1> QED
    BY <1>1, <1>2, <1>3, <1>5, WholeInvKept DEF NothingNewIsHidden

LEMMA SelectEntryWhole ==
    ASSUME ListInv, WholeInv, NEW r \in Content, SelectEntry(r), NothingNewIsHidden
    PROVE  WholeInv'
  <1>1. UNCHANGED <<query, db, star, shown, nextOffset, hasMore, calls, loading, failed, raced>>
    BY DEF SelectEntry
  <1>2. \A d \in Call : SameChange(d)
    BY <1>1 DEF SameChange
  <1>3. \A d \in Call : calls'[d].fresh /\ ~calls'[d].raced => Changes' = {}
    BY <1>1 DEF WholeInv, RaceInv, Changes
  <1> QED
    BY <1>1, <1>2, <1>3, WholeInvKept DEF NothingNewIsHidden

LEMMA ServeQueryWhole ==
    ASSUME ListInv, WholeInv, NEW c \in Call, ServeQuery(c), NothingNewIsHidden
    PROVE  WholeInv'
  <1> DEFINE p == Page(calls[c].q, calls[c].offset)
  <1>1. calls[c] \in CallState /\ calls[c].kind \in {"load", "more"}
    BY DEF ServeQuery, Loads, ListInv, ListTypes
  <1>2. calls' = [calls EXCEPT ![c] = [calls[c] EXCEPT !.done = TRUE, !.answer = p]]
    BY DEF ServeQuery, ListInv, ListTypes
  <1>3. UNCHANGED <<query, db, star, shown, nextOffset, hasMore, loading, failed, raced>>
    BY DEF ServeQuery
  <1>4. calls[c].fresh => p = Page(query, calls[c].offset)
    BY DEF ListInv, CallsInv, CurrentCall
  <1> HIDE DEF p
  <1>5. /\ calls'[c].kind = calls[c].kind /\ calls'[c].fresh = calls[c].fresh
        /\ calls'[c].raced = calls[c].raced /\ calls'[c].offset = calls[c].offset
        /\ calls'[c].answer = p
    BY <1>1, <1>2 DEF ListInv, ListTypes, CallState
  <1>6. \A d \in Call : d # c => calls'[d] = calls[d]
    BY <1>2 DEF ListInv, ListTypes
  <1>7. \A d \in Call : SameChange(d)
    BY <1>1, <1>5, <1>6 DEF SameChange
  <1>8. Changes' \subseteq Changes
    BY <1>7, NoNewChange
  <1>9. \A d \in Call : calls'[d].fresh /\ ~calls'[d].raced => Changes' = {}
    BY <1>5, <1>6, <1>8 DEF WholeInv, RaceInv
  <1> QED
    BY <1>3, <1>4, <1>5, <1>6, <1>7, <1>9, WholeInvKept DEF NothingNewIsHidden

\* With no change under way the list is what is left of it.
LEMMA NothingGone ==
    ASSUME Changes = {}
    PROVE  Gone = {} /\ Left = Range(shown)
  <1>1. \A d \in Call : ~Removed(d)
    BY DEF Removed, Changes
  <1> QED
    BY <1>1 DEF Gone, Left

\* What makes a list whole while no change is under way.
LEMMA WholeAtRest ==
    ASSUME Changes' = {}, IsInjective(shown'), nextOffset' = Len(shown'), Newest(Range(shown))',
           ~hasMore' => Rows' \subseteq Range(shown'), \A c \in Call : ~calls'[c].fresh
    PROVE  Whole'
  <1>1. \A d \in Call : calls'[d].kind \notin {"star", "delete"} /\ ~Removed(d)'
    BY DEF Removed, Changes
  <1>2. Left' = Range(shown')
    BY <1>1 DEF Gone, Left
  <1>3. Newest(Left)'
    BY <1>2 DEF Newest
  <1> QED
    BY <1>1, <1>2, <1>3 DEF Whole

\* A list that is whole holds the first of the rows.
LEMMA WholeIsFirst ==
    ASSUME ListInv, Whole, Changes = {}
    PROVE  /\ IsInjective(shown) /\ nextOffset = Len(shown) /\ Newest(Range(shown))
           /\ Len(shown) <= Len(Matching(query)) /\ Len(shown) \in Nat
           /\ Range(shown) = FirstOf(Matching(query), Len(shown))
           /\ ~hasMore => Rows \subseteq Range(shown)
  <1> DEFINE m == Matching(query)
  <1>1. /\ IsInjective(shown) /\ nextOffset = Len(shown) /\ Newest(Range(shown))
        /\ ~hasMore => Rows \subseteq Range(shown)
    BY NothingGone DEF Whole
  <1>2. m \in Seq(Content) /\ IsInjective(m) /\ Initial(m, Range(shown))
    BY <1>1, MatchingFacts DEF ListInv
  <1> HIDE DEF m
  <1>3. Cardinality(Range(shown)) \in 0..Len(m) /\ Range(shown) = FirstOf(m, Cardinality(Range(shown)))
    BY <1>2, InitialIsFirst, Zenon
  <1>4. Cardinality(Range(shown)) = Len(shown)
    BY <1>1, LengthIsCardinality, Zenon DEF ListInv, ListTypes
  <1>5. Len(shown) \in 0..Len(m) /\ Range(shown) = FirstOf(m, Len(shown)) /\ Len(m) \in Nat
    BY <1>2, <1>3, <1>4
  <1> QED
    BY <1>1, <1>5 DEF m

LEMMA EmptyIsFirst ==
    ASSUME ListTypes
    PROVE  Newest({}) /\ {} = FirstOf(Matching(query), 0) /\ 0 <= Len(Matching(query))
  <1>1. Matching(query) \in Seq(Content)
    BY MatchingFacts
  <1> QED
    BY <1>1 DEF Newest, FirstOf

LEMMA LoadAnsweredWhole ==
    ASSUME ListInv, WholeInv, NEW c \in Call, LoadAnswered(c), NothingNewIsHidden
    PROVE  WholeInv'
  <1>1. /\ calls' = [calls EXCEPT ![c] = NoCall] /\ calls[c].kind = "load" /\ calls[c].done
        /\ UNCHANGED <<db, star, query, loadingMore>>
    BY DEF LoadAnswered
  <1>2. CASE ~calls[c].fresh
    <2>1. UNCHANGED <<shown, nextOffset, hasMore, loading, failed, raced>>
      BY <1>2 DEF LoadAnswered
    <2>2. calls[c].kind \notin {"star", "delete"}
      BY <1>1
    <2>3. UNCHANGED <<query, db, star, shown, nextOffset, hasMore, loading, failed, raced>>
      BY <1>1, <2>1
    <2>4. /\ calls[c].kind \in {"star", "delete"} => ~calls[c].done
          /\ ~loading' /\ ~failed' /\ ~raced' => ~loading /\ ~failed /\ ~raced
      BY <2>2, <2>3
    <2>5. calls' = [calls EXCEPT ![c] = NoCall]
      BY <1>1
    <2> QED
      BY <2>3, <2>4, <2>5, CallOverKept
  <1>3. CASE calls[c].fresh
    <2> DEFINE p == calls[c].answer
    <2>1. /\ shown' = p /\ nextOffset' = Len(p) /\ hasMore' = (Len(p) = PageSize)
          /\ raced' = calls[c].raced
      BY <1>3 DEF LoadAnswered
    <2>2. \A d \in Call : ~calls'[d].fresh
      BY <1>1, <1>3, CallOver DEF ListInv, CallsInv
    <2>3. AnswerInv' /\ RaceInv'
      BY <2>2 DEF AnswerInv, RaceInv
    <2>4. ASSUME Quiet', ~raced' PROVE Whole'
      <3>1. Changes = {} /\ Quiet
        BY <1>3, <2>1, <2>4 DEF WholeInv, RaceInv, NothingNewIsHidden
      <3>2. p = Page(query, 0)
        BY <1>1, <1>3, <2>1, <2>4, <3>1 DEF WholeInv, AnswerInv, ListInv, CallsInv, CurrentCall
      <3> HIDE DEF p
      <3>3. /\ p \in Seq(Content) /\ IsInjective(p)
            /\ Newest({} \cup Range(p))
            /\ Len(p) # PageSize => Rows \subseteq {} \cup Range(p)
        BY <3>2, EmptyIsFirst, PageContinues DEF ListInv
      <3>4. {} \cup Range(p) = Range(p)
        OBVIOUS
      <3>5. Changes' = {}
        <4>1. \A d \in Call : SameChange(d)
          BY <1>1, CallOver, NoCallFacts DEF SameChange
        <4> QED
          BY <3>1, <4>1, NoNewChange
      <3>6. Newest(Range(shown))' /\ (~hasMore' => Rows' \subseteq Range(shown'))
        BY <1>1, <2>1, <3>3, <3>4 DEF Newest, Rows, Keep
      <3> QED
        BY <2>1, <2>2, <3>3, <3>5, <3>6, WholeAtRest
    <2>5. GapInv'
      BY <2>4 DEF GapInv
    <2> QED
      BY <2>3, <2>5 DEF WholeInv
  <1> QED
    BY <1>2, <1>3

LEMMA MoreAnsweredWhole ==
    ASSUME ListInv, WholeInv, NEW c \in Call, MoreAnswered(c), NothingNewIsHidden
    PROVE  WholeInv'
  <1>1. /\ calls' = [calls EXCEPT ![c] = NoCall] /\ calls[c].kind = "more" /\ calls[c].done
        /\ UNCHANGED <<db, star, query, loading, failed>>
    BY DEF MoreAnswered
  <1>2. CASE ~calls[c].fresh
    <2>1. UNCHANGED <<shown, nextOffset, hasMore, raced>>
      BY <1>2 DEF MoreAnswered
    <2>2. calls[c].kind \notin {"star", "delete"}
      BY <1>1
    <2>3. UNCHANGED <<query, db, star, shown, nextOffset, hasMore, loading, failed, raced>>
      BY <1>1, <2>1
    <2>4. /\ calls[c].kind \in {"star", "delete"} => ~calls[c].done
          /\ ~loading' /\ ~failed' /\ ~raced' => ~loading /\ ~failed /\ ~raced
      BY <2>2, <2>3
    <2>5. calls' = [calls EXCEPT ![c] = NoCall]
      BY <1>1
    <2> QED
      BY <2>3, <2>4, <2>5, CallOverKept
  <1>3. CASE calls[c].fresh
    <2> DEFINE p == calls[c].answer
               more == Only(p, Content \ Range(shown))
    <2>1. /\ shown' = shown \o more /\ nextOffset' = nextOffset + Len(p)
          /\ hasMore' = (Len(p) = PageSize) /\ raced' = (raced \/ calls[c].raced)
      BY <1>3 DEF MoreAnswered
    <2>2. \A d \in Call : ~calls'[d].fresh
      BY <1>1, <1>3, CallOver DEF ListInv, CallsInv
    <2>3. AnswerInv' /\ RaceInv'
      BY <2>2 DEF AnswerInv, RaceInv
    <2>4. ASSUME mounted', Quiet', ~loading', ~failed', ~raced' PROVE Whole'
      <3>1. Changes = {} /\ Whole /\ Quiet /\ ~calls[c].raced
        BY <1>1, <1>3, <2>1, <2>4 DEF WholeInv, GapInv, RaceInv, NothingNewIsHidden
      <3>2. /\ IsInjective(shown) /\ nextOffset = Len(shown) /\ Newest(Range(shown))
            /\ Len(shown) <= Len(Matching(query)) /\ Len(shown) \in Nat
            /\ Range(shown) = FirstOf(Matching(query), Len(shown))
        BY <3>1, WholeIsFirst
      <3>3. p = Page(query, Len(shown))
        BY <1>1, <1>3, <3>1, <3>2 DEF WholeInv, AnswerInv, Whole
      <3> HIDE DEF p
      <3>4. /\ p \in Seq(Content) /\ IsInjective(p) /\ Range(p) \cap Range(shown) = {}
            /\ Newest(Range(shown) \cup Range(p))
            /\ Len(p) # PageSize => Rows \subseteq Range(shown) \cup Range(p)
        BY <3>2, <3>3, PageContinues DEF ListInv
      <3>5. more \in Seq(Content) /\ IsInjective(more) /\ Range(more) = Range(p) \cap (Content \ Range(shown))
        BY <3>4, OnlyFacts, Zenon
      <3>6. Range(p) \cap (Content \ Range(shown)) = Range(p)
        BY <3>4 DEF Range
      <3> HIDE DEF more
      <3>7. Len(more) = Len(p)
        <4>1. Cardinality(Range(p)) = Len(p) /\ Cardinality(Range(more)) = Len(more)
          BY <3>4, <3>5, LengthIsCardinality, Zenon
        <4> QED
          BY <3>5, <3>6, <4>1
      <3>8. shown \in Seq(Content)
        BY DEF ListInv, ListTypes
      <3>9. /\ Len(shown \o more) = Len(shown) + Len(more)
            /\ Range(shown \o more) = Range(shown) \cup Range(more)
            /\ IsInjective(shown \o more)
        BY <3>2, <3>4, <3>5, <3>6, <3>8, AppendedFacts
      <3>10. Range(shown') = Range(shown) \cup Range(p) /\ IsInjective(shown') /\ nextOffset' = Len(shown')
        BY <2>1, <3>2, <3>5, <3>6, <3>7, <3>9
      <3>11. Changes' = {}
        <4>1. \A d \in Call : SameChange(d)
          BY <1>1, CallOver, NoCallFacts DEF SameChange
        <4> QED
          BY <3>1, <4>1, NoNewChange
      <3>12. Newest(Range(shown))' /\ (~hasMore' => Rows' \subseteq Range(shown'))
        BY <1>1, <2>1, <3>4, <3>10 DEF Newest, Rows, Keep
      <3> QED
        BY <2>2, <3>10, <3>11, <3>12, WholeAtRest
    <2>5. GapInv'
      BY <2>4 DEF GapInv
    <2> QED
      BY <2>3, <2>5 DEF WholeInv
  <1> QED
    BY <1>2, <1>3

LEMMA AskChangeWhole ==
    ASSUME ListInv, WholeInv, NEW kind \in {"star", "delete"}, NEW r \in Content,
           AskChange(kind, r), NothingNewIsHidden
    PROVE  WholeInv'
  <1>1. PICK c \in Call : \E s \in CallState :
             /\ calls[c] = NoCall /\ ~s.fresh /\ s.kind = kind /\ s.row = r
             /\ s.by = "other" /\ ~s.done
             /\ calls' \in [Call -> CallState] /\ calls'[c] = s
             /\ \A d \in Call : d # c =>
                  /\ \A f \in {"kind", "fresh", "q", "offset", "row", "by", "done", "answer"} :
                       calls'[d][f] = calls[d][f]
                  /\ calls'[d].raced = (calls[d].raced \/ d \in Loads)
    BY AskChangeFacts DEF ListInv
  <1>2. /\ UNCHANGED <<db, star, query, shown, loading, hasMore, nextOffset, failed>>
        /\ r \in Range(shown)
        /\ raced' = (raced \/ \E d \in Changes : calls[d].kind = "star" /\ calls[d].row = r)
    BY DEF AskChange
  <1>3. /\ ~calls'[c].fresh /\ ~calls'[c].done /\ calls'[c].kind = kind /\ calls'[c].row = r
        /\ calls[c] = NoCall
    BY <1>1
  <1>4. \A d \in Call : d # c =>
          /\ calls'[d].kind = calls[d].kind /\ calls'[d].fresh = calls[d].fresh
          /\ calls'[d].row = calls[d].row /\ calls'[d].done = calls[d].done
          /\ calls'[d].answer = calls[d].answer
          /\ calls'[d].raced = (calls[d].raced \/ d \in Loads)
    BY <1>1
  <1>5. \A d \in Call : calls[d].fresh => d \in Loads
    BY DEF ListInv, CallsInv, CurrentCall, Loads
  <1>6. \A d \in Call : ~(calls'[d].fresh /\ ~calls'[d].raced)
    BY <1>3, <1>4, <1>5
  <1>7. AnswerInv' /\ RaceInv'
    BY <1>6 DEF AnswerInv, RaceInv
  <1>8. ASSUME mounted', Quiet', ~loading', ~failed', ~raced' PROVE Whole'
    <2>1. Whole /\ ~\E d \in Changes : calls[d].kind = "star" /\ calls[d].row = r
      BY <1>2, <1>8 DEF WholeInv, GapInv, NothingNewIsHidden
    <2>2. \A d \in Call : (Removed(d)' <=> Removed(d)) /\ (Removed(d) => calls'[d].row = calls[d].row)
      BY <1>2, <1>3, <1>4, NoCallFacts DEF Removed
    <2>3. Gone' = Gone
      BY <2>2 DEF Gone
    <2>4. Left' = Left /\ Rows' = Rows
      BY <1>2, <2>3 DEF Left, Rows, Keep
    <2>5. r \in Range(db) => r \in Left
      <3>1. ASSUME NEW e \in Call, Removed(e), calls[e].row = r PROVE r \notin Range(db)
        BY <2>1, <3>1 DEF Removed, Changes, Whole
      <3> QED
        BY <1>2, <3>1 DEF Left, Gone
    <2>6. Newest(Left)' /\ (~hasMore' => Rows' \subseteq Left')
      BY <1>2, <2>1, <2>4 DEF Newest, Whole
    <2>7. \A d \in Call : calls'[d].kind = "star" /\ ~calls'[d].done /\ calls'[d].row \in Range(db')
                            => calls'[d].row \in Left'
      BY <1>2, <1>3, <1>4, <2>1, <2>4, <2>5 DEF Whole
    <2>8. \A d \in Call : calls'[d].kind = "delete" /\ calls'[d].done => calls'[d].row \notin Range(db')
      BY <1>2, <1>3, <1>4, <2>1 DEF Whole
    <2>9. \A d, e \in Call : d # e /\ calls'[d].kind = "star" /\ calls'[e].kind = "star"
                              => calls'[d].row # calls'[e].row
      BY <1>3, <1>4, <2>1 DEF Whole, Changes
    <2>10. IsInjective(shown') /\ nextOffset' = Len(shown')
      BY <1>2, <2>1 DEF Whole
    <2> QED
      BY <1>6, <2>6, <2>7, <2>8, <2>9, <2>10 DEF Whole
  <1>9. GapInv'
    BY <1>8 DEF GapInv
  <1> QED
    BY <1>7, <1>9 DEF WholeInv

\* A change under way leaves no page that could be the next one.
LEMMA ChangesRace ==
    ASSUME WholeInv, NEW c \in Changes
    PROVE  \A d \in Call : ~(calls[d].fresh /\ ~calls[d].raced)
  BY DEF WholeInv, RaceInv

LEMMA ServeStarWhole ==
    ASSUME ListInv, WholeInv, NEW c \in Call, ServeStar(c), NothingNewIsHidden
    PROVE  WholeInv'
  <1> DEFINE r == calls[c].row
             a == IF r \in star THEN <<>> ELSE <<r>>
  <1>1. /\ calls[c] \in CallState /\ calls[c].kind = "star" /\ ~calls[c].done
        /\ UNCHANGED <<query, shown, hasMore, nextOffset, loading, failed, raced>>
        /\ db \in Seq(Content) /\ IsInjective(db)
    BY DEF ServeStar, ListInv, ListTypes
  <1>2. CASE r \notin Range(db)
    <2>1. calls' = [calls EXCEPT ![c] = NoCall] /\ UNCHANGED <<db, star>>
      BY <1>2 DEF ServeStar
    <2> QED
      BY <1>1, <2>1, CallOverKept
  <1>3. CASE r \in Range(db)
    <2>1. /\ star' = IF r \in star THEN star \ {r} ELSE star \cup {r}
          /\ db' = ToTop(r)
          /\ calls' = [calls EXCEPT ![c] = [calls[c] EXCEPT !.done = TRUE, !.answer = a]]
      BY <1>3 DEF ServeStar, ListInv, ListTypes
    <2>2. (r \in star <=> a = <<>>)
      OBVIOUS
    <2>3. /\ Range(db') = Range(db)
          /\ \A x, y : Before(db', x, y) <=>
                         \/ x = r /\ y \in Range(db) /\ y # r
                         \/ Before(db, x, y) /\ x # r /\ y # r
      BY <1>1, <1>3, <2>1, ToTopFacts
    <2> HIDE DEF a
    <2>4. \A d \in Call : d # c => calls'[d] = calls[d]
      BY <2>1 DEF ListInv, ListTypes
    <2>5. /\ calls'[c].kind = "star" /\ calls'[c].row = r /\ calls'[c].done /\ calls'[c].answer = a
          /\ calls'[c].fresh = calls[c].fresh /\ calls'[c].raced = calls[c].raced
      BY <1>1, <2>1 DEF ListInv, ListTypes, CallState
    <2> HIDE DEF r
    <2>6. \A d \in Call : ~(calls'[d].fresh /\ ~calls'[d].raced)
      BY <1>1, <2>4, <2>5, ChangesRace DEF Changes
    <2>7. AnswerInv' /\ RaceInv'
      BY <2>6 DEF AnswerInv, RaceInv
    <2>8. ASSUME mounted', Quiet', ~loading', ~failed', ~raced' PROVE Whole'
      <3>1. Whole
        BY <1>1, <2>8 DEF WholeInv, GapInv, NothingNewIsHidden
      <3>2. r \in Left /\ Left \subseteq Rows
        BY <1>1, <1>3, <3>1 DEF Whole, Newest, r
      <3>3. \A d \in Call : d # c => (Removed(d)' <=> Removed(d)) /\ calls'[d].row = calls[d].row
        BY <1>1, <2>4 DEF Removed
      <3>4. ~Removed(c) /\ (Removed(c)' <=> query = "starred" /\ r \in star)
        BY <1>1, <2>2, <2>5 DEF Removed
      <3>5. \A d \in Call : d # c /\ calls'[d].kind = "star" => calls'[d].row # r
        BY <1>1, <2>4, <3>1 DEF Whole, r
      <3>6. /\ \A d \in Call : calls'[d].kind = "delete" /\ calls'[d].done => calls'[d].row \notin Range(db')
            /\ \A d, e \in Call : d # e /\ calls'[d].kind = "star" /\ calls'[e].kind = "star"
                                   => calls'[d].row # calls'[e].row
        BY <1>1, <2>3, <2>4, <2>5, <3>1, <3>5 DEF Whole
      <3>7. CASE query = "all"
        <4>1. Keep = Content /\ Keep' = Content
          BY <1>1, <3>7 DEF Keep
        <4>2. Rows' = Rows
          BY <2>3, <4>1 DEF Rows
        <4>3. \A d \in Call : (Removed(d)' <=> Removed(d)) /\ (Removed(d) => calls'[d].row = calls[d].row)
          BY <3>3, <3>4, <3>7
        <4>4. Gone' = Gone
          BY <4>3 DEF Gone
        <4>5. Left' = Left
          BY <1>1, <4>4 DEF Left
        <4>6. \A x \in Left : \A y \in Rows : Before(db', y, x) => y \in Left
          BY <2>3, <3>1, <3>2 DEF Whole, Newest
        <4>7. Newest(Left)' /\ (~hasMore' => Rows' \subseteq Left')
          BY <1>1, <3>1, <3>2, <4>2, <4>5, <4>6 DEF Newest, Whole
        <4>8. \A d \in Call : calls'[d].kind = "star" /\ ~calls'[d].done /\ calls'[d].row \in Range(db')
                                => calls'[d].row \in Left'
          BY <2>3, <2>4, <2>5, <3>1, <4>5 DEF Whole
        <4> QED
          BY <1>1, <2>6, <3>1, <3>6, <4>7, <4>8 DEF Whole
      <3>8. CASE query # "all"
        <4>1. query = "starred" /\ Keep = star /\ Keep' = star'
          BY <1>1, <3>8 DEF Keep, ListInv, ListTypes, Query
        <4>2. r \in star /\ star' = star \ {r}
          BY <2>1, <3>2, <4>1 DEF Rows
        <4>3. Rows' = Rows \ {r}
          BY <2>3, <4>1, <4>2 DEF Rows
        <4>4. Removed(c)'
          BY <3>4, <4>1, <4>2
        <4>5. Gone' = Gone \cup {r}
          <5>1. \A x \in Gone' : x \in Gone \/ x = r
            BY <2>5, <3>3 DEF Gone
          <5>2. \A x \in Gone : x \in Gone'
            BY <3>3, <3>4 DEF Gone
          <5>3. r \in Gone'
            BY <2>5, <4>4 DEF Gone
          <5> QED
            BY <5>1, <5>2, <5>3
        <4>6. Left' = Left \ {r}
          BY <1>1, <4>5 DEF Left
        <4>7. \A x \in Left \ {r} : \A y \in Rows \ {r} : Before(db', y, x) => y \in Left \ {r}
          BY <2>3, <3>1 DEF Whole, Newest
        <4>8. Newest(Left)' /\ (~hasMore' => Rows' \subseteq Left')
          BY <1>1, <3>1, <3>2, <4>3, <4>6, <4>7 DEF Newest, Whole
        <4>9. \A d \in Call : calls'[d].kind = "star" /\ ~calls'[d].done /\ calls'[d].row \in Range(db')
                                => calls'[d].row \in Left'
          BY <2>3, <2>4, <2>5, <3>1, <3>5, <4>6 DEF Whole
        <4> QED
          BY <1>1, <2>6, <3>1, <3>6, <4>8, <4>9 DEF Whole
      <3> QED
        BY <3>7, <3>8
    <2>9. GapInv'
      BY <2>8 DEF GapInv
    <2> QED
      BY <2>7, <2>9 DEF WholeInv
  <1> QED
    BY <1>2, <1>3

LEMMA ServeDeleteWhole ==
    ASSUME ListInv, WholeInv, NEW c \in Call, ServeDelete(c), NothingNewIsHidden
    PROVE  WholeInv'
  <1> DEFINE r == calls[c].row
  <1>1. /\ calls[c] \in CallState /\ calls[c].kind = "delete" /\ ~calls[c].done
        /\ UNCHANGED <<query, shown, hasMore, nextOffset, loading, failed, raced>>
        /\ db \in Seq(Content) /\ IsInjective(db)
        /\ db' = Without(db, r) /\ star' = star \ {r}
        /\ calls' = [calls EXCEPT ![c] = [calls[c] EXCEPT !.done = TRUE]]
    BY DEF ServeDelete, ListInv, ListTypes
  <1>2. /\ Range(db') = Range(db) \ {r}
        /\ \A x, y : Before(db', x, y) <=> Before(db, x, y) /\ x # r /\ y # r
    BY <1>1, WithoutFacts
  <1>3. \A d \in Call : d # c => calls'[d] = calls[d]
    BY <1>1 DEF ListInv, ListTypes
  <1>4. /\ calls'[c].kind = "delete" /\ calls'[c].row = r /\ calls'[c].done
        /\ calls'[c].fresh = calls[c].fresh /\ calls'[c].raced = calls[c].raced
    BY <1>1 DEF ListInv, ListTypes, CallState
  <1>5. \A d \in Call : ~(calls'[d].fresh /\ ~calls'[d].raced)
    BY <1>1, <1>3, <1>4, ChangesRace DEF Changes
  <1>6. AnswerInv' /\ RaceInv'
    BY <1>5 DEF AnswerInv, RaceInv
  <1> HIDE DEF r
  <1>7. ASSUME mounted', Quiet', ~loading', ~failed', ~raced' PROVE Whole'
    <2>1. Whole
      BY <1>1, <1>7 DEF WholeInv, GapInv, NothingNewIsHidden
    <2>2. \A d \in Call : d # c => (Removed(d)' <=> Removed(d)) /\ calls'[d].row = calls[d].row
      BY <1>1, <1>3 DEF Removed
    <2>3. ~Removed(c) /\ Removed(c)'
      BY <1>1, <1>4 DEF Removed
    <2>4. Rows' = Rows \ {r}
      BY <1>1, <1>2 DEF Rows, Keep
    <2>5. Gone' = Gone \cup {r}
      <3>1. \A x \in Gone' : x \in Gone \/ x = r
        BY <1>4, <2>2 DEF Gone
      <3>2. \A x \in Gone : x \in Gone'
        BY <2>2, <2>3 DEF Gone
      <3>3. r \in Gone'
        BY <1>4, <2>3 DEF Gone
      <3> QED
        BY <3>1, <3>2, <3>3
    <2>6. Left' = Left \ {r}
      BY <1>1, <2>5 DEF Left
    <2>7. \A x \in Left \ {r} : \A y \in Rows \ {r} : Before(db', y, x) => y \in Left \ {r}
      BY <1>2, <2>1 DEF Whole, Newest
    <2>8. Newest(Left)' /\ (~hasMore' => Rows' \subseteq Left')
      BY <1>1, <2>1, <2>4, <2>6, <2>7 DEF Newest, Whole
    <2>9. \A d \in Call : calls'[d].kind = "star" /\ ~calls'[d].done /\ calls'[d].row \in Range(db')
                            => calls'[d].row \in Left'
      BY <1>2, <1>3, <1>4, <2>1, <2>6 DEF Whole
    <2>10. \A d \in Call : calls'[d].kind = "delete" /\ calls'[d].done => calls'[d].row \notin Range(db')
      BY <1>2, <1>3, <1>4, <2>1 DEF Whole
    <2>11. \A d, e \in Call : d # e /\ calls'[d].kind = "star" /\ calls'[e].kind = "star"
                               => calls'[d].row # calls'[e].row
      BY <1>3, <1>4, <2>1 DEF Whole
    <2>12. IsInjective(shown') /\ nextOffset' = Len(shown')
      BY <1>1, <2>1 DEF Whole
    <2> QED
      BY <1>5, <2>8, <2>9, <2>10, <2>11, <2>12 DEF Whole
  <1>8. GapInv'
    BY <1>7 DEF GapInv
  <1> QED
    BY <1>6, <1>8 DEF WholeInv

LEMMA ChangeAnsweredWhole ==
    ASSUME ListInv, WholeInv, NEW c \in Call, ChangeAnswered(c), NothingNewIsHidden
    PROVE  WholeInv'
  <1> DEFINE r == calls[c].row
  <1>1. /\ c \in Changes /\ calls[c].done /\ calls[c].kind \in {"star", "delete"}
        /\ UNCHANGED <<db, star, query, hasMore, loading, failed, raced>>
        /\ calls' = [calls EXCEPT ![c] = NoCall]
        /\ shown \in Seq(Content)
    BY DEF ChangeAnswered, Changes, ListInv, ListTypes
  <1>2. calls'[c] = NoCall /\ \A d \in Call : d # c => calls'[d] = calls[d]
    BY <1>1, CallOver
  <1>3. /\ Removed(c) => shown' = Without(shown, r)
        /\ ~Removed(c) => shown' = shown
        /\ nextOffset' = IF nextOffset < Len(shown') THEN nextOffset ELSE Len(shown')
    BY <1>1 DEF ChangeAnswered, Removed
  <1>4. \A d \in Call : ~(calls'[d].fresh /\ ~calls'[d].raced)
    BY <1>1, <1>2, ChangesRace, NoCallFacts
  <1>5. AnswerInv' /\ RaceInv'
    BY <1>4 DEF AnswerInv, RaceInv
  <1>6. \A d \in Call : d # c => (Removed(d)' <=> Removed(d)) /\ calls'[d].row = calls[d].row
    BY <1>1, <1>2 DEF Removed
  <1>7. ~Removed(c)'
    BY <1>2, NoCallFacts DEF Removed
  <1>8. Rows' = Rows
    BY <1>1 DEF Rows, Keep
  <1> HIDE DEF r
  <1>9. ASSUME mounted', Quiet', ~loading', ~failed', ~raced' PROVE Whole'
    <2>1. Whole
      BY <1>1, <1>9 DEF WholeInv, GapInv, NothingNewIsHidden
    <2>2. Left' = Left /\ IsInjective(shown') /\ nextOffset' = Len(shown')
      <3>1. CASE Removed(c)
        <4>1. /\ Range(shown') = Range(shown) \ {r} /\ IsInjective(shown')
              /\ Len(shown') <= Len(shown) /\ shown' \in Seq(Content)
          BY <1>1, <1>3, <2>1, <3>1, WithoutFacts DEF Whole
        <4>2. nextOffset' = Len(shown')
          <5>1. Len(shown) \in Nat /\ Len(shown') \in Nat /\ nextOffset = Len(shown)
            BY <1>1, <2>1, <4>1 DEF Whole
          <5> QED
            BY <1>3, <4>1, <5>1
        <4>3. Gone = Gone' \cup {r}
          <5>1. \A x \in Gone : x \in Gone' \/ x = r
            BY <1>6 DEF Gone, r
          <5>2. \A x \in Gone' : x \in Gone
            BY <1>6, <1>7 DEF Gone
          <5>3. r \in Gone
            BY <3>1 DEF Gone, r
          <5> QED
            BY <5>1, <5>2, <5>3
        <4>4. Left' = Left
          BY <4>1, <4>3 DEF Left
        <4> QED
          BY <4>1, <4>2, <4>4
      <3>2. CASE ~Removed(c)
        <4>1. shown' = shown /\ nextOffset' = Len(shown')
          <5>1. shown' = shown /\ Len(shown) \in Nat /\ nextOffset = Len(shown)
            BY <1>1, <1>3, <2>1, <3>2 DEF Whole
          <5> QED
            BY <1>3, <5>1
        <4>2. \A d \in Call : (Removed(d)' <=> Removed(d)) /\ (Removed(d) => calls'[d].row = calls[d].row)
          BY <1>6, <1>7, <3>2
        <4>3. Gone' = Gone
          BY <4>2 DEF Gone
        <4> QED
          BY <2>1, <4>1, <4>3 DEF Left, Whole
      <3> QED
        BY <3>1, <3>2
    <2>3. Newest(Left)' /\ (~hasMore' => Rows' \subseteq Left')
      BY <1>1, <1>8, <2>1, <2>2 DEF Newest, Whole
    <2>4. \A d \in Call : calls'[d].kind = "star" /\ ~calls'[d].done /\ calls'[d].row \in Range(db')
                            => calls'[d].row \in Left'
      BY <1>1, <1>2, <2>1, <2>2, NoCallFacts DEF Whole
    <2>5. \A d \in Call : calls'[d].kind = "delete" /\ calls'[d].done => calls'[d].row \notin Range(db')
      BY <1>1, <1>2, <2>1, NoCallFacts DEF Whole
    <2>6. \A d, e \in Call : d # e /\ calls'[d].kind = "star" /\ calls'[e].kind = "star"
                              => calls'[d].row # calls'[e].row
      BY <1>2, <2>1, NoCallFacts DEF Whole
    <2> QED
      BY <1>4, <2>2, <2>3, <2>4, <2>5, <2>6 DEF Whole
  <1>10. GapInv'
    BY <1>9 DEF GapInv
  <1> QED
    BY <1>5, <1>10 DEF WholeInv

LEMMA CallFailsWhole ==
    ASSUME ListInv, WholeInv, NEW c \in Call, LoadFails(c) \/ MoreFails(c) \/ ChangeFails(c),
           NothingNewIsHidden
    PROVE  WholeInv'
  <1>1. /\ calls' = [calls EXCEPT ![c] = NoCall]
        /\ calls[c].kind \in {"star", "delete"} => ~calls[c].done
        /\ UNCHANGED <<query, db, star, shown, nextOffset, hasMore, raced>>
    BY DEF LoadFails, MoreFails, ChangeFails
  <1>2. ~loading' /\ ~failed' => ~loading /\ ~failed
    BY DEF LoadFails, MoreFails, ChangeFails
  <1> QED
    BY <1>1, <1>2, CallOverKept

LEMMA WholeSafe ==
    ASSUME ListInv, WholeInv, ListMove
    PROVE  WholeInv'
  <1>1. CASE OthersMove
    BY <1>1, OthersWhole
  <1>2. CASE BeginsLoad
    BY <1>2, BeginsLoadWhole
  <1>3. CASE Killed
    BY <1>3, KilledWhole
  <1>4. CASE UserMoves /\ NothingNewIsHidden
    BY <1>4, QueryChangesWhole, LoadMoreWhole, AskChangeWhole, SelectEntryWhole DEF UserMoves
  <1>5. ASSUME NEW c \in Call, CallMoves(c), NothingNewIsHidden
        PROVE  WholeInv'
    BY <1>5, ServeQueryWhole, ServeStarWhole, ServeDeleteWhole, LoadAnsweredWhole,
       MoreAnsweredWhole, ChangeAnsweredWhole, CallFailsWhole DEF CallMoves
  <1> QED
    BY <1>1, <1>2, <1>3, <1>4, <1>5 DEF ListMove

LEMMA WholeInitially == Init => WholeInv
  <1> SUFFICES ASSUME Init PROVE WholeInv
    OBVIOUS
  <1>1. ~mounted /\ \A c \in Call : ~calls[c].fresh
    BY NoCallFacts DEF Init, ListInit
  <1> QED
    BY <1>1 DEF WholeInv, GapInv, AnswerInv, RaceInv

(***************************************************************************)
(* A list at rest holds the newest rows that match, each once, and all of  *)
(* them when there is no more to load, whatever order its pages, the       *)
(* changes of its rows and the announcements of new, pulled and starred    *)
(* rows came in, unless a row moved that nobody announced (raced)          *)
(* (clipboardStore.ts, and the commands that it is filled by).             *)
(***************************************************************************)
THEOREM ListNeverHasAGap == Spec => []ListHasNoGap
  <1>1. MobileInv /\ WholeInv /\ [Next]_vars => WholeInv'
    BY NextMoves, WholeSafe DEF MobileInv
  <1>2. MobileInv /\ WholeInv => ListHasNoGap
    <2> SUFFICES ASSUME MobileInv, WholeInv, mounted, Announced, AtRest, ~failed, ~raced
                 PROVE  LET m == Matching(query) IN
                        /\ IsInjective(shown) /\ Len(shown) <= Len(m)
                        /\ Range(shown) = {m[i] : i \in 1..Len(shown)}
                        /\ ~hasMore => Len(shown) = Len(m)
      BY DEF ListHasNoGap, ListIsWhole
    <2> DEFINE m == Matching(query)
    <2>1. ListInv /\ ListTypes /\ Changes = {} /\ Whole
      BY DEF MobileInv, ListInv, WholeInv, GapInv, Quiet, Announced, AtRest
    <2>2. m \in Seq(Content) /\ IsInjective(m) /\ Range(m) = Rows
      BY <2>1, MatchingFacts
    <2>3. /\ IsInjective(shown) /\ Newest(Range(shown))
          /\ Len(shown) <= Len(m) /\ Range(shown) = FirstOf(m, Len(shown))
          /\ ~hasMore => Rows \subseteq Range(shown)
      BY <2>1, WholeIsFirst
    <2> HIDE DEF m
    <2>4. ASSUME ~hasMore PROVE Len(shown) = Len(m)
      <3>1. Range(shown) = Range(m)
        BY <2>2, <2>3, <2>4 DEF Newest
      <3>2. Cardinality(Range(shown)) = Len(shown) /\ Cardinality(Range(m)) = Len(m)
        BY <2>1, <2>2, <2>3, LengthIsCardinality, Zenon DEF ListTypes
      <3> QED
        BY <3>1, <3>2
    <2> QED
      BY <2>3, <2>4 DEF FirstOf, m
  <1> QED
    BY <1>1, <1>2, MobileInvAlways, WholeInitially, PTL DEF Spec
=============================================================================
