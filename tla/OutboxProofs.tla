----------------------------- MODULE OutboxProofs -----------------------------
(***************************************************************************)
(* What TLAPS proves of the steps of HistorySync: a pending edit survives  *)
(* every step but the user's own, and every step of the protocol is one of *)
(* Outbox, or none.                                                        *)
(***************************************************************************)
EXTENDS HistorySyncProofs

-----------------------------------------------------------------------------
(***************************************************************************)
(* A pending edit survives.                                                *)
(***************************************************************************)

\* What PendingEditSurvives says of one row.
Survives(c, k) ==
    Waiting(c, k) => StillPending(rows[c][k], rows'[c][k]) \/ DeleteLocal(c, k)

LEMMA RowStaysPending ==
    ASSUME NEW c \in Client, NEW k \in Content, rows'[c][k] = rows[c][k]
    PROVE  Survives(c, k)
  BY DEF Survives, Waiting, StillPending

\* A step that writes one row of one client leaves the others pending.
LEMMA OthersStayPending ==
    ASSUME TypeOK, NEW c \in Client, NEW k \in Content, NEW new,
           rows' = [rows EXCEPT ![c] = [rows[c] EXCEPT ![k] = new]],
           Survives(c, k)
    PROVE  \A d \in Client, l \in Content : Survives(d, l)
  <1> SUFFICES ASSUME NEW d \in Client, NEW l \in Content PROVE Survives(d, l)
    OBVIOUS
  <1>1. CASE d = c /\ l = k
    BY <1>1
  <1>2. CASE ~(d = c /\ l = k)
    <2>1. rows'[d][l] = rows[d][l]
      BY <1>2 DEF TypeOK, Cache
    <2> QED
      BY <2>1, RowStaysPending
  <1> QED
    BY <1>1, <1>2

LEMMA CaptureSurvives ==
    ASSUME TypeOK, NEW c \in Client, NEW k \in Content, Capture(c, k)
    PROVE  \A d \in Client, l \in Content : Survives(d, l)
  <1>1. StampOf(c) \in Stamp
    BY NowType
  <1>2. PICK new \in LocalRow :
           /\ InsertEntry(rows[c], k, StampOf(c)) = [rows[c] EXCEPT ![k] = new]
           /\ rows[c][k] # None =>
                 /\ new.edit = rows[c][k].edit /\ new.synced = rows[c][k].synced
                 /\ new.starred = rows[c][k].starred
    BY <1>1, InsertEntryAt DEF TypeOK
  <1>3. rows' = [rows EXCEPT ![c] = [rows[c] EXCEPT ![k] = new]]
    BY <1>2 DEF Capture
  <1>4. rows'[c][k] = new /\ new # None
    BY <1>3, SyncAssumption DEF TypeOK, Cache
  <1>5. Survives(c, k)
    BY <1>2, <1>4 DEF Survives, Waiting, StillPending
  <1> QED
    BY <1>3, <1>5, OthersStayPending

\* The toggle is a later edit.
LEMMA ToggleSurvives ==
    ASSUME TypeOK, Coherent, NEW c \in Client, NEW k \in Content, ToggleStar(c, k)
    PROVE  \A d \in Client, l \in Content : Survives(d, l)
  <1>1. PICK new : new = [starred |-> ~rows[c][k].starred, synced |-> FALSE,
                          updated |-> StampOf(c), edit |-> StampOf(c)]
    OBVIOUS
  <1>2. rows' = [rows EXCEPT ![c] = [rows[c] EXCEPT ![k] = new]]
    BY <1>1 DEF ToggleStar, FlipStar
  <1>3. rows'[c][k] = new
    BY <1>2 DEF TypeOK, Cache
  <1>4. StampOf(c) \in Stamp /\ StampOf(c).at = clock + 1
    BY NowType DEF StampOf, Now
  <1>5. new \in LocalRow /\ new.edit = StampOf(c) /\ ~new.synced
    BY <1>1, <1>4 DEF ToggleStar, TypeOK, Cache, LocalRow
  <1>6. ASSUME Waiting(c, k) PROVE rows[c][k].edit.at < new.edit.at
    <2>1. Issued(rows[c][k].edit, c)
      BY <1>6 DEF Coherent, RowsCoherent, RowCoherent, Waiting
    <2> QED
      BY <1>4, <1>5, <2>1 DEF Issued, Stamp, TypeOK
  <1>7. new # None
    BY <1>5, SyncAssumption
  <1>8. Survives(c, k)
    BY <1>3, <1>4, <1>5, <1>6, <1>7 DEF Survives, StillPending, Stamp
  <1> QED
    BY <1>2, <1>8, OthersStayPending

LEMMA DeleteSurvives ==
    ASSUME TypeOK, NEW c \in Client, NEW k \in Content, DeleteLocal(c, k)
    PROVE  \A d \in Client, l \in Content : Survives(d, l)
  <1>1. rows' = [rows EXCEPT ![c] = [rows[c] EXCEPT ![k] = None]]
    BY DEF DeleteLocal, RemoveEntry
  <1>2. Survives(c, k)
    BY DEF Survives
  <1> QED
    BY <1>1, <1>2, OthersStayPending

\* The row an answer acknowledges is the one that was sent, so its edit arrived.
LEMMA AcknowledgementSurvives ==
    ASSUME TypeOK, Coherent, NEW c \in Client, NEW p \in Task, PushAcknowledged(c, p)
    PROVE  \A d \in Client, l \in Content : Survives(d, l)
  <1> DEFINE t == task[c][p]
  <1>1. t \in TaskState
    BY DEF TypeOK
  <1>2. CopyCoherent(c, t.cur) /\ t.cur.edit \in arrived /\ t.cur.key \in Content
    BY <1>1, RequestOfTaskIssued
    DEF PushAcknowledged, Coherent, AnswersArrived, TaskState, TaskRecord, Snapshot
  <1>3. PICK k \in Content : k = t.cur.key
    BY <1>2
  <1>4. CASE rows[c][k] # None /\ rows[c][k].updated = t.cur.updated
    <2>1. PICK new : new = [rows[c][k] EXCEPT !.synced = TRUE]
      OBVIOUS
    <2>2. rows' = [rows EXCEPT ![c] = [rows[c] EXCEPT ![k] = new]]
      BY <1>3, <1>4, <2>1 DEF PushAcknowledged, MarkSyncedIfUnchanged
    <2>3. rows[c][k] \in LocalRow /\ rows'[c][k] = new
      BY <1>4, <2>2 DEF TypeOK, Cache
    <2>4. new \in LocalRow /\ new.edit = rows[c][k].edit /\ new.starred = rows[c][k].starred
      BY <2>1, <2>3 DEF LocalRow
    <2>5. rows[c][k].edit \in arrived
      BY <1>2, <1>3, <1>4 DEF CopyCoherent
    <2>6. new # None
      BY <2>4, SyncAssumption
    <2>7. Survives(c, k)
      BY <2>3, <2>4, <2>5, <2>6 DEF Survives, StillPending
    <2> QED
      BY <2>2, <2>7, OthersStayPending
  <1>5. CASE ~(rows[c][k] # None /\ rows[c][k].updated = t.cur.updated)
    <2>1. rows' = rows
      BY <1>3, <1>5 DEF PushAcknowledged, MarkSyncedIfUnchanged, TypeOK
    <2> QED
      BY <2>1, RowStaysPending
  <1> QED
    BY <1>4, <1>5

\* A pull writes only rows that are synced or were not there.
LEMMA IngestSurvives ==
    ASSUME TypeOK, NEW c \in Client, IngestStar(c) \/ IngestInsert(c)
    PROVE  \A d \in Client, l \in Content : Survives(d, l)
  <1> SUFFICES ASSUME NEW d \in Client, NEW l \in Content, Waiting(d, l)
               PROVE  rows'[d][l] = rows[d][l]
    BY DEF Survives, StillPending, Waiting
  <1>1. PICK i \in pull[c].page : \E now :
           \/ rows' = [rows EXCEPT ![c] =
                 ApplyRemoteStarState(rows[c], i.key, i.starred, now)]
           \/ rows' = [rows EXCEPT ![c] =
                 InsertRemoteEntry(rows[c], i.key, i.starred, now)]
    BY DEF IngestStar, IngestInsert
  <1>2. \A k \in Content :
           rows[d][k] = rows[d][k] /\ rows[c] \in [Content -> LocalRow \cup {None}]
    BY DEF TypeOK, Cache
  <1>3. rows'[d] = rows[d] \/ d = c
    BY <1>1 DEF TypeOK
  <1>4. CASE d = c
    BY <1>1, <1>2, <1>4
    DEF ApplyRemoteStarState, InsertRemoteEntry, Waiting, TypeOK
  <1> QED
    BY <1>3, <1>4

LEMMA NextSurvives ==
    ASSUME TypeOK, Coherent, Next
    PROVE  \A d \in Client, l \in Content : Survives(d, l)
  <1>1. CASE rows' = rows
    BY <1>1, RowStaysPending
  <1>2. ASSUME NEW c \in Client, UserStep(c), rows' # rows
        PROVE  \A d \in Client, l \in Content : Survives(d, l)
    <2>1. \E k \in Content : Capture(c, k) \/ ToggleStar(c, k) \/ DeleteLocal(c, k)
      BY <1>2 DEF UserStep, SaveSettings, ResetAfterSave, ResetSyncCursor, Restart
    <2> QED
      BY <2>1, CaptureSurvives, ToggleSurvives, DeleteSurvives
  <1>3. ASSUME NEW c \in Client, NEW p \in Task, PushStep(c, p), rows' # rows
        PROVE  PushAcknowledged(c, p)
    BY <1>3 DEF PushStep, ReadBatch, PushReadSettings, PushSend, PushDelivered,
                PushRejected, PushRefused, PushTimedOut
  <1>4. ASSUME NEW c \in Client, PullStep(c), rows' # rows
        PROVE  IngestStar(c) \/ IngestInsert(c)
    BY <1>4 DEF PullStep, PullBegin, PullReadSettings, PullReadCursor, PullPage,
                PullPageFailed, PullNextPage, IngestCheck, DownloadBlob, SkipBlob,
                IngestFailed, PullFinish, CancelPull
  <1>5. ASSUME NEW c \in Client, CancelPush(c) PROVE rows' = rows
    BY <1>5 DEF CancelPush
  <1>6. ASSUME NEW s \in Server, NEW k \in Content, OtherStep(s, k) PROVE rows' = rows
    BY <1>6 DEF OtherStep, OtherDevicePush, AdminStar, AdminDelete
  <1>7. ASSUME NEW r \in late, LateDelivered(r) PROVE rows' = rows
    BY <1>7 DEF LateDelivered
  <1> QED
    BY <1>1, <1>2, <1>3, <1>4, <1>5, <1>6, <1>7, AcknowledgementSurvives, IngestSurvives
    DEF Next

(***************************************************************************)
(* No pull, restart or answer to an older snapshot changes, removes or     *)
(* takes off the queue an edit that has not arrived: only its user can.    *)
(***************************************************************************)
THEOREM PendingEditAlwaysSurvives == Spec => PendingEditSurvives
  <1>1. TypeOK /\ Coherent /\ [Next]_vars =>
           [\A c \in Client, k \in Content :
              rows[c][k] # None /\ ~rows[c][k].synced
                => \/ StillPending(rows[c][k], rows'[c][k])
                   \/ DeleteLocal(c, k)]_rows
    BY NextSurvives DEF Survives, Waiting, vars
  <1> QED
    BY <1>1, TypeCorrect, CoherentAlways, PTL DEF Spec, PendingEditSurvives

-----------------------------------------------------------------------------
(***************************************************************************)
(* The refinement.  First, the actions of Outbox over the mapped state.    *)
(***************************************************************************)

LEMMA MappedRecord ==
    ASSUME NEW c \in Client, NEW k \in Content, NEW e \in Stamp \ (FlyingEdits \cup arrived),
           \A d \in Client, l \in Content : WaitingEdits[d][l] # e,
           WaitingEdits'[c][k] = e, WaitingEdits' = [WaitingEdits EXCEPT ![c][k] = e],
           FlyingEdits' \in {FlyingEdits, FlyingEdits \cup {e}}, arrived' = arrived
    PROVE  O!Next
  <1>1. O!Record(c, k)
    BY DEF O!Record
  <1> QED
    BY <1>1 DEF O!Next

LEMMA MappedWithdraw ==
    ASSUME NEW c \in Client, NEW k \in Content,
           WaitingEdits' = [WaitingEdits EXCEPT ![c][k] = None], FlyingEdits' = FlyingEdits, arrived' = arrived
    PROVE  O!Next
  <1>1. O!Withdraw(c, k)
    BY DEF O!Withdraw
  <1> QED
    BY <1>1 DEF O!Next

LEMMA MappedCopy ==
    ASSUME \A e \in FlyingEdits' \ FlyingEdits : \E c \in Client, k \in Content : e = WaitingEdits[c][k],
           FlyingEdits \subseteq FlyingEdits', WaitingEdits' = WaitingEdits, arrived' = arrived
    PROVE  O!Next
  <1>1. O!Copy
    BY DEF O!Copy
  <1> QED
    BY <1>1 DEF O!Next

LEMMA MappedArrive ==
    ASSUME NEW e \in FlyingEdits, arrived' = arrived \cup {e},
           FlyingEdits' \in {FlyingEdits, FlyingEdits \ {e}}, WaitingEdits' = WaitingEdits
    PROVE  O!Next
  <1>1. O!Arrive(e)
    BY DEF O!Arrive
  <1> QED
    BY <1>1 DEF O!Next

LEMMA MappedLose ==
    ASSUME FlyingEdits' \subseteq FlyingEdits, WaitingEdits' = WaitingEdits, arrived' = arrived
    PROVE  O!Next
  <1>1. O!Lose
    BY DEF O!Lose
  <1> QED
    BY <1>1 DEF O!Next

LEMMA MappedConfirm ==
    ASSUME NEW c \in Client, NEW k \in Content, WaitingEdits[c][k] \in arrived,
           WaitingEdits' = [WaitingEdits EXCEPT ![c][k] = None], FlyingEdits' \subseteq FlyingEdits,
           arrived' = arrived
    PROVE  O!Next
  <1>1. O!Confirm(c, k)
    BY DEF O!Confirm
  <1> QED
    BY <1>1 DEF O!Next

LEMMA MappedStutter ==
    ASSUME FlyingEdits' = FlyingEdits, WaitingEdits' = WaitingEdits, arrived' = arrived
    PROVE  UNCHANGED O!vars
  BY DEF O!vars

-----------------------------------------------------------------------------
\* Then, what the writes of HistorySync do to the mapped state.

LEMMA WaitingStays ==
    ASSUME \A c \in Client, k \in Content :
              /\ Waiting(c, k)' <=> Waiting(c, k)
              /\ Waiting(c, k) => rows'[c][k].edit = rows[c][k].edit
    PROVE  WaitingEdits' = WaitingEdits
  BY DEF WaitingEdits

LEMMA WaitingMoves ==
    ASSUME TypeOK, NEW c \in Client, NEW k \in Content, NEW new,
           rows' = [rows EXCEPT ![c] = [rows[c] EXCEPT ![k] = new]]
    PROVE  WaitingEdits' =
              [WaitingEdits EXCEPT ![c][k] =
                  IF new # None /\ ~new.synced THEN new.edit ELSE None]
  <1> DEFINE e == IF new # None /\ ~new.synced THEN new.edit ELSE None
             W(d, l) == IF Waiting(d, l) THEN rows[d][l].edit ELSE None
  <1>1. ASSUME NEW d \in Client, NEW l \in Content
        PROVE  WaitingEdits'[d][l] = IF d = c /\ l = k THEN e ELSE WaitingEdits[d][l]
    <2>1. rows'[d][l] = IF d = c /\ l = k THEN new ELSE rows[d][l]
      BY DEF TypeOK, Cache
    <2> QED
      BY <2>1 DEF WaitingEdits, Waiting
  <1>2. WaitingEdits = [d \in Client |-> [l \in Content |-> WaitingEdits[d][l]]]
    BY DEF WaitingEdits
  <1>3. WaitingEdits' = [d \in Client |-> [l \in Content |-> WaitingEdits'[d][l]]]
    BY DEF WaitingEdits
  <1> HIDE DEF e
  <1>4. [WaitingEdits EXCEPT ![c][k] = e] =
           [d \in Client |-> [l \in Content |->
              IF d = c /\ l = k THEN e ELSE WaitingEdits[d][l]]]
    BY <1>2
  <1> QED
    BY <1>1, <1>3, <1>4 DEF e

LEMMA WaitingEdit ==
    ASSUME NEW c \in Client, NEW k \in Content
    PROVE  WaitingEdits[c][k] = IF Waiting(c, k) THEN rows[c][k].edit ELSE None
  BY DEF WaitingEdits

LEMMA Flying ==
    /\ \A r \in late : r.edit \in FlyingEdits
    /\ \A c \in Client, p \in Task : \A snap \in Copies(task[c][p]) : snap.edit \in FlyingEdits
    /\ \A e \in FlyingEdits :
          \/ \E r \in late : e = r.edit
          \/ \E c \in Client, p \in Task : \E snap \in Copies(task[c][p]) : e = snap.edit
  <1>1. \A r \in late : r.edit \in FlyingEdits
    BY DEF FlyingEdits
  <1>2. \A c \in Client, p \in Task : \A snap \in Copies(task[c][p]) : snap.edit \in FlyingEdits
    <2>1. \A c \in Client, p \in Task : CopiedEdits(c, p) \subseteq FlyingEdits
      BY DEF FlyingEdits
    <2> QED
      BY <2>1 DEF CopiedEdits
  <1>3. ASSUME NEW e \in FlyingEdits
        PROVE  \/ \E r \in late : e = r.edit
               \/ \E c \in Client, p \in Task : \E snap \in Copies(task[c][p]) : e = snap.edit
    <2>1. CASE e \in {r.edit : r \in late}
      BY <2>1
    <2>2. CASE \E c \in Client, p \in Task : e \in CopiedEdits(c, p)
      BY <2>2 DEF CopiedEdits
    <2> QED
      BY <2>1, <2>2 DEF FlyingEdits
  <1> QED
    BY <1>1, <1>2, <1>3

LEMMA FlyingNext ==
    /\ \A r \in late' : r.edit \in FlyingEdits'
    /\ \A c \in Client, p \in Task : \A snap \in Copies(task'[c][p]) : snap.edit \in FlyingEdits'
    /\ \A e \in FlyingEdits' :
          \/ \E r \in late' : e = r.edit
          \/ \E c \in Client, p \in Task : \E snap \in Copies(task'[c][p]) : e = snap.edit
  <1>1. \A r \in late' : r.edit \in FlyingEdits'
    BY DEF FlyingEdits
  <1>2. \A c \in Client, p \in Task : \A snap \in Copies(task'[c][p]) : snap.edit \in FlyingEdits'
    <2>1. \A c \in Client, p \in Task : CopiedEdits(c, p)' \subseteq FlyingEdits'
      BY DEF FlyingEdits
    <2>2. \A c \in Client, p \in Task : CopiedEdits(c, p)' = {snap.edit : snap \in Copies(task'[c][p])}
      BY DEF CopiedEdits, Copies
    <2> QED
      BY <2>1, <2>2
  <1>3. ASSUME NEW e \in FlyingEdits'
        PROVE  \/ \E r \in late' : e = r.edit
               \/ \E c \in Client, p \in Task : \E snap \in Copies(task'[c][p]) : e = snap.edit
    <2>1. CASE e \in {r.edit : r \in late'}
      BY <2>1
    <2>2. CASE \E c \in Client, p \in Task : e \in CopiedEdits(c, p)'
      BY <2>2 DEF CopiedEdits, Copies
    <2> QED
      BY <2>1, <2>2 DEF FlyingEdits
  <1> QED
    BY <1>1, <1>2, <1>3

LEMMA FlyingShed ==
    ASSUME \A d \in Client, q \in Task : Sheds(task[d][q], task'[d][q]),
           \A r \in late' : r \in late \/ r.edit \in FlyingEdits
    PROVE  FlyingEdits' \subseteq FlyingEdits
  <1>1. \A d \in Client, q \in Task : Copies(task'[d][q]) \subseteq Copies(task[d][q])
    BY DEF Sheds
  <1> QED
    BY <1>1, Flying, FlyingNext

\* Whatever flies or waits was issued, so a new stamp is none of it.
LEMMA NewStampIsNew ==
    ASSUME TypeOK, Coherent, NEW c \in Client
    PROVE  /\ StampOf(c) \in Stamp \ (FlyingEdits \cup arrived)
           /\ \A d \in Client, l \in Content : WaitingEdits[d][l] # StampOf(c)
  <1>1. StampOf(c) \in Stamp /\ StampOf(c).at = clock + 1 /\ clock \in Nat
    BY NowType DEF StampOf, Now, TypeOK
  <1>2. StampOf(c) # None
    BY <1>1, SyncAssumption
  <1>3. \A d : ~Issued(StampOf(c), d)
    BY <1>1 DEF Issued
  <1>4. ASSUME NEW e \in FlyingEdits PROVE e # StampOf(c)
    <2>1. CASE \E r \in late : e = r.edit
      BY <1>3, <2>1 DEF Coherent, RequestsIssued
    <2>2. CASE \E d \in Client, p \in Task : \E snap \in Copies(task[d][p]) : e = snap.edit
      BY <1>3, <2>2 DEF Coherent, CopiesCoherent, CopyCoherent
    <2> QED
      BY <2>1, <2>2, Flying
  <1>5. ASSUME NEW e \in arrived PROVE e # StampOf(c)
    BY <1>3 DEF Coherent, RequestsIssued
  <1>6. ASSUME NEW d \in Client, NEW l \in Content PROVE WaitingEdits[d][l] # StampOf(c)
    <2>1. CASE ~Waiting(d, l)
      BY <1>2, <2>1, WaitingEdit
    <2>2. CASE Waiting(d, l)
      <3>1. Issued(rows[d][l].edit, d)
        BY <2>2 DEF Waiting, Coherent, RowsCoherent, RowCoherent
      <3> QED
        BY <1>3, <2>2, <3>1, WaitingEdit
    <2> QED
      BY <2>1, <2>2
  <1> QED
    BY <1>1, <1>4, <1>5, <1>6

-----------------------------------------------------------------------------
(***************************************************************************)
(* A slot that is free holds no copy, so a task that starts in it drops    *)
(* none.                                                                   *)
(***************************************************************************)
FreeSlotsEmpty ==
    \A c \in Client, p \in Task : task[c][p].stage = "idle" => Copies(task[c][p]) = {}

\* What a step may leave in a slot that was empty if it was free.
Occupied(t, u) == u = t \/ u.stage # "idle" \/ u = IdleTask

LEMMA FreeSlotsStayEmpty ==
    ASSUME FreeSlotsEmpty,
           \A c \in Client, p \in Task : Occupied(task[c][p], task'[c][p])
    PROVE  FreeSlotsEmpty'
  <1>1. Copies(IdleTask) = {}
    BY DEF Copies, IdleTask
  <1>2. ASSUME NEW c \in Client, NEW p \in Task, task'[c][p].stage = "idle"
        PROVE  Copies(task'[c][p]) = {}
    BY <1>1, <1>2 DEF Occupied, FreeSlotsEmpty
  <1> QED
    BY <1>2 DEF FreeSlotsEmpty, Copies

LEMMA OneSlotOccupied ==
    ASSUME TypeOK, NEW c \in Client, NEW p \in Task, NEW u,
           task' = [task EXCEPT ![c][p] = u], Occupied(task[c][p], u)
    PROVE  \A d \in Client, q \in Task : Occupied(task[d][q], task'[d][q])
  BY DEF TypeOK, Occupied

LEMMA SlotStages ==
    ASSUME NEW t \in TaskState, NEW p \in Task
    PROVE  /\ Occupied(t, IdleTask)
           /\ Occupied(t, EndOfPush(p))
           /\ Occupied(t, NextSnapshot(p, t))
           /\ \A snap : Occupied(t, Sending(t, snap))
           /\ \A s : Occupied(t, [t EXCEPT !.stage = "ready", !.srv = s])
           /\ \A at \in {"walk", "answered"} : Occupied(t, [t EXCEPT !.stage = at])
           /\ \A queue :
                 Occupied(t, [IdleTask EXCEPT !.stage = "settings", !.queue = queue])
  <1>1. EndOfPush(p) = IdleTask \/ EndOfPush(p).stage = "wait"
    BY DEF EndOfPush, IdleTask
  <1>2. NextSnapshot(p, t) = EndOfPush(p) \/ NextSnapshot(p, t).stage = "ready"
    BY DEF NextSnapshot, TaskState, TaskRecord
  <1>3. \A snap : Sending(t, snap).stage = "sent"
    BY DEF Sending, TaskState, TaskRecord
  <1>4. \A s : [t EXCEPT !.stage = "ready", !.srv = s].stage = "ready"
    BY DEF TaskState, TaskRecord
  <1>5. \A at \in {"walk", "answered"} : [t EXCEPT !.stage = at].stage = at
    BY DEF TaskState, TaskRecord
  <1>6. \A queue :
           [IdleTask EXCEPT !.stage = "settings", !.queue = queue].stage = "settings"
    BY DEF IdleTask
  <1> QED
    BY <1>1, <1>2, <1>3, <1>4, <1>5, <1>6 DEF Occupied

LEMMA PushOccupies ==
    ASSUME TypeOK, NEW c \in Client, NEW p \in Task, PushStep(c, p)
    PROVE  \A d \in Client, q \in Task : Occupied(task[d][q], task'[d][q])
  <1> DEFINE t == task[c][p]
  <1>0. t \in TaskState
    BY DEF TypeOK
  <1>1. CASE ReadBatch(c, p)
    <2>1. PICK batch :
             task' = [task EXCEPT ![c][p] =
                IF batch = {} THEN EndOfPush(p)
                ELSE [IdleTask EXCEPT !.stage = "settings", !.queue = batch]]
      BY <1>1 DEF ReadBatch
    <2> QED
      BY <1>0, <2>1, SlotStages, OneSlotOccupied
  <1>2. CASE PushReadSettings(c, p)
    BY <1>0, <1>2, SlotStages, OneSlotOccupied DEF PushReadSettings
  <1>3. CASE PushSend(c, p)
    <2>1. PICK snap : task' = [task EXCEPT ![c][p] = Sending(t, snap)]
      BY <1>3 DEF PushSend
    <2>2. Occupied(t, Sending(t, snap))
      BY <1>0, SlotStages
    <2> QED
      BY <2>1, <2>2, OneSlotOccupied
  <1>4. CASE PushDelivered(c, p)
    BY <1>0, <1>4, SlotStages, OneSlotOccupied DEF PushDelivered
  <1>5. CASE PushAcknowledged(c, p) \/ PushRejected(c, p)
    <2>1. task' = [task EXCEPT ![c][p] = NextSnapshot(p, t)]
      BY <1>5 DEF PushAcknowledged, PushRejected
    <2> QED
      BY <1>0, <2>1, SlotStages, OneSlotOccupied
  <1>6. CASE PushRefused(c, p)
    BY <1>0, <1>6, SlotStages, OneSlotOccupied DEF PushRefused
  <1>7. CASE PushTimedOut(c, p)
    BY <1>0, <1>7, SlotStages, OneSlotOccupied DEF PushTimedOut, Occupied
  <1> QED
    BY <1>1, <1>2, <1>3, <1>4, <1>5, <1>6, <1>7 DEF PushStep

LEMMA NextFreeSlots ==
    ASSUME TypeOK, FreeSlotsEmpty, [Next]_vars
    PROVE  FreeSlotsEmpty'
  <1> SUFFICES \A d \in Client, q \in Task : Occupied(task[d][q], task'[d][q])
    BY FreeSlotsStayEmpty
  <1>1. CASE task' = task
    BY <1>1 DEF Occupied
  <1>2. ASSUME NEW c \in Client, NEW k \in Content, Capture(c, k), task' # task
        PROVE  \A d \in Client, q \in Task : Occupied(task[d][q], task'[d][q])
    <2>1. PICK p \in Spawned : \E queue :
             task' = [task EXCEPT ![c][p] =
                [IdleTask EXCEPT !.stage = "settings", !.queue = queue]]
      BY <1>2 DEF Capture
    <2>2. p \in Task /\ task[c][p] \in TaskState
      BY DEF Task, TypeOK
    <2>3. PICK queue :
             task' = [task EXCEPT ![c][p] =
                [IdleTask EXCEPT !.stage = "settings", !.queue = queue]]
      BY <2>1
    <2> QED
      BY <2>2, <2>3, SlotStages, OneSlotOccupied
  <1>3. ASSUME NEW c \in Client, Restart(c) \/ EndWalk(c)
        PROVE  \A d \in Client, q \in Task : Occupied(task[d][q], task'[d][q])
    <2>1. \A d \in Client, q \in Task : task'[d][q] \in {task[d][q], IdleTask}
      <3>1. CASE Restart(c)
        BY <3>1 DEF Restart, TypeOK
      <3>2. CASE EndWalk(c)
        BY <3>2 DEF EndWalk, TypeOK
      <3> QED
        BY <1>3, <3>1, <3>2
    <2> QED
      BY <2>1 DEF Occupied
  <1>4. ASSUME NEW c \in Client, UserStep(c), task' # task
        PROVE  Restart(c) \/ \E k \in Content : Capture(c, k)
    BY <1>4
    DEF UserStep, ToggleStar, DeleteLocal, SaveSettings, ResetAfterSave, ResetSyncCursor,
        pushVars
  <1>5. ASSUME NEW c \in Client, NEW p \in Passer, PullBegin(c, p)
        PROVE  \A d \in Client, q \in Task : Occupied(task[d][q], task'[d][q])
    <2>1. p \in Task /\ task[c][p] \in TaskState
      BY DEF Task, TypeOK
    <2> QED
      BY <1>5, <2>1, SlotStages, OneSlotOccupied DEF PullBegin
  <1>6. ASSUME NEW c \in Client, task' = [task EXCEPT ![c]["now"] = IdleTask]
        PROVE  \A d \in Client, q \in Task : Occupied(task[d][q], task'[d][q])
    BY <1>6 DEF Occupied, TypeOK
  <1>7. ASSUME NEW c \in Client, PullStep(c), task' # task
        PROVE  \/ \E p \in Passer : PullBegin(c, p)
               \/ EndWalk(c)
               \/ task' = [task EXCEPT ![c]["now"] = IdleTask]
    BY <1>7
    DEF PullStep, PullReadSettings, PullReadCursor, PullPage, PullPageFailed, PullNextPage,
        IngestCheck, IngestStar, DownloadBlob, SkipBlob, IngestInsert, IngestFailed,
        Ingested, PullFinish, CancelPull, pushVars
  <1>8. ASSUME NEW c \in Client, CancelPush(c)
        PROVE  task' = [task EXCEPT ![c]["now"] = IdleTask]
    BY <1>8 DEF CancelPush
  <1>9. ASSUME NEW s \in Server, NEW k \in Content, OtherStep(s, k) PROVE task' = task
    BY <1>9 DEF OtherStep, OtherDevicePush, AdminStar, AdminDelete, pushVars
  <1>10. ASSUME NEW r \in late, LateDelivered(r) PROVE task' = task
    BY <1>10 DEF LateDelivered
  <1>11. CASE UNCHANGED vars
    BY <1>1, <1>11 DEF vars
  <1> QED
    BY <1>1, <1>2, <1>3, <1>4, <1>5, <1>6, <1>7, <1>8, <1>9, <1>10, <1>11, PushOccupies
    DEF Next

-----------------------------------------------------------------------------
(***************************************************************************)
(* Every step is a step of Outbox or stutters.                             *)
(***************************************************************************)

\* A step that writes no row, lets nothing arrive and takes no copy.
LEMMA SheddingLoses ==
    ASSUME UNCHANGED <<rows, arrived>>,
           \A d \in Client, q \in Task : Sheds(task[d][q], task'[d][q]),
           \A r \in late' : r \in late \/ r.edit \in FlyingEdits
    PROVE  O!Next
  <1>1. WaitingEdits' = WaitingEdits
    BY WaitingStays DEF Waiting
  <1>2. FlyingEdits' \subseteq FlyingEdits
    BY FlyingShed
  <1> QED
    BY <1>1, <1>2, MappedLose

LEMMA SameTasksFly ==
    ASSUME UNCHANGED <<task, late>>
    PROVE  FlyingEdits' = FlyingEdits
  BY DEF FlyingEdits, CopiedEdits, Copies

\* A step that touches nothing of the outbox.
LEMMA OutsideOutbox ==
    ASSUME UNCHANGED <<rows, task, late, arrived>>
    PROVE  O!Next
  BY SheddingLoses DEF Sheds

LEMMA CaptureMaps ==
    ASSUME TypeOK, Coherent, FreeSlotsEmpty,
           NEW c \in Client, NEW k \in Content, Capture(c, k)
    PROVE  [O!Next]_O!vars
  <1> DEFINE stamp == StampOf(c)
  <1>1. /\ stamp \in Stamp \ (FlyingEdits \cup arrived)
        /\ \A d \in Client, l \in Content : WaitingEdits[d][l] # stamp
    BY NewStampIsNew
  <1>2. PICK new \in LocalRow :
           /\ InsertEntry(rows[c], k, stamp) = [rows[c] EXCEPT ![k] = new]
           /\ new.updated = stamp
           /\ rows[c][k] = None => new.edit = stamp /\ ~new.synced
           /\ rows[c][k] # None =>
                 new.edit = rows[c][k].edit /\ new.synced = rows[c][k].synced
    BY <1>1, InsertEntryAt DEF TypeOK
  <1> HIDE DEF stamp
  <1>3. rows' = [rows EXCEPT ![c] = [rows[c] EXCEPT ![k] = new]]
    BY <1>2 DEF Capture, stamp
  <1>4. rows'[c][k] = new /\ new # None
    BY <1>3, SyncAssumption DEF TypeOK, Cache
  <1>5. UNCHANGED <<late, arrived>>
    BY DEF Capture
  <1>6. CASE rows[c][k] # None
    <2>1. UNCHANGED task
      BY <1>6 DEF Capture
    <2>2. ASSUME NEW d \in Client, NEW l \in Content
          PROVE  /\ Waiting(d, l)' <=> Waiting(d, l)
                 /\ Waiting(d, l) => rows'[d][l].edit = rows[d][l].edit
      <3>1. CASE d = c /\ l = k
        BY <1>2, <1>4, <1>6, <3>1 DEF Waiting
      <3>2. CASE ~(d = c /\ l = k)
        <4>1. rows'[d][l] = rows[d][l]
          BY <1>3, <3>2 DEF TypeOK, Cache
        <4> QED
          BY <4>1 DEF Waiting
      <3> QED
        BY <3>1, <3>2
    <2>3. WaitingEdits' = WaitingEdits
      BY <2>2, WaitingStays
    <2>4. FlyingEdits' = FlyingEdits
      BY <1>5, <2>1, SameTasksFly
    <2> QED
      BY <1>5, <2>3, <2>4, MappedStutter
  <1>7. CASE rows[c][k] = None
    <2>1. WaitingEdits' = [WaitingEdits EXCEPT ![c][k] = stamp]
      <3>1. new # None /\ ~new.synced /\ new.edit = stamp
        BY <1>2, <1>4, <1>7
      <3> QED
        BY <1>3, <3>1, WaitingMoves
    <2>2. WaitingEdits'[c][k] = stamp
      BY <2>1 DEF WaitingEdits
    <2>3. FlyingEdits' \in {FlyingEdits, FlyingEdits \cup {stamp}}
      <3>1. CASE UNCHANGED task
        BY <1>5, <3>1, SameTasksFly
      <3>2. CASE ~UNCHANGED task
        <4>1. PICK snap : snap = SnapshotOf(rows'[c], k)
          OBVIOUS
        <4>2. PICK p \in Spawned :
                 /\ task[c][p].stage = "idle"
                 /\ task' = [task EXCEPT ![c][p] =
                       [IdleTask EXCEPT !.stage = "settings", !.queue = {snap}]]
          BY <3>2, <4>1 DEF Capture
        <4> DEFINE u == [IdleTask EXCEPT !.stage = "settings", !.queue = {snap}]
        <4>3. snap.edit = stamp /\ Copies(u) = {snap}
          BY <1>2, <1>4, <1>7, <4>1 DEF SnapshotOf, Copies, IdleTask
        <4> HIDE DEF u
        <4>4. p \in Task /\ Copies(task[c][p]) = {}
          BY <4>2 DEF Task, FreeSlotsEmpty
        <4>5. \A d \in Client, q \in Task :
                 task'[d][q] = IF d = c /\ q = p THEN u ELSE task[d][q]
          BY <4>2, <4>4 DEF TypeOK, u
        <4>6. FlyingEdits \subseteq FlyingEdits'
          BY <1>5, <4>4, <4>5, Flying, FlyingNext
        <4>7. stamp \in FlyingEdits'
          BY <4>3, <4>4, <4>5, FlyingNext
        <4>8. FlyingEdits' \subseteq FlyingEdits \cup {stamp}
          BY <1>5, <4>3, <4>5, Flying, FlyingNext
        <4> QED
          BY <4>6, <4>7, <4>8
      <3> QED
        BY <3>1, <3>2
    <2> QED
      BY <1>1, <1>5, <2>1, <2>2, <2>3, MappedRecord
  <1> QED
    BY <1>6, <1>7

LEMMA ToggleMaps ==
    ASSUME TypeOK, Coherent, NEW c \in Client, NEW k \in Content, ToggleStar(c, k)
    PROVE  O!Next
  <1>1. /\ StampOf(c) \in Stamp \ (FlyingEdits \cup arrived)
        /\ \A d \in Client, l \in Content : WaitingEdits[d][l] # StampOf(c)
    BY NewStampIsNew
  <1>2. PICK new : new = [starred |-> ~rows[c][k].starred, synced |-> FALSE,
                          updated |-> StampOf(c), edit |-> StampOf(c)]
    OBVIOUS
  <1>3. rows' = [rows EXCEPT ![c] = [rows[c] EXCEPT ![k] = new]]
    BY <1>2 DEF ToggleStar, FlipStar
  <1>4. new # None /\ ~new.synced /\ new.edit = StampOf(c)
    <2>1. new \in LocalRow
      BY <1>1, <1>2 DEF ToggleStar, TypeOK, Cache, LocalRow
    <2> QED
      BY <1>2, <2>1, SyncAssumption
  <1>5. WaitingEdits' = [WaitingEdits EXCEPT ![c][k] = StampOf(c)]
    BY <1>3, <1>4, WaitingMoves
  <1>6. WaitingEdits'[c][k] = StampOf(c)
    BY <1>5 DEF WaitingEdits
  <1>7. FlyingEdits' = FlyingEdits /\ arrived' = arrived
    BY SameTasksFly DEF ToggleStar, pushVars
  <1> QED
    BY <1>1, <1>5, <1>6, <1>7, MappedRecord

LEMMA DeleteMaps ==
    ASSUME TypeOK, NEW c \in Client, NEW k \in Content, DeleteLocal(c, k)
    PROVE  O!Next
  <1>1. rows' = [rows EXCEPT ![c] = [rows[c] EXCEPT ![k] = None]]
    BY DEF DeleteLocal, RemoveEntry
  <1>2. WaitingEdits' = [WaitingEdits EXCEPT ![c][k] = None]
    BY <1>1, WaitingMoves
  <1>3. FlyingEdits' = FlyingEdits /\ arrived' = arrived
    BY SameTasksFly DEF DeleteLocal, pushVars
  <1> QED
    BY <1>2, <1>3, MappedWithdraw

LEMMA UserMaps ==
    ASSUME TypeOK, Coherent, FreeSlotsEmpty, NEW c \in Client, UserStep(c)
    PROVE  [O!Next]_O!vars
  <1>1. ASSUME NEW k \in Content, Capture(c, k) \/ ToggleStar(c, k) \/ DeleteLocal(c, k)
        PROVE  [O!Next]_O!vars
    BY <1>1, CaptureMaps, ToggleMaps, DeleteMaps
  <1>2. ASSUME NEW s \in Server \cup {None}, SaveSettings(c, s) PROVE O!Next
    BY <1>2, OutsideOutbox DEF SaveSettings, pushVars
  <1>3. CASE ResetAfterSave(c) \/ ResetSyncCursor(c)
    BY <1>3, OutsideOutbox DEF ResetAfterSave, ResetSyncCursor, pushVars
  <1>4. CASE Restart(c)
    <2>1. ASSUME NEW d \in Client, NEW q \in Task PROVE Sheds(task[d][q], task'[d][q])
      <3>1. task'[d][q] \in {task[d][q], IdleTask} /\ task[d][q] \in TaskState
        BY <1>4 DEF Restart, TypeOK
      <3> QED
        BY <3>1, SheddingTasks DEF Sheds, Task
    <2>2. \A r \in late' : r \in late \/ r \in InFlight(c, Task)
      BY <1>4 DEF Restart
    <2>3. \A r \in InFlight(c, Task) : r.edit \in FlyingEdits
      BY Flying DEF InFlight, RequestOf, Copies, TypeOK, TaskState
    <2> QED
      BY <1>4, <2>1, <2>2, <2>3, SheddingLoses DEF Restart
  <1> QED
    BY <1>1, <1>2, <1>3, <1>4 DEF UserStep

LEMMA PushMaps ==
    ASSUME TypeOK, Coherent, FreeSlotsEmpty, NEW c \in Client, NEW p \in Task, PushStep(c, p)
    PROVE  O!Next
  <1> DEFINE t == task[c][p]
  <1>0. t \in TaskState
    BY DEF TypeOK
  <1>1. CASE ReadBatch(c, p)
    <2>1. PICK batch \in UnsyncedBatches(rows[c], BatchLimit) :
             task' = [task EXCEPT ![c][p] =
                IF batch = {} THEN EndOfPush(p)
                ELSE [IdleTask EXCEPT !.stage = "settings", !.queue = batch]]
      BY <1>1 DEF ReadBatch
    <2> DEFINE u == IF batch = {} THEN EndOfPush(p)
                    ELSE [IdleTask EXCEPT !.stage = "settings", !.queue = batch]
    <2>2. Copies(u) \subseteq batch
      BY DEF Copies, IdleTask, EndOfPush
    <2> HIDE DEF u
    <2>3. \A d \in Client, q \in Task : task'[d][q] = IF d = c /\ q = p THEN u ELSE task[d][q]
      BY <2>1 DEF TypeOK, u
    <2>4. Copies(t) = {}
      BY <1>1 DEF ReadBatch, FreeSlotsEmpty
    <2>5. UNCHANGED <<rows, late, arrived>>
      BY <1>1 DEF ReadBatch
    <2>6. WaitingEdits' = WaitingEdits
      BY <2>5, WaitingStays DEF Waiting
    <2>7. FlyingEdits \subseteq FlyingEdits'
      BY <2>3, <2>4, <2>5, Flying, FlyingNext
    <2>8. ASSUME NEW e \in FlyingEdits' \ FlyingEdits
          PROVE  \E k \in Content : e = WaitingEdits[c][k]
      <3>1. PICK snap \in batch : e = snap.edit
        BY <2>2, <2>3, <2>5, Flying, FlyingNext
      <3>2. PICK k \in Content : Waiting(c, k) /\ snap = SnapshotOf(rows[c], k)
        BY DEF UnsyncedBatches, Unsynced, Waiting
      <3>3. e = rows[c][k].edit
        BY <3>1, <3>2 DEF SnapshotOf
      <3> QED
        BY <3>2, <3>3, WaitingEdit
    <2> QED
      BY <2>5, <2>6, <2>7, <2>8, MappedCopy
  \* A task that goes on, and takes nothing new.
  <1>a. ASSUME NEW u, task' = [task EXCEPT ![c][p] = u], Sheds(t, u),
               UNCHANGED <<rows, arrived>>,
               \A r \in late' : r \in late \/ (t.stage = "sent" /\ r = RequestOf(t))
        PROVE  O!Next
    <2>1. t.stage = "sent" => RequestOf(t).edit \in FlyingEdits
      BY <1>0, Flying DEF RequestOf, Copies, TaskState
    <2> QED
      BY <1>a, <2>1, OneTaskSheds, SheddingLoses
  <1>2. CASE PushReadSettings(c, p)
    <2>1. PICK u : task' = [task EXCEPT ![c][p] = u] /\ Sheds(t, u)
      <3>1. CASE config[c] = None
        BY <1>0, <1>2, <3>1, SheddingTasks DEF PushReadSettings
      <3>2. CASE config[c] # None
        <4>1. config[c] \in Server
          BY <3>2 DEF TypeOK
        <4> QED
          BY <1>0, <1>2, <3>2, <4>1, SheddingTasks DEF PushReadSettings
      <3> QED
        BY <3>1, <3>2
    <2> QED
      BY <1>2, <1>a, <2>1 DEF PushReadSettings
  <1>3. CASE PushSend(c, p)
    <2>1. PICK snap \in t.queue : task' = [task EXCEPT ![c][p] = Sending(t, snap)]
      BY <1>3 DEF PushSend
    <2>2. Sheds(t, Sending(t, snap))
      BY <1>0, SheddingTasks
    <2> QED
      BY <1>3, <1>a, <2>1, <2>2 DEF PushSend
  <1>4. CASE PushDelivered(c, p)
    <2> DEFINE u == [t EXCEPT !.stage = "answered"]
    <2>1. Copies(u) = Copies(t) /\ t.cur \in Copies(t)
      BY <1>0, <1>4 DEF PushDelivered, Copies, TaskState, TaskRecord
    <2>2. task' = [task EXCEPT ![c][p] = u] /\ UNCHANGED <<rows, late>>
      BY <1>4 DEF PushDelivered
    <2>3. arrived' = arrived \cup {t.cur.edit}
      BY <1>4 DEF PushDelivered, Store, RequestOf
    <2> HIDE DEF u
    <2>4. \A d \in Client, q \in Task : Copies(task'[d][q]) = Copies(task[d][q])
      BY <2>1, <2>2 DEF TypeOK
    <2>5. FlyingEdits' = FlyingEdits
      <3>1. FlyingEdits' \subseteq FlyingEdits
        BY <2>2, <2>4, Flying, FlyingNext
      <3>2. FlyingEdits \subseteq FlyingEdits'
        BY <2>2, <2>4, Flying, FlyingNext
      <3> QED
        BY <3>1, <3>2
    <2>6. WaitingEdits' = WaitingEdits
      BY <2>2, WaitingStays DEF Waiting
    <2>7. t.cur.edit \in FlyingEdits
      BY <2>1, Flying
    <2> QED
      BY <2>3, <2>5, <2>6, <2>7, MappedArrive
  <1>5. CASE PushAcknowledged(c, p)
    <2>1. UNCHANGED <<late, arrived>> /\ task' = [task EXCEPT ![c][p] = NextSnapshot(p, t)]
      BY <1>5 DEF PushAcknowledged
    <2>2. Sheds(t, NextSnapshot(p, t))
      BY <1>0, <1>5, SheddingTasks DEF PushAcknowledged
    <2>3. CopyCoherent(c, t.cur) /\ t.cur.edit \in arrived /\ t.cur.key \in Content
      BY <1>0, <1>5, RequestOfTaskIssued
      DEF PushAcknowledged, Coherent, AnswersArrived, TaskState, TaskRecord, Snapshot
    <2>4. PICK k \in Content : k = t.cur.key
      BY <2>3
    <2>5. CASE Waiting(c, k) /\ rows[c][k].updated = t.cur.updated
      <3>1. PICK new : new = [rows[c][k] EXCEPT !.synced = TRUE]
        OBVIOUS
      <3>2. rows' = [rows EXCEPT ![c] = [rows[c] EXCEPT ![k] = new]]
        BY <1>5, <2>4, <2>5, <3>1 DEF PushAcknowledged, MarkSyncedIfUnchanged, Waiting
      <3>3. new.synced
        BY <2>5, <3>1 DEF Waiting, TypeOK, Cache, LocalRow
      <3>4. WaitingEdits' = [WaitingEdits EXCEPT ![c][k] = None]
        BY <3>2, <3>3, WaitingMoves
      <3>5. WaitingEdits[c][k] \in arrived
        BY <2>3, <2>4, <2>5, WaitingEdit DEF CopyCoherent, Waiting
      <3>6. FlyingEdits' \subseteq FlyingEdits
        BY <2>1, <2>2, OneTaskSheds, FlyingShed
      <3> QED
        BY <2>1, <3>4, <3>5, <3>6, MappedConfirm
    <2>6. CASE ~(Waiting(c, k) /\ rows[c][k].updated = t.cur.updated)
      <3>1. rows' = rows
        <4>1. CASE rows[c][k] # None /\ rows[c][k].updated = t.cur.updated
          <5>1. rows[c][k] \in LocalRow /\ rows[c][k].synced = TRUE
            BY <2>6, <4>1 DEF Waiting, TypeOK, Cache, LocalRow
          <5>2. [rows[c][k] EXCEPT !.synced = TRUE] = rows[c][k]
            BY <5>1 DEF LocalRow
          <5>3. rows' = [rows EXCEPT ![c] = [rows[c] EXCEPT ![k] = rows[c][k]]]
            BY <1>5, <2>4, <4>1, <5>2 DEF PushAcknowledged, MarkSyncedIfUnchanged
          <5> QED
            BY <5>3 DEF TypeOK, Cache
        <4>2. CASE ~(rows[c][k] # None /\ rows[c][k].updated = t.cur.updated)
          BY <1>5, <2>4, <4>2 DEF PushAcknowledged, MarkSyncedIfUnchanged, TypeOK
        <4> QED
          BY <4>1, <4>2
      <3> QED
        BY <1>a, <2>1, <2>2, <3>1
    <2> QED
      BY <2>5, <2>6
  <1>6. CASE PushRejected(c, p)
    BY <1>0, <1>6, <1>a, SheddingTasks DEF PushRejected
  <1>7. CASE PushRefused(c, p)
    BY <1>0, <1>7, <1>a, SheddingTasks DEF PushRefused
  <1>8. CASE PushTimedOut(c, p)
    <2>1. PICK u : task' = [task EXCEPT ![c][p] = u] /\ u \in {t, NextSnapshot(p, t)}
      <3>1. CASE UNCHANGED task
        <4>1. task = [task EXCEPT ![c][p] = t]
          BY DEF TypeOK
        <4> QED
          BY <3>1, <4>1
      <3> QED
        BY <1>8, <3>1 DEF PushTimedOut
    <2>2. Sheds(t, u)
      BY <1>0, <1>8, <2>1, SheddingTasks DEF PushTimedOut, Sheds
    <2> QED
      BY <1>8, <1>a, <2>1, <2>2 DEF PushTimedOut
  <1> QED
    BY <1>1, <1>2, <1>3, <1>4, <1>5, <1>6, <1>7, <1>8 DEF PushStep

LEMMA CancelPushMaps ==
    ASSUME TypeOK, NEW c \in Client, CancelPush(c)
    PROVE  O!Next
  <1>1. "now" \in Task /\ task[c]["now"] \in TaskState
    BY DEF CancelPush, Task, TypeOK
  <1>2. \A d \in Client, q \in Task : Sheds(task[d][q], task'[d][q])
    BY <1>1, SheddingTasks, OneTaskSheds DEF CancelPush
  <1>3. \A r \in InFlight(c, {"now"}) : r.edit \in FlyingEdits
    BY <1>1, Flying DEF InFlight, RequestOf, Copies, TypeOK, TaskState
  <1> QED
    BY <1>2, <1>3, SheddingLoses DEF CancelPush

LEMMA LateMaps ==
    ASSUME NEW r \in late, LateDelivered(r)
    PROVE  O!Next
  <1>1. UNCHANGED <<rows, task>> /\ arrived' = arrived \cup {r.edit} /\ late' = late \ {r}
    BY DEF LateDelivered, Store
  <1>2. WaitingEdits' = WaitingEdits
    BY <1>1, WaitingStays DEF Waiting
  <1>3. \A d \in Client, q \in Task : Copies(task'[d][q]) = Copies(task[d][q])
    BY <1>1
  <1>4. FlyingEdits' \subseteq FlyingEdits /\ FlyingEdits \ {r.edit} \subseteq FlyingEdits'
    BY <1>1, <1>3, Flying, FlyingNext
  <1>5. r.edit \in FlyingEdits
    BY Flying
  <1> QED
    BY <1>1, <1>2, <1>4, <1>5, MappedArrive

\* A pull writes no row that waits, and leaves the edits of the others.
LEMMA IngestMaps ==
    ASSUME TypeOK, NEW c \in Client, IngestStar(c) \/ IngestInsert(c)
    PROVE  [O!Next]_O!vars
  <1>1. UNCHANGED <<task, late, arrived>>
    BY DEF IngestStar, IngestInsert, Ingested, pushVars
  <1>2. ASSUME NEW d \in Client, NEW l \in Content
        PROVE  /\ Waiting(d, l)' <=> Waiting(d, l)
               /\ Waiting(d, l) => rows'[d][l].edit = rows[d][l].edit
    <2>0. PICK i \in pull[c].page : \E stamp, cache :
             /\ rows' = [rows EXCEPT ![c] = cache]
             /\ \/ cache = ApplyRemoteStarState(rows[c], i.key, i.starred, stamp) /\ stamp \in Stamp
                \/ cache = InsertRemoteEntry(rows[c], i.key, i.starred, stamp)
      BY NowType DEF IngestStar, IngestInsert
    <2>1. PICK stamp, cache :
             /\ rows' = [rows EXCEPT ![c] = cache]
             /\ \/ cache = ApplyRemoteStarState(rows[c], i.key, i.starred, stamp) /\ stamp \in Stamp
                \/ cache = InsertRemoteEntry(rows[c], i.key, i.starred, stamp)
      BY <2>0
    <2>2. rows[c] \in [Content -> LocalRow \cup {None}]
      BY DEF TypeOK, Cache
    <2>3. rows'[d] = IF d = c THEN cache ELSE rows[d]
      BY <2>1 DEF TypeOK
    <2>4. \/ cache[l] = rows[c][l]
          \/ rows[c][l] = None /\ cache[l].synced
          \/ /\ rows[c][l] # None /\ rows[c][l].synced
             /\ cache[l] # None /\ cache[l].synced
      <3>1. CASE cache = ApplyRemoteStarState(rows[c], i.key, i.starred, stamp) /\ stamp \in Stamp
        <4>1. CASE cache[l] # rows[c][l]
          <5>1. /\ rows[c][l] \in LocalRow /\ rows[c][l].synced
                /\ cache[l] = [rows[c][l] EXCEPT !.starred = i.starred, !.updated = stamp]
            BY <2>2, <3>1, <4>1 DEF ApplyRemoteStarState
          <5>2. i.starred \in BOOLEAN
            BY DEF TypeOK, PullState, PullRecord, Item
          <5>3. cache[l] \in LocalRow /\ cache[l].synced
            BY <3>1, <5>1, <5>2 DEF LocalRow
          <5> QED
            BY <5>1, <5>3, SyncAssumption
        <4> QED
          BY <4>1
      <3>2. CASE cache = InsertRemoteEntry(rows[c], i.key, i.starred, stamp)
        BY <2>2, <3>2 DEF InsertRemoteEntry
      <3> QED
        BY <2>1, <3>1, <3>2
    <2> QED
      BY <2>3, <2>4 DEF Waiting
  <1>3. WaitingEdits' = WaitingEdits
    BY <1>2, WaitingStays
  <1>4. FlyingEdits' = FlyingEdits
    BY <1>1, SameTasksFly
  <1> QED
    BY <1>1, <1>3, <1>4, MappedStutter

LEMMA PullMaps ==
    ASSUME TypeOK, NEW c \in Client, PullStep(c)
    PROVE  [O!Next]_O!vars
  <1>1. ASSUME NEW p \in Passer, PullBegin(c, p) PROVE O!Next
    <2>1. p \in Task /\ task[c][p] \in TaskState
      BY DEF Task, TypeOK
    <2>2. \A d \in Client, q \in Task : Sheds(task[d][q], task'[d][q])
      BY <1>1, <2>1, SheddingTasks, OneTaskSheds DEF PullBegin
    <2> QED
      BY <1>1, <2>2, SheddingLoses DEF PullBegin
  <1>2. ASSUME EndWalk(c), rows' = rows PROVE O!Next
    BY <1>2, EndWalkSheds, SheddingLoses DEF EndWalk
  <1>3. CASE PullReadSettings(c)
    BY <1>2, <1>3, OutsideOutbox DEF PullReadSettings, pushVars
  <1>4. CASE PullReadCursor(c) \/ PullPage(c) \/ PullNextPage(c) \/ IngestCheck(c)
               \/ DownloadBlob(c) \/ IngestFailed(c)
    BY <1>4, OutsideOutbox
    DEF PullReadCursor, PullPage, PullNextPage, IngestCheck, DownloadBlob, IngestFailed,
        pushVars
  <1>5. CASE SkipBlob(c)
    BY <1>5, OutsideOutbox DEF SkipBlob, Ingested, pushVars
  <1>6. CASE IngestStar(c) \/ IngestInsert(c)
    BY <1>6, IngestMaps
  <1>7. CASE PullPageFailed(c) \/ PullFinish(c)
    BY <1>2, <1>7 DEF PullPageFailed, PullFinish
  <1>8. CASE CancelPull(c)
    <2>1. CASE task' = [task EXCEPT ![c]["now"] = IdleTask] /\ UNCHANGED <<late, arrived>>
      <3>1. "now" \in Task /\ task[c]["now"] \in TaskState
        BY <1>8 DEF CancelPull, Task, TypeOK
      <3>2. \A d \in Client, q \in Task : Sheds(task[d][q], task'[d][q])
        BY <2>1, <3>1, SheddingTasks, OneTaskSheds
      <3> QED
        BY <1>8, <2>1, <3>2, SheddingLoses DEF CancelPull
    <2> QED
      BY <1>2, <1>8, <2>1 DEF CancelPull
  <1> QED
    BY <1>1, <1>3, <1>4, <1>5, <1>6, <1>7, <1>8 DEF PullStep

LEMMA NextMaps ==
    ASSUME TypeOK, Coherent, FreeSlotsEmpty, [Next]_vars
    PROVE  [O!Next]_O!vars
  <1>1. ASSUME NEW s \in Server, NEW k \in Content, OtherStep(s, k) PROVE O!Next
    BY <1>1, OutsideOutbox DEF OtherStep, OtherDevicePush, AdminStar, AdminDelete, pushVars
  <1>2. CASE UNCHANGED vars
    BY <1>2, OutsideOutbox DEF vars
  <1> QED
    BY <1>1, <1>2, UserMaps, PushMaps, PullMaps, CancelPushMaps, LateMaps DEF Next

LEMMA InitMaps == Init => O!Init
  <1> SUFFICES ASSUME Init PROVE O!Init
    OBVIOUS
  <1>1. WaitingEdits = [c \in Client |-> [k \in Content |-> None]]
    BY DEF Init, EmptyCache, WaitingEdits, Waiting
  <1>2. \A c \in Client, p \in Task : Copies(task[c][p]) = {}
    BY DEF Init, IdleTask, Copies
  <1>3. FlyingEdits = {}
    BY <1>2, Flying DEF Init
  <1> QED
    BY <1>1, <1>3 DEF Init, O!Init

\* A task slot that is free carries nothing over to the task that takes it.
THEOREM FreeSlotsAlwaysEmpty == Spec => []FreeSlotsEmpty
  <1>1. Init => FreeSlotsEmpty
    BY DEF Init, IdleTask, Copies, FreeSlotsEmpty
  <1>2. TypeOK /\ FreeSlotsEmpty /\ [Next]_vars => FreeSlotsEmpty'
    BY NextFreeSlots
  <1> QED
    BY <1>1, <1>2, TypeCorrect, PTL DEF Spec

(***************************************************************************)
(* The protocol of tasks, batches, requests, acknowledgements, retries,    *)
(* pulls and restarts keeps the outbox's promise: an edit waits until it   *)
(* has arrived or its user replaces or withdraws it, and nothing arrives   *)
(* that was not a copy of an edit that waited.                             *)
(***************************************************************************)
THEOREM SyncImplementsOutbox == Spec => ImplementsOutbox
  <1>1. Init => O!Init
    BY InitMaps
  <1>2. TypeOK /\ Coherent /\ FreeSlotsEmpty /\ [Next]_vars => [O!Next]_O!vars
    BY NextMaps
  <1> QED
    BY <1>1, <1>2, TypeCorrect, CoherentAlways, FreeSlotsAlwaysEmpty, PTL
    DEF Spec, ImplementsOutbox, O!Spec
=============================================================================
