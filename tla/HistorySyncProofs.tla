------------------------- MODULE HistorySyncProofs -------------------------
(***************************************************************************)
(* What TLAPS proves of HistorySync, for every set of clients, servers,    *)
(* contents and tasks, and every bound.                                    *)
(***************************************************************************)
EXTENDS HistorySync, TLAPS

-----------------------------------------------------------------------------
(***************************************************************************)
(* The operations on the two histories map histories to histories.         *)
(***************************************************************************)

LEMMA InsertEntryType ==
    ASSUME NEW r \in Cache, NEW k \in Content, NEW now \in Stamp
    PROVE  InsertEntry(r, k, now) \in Cache
  BY SyncAssumption DEF Cache, LocalRow, InsertEntry

LEMMA InsertEntryRow ==
    ASSUME NEW r \in Cache, NEW k \in Content, NEW now \in Stamp
    PROVE  InsertEntry(r, k, now)[k] \in LocalRow
  <1>1. CASE r[k] = None
    BY <1>1 DEF Cache, LocalRow, InsertEntry
  <1>2. CASE r[k] # None
    <2>1. r[k] \in LocalRow
      BY <1>2 DEF Cache
    <2> QED
      BY <1>2, <2>1 DEF Cache, LocalRow, InsertEntry
  <1> QED
    BY <1>1, <1>2

LEMMA FlipStarType ==
    ASSUME NEW r \in Cache, NEW k \in Content, NEW now \in Stamp, r[k] # None
    PROVE  FlipStar(r, k, now) \in Cache
  BY SyncAssumption DEF Cache, LocalRow, FlipStar

LEMMA RemoveEntryType ==
    ASSUME NEW r \in Cache, NEW k \in Content
    PROVE  RemoveEntry(r, k) \in Cache
  BY DEF Cache, RemoveEntry

LEMMA InsertRemoteEntryType ==
    ASSUME NEW r \in Cache, NEW k \in Content, NEW now \in Stamp,
           NEW starred \in BOOLEAN
    PROVE  InsertRemoteEntry(r, k, starred, now) \in Cache
  BY DEF Cache, LocalRow, InsertRemoteEntry

LEMMA ApplyRemoteStarStateType ==
    ASSUME NEW r \in Cache, NEW k \in Content, NEW now \in Stamp,
           NEW starred \in BOOLEAN
    PROVE  ApplyRemoteStarState(r, k, starred, now) \in Cache
  BY DEF Cache, LocalRow, ApplyRemoteStarState

LEMMA MarkSyncedType ==
    ASSUME NEW r \in Cache, NEW k \in Content, NEW pushed \in Stamp
    PROVE  MarkSyncedIfUnchanged(r, k, pushed) \in Cache
  BY DEF Cache, LocalRow, MarkSyncedIfUnchanged

LEMMA SnapshotType ==
    ASSUME NEW r \in Cache, NEW k \in Content, r[k] # None
    PROVE  SnapshotOf(r, k) \in Snapshot
  BY DEF Cache, LocalRow, SnapshotOf, Snapshot

LEMMA UnsyncedType ==
    ASSUME NEW r \in Cache
    PROVE  Unsynced(r) \subseteq Snapshot
  BY SnapshotType DEF Unsynced

LEMMA CreateEntryType ==
    ASSUME NEW h \in History, NEW k \in Content, NEW now \in Nat,
           NEW starred \in BOOLEAN \cup {None}, NEW edit \in Stamp \cup {None}
    PROVE  CreateEntry(h, k, starred, edit, now) \in History
  BY SyncAssumption DEF History, ServerRow, CreateEntry

LEMMA UpdateEntryStarredType ==
    ASSUME NEW h \in History, NEW k \in Content, NEW now \in Nat,
           NEW starred \in BOOLEAN, NEW edit \in Stamp \cup {None}
    PROVE  UpdateEntryStarred(h, k, starred, edit, now) \in History
  BY DEF History, ServerRow, UpdateEntryStarred

LEMMA DeleteEntryType ==
    ASSUME NEW h \in History, NEW k \in Content
    PROVE  DeleteEntry(h, k) \in History
  BY DEF History, DeleteEntry

LEMMA ItemsType ==
    ASSUME NEW h \in History
    PROVE  Items(h) \subseteq Item
  BY SyncAssumption DEF History, ServerRow, Items, Item
-----------------------------------------------------------------------------
(***************************************************************************)
(* Updates of one task and of one walk.                                    *)
(***************************************************************************)

LEMMA NowType ==
    ASSUME TypeOK
    PROVE  /\ Now \in Nat
           /\ \A d \in Client \cup Server : StampOf(d) \in Stamp
  BY DEF TypeOK, Now, StampOf, Stamp

LEMMA IdleTaskType == IdleTask \in TaskState
  BY DEF IdleTask, TaskState, TaskRecord

LEMMA IdlePullType == IdlePull \in PullState
  BY DEF IdlePull, PullState, PullRecord

LEMMA EndOfPushType == \A p \in Task : EndOfPush(p) \in TaskState
  BY DEF EndOfPush, IdleTask, TaskState, TaskRecord

LEMMA NewTaskType ==
    ASSUME NEW queue \in SUBSET Snapshot
    PROVE  [IdleTask EXCEPT !.stage = "settings", !.queue = queue] \in TaskState
  BY DEF IdleTask, TaskState, TaskRecord

LEMMA NextSnapshotType ==
    ASSUME NEW p \in Task, NEW t \in TaskState,
           t.stage \in {"ready", "sent", "answered"}
    PROVE  NextSnapshot(p, t) \in TaskState
  BY EndOfPushType DEF NextSnapshot, TaskState, TaskRecord

LEMMA RequestType ==
    ASSUME NEW t \in TaskState, t.stage = "sent"
    PROVE  RequestOf(t) \in Request
  BY DEF RequestOf, Request, TaskState, TaskRecord, Snapshot

LEMMA InFlightType ==
    ASSUME TypeOK, NEW c \in Client, NEW P \in SUBSET Task
    PROVE  InFlight(c, P) \subseteq Request
  BY RequestType DEF InFlight, TypeOK

LEMMA StoreType ==
    ASSUME TypeOK, NEW r \in Request, Store(r)
    PROVE  /\ server' \in [Server -> History]
           /\ clock' \in Nat
           /\ arrived' \subseteq Stamp \cup {None}
  <1>1. r.srv \in Server /\ r.key \in Content /\ r.starred \in BOOLEAN
        /\ r.edit \in Stamp \cup {None}
    BY DEF Request
  <1>2. CreateEntry(server[r.srv], r.key, r.starred, r.edit, Now) \in History
    BY <1>1, NowType, CreateEntryType DEF TypeOK
  <1> QED
    BY <1>1, <1>2, NowType DEF Store, TypeOK

LEMMA EndWalkType ==
    ASSUME TypeOK, NEW c \in Client, EndWalk(c)
    PROVE  /\ task' \in [Client -> [Task -> TaskState]]
           /\ pull' \in [Client -> PullState]
           /\ late' \subseteq Request
           /\ arrived' \subseteq Stamp \cup {None}
  <1>1. \A p \in Task : task[c][p] \in TaskState
    BY DEF TypeOK
  <1>2. [p \in Task |-> IF task[c][p].stage = "walk" THEN IdleTask ELSE task[c][p]]
            \in [Task -> TaskState]
    BY <1>1, IdleTaskType
  <1> QED
    BY <1>2, IdlePullType DEF EndWalk, TypeOK

-----------------------------------------------------------------------------
(***************************************************************************)
(* Every action keeps TypeOK.                                              *)
(***************************************************************************)

LEMMA InitType == Init => TypeOK
  BY SyncAssumption, IdleTaskType, IdlePullType
  DEF Init, TypeOK, Cache, EmptyCache, History, EmptyHistory, StartCursor

LEMMA UserType ==
    ASSUME TypeOK, NEW c \in Client, UserStep(c)
    PROVE  TypeOK'
  <1>1. ASSUME NEW k \in Content, Capture(c, k)
        PROVE  TypeOK'
    <2>1. rows' \in [Client -> Cache] /\ rows'[c] = InsertEntry(rows[c], k, StampOf(c))
      BY <1>1, NowType, InsertEntryType DEF Capture, TypeOK
    <2>2. task' \in [Client -> [Task -> TaskState]]
      <3>1. rows'[c][k] # None
        <4>1. rows'[c][k] \in LocalRow
          BY <2>1, NowType, InsertEntryRow DEF TypeOK
        <4> QED
          BY <4>1, SyncAssumption
      <3>2. {SnapshotOf(rows'[c], k)} \in SUBSET Snapshot
        BY <2>1, <3>1, SnapshotType
      <3>3. [IdleTask EXCEPT !.stage = "settings", !.queue = {SnapshotOf(rows'[c], k)}]
                \in TaskState
        BY <3>2, NewTaskType
      <3>4. CASE UNCHANGED task
        BY <3>4 DEF TypeOK
      <3>5. ASSUME NEW p \in Spawned,
                   task' = [task EXCEPT ![c][p] =
                      [IdleTask EXCEPT !.stage = "settings",
                                       !.queue = {SnapshotOf(rows'[c], k)}]]
            PROVE  task' \in [Client -> [Task -> TaskState]]
        BY <3>3, <3>5 DEF TypeOK, Task
      <3> QED
        BY <1>1, <3>4, <3>5 DEF Capture
    <2> QED
      BY <1>1, <2>1, <2>2, NowType DEF Capture, SpendEdit, pullVars, configVars, TypeOK
  <1>2. ASSUME NEW k \in Content, ToggleStar(c, k)
        PROVE  TypeOK'
    <2>1. rows' \in [Client -> Cache]
      BY <1>2, NowType, FlipStarType DEF ToggleStar, TypeOK
    <2> QED
      BY <1>2, <2>1, NowType
      DEF ToggleStar, SpendEdit, pushVars, pullVars, configVars, TypeOK
  <1>3. ASSUME NEW k \in Content, DeleteLocal(c, k)
        PROVE  TypeOK'
    <2>1. rows' \in [Client -> Cache]
      BY <1>3, RemoveEntryType DEF DeleteLocal, TypeOK
    <2> QED
      BY <1>3, <2>1 DEF DeleteLocal, SpendEdit, pushVars, pullVars, configVars, TypeOK
  <1>4. ASSUME NEW s \in Server \cup {None}, SaveSettings(c, s)
        PROVE  TypeOK'
    BY <1>4 DEF SaveSettings, SpendEdit, pushVars, pullVars, TypeOK
  <1>5. ASSUME ResetCursor(c)
        PROVE  /\ cursor' \in [Client -> [generation : Nat, initialized : BOOLEAN,
                                         watermark : Mark \cup {None}]]
               /\ disk' \in [Client -> Mark \cup {None}]
               /\ torn' \in [Client -> BOOLEAN]
               /\ faults' \in Nat
    <2>1. (torn[c] \/ saving[c]) \in BOOLEAN
      OBVIOUS
    <2>2. torn' \in [Client -> BOOLEAN]
      BY <1>5, <2>1, Zenon DEF ResetCursor, TypeOK
    <2>3. cursor' \in [Client -> [generation : Nat, initialized : BOOLEAN,
                                  watermark : Mark \cup {None}]]
      BY <1>5 DEF ResetCursor, TypeOK
    <2>4. disk' \in [Client -> Mark \cup {None}] /\ faults' \in Nat
      <3>1. CASE UNCHANGED faults
        BY <1>5, <3>1 DEF ResetCursor, TypeOK
      <3>2. CASE UNCHANGED disk
        BY <1>5, <3>2 DEF ResetCursor, TypeOK
      <3> QED
        BY <1>5, <3>1, <3>2 DEF ResetCursor
    <2> QED
      BY <2>2, <2>3, <2>4
  <1>6. CASE ResetAfterSave(c)
    BY <1>5, <1>6 DEF ResetAfterSave, ResetCursor, pushVars, TypeOK
  <1>7. CASE ResetSyncCursor(c)
    BY <1>5, <1>7 DEF ResetSyncCursor, ResetCursor, pushVars, configVars, TypeOK
  <1>8. CASE Restart(c)
    <2>1. late' \subseteq Request
      BY <1>8, InFlightType DEF Restart, TypeOK
    <2>2. task' \in [Client -> [Task -> TaskState]]
      BY <1>8, IdleTaskType DEF Restart, TypeOK
    <2>3. pull' \in [Client -> PullState]
      BY <1>8, IdlePullType DEF Restart, TypeOK
    <2> QED
      BY <1>8, <2>1, <2>2, <2>3, SyncAssumption
      DEF Restart, SpendFault, StartCursor, TypeOK
  <1> QED
    BY <1>1, <1>2, <1>3, <1>4, <1>6, <1>7, <1>8 DEF UserStep

LEMMA OtherType ==
    ASSUME TypeOK, NEW s \in Server, NEW k \in Content, OtherStep(s, k)
    PROVE  TypeOK'
  <1>1. ASSUME NEW starred \in BOOLEAN \cup {None}, OtherDevicePush(s, k, starred)
        PROVE  TypeOK'
    <2>1. server' \in [Server -> History]
      BY <1>1, NowType, CreateEntryType DEF OtherDevicePush, TypeOK
    <2> QED
      BY <1>1, <2>1, NowType
      DEF OtherDevicePush, SpendEdit, pushVars, pullVars, configVars, TypeOK
  <1>2. ASSUME NEW starred \in BOOLEAN, AdminStar(s, k, starred)
        PROVE  TypeOK'
    <2>1. server' \in [Server -> History]
      BY <1>2, NowType, UpdateEntryStarredType DEF AdminStar, TypeOK
    <2> QED
      BY <1>2, <2>1, NowType
      DEF AdminStar, SpendEdit, pushVars, pullVars, configVars, TypeOK
  <1>3. CASE AdminDelete(s, k)
    <2>1. server' \in [Server -> History]
      BY <1>3, DeleteEntryType DEF AdminDelete, TypeOK
    <2> QED
      BY <1>3, <2>1 DEF AdminDelete, SpendEdit, pushVars, pullVars, configVars, TypeOK
  <1> QED
    BY <1>1, <1>2, <1>3 DEF OtherStep

LEMMA PushType ==
    ASSUME TypeOK, NEW c \in Client, NEW p \in Task, PushStep(c, p)
    PROVE  TypeOK'
  <1> DEFINE t == task[c][p]
  <1>0. t \in TaskState
    BY DEF TypeOK
  <1>1. CASE ReadBatch(c, p)
    <2>1. \A batch \in UnsyncedBatches(rows[c], BatchLimit) : batch \in SUBSET Snapshot
      BY UnsyncedType DEF UnsyncedBatches, TypeOK
    <2>2. \A batch \in UnsyncedBatches(rows[c], BatchLimit) :
             [IdleTask EXCEPT !.stage = "settings", !.queue = batch] \in TaskState
      BY <2>1, NewTaskType
    <2>3. task' \in [Client -> [Task -> TaskState]]
      <3>1. PICK batch \in UnsyncedBatches(rows[c], BatchLimit) :
               task' = [task EXCEPT ![c][p] =
                  IF batch = {} THEN EndOfPush(p)
                  ELSE [IdleTask EXCEPT !.stage = "settings", !.queue = batch]]
        BY <1>1 DEF ReadBatch
      <3>2. CASE batch = {}
        BY <3>1, <3>2, EndOfPushType DEF TypeOK
      <3>3. CASE batch # {}
        BY <3>1, <3>3, <2>2 DEF TypeOK
      <3> QED
        BY <3>2, <3>3
    <2> QED
      BY <1>1, <2>3 DEF ReadBatch, pullVars, configVars, userVars, TypeOK
  <1>2. CASE PushReadSettings(c, p)
    <2>1. CASE config[c] = None
      <3>1. task' \in [Client -> [Task -> TaskState]]
        BY <1>2, <2>1, EndOfPushType DEF PushReadSettings, TypeOK
      <3> QED
        BY <1>2, <3>1 DEF PushReadSettings, pullVars, configVars, userVars, TypeOK
    <2>2. CASE config[c] # None
      <3>1. [t EXCEPT !.stage = "ready", !.srv = config[c]] \in TaskState
        BY <1>0, <1>2, <2>2 DEF PushReadSettings, TypeOK, TaskState, TaskRecord
      <3>2. task' \in [Client -> [Task -> TaskState]]
        BY <1>2, <2>2, <3>1 DEF PushReadSettings, TypeOK
      <3> QED
        BY <1>2, <3>2 DEF PushReadSettings, pullVars, configVars, userVars, TypeOK
    <2> QED
      BY <2>1, <2>2
  <1>3. CASE PushSend(c, p)
    <2>1. PICK snap \in t.queue : task' = [task EXCEPT ![c][p] = Sending(t, snap)]
      BY <1>3 DEF PushSend
    <2>2. snap \in Snapshot /\ snap # None
      BY <1>0, SyncAssumption DEF TaskState, TaskRecord
    <2>3. Sending(t, snap) \in TaskState
      BY <1>0, <1>3, <2>2 DEF PushSend, Sending, TaskState, TaskRecord
    <2>4. task' \in [Client -> [Task -> TaskState]]
      BY <2>1, <2>3 DEF TypeOK
    <2> QED
      BY <1>3, <2>4 DEF PushSend, pullVars, configVars, userVars, TypeOK
  <1>4. CASE PushDelivered(c, p)
    <2>1. [t EXCEPT !.stage = "answered"] \in TaskState
      BY <1>0, <1>4 DEF PushDelivered, TaskState, TaskRecord
    <2>2. task' \in [Client -> [Task -> TaskState]]
      BY <1>4, <2>1 DEF PushDelivered, TypeOK
    <2>3. RequestOf(t) \in Request /\ Store(RequestOf(t))
      BY <1>0, <1>4, RequestType DEF PushDelivered
    <2> QED
      BY <1>4, <2>2, <2>3, StoreType
      DEF PushDelivered, pullVars, configVars, userVars, TypeOK
  <1>5. CASE PushAcknowledged(c, p)
    <2>1. t.cur.key \in Content /\ t.cur.updated \in Stamp
      BY <1>0, <1>5 DEF PushAcknowledged, TaskState, TaskRecord, Snapshot
    <2>2. rows' \in [Client -> Cache]
      BY <1>5, <2>1, MarkSyncedType DEF PushAcknowledged, TypeOK
    <2>3. NextSnapshot(p, t) \in TaskState
      BY <1>0, <1>5, NextSnapshotType DEF PushAcknowledged
    <2>4. task' \in [Client -> [Task -> TaskState]]
      BY <1>5, <2>3 DEF PushAcknowledged, TypeOK
    <2> QED
      BY <1>5, <2>2, <2>4 DEF PushAcknowledged, pullVars, configVars, userVars, TypeOK
  <1>6. CASE PushRejected(c, p)
    <2>1. NextSnapshot(p, t) \in TaskState
      BY <1>0, <1>6, NextSnapshotType DEF PushRejected
    <2>2. task' \in [Client -> [Task -> TaskState]]
      BY <1>6, <2>1 DEF PushRejected, TypeOK
    <2> QED
      BY <1>6, <2>2 DEF PushRejected, SpendFault, pullVars, configVars, TypeOK
  <1>7. CASE PushRefused(c, p)
    <2>1. task' \in [Client -> [Task -> TaskState]]
      BY <1>7, EndOfPushType DEF PushRefused, TypeOK
    <2> QED
      BY <1>7, <2>1 DEF PushRefused, SpendFault, pullVars, configVars, TypeOK
  <1>8. CASE PushTimedOut(c, p)
    <2>1. NextSnapshot(p, t) \in TaskState /\ RequestOf(t) \in Request
      BY <1>0, <1>8, NextSnapshotType, RequestType DEF PushTimedOut
    <2>2. task' \in [Client -> [Task -> TaskState]]
      <3>1. CASE UNCHANGED task
        BY <3>1 DEF TypeOK
      <3>2. CASE task' = [task EXCEPT ![c][p] = NextSnapshot(p, @)]
        BY <2>1, <3>2 DEF TypeOK
      <3> QED
        BY <1>8, <3>1, <3>2 DEF PushTimedOut
    <2> QED
      BY <1>8, <2>1, <2>2 DEF PushTimedOut, SpendFault, pullVars, configVars, TypeOK
  <1> QED
    BY <1>1, <1>2, <1>3, <1>4, <1>5, <1>6, <1>7, <1>8 DEF PushStep

LEMMA LateType ==
    ASSUME TypeOK, NEW r \in late, LateDelivered(r)
    PROVE  TypeOK'
  <1>1. r \in Request /\ Store(r)
    BY DEF LateDelivered, TypeOK
  <1> QED
    BY <1>1, StoreType DEF LateDelivered, pullVars, configVars, userVars, TypeOK

LEMMA CancelPushType ==
    ASSUME TypeOK, NEW c \in Client, CancelPush(c)
    PROVE  TypeOK'
  <1>1. late' \subseteq Request
    BY InFlightType DEF CancelPush, TypeOK, Task
  <1>2. task' \in [Client -> [Task -> TaskState]]
    BY IdleTaskType DEF CancelPush, TypeOK
  <1> QED
    BY <1>1, <1>2 DEF CancelPush, SpendFault, pullVars, configVars, TypeOK

LEMMA PageType ==
    ASSUME NEW h \in History, NEW before, NEW limit,
           NEW i \in NewestItems(ItemsBefore(h, before), limit)
    PROVE  i \in Item
  BY ItemsType DEF NewestItems, ItemsBefore

LEMMA PastItemType ==
    ASSUME NEW walk \in PullState, NEW i, walk.at \notin {"idle", "begun"}
    PROVE  /\ PastItem(walk, i) \in PullState
           /\ [PastItem(walk, i) EXCEPT !.err = TRUE] \in PullState
  BY DEF PastItem, PullState, PullRecord

LEMMA IngestedType ==
    ASSUME TypeOK, NEW c \in Client, NEW i \in pull[c].page, Ingested(c, i),
           pull[c].at \notin {"idle", "begun"}
    PROVE  /\ pull' \in [Client -> PullState]
           /\ seen' \in [Client -> SUBSET Version]
  <1>1. pull[c] \in PullState
    BY DEF TypeOK
  <1>2. pull' \in [Client -> PullState]
    BY <1>1, PastItemType DEF Ingested, TypeOK
  <1>3. [srv |-> pull[c].srv, key |-> i.key, updated |-> i.updated] \in Version
    BY <1>1 DEF PullState, PullRecord, Item, Version
  <1> QED
    BY <1>2, <1>3 DEF Ingested, TypeOK

LEMMA PullType ==
    ASSUME TypeOK, NEW c \in Client, PullStep(c)
    PROVE  TypeOK'
  <1> DEFINE w == pull[c]
  <1>0. w \in PullState
    BY DEF TypeOK
  <1>1. ASSUME NEW p \in Passer, PullBegin(c, p)
        PROVE  TypeOK'
    <2>1. task[c][p] \in TaskState
      BY DEF TypeOK, Task
    <2>2. [task[c][p] EXCEPT !.stage = "walk"] \in TaskState
      BY <2>1 DEF TaskState, TaskRecord
    <2>3. task' \in [Client -> [Task -> TaskState]]
      BY <1>1, <2>2 DEF PullBegin, TypeOK, Task
    <2>4. [IdlePull EXCEPT !.at = "begun", !.generation = cursor[c].generation]
              \in PullState
      BY DEF TypeOK, IdlePull, PullState, PullRecord
    <2>5. pull' \in [Client -> PullState]
      BY <1>1, <2>4 DEF PullBegin, TypeOK
    <2> QED
      BY <1>1, <2>3, <2>5 DEF PullBegin, configVars, userVars, TypeOK
  <1>2. CASE PullReadSettings(c)
    <2>1. CASE config[c] = None
      BY <1>2, <2>1, EndWalkType DEF PullReadSettings, configVars, userVars, TypeOK
    <2>2. CASE config[c] # None
      <3>1. [w EXCEPT !.at = "settings", !.srv = config[c]] \in PullState
        BY <1>0, <2>2 DEF TypeOK, PullState, PullRecord
      <3>2. pull' \in [Client -> PullState]
        BY <1>2, <2>2, <3>1 DEF PullReadSettings, TypeOK
      <3> QED
        BY <1>2, <2>2, <3>2
        DEF PullReadSettings, pushVars, configVars, userVars, TypeOK
    <2> QED
      BY <2>1, <2>2
  <1>3. CASE PullReadCursor(c)
    <2> DEFINE m == IF cursor[c].initialized THEN cursor[c].watermark ELSE None
    <2>1. m \in Mark \cup {None}
      BY DEF TypeOK
    <2> HIDE DEF m
    <2>2. [w EXCEPT !.at = "fetch", !.mark = m] \in PullState
      BY <1>0, <1>3, <2>1 DEF PullReadCursor, PullState, PullRecord
    <2>3. pull' = [pull EXCEPT ![c] = [w EXCEPT !.at = "fetch", !.mark = m]]
      BY <1>3 DEF PullReadCursor, m
    <2>4. pull' \in [Client -> PullState]
      BY <2>2, <2>3 DEF TypeOK
    <2> QED
      BY <1>3, <2>4 DEF PullReadCursor, pushVars, configVars, userVars, TypeOK
  <1>4. CASE PullPage(c)
    <2> DEFINE items == ItemsBefore(server[w.srv], w.before)
               page  == NewestItems(items, Limit(w))
               fresh == Above(page, w.mark)
               step(first, last) ==
                  [w EXCEPT !.at = "page", !.page = fresh,
                            !.more = page # items /\ fresh = page,
                            !.before = last.updated,
                            !.newest = IF w.newest = None
                                       THEN first.updated ELSE w.newest]
    <2>1. w.at = "fetch" /\ w.srv \in Server
      BY <1>0, <1>4 DEF PullPage, PullState, PullRecord
    <2>2. page \subseteq Item
      BY <2>1, PageType DEF TypeOK
    <2>3. fresh \subseteq Item
      BY <2>2 DEF Above
    <2>4. (page # items /\ fresh = page) \in BOOLEAN
      OBVIOUS
    <2>5. CASE page = {}
      <3>1. [w EXCEPT !.at = "finish"] \in PullState
        BY <1>0, <2>1 DEF PullState, PullRecord
      <3>2. pull' = [pull EXCEPT ![c] = [w EXCEPT !.at = "finish"]]
        BY <1>4, <2>5 DEF PullPage
      <3>3. pull' \in [Client -> PullState]
        BY <3>1, <3>2 DEF TypeOK
      <3> QED
        BY <1>4, <3>3 DEF PullPage, pushVars, configVars, userVars, TypeOK
    <2>6. CASE page # {}
      <3>1. PICK first \in page, last \in page :
               pull' = [pull EXCEPT ![c] = step(first, last)]
        BY <1>4, <2>6 DEF PullPage
      <3>2. first.updated \in Nat /\ last.updated \in Nat
        BY <2>2 DEF Item
      <3> HIDE DEF items, page, fresh
      <3>3. step(first, last) \in PullState
        BY <1>0, <2>1, <2>3, <2>4, <3>2 DEF PullState, PullRecord
      <3> HIDE DEF step
      <3>4. pull' \in [Client -> PullState]
        BY <3>1, <3>3 DEF TypeOK
      <3> QED
        BY <1>4, <3>4 DEF PullPage, pushVars, configVars, userVars, TypeOK
    <2> QED
      BY <2>5, <2>6
  <1>5. CASE PullPageFailed(c)
    BY <1>5, EndWalkType DEF PullPageFailed, SpendFault, configVars, TypeOK
  <1>6. CASE PullNextPage(c)
    <2>1. [w EXCEPT !.at = IF w.more THEN "fetch" ELSE "finish"] \in PullState
      BY <1>0, <1>6 DEF PullNextPage, PullState, PullRecord
    <2>2. pull' \in [Client -> PullState]
      BY <1>6, <2>1 DEF PullNextPage, TypeOK
    <2> QED
      BY <1>6, <2>2 DEF PullNextPage, pushVars, configVars, userVars, TypeOK
  <1>7. CASE IngestCheck(c)
    <2>1. \A at \in {"apply", "download", "insert"} : [w EXCEPT !.at = at] \in PullState
      BY <1>0, <1>7 DEF IngestCheck, PullState, PullRecord
    <2>2. \E at \in {"apply", "download", "insert"} :
             pull' = [pull EXCEPT ![c] = [w EXCEPT !.at = at]]
      BY <1>7 DEF IngestCheck
    <2>3. pull' \in [Client -> PullState]
      BY <2>1, <2>2 DEF TypeOK
    <2> QED
      BY <1>7, <2>3 DEF IngestCheck, pushVars, configVars, userVars, TypeOK
  <1>8. CASE IngestStar(c)
    <2>1. PICK i \in w.page :
             /\ rows' = [rows EXCEPT ![c] =
                   ApplyRemoteStarState(@, i.key, i.starred, StampOf(c))]
             /\ clock' \in {clock, Now}
             /\ Ingested(c, i)
      BY <1>8 DEF IngestStar
    <2>2. i.key \in Content /\ i.starred \in BOOLEAN
      BY <1>0 DEF PullState, PullRecord, Item
    <2>3. rows' \in [Client -> Cache]
      BY <2>1, <2>2, NowType, ApplyRemoteStarStateType DEF TypeOK
    <2>4. pull' \in [Client -> PullState] /\ seen' \in [Client -> SUBSET Version]
      BY <1>8, <2>1, IngestedType DEF IngestStar
    <2> QED
      BY <2>1, <2>3, <2>4, NowType DEF Ingested, pushVars, configVars, userVars, TypeOK
  <1>9. CASE DownloadBlob(c)
    <2>1. [w EXCEPT !.at = "insert"] \in PullState
      BY <1>0, <1>9 DEF DownloadBlob, PullState, PullRecord
    <2>2. pull' \in [Client -> PullState]
      BY <1>9, <2>1 DEF DownloadBlob, TypeOK
    <2> QED
      BY <1>9, <2>2 DEF DownloadBlob, pushVars, configVars, userVars, TypeOK
  <1>10. CASE SkipBlob(c)
    <2>1. PICK i \in w.page : Ingested(c, i)
      BY <1>10 DEF SkipBlob, IsHead
    <2>2. pull' \in [Client -> PullState] /\ seen' \in [Client -> SUBSET Version]
      BY <1>10, <2>1, IngestedType DEF SkipBlob
    <2> QED
      BY <1>10, <2>1, <2>2 DEF SkipBlob, Ingested, pushVars, configVars, userVars, TypeOK
  <1>11. CASE IngestInsert(c)
    <2> DEFINE stamp(i) == [by |-> w.srv, at |-> i.updated]
    <2>1. PICK i \in w.page :
             /\ rows' = [rows EXCEPT ![c] =
                   InsertRemoteEntry(@, i.key, i.starred, stamp(i))]
             /\ Ingested(c, i)
      BY <1>11 DEF IngestInsert
    <2>2. i.key \in Content /\ i.starred \in BOOLEAN /\ stamp(i) \in Stamp
      BY <1>0, <1>11 DEF IngestInsert, PullState, PullRecord, Item, Stamp
    <2>3. rows' \in [Client -> Cache]
      BY <2>1, <2>2, InsertRemoteEntryType DEF TypeOK
    <2>4. pull' \in [Client -> PullState] /\ seen' \in [Client -> SUBSET Version]
      BY <1>11, <2>1, IngestedType DEF IngestInsert
    <2> QED
      BY <1>11, <2>1, <2>3, <2>4
      DEF IngestInsert, Ingested, pushVars, configVars, userVars, TypeOK
  <1>12. CASE IngestFailed(c)
    <2>1. PICK i \in w.page :
             pull' = [pull EXCEPT ![c] = [PastItem(w, i) EXCEPT !.err = TRUE]]
      BY <1>12 DEF IngestFailed
    <2>2. [PastItem(w, i) EXCEPT !.err = TRUE] \in PullState
      BY <1>0, <1>12, PastItemType DEF IngestFailed
    <2>3. pull' \in [Client -> PullState]
      BY <2>1, <2>2 DEF TypeOK
    <2> QED
      BY <1>12, <2>3 DEF IngestFailed, SpendFault, pushVars, configVars, TypeOK
  <1>13. CASE PullFinish(c)
    <2>1. CASE UNCHANGED <<cursor, disk, faults>>
      BY <1>13, <2>1, EndWalkType DEF PullFinish, configVars, TypeOK
    <2>2. CASE ~UNCHANGED <<cursor, disk, faults>>
      <3> DEFINE mark == [srv |-> w.srv, at |-> w.newest]
      <3>1. w.newest # None
        BY <1>13, <2>2 DEF PullFinish
      <3>2. mark \in Mark
        BY <1>0, <1>13, <3>1 DEF PullFinish, PullState, PullRecord, Mark
      <3> DEFINE moved == [cursor[c] EXCEPT !.watermark = mark, !.initialized = TRUE]
                 kept  == [cursor[c] EXCEPT !.initialized = TRUE]
                 Cursor == [generation : Nat, initialized : BOOLEAN,
                            watermark : Mark \cup {None}]
      <3>3. moved \in Cursor /\ kept \in Cursor
        BY <3>2 DEF TypeOK
      <3>4. \/ cursor' = [cursor EXCEPT ![c] = moved] /\ Persist(c, mark)
            \/ cursor' = [cursor EXCEPT ![c] = kept] /\ UNCHANGED <<disk, faults>>
        BY <1>13, <2>2 DEF PullFinish
      <3> HIDE DEF mark, moved, kept
      <3>5. cursor' \in [Client -> Cursor]
        <4>1. cursor \in [Client -> Cursor]
          BY DEF TypeOK
        <4> HIDE DEF Cursor
        <4> QED
          BY <3>3, <3>4, <4>1
      <3>6. disk' \in [Client -> Mark \cup {None}] /\ faults' \in Nat
        BY <3>2, <3>4 DEF Persist, TypeOK
      <3> QED
        BY <1>13, <3>5, <3>6, EndWalkType DEF PullFinish, configVars, TypeOK
    <2> QED
      BY <2>1, <2>2
  <1>14. CASE CancelPull(c)
    <2>1. CASE EndWalk(c)
      BY <1>14, <2>1, EndWalkType DEF CancelPull, SpendFault, configVars, TypeOK
    <2>2. CASE /\ task' = [task EXCEPT ![c]["now"] = IdleTask]
               /\ UNCHANGED <<pull, late, arrived>>
      <3>1. task' \in [Client -> [Task -> TaskState]]
        BY <2>2, IdleTaskType DEF TypeOK
      <3> QED
        BY <1>14, <2>2, <3>1 DEF CancelPull, SpendFault, configVars, TypeOK
    <2> QED
      BY <1>14, <2>1, <2>2 DEF CancelPull
  <1> QED
    BY <1>1, <1>2, <1>3, <1>4, <1>5, <1>6, <1>7, <1>8, <1>9, <1>10, <1>11, <1>12,
       <1>13, <1>14
    DEF PullStep

(***************************************************************************)
(* Every variable keeps its type: in particular a task that sends knows    *)
(* its server and its snapshot, and a walk knows its server.               *)
(***************************************************************************)
THEOREM TypeCorrect == Spec => []TypeOK
  <1>1. Init => TypeOK
    BY InitType
  <1>2. TypeOK /\ [Next]_vars => TypeOK'
    <2> SUFFICES ASSUME TypeOK, [Next]_vars PROVE TypeOK'
      OBVIOUS
    <2>1. CASE Next
      BY <2>1, UserType, OtherType, PushType, PullType, LateType, CancelPushType
      DEF Next
    <2>2. CASE UNCHANGED vars
      BY <2>2 DEF vars, TypeOK
    <2> QED
      BY <2>1, <2>2
  <1> QED
    BY <1>1, <1>2, PTL DEF Spec

-----------------------------------------------------------------------------
(***************************************************************************)
(* No edit is lost.  Stamps grow, so a stamp that was issued stays issued; *)
(* a row is left alone, removed, keeps both its stamp and its edit, or     *)
(* gets a stamp that no copy carries.                                      *)
(***************************************************************************)

TimePasses ==
    /\ clock \in Nat /\ clock' \in Nat /\ clock <= clock'
    /\ arrived \subseteq arrived'

LEMMA IssuedStays ==
    ASSUME TimePasses, NEW stamp, NEW c, Issued(stamp, c)
    PROVE  Issued(stamp, c)'
  BY DEF TimePasses, Issued, Stamp

\* How one step may change a row under copies of it.
RowMove(c, k) ==
    LET old == rows[c][k]
        new == rows'[c][k]
    IN \/ new = None
       \/ old # None /\ new.updated = old.updated /\ new.edit = old.edit
       \/ ~Issued(new.updated, c)

LEMMA CopyStays ==
    ASSUME TimePasses, NEW c \in Client, NEW snap \in Snapshot,
           CopyCoherent(c, snap), RowMove(c, snap.key)
    PROVE  CopyCoherent(c, snap)'
  <1>1. Issued(snap.edit, c)' /\ Issued(snap.updated, c)'
    BY IssuedStays DEF CopyCoherent
  <1>2. ASSUME rows'[c][snap.key] # None, rows'[c][snap.key].updated = snap.updated
        PROVE  rows'[c][snap.key].edit = snap.edit
    BY <1>2 DEF CopyCoherent, RowMove
  <1> QED
    BY <1>1, <1>2 DEF CopyCoherent

LEMMA RowStays ==
    ASSUME TimePasses, NEW c \in Client, NEW k \in Content,
           RowCoherent(c, k), rows'[c][k] = rows[c][k]
    PROVE  RowCoherent(c, k)' /\ RowMove(c, k)
  <1>1. RowMove(c, k)
    BY DEF RowMove
  <1>2. RowCoherent(c, k)'
    BY IssuedStays DEF RowCoherent, TimePasses
  <1> QED
    BY <1>1, <1>2

\* If one row of one client moves, the others stay.
LEMMA OneRowMoves ==
    ASSUME TypeOK, TimePasses, RowsCoherent,
           NEW c \in Client, NEW k \in Content, NEW new,
           rows' = [rows EXCEPT ![c] = [rows[c] EXCEPT ![k] = new]],
           RowCoherent(c, k)', RowMove(c, k)
    PROVE  RowsCoherent' /\ \A d \in Client, l \in Content : RowMove(d, l)
  <1>1. ASSUME NEW d \in Client, NEW l \in Content
        PROVE  RowCoherent(d, l)' /\ RowMove(d, l)
    <2>1. CASE d = c /\ l = k
      BY <2>1
    <2>2. CASE ~(d = c /\ l = k)
      <3>1. rows'[d][l] = rows[d][l]
        BY <2>2 DEF TypeOK, Cache
      <3> QED
        BY <3>1, RowStays DEF RowsCoherent
    <2> QED
      BY <2>1, <2>2
  <1> QED
    BY <1>1 DEF RowsCoherent

LEMMA NoRowMoves ==
    ASSUME TimePasses, RowsCoherent, rows' = rows
    PROVE  RowsCoherent' /\ \A d \in Client, l \in Content : RowMove(d, l)
  BY RowStays DEF RowsCoherent

\* Tasks may lose copies, and take new ones that are coherent.
LEMMA CopiesMove ==
    ASSUME TypeOK, TimePasses, CopiesCoherent,
           \A d \in Client, l \in Content : RowMove(d, l),
           \A d \in Client, q \in Task :
              \A snap \in Copies(task'[d][q]) :
                  snap \in Copies(task[d][q]) \/ CopyCoherent(d, snap)'
    PROVE  CopiesCoherent'
  <1> SUFFICES ASSUME NEW d \in Client, NEW q \in Task, NEW snap \in Copies(task'[d][q])
               PROVE  CopyCoherent(d, snap)'
    BY DEF CopiesCoherent
  <1>1. CASE snap \in Copies(task[d][q])
    <2>1. snap \in Snapshot
      BY <1>1 DEF TypeOK, TaskState, TaskRecord, Copies
    <2>2. snap.key \in Content
      BY <2>1 DEF Snapshot
    <2> QED
      BY <1>1, <2>1, <2>2, CopyStays DEF CopiesCoherent
  <1>2. CASE CopyCoherent(d, snap)'
    BY <1>2
  <1> QED
    BY <1>1, <1>2

\* Requests on their way may be new, if their edit is that of a copy.
LEMMA RequestsStay ==
    ASSUME TimePasses, RequestsIssued,
           \A r \in late' : r \in late \/ \E d \in Client : Issued(r.edit, d),
           \A e \in arrived' : e \in arrived \/ \E d \in Client : Issued(e, d)
    PROVE  RequestsIssued'
  <1>1. \A r \in late' : \E d \in Client : Issued(r.edit, d)'
    BY IssuedStays DEF RequestsIssued
  <1>2. \A e \in arrived' : \E d \in Client : Issued(e, d)'
    BY IssuedStays DEF RequestsIssued
  <1> QED
    BY <1>1, <1>2 DEF RequestsIssued

\* What a step may do to a task that takes no new copy.
Sheds(t, u) ==
    \/ u = t
    \/ /\ Copies(u) \subseteq Copies(t)
       /\ u.stage = "answered" => u.cur.edit \in arrived'

LEMMA SheddingTasks ==
    ASSUME NEW t \in TaskState, NEW p \in Task
    PROVE  /\ Sheds(t, IdleTask)
           /\ Sheds(t, EndOfPush(p))
           /\ t.stage \in {"ready", "sent", "answered"} => Sheds(t, NextSnapshot(p, t))
           /\ \A snap \in t.queue : Sheds(t, Sending(t, snap))
           /\ \A s \in Server : Sheds(t, [t EXCEPT !.stage = "ready", !.srv = s])
           /\ Sheds(t, [t EXCEPT !.stage = "walk"])
  <1>1. Copies(IdleTask) = {} /\ IdleTask.stage = "idle"
    BY DEF Copies, IdleTask
  <1>2. Copies(EndOfPush(p)) = {} /\ EndOfPush(p).stage \in {"idle", "wait"}
    BY DEF Copies, IdleTask, EndOfPush
  <1>3. ASSUME t.stage \in {"ready", "sent", "answered"}
        PROVE  Sheds(t, NextSnapshot(p, t))
    <2>1. CASE t.queue = {}
      BY <1>2, <2>1 DEF Sheds, NextSnapshot
    <2>2. CASE t.queue # {}
      BY <2>2 DEF Sheds, NextSnapshot, Copies, TaskState, TaskRecord
    <2> QED
      BY <2>1, <2>2
  <1>4. ASSUME NEW snap \in t.queue
        PROVE  Sheds(t, Sending(t, snap))
    BY DEF Sheds, Sending, Copies, TaskState, TaskRecord
  <1>5. ASSUME NEW s \in Server
        PROVE  Sheds(t, [t EXCEPT !.stage = "ready", !.srv = s])
    BY DEF Sheds, Copies, TaskState, TaskRecord
  <1>6. Sheds(t, [t EXCEPT !.stage = "walk"])
    BY DEF Sheds, Copies, TaskState, TaskRecord
  <1> QED
    BY <1>1, <1>2, <1>3, <1>4, <1>5, <1>6 DEF Sheds

\* If one task moves, the others are as they were.
LEMMA OneTaskSheds ==
    ASSUME TypeOK, NEW c \in Client, NEW p \in Task, NEW u,
           task' = [task EXCEPT ![c][p] = u], Sheds(task[c][p], u)
    PROVE  \A d \in Client, q \in Task : Sheds(task[d][q], task'[d][q])
  <1> SUFFICES ASSUME NEW d \in Client, NEW q \in Task
               PROVE  Sheds(task[d][q], task'[d][q])
    OBVIOUS
  <1>1. CASE d = c /\ q = p
    <2>1. task'[d][q] = u
      BY <1>1 DEF TypeOK
    <2> QED
      BY <1>1, <2>1
  <1>2. CASE ~(d = c /\ q = p)
    <2>1. task'[d][q] = task[d][q]
      BY <1>2 DEF TypeOK
    <2> QED
      BY <2>1 DEF Sheds
  <1> QED
    BY <1>1, <1>2

LEMMA CoherentIfShedding ==
    ASSUME TypeOK, Coherent, TimePasses, RowsCoherent',
           \A d \in Client, l \in Content : RowMove(d, l),
           \A d \in Client, q \in Task : Sheds(task[d][q], task'[d][q]),
           \A r \in late' : r \in late \/ \E d \in Client : Issued(r.edit, d),
           \A e \in arrived' : e \in arrived \/ \E d \in Client : Issued(e, d)
    PROVE  Coherent'
  <1>1. CopiesCoherent'
    <2>1. \A d \in Client, q \in Task :
             \A snap \in Copies(task'[d][q]) : snap \in Copies(task[d][q])
      BY DEF Sheds
    <2> QED
      BY <2>1, CopiesMove DEF Coherent
  <1>2. AnswersArrived'
    BY DEF Sheds, AnswersArrived, Coherent, TimePasses
  <1>3. RequestsIssued'
    BY RequestsStay DEF Coherent
  <1> QED
    BY <1>1, <1>2, <1>3 DEF Coherent

\* A step that leaves the local histories alone and lets nothing arrive.
LEMMA CoherentIfRowsStay ==
    ASSUME TypeOK, Coherent, clock' \in Nat, clock <= clock',
           UNCHANGED <<rows, arrived>>,
           \A d \in Client, q \in Task : Sheds(task[d][q], task'[d][q]),
           \A r \in late' : r \in late \/ \E d \in Client : Issued(r.edit, d)
    PROVE  Coherent'
  <1>1. TimePasses
    BY DEF TypeOK, TimePasses
  <1>2. RowsCoherent' /\ \A d \in Client, l \in Content : RowMove(d, l)
    BY <1>1, NoRowMoves DEF Coherent
  <1> QED
    BY <1>1, <1>2, CoherentIfShedding

LEMMA RequestOfTaskIssued ==
    ASSUME TypeOK, Coherent, NEW c \in Client, NEW p \in Task,
           task[c][p].stage \in {"sent", "answered"}
    PROVE  /\ CopyCoherent(c, task[c][p].cur)
           /\ Issued(RequestOf(task[c][p]).edit, c)
  <1>1. task[c][p].cur \in Copies(task[c][p])
    BY DEF TypeOK, TaskState, Copies
  <1>2. CopyCoherent(c, task[c][p].cur)
    BY <1>1 DEF Coherent, CopiesCoherent
  <1> QED
    BY <1>2 DEF CopyCoherent, RequestOf

LEMMA InFlightIssued ==
    ASSUME TypeOK, Coherent, NEW c \in Client, NEW P \in SUBSET Task,
           NEW r \in InFlight(c, P)
    PROVE  Issued(r.edit, c)
  BY RequestOfTaskIssued DEF InFlight

LEMMA EndWalkSheds ==
    ASSUME TypeOK, NEW c \in Client, EndWalk(c)
    PROVE  \A d \in Client, q \in Task : Sheds(task[d][q], task'[d][q])
  <1> SUFFICES ASSUME NEW d \in Client, NEW q \in Task
               PROVE  Sheds(task[d][q], task'[d][q])
    OBVIOUS
  <1>1. task[d][q] \in TaskState
    BY DEF TypeOK
  <1>2. task'[d][q] = task[d][q] \/ task'[d][q] = IdleTask
    BY DEF EndWalk, TypeOK
  <1> QED
    BY <1>1, <1>2, SheddingTasks DEF Sheds

-----------------------------------------------------------------------------
(***************************************************************************)
(* Every action keeps Coherent.                                            *)
(***************************************************************************)

LEMMA FreshStamp ==
    ASSUME TypeOK, NEW c \in Client, clock' = Now
    PROVE  \E stamp \in Stamp :
              stamp = StampOf(c) /\ ~Issued(stamp, c) /\ Issued(stamp, c)'
  <1>1. clock \in Nat /\ clock' = clock + 1
    BY DEF TypeOK, Now
  <1>2. PICK stamp : stamp = [by |-> c, at |-> clock + 1]
    OBVIOUS
  <1>3. stamp = StampOf(c) /\ stamp \in Stamp
    BY <1>1, <1>2 DEF StampOf, Now, Stamp
  <1>4. ~Issued(stamp, c) /\ Issued(stamp, c)'
    BY <1>1, <1>2, <1>3 DEF Issued
  <1> QED
    BY <1>3, <1>4

LEMMA TickPasses ==
    ASSUME TypeOK, clock' = Now, arrived \subseteq arrived'
    PROVE  TimePasses
  BY DEF TypeOK, TimePasses, Now

LEMMA InsertEntryAt ==
    ASSUME NEW r \in Cache, NEW k \in Content, NEW now \in Stamp
    PROVE  \E new \in LocalRow :
              /\ InsertEntry(r, k, now) = [r EXCEPT ![k] = new]
              /\ new.updated = now
              /\ r[k] = None => new.edit = now /\ ~new.synced
              /\ r[k] # None => /\ new.edit = r[k].edit /\ new.synced = r[k].synced
                                /\ new.starred = r[k].starred
  <1> DEFINE new == IF r[k] = None
                    THEN [starred |-> FALSE, synced |-> FALSE, updated |-> now,
                          edit |-> now]
                    ELSE [r[k] EXCEPT !.updated = now]
  <1>1. InsertEntry(r, k, now) = [r EXCEPT ![k] = new]
    BY DEF InsertEntry
  <1>2. CASE r[k] = None
    <2>1. new \in LocalRow /\ new.updated = now /\ new.edit = now /\ ~new.synced
      BY <1>2 DEF LocalRow
    <2> QED
      BY <1>1, <1>2, <2>1
  <1>3. CASE r[k] # None
    <2>1. r[k] \in LocalRow
      BY <1>3 DEF Cache
    <2>2. /\ new \in LocalRow /\ new.updated = now
          /\ new.edit = r[k].edit /\ new.synced = r[k].synced
          /\ new.starred = r[k].starred
      BY <1>3, <2>1 DEF LocalRow
    <2> QED
      BY <1>1, <1>3, <2>2
  <1> QED
    BY <1>2, <1>3

LEMMA InitCoherent == Init => Coherent
  BY DEF Init, Coherent, RowsCoherent, RowCoherent, CopiesCoherent, AnswersArrived,
         RequestsIssued, EmptyCache, IdleTask, Copies

LEMMA CaptureCoherent ==
    ASSUME TypeOK, Coherent, NEW c \in Client, NEW k \in Content, Capture(c, k)
    PROVE  Coherent'
  <1>1. PICK stamp \in Stamp :
           stamp = StampOf(c) /\ ~Issued(stamp, c) /\ Issued(stamp, c)'
    BY FreshStamp DEF Capture
  <1>2. TimePasses
    BY TickPasses DEF Capture
  <1>3. PICK new \in LocalRow :
           /\ InsertEntry(rows[c], k, stamp) = [rows[c] EXCEPT ![k] = new]
           /\ new.updated = stamp
           /\ rows[c][k] = None => new.edit = stamp /\ ~new.synced
           /\ rows[c][k] # None =>
                 new.edit = rows[c][k].edit /\ new.synced = rows[c][k].synced
    BY InsertEntryAt DEF TypeOK
  <1>4. rows' = [rows EXCEPT ![c] = [rows[c] EXCEPT ![k] = new]]
    BY <1>1, <1>3 DEF Capture
  <1>5. rows'[c][k] = new /\ new # None /\ stamp # None
    BY <1>4, SyncAssumption DEF TypeOK, Cache
  <1>6. RowCoherent(c, k)
    BY DEF Coherent, RowsCoherent
  <1>7. RowMove(c, k)
    BY <1>1, <1>3, <1>5 DEF RowMove
  <1>8. RowCoherent(c, k)'
    <2>1. CASE rows[c][k] = None
      BY <1>1, <1>3, <1>5, <2>1 DEF RowCoherent
    <2>2. CASE rows[c][k] # None
      <3>1. new.edit # None => Issued(new.edit, c)'
        BY <1>2, <1>3, <1>6, <2>2, IssuedStays DEF RowCoherent
      <3>2. /\ ~new.synced => new.edit # None
            /\ new.synced /\ new.edit # None => new.edit \in arrived'
        BY <1>2, <1>3, <1>6, <2>2 DEF RowCoherent, TimePasses
      <3> QED
        BY <1>1, <1>3, <1>5, <3>1, <3>2 DEF RowCoherent
    <2> QED
      BY <2>1, <2>2
  <1>9. RowsCoherent' /\ \A d \in Client, l \in Content : RowMove(d, l)
    BY <1>2, <1>4, <1>7, <1>8, OneRowMoves DEF Coherent
  <1>10. CASE UNCHANGED task
    BY <1>2, <1>9, <1>10, CoherentIfShedding DEF Capture, Sheds
  <1>11. CASE rows[c][k] = None /\ ~UNCHANGED task
    <2>1. PICK snap : snap = SnapshotOf(rows'[c], k)
      OBVIOUS
    <2>2. PICK p \in Spawned :
             task' = [task EXCEPT ![c][p] =
                [IdleTask EXCEPT !.stage = "settings", !.queue = {snap}]]
      BY <1>11, <2>1 DEF Capture
    <2>3. snap.key = k /\ snap.updated = stamp /\ snap.edit = stamp
      BY <1>3, <1>5, <1>11, <2>1 DEF SnapshotOf
    <2>4. CopyCoherent(c, snap)'
      BY <1>1, <1>3, <1>5, <1>11, <2>3 DEF CopyCoherent
    <2> DEFINE u == [IdleTask EXCEPT !.stage = "settings", !.queue = {snap}]
    <2>5. Copies(u) = {snap} /\ u.stage = "settings"
      BY DEF Copies, IdleTask
    <2> HIDE DEF u
    <2>6. \A d \in Client, q \in Task :
             task'[d][q] = task[d][q] \/ (d = c /\ task'[d][q] = u)
      BY <2>2 DEF TypeOK, Task, u
    <2>7. CopiesCoherent'
      <3>1. \A d \in Client, q \in Task : \A s \in Copies(task'[d][q]) :
               s \in Copies(task[d][q]) \/ CopyCoherent(d, s)'
        BY <2>4, <2>5, <2>6
      <3> QED
        BY <1>2, <1>9, <3>1, CopiesMove DEF Coherent
    <2>8. AnswersArrived'
      BY <1>2, <2>5, <2>6 DEF AnswersArrived, Coherent, TimePasses
    <2>9. RequestsIssued'
      BY <1>2, RequestsStay DEF Capture, Coherent
    <2> QED
      BY <1>9, <2>7, <2>8, <2>9 DEF Coherent
  <1> QED
    BY <1>10, <1>11 DEF Capture

LEMMA ToggleStarCoherent ==
    ASSUME TypeOK, Coherent, NEW c \in Client, NEW k \in Content, ToggleStar(c, k)
    PROVE  Coherent'
  <1>1. PICK stamp \in Stamp :
           stamp = StampOf(c) /\ ~Issued(stamp, c) /\ Issued(stamp, c)'
    BY FreshStamp DEF ToggleStar
  <1>2. TimePasses
    BY TickPasses DEF ToggleStar, pushVars
  <1>3. PICK new : new = [starred |-> ~rows[c][k].starred, synced |-> FALSE,
                          updated |-> stamp, edit |-> stamp]
    OBVIOUS
  <1>4. rows' = [rows EXCEPT ![c] = [rows[c] EXCEPT ![k] = new]]
    BY <1>1, <1>3 DEF ToggleStar, FlipStar
  <1>5. rows'[c][k] = new /\ stamp # None
    BY <1>4, SyncAssumption DEF TypeOK, Cache
  <1>6. RowCoherent(c, k)' /\ RowMove(c, k)
    BY <1>1, <1>3, <1>5 DEF RowCoherent, RowMove
  <1>7. RowsCoherent' /\ \A d \in Client, l \in Content : RowMove(d, l)
    BY <1>2, <1>4, <1>6, OneRowMoves DEF Coherent
  <1> QED
    BY <1>2, <1>7, CoherentIfShedding DEF ToggleStar, pushVars, Sheds

LEMMA DeleteLocalCoherent ==
    ASSUME TypeOK, Coherent, NEW c \in Client, NEW k \in Content, DeleteLocal(c, k)
    PROVE  Coherent'
  <1>1. TimePasses
    BY DEF DeleteLocal, pushVars, TypeOK, TimePasses
  <1>2. rows' = [rows EXCEPT ![c] = [rows[c] EXCEPT ![k] = None]]
    BY DEF DeleteLocal, RemoveEntry
  <1>3. RowCoherent(c, k)' /\ RowMove(c, k)
    BY <1>2 DEF RowCoherent, RowMove, TypeOK, Cache
  <1>4. RowsCoherent' /\ \A d \in Client, l \in Content : RowMove(d, l)
    BY <1>1, <1>2, <1>3, OneRowMoves DEF Coherent
  <1> QED
    BY <1>1, <1>4, CoherentIfShedding DEF DeleteLocal, pushVars, Sheds

LEMMA UserCoherent ==
    ASSUME TypeOK, Coherent, NEW c \in Client, UserStep(c)
    PROVE  Coherent'
  <1>1. ASSUME NEW k \in Content, Capture(c, k) \/ ToggleStar(c, k) \/ DeleteLocal(c, k)
        PROVE  Coherent'
    BY <1>1, CaptureCoherent, ToggleStarCoherent, DeleteLocalCoherent
  <1>2. ASSUME NEW s \in Server \cup {None}, SaveSettings(c, s)
        PROVE  Coherent'
    BY <1>2, CoherentIfRowsStay DEF SaveSettings, pushVars, Sheds, TypeOK
  <1>3. CASE ResetAfterSave(c)
    BY <1>3, CoherentIfRowsStay DEF ResetAfterSave, pushVars, Sheds, TypeOK
  <1>4. CASE ResetSyncCursor(c)
    BY <1>4, CoherentIfRowsStay DEF ResetSyncCursor, pushVars, Sheds, TypeOK
  <1>5. CASE Restart(c)
    <2>1. ASSUME NEW d \in Client, NEW q \in Task
          PROVE  Sheds(task[d][q], task'[d][q])
      <3>1. task'[d][q] \in {task[d][q], IdleTask} /\ task[d][q] \in TaskState
        BY <1>5 DEF Restart, TypeOK
      <3> QED
        BY <3>1, SheddingTasks DEF Sheds, Task
    <2>2. \A r \in late' : r \in late \/ Issued(r.edit, c)
      BY <1>5, InFlightIssued DEF Restart
    <2> QED
      BY <1>5, <2>1, <2>2, CoherentIfRowsStay DEF Restart, TypeOK
  <1> QED
    BY <1>1, <1>2, <1>3, <1>4, <1>5 DEF UserStep

LEMMA OtherCoherent ==
    ASSUME TypeOK, Coherent, NEW s \in Server, NEW k \in Content, OtherStep(s, k)
    PROVE  Coherent'
  <1>1. /\ clock' \in {clock, Now}
        /\ UNCHANGED <<rows, task, late, arrived>>
    BY DEF OtherStep, OtherDevicePush, AdminStar, AdminDelete, pushVars
  <1>2. clock' \in Nat /\ clock <= clock'
    BY <1>1 DEF TypeOK, Now
  <1> QED
    BY <1>1, <1>2, CoherentIfRowsStay DEF Sheds

LEMMA StoreCoherent ==
    ASSUME TypeOK, NEW r, NEW d \in Client, Issued(r.edit, d), Store(r)
    PROVE  /\ TimePasses
           /\ \A e \in arrived' : e \in arrived \/ Issued(e, d)
  BY TickPasses DEF Store

LEMMA PushCoherent ==
    ASSUME TypeOK, Coherent, NEW c \in Client, NEW p \in Task, PushStep(c, p)
    PROVE  Coherent'
  <1> DEFINE t == task[c][p]
  <1>0. t \in TaskState
    BY DEF TypeOK
  <1>1. CASE ReadBatch(c, p)
    <2>1. PICK batch \in UnsyncedBatches(rows[c], BatchLimit) :
             task' = [task EXCEPT ![c][p] =
                IF batch = {} THEN EndOfPush(p)
                ELSE [IdleTask EXCEPT !.stage = "settings", !.queue = batch]]
      BY <1>1 DEF ReadBatch
    <2>2. TimePasses /\ UNCHANGED <<rows, late, arrived>>
      BY <1>1 DEF ReadBatch, TypeOK, TimePasses
    <2>3. RowsCoherent' /\ \A d \in Client, l \in Content : RowMove(d, l)
      BY <2>2, NoRowMoves DEF Coherent
    <2>4. ASSUME NEW snap \in batch
          PROVE  CopyCoherent(c, snap)'
      <3>1. PICK k \in Content :
               rows[c][k] # None /\ ~rows[c][k].synced /\ snap = SnapshotOf(rows[c], k)
        BY DEF UnsyncedBatches, Unsynced
      <3>2. snap.key = k /\ snap.updated = rows[c][k].updated /\ snap.edit = rows[c][k].edit
        BY <3>1 DEF SnapshotOf
      <3>3. Issued(snap.edit, c) /\ Issued(snap.updated, c)
        BY <3>1, <3>2 DEF Coherent, RowsCoherent, RowCoherent
      <3>4. CopyCoherent(c, snap)
        BY <3>2, <3>3 DEF CopyCoherent
      <3> QED
        BY <2>2, <3>4, IssuedStays DEF CopyCoherent
    <2> DEFINE u == IF batch = {} THEN EndOfPush(p)
                    ELSE [IdleTask EXCEPT !.stage = "settings", !.queue = batch]
    <2>5. Copies(u) \subseteq batch /\ u.stage # "answered"
      BY DEF Copies, IdleTask, EndOfPush
    <2> HIDE DEF u
    <2>6. \A d \in Client, q \in Task :
             task'[d][q] = task[d][q] \/ (d = c /\ task'[d][q] = u)
      BY <2>1 DEF TypeOK, u
    <2>7. CopiesCoherent'
      <3>1. \A d \in Client, q \in Task : \A s \in Copies(task'[d][q]) :
               s \in Copies(task[d][q]) \/ CopyCoherent(d, s)'
        BY <2>4, <2>5, <2>6
      <3> QED
        BY <2>2, <2>3, <3>1, CopiesMove DEF Coherent
    <2>8. AnswersArrived'
      BY <2>2, <2>5, <2>6 DEF AnswersArrived, Coherent
    <2>9. RequestsIssued'
      BY <2>2, RequestsStay DEF Coherent
    <2> QED
      BY <2>3, <2>7, <2>8, <2>9 DEF Coherent
  <1>2. CASE PushReadSettings(c, p)
    <2>1. PICK u : task' = [task EXCEPT ![c][p] = u] /\ Sheds(t, u)
      <3>1. CASE config[c] = None
        BY <1>0, <1>2, <3>1, SheddingTasks DEF PushReadSettings
      <3>2. CASE config[c] # None
        <4>1. config[c] \in Server
          BY <3>2 DEF TypeOK
        <4> QED
          BY <1>0, <1>2, <3>2, <4>1, SheddingTasks DEF PushReadSettings
      <3> QED
        BY <3>1, <3>2
    <2>2. \A d \in Client, q \in Task : Sheds(task[d][q], task'[d][q])
      BY <2>1, OneTaskSheds
    <2> QED
      BY <1>2, <2>2, CoherentIfRowsStay DEF PushReadSettings, TypeOK
  <1>3. CASE PushSend(c, p)
    <2>1. PICK snap \in t.queue : task' = [task EXCEPT ![c][p] = Sending(t, snap)]
      BY <1>3 DEF PushSend
    <2>2. Sheds(t, Sending(t, snap))
      BY <1>0, SheddingTasks
    <2>3. \A d \in Client, q \in Task : Sheds(task[d][q], task'[d][q])
      BY <2>1, <2>2, OneTaskSheds
    <2> QED
      BY <1>3, <2>3, CoherentIfRowsStay DEF PushSend, TypeOK
  <1>4. CASE PushDelivered(c, p)
    <2>1. Store(RequestOf(t)) /\ Issued(RequestOf(t).edit, c)
      BY <1>4, RequestOfTaskIssued DEF PushDelivered
    <2>2. TimePasses /\ \A e \in arrived' : e \in arrived \/ Issued(e, c)
      BY <2>1, StoreCoherent
    <2>3. RowsCoherent' /\ \A d \in Client, l \in Content : RowMove(d, l)
      BY <1>4, <2>2, NoRowMoves DEF PushDelivered, Coherent
    <2> DEFINE u == [t EXCEPT !.stage = "answered"]
    <2>4. Sheds(t, u)
      <3>1. Copies(u) = Copies(t) /\ u.cur = t.cur
        BY <1>0 DEF Copies, TaskState, TaskRecord
      <3>2. t.cur.edit \in arrived'
        BY <2>1 DEF Store, RequestOf
      <3> QED
        BY <3>1, <3>2 DEF Sheds
    <2>5. task' = [task EXCEPT ![c][p] = u]
      BY <1>4 DEF PushDelivered
    <2> HIDE DEF u
    <2>6. \A d \in Client, q \in Task : Sheds(task[d][q], task'[d][q])
      BY <2>4, <2>5, OneTaskSheds
    <2> QED
      BY <1>4, <2>2, <2>3, <2>6, CoherentIfShedding DEF PushDelivered
  <1>5. CASE PushAcknowledged(c, p)
    <2>1. TimePasses /\ UNCHANGED <<late, arrived>>
      BY <1>5 DEF PushAcknowledged, TypeOK, TimePasses
    <2>2. CopyCoherent(c, t.cur) /\ t.cur.edit \in arrived /\ t.cur.key \in Content
      BY <1>0, <1>5, RequestOfTaskIssued
      DEF PushAcknowledged, Coherent, AnswersArrived, TaskState, TaskRecord, Snapshot
    <2>3. RowsCoherent' /\ \A d \in Client, l \in Content : RowMove(d, l)
      <3>0. PICK k \in Content : k = t.cur.key
        BY <2>2
      <3>1. CASE rows[c][k] # None /\ rows[c][k].updated = t.cur.updated
        <4>1. PICK new : new = [rows[c][k] EXCEPT !.synced = TRUE]
          OBVIOUS
        <4>2. rows' = [rows EXCEPT ![c] = [rows[c] EXCEPT ![k] = new]]
          BY <1>5, <3>0, <3>1, <4>1 DEF PushAcknowledged, MarkSyncedIfUnchanged
        <4>3. rows[c][k] \in LocalRow /\ rows'[c][k] = new
          BY <3>1, <4>2 DEF TypeOK, Cache
        <4>4. /\ new.synced /\ new.edit = rows[c][k].edit
              /\ new.updated = rows[c][k].updated
          BY <4>1, <4>3 DEF LocalRow
        <4>5. new.edit \in arrived' /\ Issued(new.edit, c)'
          BY <2>1, <2>2, <3>0, <3>1, <4>4, IssuedStays DEF CopyCoherent
        <4>6. RowCoherent(c, k)'
          BY <4>3, <4>4, <4>5 DEF RowCoherent
        <4>7. RowMove(c, k)
          BY <3>1, <4>3, <4>4 DEF RowMove
        <4> QED
          BY <2>1, <4>2, <4>6, <4>7, OneRowMoves DEF Coherent
      <3>2. CASE ~(rows[c][k] # None /\ rows[c][k].updated = t.cur.updated)
        <4>1. rows' = rows
          BY <1>5, <3>0, <3>2 DEF PushAcknowledged, MarkSyncedIfUnchanged, TypeOK
        <4> QED
          BY <2>1, <4>1, NoRowMoves DEF Coherent
      <3> QED
        BY <3>1, <3>2
    <2>4. Sheds(t, NextSnapshot(p, t))
      BY <1>0, <1>5, SheddingTasks DEF PushAcknowledged
    <2>5. \A d \in Client, q \in Task : Sheds(task[d][q], task'[d][q])
      BY <1>5, <2>4, OneTaskSheds DEF PushAcknowledged
    <2> QED
      BY <2>1, <2>3, <2>5, CoherentIfShedding
  <1>6. CASE PushRejected(c, p)
    <2>1. Sheds(t, NextSnapshot(p, t))
      BY <1>0, <1>6, SheddingTasks DEF PushRejected
    <2>2. \A d \in Client, q \in Task : Sheds(task[d][q], task'[d][q])
      BY <1>6, <2>1, OneTaskSheds DEF PushRejected
    <2> QED
      BY <1>6, <2>2, CoherentIfRowsStay DEF PushRejected, TypeOK
  <1>7. CASE PushRefused(c, p)
    <2>1. Sheds(t, EndOfPush(p))
      BY <1>0, SheddingTasks
    <2>2. \A d \in Client, q \in Task : Sheds(task[d][q], task'[d][q])
      BY <1>7, <2>1, OneTaskSheds DEF PushRefused
    <2> QED
      BY <1>7, <2>2, CoherentIfRowsStay DEF PushRefused, TypeOK
  <1>8. CASE PushTimedOut(c, p)
    <2>1. Sheds(t, NextSnapshot(p, t))
      BY <1>0, <1>8, SheddingTasks DEF PushTimedOut
    <2>2. \A d \in Client, q \in Task : Sheds(task[d][q], task'[d][q])
      <3>1. CASE UNCHANGED task
        BY <3>1 DEF Sheds
      <3>2. CASE task' = [task EXCEPT ![c][p] = NextSnapshot(p, t)]
        BY <2>1, <3>2, OneTaskSheds
      <3> QED
        BY <1>8, <3>1, <3>2 DEF PushTimedOut
    <2>3. \A r \in late' : r \in late \/ Issued(r.edit, c)
      BY <1>8, RequestOfTaskIssued DEF PushTimedOut
    <2> QED
      BY <1>8, <2>2, <2>3, CoherentIfRowsStay DEF PushTimedOut, TypeOK
  <1> QED
    BY <1>1, <1>2, <1>3, <1>4, <1>5, <1>6, <1>7, <1>8 DEF PushStep

LEMMA CancelPushCoherent ==
    ASSUME TypeOK, Coherent, NEW c \in Client, CancelPush(c)
    PROVE  Coherent'
  <1>1. "now" \in Task /\ task[c]["now"] \in TaskState
    BY DEF CancelPush, Task, TypeOK
  <1>2. Sheds(task[c]["now"], IdleTask)
    BY <1>1, SheddingTasks
  <1>3. \A r \in late' : r \in late \/ Issued(r.edit, c)
    BY <1>1, InFlightIssued DEF CancelPush
  <1>4. \A d \in Client, q \in Task : Sheds(task[d][q], task'[d][q])
    BY <1>1, <1>2, OneTaskSheds DEF CancelPush
  <1> QED
    BY <1>3, <1>4, CoherentIfRowsStay DEF CancelPush, TypeOK

LEMMA LateCoherent ==
    ASSUME TypeOK, Coherent, NEW r \in late, LateDelivered(r)
    PROVE  Coherent'
  <1>1. PICK d \in Client : Issued(r.edit, d)
    BY DEF Coherent, RequestsIssued
  <1>2. TimePasses /\ \A e \in arrived' : e \in arrived \/ Issued(e, d)
    BY <1>1, StoreCoherent DEF LateDelivered
  <1>3. RowsCoherent' /\ \A e \in Client, l \in Content : RowMove(e, l)
    BY <1>2, NoRowMoves DEF LateDelivered, Coherent
  <1> QED
    BY <1>2, <1>3, CoherentIfShedding DEF LateDelivered, Sheds

\* A pulled star: the row is synced, keeps its edit, and gets a fresh stamp.
LEMMA IngestStarCoherent ==
    ASSUME TypeOK, Coherent, NEW c \in Client, IngestStar(c)
    PROVE  Coherent'
  <1>1. PICK i \in pull[c].page :
           /\ rows' = [rows EXCEPT ![c] =
                 ApplyRemoteStarState(@, i.key, i.starred, StampOf(c))]
           /\ Ingested(c, i)
    BY DEF IngestStar
  <1>2. PICK k \in Content : k = i.key
    BY DEF TypeOK, PullState, PullRecord, Item
  <1>3. UNCHANGED <<task, late, arrived>>
    BY <1>1 DEF Ingested, pushVars
  <1>4. CASE rows' = rows
    <2>1. UNCHANGED clock
      BY <1>4 DEF IngestStar
    <2> QED
      BY <1>3, <1>4, <2>1, CoherentIfRowsStay DEF Sheds, TypeOK
  <1>5. CASE rows' # rows
    <2>1. clock' = Now
      BY <1>5 DEF IngestStar
    <2>2. TimePasses
      BY <1>3, <2>1, TickPasses
    <2>3. PICK stamp \in Stamp :
             stamp = StampOf(c) /\ ~Issued(stamp, c) /\ Issued(stamp, c)'
      BY <2>1, FreshStamp
    <2>4. rows[c][k] # None /\ rows[c][k].synced
      BY <1>1, <1>2, <1>5 DEF ApplyRemoteStarState, TypeOK
    <2>5. PICK new : new = [rows[c][k] EXCEPT !.starred = i.starred, !.updated = stamp]
      OBVIOUS
    <2>6. rows' = [rows EXCEPT ![c] = [rows[c] EXCEPT ![k] = new]]
      BY <1>1, <1>2, <1>5, <2>3, <2>5 DEF ApplyRemoteStarState, TypeOK
    <2>7. rows[c][k] \in LocalRow /\ rows'[c][k] = new
      BY <2>4, <2>6 DEF TypeOK, Cache
    <2>8. /\ new.synced /\ new.edit = rows[c][k].edit
          /\ new.updated = stamp
      BY <2>4, <2>5, <2>7 DEF LocalRow
    <2>9. new.edit # None => Issued(new.edit, c)' /\ new.edit \in arrived'
      BY <2>2, <2>4, <2>8, <1>3, IssuedStays DEF Coherent, RowsCoherent, RowCoherent
    <2>10. RowCoherent(c, k)'
      BY <2>7, <2>8, <2>9 DEF RowCoherent
    <2>11. RowMove(c, k)
      BY <2>3, <2>7, <2>8 DEF RowMove
    <2>12. RowsCoherent' /\ \A d \in Client, l \in Content : RowMove(d, l)
      BY <2>2, <2>6, <2>10, <2>11, OneRowMoves DEF Coherent
    <2> QED
      BY <1>3, <2>2, <2>12, CoherentIfShedding DEF Sheds
  <1> QED
    BY <1>4, <1>5

\* A pulled row has no edit, and a stamp of the server's clock.
LEMMA IngestInsertCoherent ==
    ASSUME TypeOK, Coherent, NEW c \in Client, IngestInsert(c)
    PROVE  Coherent'
  <1>1. PICK i \in pull[c].page :
           /\ rows' = [rows EXCEPT ![c] =
                 InsertRemoteEntry(@, i.key, i.starred,
                                   [by |-> pull[c].srv, at |-> i.updated])]
           /\ Ingested(c, i)
    BY DEF IngestInsert
  <1>2. PICK k \in Content : k = i.key
    BY DEF TypeOK, PullState, PullRecord, Item
  <1>3. UNCHANGED <<clock, task, late, arrived>>
    BY <1>1 DEF Ingested, IngestInsert, pushVars
  <1>4. TimePasses
    BY <1>3 DEF TypeOK, TimePasses
  <1>5. CASE rows[c][k] # None
    <2>1. rows' = rows
      BY <1>1, <1>2, <1>5 DEF InsertRemoteEntry, TypeOK
    <2> QED
      BY <1>3, <2>1, CoherentIfRowsStay DEF Sheds, TypeOK
  <1>6. CASE rows[c][k] = None
    <2>1. PICK new : new = [starred |-> i.starred, synced |-> TRUE,
                            updated |-> [by |-> pull[c].srv, at |-> i.updated],
                            edit |-> None]
      OBVIOUS
    <2>2. rows' = [rows EXCEPT ![c] = [rows[c] EXCEPT ![k] = new]]
      BY <1>1, <1>2, <1>6, <2>1 DEF InsertRemoteEntry
    <2>3. rows'[c][k] = new
      BY <2>2 DEF TypeOK, Cache
    <2>4. pull[c].srv \in Server
      BY DEF IngestInsert, TypeOK, PullState, PullRecord
    <2>5. ~Issued(new.updated, c)
      BY <2>1, <2>4, SyncAssumption DEF Issued
    <2>6. RowCoherent(c, k)'
      BY <2>1, <2>3 DEF RowCoherent
    <2>7. RowMove(c, k)
      BY <2>3, <2>5 DEF RowMove
    <2>8. RowsCoherent' /\ \A d \in Client, l \in Content : RowMove(d, l)
      BY <1>4, <2>2, <2>6, <2>7, OneRowMoves DEF Coherent
    <2> QED
      BY <1>3, <1>4, <2>8, CoherentIfShedding DEF Sheds
  <1> QED
    BY <1>5, <1>6

\* A walk step that changes neither the local history nor the tasks.
LEMMA WalkStepCoherent ==
    ASSUME TypeOK, Coherent, UNCHANGED <<clock, rows, task, late, arrived>>
    PROVE  Coherent'
  BY CoherentIfRowsStay DEF Sheds, TypeOK

LEMMA EndOfWalkCoherent ==
    ASSUME TypeOK, Coherent, NEW c \in Client, EndWalk(c), UNCHANGED <<clock, rows>>
    PROVE  Coherent'
  <1>1. \A d \in Client, q \in Task : Sheds(task[d][q], task'[d][q])
    BY EndWalkSheds
  <1> QED
    BY <1>1, CoherentIfRowsStay DEF EndWalk, TypeOK

LEMMA PullCoherent ==
    ASSUME TypeOK, Coherent, NEW c \in Client, PullStep(c)
    PROVE  Coherent'
  <1>1. ASSUME NEW p \in Passer, PullBegin(c, p)
        PROVE  Coherent'
    <2>1. p \in Task /\ task[c][p] \in TaskState
      BY DEF Task, TypeOK
    <2>2. Sheds(task[c][p], [task[c][p] EXCEPT !.stage = "walk"])
      BY <2>1, SheddingTasks
    <2>3. \A d \in Client, q \in Task : Sheds(task[d][q], task'[d][q])
      BY <1>1, <2>1, <2>2, OneTaskSheds DEF PullBegin
    <2>4. UNCHANGED <<clock, rows, late, arrived>> /\ clock \in Nat
      BY <1>1 DEF PullBegin, TypeOK
    <2> QED
      BY <2>3, <2>4, CoherentIfRowsStay
  <1>2. CASE PullReadSettings(c)
    <2>1. CASE config[c] = None
      BY <1>2, <2>1, EndOfWalkCoherent DEF PullReadSettings
    <2>2. CASE config[c] # None
      BY <1>2, <2>2, WalkStepCoherent DEF PullReadSettings, pushVars
    <2> QED
      BY <2>1, <2>2
  <1>3. CASE PullReadCursor(c) \/ PullPage(c) \/ PullNextPage(c) \/ IngestCheck(c)
               \/ DownloadBlob(c) \/ IngestFailed(c)
    BY <1>3, WalkStepCoherent
    DEF PullReadCursor, PullPage, PullNextPage, IngestCheck, DownloadBlob,
        IngestFailed, pushVars
  <1>4. CASE SkipBlob(c)
    BY <1>4, WalkStepCoherent DEF SkipBlob, Ingested, pushVars
  <1>5. CASE PullPageFailed(c)
    BY <1>5, EndOfWalkCoherent DEF PullPageFailed
  <1>6. CASE IngestStar(c) \/ IngestInsert(c)
    BY <1>6, IngestStarCoherent, IngestInsertCoherent
  <1>7. CASE PullFinish(c)
    BY <1>7, EndOfWalkCoherent DEF PullFinish
  <1>8. CASE CancelPull(c)
    <2>1. CASE EndWalk(c)
      BY <1>8, <2>1, EndOfWalkCoherent DEF CancelPull
    <2>2. CASE /\ task' = [task EXCEPT ![c]["now"] = IdleTask]
               /\ UNCHANGED <<pull, late, arrived>>
      <3>1. "now" \in Task /\ task[c]["now"] \in TaskState
        BY <1>8 DEF CancelPull, Task, TypeOK
      <3>2. Sheds(task[c]["now"], IdleTask)
        BY <3>1, SheddingTasks
      <3>3. \A d \in Client, q \in Task : Sheds(task[d][q], task'[d][q])
        BY <2>2, <3>1, <3>2, OneTaskSheds
      <3> QED
        BY <1>8, <2>2, <3>3, CoherentIfRowsStay DEF CancelPull, TypeOK
    <2> QED
      BY <1>8, <2>1, <2>2 DEF CancelPull
  <1> QED
    BY <1>1, <1>2, <1>3, <1>4, <1>5, <1>6, <1>7, <1>8 DEF PullStep

LEMMA NextCoherent ==
    ASSUME TypeOK, Coherent, [Next]_vars
    PROVE  Coherent'
  <1>1. CASE Next
    BY <1>1, UserCoherent, OtherCoherent, PushCoherent, PullCoherent,
       CancelPushCoherent, LateCoherent
    DEF Next
  <1>2. CASE UNCHANGED vars
    BY <1>2, WalkStepCoherent DEF vars
  <1> QED
    BY <1>1, <1>2

(***************************************************************************)
(* The strengthening holds always: a row with the stamp of a copy has the  *)
(* copy's edit, whatever users, pulls, restarts and other tasks did since  *)
(* the copy was taken.                                                     *)
(***************************************************************************)
THEOREM CoherentAlways == Spec => []Coherent
  <1>1. Init => Coherent
    BY InitCoherent
  <1>2. TypeOK /\ Coherent /\ [Next]_vars => Coherent'
    BY NextCoherent
  <1>3. Spec => []TypeOK
    BY TypeCorrect
  <1> QED
    BY <1>1, <1>2, <1>3, PTL DEF Spec

(***************************************************************************)
(* A row leaves the push queue only when a server has its last edit: for   *)
(* any number of clients, servers, contents, tasks, edits and failures.    *)
(***************************************************************************)
THEOREM NoEditIsLost == Spec => []NoEditLost
  <1>1. Coherent => NoEditLost
    BY DEF Coherent, RowsCoherent, RowCoherent, NoEditLost
  <1> QED
    BY <1>1, CoherentAlways, PTL
=============================================================================
