----------------------------- MODULE HistorySync -----------------------------
(***************************************************************************)
(* The two-way sync of src-tauri/src/sync.rs: clients that each keep a     *)
(* local history, and servers that keep a shared one.                      *)
(*                                                                         *)
(* The sync loop of a client and a manual `sync_now` run passes: a pass    *)
(* pushes snapshots of a batch of unsynced rows, then pulls.  Each capture *)
(* also spawns a task that pushes the new row.  A request is in flight     *)
(* while anything else happens, and may still reach the server after its   *)
(* task gave up on it.  A pull walks the server's history newest-first,    *)
(* page by page, down to the watermark of the last complete walk; one walk *)
(* of a client runs at a time, while its other tasks may be pushing.       *)
(* Users copy, star, delete, change the server URL and reset the cursor at *)
(* any moment, and the app may be killed at any moment.                    *)
(***************************************************************************)
EXTENDS Integers, FiniteSets

CONSTANTS Client, Server, Content,
          BlobContent,  \* the contents whose payload is a blob to download
          Passer,       \* the tasks that run passes: "loop", "now" or both
          Spawned,      \* slots for the tasks that captures spawn
          BatchLimit,   \* LIMIT of get_unsynced_entries (50 in the code)
          PageSize,     \* PAGE_SIZE (100 in the code)
          MaxEdits,     \* bound: user and other-device actions
          MaxFaults,    \* bound: requests and walks that fail, restarts
          None

INSTANCE LocalHistory WITH Clock <- Client \cup Server
INSTANCE ServerHistory WITH Edit <- Stamp \cup {None}

ASSUME SyncAssumption ==
    /\ Client \cap Server = {}
    /\ BlobContent \subseteq Content
    /\ Passer \subseteq {"loop", "now"} /\ Passer \cap Spawned = {}
    /\ BatchLimit \in Nat \ {0} /\ PageSize \in Nat \ {0}
    /\ MaxEdits \in Nat /\ MaxFaults \in Nat
    /\ None \notin ServerRow \cup LocalRow \cup BOOLEAN \cup Server \cup Snapshot
                   \cup Stamp \cup Nat

Task == Passer \cup Spawned

VARIABLES
    clock,      \* stamps issued so far, by every clock
    server,     \* server[s]: the history of server s (durable)
    rows,       \* rows[c]: the local history of client c (durable)
    config,     \* config[c]: the server that the settings name (durable)
    disk,       \* disk[c]: the persisted watermark (durable)
    cursor,     \* cursor[c]: PullState, in memory
    task,       \* task[c][p]: where task p of client c stands
    late,       \* requests whose task gave up on them
    pull,       \* pull[c]: where the walk of client c stands
    saving,     \* saving[c]: update_settings saved a new server, reset to come
    edits, faults,  \* how much of the two bounds is used
    \* Auxiliary variables; no action's guard reads them.
    arrived,    \* edits whose snapshot a server has stored
    seen,       \* seen[c]: server versions that c has dealt with
    torn        \* torn[c]: a reset that saving[c] called for left disk[c] behind

userVars == <<edits, faults>>
pushVars == <<task, late, arrived>>
pullVars == <<pull, cursor, disk, seen, torn>>
configVars == <<config, saving>>
vars == <<clock, server, rows, config, disk, cursor, task, late, pull, saving,
          edits, faults, arrived, seen, torn>>

\* A watermark: the newest updated_at of a complete walk, and of which server.
Mark == [srv : Server, at : Nat]

Request == [srv : Server, key : Content, starred : BOOLEAN,
            edit : Stamp \cup {None}]

Version == [srv : Server, key : Content, updated : Nat]

\* A task pushes up to "answered"; a passer then waits for pull_lock and walks.
\* It knows its server from "ready" on, and a snapshot from "sent" on.
TaskRecord ==
    [stage : {"idle", "settings", "ready", "sent", "answered", "wait", "walk"},
     srv : Server \cup {None},
     queue : SUBSET Snapshot,
     cur : Snapshot \cup {None}]

TaskState ==
    {t \in TaskRecord :
        /\ t.stage \in {"ready", "sent", "answered"} => t.srv # None
        /\ t.stage \in {"sent", "answered"} => t.cur # None}

\* A walk knows its server once it has read the settings.
PullRecord ==
    [at : {"idle", "begun", "settings", "fetch", "page", "apply", "download",
           "insert", "finish"},
     generation : Nat,
     srv : Server \cup {None},
     mark : Mark \cup {None},
     before : Nat \cup {None},
     newest : Nat \cup {None},
     page : SUBSET Item,
     more : BOOLEAN,
     err : BOOLEAN]

PullState == {w \in PullRecord : w.at \notin {"idle", "begun"} => w.srv # None}

TypeOK ==
    /\ clock \in Nat
    /\ server \in [Server -> History]
    /\ rows \in [Client -> Cache]
    /\ config \in [Client -> Server \cup {None}]
    /\ disk \in [Client -> Mark \cup {None}]
    /\ cursor \in [Client -> [generation : Nat, initialized : BOOLEAN,
                              watermark : Mark \cup {None}]]
    /\ task \in [Client -> [Task -> TaskState]]
    /\ late \subseteq Request
    /\ pull \in [Client -> PullState]
    /\ saving \in [Client -> BOOLEAN]
    /\ edits \in Nat /\ faults \in Nat
    /\ arrived \subseteq Stamp \cup {None}
    /\ seen \in [Client -> SUBSET Version]
    /\ torn \in [Client -> BOOLEAN]

IdleTask == [stage |-> "idle", srv |-> None, queue |-> {}, cur |-> None]

IdlePull ==
    [at |-> "idle", generation |-> 0, srv |-> None, mark |-> None,
     before |-> None, newest |-> None, page |-> {}, more |-> FALSE,
     err |-> FALSE]

\* SyncClient::new: the in-memory cursor starts from the persisted watermark.
StartCursor(mark) ==
    [generation |-> 0, initialized |-> mark # None, watermark |-> mark]

Init ==
    /\ clock = 0
    /\ server = [s \in Server |-> EmptyHistory]
    /\ rows = [c \in Client |-> EmptyCache]
    /\ config \in [Client -> Server]
    /\ disk = [c \in Client |-> None]
    /\ cursor = [c \in Client |-> StartCursor(None)]
    /\ task = [c \in Client |-> [p \in Task |-> IdleTask]]
    /\ late = {}
    /\ pull = [c \in Client |-> IdlePull]
    /\ saving = [c \in Client |-> FALSE]
    /\ edits = 0 /\ faults = 0
    /\ arrived = {}
    /\ seen = [c \in Client |-> {}]
    /\ torn = [c \in Client |-> FALSE]

Now == clock + 1

StampOf(d) == [by |-> d, at |-> Now]

SpendEdit == edits < MaxEdits /\ edits' = edits + 1 /\ UNCHANGED faults

SpendFault == faults < MaxFaults /\ faults' = faults + 1 /\ UNCHANGED edits

-----------------------------------------------------------------------------
(***************************************************************************)
(* What users and other devices do.                                        *)
(***************************************************************************)

\* A clipboard change is stored.  A new row is also pushed at once, by a task
\* of its own, which may fail at once; a known content only moves to the top.
Capture(c, k) ==
    /\ SpendEdit
    /\ rows' = [rows EXCEPT ![c] = InsertEntry(@, k, StampOf(c))]
    /\ clock' = Now
    /\ \/ UNCHANGED task
       \/ /\ rows[c][k] = None
          /\ \E p \in Spawned :
                /\ task[c][p].stage = "idle"
                /\ task' = [task EXCEPT ![c][p] =
                      [IdleTask EXCEPT !.stage = "settings",
                                       !.queue = {SnapshotOf(rows'[c], k)}]]
    /\ UNCHANGED <<server, late, arrived, pullVars, configVars>>

ToggleStar(c, k) ==
    /\ rows[c][k] # None
    /\ SpendEdit
    /\ rows' = [rows EXCEPT ![c] = FlipStar(@, k, StampOf(c))]
    /\ clock' = Now
    /\ UNCHANGED <<server, pushVars, pullVars, configVars>>

DeleteLocal(c, k) ==
    /\ rows[c][k] # None
    /\ SpendEdit
    /\ rows' = [rows EXCEPT ![c] = RemoveEntry(@, k)]
    /\ UNCHANGED <<clock, server, pushVars, pullVars, configVars>>

\* A push by a device outside the model: a Shizuku upload sends FALSE, and
\* `starred` is optional in the API.
OtherDevicePush(s, k, starred) ==
    /\ SpendEdit
    /\ server' = [server EXCEPT ![s] = CreateEntry(@, k, starred, StampOf(s), Now)]
    /\ clock' = Now
    /\ UNCHANGED <<rows, pushVars, pullVars, configVars>>

\* The admin UI stars and deletes rows of the server itself.
AdminStar(s, k, starred) ==
    /\ server[s][k] # None
    /\ SpendEdit
    /\ server' = [server EXCEPT ![s] = UpdateEntryStarred(@, k, starred, StampOf(s), Now)]
    /\ clock' = Now
    /\ UNCHANGED <<rows, pushVars, pullVars, configVars>>

AdminDelete(s, k) ==
    /\ server[s][k] # None
    /\ SpendEdit
    /\ server' = [server EXCEPT ![s] = DeleteEntry(@, k)]
    /\ UNCHANGED <<clock, rows, pushVars, pullVars, configVars>>

-----------------------------------------------------------------------------
(***************************************************************************)
(* Settings and the pull cursor.                                           *)
(***************************************************************************)

\* Mutant: a walk that is under way is not told of the reset.
ResetCursorQuietly(c) ==
    /\ cursor' = [cursor EXCEPT ![c] =
          [cursor[c] EXCEPT !.initialized = FALSE, !.watermark = None]]
    /\ disk' = [disk EXCEPT ![c] = None]
    /\ torn' = [torn EXCEPT ![c] = FALSE]
    /\ UNCHANGED <<faults, pull, seen>>

\* reset_pull_cursor.  If the persisted watermark cannot be cleared, that is
\* only logged.
ResetCursor(c) ==
    /\ cursor' = [cursor EXCEPT ![c] =
          [generation |-> cursor[c].generation + 1,
           initialized |-> FALSE, watermark |-> None]]
    /\ \/ /\ disk' = [disk EXCEPT ![c] = None]
          /\ torn' = [torn EXCEPT ![c] = FALSE]
          /\ UNCHANGED faults
       \/ /\ faults < MaxFaults /\ faults' = faults + 1
          /\ torn' = [torn EXCEPT ![c] = @ \/ saving[c]]
          /\ UNCHANGED disk
    /\ UNCHANGED <<pull, seen>>

\* update_settings, first half: save.  The reset that a changed server calls
\* for is the second half; anything may happen in between.
SaveSettings(c, s) ==
    /\ ~saving[c]
    /\ SpendEdit
    /\ config' = [config EXCEPT ![c] = s]
    /\ saving' = [saving EXCEPT ![c] = config[c] # s]
    /\ UNCHANGED <<clock, server, rows, pushVars, pullVars>>

ResetAfterSave(c) ==
    /\ saving[c]
    /\ ResetCursor(c)
    /\ saving' = [saving EXCEPT ![c] = FALSE]
    /\ UNCHANGED <<clock, server, rows, config, pushVars, edits>>

\* The user's "reset sync cursor" command.
ResetSyncCursor(c) ==
    /\ edits < MaxEdits /\ edits' = edits + 1
    /\ ResetCursor(c)
    /\ UNCHANGED <<clock, server, rows, configVars, pushVars>>

-----------------------------------------------------------------------------
(***************************************************************************)
(* Pushing.  A task reads its rows, then the settings, then sends its      *)
(* snapshots one at a time.                                                *)
(***************************************************************************)

\* The push of task p is over.  A passer goes on to pull, a spawned task ends.
EndOfPush(p) ==
    IF p \in Passer THEN [IdleTask EXCEPT !.stage = "wait"] ELSE IdleTask

\* A pass begins: sync_unsynced_entries reads a batch.
ReadBatch(c, p) ==
    /\ p \in Passer
    /\ task[c][p].stage = "idle"
    /\ \E batch \in UnsyncedBatches(rows[c], BatchLimit) :
          task' = [task EXCEPT ![c][p] =
             IF batch = {} THEN EndOfPush(p)
             ELSE [IdleTask EXCEPT !.stage = "settings", !.queue = batch]]
    /\ UNCHANGED <<clock, server, rows, late, arrived, pullVars, configVars,
                   userVars>>

\* Mutant: goes on without a configured server.
PushReadSettingsUnchecked(c, p) ==
    /\ task[c][p].stage = "settings"
    /\ task' = [task EXCEPT ![c][p] = [@ EXCEPT !.stage = "ready", !.srv = config[c]]]
    /\ UNCHANGED <<clock, server, rows, late, arrived, pullVars, configVars,
                   userVars>>

PushReadSettings(c, p) ==
    /\ task[c][p].stage = "settings"
    /\ task' = [task EXCEPT ![c][p] =
          IF config[c] = None THEN EndOfPush(p)
          ELSE [@ EXCEPT !.stage = "ready", !.srv = config[c]]]
    /\ UNCHANGED <<clock, server, rows, late, arrived, pullVars, configVars,
                   userVars>>

Sending(t, snap) ==
    [t EXCEPT !.stage = "sent", !.cur = snap, !.queue = @ \ {snap}]

PushSend(c, p) ==
    /\ task[c][p].stage = "ready"
    /\ \E snap \in task[c][p].queue :
          task' = [task EXCEPT ![c][p] = Sending(@, snap)]
    /\ UNCHANGED <<clock, server, rows, late, arrived, pullVars, configVars,
                   userVars>>

\* Task p, in state t, goes on to its next snapshot.
NextSnapshot(p, t) ==
    IF t.queue = {} THEN EndOfPush(p)
    ELSE [t EXCEPT !.stage = "ready", !.cur = None]

RequestOf(t) ==
    [srv |-> t.srv, key |-> t.cur.key, starred |-> t.cur.starred,
     edit |-> t.cur.edit]

\* The server's create_entry, for a request r that reached it.
Store(r) ==
    /\ server' = [server EXCEPT ![r.srv] =
                     CreateEntry(@, r.key, r.starred, r.edit, Now)]
    /\ clock' = Now
    /\ arrived' = arrived \cup {r.edit}

PushDelivered(c, p) ==
    /\ task[c][p].stage = "sent"
    /\ Store(RequestOf(task[c][p]))
    /\ task' = [task EXCEPT ![c][p] = [@ EXCEPT !.stage = "answered"]]
    /\ UNCHANGED <<rows, late, pullVars, configVars, userVars>>

\* The 2xx answer reaches the task, which acknowledges the row.
PushAcknowledged(c, p) ==
    LET t == task[c][p] IN
    /\ t.stage = "answered"
    /\ rows' = [rows EXCEPT ![c] =
          MarkSyncedIfUnchanged(@, t.cur.key, t.cur.updated)]
    /\ task' = [task EXCEPT ![c][p] = NextSnapshot(p, t)]
    /\ UNCHANGED <<clock, server, late, arrived, pullVars, configVars, userVars>>

\* Mutant: an error answer acknowledges the row as well.
PushRejectedAsDone(c, p) ==
    /\ task[c][p].stage \in {"sent", "answered"}
    /\ SpendFault
    /\ rows' = [rows EXCEPT ![c] =
          MarkSyncedIfUnchanged(@, task[c][p].cur.key, task[c][p].cur.updated)]
    /\ task' = [task EXCEPT ![c][p] = NextSnapshot(p, @)]
    /\ UNCHANGED <<clock, server, late, arrived, pullVars, configVars>>

\* An error about this entry alone, such as 413, or a local database error on
\* its acknowledgement: the batch continues.
PushRejected(c, p) ==
    /\ task[c][p].stage \in {"sent", "answered"}
    /\ SpendFault
    /\ task' = [task EXCEPT ![c][p] = NextSnapshot(p, @)]
    /\ UNCHANGED <<clock, server, rows, late, arrived, pullVars, configVars>>

\* 401, 403, or no server reachable: the batch ends.
PushRefused(c, p) ==
    /\ task[c][p].stage = "sent"
    /\ SpendFault
    /\ task' = [task EXCEPT ![c][p] = EndOfPush(p)]
    /\ UNCHANGED <<clock, server, rows, late, arrived, pullVars, configVars>>

\* The request times out while the server may still get it.  The task retries
\* the snapshot over the fallback URL of the same server, or gives it up.
PushTimedOut(c, p) ==
    /\ task[c][p].stage = "sent"
    /\ SpendFault
    /\ late' = late \cup {RequestOf(task[c][p])}
    /\ \/ UNCHANGED task
       \/ task' = [task EXCEPT ![c][p] = NextSnapshot(p, @)]
    /\ UNCHANGED <<clock, server, rows, arrived, pullVars, configVars>>

\* A request that its task gave up on reaches the server after all.
LateDelivered(r) ==
    /\ r \in late
    /\ Store(r)
    /\ late' = late \ {r}
    /\ UNCHANGED <<rows, task, pullVars, configVars, userVars>>

\* Requests of client c that are on their way when its tasks P disappear.
InFlight(c, P) ==
    {RequestOf(task[c][p]) : p \in {q \in P : task[c][q].stage = "sent"}}

\* sync_now gives up on its push after 35 s, while a request is out, and ends.
CancelPush(c) ==
    /\ "now" \in Passer
    /\ task[c]["now"].stage \in {"sent", "answered"}
    /\ SpendFault
    /\ late' = late \cup InFlight(c, {"now"})
    /\ task' = [task EXCEPT ![c]["now"] = IdleTask]
    /\ UNCHANGED <<clock, server, rows, arrived, pullVars, configVars>>

-----------------------------------------------------------------------------
(***************************************************************************)
(* Pulling.  A passer waits for pull_lock, which it holds until its walk   *)
(* ends, so the walk of one client is a single process.                    *)
(***************************************************************************)

\* The generation is read before the settings: a reset after this point wins.
PullBegin(c, p) ==
    /\ p \in Passer /\ task[c][p].stage = "wait"
    /\ pull[c].at = "idle"
    /\ task' = [task EXCEPT ![c][p] = [@ EXCEPT !.stage = "walk"]]
    /\ pull' = [pull EXCEPT ![c] =
          [IdlePull EXCEPT !.at = "begun", !.generation = cursor[c].generation]]
    /\ UNCHANGED <<clock, server, rows, cursor, disk, seen, torn, late, arrived,
                   configVars, userVars>>

\* The walk ends, and with it the pass of the task that runs it.
EndWalk(c) ==
    /\ pull' = [pull EXCEPT ![c] = IdlePull]
    /\ task' = [task EXCEPT ![c] =
          [p \in Task |-> IF @[p].stage = "walk" THEN IdleTask ELSE @[p]]]
    /\ UNCHANGED <<late, arrived>>

PullReadSettings(c) ==
    /\ pull[c].at = "begun"
    /\ IF config[c] = None
       THEN EndWalk(c)
       ELSE /\ pull' = [pull EXCEPT ![c] =
                  [@ EXCEPT !.at = "settings", !.srv = config[c]]]
            /\ UNCHANGED pushVars
    /\ UNCHANGED <<clock, server, rows, cursor, disk, seen, torn, configVars,
                   userVars>>

PullReadCursor(c) ==
    /\ pull[c].at = "settings"
    /\ pull' = [pull EXCEPT ![c] =
          [@ EXCEPT !.at = "fetch",
                    !.mark = IF cursor[c].initialized THEN cursor[c].watermark
                             ELSE None]]
    /\ UNCHANGED <<clock, server, rows, cursor, disk, seen, torn, pushVars,
                   configVars, userVars>>

Above(items, mark) ==
    IF mark = None THEN items ELSE {i \in items : i.updated > mark.at}

\* With a watermark the first page is a probe of one entry.
Limit(walk) ==
    IF walk.mark # None /\ walk.before = None THEN 1 ELSE PageSize

\* One GET /api/entries.  What is at or below the watermark ends the walk; of
\* the rest, the newest entry of the first page is the next watermark.
PullPage(c) ==
    LET walk  == pull[c]
        items == ItemsBefore(server[walk.srv], walk.before)
        page  == NewestItems(items, Limit(walk))
        fresh == Above(page, walk.mark)
    IN
    /\ walk.at = "fetch"
    /\ IF page = {}
       THEN pull' = [pull EXCEPT ![c] = [walk EXCEPT !.at = "finish"]]
       ELSE \E first, last \in page :
              /\ \A i \in page : last.updated <= i.updated /\ i.updated <= first.updated
              /\ pull' = [pull EXCEPT ![c] =
                    [walk EXCEPT !.at = "page",
                                 !.page = fresh,
                                 !.more = page # items /\ fresh = page,
                                 !.before = last.updated,
                                 !.newest = IF walk.newest = None
                                            THEN first.updated ELSE walk.newest]]
    /\ UNCHANGED <<clock, server, rows, cursor, disk, seen, torn, pushVars,
                   configVars, userVars>>

\* A page is rejected or no server answers: the walk ends, rows stay ingested.
PullPageFailed(c) ==
    /\ pull[c].at = "fetch"
    /\ SpendFault
    /\ EndWalk(c)
    /\ UNCHANGED <<clock, server, rows, cursor, disk, seen, torn, configVars>>

\* Mutant: the first page is taken for the whole history.
PullOnePageOnly(c) ==
    /\ pull[c].at = "page" /\ pull[c].page = {}
    /\ pull' = [pull EXCEPT ![c] = [@ EXCEPT !.at = "finish"]]
    /\ UNCHANGED <<clock, server, rows, cursor, disk, seen, torn, pushVars,
                   configVars, userVars>>

PullNextPage(c) ==
    /\ pull[c].at = "page" /\ pull[c].page = {}
    /\ pull' = [pull EXCEPT ![c] =
          [@ EXCEPT !.at = IF pull[c].more THEN "fetch" ELSE "finish"]]
    /\ UNCHANGED <<clock, server, rows, cursor, disk, seen, torn, pushVars,
                   configVars, userVars>>

\* The entry being ingested: pages are processed newest first.
IsHead(i, page) == i \in page /\ \A j \in page : j.updated <= i.updated

\* ingest_remote_entry, first half: is the content known here?
IngestCheck(c) ==
    /\ pull[c].at = "page"
    /\ \E i \in pull[c].page :
          /\ IsHead(i, pull[c].page)
          /\ pull' = [pull EXCEPT ![c] =
                [@ EXCEPT !.at =
                    IF rows[c][i.key] # None THEN "apply"
                    ELSE IF i.key \in BlobContent THEN "download" ELSE "insert"]]
    /\ UNCHANGED <<clock, server, rows, cursor, disk, seen, torn, pushVars,
                   configVars, userVars>>

\* The walk goes on behind entry i of the page.
PastItem(walk, i) == [walk EXCEPT !.at = "page", !.page = @ \ {i}]

\* Entry i is dealt with.
Ingested(c, i) ==
    /\ pull' = [pull EXCEPT ![c] = PastItem(@, i)]
    /\ seen' = [seen EXCEPT ![c] = @ \cup
          {[srv |-> pull[c].srv, key |-> i.key, updated |-> i.updated]}]
    /\ UNCHANGED <<server, cursor, disk, torn, pushVars, configVars, userVars>>

IngestStar(c) ==
    /\ pull[c].at = "apply"
    /\ \E i \in pull[c].page :
          /\ IsHead(i, pull[c].page)
          /\ rows' = [rows EXCEPT ![c] =
                ApplyRemoteStarState(@, i.key, i.starred, StampOf(c))]
          /\ clock' = IF rows' = rows THEN clock ELSE Now
          /\ Ingested(c, i)

DownloadBlob(c) ==
    /\ pull[c].at = "download"
    /\ pull' = [pull EXCEPT ![c] = [@ EXCEPT !.at = "insert"]]
    /\ UNCHANGED <<clock, server, rows, cursor, disk, seen, torn, pushVars,
                   configVars, userVars>>

\* A server that answered has no blob, or an empty or a wrong one: the entry
\* is skipped, and does not hold the watermark back.
SkipBlob(c) ==
    /\ pull[c].at = "download"
    /\ \E i \in pull[c].page : IsHead(i, pull[c].page) /\ Ingested(c, i)
    /\ UNCHANGED <<clock, rows>>

IngestInsert(c) ==
    /\ pull[c].at = "insert"
    /\ \E i \in pull[c].page :
          /\ IsHead(i, pull[c].page)
          /\ rows' = [rows EXCEPT ![c] =
                InsertRemoteEntry(@, i.key, i.starred,
                                  [by |-> pull[c].srv, at |-> i.updated])]
          /\ Ingested(c, i)
    /\ UNCHANGED clock

\* A transient failure, of the download or of the local database: the walk
\* continues, but will not move the watermark.
IngestFailed(c) ==
    /\ pull[c].at \in {"page", "apply", "download", "insert"}
    /\ SpendFault
    /\ \E i \in pull[c].page :
          /\ IsHead(i, pull[c].page)
          /\ pull' = [pull EXCEPT ![c] = [PastItem(@, i) EXCEPT !.err = TRUE]]
    /\ UNCHANGED <<clock, server, rows, cursor, disk, seen, torn, pushVars,
                   configVars>>

\* save_sync_watermark; a failure is only logged.
Persist(c, mark) ==
    \/ disk' = [disk EXCEPT ![c] = mark] /\ UNCHANGED faults
    \/ faults < MaxFaults /\ faults' = faults + 1 /\ UNCHANGED disk

\* Mutant: the watermark moves in spite of entries that failed.
PullFinishAnyway(c) ==
    LET walk == pull[c]
        mark == [srv |-> walk.srv, at |-> walk.newest]
        old  == cursor[c].watermark
    IN
    /\ walk.at = "finish"
    /\ EndWalk(c)
    /\ IF walk.newest = None \/ cursor[c].generation # walk.generation
       THEN UNCHANGED <<cursor, disk, faults>>
       ELSE IF old = None \/ walk.newest > old.at
            THEN /\ cursor' = [cursor EXCEPT ![c] =
                       [@ EXCEPT !.watermark = mark, !.initialized = TRUE]]
                 /\ Persist(c, mark)
            ELSE /\ cursor' = [cursor EXCEPT ![c] = [@ EXCEPT !.initialized = TRUE]]
                 /\ UNCHANGED <<disk, faults>>
    /\ UNCHANGED <<clock, server, rows, seen, torn, configVars, edits>>

\* The end of a walk.  The watermark moves only if nothing failed, no reset
\* came in between, and only forward; it is persisted under the same lock.
PullFinish(c) ==
    LET walk == pull[c]
        mark == [srv |-> walk.srv, at |-> walk.newest]
        old  == cursor[c].watermark
    IN
    /\ walk.at = "finish"
    /\ EndWalk(c)
    /\ IF walk.newest = None \/ walk.err \/ cursor[c].generation # walk.generation
       THEN UNCHANGED <<cursor, disk, faults>>
       ELSE IF old = None \/ walk.newest > old.at
            THEN /\ cursor' = [cursor EXCEPT ![c] =
                       [@ EXCEPT !.watermark = mark, !.initialized = TRUE]]
                 /\ Persist(c, mark)
            ELSE /\ cursor' = [cursor EXCEPT ![c] = [@ EXCEPT !.initialized = TRUE]]
                 /\ UNCHANGED <<disk, faults>>
    /\ UNCHANGED <<clock, server, rows, seen, torn, configVars, edits>>

\* Mutant: a walk that is cut off counts as complete.
CancelPullAsDone(c) ==
    /\ "now" \in Passer
    /\ SpendFault
    /\ task[c]["now"].stage = "walk"
    /\ pull[c].at \in {"fetch", "download"}
    /\ pull' = [pull EXCEPT ![c] = [@ EXCEPT !.at = "finish"]]
    /\ UNCHANGED <<clock, server, rows, cursor, disk, seen, torn, pushVars,
                   configVars>>

\* sync_now gives up on its pull after 35 s: while it waits for pull_lock, for
\* a page or for a blob.
CancelPull(c) ==
    /\ "now" \in Passer
    /\ SpendFault
    /\ \/ /\ task[c]["now"].stage = "wait"
          /\ task' = [task EXCEPT ![c]["now"] = IdleTask]
          /\ UNCHANGED <<pull, late, arrived>>
       \/ /\ task[c]["now"].stage = "walk"
          /\ pull[c].at \in {"fetch", "download"}
          /\ EndWalk(c)
    /\ UNCHANGED <<clock, server, rows, cursor, disk, seen, torn, configVars>>

\* The app is killed and started again.
Restart(c) ==
    /\ SpendFault
    /\ late' = late \cup InFlight(c, Task)
    /\ task' = [task EXCEPT ![c] = [p \in Task |-> IdleTask]]
    /\ pull' = [pull EXCEPT ![c] = IdlePull]
    /\ cursor' = [cursor EXCEPT ![c] = StartCursor(disk[c])]
    /\ saving' = [saving EXCEPT ![c] = FALSE]
    /\ torn' = [torn EXCEPT ![c] = @ \/ saving[c]]
    /\ UNCHANGED <<clock, server, rows, config, disk, arrived, seen>>

-----------------------------------------------------------------------------
UserStep(c) ==
    \/ \E k \in Content : Capture(c, k) \/ ToggleStar(c, k) \/ DeleteLocal(c, k)
    \/ \E s \in Server \cup {None} : SaveSettings(c, s)
    \/ ResetAfterSave(c) \/ ResetSyncCursor(c) \/ Restart(c)

OtherStep(s, k) ==
    \/ \E starred \in BOOLEAN \cup {None} : OtherDevicePush(s, k, starred)
    \/ \E starred \in BOOLEAN : AdminStar(s, k, starred)
    \/ AdminDelete(s, k)

PushStep(c, p) ==
    \/ ReadBatch(c, p) \/ PushReadSettings(c, p) \/ PushSend(c, p)
    \/ PushDelivered(c, p) \/ PushAcknowledged(c, p)
    \/ PushRejected(c, p) \/ PushRefused(c, p) \/ PushTimedOut(c, p)

PullStep(c) ==
    \/ \E p \in Passer : PullBegin(c, p)
    \/ PullReadSettings(c) \/ PullReadCursor(c)
    \/ PullPage(c) \/ PullPageFailed(c) \/ PullNextPage(c)
    \/ IngestCheck(c) \/ IngestStar(c) \/ DownloadBlob(c) \/ SkipBlob(c)
    \/ IngestInsert(c) \/ IngestFailed(c) \/ PullFinish(c) \/ CancelPull(c)

Next ==
    \/ \E c \in Client :
          UserStep(c) \/ PullStep(c) \/ CancelPush(c)
            \/ \E p \in Task : PushStep(c, p)
    \/ \E s \in Server, k \in Content : OtherStep(s, k)
    \/ \E r \in late : LateDelivered(r)

Spec == Init /\ [][Next]_vars

(***************************************************************************)
(* Every request is answered or times out, and the loop never ends, so a   *)
(* task that can go on goes on.  pull_lock is a fair (FIFO) mutex: a       *)
(* passer that waits while walks come and go gets its turn.  Users,        *)
(* failures and late requests are under no fairness, and nothing makes a   *)
(* user press "Sync now".                                                  *)
(***************************************************************************)
PushProgress(c, p) ==
    \/ p # "now" /\ ReadBatch(c, p)
    \/ PushReadSettings(c, p) \/ PushSend(c, p)
    \/ PushDelivered(c, p) \/ PushAcknowledged(c, p)

PullProgress(c) ==
    \/ PullReadSettings(c) \/ PullReadCursor(c)
    \/ PullPage(c) \/ PullNextPage(c)
    \/ IngestCheck(c) \/ IngestStar(c) \/ DownloadBlob(c) \/ SkipBlob(c)
    \/ IngestInsert(c) \/ PullFinish(c)

Fairness ==
    \A c \in Client :
        /\ WF_vars(PullProgress(c))
        /\ WF_vars(ResetAfterSave(c))
        /\ \A p \in Task : WF_vars(PushProgress(c, p))
        /\ \A p \in Passer : SF_vars(PullBegin(c, p))

FairSpec == Spec /\ Fairness

-----------------------------------------------------------------------------
Waiting(c, k) == rows[c][k] # None /\ ~rows[c][k].synced

Copies(t) == t.queue \cup (IF t.cur = None THEN {} ELSE {t.cur})

(***************************************************************************)
(* Why no edit is lost: the inductive strengthening of NoEditLost.  The    *)
(* acknowledgement compares updated_at alone, so a row that still has the  *)
(* updated_at of a copy must still have its star.  This rests on           *)
(* what mark_synced_if_unchanged asks of other writers: whoever clears     *)
(* `synced` moves updated_at to a stamp that was never issued before.      *)
(***************************************************************************)
Issued(stamp, c) == stamp \in Stamp /\ stamp.by = c /\ stamp.at <= clock

RowCoherent(c, k) ==
    LET row == rows[c][k] IN
    row # None =>
        /\ row.edit # None => Issued(row.edit, c)
        /\ ~row.synced => Issued(row.updated, c) /\ row.edit # None
        /\ row.synced /\ row.edit # None => row.edit \in arrived

RowsCoherent == \A c \in Client, k \in Content : RowCoherent(c, k)

CopyCoherent(c, snap) ==
    /\ Issued(snap.edit, c) /\ Issued(snap.updated, c)
    /\ LET row == rows[c][snap.key] IN
       row # None /\ row.updated = snap.updated => row.edit = snap.edit

CopiesCoherent ==
    \A c \in Client, p \in Task :
        \A snap \in Copies(task[c][p]) : CopyCoherent(c, snap)

AnswersArrived ==
    \A c \in Client, p \in Task :
        task[c][p].stage = "answered" => task[c][p].cur.edit \in arrived

RequestsIssued ==
    /\ \A r \in late : \E c \in Client : Issued(r.edit, c)
    /\ \A e \in arrived : \E c \in Client : Issued(e, c)

Coherent ==
    RowsCoherent /\ CopiesCoherent /\ AnswersArrived /\ RequestsIssued

(***************************************************************************)
(* The protocol implements Outbox: its tasks, batches, acknowledgements,   *)
(* retries, pulls and restarts keep what the abstract outbox promises of   *)
(* every edit (sync_unsynced_entries, push_entry, storage.rs).             *)
(***************************************************************************)
WaitingEdits ==
    [c \in Client |-> [k \in Content |->
        IF Waiting(c, k) THEN rows[c][k].edit ELSE None]]

CopiedEdits(c, p) == {snap.edit : snap \in Copies(task[c][p])}

FlyingEdits ==
    {r.edit : r \in late} \cup UNION {CopiedEdits(c, p) : c \in Client, p \in Task}

O == INSTANCE Outbox WITH
        Edit <- Stamp, waiting <- WaitingEdits, flying <- FlyingEdits

ImplementsOutbox == O!Spec

(***************************************************************************)
(* A row leaves the push queue only when a server has its last edit.  A    *)
(* capture or a star toggle that lands while an older snapshot of the row  *)
(* is in flight must not be acknowledged by the answer to that snapshot    *)
(* (mark_synced_if_unchanged).                                             *)
(***************************************************************************)
NoEditLost ==
    \A c \in Client, k \in Content :
        LET row == rows[c][k] IN
        row # None /\ row.synced /\ row.edit # None => row.edit \in arrived

(***************************************************************************)
(* A local change that is still to be pushed is the user's alone to change *)
(* or withdraw: no pull, no restart and no answer to an older snapshot     *)
(* flips the star of an unsynced row, removes it, or takes it off the push *)
(* queue before its last edit has arrived                                  *)
(* (apply_remote_star_state_by_content_hash, insert_remote_entry).         *)
(***************************************************************************)
StillPending(old, new) ==
    /\ new # None
    /\ \/ /\ new.edit = old.edit /\ new.starred = old.starred
          /\ new.synced => old.edit \in arrived
       \/ new.edit.at > old.edit.at /\ ~new.synced

PendingEditSurvives ==
    [][\A c \in Client, k \in Content :
          rows[c][k] # None /\ ~rows[c][k].synced
            => \/ StillPending(rows[c][k], rows'[c][k])
               \/ DeleteLocal(c, k)]_rows

(***************************************************************************)
(* The watermark may hide a version of the configured server's history     *)
(* only if the client has dealt with it, however the history moved while   *)
(* pages were being walked, whatever failed, and across resets and         *)
(* restarts (pull_new_entries).  The exception is a switch of servers      *)
(* whose reset was cut off by a kill, or could not clear the disk.         *)
(***************************************************************************)
Configured(c) == config[c] # None /\ ~saving[c] /\ ~torn[c]

WatermarkHidesNothingNew ==
    \A c \in Client :
        LET mark == cursor[c].watermark IN
        Configured(c) /\ mark # None =>
            \A i \in Items(server[config[c]]) :
                i.updated <= mark.at =>
                    [srv |-> config[c], key |-> i.key, updated |-> i.updated]
                        \in seen[c]

(***************************************************************************)
(* A watermark is a position in one server's history: the one in memory    *)
(* and the one on disk belong to the configured server, even if a walk of  *)
(* another server was under way when the settings changed                  *)
(* (server_endpoints_changed, update_settings, reset_pull_cursor).         *)
(***************************************************************************)
WatermarkOfConfiguredServer ==
    \A c \in Client :
        Configured(c) =>
            /\ cursor[c].watermark # None => cursor[c].watermark.srv = config[c]
            /\ disk[c] # None => disk[c].srv = config[c]

(***************************************************************************)
(* Every row that waits for its push is pushed, once failures stop, unless *)
(* the user deletes it or turns sync off (start_sync_loop,                 *)
(* sync_unsynced_entries).                                                 *)
(***************************************************************************)
EveryEditIsPushed ==
    \A c \in Client, k \in Content :
        Waiting(c, k) ~> (~Waiting(c, k) \/ config[c] = None)

(***************************************************************************)
(* Every version of the configured server's history is dealt with in the   *)
(* end, however often walks are cut off or restarted (pull_new_entries).   *)
(***************************************************************************)
EveryVersionIsPulled ==
    \A c \in Client :
        <>[](Configured(c) =>
               \A i \in Items(server[config[c]]) :
                   [srv |-> config[c], key |-> i.key, updated |-> i.updated]
                       \in seen[c])

(***************************************************************************)
(* memory/IMPLEMENTATION.md:83: "Conflict resolution (server wins for star *)
(* status)".  When edits stop, a client and its server agree on the star   *)
(* of every content that both have (pull_new_entries).  It holds while the *)
(* loop alone runs passes, one after the other.  A walk that runs while    *)
(* another task of the client is pushing skips the star of a row that is   *)
(* still unsynced, and moves the watermark past it for good.               *)
(***************************************************************************)
StarsConverge ==
    \A c \in Client, k \in Content :
        <>[](/\ Configured(c)
             /\ rows[c][k] # None
             /\ server[config[c]][k] # None
             => rows[c][k].starred = server[config[c]][k].starred)

(***************************************************************************)
(* sync.rs:361: "... repeated requests can neither reorder nor          *)
(* duplicate pushes."  commands.rs:188: "The sync loop pushes it instead,  *)
(* in order with any further toggles."  A server never goes back from one  *)
(* edit of a client to an older edit of the same client.  The code breaks  *)
(* this: a capture's own task and the loop can each hold a snapshot of one *)
(* row, and the older one may arrive last.                                 *)
(***************************************************************************)
PushesKeepOrder ==
    [][\A s \in Server, k \in Content :
          LET old == server[s][k]
              new == server'[s][k]
          IN old # None /\ new # None /\ new.edit.by = old.edit.by
                => new.edit.at >= old.edit.at]_server

(***************************************************************************)
(* sync.rs:1088: "The pull watermark is a position in one server's         *)
(* history, so it must not survive a switch to another server."  It        *)
(* survives, and comes back at the next start, if the app is killed        *)
(* between save_settings and reset_pull_cursor.                            *)
(***************************************************************************)
WatermarkDoesNotSurviveSwitch ==
    \A c \in Client :
        config[c] # None /\ ~saving[c] /\ cursor[c].watermark # None
            => cursor[c].watermark.srv = config[c]
=============================================================================
