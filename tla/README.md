# Copywraith: specifications, model checking and proofs

Copywraith keeps a searchable clipboard history on each device (a Tauri app:
Rust in `src-tauri/`, Svelte in `src/`) and shares it through a self-hosted
server (`server/`, Rust with axum and SQLite). This directory holds TLA+
specifications of its stateful parts, TLC configurations that check them on
small instances, and TLAPS proofs of theorems about them for every instance.

## 1. Inventory

| Part | Source | State it keeps | Operations and partners | Hard behaviour | What makes it correct |
|---|---|---|---|---|---|
| Sync client | `src-tauri/src/sync.rs`, `lib.rs` `start_sync_loop`, `commands.rs` `sync_now`, `update_settings` | the pull cursor (generation, initialized, watermark), the pull lock | pushes batches of unsynced rows, one task per fresh capture, pulls pages, resets the cursor | awaits everywhere, cancellation by timeouts, requests that arrive late or twice, a reset during a walk, restarts | no edit is acknowledged before it arrived; the watermark hides nothing; edits and versions get through in the end |
| Local history | `src-tauri/src/storage.rs` | SQLite rows with `synced`, settings and watermark, blob files | insert, star, delete, acknowledge, ingest | one mutex per operation, but reads before awaits; blob files beside the database | an unsynced row is the user's alone to change |
| Server history | `server/src/storage.rs` | SQLite rows, FTS, blob files | create, list, star, delete, encrypt in place | newest-first paging while rows move to the top | stamps grow with every write |
| Server authentication | `server/src/crypto.rs`, `api.rs` | `auth.json`, the unlocked DEK, cached password hash | setup, unlock, change password, lock; every handler authorises and then takes the DEK | two critical sections per request, in-place encryption that may be cut off | a reader gets what was written, or an error |
| Capture | `src-tauri/src/clipboard.rs`, `native_clipboard.rs` | the monitor thread and its handle, suppress deadline, pause | clipboard notifications to `insert_entry` | the clipboard's owner changes between two of its formats; the window of a paste; a thread that dies or is joined at the exit | what was copied is stored whole and once, no secret and no paste is |
| Paste | `src-tauri/src/paste.rs`, `linux/mod.rs` | none but the suppress deadline all pastes share | opens the window, writes the clipboard, hides the popup, presses keys | several pastes at once, one of them failing; the popup still on the screen | the keys go to the user's application, the monitor stays deaf no longer than it must |
| Popup window | `src-tauri/src/lib.rs`, `window_activity.rs`, `src/lib/windowManager.ts` | the window, the flag `popup_open`, two time guards, the main thread's queue | toggle, hide, focus loss, close timer, placement | threads that store the flag after the window has changed | a toggle does what the user sees as one |
| Clipboard list | `src/lib/util/clipboardStore.ts`, `src/routes/+page.svelte` | loaded rows, offset, query, request ids | load, load more, star, delete, refresh on events | commands answered late and out of order | the list is the answer to the last query, without gaps |
| Sync status | `src/lib/util/syncStatusStore.ts`, `+page.svelte`, `sync.rs` `SyncEndpointStatus` | last status, watchdog | events from sync to UI | a late status after the watchdog; a refresh that waits for something that never answers | not stuck in "checking" |
| Android share target | `crates/copywraith-share-target` (Kotlin and Rust), `commands.rs` `import_pending_shares` | staged batches and files | stage, import, keep as failed, clean up | kills between staging, import and removal; two imports at once | what was shared is in the history, or still staged |
| Shizuku clipboard | `ShizukuClipboardService.kt`, `CopywraithSharePlugin.kt` | service binding, last text | bind, listen, report | late connection callbacks | stop means stopped |
| Shortcuts on Linux | `src-tauri/src/linux/*`, `lib.rs` `register_shortcuts` | grabbed keys; GNOME's list of bindings, shared with other programs; keys at KGlobalAccel | register, react to a signal, release | calls that fail between two writes, a service that restarts under a registration, rows of an earlier session | a key does one thing once, another program's rows stay, the exit leaves no key behind |
| Text, hashing, sensitivity | `crates/copywraith-core` | none | pure functions | parsing edge cases | functional correctness, unit-tested |
| Settings dialog, rows, preview, server admin UI | `src/lib/components`, `server/ui` | form state | render, call commands | none beyond the stores above | presentation |
| Packaging, licences, CI | `.github`, `scripts`, `flatpak`, `licenses` | none | build | none | out of scope |

## 2. Plan

The order follows what a user loses when a part goes wrong: edits and history
first, stored bytes and keys next, then what the user sees.

| Order | Modules | Composes | State |
|---|---|---|---|
| 1 | `LocalHistory`, `ServerHistory`: the writes of the two databases as operators | | done |
| 2 | `HistorySync`: push, pull, cursor, settings, restarts of any number of clients and servers | 1 | done |
| 3 | `Outbox`: what sync promises about an edit, which `HistorySync` implements | | done |
| 4 | `BlobStore`: rows and content-addressed files under one mutex, step by step | | done |
| 5 | `ServerVault`: password, key, sessions, requests and the migration | | done |
| 6 | `DesktopClipboard`: the monitor's thread, pastes and the user at one clipboard | | done |
| 7 | `PopupWindow`, `PopupPlacement`: the window, its flag, the guards; where it is put | | done |
| 8 | `Shortcuts`: registration by session, GNOME's list, the KDE worker | | done |
| 9 | `DesktopApp`: the desktop application from its start to its exit | 6, 7, 8 | done |
| 10 | `ClipboardList`: the list, its commands, their answers out of order | | done |
| 11 | `ShareImport`: staging, import, failures, kills | 10 | done |
| 12 | `MobileApp`: the Android application, its refresh, the sync status | 10, 11 | done |

Two modules that the plan once had are left out. `BlobSync` (a push that reads
its blob when it sends, and goes out without it if the file is gone) and
`SettingsRace` (`update_settings` beside `set_shizuku_clipboard_enabled`) would
show what the code does, which their hazards say at `sync.rs:470` and
`commands.rs:923`; but no document, comment or test promises anything about
either, so there is no property that could fail.

Runs are kept few, each asking a question of its own; where two questions need
the same instance they share a run.

## 3. Modules and the code they model

### `LocalHistory` and `ServerHistory`

Operators over one database: a row is looked up by its content hash, so a
history is a function from contents to rows or `None`. `LocalHistory` has
`insert_entry` (a duplicate moves up and stays as synced as it was), `toggle_star`,
`insert_remote_entry`, `apply_remote_star_state_by_content_hash`,
`mark_synced_if_unchanged`, `delete_entry` and the batch that
`get_unsynced_entries` returns (at most `BatchLimit` rows; which ones its LIMIT
keeps is left open). `ServerHistory` has `create_entry` (new row, or an existing one
moved up, with the request's star if it has one), `update_entry_starred`,
`delete_entry` and the newest-first pages of `list_entries`. Both databases run
each of these under one mutex, so each is one step.

A local `updated_at` is a stamp `[at, by]`: the value of the one counter
`clock` when it was taken and whose clock took it. The servers take theirs from
the same counter, read under their database mutex. Two stamps never coincide;
real clocks with nanosecond text come close to that and the code relies on it.

### `HistorySync`

| State | In the code |
|---|---|
| `server[s]`, `rows[c]` | tables `entries` of server and client |
| `config[c]`, `disk[c]` | settings and `sync_watermark` in the client's database |
| `cursor[c]` | `PullState`: generation, initialized, watermark |
| `task[c][p]` | what one pass or one spawned task holds across its awaits: snapshots, server |
| `pull[c]` | the walk that holds `pull_lock` |
| `late` | requests whose sender gave up (timeout, cancellation, kill) |
| `saving[c]` | `update_settings` is between its save and its reset |
| `arrived`, `seen`, `torn`, `edit` of a row | auxiliary: no guard reads them |

One action stands for the code between two awaits. A push is `ReadBatch`,
`PushReadSettings`, `PushSend`, `PushDelivered` (the server's handler), then
`PushAcknowledged` or one of `PushRejected` (a status that rejects the entry),
`PushRefused` (any other failure, which ends the batch), `PushTimedOut` (the
request stays in flight in `late` while the task goes on) and `CancelPush`. A
walk is `PullBegin` (taking `pull_lock`), `PullReadSettings`,
`PullReadCursor`, then for each page `PullPage` or `PullPageFailed`, for each
entry of it `IngestCheck`, `IngestStar` or `DownloadBlob`/`SkipBlob` and
`IngestInsert` or `IngestFailed`, and `PullNextPage` or `PullFinish`, which
writes the watermark back only under the generation it read. `CancelPull` drops
a walk at an await. `Restart` is a kill and a new start.

Abstractions. The two URLs of one server are one server: a retry on the
fallback URL is a request that timed out but stays in flight, and another one.
Contents stand for whole payloads, and `BlobContent` says which of them need a
download. What the loop waits between passes is not timed. Status reports to
the UI are left out.

### `Outbox`

The promise to the user in terms of edits alone: one edit per entry waits until
it has arrived or the user replaces or withdraws it; copies may be lost,
delayed or doubled. The refinement mapping in `HistorySync` (`O`) lets an edit
wait while its row is unsynced and lets it fly while any task or late request
holds a snapshot of it.

### `BlobStore`

`rows` and `files` are what survives a kill; `db` is the mutex; `op` says at
which file or database operation each thread stands. Client and server follow
the same protocol with other names, so the module is written once: `WriteBlob`
is the `exists()` check and the creation, `FillBlob` the bytes, `CommitRow` the
row, `DeleteEntry` the row's removal and the count, `Unlink` the file's,
`FindRow`, `LookForBlob` and `ReadBlob` a `get_blob` without the mutex. A
duplicate insertion changes nothing and is a stuttering step.

### `ServerVault`

`disk` is `auth.json`; `conf`, `dek` and `cache` are `CryptoState`; `text` and
`blob` say under which key, if any, each row and file is stored; `db` is the
mutex of the database, which `create_entry` and the row pass of the migration
hold across steps; `req` and `mig` say where each request and the migration
stand. The mutex around `CryptoState` is held within one action. Every handler
is `Authorize`, then `TakeDek`, then its work: this is the shape of
`ensure_authorized` and `get_dek` in `api.rs`. Requests that are refused change
nothing and are stuttering steps. Keys are ideal: what is encrypted under one
key opens under it and fails under any other. `Lookalike` entries are those
whose plaintext starts with `ENC:1:`.

Abstractions. Deletion removes row and file in one step, and `get_blob` looks
for its file and reads it in one step; `BlobStore` has the steps between. Each
entry with a blob has one of its own. Full-text search, masking and stars are
left out. Auxiliary: `overtaken` (a lock fell between some request's
authorization and its `get_dek`) and `mig.raced` (files the migration read
before they were filled).

### `DesktopClipboard`

| State | In the code |
|---|---|
| `board`, `events` | the system clipboard, and notifications the watcher has not delivered |
| `worker` | where the callback on the monitor's thread is, and what it has read |
| `monitor`, `phase` | `NativeClipboard`'s handle and status; the process's life |
| `rows`, `recent` | payloads in the history, and the one on top |
| `capturePause`, `suppressLeft` | `AppState.capture_pause`, `suppress_monitor_until` |
| `paste[t]` | where the thread of a paste is, and what it writes |
| `ownLeft`, `cleared`, `missed` | auxiliary: no guard reads them |

`HearEvent` is the entry of `handle_clipboard_change` with the suppress check,
`CheckPause`, `CheckMarker`, `ReadImage`, `ReadFiles` and `ReadText` ask the
clipboard's present owner one question each, `StoreEntry` stores what came of
it. A paste is `BeginPaste`, `OpenWindow`, `WriteClipboard` or `WriteFails` and
`ClearWindow`, `HideRequested`, `HideRecorded`, and `Answered` after `KeyDelay`.
A read and a write of this process exclude each other (the clipboard context's
lock); other programs are not held by it. An `Instant` is the ticks left until
it. A payload's hash is the set of its formats and values, and of its bytes
alone if it has one format, as `payload_hash` computes it.

### `PopupWindow` and `PopupPlacement`

`visible` and `active` are the window's, `popupOpen` is the flag. The main
thread takes `tasks` one at a time (`RunToggle`, `RunHide`); other threads post
to it and store the flag later (`HideAsked`, `FlagCleared`). `PopupPlacement`
is the arithmetic of `position_popup_near_cursor` and has no state; `DesktopProofs`
proves what it computes, and it is not model-checked.

### `Shortcuts`

| State | In the code |
|---|---|
| `session`, `keys`, `grabs`, `mechanism` | the desktop, the settings, the plugin's grabs, how keys are bound |
| `list`, `row` | GNOME's `custom-keybindings` and its rows |
| `reg` | where `install_gnome_bindings` or `remove_gnome_bindings` is, with what it read |
| `kde`, `registered`, `held` | the worker in `kde.rs`: its step, what it registered with which owner, keys that are down |
| `kOwner`, `born`, `present`, `down`, `signals` | KGlobalAccel: which instance runs, keys active there, signals under way |
| `kept`, `blurred`, `owed`, `leftActive` | auxiliary: no guard reads them |

One action stands for one call of `gsettings` or of the bus, with the failures
that the code handles beside it. `next_free_path` always finds a number; here the
numbers are `Slot`, and a registration stops where it would run out of them (`Room`).
What several rows of one label, or a label that cannot be read, lead to is in
`OneOfEach` and `ReadListBlurred`. Whether `reset-recursively` succeeded is not
looked at: any of the rows may keep its settings (`Resets`).

### `DesktopApp`

The three modules above around one main thread. It adds the order of the start
(`SetupShortcuts`, `SetupMonitor`) and of the exit (`Quit`, `LeaveMonitor`,
`LeaveKde`, `Leave`), `Restart` (a kill or an exit, and a new start, perhaps in
another session), and the steps in which the parts meet: `MainPlaintext`,
`PasteHides`, `Activating`, `GrabbedKey`. A tick passes only when the main
thread's queue is empty: the main thread is assumed to finish what it was asked
within a tick, 100 ms or more.

### `ClipboardList`, `ShareImport`, `MobileApp`

A command of the frontend is asked for (`calls`), served by the backend and
answered, in three steps; queries are given up after their time limit. `shown`,
`nextOffset`, `hasMore`, `loading`, `timer` and `selected` are the store's and
the page's fields; `shownFor`, `failed`, `raced`, `everStored` are auxiliary. A
batch is none, pending, failed or gone, `files` are the staged files, and
`importer` says where each `import_pending_shares` is; the frontend stops
waiting for one after ten seconds and may begin a second. `MobileApp` adds
`refreshMobileEntries` with its time limits, the status with its watchdog, and
the kill of the process. Several late captures, or late synchronisations, are
merged into one.

Who changes the rows, and who tells the list. `insert_entry` moves a row that is
there already to the top (`Inserted`); a capture or an import that finds one emits
nothing, only a new row does. `SyncPulls` is an entry that `sync_now` or the
background loop has pulled: a new row takes the place of the server's stamp
(`PullsRow`), another star moves a row to the top (`PullsStar`). `SyncAnswered` emits
`clipboard-updated` if anything was pulled; `SyncCutOff`, after 35 seconds of
`sync_now`'s pull, does not. `Emit` before `Listens` is lost, as the page registers its
listener after the first load. Where a row has moved or come in and nothing will
tell of it, the step is `Unheard`, which sets `raced` until a load that finds the rows
later is answered. A local `now` is taken to be the newest stamp there is: the
device's clock is not behind the server's. What SQL's WHERE or JavaScript's `filter` keeps of a list is
`Only`, defined by the positions of what is kept; `SelectSeq` says the same, but
the provers know nothing about it.

### MC modules

`MCHistorySync`, `MCBlobStore` and `MCServerVault` add symmetry sets and
function-valued constants; `MCDesktopApp` and `MCMobileApp` add what can be
copied or shared, and the sessions to start in. Temporal properties are checked
without symmetry, except the step properties of `sync_push`, which treat the
permuted values alike.

A definition marked "Mutant" in a comment is a plausible bug in the definition
that follows it. No specification uses it: replacing the original by it breaks
the property listed with it in `PROJECT.json`, which is how each property was
seen to say something about the code.

## 4. What the runs check and show

| Run | Question | Instance, distinct states | Result |
|---|---|---|---|
| `sync_push` | `Coherent`, `NoEditLost`: is an edit acknowledged only if it arrived? `PendingEditSurvives`: does anyone but the user touch an unsynced row? `ImplementsOutbox` | 1 client, 1 server, 2 contents, loop and `sync_now`, 2 edits, 1 fault; 1.05 M | holds |
| `sync_pull` | `WatermarkHidesNothingNew` with pages of one entry while the history moves | 2 contents (one a blob), 3 edits, 1 fault; 0.85 M | holds |
| `sync_switch` | `WatermarkOfConfiguredServer`, `WatermarkHidesNothingNew` across a change of server | 2 servers, 1 content, 3 edits, 1 fault; 0.51 M | holds |
| `sync_live` | `EveryEditIsPushed`, `EveryVersionIsPulled` | 2 contents, loop and one spawned task, 2 edits, 1 fault; 0.26 M | holds |
| `sync_devices` | `StarsConverge` when only loops run passes | 2 clients, 1 content, 2 edits; 67 k | holds |
| `sync_overtaken` | `PushesKeepOrder` | loop and one spawned task, 2 edits | violated |
| `sync_killed_switch` | `WatermarkDoesNotSurviveSwitch` | 2 servers, 1 kill | violated |
| `blob_faults` | `RowHasFile`, `SteadyReadFindsBlob`, `SteadyReadIsWhole`, `NoOrphanFile` | 3 threads, 3 payloads, 2 of them sharing a blob, 2 faults; 0.21 M | holds |
| `vault` | `CiphertextHasItsKey`, `SessionIsCurrent`, `MigratedMeansEncrypted`, `NoCiphertextServed`, `BlobsKeepTheirBytes` | 2 entries (a blob, a lookalike), 2 passwords, 2 keys, 2 requests, 1 fault; 1.72 M | holds |
| `vault_dek_race` | `DekAfterAuthorization` | 1 entry, 2 requests, `create` and `lock` | violated |
| `desktop` | capture and paste: `UndisturbedReadIsFaithful`, `OwnWriteNotCaptured`, `DeafOnlyAroundPaste`, `UserCopyKept`; popup: `KeysNotIntoPopup`, `ToggleFlips`; shortcuts: `NoDoubleBinding`, `RegisteredMeansBound`, `ForeignRowsKept`, `ExitReleasesKeys`, `OneActivationPerPress`; `ExitCompletes` | 2 pastes, 3 things to copy, 2 actions and keys, 4 rows, 2 instances of the service, 12 sessions; 0.49 M | holds |
| `mobile` | `NoShareLost`, `EnterMatchesQuery`, `ListHasNoGap`, `RefreshSettles` | 3 rows, pages of two, 2 commands at once, 2 batches, 2 imports, 11 histories; 0.41 M | holds |

Bounds and why they are enough. Two edits of one entry are the least that make
a snapshot stale; three are the least that move an entry over another one while
a walk stands between two pages of size one. One content more than the page or
batch holds makes paging and batching happen. One fault reaches every single
failure, cut-off and kill at every step; two faults (`blob_faults`) reach a
failure and a kill. Two requests are the least for a race on the session, and
the migration is a third thread beside them. Two passwords and two keys are the
least that can be confused. The bounds are `MaxEdits`, `MaxFaults` and the sizes
of the constant sets; nothing else is cut.

In `desktop` and `mobile` the state of an application is a product of parts that
meet at few points, and an unbounded user would fill it. `Starts` therefore lists
sessions, each with what is there at the start and a budget of events per class
(`allowed`): copies, requests to the popup, pastes, changes at the shortcuts,
exits and kills; rows and stars, shares, actions at the list, resumptions,
answers from outside, pulled entries, failures. What the program itself does is never limited. The budgets are chosen
so that every hazard's events fit in one session: two copies and a paste, three
pastes of which one fails, three toggles with a close in between, two foreign
edits during a registration, three changes of the service or a key held, a
change of session; a share of which an item fails, one whose import a kill cuts off,
with a second import after it, or that is still under way when the next refresh
imports again, two shares at once; two actions at the list; a pull that inserts a
row, or stars one, under a list that is being opened, refreshed or acted on, answered
or cut off; a capture of what is on a later page already. Times keep their order: the key delay (1 tick) is
shorter than the suppress window (2), the debounce (1) than the close guard (2).
`MaxQueue`, `MaxTasks`, `MaxOwner`, `MaxSignals` and `MaxCalls` bound queues by
two, the least in which two elements are out of order. The four slots are the
two actions, a foreign row and one that a foreign program may still take.

Deadlock is checked in every run but these two, where the process
may have ended, or the budget of events be used up, with nothing left to do.

Fairness (`FairSpec`, used by `sync_live` and `sync_devices`). Weak fairness of
each task's and each walk's next step: requests have timeouts (`transfer_timeout`)
and the loop never returns. Weak fairness of `ResetAfterSave`: it is the next
statement. Strong fairness of `PullBegin`: `pull_lock` is a tokio mutex, which
queues its waiters in order. There is none for users, faults, `sync_now` itself
and late requests. The fault bound stands for "failures stop some day".

In `DesktopApp`: weak fairness of the start, of the exit's three steps, and of
the monitor, a registration, the KDE worker and its handling of signals, which
are threads of the process whose calls answer or fail. In `MobileApp`: weak
fairness of timers that fire, listeners that run and commands that only touch
the local database. An import, a capture and a synchronisation owe nothing, so
that `RefreshSettles` says that the time limits suffice.

What the properties of the two application runs say:

* `UndisturbedReadIsFaithful`: a read during which nobody replaced the clipboard
  stores the best of the formats that can be read, and nothing marked private.
* `OwnWriteNotCaptured`, `DeafOnlyAroundPaste`, `UserCopyKept`: the suppress
  window keeps the monitor from storing what a paste wrote, is open no longer
  than a paste justifies, and hides none of the user's copies beyond it.
* `KeysNotIntoPopup`: a paste's keys do not go to the popup that it hid.
* `ToggleFlips`: a toggle does what the user sees as one, however stale the flag.
* `NoDoubleBinding`, `RegisteredMeansBound`, `ForeignRowsKept`: no key fires
  twice; after a registration GNOME's list holds one row for each action that
  has a key; rows of other programs stay.
* `ExitReleasesKeys`, `OneActivationPerPress`: KGlobalAccel is left no key of
  ours, and repeated or late signals are not further activations.
* `ExitCompletes`: the exit does not wait for ever for a thread it joins.
* `NoShareLost`: what was shared is stored or still staged.
* `EnterMatchesQuery`, `ListHasNoGap`: Enter acts on a row of the answer to the
  present query, and a list at rest has no gap, no row twice and none that is
  gone, as long as whoever moved or inserted a row told the list of it.
* `RefreshSettles`: a refresh ends, and "checking" ends, whatever never answers.

### Findings

* `sync_overtaken`: a capture's own push task and the loop can hold snapshots of
  one row. If the older request is stored last, the server ends on the older
  star with its newest stamp, and a later pull carries it back to the device.
* `sync_killed_switch`: `update_settings` saves the new server and then resets
  the cursor. A kill in between leaves the old server's watermark, which the
  next start restores.
* `vault_dek_race`: `get_dek` is documented to return a key after
  `ensure_authorized`; a lock between the two makes it return none, and a
  `create` then stores plaintext. `ANALYSIS.md` lists this one as known.

### Other behaviour met while modelling

These follow from the code, and the properties above name them as exceptions or
as conditions; none contradicts a promise that the sources make, beyond what
`ANALYSIS.md` already says.

* The loop sends the snapshots it read at the start of a batch, not each row's
  current state (`sync.rs:361`). `NoEditLost` shows that this loses nothing.
* With a capture's own task beside the loop, a walk can meet a row that is being
  pushed, skip its star and still move the watermark past it. `StarsConverge`
  therefore holds in `sync_devices`, where loops alone run, and not beside a
  spawned task.
* A file that a failed or killed write left short is trusted by the next
  insertion of the same bytes; `SteadyReadIsWhole` and `NoOrphanFile` speak of
  runs without failures.
* A migration that is cut off by a kill is not resumed (`mig.at = "cut"`);
  `MigratedMeansEncrypted` speaks of setups that answered.
* The migration rewrites blob files without the mutex. One it meets between
  creation and filling may be encrypted as empty and written last;
  `BlobsKeepTheirBytes` leaves out exactly those.
* A plaintext that starts with `ENC:1:` is taken for ciphertext once a key is
  set, and fails every page it is on.
* Pastes share one suppress deadline. One that fails closes the window of
  another, whose own write may then be captured; so may a write by a callback
  that had passed the check before the window opened. What the user copies
  within 500 ms of a paste is not captured. `OwnWriteNotCaptured` and
  `UserCopyKept` leave out exactly these.
* A clip that replaces another while it is read may leave a row that mixes the
  two, or that has formats of a clip marked private; `UndisturbedReadIsFaithful`
  speaks of reads that nobody disturbed.
* Payloads of one format share a hash if their bytes are equal, whatever the
  formats are.
* A hide that another thread asked for stores `popup_open` after the window is
  gone, perhaps after it was shown again; the next toggle corrects it.
* Edits of GNOME's list by another program between the read and the write of it
  are overwritten; `ForeignRowsKept` speaks of rows that were there at the read.
  A label that cannot be read makes a row of ours look foreign and is written a
  second time; `NoDoubleBinding` and `RegisteredMeansBound` leave that case out
  (`blurred`).
* Two processes that start at once may each find no socket and go on
  (`linux/mod.rs:146` removes the other's). Not modelled.
* A batch whose clean-up failed is imported again. Its texts are found to be
  there; of a file that is already gone the import reports an error, and the
  batch ends among the failed ones. A row that was deleted in between comes
  back. A second import at the same time can do the same to a batch that the
  first one has stored.
* Starring moves a row to the top without an event, and neither does a deletion
  emit one. If one overlaps the load of a page, the list has a gap or a row that
  is gone until the next load (`raced`). After a load that failed the old list
  stays in use (`failed`).
* In the view of the starred rows, a star that is clicked twice before the first
  click is answered takes a row from the list that is starred again: the answer
  to the first click removes it, that to the second finds nothing to update
  (`clipboardStore.ts:240`). The list lacks the row until its next load.
  `ListHasNoGap` leaves it out (`raced`).
* On Android a capture or an import that finds its content in the history moves the
  row to the top and emits nothing (`commands.rs:358`, `commands.rs:599`; the desktop's
  monitor emits `clipboard-reordered`). A pull that is cut off after 35 seconds
  (`commands.rs:819`) has inserted and starred rows that no event tells of, and the next
  pull finds them there and does not count them. An event that is emitted before the
  page has registered its listener is lost. Each leaves the list behind until its next
  load, at the latest the one that ends the next refresh; `ListHasNoGap` leaves it out
  (`raced`), and the run's histories reach each of them.
* On X11 under GNOME, rows of an earlier session that cannot be reset, in a list that
  cannot be written either, answer keys that this process grabs as well (`CleanFails`);
  `NoDoubleBinding` leaves that out (`blurred`).
* `getSettings` at the start of a refresh has no time limit; it only waits for
  the local database.

## 5. What is proved

The proofs hold for every value of the constants that meets the assumption of
the module (`SyncAssumption`, `BlobStoreAssumption`, `VaultAssumption`,
`DesktopAppAssumption`, `MobileAppAssumption` and the ones these name). The
assumptions say that sets of different kinds are disjoint (`None` is no row, no
server and no number), that bounds and delays are numbers, that the popup's
debounce, the suppress window and the key delay are not zero, that an action is
configured once (`Actions` is injective) and either toggles the popup or pastes
plain text, that GNOME's numbers are not empty, and what a record of the input
holds: a history to start with has no row twice and stars only rows that it has.
Finite are only GNOME's numbers (`Slot`) and the rows of one device that the list
shows (`Content` in `ClipboardListAssumption`).

The proofs are in modules of their own that extend the component's. `WatermarkProofs`
and `OutboxProofs` build on `HistorySyncProofs`, and `DesktopProofs`, which also holds
what is proved of `PopupPlacement`, on `ShortcutsProofs`.

| Theorem | States |
|---|---|
| `HistorySyncProofs!TypeCorrect` | `Spec => []TypeOK` |
| `HistorySyncProofs!CoherentAlways` | `Spec => []Coherent` |
| `HistorySyncProofs!NoEditIsLost` | `Spec => []NoEditLost` |
| `OutboxProofs!PendingEditAlwaysSurvives` | `Spec => PendingEditSurvives`, an action property |
| `OutboxProofs!SyncImplementsOutbox` | `Spec => ImplementsOutbox`: the refinement |
| `WatermarkProofs!WatermarkIsOfConfiguredServer` | `Spec => []WatermarkOfConfiguredServer` |
| `WatermarkProofs!WatermarkNeverHidesNew` | `Spec => []WatermarkHidesNothingNew` |
| `BlobStoreProofs!RowAlwaysHasFile` | `Spec => []RowHasFile` |
| `BlobStoreProofs!SteadyReadAlwaysFindsBlob` | `Spec => []SteadyReadFindsBlob` |
| `BlobStoreProofs!SteadyReadAlwaysWhole` | `Spec => []SteadyReadIsWhole` |
| `BlobStoreProofs!NoFileIsOrphaned` | `Spec => []NoOrphanFile` |
| `BlobStoreProofs!StoreTypeCorrect` | `Spec => []TypeOK` |
| `ServerVaultProofs!EverythingOpensWithTheStoredKey` | `Spec => []CiphertextHasItsKey` |
| `ServerVaultProofs!SessionAlwaysCurrent` | `Spec => []SessionIsCurrent` |
| `ServerVaultProofs!CiphertextIsNeverServed` | `Spec => []NoCiphertextServed` |
| `ServerVaultProofs!SetupEncryptsEverything` | `Spec => []MigratedMeansEncrypted` |
| `ServerVaultProofs!RewritingLosesNoBytes` | `Spec => []BlobsKeepTheirBytes` |
| `ServerVaultProofs!VaultTypeCorrect` | `Spec => []TypeOK` |
| `ShortcutsProofs!ExitAlwaysReleasesKeys` | `Spec => []ExitReleasesKeys` |
| `ShortcutsProofs!PressActivatesOnce` | `Spec => []OneActivationPerPress` |
| `ShortcutsProofs!NeverBoundTwice` | `Spec => []NoDoubleBinding` |
| `ShortcutsProofs!RegisteredIsBound` | `Spec => []RegisteredMeansBound` |
| `ShortcutsProofs!RowsOfOthersKept` | `Spec => []ForeignRowsKept` |
| `DesktopProofs!DeafOnlyForPastes` | `Spec => []DeafOnlyAroundPaste` |
| `DesktopProofs!OwnWritesStayOut` | `Spec => []OwnWriteNotCaptured` |
| `DesktopProofs!CapturesAreFaithful` | `Spec => []UndisturbedReadIsFaithful` |
| `DesktopProofs!UserCopiesKept` | `Spec => []UserCopyKept` |
| `DesktopProofs!KeysNeverIntoPopup` | `Spec => []KeysNotIntoPopup` |
| `DesktopProofs!TogglesFlip` | `Spec => ToggleFlips`, an action property |
| `DesktopProofs!DesktopTypeOK` | `Spec => []TypeOK` |
| `DesktopProofs!ClampNeverPanics`, `PositionFitsItsType` | for all positions and sizes a monitor can report: `clamp` gets its bounds in order, the cast to `i32` loses nothing |
| `DesktopProofs!PopupIsInside`, `OversizedPopupStartsAtEdge`, `PopupStaysNearCursor` | where the popup is put |
| `DesktopProofs!OneMonitorHasTheCursor` | the monitor does not depend on their order |
| `MobileProofs!NoShareIsLost` | `Spec => []NoShareLost` |
| `MobileProofs!EnterPastesAMatch` | `Spec => []EnterMatchesQuery` |
| `MobileProofs!ListNeverHasAGap` | `Spec => []ListHasNoGap` |
| `MobileProofs!MobileTypeOK` | `Spec => []TypeOK` |

### Synchronisation

`NoEditLost` is not inductive: `mark_synced_if_unchanged` sets `synced` when the
row's `updated_at` is that of a snapshot, and says nothing about the star.
`Coherent` supplies what is missing: every snapshot under way carries stamps
that its client issued, a row that still has a snapshot's `updated_at` still has
the edit the snapshot carries, and an answer under way means that the edit has
arrived. It is kept because whoever clears `synced` takes a stamp that was never
issued before. The proof has a lemma for each of the writes of `LocalHistory`
and one step per action. `PendingEditSurvives` follows from it step by step: an
acknowledgement that finds the row unchanged has seen its edit arrive.

`ImplementsOutbox` maps each step to one of `Outbox`, or to none: a capture or a star
is a Record, a deletion a Withdraw, the reading of a batch or of a row to push a
Copy, the server's handler an Arrive, an acknowledgement that finds the row
unchanged a Confirm, and the end of a task or of a late request, and a kill, a
Lose. A recorded edit is new because its stamp is above the clock's, which bounds
every stamp there is. A task that starts in a free slot must not drop a copy;
`FreeSlotsEmpty` says that it cannot.

A watermark's server is right because of the generation: `OwnMarks` says that a
walk whose generation is still the cursor's walks the configured server, unless
a reset is due, so that the end of an older walk cannot pass the check.

`WatermarkHidesNothingNew` rests on `NothingHidden`. Of every walk that may still
move the watermark it says that everything up to the mark at which the walk stops
was dealt with, and that, unless an entry failed, each version from there to the
newest that the walk has met was dealt with as well, or is in the page at hand
or below it and so still ahead (`Covers`, `Ahead`). A page is the newest part of
what lies below its cursor (`PageIsNewest`, by the least number of newer
versions). Writes to the server move versions up only, above all that was there
(`HistoriesIssued`), so none slips behind a walk. The watermark on disk is covered
as well (`MarksCovered`): a restart falls back to it.

### Blobs and keys

`RowHasFile` needs to know what the holder of the mutex is doing: a thread that
has passed its `exists()` check holds the mutex until its row is in, and a
thread about to remove a file holds it since it saw that no row names the file.

`CiphertextHasItsKey` needs that every copy of the key under way, in a request
or in the migration, is the one `auth.json` wraps (`KeysUnderWay`), and that the
key in memory is as well (`SessionIsCurrent`); a password change keeps the key,
and a setup happens once.

`SteadyReadIsWhole` and `NoOrphanFile` follow from `Tidy`: without failures and
kills a file without its bytes, or without a row, belongs to the step of the
thread that holds the mutex.

`NoCiphertextServed` and `MigratedMeansEncrypted` are broken, if at all, by a
request that lost its key some steps earlier. `Sealed` says that unless a lock
overtook a request each one under way has a key or will find one, and how far
the migration has come. `Faithful` says who holds the bytes of a file that is
empty: the migration in memory, or the request that is about to write them.

### The desktop application

`DeafOnlyAroundPaste` is one half of `WindowInv`; the other is that the window is
open for every paste that is about to write or has written, unless a failing one
closed it (`cleared`). `OwnWriteNotCaptured` follows with `Excused`: a callback that
gets past the check of the window began before the write, or after the window.
`UndisturbedReadIsFaithful` needs what a reading that nobody disturbed has learnt at
each of its questions (`ReadSoFar`): which formats the clipboard does not have, and
that it is not private. `UserCopyKept` needs that whoever disturbs a reading
announces it (`KeptInv`), so that the monitor will be back.

`KeysNotIntoPopup` needs that from the request to hide the popup on it is gone,
opened again by the user, or about to be hidden by the main thread before time
goes on (`PasteInv`). `ToggleFlips` is proved of each step: only a toggle that is
taken sets the debounce, and the flag is compared with the window before it is
acted upon.

`ExitReleasesKeys` needs that whatever is active at the service is recorded
under the present owner at every step of the worker (`KeysOwned`), timeouts of a
registration included. `OneActivationPerPress` counts: as many activations are owed
as the signals that wait will become, and one more for a key that is down and
whose next repeat would pass for a press (`PressesOwed`).

`GnomeInv` follows a registration, or a clean-up, through GNOME's list: the paths it
has read and means to write name each row of ours once (`OursOnce`), rows it owns
carry one of our labels and no foreign row is among them (`OwnedRows`), each row
of others that it found is still listed (`KeptListed`), and the actions that are
configured so far are bound once (`Bindings`). `NoDoubleBinding` follows from what a
clean-up leaves (`Cleaned`), `RegisteredMeansBound` from `Bindings` when the list has
been written.

### The application on Android

`NoShareLost` needs what each import has left behind (`Progress`): of the items
before the present one each is stored, or the import will keep the batch.

`EnterMatchesQuery` needs that at most one command is current, that it asks for what
the filter bar says and, if it is one for more rows, continues the list (`CallsInv`),
and that whatever changes the query leaves the list loading (`SelectionInv`). The types
need that an awaited command is that of the refresh's step (`RefreshInv`).

`ListHasNoGap` is about a list at rest, and has to be followed through everything
that moves it before. `ListMove` sorts the steps of the application into those of
others, which may insert, star and move rows and then owe an announcement (`Quiet` is
false until it has been heard) or tell nobody and mark what is behind (`Unheard`), and
those of the list. `WholeInv` says that what will be
left of the list, once the changes that were carried out are answered, is a newest
part of the rows that match (`Left`, `Newest`); that a star under way is that of a row
of this part, which therefore stays one when the row moves to the top or out of
the starred ones; that no two stars of one row are under way; and that a page
which no change overlapped is what the query would find now and begins where the
list ends. A newest part of a list is its beginning (`InitialIsFirst`), so pages
continue it without a gap (`PageContinues`). The operator lemmas say what `Only` keeps,
in which order and how much of it (`OnlyFacts`), by counting positions.

### Only model-checked

Liveness, because fairness and leads-to are beyond the prover: `EveryEditIsPushed`,
`EveryVersionIsPulled`, `StarsConverge`, `ExitCompletes`, `RefreshSettles`. Every invariant
and every step property that a passing run checks is also proved. The three runs
that expect a violation show behaviour, which is not a theorem.

## 6. What is not modelled

* The Shizuku clipboard listener. It lives in a process of its own behind
  Android's binder and the Shizuku service, and what it does depends on the
  order, threads and lifetimes of their callbacks, which nothing under `src/`
  fixes: a model would be one of assumptions. What the code shows is that a
  connection may arrive after `stop` and that a second start registers a second
  listener. The texts it reports are staged as shares, which `ShareImport`
  models.
* What only macOS or Windows has: the panel, activation of the target
  application by script, keys pressed by other means. The desktop modules are
  the program as it runs on Linux; capture, pastes and the popup's state are the
  same code there.
* Pure functions over text (`copywraith-core`: hashes, RTF and HTML stripping,
  MIME tables, sensitivity; accelerator syntax; percent-encoded addresses): their
  unit tests cover them, and the models use equality of hashes, which formats a
  payload has, and what is derived from them.
* Search, masking, list filters beyond the starred one, offset paging of the
  server's admin page, history export.
* The loop's interval and back-off (5 s doubling to 120 s), status reports of a
  client's endpoints beyond "checking" and not, and a push that goes out without
  its blob (section 2).
* In the list: scrolling, key handling, and the reset of the filter when the
  popup is shown. In the shares: which fields of an intent become items, and
  their names and types.
* The settings dialog, rows and preview, the server's admin UI, autostart files
  and notifications; the cryptographic primitives; packaging and CI.
