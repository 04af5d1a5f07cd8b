--------------------------- MODULE DesktopClipboard ---------------------------
(***************************************************************************)
(* The system clipboard and the three kinds of thread that meet at it:     *)
(*                                                                         *)
(*   - the clipboard-monitor thread, whose callback reads what was copied  *)
(*     and stores it (clipboard.rs, native_clipboard.rs);                  *)
(*   - one thread per paste, which opens a window in which the monitor is  *)
(*     deaf, writes the chosen row, hides the popup and presses the keys   *)
(*     (paste.rs, linux/mod.rs);                                           *)
(*   - the user's applications, which replace the clipboard whenever they  *)
(*     like.                                                               *)
(*                                                                         *)
(* Time is counted in ticks.  The code compares an Instant only with `now',*)
(* so a deadline is modelled by the ticks that are left until it.  `rows'  *)
(* stands for the local history, which LocalHistory.tla models: here it    *)
(* only grows.                                                             *)
(***************************************************************************)
EXTENDS Naturals, FiniteSets

CONSTANTS
    Clips,      \* what applications copy: a value per format, and the marker
    Picture,    \* by file list: the picture it holds if it is one image file
    Plain,      \* by HTML or RTF value: the plain text derived from it
    Paste,      \* threads that run a paste command, numbered as they are taken
    Suppress,   \* ticks for which a paste makes the monitor deaf (500 ms)
    KeyDelay,   \* ticks between hiding the popup and the keys (140 ms)
    MaxQueue    \* bound: change notifications waiting for the monitor

None == "none"   \* a format that is not there
Bad  == "bad"    \* a format that is offered and cannot be read

Formats == {"image", "files", "text", "html", "rtf"}

TextFormats == {"text", "html", "rtf"}

ASSUME DesktopClipboardAssumption ==
    /\ Suppress \in Nat \ {0} /\ KeyDelay \in Nat /\ MaxQueue \in Nat \ {0}
    /\ \A c \in Clips : Formats \cup {"private"} \subseteq DOMAIN c
    /\ \A c \in Clips : c.private \in BOOLEAN
    /\ Paste \subseteq Nat

VARIABLES
    board,         \* what the clipboard holds, and who put it there
    events,        \* change notifications the monitor has not handled
    worker,        \* the monitor thread: where it is and what it has read
    monitor,       \* NativeClipboard: the handle kept, and the status shown
    phase,         \* the life of the process, on its main thread
    rows,          \* payloads that were stored
    recent,        \* the payload stored or repeated last
    capturePause,  \* AppState.capture_pause
    suppressLeft,  \* ticks until suppress_monitor_until; 0: none, or past
    paste,         \* per paste thread: its step, what it writes, its clocks
    ownLeft,       \* history: ticks left of the windows of successful writes
    cleared,       \* history: a failed paste closed a window others relied on
    missed         \* history: why the last callback stored nothing

clipboardVars == <<board, events, worker, monitor, phase, rows, recent,
                   capturePause, suppressLeft, paste, ownLeft, cleared, missed>>

NoFlavors == [f \in Formats |-> None]

EmptyBoard == [f |-> NoFlavors, private |-> FALSE, by |-> "user"]

Reading == {"marker", "image", "files", "text", "html", "rtf"}

IdleWorker(at) ==
    [at |-> at, got |-> NoFlavors, touched |-> FALSE, own |-> FALSE, excused |-> FALSE]

IdlePaste == [at |-> "idle", f |-> NoFlavors, left |-> 0, keys |-> 0]

ClipboardTypeOK ==
    /\ board.private \in BOOLEAN /\ board.by \in {"user", "app"}
    /\ DOMAIN board.f = Formats
    /\ events \in 0..MaxQueue
    /\ worker.at \in Reading \cup {"none", "wait", "pause", "store"}
    /\ DOMAIN worker.got = Formats
    /\ worker.touched \in BOOLEAN /\ worker.own \in BOOLEAN /\ worker.excused \in BOOLEAN
    /\ monitor \in [kept : BOOLEAN, status : {"Stopped", "Watching", "Failed"}]
    /\ phase \in {"starting", "running", "stopping", "stopped"}
    /\ \A p \in rows : p.type \in Formats /\ DOMAIN p.f = Formats
    /\ rows # {} => recent \in rows
    /\ capturePause \in {"Active", "Until", "Indefinite"}
    /\ suppressLeft \in 0..Suppress /\ ownLeft \in 0..Suppress
    /\ \A t \in Paste :
         /\ paste[t].at \in {"idle", "window", "write", "clear", "hide", "flag", "delay"}
         /\ DOMAIN paste[t].f = Formats
         /\ paste[t].left \in 0..Suppress /\ paste[t].keys \in 0..KeyDelay
    /\ cleared \in BOOLEAN
    /\ missed \in {"no", "deaf", "paused", "private", "unreadable", "refused"}

-----------------------------------------------------------------------------
(* Payloads                                                                *)

Present(f) == {k \in Formats : f[k] # None}

\* handle_clipboard_change: the type of a row is that of its first format.
TypeOf(f) ==
    CASE f["image"] # None -> "image"
      [] f["files"] # None -> "files"
      [] f["text"]  # None -> "text"
      [] f["html"]  # None -> "html"
      [] OTHER             -> "rtf"

PayloadOf(f) == [type |-> TypeOf(f), f |-> f]

(***************************************************************************)
(* ClipboardFlavors::payload_hash, and hash_bytes for a picture: a payload *)
(* of one format is hashed as its bare bytes, whatever the format is; one  *)
(* of several formats as a document that names each of them.               *)
(***************************************************************************)
PayloadHash(p) ==
    IF Cardinality(Present(p.f)) = 1
    THEN {<<"bytes", p.f[k]>> : k \in Present(p.f)}
    ELSE {<<k, p.f[k]>> : k \in Present(p.f)}

Stored(p) == \E q \in rows : PayloadHash(q) = PayloadHash(p)

\* strip_html, strip_rtf.
Stripped(v) == IF v = None THEN None ELSE Plain[v]

\* plain_text_for_paste, best_plain_text: the first of text, stripped HTML,
\* stripped RTF and file list that is not blank.
PlainText(f) ==
    LET tried == <<f["text"], Stripped(f["html"]), Stripped(f["rtf"]), f["files"]>>
        found == {i \in 1..4 : tried[i] # None}
    IN  IF found = {} THEN None
        ELSE tried[CHOOSE i \in found : \A j \in found : i <= j]

\* write_flavors: rich text is published with plain text derived from the
\* first rich flavour there is, even when that derivation is blank.
WithPlain(f) ==
    [f EXCEPT !["text"] = IF f["text"] # None THEN f["text"]
                          ELSE IF f["html"] # None THEN Stripped(f["html"])
                          ELSE Stripped(f["rtf"])]

\* paste_entry: what a row of each type is written back as.
WrittenBack(p) == IF p.type \in TextFormats THEN WithPlain(p.f) ELSE p.f

-----------------------------------------------------------------------------
(* The monitor's thread                                                    *)

\* The history survives the process.
ClipboardInit(history) ==
    /\ board = EmptyBoard
    /\ events = 0
    /\ worker = IdleWorker("none")
    /\ monitor = [kept |-> FALSE, status |-> "Stopped"]
    /\ phase = "starting"
    /\ rows = history
    /\ IF history = {} THEN recent = PayloadOf(NoFlavors) ELSE recent \in history
    /\ capturePause = "Active"
    /\ suppressLeft = 0
    /\ paste = [t \in Paste |-> IdlePaste]
    /\ ownLeft = 0 /\ cleared = FALSE /\ missed = "no"

(***************************************************************************)
(* setup: start_monitoring, start_monitor.  The watcher or its thread may  *)
(* fail to start; capture is then off until the application is restarted.  *)
(***************************************************************************)
StartMonitor ==
    /\ phase = "starting" /\ phase' = "running"
    /\ \/ /\ monitor' = [kept |-> TRUE, status |-> "Watching"]
          /\ worker' = IdleWorker("wait")
       \/ /\ monitor' = [kept |-> FALSE, status |-> "Failed"]
          /\ UNCHANGED worker
    /\ UNCHANGED <<board, events, rows, recent, capturePause, suppressLeft,
                   paste, ownLeft, cleared, missed>>

ClipboardRest == UNCHANGED <<board, monitor, phase, capturePause, suppressLeft,
                             paste, ownLeft, cleared>>

\* The callback returns without having stored anything, for this reason.
Skip(reason) == /\ worker' = IdleWorker("wait") /\ missed' = reason
                /\ UNCHANGED <<rows, recent>>

\* (Mutant: the callback does not look at the window.)
HearEventAlways ==
    /\ worker.at = "wait" /\ events > 0 /\ events' = events - 1
    /\ worker' = [IdleWorker("pause") EXCEPT !.excused = ownLeft = 0 \/ cleared]
    /\ UNCHANGED <<missed, rows, recent>>
    /\ ClipboardRest

(***************************************************************************)
(* A notification reaches the callback, which ignores it inside a paste's  *)
(* window.                                                                 *)
(***************************************************************************)
HearEvent ==
    /\ worker.at = "wait" /\ events > 0 /\ events' = events - 1
    /\ IF suppressLeft > 0
       THEN Skip("deaf")
       ELSE /\ worker' = [IdleWorker("pause") EXCEPT !.excused = ownLeft = 0 \/ cleared]
            /\ UNCHANGED <<missed, rows, recent>>
    /\ ClipboardRest

\* "Paused: do not even read the clipboard."  Otherwise the clipboard's
\* context is locked, against this application's own writes only.
CheckPause ==
    /\ worker.at = "pause"
    /\ IF capturePause # "Active"
       THEN Skip("paused")
       ELSE /\ worker' = [worker EXCEPT !.at = "marker", !.own = board.by = "app"]
            /\ UNCHANGED <<missed, rows, recent>>
    /\ ClipboardRest /\ UNCHANGED events

\* (Mutant: the marker is looked for only when there is no picture.)
CheckMarkerLate ==
    /\ worker.at = "marker"
    /\ IF board.private /\ board.f["image"] = None
       THEN Skip("private")
       ELSE /\ worker' = [worker EXCEPT !.at = "image"]
            /\ UNCHANGED <<missed, rows, recent>>
    /\ ClipboardRest /\ UNCHANGED events

(***************************************************************************)
(* NativeClipboard::read.  Each question it asks goes to whoever owns the  *)
(* clipboard at that moment.  First the marker: "so a secret never leaves  *)
(* the pasteboard".                                                        *)
(***************************************************************************)
CheckMarker ==
    /\ worker.at = "marker"
    /\ IF board.private
       THEN Skip("private")
       ELSE /\ worker' = [worker EXCEPT !.at = "image"]
            /\ UNCHANGED <<missed, rows, recent>>
    /\ ClipboardRest /\ UNCHANGED events

\* (Mutant: a picture that cannot be read ends the capture.)
ReadImageOrFail ==
    /\ worker.at = "image"
    /\ IF board.f["image"] = Bad
       THEN Skip("unreadable")
       ELSE /\ worker' = IF board.f["image"] = None
                         THEN [worker EXCEPT !.at = "files"]
                         ELSE [worker EXCEPT !.at = "store", !.got["image"] = board.f["image"]]
            /\ UNCHANGED <<missed, rows, recent>>
    /\ ClipboardRest /\ UNCHANGED events

ReadImage ==
    /\ worker.at = "image"
    /\ worker' = IF board.f["image"] \in {None, Bad}
                 THEN [worker EXCEPT !.at = "files"]
                 ELSE [worker EXCEPT !.at = "store", !.got["image"] = board.f["image"]]
    /\ ClipboardRest /\ UNCHANGED <<events, missed, rows, recent>>

(***************************************************************************)
(* Files, and single_image_file: one copied image file is stored as the    *)
(* picture it holds, if it can still be read.                              *)
(***************************************************************************)
ReadFiles ==
    /\ worker.at = "files"
    /\ LET list == board.f["files"] IN
       \/ /\ list \in {None, Bad}
          /\ worker' = [worker EXCEPT !.at = "text"]
       \/ /\ list \notin {None, Bad}
          /\ worker' = [worker EXCEPT !.at = "store", !.got["files"] = list]
       \/ /\ list \notin {None, Bad} /\ Picture[list] # None
          /\ worker' = [worker EXCEPT !.at = "store", !.got["image"] = Picture[list]]
    /\ ClipboardRest /\ UNCHANGED <<events, missed, rows, recent>>

\* read_text_flavors: every text format is tried, those that fail are left out.
ReadText(k) ==
    /\ worker.at = k /\ k \in TextFormats
    /\ worker' = [worker EXCEPT
                    !.at = CASE k = "text" -> "html" [] k = "html" -> "rtf"
                             [] OTHER -> "store",
                    !.got[k] = IF board.f[k] = Bad THEN None ELSE board.f[k]]
    /\ ClipboardRest /\ UNCHANGED <<events, missed, rows, recent>>

(***************************************************************************)
(* store_entry: a new row, or a repetition that moves an old row to the    *)
(* top; an error of the database is only logged (StoreFails).  Nothing     *)
(* readable ends in Empty or in an error before.                           *)
(***************************************************************************)
StoreEntry ==
    /\ worker.at = "store"
    /\ IF Present(worker.got) = {}
       THEN Skip("unreadable")
       ELSE LET p == PayloadOf(worker.got) IN
            \/ /\ ~Stored(p)
               /\ rows' = rows \cup {p} /\ recent' = p
               /\ worker' = IdleWorker("wait") /\ missed' = "no"
            \/ /\ Stored(p)
               /\ recent' \in {q \in rows : PayloadHash(q) = PayloadHash(p)}
               /\ worker' = IdleWorker("wait") /\ missed' = "no"
               /\ UNCHANGED rows
    /\ ClipboardRest /\ UNCHANGED events

StoreFails ==
    /\ worker.at = "store" /\ Present(worker.got) # {}
    /\ Skip("refused")
    /\ ClipboardRest /\ UNCHANGED events

\* start_watch returns or panics although nobody asked it to stop.
WatcherDies ==
    /\ worker.at # "none"
    /\ worker' = IdleWorker("none") /\ events' = 0
    /\ monitor' = [monitor EXCEPT !.status = "Failed"]
    /\ UNCHANGED <<board, phase, rows, recent, capturePause, suppressLeft,
                   paste, ownLeft, cleared, missed>>

MonitorThread ==
    \/ HearEvent \/ CheckPause \/ CheckMarker \/ ReadImage \/ ReadFiles
    \/ \E k \in TextFormats : ReadText(k)
    \/ StoreEntry

-----------------------------------------------------------------------------
(* Stopping, at RunEvent::Exit                                             *)

\* stop_monitor: the flag is set and the watcher told to stop.
StopMonitor ==
    /\ phase = "running" /\ phase' = "stopping"
    /\ UNCHANGED <<board, events, worker, monitor, rows, recent, capturePause,
                   suppressLeft, paste, ownLeft, cleared, missed>>

\* start_watch returns as asked: Stopped, not Failed.
WatcherStops ==
    /\ phase = "stopping" /\ worker.at = "wait"
    /\ worker' = IdleWorker("none") /\ events' = 0
    /\ monitor' = [monitor EXCEPT !.status = "Stopped"]
    /\ UNCHANGED <<board, phase, rows, recent, capturePause, suppressLeft,
                   paste, ownLeft, cleared, missed>>

MonitorJoined ==
    /\ phase = "stopping" /\ phase' = "stopped"
    /\ monitor.kept => worker.at = "none"
    /\ monitor' = [kept |-> FALSE, status |-> "Stopped"]
    /\ UNCHANGED <<board, events, worker, rows, recent, capturePause,
                   suppressLeft, paste, ownLeft, cleared, missed>>

-----------------------------------------------------------------------------
(* The user                                                                *)

Disturbed == [worker EXCEPT !.touched = @ \/ worker.at \in Reading \cup {"store"}]

Notify(n) == events' = IF worker.at = "none" THEN 0 ELSE events + n

(***************************************************************************)
(* An application takes the clipboard over.  A read under way goes on with *)
(* the new owner; `touched' remembers that.                                *)
(***************************************************************************)
UserCopies(c) ==
    /\ phase \in {"running", "stopping"} /\ events < MaxQueue
    /\ board' = [f |-> [k \in Formats |-> c[k]], private |-> c.private, by |-> "user"]
    /\ Notify(1)
    /\ worker' = Disturbed
    /\ UNCHANGED <<monitor, phase, rows, recent, capturePause, suppressLeft,
                   paste, ownLeft, cleared, missed>>

\* pause_capture, resume_capture.  A timed pause ends by itself: once its
\* end has passed it reads as Active (is_paused_at, status_at).
SetCapturePause(p) ==
    /\ phase = "running" /\ capturePause # p
    /\ capturePause' = p
    /\ UNCHANGED <<board, events, worker, monitor, phase, rows, recent,
                   suppressLeft, paste, ownLeft, cleared, missed>>

PauseExpires ==
    /\ capturePause = "Until" /\ capturePause' = "Active"
    /\ UNCHANGED <<board, events, worker, monitor, phase, rows, recent,
                   suppressLeft, paste, ownLeft, cleared, missed>>

-----------------------------------------------------------------------------
(* Pasting                                                                 *)

PasteRest == UNCHANGED <<monitor, phase, rows, recent, capturePause, missed>>

BeginPaste(t, f) ==
    /\ phase = "running" /\ paste[t].at = "idle"
    /\ \A u \in Paste : u < t => paste[u].at # "idle"
    /\ Present(f) # {}
    /\ paste' = [paste EXCEPT ![t] = [IdlePaste EXCEPT !.at = "window", !.f = f]]
    /\ UNCHANGED <<board, events, worker, suppressLeft, ownLeft, cleared>>
    /\ PasteRest

(***************************************************************************)
(* paste_entry, paste_entry_plaintext and paste_most_recent_plaintext find *)
(* the row and what it is written back as.  A picture whose blob is gone   *)
(* and a row without plain text end here, without a word.                  *)
(***************************************************************************)
PasteEntry(t, p) == p \in rows /\ BeginPaste(t, WrittenBack(p))

PasteEntryPlaintext(t, p) ==
    p \in rows /\ BeginPaste(t, [NoFlavors EXCEPT !["text"] = PlainText(p.f)])

PasteMostRecentPlaintext(t) == rows # {} /\ PasteEntryPlaintext(t, recent)

\* The monitor is made deaf "for a 500ms window starting NOW".
OpenWindow(t) ==
    /\ paste[t].at = "window"
    /\ paste' = [paste EXCEPT ![t].at = "write", ![t].left = Suppress]
    /\ suppressLeft' = Suppress /\ cleared' = FALSE
    /\ UNCHANGED <<board, events, worker, ownLeft>>
    /\ PasteRest

(***************************************************************************)
(* The write takes the context's lock, so it waits for a read to end; the  *)
(* monitor is told once or more than once ("duplicate system               *)
(* notifications").                                                        *)
(***************************************************************************)
WriteClipboard(t) ==
    /\ paste[t].at = "write" /\ worker.at \notin Reading
    /\ board' = [f |-> paste[t].f, private |-> FALSE, by |-> "app"]
    /\ \E n \in 1..2 : events + n <= MaxQueue /\ Notify(n)
    /\ paste' = [paste EXCEPT ![t].at = "hide"]
    /\ ownLeft' = IF paste[t].left > ownLeft THEN paste[t].left ELSE ownLeft
    /\ worker' = Disturbed
    /\ UNCHANGED <<suppressLeft, cleared>>
    /\ PasteRest

WriteFails(t) ==
    /\ paste[t].at = "write" /\ worker.at \notin Reading
    /\ paste' = [paste EXCEPT ![t].at = "clear"]
    /\ UNCHANGED <<board, events, worker, suppressLeft, ownLeft, cleared>>
    /\ PasteRest

\* (Mutant: a paste that failed leaves its window open.)
WindowLeftOpen(t) ==
    /\ paste[t].at = "clear"
    /\ paste' = [paste EXCEPT ![t] = IdlePaste]
    /\ UNCHANGED <<board, events, worker, suppressLeft, ownLeft, cleared>>
    /\ PasteRest

(***************************************************************************)
(* A failed write closes the window: not its own, but the one window there *)
(* is.                                                                     *)
(***************************************************************************)
ClearWindow(t) ==
    /\ paste[t].at = "clear"
    /\ paste' = [paste EXCEPT ![t] = IdlePaste]
    /\ suppressLeft' = 0
    /\ cleared' = (cleared \/ ownLeft > 0 \/ \E u \in Paste \ {t} : paste[u].at = "write")
    /\ UNCHANGED <<board, events, worker, ownLeft>>
    /\ PasteRest

(***************************************************************************)
(* hide_popup_window_for_paste, whose effect on the window PopupWindow.tla *)
(* models: the request, then the flag; then a thread sleeps for KeyDelay.  *)
(***************************************************************************)
HideRequested(t) ==
    /\ paste[t].at = "hide"
    /\ paste' = [paste EXCEPT ![t].at = "flag"]
    /\ UNCHANGED <<board, events, worker, suppressLeft, ownLeft, cleared>>
    /\ PasteRest

HideRecorded(t) ==
    /\ paste[t].at = "flag"
    /\ paste' = [paste EXCEPT ![t].at = "delay", ![t].keys = KeyDelay]
    /\ UNCHANGED <<board, events, worker, suppressLeft, ownLeft, cleared>>
    /\ PasteRest

\* ydotool presses the keys, or the user is told to press them.
Answered(t) ==
    /\ paste[t].at = "delay" /\ paste[t].keys = 0
    /\ paste' = [paste EXCEPT ![t] = IdlePaste]
    /\ UNCHANGED <<board, events, worker, suppressLeft, ownLeft, cleared>>
    /\ PasteRest

Less(n) == IF n > 0 THEN n - 1 ELSE 0

ClipboardClockRuns ==
    suppressLeft > 0 \/ ownLeft > 0 \/ \E t \in Paste : paste[t].left > 0 \/ paste[t].keys > 0

ClipboardTick ==
    /\ suppressLeft' = Less(suppressLeft)
    /\ ownLeft' = Less(ownLeft)
    /\ cleared' = (cleared /\ (ownLeft > 1 \/ \E t \in Paste : paste[t].at = "write"))
    /\ paste' = [t \in Paste |-> [paste[t] EXCEPT !.left = Less(@), !.keys = Less(@)]]
    /\ UNCHANGED <<board, events, worker, monitor, phase, rows, recent,
                   capturePause, missed>>

-----------------------------------------------------------------------------
(* Properties                                                              *)

(***************************************************************************)
(* What a capture of this clipboard ought to store: the picture if it can  *)
(* be read, else the files, else every text format that can be read.       *)
(***************************************************************************)
Faithful(b) ==
    LET readable == {k \in Formats : b.f[k] \notin {None, Bad}}
        Only(ks) == [k \in Formats |-> IF k \in ks THEN b.f[k] ELSE None]
    IN  IF "image" \in readable THEN {PayloadOf(Only({"image"}))}
        ELSE IF "files" \in readable
        THEN {PayloadOf(Only({"files"}))} \cup
             (IF Picture[b.f["files"]] = None THEN {}
              ELSE {PayloadOf([NoFlavors EXCEPT !["image"] = Picture[b.f["files"]]])})
        ELSE IF readable = {} THEN {} ELSE {PayloadOf(Only(readable))}

(***************************************************************************)
(* A capture during which nobody replaced the clipboard stores its best    *)
(* payload, whichever formats are offered and broken, and never anything   *)
(* that was marked private: "a secret never leaves the pasteboard".        *)
(***************************************************************************)
UndisturbedReadIsFaithful ==
    worker.at = "store" /\ ~worker.touched =>
      /\ ~board.private
      /\ IF Present(worker.got) = {} THEN Faithful(board) = {}
         ELSE PayloadOf(worker.got) \in Faithful(board)

(***************************************************************************)
(* What a paste wrote is not captured as if the user had copied it, except *)
(* by a callback that began before the write or after the 500 ms, or after *)
(* another paste had failed and closed the window they share.              *)
(***************************************************************************)
OwnWriteNotCaptured ==
    worker.at = "store" /\ worker.own => worker.excused

(***************************************************************************)
(* The monitor is deaf only while a paste is being written or within the   *)
(* window of one that was: a paste that failed costs no copy.              *)
(***************************************************************************)
DeafOnlyAroundPaste ==
    suppressLeft > 0 =>
      \/ suppressLeft <= ownLeft
      \/ \E t \in Paste : paste[t].at \in {"write", "clear"} /\ suppressLeft <= paste[t].left

(***************************************************************************)
(* Once the monitor has caught up, what the user copied last is in the     *)
(* history, unless it is private or unreadable, or was copied around a     *)
(* paste or in a pause, or the database refused it.                        *)
(***************************************************************************)
UserCopyKept ==
    (worker.at = "wait" /\ events = 0 /\ board.by = "user" /\ ~board.private
       /\ Faithful(board) # {})
    => (\E p \in Faithful(board) : Stored(p)) \/ missed \in {"deaf", "paused", "refused"}
=============================================================================
