------------------------------ MODULE DesktopApp ------------------------------
(***************************************************************************)
(* The desktop application on Linux: the clipboard monitor and the pastes  *)
(* (DesktopClipboard), the popup (PopupWindow) and the global shortcuts    *)
(* (Shortcuts) around one main thread (lib.rs run).                        *)
(*                                                                         *)
(* They meet in four places.  A shortcut, the tray or another invocation   *)
(* of the program gives the main thread a task; the task toggles the popup *)
(* or pastes; a paste hides the popup before it presses the keys, which go *)
(* to whatever has the focus; and at the exit the main thread joins the    *)
(* monitor and then the KDE worker.                                        *)
(***************************************************************************)
EXTENDS DesktopClipboard, PopupWindow, Shortcuts

CONSTANTS
    NoPaste,
    Starts   \* bounds: sessions to start in, each with a history and the
             \* events that it allows

VARIABLES
    setup,      \* the life of the process around what phase says of it
    mainPaste,  \* the paste that runs on the main thread, or NoPaste
    resave,     \* settings were saved and reregister_shortcuts is due
    reopened,   \* history: per paste, the popup was shown after it was hidden
    allowed     \* bound: the events of each class that may still happen

appVars == <<setup, mainPaste, resave, reopened, allowed>>

vars == <<clipboardVars, popupVars, gnomeVars, kdeVars, appVars>>

\* What users, other programs and failures do, by what it is done to.
EventClass == {"clipboard", "popup", "paste", "shortcuts", "end"}

ASSUME DesktopAppAssumption ==
    /\ DesktopClipboardAssumption /\ PopupWindowAssumption /\ ShortcutsAssumption
    /\ NoPaste \notin Paste /\ KeyDelay > 0
    /\ Action \subseteq Toggles \cup {"plaintext"}
    /\ \A s \in Starts :
         /\ s.session \in Sessions /\ \A c \in EventClass : s[c] \in Nat
         /\ \A p \in s.history : p.type \in Formats /\ DOMAIN p.f = Formats

TypeOK ==
    /\ ClipboardTypeOK /\ PopupTypeOK /\ ShortcutsTypeOK
    /\ setup \in {"shortcuts", "monitor", "done", "leaving", "gone"}
    /\ mainPaste \in Paste \cup {NoPaste} /\ resave \in BOOLEAN
    /\ reopened \in [Paste -> BOOLEAN]
    /\ allowed \in [EventClass -> Nat]

Init ==
    /\ PopupInit /\ ShortcutsInit
    /\ setup = "shortcuts" /\ mainPaste = NoPaste /\ resave = FALSE
    /\ reopened = [t \in Paste |-> FALSE]
    /\ \E s \in Starts : /\ session = s.session /\ ClipboardInit(s.history)
                         /\ allowed = [c \in EventClass |-> s[c]]

Event(c) == allowed[c] > 0 /\ allowed' = [allowed EXCEPT ![c] = @ - 1]

ClipboardOnly == UNCHANGED popupVars /\ UNCHANGED gnomeVars /\ UNCHANGED kdeVars
PopupOnly == UNCHANGED clipboardVars /\ UNCHANGED gnomeVars /\ UNCHANGED kdeVars
ShortcutsOnly == UNCHANGED clipboardVars /\ UNCHANGED popupVars

Quiet == UNCHANGED <<setup, mainPaste, resave, reopened>>

-----------------------------------------------------------------------------
(* Starting, leaving, and starting again                                   *)

\* setup: the shortcuts are registered, synchronously but for KDE's worker,
\* and then the monitor is started.
SetupShortcuts ==
    /\ setup = "shortcuts" /\ setup' = "monitor"
    /\ BeginRegister /\ ShortcutsOnly
    /\ UNCHANGED <<mainPaste, resave, reopened, allowed>>

SetupMonitor ==
    /\ setup = "monitor" /\ reg.at = "idle" /\ setup' = "done"
    /\ StartMonitor /\ ClipboardOnly
    /\ UNCHANGED <<mainPaste, resave, reopened, allowed>>

MainFree == phase = "running" /\ setup = "done" /\ mainPaste = NoPaste

\* "Quit Copywraith" in the tray, or the end of the desktop session.
Quit ==
    /\ MainFree /\ Event("end") /\ setup' = "leaving"
    /\ StopMonitor /\ ClipboardOnly
    /\ UNCHANGED <<mainPaste, resave, reopened>>

\* RunEvent::Exit on the main thread: the monitor first, then the worker.
LeaveMonitor == MonitorJoined /\ ClipboardOnly /\ Quiet /\ UNCHANGED allowed

LeaveKde ==
    /\ setup = "leaving" /\ phase = "stopped" /\ KdeShutdown /\ ShortcutsOnly
    /\ Quiet /\ UNCHANGED allowed

Leave ==
    /\ setup = "leaving" /\ phase = "stopped" /\ KdeJoined /\ setup' = "gone"
    /\ UNCHANGED <<clipboardVars, popupVars, gnomeVars, kdeVars, mainPaste, resave,
                   reopened, allowed>>

(***************************************************************************)
(* The process ends, by itself or killed at any moment, and is started     *)
(* again, perhaps in another session.  The history, the settings and       *)
(* GNOME's rows survive; KGlobalAccel lets go of the keys of a program     *)
(* that left the bus.  What was copied before a start is never looked at.  *)
(***************************************************************************)
Restart ==
    /\ Event("end")
    /\ board' = EmptyBoard /\ events' = 0 /\ worker' = IdleWorker("none")
    /\ monitor' = [kept |-> FALSE, status |-> "Stopped"] /\ phase' = "starting"
    /\ capturePause' = "Active" /\ suppressLeft' = 0
    /\ paste' = [t \in Paste |-> IdlePaste]
    /\ ownLeft' = 0 /\ cleared' = FALSE /\ missed' = "no"
    /\ visible' = FALSE /\ active' = FALSE /\ popupOpen' = FALSE
    /\ debounceLeft' = 0 /\ guardLeft' = 0 /\ tasks' = <<>>
    /\ hider' = [h \in Hider |-> "idle"] /\ autoHide' = NoTimer
    /\ session' \in Sessions
    /\ grabs' = NoGrabs /\ reg' = NoReg /\ mechanism' = "in_process"
    /\ kde' = NoWorker /\ registered' = {} /\ held' = {} /\ signals' = <<>>
    /\ kOwner' = NoOwner /\ born' = 0 /\ present' = {}
    /\ down' = [a \in Action |-> NoOwner] /\ owed' = [a \in Action |-> 0]
    /\ leftActive' = FALSE
    /\ setup' = "shortcuts" /\ mainPaste' = NoPaste /\ resave' = FALSE
    /\ reopened' = [t \in Paste |-> FALSE]
    /\ UNCHANGED <<rows, recent, keys, list, row, kept, blurred>>

-----------------------------------------------------------------------------
(* The main thread's tasks                                                 *)

MainToggle ==
    /\ MainFree /\ RunToggle
    /\ reopened' = [t \in Paste |-> reopened[t] \/ (~visible /\ visible')]
    /\ PopupOnly /\ UNCHANGED <<setup, mainPaste, resave, allowed>>

MainHide == MainFree /\ RunHide /\ PopupOnly /\ Quiet /\ UNCHANGED allowed

\* dispatch_cli_command runs paste_most_recent_plaintext on the main thread.
MainPlaintext ==
    /\ MainFree /\ tasks # <<>> /\ Head(tasks) = "plaintext" /\ tasks' = Tail(tasks)
    /\ IF rows = {} \/ PlainText(recent.f) = None
       THEN UNCHANGED clipboardVars /\ UNCHANGED mainPaste
       ELSE \E t \in Paste : PasteMostRecentPlaintext(t) /\ mainPaste' = t
    /\ UNCHANGED <<visible, active, popupOpen, debounceLeft, guardLeft, hider,
                   autoHide, setup, resave, reopened, allowed>>
    /\ UNCHANGED gnomeVars /\ UNCHANGED kdeVars

\* What the user, or a program the user has bound a key to, asks for: the
\* tray's menu, `copywraith --toggle' and so on, a key of the session.
Ask(a) ==
    /\ setup = "done" /\ phase = "running" /\ Event("popup") /\ RequestTask(a)
    /\ UNCHANGED clipboardVars /\ Quiet

TrayOrCommand(a) == Ask(a) /\ UNCHANGED gnomeVars /\ UNCHANGED kdeVars

GnomeKey(a) == Ask(a) /\ GnomeRuns(a)

GrabbedKey(a) == a # "plaintext" /\ Ask(a) /\ GrabFires(a)

-----------------------------------------------------------------------------
(* Pastes                                                                  *)

Running == phase \in {"running", "stopping"}

\* Enter, a double click or the menu of a row in the popup.
PasteCommand(t, p) ==
    /\ MainFree /\ visible /\ active /\ Event("paste")
    /\ PasteEntry(t, p) \/ PasteEntryPlaintext(t, p)
    /\ ClipboardOnly /\ Quiet

\* The grabbed key of `plaintext' pastes on the thread that hears of it.
GrabbedPlaintext(t) ==
    /\ phase = "running" /\ setup = "done" /\ Event("paste")
    /\ GrabFires("plaintext") /\ PasteMostRecentPlaintext(t)
    /\ UNCHANGED popupVars /\ Quiet

PasteStep(t) ==
    /\ Running
    /\ OpenWindow(t) \/ WriteClipboard(t)
    /\ ClipboardOnly /\ Quiet /\ UNCHANGED allowed

PasteWriteFails(t) == Running /\ Event("paste") /\ WriteFails(t) /\ ClipboardOnly /\ Quiet

Finished(t) == mainPaste' = IF t = mainPaste THEN NoPaste ELSE mainPaste

PasteGivesUp(t) ==
    /\ Running /\ ClearWindow(t) /\ Finished(t)
    /\ ClipboardOnly /\ UNCHANGED <<setup, resave, reopened, allowed>>

\* (Mutant: only the flag is cleared.)
PasteHidesNothing(t) ==
    /\ Running /\ HideRequested(t)
    /\ reopened' = [reopened EXCEPT ![t] = FALSE]
    /\ UNCHANGED <<setup, mainPaste, resave, allowed>>
    /\ UNCHANGED popupVars /\ UNCHANGED gnomeVars /\ UNCHANGED kdeVars

\* The popup is hidden here on the main thread, and asked to be elsewhere.
PasteHides(t) ==
    /\ Running /\ HideRequested(t)
    /\ IF t = mainPaste
       THEN /\ visible' = FALSE /\ Activity(FALSE)
            /\ UNCHANGED <<popupOpen, debounceLeft, guardLeft, tasks, hider>>
       ELSE HideForPaste
    /\ reopened' = [reopened EXCEPT ![t] = FALSE]
    /\ UNCHANGED <<setup, mainPaste, resave, allowed>>
    /\ UNCHANGED gnomeVars /\ UNCHANGED kdeVars

PasteHidden(t) ==
    /\ Running /\ HideRecorded(t) /\ FlagForPaste /\ Finished(t)
    /\ UNCHANGED <<setup, resave, reopened, allowed>>
    /\ UNCHANGED gnomeVars /\ UNCHANGED kdeVars

PasteAnswered(t) == Running /\ Answered(t) /\ ClipboardOnly /\ Quiet /\ UNCHANGED allowed

-----------------------------------------------------------------------------
(* The rest: the other threads, the user, time                             *)

Monitoring ==
    (MonitorThread \/ WatcherStops) /\ ClipboardOnly /\ Quiet /\ UNCHANGED allowed

UserAtClipboard ==
    /\ Event("clipboard") /\ ClipboardOnly /\ Quiet
    /\ \/ \E c \in Clips : UserCopies(c)
       \/ \E p \in {"Active", "Until", "Indefinite"} : SetCapturePause(p)
       \/ PauseExpires
       \/ StoreFails
       \/ WatcherDies

UserAtPopup ==
    /\ MainFree /\ Event("popup") /\ PopupOnly /\ Quiet
    /\ FocusChanges \/ \E h \in Hider : EscapePressed(h)

Hiding ==
    /\ phase = "running" /\ PopupOnly /\ Quiet /\ UNCHANGED allowed
    /\ \E h \in Hider : AutoHideFires(h) \/ HideAsked(h) \/ FlagCleared(h)

Registering == Registration /\ ShortcutsOnly /\ Quiet /\ UNCHANGED allowed

SettingsSaved ==
    /\ phase = "running" /\ Event("shortcuts") /\ ~resave /\ resave' = TRUE
    /\ \E a \in Action, k \in Key \cup {Odd, NoKey} : SaveKeys(a, k)
    /\ ShortcutsOnly /\ UNCHANGED <<setup, mainPaste, reopened>>

ReregisterShortcuts ==
    /\ setup = "done" /\ phase = "running" /\ resave /\ resave' = FALSE
    /\ BeginRegister /\ ShortcutsOnly
    /\ UNCHANGED <<setup, mainPaste, reopened, allowed>>

OthersAtShortcuts ==
    /\ Event("shortcuts") /\ ShortcutsOnly /\ Quiet
    /\ \/ GsettingsFails
       \/ \E s \in Slot : ForeignAdds(s) \/ ForeignRemoves(s)
       \/ KdeFails \/ ServiceChanges
       \/ \E a \in Action : KeyDown(a) \/ KeyRepeats(a) \/ KeyUp(a)

Working == KdeWorker /\ ShortcutsOnly /\ Quiet /\ UNCHANGED allowed

\* on_activate: run_on_main_thread, which does nothing once the loop is over.
Activating ==
    /\ KdeHandle /\ UNCHANGED clipboardVars /\ Quiet /\ UNCHANGED allowed
    /\ IF NewPress(Head(signals)) /\ phase = "running"
       THEN RequestTask(Head(signals).a)
       ELSE UNCHANGED popupVars

(***************************************************************************)
(* A tick passes only when the main thread has nothing to do: it is        *)
(* assumed to get through its tasks within a tick (100 ms).                *)
(***************************************************************************)
Tick ==
    /\ ClipboardClockRuns \/ PopupClockRuns
    /\ MainFree => tasks = <<>>
    /\ mainPaste = NoPaste
    /\ ClipboardTick /\ PopupTick
    /\ UNCHANGED gnomeVars /\ UNCHANGED kdeVars /\ UNCHANGED appVars

Pasting(t) ==
    PasteStep(t) \/ PasteGivesUp(t) \/ PasteHides(t) \/ PasteHidden(t) \/ PasteAnswered(t)

Next ==
    \/ SetupShortcuts \/ SetupMonitor \/ Quit \/ LeaveMonitor \/ LeaveKde \/ Leave
    \/ Restart
    \/ MainToggle \/ MainHide \/ MainPlaintext
    \/ \E a \in Action : TrayOrCommand(a) \/ GnomeKey(a) \/ GrabbedKey(a)
    \/ \E t \in Paste :
         \/ \E p \in rows : PasteCommand(t, p)
         \/ GrabbedPlaintext(t)
         \/ PasteWriteFails(t)
         \/ Pasting(t)
    \/ Monitoring \/ UserAtClipboard
    \/ UserAtPopup \/ Hiding
    \/ Registering \/ SettingsSaved \/ ReregisterShortcuts \/ OthersAtShortcuts
    \/ Working \/ Activating
    \/ Tick

(***************************************************************************)
(* Fairness.  Threads of the process are scheduled and calls to other      *)
(* programs answer or fail; the user, other programs and failures owe      *)
(* nothing.                                                                *)
(***************************************************************************)
Fairness ==
    /\ WF_vars(SetupShortcuts \/ SetupMonitor)
    /\ WF_vars(LeaveMonitor) /\ WF_vars(LeaveKde) /\ WF_vars(Leave)
    /\ WF_vars(Monitoring) /\ WF_vars(Registering)
    /\ WF_vars(Working) /\ WF_vars(Activating)

Spec == Init /\ [][Next]_vars /\ Fairness

-----------------------------------------------------------------------------
(* Properties                                                              *)

(***************************************************************************)
(* When the keys of a paste are pressed the popup is not on the screen to  *)
(* swallow them, unless the user has opened it again since the paste hid   *)
(* it.                                                                     *)
(***************************************************************************)
KeysNotIntoPopup ==
    \A t \in Paste :
      phase = "running" /\ paste[t].at = "delay" /\ paste[t].keys = 0 /\ visible
        => reopened[t]

(***************************************************************************)
(* The process always gets out: the main thread is neither kept by a       *)
(* monitor in the middle of a capture, which itself waits for the database *)
(* and the clipboard, nor by a KDE worker that is reconnecting.            *)
(***************************************************************************)
ExitCompletes == (setup = "leaving") ~> (setup # "leaving")
=============================================================================
