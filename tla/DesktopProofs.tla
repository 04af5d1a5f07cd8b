----------------------------- MODULE DesktopProofs -----------------------------
(***************************************************************************)
(* What TLAPS proves of the desktop application beside its shortcuts, for  *)
(* any number of pastes, threads and restarts, and any lengths of the      *)
(* delays and the queues.                                                  *)
(*                                                                         *)
(* Pastes: none types into the popup, and the window in which the monitor  *)
(* is deaf is open for a paste and for nothing else.  The monitor: what it *)
(* stores is the best payload that was offered, its own writes stay out,   *)
(* and a copy of the user is lost only for a named reason.  The popup: a   *)
(* toggle does what the user sees, and it is placed on the screen.         *)
(***************************************************************************)
EXTENDS ShortcutsProofs, PopupPlacement

Task == Toggles \cup {"plaintext", "hide"}

\* The types that the proofs need.
PasteShape ==
    DOMAIN paste = Paste /\ \A t \in Paste : {"at", "f", "left", "keys"} \subseteq DOMAIN paste[t]

PopupShape == visible \in BOOLEAN /\ tasks \in Seq(Task) /\ reopened \in [Paste -> BOOLEAN]

\* The main thread has been asked to hide the popup.
HidePending == \E i \in 1..Len(tasks) : tasks[i] = "hide"

(***************************************************************************)
(* From the request to hide it until the keys, the popup is gone or about  *)
(* to be, or the user has opened it again; and no time passes while it is  *)
(* about to be.                                                            *)
(***************************************************************************)
PopupAway(t) ==
    phase = "running" =>
      /\ paste[t].at \in {"flag", "delay"} => reopened[t] \/ ~visible \/ HidePending
      /\ paste[t].at = "delay" /\ paste[t].keys < KeyDelay => reopened[t] \/ ~visible

\* The inductive invariant of KeysNotIntoPopup.
PasteInv ==
    /\ phase = "running" => setup = "done"
    /\ phase = "starting" => \A t \in Paste : paste[t].at = "idle"
    /\ \A t \in Paste : PopupAway(t)

-----------------------------------------------------------------------------
(* Types                                                                   *)

LEMMA ActionsAreTasks == Action \subseteq Task
  BY DesktopAppAssumption DEF Task

LEMMA Appended ==
    ASSUME tasks \in Seq(Task), NEW task \in Task, Post(task)
    PROVE  tasks' \in Seq(Task) /\ (HidePending \/ task = "hide" => HidePending')
  <1>1. /\ tasks' \in Seq(Task) /\ Len(tasks') = Len(tasks) + 1 /\ Len(tasks) \in Nat
        /\ \A i \in 1..Len(tasks) : tasks'[i] = tasks[i]
        /\ tasks'[Len(tasks) + 1] = task
    BY DEF Post
  <1> QED
    BY <1>1 DEF HidePending

LEMMA Taken ==
    ASSUME tasks \in Seq(Task), tasks # <<>>, tasks' = Tail(tasks)
    PROVE  tasks' \in Seq(Task) /\ (HidePending /\ Head(tasks) # "hide" => HidePending')
  <1>1. /\ tasks' \in Seq(Task) /\ Len(tasks') = Len(tasks) - 1 /\ Len(tasks) \in Nat \ {0}
        /\ \A i \in 1..Len(tasks') : tasks'[i] = tasks[i + 1]
        /\ Head(tasks) = tasks[1]
    OBVIOUS
  <1>2. ASSUME NEW i \in 1..Len(tasks), tasks[i] = "hide", Head(tasks) # "hide"
        PROVE  HidePending'
    <2>1. i - 1 \in 1..Len(tasks')
      BY <1>1, <1>2
    <2>2. tasks'[i - 1] = tasks[i]
      BY <1>1, <2>1
    <2> QED
      BY <1>2, <2>1, <2>2 DEF HidePending
  <1> QED
    BY <1>1, <1>2 DEF HidePending

-----------------------------------------------------------------------------
(* The popup and the pastes                                                *)

\* A step after which the popup is not more visible than before, nothing is
\* known of it that was not, and no paste goes on.
LEMMA PopupLeft ==
    ASSUME PopupShape, PasteInv, UNCHANGED <<paste, reopened, phase>>, setup' = setup,
           visible' => visible, HidePending => HidePending' \/ ~visible'
    PROVE  PasteInv'
  <1>1. \A t \in Paste : PopupAway(t)'
    BY DEF PasteInv, PopupAway, PopupShape
  <1> QED
    BY <1>1 DEF PasteInv

\* A step of one paste that does not bring it to the hiding of the popup.
LEMMA PasteMoves ==
    ASSUME PopupShape, PasteInv, NEW t \in Paste, phase # "starting",
           \A u \in Paste \ {t} : paste'[u] = paste[u],
           paste'[t].at \notin {"flag", "delay"},
           UNCHANGED <<visible, phase, setup, reopened>>, HidePending => HidePending'
    PROVE  PasteInv'
  <1>1. \A u \in Paste \ {t} : PopupAway(u)'
    BY DEF PasteInv, PopupAway, PopupShape
  <1>2. PopupAway(t)'
    BY DEF PopupAway
  <1> QED
    BY <1>1, <1>2 DEF PasteInv

-----------------------------------------------------------------------------
(* The popup and the pastes, action by action                              *)

PopupSafe == PasteShape /\ PopupShape /\ PasteInv

\* Steps that leave the popup and the pastes alone.
LEMMA PopupKept ==
    ASSUME PopupSafe, UNCHANGED <<paste, phase, visible, tasks, setup, reopened>>
    PROVE  PopupSafe'
  BY DEF PopupSafe, PasteShape, PopupShape, PasteInv, PopupAway, HidePending

\* A paste is begun.
LEMMA BeginPasteSafe ==
    ASSUME PopupSafe, NEW t \in Paste, NEW f, BeginPaste(t, f),
           UNCHANGED <<visible, setup, reopened>>, tasks' \in Seq(Task),
           HidePending => HidePending'
    PROVE  PopupSafe'
  <1>1. /\ phase = "running" /\ phase' = phase
        /\ paste' = [paste EXCEPT ![t] = [IdlePaste EXCEPT !.at = "window", !.f = f]]
    BY DEF BeginPaste, PasteRest
  <1>2. PasteShape' /\ paste'[t].at = "window" /\ \A u \in Paste \ {t} : paste'[u] = paste[u]
    BY <1>1 DEF PopupSafe, PasteShape, IdlePaste
  <1>3. PasteInv'
    BY <1>1, <1>2, PasteMoves DEF PopupSafe
  <1>4. PopupShape'
    BY DEF PopupSafe, PopupShape
  <1> QED
    BY <1>2, <1>3, <1>4 DEF PopupSafe

\* The steps of a paste before it hides the popup, and the keys.
LEMMA PasteStepSafe ==
    ASSUME PopupSafe, NEW t \in Paste,
           PasteStep(t) \/ PasteWriteFails(t) \/ PasteGivesUp(t) \/ PasteAnswered(t)
    PROVE  PopupSafe'
  <1>1. /\ phase # "starting" /\ UNCHANGED <<phase, visible, setup, reopened, tasks>>
        /\ OpenWindow(t) \/ WriteClipboard(t) \/ WriteFails(t) \/ ClearWindow(t) \/ Answered(t)
    BY DEF PasteStep, PasteWriteFails, PasteGivesUp, PasteAnswered, Running, ClipboardOnly,
       Quiet, popupVars, OpenWindow, WriteClipboard, WriteFails, ClearWindow, Answered, PasteRest
  <1>2. /\ PasteShape' /\ paste'[t].at \notin {"flag", "delay"}
        /\ \A u \in Paste \ {t} : paste'[u] = paste[u]
    <2>1. CASE OpenWindow(t)
      BY <2>1 DEF OpenWindow, PopupSafe, PasteShape
    <2>2. CASE WriteClipboard(t)
      BY <2>2 DEF WriteClipboard, PopupSafe, PasteShape
    <2>3. CASE WriteFails(t)
      BY <2>3 DEF WriteFails, PopupSafe, PasteShape
    <2>4. CASE ClearWindow(t) \/ Answered(t)
      BY <2>4 DEF ClearWindow, Answered, PopupSafe, PasteShape, IdlePaste
    <2> QED
      BY <1>1, <2>1, <2>2, <2>3, <2>4
  <1>3. PasteInv'
    BY <1>1, <1>2, PasteMoves DEF PopupSafe, HidePending
  <1> QED
    BY <1>1, <1>2, <1>3 DEF PopupSafe, PopupShape

\* The popup is hidden by the main thread, or the request to hide it is queued.
LEMMA PasteHidesSafe ==
    ASSUME PopupSafe, NEW t \in Paste, PasteHides(t)
    PROVE  PopupSafe'
  <1>1. /\ paste' = [paste EXCEPT ![t].at = "flag"] /\ phase' = phase /\ phase # "starting"
        /\ setup' = setup /\ reopened' = [reopened EXCEPT ![t] = FALSE]
    BY DEF PasteHides, HideRequested, PasteRest, Running
  <1>2. PasteShape' /\ paste'[t].at = "flag" /\ \A u \in Paste \ {t} : paste'[u] = paste[u]
    BY <1>1 DEF PopupSafe, PasteShape
  <1>3. /\ PopupShape'
        /\ HidePending => HidePending'
        /\ visible' => visible
        /\ ~visible' \/ HidePending'
    <2>1. CASE t = mainPaste
      BY <1>1, <2>1 DEF PasteHides, PopupSafe, PopupShape, HidePending
    <2>2. CASE t # mainPaste
      <3>1. HideForPaste /\ "hide" \in Task /\ tasks \in Seq(Task)
        BY <2>2 DEF PasteHides, Task, PopupSafe, PopupShape
      <3>2. tasks' \in Seq(Task) /\ HidePending'
        BY <3>1, Appended DEF HideForPaste
      <3> QED
        BY <1>1, <3>1, <3>2 DEF HideForPaste, PopupSafe, PopupShape
    <2> QED
      BY <2>1, <2>2
  <1>4. ASSUME NEW u \in Paste
        PROVE  PopupAway(u)'
    <2>1. CASE u = t
      BY <1>2, <1>3, <2>1 DEF PopupAway
    <2>2. CASE u # t
      <3>1. PopupAway(u) /\ paste'[u] = paste[u] /\ reopened'[u] = reopened[u]
        BY <1>1, <1>2, <2>2 DEF PopupSafe, PopupShape, PasteInv
      <3> QED
        BY <1>1, <1>3, <3>1 DEF PopupAway
    <2> QED
      BY <2>1, <2>2
  <1> QED
    BY <1>1, <1>2, <1>3, <1>4 DEF PopupSafe, PasteInv

\* The keys follow a full delay after the hide.
LEMMA PasteHiddenSafe ==
    ASSUME PopupSafe, NEW t \in Paste, PasteHidden(t)
    PROVE  PopupSafe'
  <1>1. /\ paste[t].at = "flag" /\ paste' = [paste EXCEPT ![t].at = "delay", ![t].keys = KeyDelay]
        /\ UNCHANGED <<phase, visible, tasks, setup, reopened>> /\ phase # "starting"
    BY DEF PasteHidden, HideRecorded, PasteRest, FlagForPaste, Running
  <1>2. /\ PasteShape' /\ paste'[t].at = "delay" /\ paste'[t].keys = KeyDelay
        /\ \A u \in Paste \ {t} : paste'[u] = paste[u]
    BY <1>1 DEF PopupSafe, PasteShape
  <1>3. HidePending' = HidePending
    BY <1>1 DEF HidePending
  <1>4. KeyDelay \in Nat
    BY DesktopAppAssumption DEF DesktopClipboardAssumption
  <1>5. ASSUME NEW u \in Paste
        PROVE  PopupAway(u)'
    <2>1. PopupAway(u) /\ PopupAway(t)
      BY DEF PopupSafe, PasteInv
    <2>2. CASE u = t
      BY <1>1, <1>2, <1>3, <1>4, <2>1, <2>2 DEF PopupAway
    <2>3. CASE u # t
      BY <1>1, <1>2, <1>3, <2>1, <2>3 DEF PopupAway
    <2> QED
      BY <2>2, <2>3
  <1> QED
    BY <1>1, <1>2, <1>5 DEF PopupSafe, PopupShape, PasteInv

LEMMA MainToggleSafe ==
    ASSUME PopupSafe, MainToggle
    PROVE  PopupSafe'
  <1>1. /\ tasks # <<>> /\ Head(tasks) # "hide" /\ tasks' = Tail(tasks) /\ TogglePopup
        /\ UNCHANGED <<paste, phase, setup>>
        /\ reopened' = [t \in Paste |-> reopened[t] \/ (~visible /\ visible')]
    BY DEF MainToggle, RunToggle, Toggles, PopupOnly, clipboardVars
  <1>2. tasks' \in Seq(Task) /\ (HidePending => HidePending')
    BY <1>1, Taken DEF PopupSafe, PopupShape
  <1>3. visible' \in BOOLEAN
    BY <1>1 DEF TogglePopup, ShowNow, HideNow, PopupSafe, PopupShape
  <1>4. \A t \in Paste : PopupAway(t)'
    BY <1>1, <1>2, <1>3 DEF PopupSafe, PopupShape, PasteInv, PopupAway
  <1>5. reopened' \in [Paste -> BOOLEAN]
    BY <1>1, <1>3 DEF PopupSafe, PopupShape
  <1> QED
    BY <1>1, <1>2, <1>3, <1>4, <1>5 DEF PopupSafe, PasteShape, PopupShape, PasteInv

LEMMA MainHideSafe ==
    ASSUME PopupSafe, MainHide
    PROVE  PopupSafe'
  <1>1. /\ tasks # <<>> /\ tasks' = Tail(tasks) /\ visible' = FALSE
        /\ UNCHANGED <<paste, phase, setup, reopened>>
    BY DEF MainHide, RunHide, PopupOnly, clipboardVars, Quiet
  <1>2. tasks' \in Seq(Task)
    BY <1>1, Taken DEF PopupSafe, PopupShape
  <1> QED
    BY <1>1, <1>2 DEF PopupSafe, PasteShape, PopupShape, PasteInv, PopupAway

LEMMA MainPlaintextSafe ==
    ASSUME PopupSafe, MainPlaintext
    PROVE  PopupSafe'
  <1>1. /\ tasks # <<>> /\ Head(tasks) = "plaintext" /\ tasks' = Tail(tasks)
        /\ UNCHANGED <<visible, setup, reopened>>
    BY DEF MainPlaintext
  <1>2. tasks' \in Seq(Task) /\ (HidePending => HidePending')
    BY <1>1, Taken DEF PopupSafe, PopupShape
  <1>3. CASE UNCHANGED clipboardVars
    BY <1>1, <1>2, <1>3, PopupLeft DEF clipboardVars, PopupSafe, PasteShape, PopupShape
  <1>4. CASE \E t \in Paste : PasteMostRecentPlaintext(t)
    BY <1>1, <1>2, <1>4, BeginPasteSafe DEF PasteMostRecentPlaintext, PasteEntryPlaintext
  <1> QED
    BY <1>3, <1>4 DEF MainPlaintext

\* Somebody asks the main thread for something.
LEMMA AskedSafe ==
    ASSUME PopupSafe, NEW task \in Task, RequestTask(task),
           UNCHANGED <<paste, phase, setup, reopened>>
    PROVE  PopupSafe'
  <1>1. tasks' \in Seq(Task) /\ (HidePending => HidePending') /\ visible' = visible
    BY Appended DEF RequestTask, PopupSafe, PopupShape
  <1> QED
    BY <1>1, PopupLeft DEF PopupSafe, PasteShape, PopupShape

LEMMA HidingSafe ==
    ASSUME PopupSafe, Hiding \/ UserAtPopup
    PROVE  PopupSafe'
  <1>1. UNCHANGED <<paste, phase, setup, reopened, visible>>
    BY DEF Hiding, UserAtPopup, PopupOnly, clipboardVars, Quiet, AutoHideFires, HideAsked,
       FlagCleared, FocusChanges, EscapePressed, CallHidePopup
  <1>2. tasks' = tasks \/ Post("hide")
    BY DEF Hiding, UserAtPopup, AutoHideFires, HideAsked, FlagCleared, FocusChanges,
       EscapePressed, CallHidePopup
  <1>3. CASE tasks' = tasks
    BY <1>1, <1>3, PopupKept
  <1>4. CASE Post("hide")
    <2>1. tasks' \in Seq(Task) /\ HidePending'
      BY <1>4, Appended DEF Task, PopupSafe, PopupShape
    <2> QED
      BY <1>1, <2>1, PopupLeft DEF PopupSafe, PasteShape, PopupShape
  <1> QED
    BY <1>2, <1>3, <1>4

\* No time passes while the main thread still has the popup to hide.
LEMMA TickSafe ==
    ASSUME PopupSafe, Tick
    PROVE  PopupSafe'
  <1>1. /\ UNCHANGED <<phase, visible, tasks, setup, reopened>> /\ mainPaste = NoPaste
        /\ MainFree => tasks = <<>>
        /\ paste' = [t \in Paste |-> [paste[t] EXCEPT !.left = Less(@), !.keys = Less(@)]]
    BY DEF Tick, ClipboardTick, PopupTick, appVars
  <1>2. PasteShape' /\ \A t \in Paste : paste'[t].at = paste[t].at
    BY <1>1 DEF PopupSafe, PasteShape
  <1>3. phase = "running" => ~HidePending
    <2>1. phase = "running" => tasks = <<>>
      BY <1>1 DEF MainFree, PopupSafe, PasteInv
    <2>2. Len(<<>>) = 0
      OBVIOUS
    <2> QED
      BY <2>1, <2>2 DEF HidePending
  <1>4. \A t \in Paste : PopupAway(t)'
    BY <1>1, <1>2, <1>3 DEF PopupSafe, PasteInv, PopupAway
  <1> QED
    BY <1>1, <1>2, <1>4 DEF PopupSafe, PopupShape, PasteInv

LEMMA FreshSafe ==
    ASSUME paste' = [t \in Paste |-> IdlePaste], phase' = "starting", visible' = FALSE,
           tasks' = <<>>, reopened' = [t \in Paste |-> FALSE]
    PROVE  PopupSafe'
  <1>1. <<>> \in Seq(Task)
    OBVIOUS
  <1>2. PasteShape'
    BY DEF PasteShape, IdlePaste
  <1>3. PopupShape'
    BY <1>1 DEF PopupShape
  <1>4. PasteInv'
    BY DEF PasteInv, PopupAway, IdlePaste
  <1> QED
    BY <1>2, <1>3, <1>4 DEF PopupSafe

\* A phase of the process begins or ends.
LEMMA PhaseSafe ==
    ASSUME PopupSafe, SetupMonitor \/ Quit \/ LeaveMonitor
    PROVE  PopupSafe'
  <1>1. UNCHANGED <<paste, visible, tasks, reopened>>
    BY DEF SetupMonitor, Quit, LeaveMonitor, StartMonitor, StopMonitor, MonitorJoined,
       ClipboardOnly, popupVars, Quiet
  <1>2. \/ phase = "starting" /\ phase' = "running" /\ setup' = "done"
        \/ phase' \in {"stopping", "stopped"}
    BY DEF SetupMonitor, Quit, LeaveMonitor, StartMonitor, StopMonitor, MonitorJoined
  <1>3. PasteInv'
    BY <1>1, <1>2 DEF PopupSafe, PasteInv, PopupAway
  <1> QED
    BY <1>1, <1>3 DEF PopupSafe, PasteShape, PopupShape

LEMMA PopupNext ==
    ASSUME PopupSafe, KdeSafe, [Next]_vars
    PROVE  PopupSafe'
  <1>1. SetupShortcuts => UNCHANGED <<paste, phase, visible, tasks, reopened>> /\ setup' = "monitor"
    BY DEF SetupShortcuts, ShortcutsOnly, clipboardVars, popupVars
  <1>2. CASE SetupShortcuts
    <2>1. phase # "running"
      BY <1>2 DEF SetupShortcuts, PopupSafe, PasteInv
    <2> QED
      BY <1>1, <1>2, <2>1 DEF PopupSafe, PasteShape, PopupShape, PasteInv, PopupAway
  <1>3. CASE LeaveKde \/ Registering \/ SettingsSaved \/ ReregisterShortcuts
             \/ OthersAtShortcuts \/ Working
    BY <1>3, PopupKept DEF LeaveKde, Registering, SettingsSaved, ReregisterShortcuts,
       OthersAtShortcuts, Working, ShortcutsOnly, clipboardVars, popupVars, Quiet
  <1>4. CASE Leave
    <2>1. UNCHANGED <<paste, phase, visible, tasks, reopened>> /\ phase = "stopped"
      BY <1>4 DEF Leave, clipboardVars, popupVars
    <2> QED
      BY <2>1 DEF PopupSafe, PasteShape, PopupShape, PasteInv, PopupAway
  <1>5. CASE Restart
    BY <1>5, FreshSafe DEF Restart
  <1>6. CASE \E a \in Action : TrayOrCommand(a) \/ GnomeKey(a) \/ GrabbedKey(a)
    <2>1. PICK a \in Action : Ask(a)
      BY <1>6 DEF TrayOrCommand, GnomeKey, GrabbedKey
    <2> QED
      BY <2>1, AskedSafe, ActionsAreTasks DEF Ask, clipboardVars, Quiet
  <1>7. CASE Activating
    <2>1. Head(signals).a \in Task
      BY <1>7, HandleSafe, ActionsAreTasks DEF Activating, Signal
    <2>2. UNCHANGED <<paste, phase, setup, reopened>>
      BY <1>7 DEF Activating, clipboardVars, Quiet
    <2>3. RequestTask(Head(signals).a) \/ UNCHANGED popupVars
      BY <1>7 DEF Activating
    <2> QED
      BY <2>1, <2>2, <2>3, AskedSafe, PopupKept DEF popupVars
  <1>8. CASE Monitoring \/ UserAtClipboard
    BY <1>8, PopupKept DEF Monitoring, UserAtClipboard, ClipboardOnly, popupVars, Quiet,
       MonitorThread, HearEvent, CheckPause, CheckMarker, ReadImage, ReadFiles, ReadText,
       StoreEntry, ClipboardRest, WatcherStops, UserCopies, SetCapturePause, PauseExpires,
       StoreFails, WatcherDies
  <1>9. ASSUME NEW t \in Paste, (\E p \in rows : PasteCommand(t, p)) \/ GrabbedPlaintext(t)
        PROVE  PopupSafe'
    <2>1. PICK f : BeginPaste(t, f)
      BY <1>9 DEF PasteCommand, GrabbedPlaintext, PasteEntry, PasteEntryPlaintext,
         PasteMostRecentPlaintext
    <2>2. UNCHANGED <<visible, tasks, setup, reopened>>
      BY <1>9 DEF PasteCommand, GrabbedPlaintext, ClipboardOnly, popupVars, Quiet
    <2> QED
      BY <2>1, <2>2, BeginPasteSafe DEF PopupSafe, PopupShape, HidePending
  <1>10. CASE UNCHANGED vars
    BY <1>10, PopupKept DEF vars, clipboardVars, popupVars, appVars
  <1> QED
    BY <1>2, <1>3, <1>4, <1>5, <1>6, <1>7, <1>8, <1>9, <1>10, PhaseSafe, MainToggleSafe,
       MainHideSafe, MainPlaintextSafe, HidingSafe, TickSafe, PasteStepSafe, PasteHidesSafe,
       PasteHiddenSafe DEF Next, Pasting

LEMMA PopupStart ==
    ASSUME Init
    PROVE  PopupSafe
  <1>1. /\ paste = [t \in Paste |-> IdlePaste] /\ phase = "starting" /\ visible = FALSE
        /\ tasks = <<>> /\ reopened = [t \in Paste |-> FALSE]
    BY DEF Init, ClipboardInit, PopupInit
  <1>2. <<>> \in Seq(Task)
    OBVIOUS
  <1>3. PasteShape
    BY <1>1 DEF PasteShape, IdlePaste
  <1>4. PopupShape
    BY <1>1, <1>2 DEF PopupShape
  <1>5. PasteInv
    BY <1>1 DEF PasteInv, PopupAway, IdlePaste
  <1> QED
    BY <1>3, <1>4, <1>5 DEF PopupSafe

\* The inductive invariant of KeysNotIntoPopup.
THEOREM PopupSafeAlways == Spec => []PopupSafe
  <1>1. PopupSafe /\ KdeSafe /\ KdeSafe' /\ [Next]_vars => PopupSafe'
    BY PopupNext
  <1> QED
    BY <1>1, PopupStart, KeysOwnedAlways, PTL DEF Spec

(***************************************************************************)
(* A paste presses its keys when the popup that it hid is off the screen,  *)
(* whichever thread it runs on, however late the main thread gets to the   *)
(* hide within a tick, and whatever toggles overtake it, unless the user   *)
(* opened the popup again.                                                 *)
(***************************************************************************)
THEOREM KeysNeverIntoPopup == Spec => []KeysNotIntoPopup
  <1>1. KeyDelay \in Nat /\ KeyDelay > 0
    BY DesktopAppAssumption DEF DesktopClipboardAssumption
  <1>2. PopupSafe => KeysNotIntoPopup
    BY <1>1 DEF PopupSafe, PasteInv, PopupAway, KeysNotIntoPopup
  <1> QED
    BY <1>2, PopupSafeAlways, PTL

-----------------------------------------------------------------------------
(* What a step of the application is to the clipboard                      *)

FreshClipboard ==
    /\ board' = EmptyBoard /\ events' = 0 /\ worker' = IdleWorker("none")
    /\ phase' = "starting" /\ suppressLeft' = 0 /\ ownLeft' = 0 /\ cleared' = FALSE
    /\ paste' = [t \in Paste |-> IdlePaste] /\ missed' = "no"
    /\ monitor' = [kept |-> FALSE, status |-> "Stopped"] /\ capturePause' = "Active"
    /\ UNCHANGED <<rows, recent>>

PasteAct(t) ==
    \/ OpenWindow(t) \/ WriteClipboard(t) \/ WriteFails(t) \/ ClearWindow(t)
    \/ HideRequested(t) \/ HideRecorded(t) \/ Answered(t)

ClipboardStep ==
    \/ UNCHANGED clipboardVars
    \/ StartMonitor \/ StopMonitor \/ MonitorJoined \/ FreshClipboard
    \/ \E t \in Paste :
         \/ \E p \in rows : PasteEntry(t, p) \/ PasteEntryPlaintext(t, p)
         \/ Running /\ PasteAct(t)
    \/ MonitorThread \/ WatcherStops \/ StoreFails \/ WatcherDies
    \/ (\E c \in Clips : UserCopies(c)) \/ PauseExpires \/ ClipboardTick
    \/ \E p \in {"Active", "Until", "Indefinite"} : SetCapturePause(p)

LEMMA NextIsClipboardStep ==
    ASSUME [Next]_vars
    PROVE  ClipboardStep
  <1>1. CASE SetupMonitor \/ Quit \/ LeaveMonitor
    BY <1>1 DEF SetupMonitor, Quit, LeaveMonitor, ClipboardStep
  <1>2. CASE Restart
    BY <1>2 DEF Restart, FreshClipboard, ClipboardStep
  <1>3. CASE SetupShortcuts \/ LeaveKde \/ Leave \/ MainToggle \/ MainHide
    BY <1>3 DEF SetupShortcuts, LeaveKde, Leave, MainToggle, MainHide, ShortcutsOnly, PopupOnly,
       ClipboardStep
  <1>4. ASSUME NEW t \in Paste, NEW p, PasteEntry(t, p) \/ PasteEntryPlaintext(t, p)
                                         \/ PasteMostRecentPlaintext(t)
        PROVE  ClipboardStep
    BY <1>4 DEF PasteEntry, PasteEntryPlaintext, PasteMostRecentPlaintext, ClipboardStep
  <1>5. CASE MainPlaintext
    BY <1>4, <1>5 DEF MainPlaintext, ClipboardStep
  <1>6. ASSUME NEW a \in Action, TrayOrCommand(a) \/ GnomeKey(a) \/ GrabbedKey(a)
        PROVE  ClipboardStep
    BY <1>6 DEF TrayOrCommand, GnomeKey, GrabbedKey, Ask, ClipboardStep
  <1>7. ASSUME NEW t \in Paste, (\E p \in rows : PasteCommand(t, p)) \/ GrabbedPlaintext(t)
        PROVE  ClipboardStep
    BY <1>4, <1>7 DEF PasteCommand, GrabbedPlaintext
  <1>8. ASSUME NEW t \in Paste, PasteWriteFails(t) \/ Pasting(t)
        PROVE  ClipboardStep
    BY <1>8 DEF PasteWriteFails, Pasting, PasteStep, PasteGivesUp, PasteHides, PasteHidden,
       PasteAnswered, PasteAct, ClipboardStep
  <1>9. CASE Monitoring \/ UserAtClipboard
    BY <1>9 DEF Monitoring, UserAtClipboard, ClipboardStep
  <1>10. CASE UserAtPopup \/ Hiding \/ Registering \/ SettingsSaved \/ ReregisterShortcuts
              \/ OthersAtShortcuts \/ Working \/ Activating
    BY <1>10 DEF UserAtPopup, Hiding, Registering, SettingsSaved, ReregisterShortcuts,
       OthersAtShortcuts, Working, Activating, ShortcutsOnly, PopupOnly, ClipboardStep
  <1>11. CASE Tick
    BY <1>11 DEF Tick, ClipboardStep
  <1>12. CASE UNCHANGED vars
    BY <1>12 DEF vars, ClipboardStep
  <1> QED
    BY <1>1, <1>2, <1>3, <1>5, <1>6, <1>7, <1>8, <1>9, <1>10, <1>11, <1>12 DEF Next

-----------------------------------------------------------------------------
(* The window in which the monitor is deaf                                 *)

WindowTypes ==
    /\ suppressLeft \in 0..Suppress /\ ownLeft \in 0..Suppress /\ cleared \in BOOLEAN
    /\ DOMAIN paste = Paste
    /\ \A t \in Paste : /\ {"at", "f", "left", "keys"} \subseteq DOMAIN paste[t]
                        /\ paste[t].left \in 0..Suppress

\* The window of a paste that writes, or wrote, is still open as long as that
\* paste needs it, unless one that failed has closed it.
WindowOfWrites ==
    /\ ownLeft <= suppressLeft \/ cleared
    /\ \A t \in Paste : paste[t].at = "write" => paste[t].left <= suppressLeft \/ cleared

(***************************************************************************)
(* The inductive invariant of the window that the pastes share: it is open *)
(* only for one of them, and for each that needs it.                       *)
(***************************************************************************)
WindowInv == WindowTypes /\ WindowOfWrites /\ DeafOnlyAroundPaste

LEMMA WindowKept ==
    ASSUME WindowInv, UNCHANGED <<suppressLeft, ownLeft, cleared, paste>>
    PROVE  WindowInv'
  BY DEF WindowInv, WindowTypes, WindowOfWrites, DeafOnlyAroundPaste

\* A step of paste t that neither opens nor closes the window.
LEMMA PasteLeavesWindow ==
    ASSUME WindowInv, NEW t \in Paste, UNCHANGED <<suppressLeft, cleared>>,
           DOMAIN paste' = Paste, \A u \in Paste \ {t} : paste'[u] = paste[u],
           {"at", "f", "left", "keys"} \subseteq DOMAIN paste'[t],
           paste'[t].left \in {0, paste[t].left}, paste'[t].at # "write",
           \/ ownLeft' = ownLeft /\ paste[t].at \notin {"write", "clear"}
           \/ ownLeft' = ownLeft /\ paste'[t].at = "clear" /\ paste'[t].left = paste[t].left
           \/ /\ paste[t].at = "write"
              /\ ownLeft' = IF paste[t].left > ownLeft THEN paste[t].left ELSE ownLeft
    PROVE  WindowInv'
  <1>0. /\ suppressLeft \in Nat /\ ownLeft \in Nat /\ paste[t].left \in Nat /\ Suppress \in Nat
        /\ \A u \in Paste : paste[u].left \in Nat
    BY DesktopAppAssumption DEF DesktopClipboardAssumption, WindowInv, WindowTypes
  <1>1. ownLeft' \in 0..Suppress /\ ownLeft <= ownLeft' /\ ownLeft' \in Nat
    BY <1>0 DEF WindowInv, WindowTypes
  <1>2. WindowTypes'
    BY <1>0, <1>1 DEF WindowInv, WindowTypes
  <1>3. WindowOfWrites'
    BY <1>0 DEF WindowInv, WindowOfWrites
  <1>4. DeafOnlyAroundPaste'
    <2> SUFFICES ASSUME suppressLeft > 0
                 PROVE  \/ suppressLeft <= ownLeft'
                        \/ \E u \in Paste : paste'[u].at \in {"write", "clear"} /\ suppressLeft <= paste'[u].left
      BY DEF DeafOnlyAroundPaste
    <2>1. CASE suppressLeft <= ownLeft
      BY <1>0, <1>1, <2>1
    <2>2. ASSUME NEW u \in Paste, paste[u].at \in {"write", "clear"}, suppressLeft <= paste[u].left
          PROVE  \/ suppressLeft <= ownLeft'
                 \/ \E v \in Paste : paste'[v].at \in {"write", "clear"} /\ suppressLeft <= paste'[v].left
      <3>1. CASE u # t
        BY <2>2, <3>1
      <3>2. CASE u = t
        BY <1>0, <2>2, <3>2
      <3> QED
        BY <3>1, <3>2
    <2> QED
      BY <2>1, <2>2 DEF WindowInv, DeafOnlyAroundPaste
  <1> QED
    BY <1>2, <1>3, <1>4 DEF WindowInv

\* What the window lemmas have in common.
LEMMA WindowFrom ==
    ASSUME NEW t \in Paste, WindowInv, DOMAIN paste' = Paste,
           \A u \in Paste \ {t} : paste'[u] = paste[u],
           {"at", "f", "left", "keys"} \subseteq DOMAIN paste'[t],
           paste'[t].left \in {0, Suppress}, suppressLeft' \in {0, Suppress},
           ownLeft' = ownLeft, cleared' \in BOOLEAN
    PROVE  WindowTypes'
  <1>1. Suppress \in 0..Suppress /\ 0 \in 0..Suppress
    BY DesktopAppAssumption DEF DesktopClipboardAssumption
  <1>2. paste'[t].left \in 0..Suppress /\ suppressLeft' \in 0..Suppress
    BY <1>1
  <1>3. ownLeft \in 0..Suppress /\ \A u \in Paste : /\ {"at", "f", "left", "keys"} \subseteq DOMAIN paste[u]
                                                  /\ paste[u].left \in 0..Suppress
    BY DEF WindowInv, WindowTypes
  <1>4. ASSUME NEW u \in Paste
        PROVE  /\ {"at", "f", "left", "keys"} \subseteq DOMAIN paste'[u]
               /\ paste'[u].left \in 0..Suppress
    <2>1. CASE u = t
      BY <1>2, <2>1
    <2>2. CASE u # t
      BY <1>3, <2>2
    <2> QED
      BY <2>1, <2>2
  <1> QED
    BY <1>2, <1>3, <1>4 DEF WindowTypes

LEMMA NoWindow ==
    ASSUME suppressLeft = 0, ownLeft = 0, cleared = FALSE, paste = [t \in Paste |-> IdlePaste]
    PROVE  WindowInv
  <1>1. 0 \in 0..Suppress
    BY DesktopAppAssumption DEF DesktopClipboardAssumption
  <1>2. /\ DOMAIN paste = Paste
        /\ \A t \in Paste : /\ {"at", "f", "left", "keys"} \subseteq DOMAIN paste[t]
                            /\ paste[t].left = 0 /\ paste[t].at = "idle"
    BY DEF IdlePaste
  <1>3. WindowTypes
    BY <1>1, <1>2 DEF WindowTypes
  <1>4. WindowOfWrites
    BY <1>2 DEF WindowOfWrites
  <1>5. DeafOnlyAroundPaste
    BY DEF DeafOnlyAroundPaste
  <1> QED
    BY <1>3, <1>4, <1>5 DEF WindowInv

LEMMA FreshWindow ==
    ASSUME suppressLeft' = 0, ownLeft' = 0, cleared' = FALSE, paste' = [t \in Paste |-> IdlePaste]
    PROVE  WindowInv'
  <1>1. 0 \in 0..Suppress
    BY DesktopAppAssumption DEF DesktopClipboardAssumption
  <1>2. /\ DOMAIN paste' = Paste
        /\ \A t \in Paste : /\ {"at", "f", "left", "keys"} \subseteq DOMAIN paste'[t]
                            /\ paste'[t].left = 0 /\ paste'[t].at = "idle"
    BY DEF IdlePaste
  <1>3. WindowTypes'
    BY <1>1, <1>2 DEF WindowTypes
  <1>4. WindowOfWrites'
    BY <1>2 DEF WindowOfWrites
  <1>5. DeafOnlyAroundPaste'
    BY DEF DeafOnlyAroundPaste
  <1> QED
    BY <1>3, <1>4, <1>5 DEF WindowInv

LEMMA OpenWindowSafe ==
    ASSUME WindowInv, NEW t \in Paste, OpenWindow(t)
    PROVE  WindowInv'
  <1>0. Suppress \in Nat
    BY DesktopAppAssumption DEF DesktopClipboardAssumption
  <1>1. /\ suppressLeft' = Suppress /\ ownLeft' = ownLeft /\ cleared' = FALSE
        /\ DOMAIN paste' = Paste /\ \A u \in Paste \ {t} : paste'[u] = paste[u]
        /\ {"at", "f", "left", "keys"} \subseteq DOMAIN paste'[t]
        /\ paste'[t].at = "write" /\ paste'[t].left = Suppress
    BY DEF OpenWindow, WindowInv, WindowTypes
  <1>2. WindowTypes'
    BY <1>1, WindowFrom
  <1>3. WindowOfWrites'
    <2>1. ownLeft' <= suppressLeft'
      BY <1>0, <1>1 DEF WindowInv, WindowTypes
    <2>2. \A u \in Paste : paste'[u].left <= suppressLeft'
      BY <1>0, <1>1 DEF WindowInv, WindowTypes
    <2> QED
      BY <2>1, <2>2 DEF WindowOfWrites
  <1>4. DeafOnlyAroundPaste'
    BY <1>0, <1>1 DEF DeafOnlyAroundPaste
  <1> QED
    BY <1>2, <1>3, <1>4 DEF WindowInv

LEMMA ClearWindowSafe ==
    ASSUME WindowInv, NEW t \in Paste, ClearWindow(t)
    PROVE  WindowInv'
  <1>0. Suppress \in Nat
    BY DesktopAppAssumption DEF DesktopClipboardAssumption
  <1>1. /\ suppressLeft' = 0 /\ ownLeft' = ownLeft
        /\ DOMAIN paste' = Paste /\ \A u \in Paste \ {t} : paste'[u] = paste[u]
        /\ {"at", "f", "left", "keys"} \subseteq DOMAIN paste'[t]
        /\ paste'[t].at = "idle" /\ paste'[t].left = 0
    BY DEF ClearWindow, WindowInv, WindowTypes, IdlePaste
  <1>2. cleared' = (cleared \/ ownLeft > 0 \/ \E u \in Paste \ {t} : paste[u].at = "write")
    BY DEF ClearWindow
  <1>a. cleared \in BOOLEAN /\ ownLeft \in Nat
    BY <1>0 DEF WindowInv, WindowTypes
  <1>b. cleared' \in BOOLEAN
    BY <1>2, <1>a
  <1>3. WindowTypes'
    BY <1>1, <1>b, WindowFrom
  <1>4. WindowOfWrites'
    <2>1. ownLeft' <= suppressLeft' \/ cleared'
      <3>1. CASE ownLeft > 0
        BY <1>2, <3>1
      <3>2. CASE ~(ownLeft > 0)
        BY <1>1, <1>a, <3>2
      <3> QED
        BY <3>1, <3>2
    <2>2. ASSUME NEW u \in Paste, paste'[u].at = "write"
          PROVE  cleared'
      BY <1>1, <1>2, <2>2
    <2> QED
      BY <2>1, <2>2 DEF WindowOfWrites
  <1>5. DeafOnlyAroundPaste'
    BY <1>1 DEF DeafOnlyAroundPaste
  <1> QED
    BY <1>3, <1>4, <1>5 DEF WindowInv

\* All clocks run at the same pace.
LEMMA TickWindow ==
    ASSUME WindowInv, ClipboardTick
    PROVE  WindowInv'
  <1>0. /\ Suppress \in Nat /\ suppressLeft \in Nat /\ ownLeft \in Nat
        /\ \A u \in Paste : paste[u].left \in Nat
    BY DesktopAppAssumption DEF DesktopClipboardAssumption, WindowInv, WindowTypes
  <1>1. /\ suppressLeft' = Less(suppressLeft) /\ ownLeft' = Less(ownLeft)
        /\ cleared' = (cleared /\ (ownLeft > 1 \/ \E t \in Paste : paste[t].at = "write"))
        /\ DOMAIN paste' = Paste
        /\ \A t \in Paste : /\ {"at", "f", "left", "keys"} \subseteq DOMAIN paste'[t]
                            /\ paste'[t].at = paste[t].at /\ paste'[t].left = Less(paste[t].left)
    BY DEF ClipboardTick, WindowInv, WindowTypes
  <1>2. /\ \A m, n \in Nat : m <= n => Less(m) <= Less(n)
        /\ \A m \in Nat : Less(m) \in Nat /\ Less(m) <= m /\ (m <= 1 <=> Less(m) = 0)
    BY DEF Less
  <1>3. WindowTypes'
    BY <1>0, <1>1, <1>2 DEF WindowInv, WindowTypes
  <1>4. WindowOfWrites'
    <2>1. Less(ownLeft) <= Less(suppressLeft) \/ cleared'
      <3>1. CASE ownLeft <= suppressLeft
        BY <1>0, <1>2, <3>1
      <3>2. CASE cleared /\ ownLeft > 1
        BY <1>1, <3>2
      <3>3. CASE ownLeft <= 1
        BY <1>0, <1>2, <3>3
      <3> QED
        BY <1>0, <3>1, <3>2, <3>3 DEF WindowInv, WindowOfWrites
    <2>2. ASSUME NEW t \in Paste, paste[t].at = "write"
          PROVE  Less(paste[t].left) <= Less(suppressLeft) \/ cleared'
      BY <1>0, <1>1, <1>2, <2>2 DEF WindowInv, WindowOfWrites
    <2> QED
      BY <1>1, <2>1, <2>2 DEF WindowOfWrites
  <1>5. DeafOnlyAroundPaste'
    <2> SUFFICES ASSUME Less(suppressLeft) > 0
                 PROVE  \/ Less(suppressLeft) <= Less(ownLeft)
                        \/ \E t \in Paste : paste[t].at \in {"write", "clear"}
                                              /\ Less(suppressLeft) <= Less(paste[t].left)
      BY <1>1 DEF DeafOnlyAroundPaste
    <2>1. suppressLeft > 0
      BY <1>0 DEF Less
    <2> QED
      BY <1>0, <1>2, <2>1 DEF WindowInv, DeafOnlyAroundPaste
  <1> QED
    BY <1>3, <1>4, <1>5 DEF WindowInv

LEMMA WindowStep ==
    ASSUME WindowInv, ClipboardStep
    PROVE  WindowInv'
  <1>0. Suppress \in Nat
    BY DesktopAppAssumption DEF DesktopClipboardAssumption
  <1>1. CASE UNCHANGED clipboardVars \/ StartMonitor \/ StopMonitor \/ MonitorJoined
             \/ MonitorThread \/ WatcherStops \/ StoreFails \/ WatcherDies
             \/ (\E c \in Clips : UserCopies(c)) \/ (\E p : SetCapturePause(p)) \/ PauseExpires
    <2>1. UNCHANGED <<suppressLeft, ownLeft, cleared, paste>>
      BY <1>1 DEF clipboardVars, StartMonitor, StopMonitor, MonitorJoined, MonitorThread,
         HearEvent, CheckPause, CheckMarker, ReadImage, ReadFiles, ReadText, StoreEntry,
         ClipboardRest, WatcherStops, StoreFails, WatcherDies, UserCopies, SetCapturePause,
         PauseExpires
    <2> QED
      BY <2>1, WindowKept
  <1>2. CASE FreshClipboard
    <2>1. suppressLeft' = 0 /\ ownLeft' = 0 /\ cleared' = FALSE /\ paste' = [t \in Paste |-> IdlePaste]
      BY <1>2 DEF FreshClipboard
    <2> QED
      BY <2>1, FreshWindow
  <1>3. ASSUME NEW t \in Paste, NEW f, BeginPaste(t, f) PROVE WindowInv'
    <2>1. /\ UNCHANGED <<suppressLeft, ownLeft, cleared>> /\ paste[t].at = "idle"
          /\ DOMAIN paste' = Paste /\ \A u \in Paste \ {t} : paste'[u] = paste[u]
          /\ {"at", "f", "left", "keys"} \subseteq DOMAIN paste'[t]
          /\ paste'[t].at = "window" /\ paste'[t].left = 0
      BY <1>3 DEF BeginPaste, WindowInv, WindowTypes, IdlePaste
    <2> QED
      BY <2>1, PasteLeavesWindow
  <1>4. ASSUME NEW t \in Paste, PasteAct(t) PROVE WindowInv'
    <2>1. CASE WriteClipboard(t)
      <3>1. /\ UNCHANGED <<suppressLeft, cleared>> /\ paste[t].at = "write"
            /\ ownLeft' = IF paste[t].left > ownLeft THEN paste[t].left ELSE ownLeft
            /\ DOMAIN paste' = Paste /\ \A u \in Paste \ {t} : paste'[u] = paste[u]
            /\ {"at", "f", "left", "keys"} \subseteq DOMAIN paste'[t]
            /\ paste'[t].at = "hide" /\ paste'[t].left = paste[t].left
        BY <2>1 DEF WriteClipboard, WindowInv, WindowTypes
      <3> QED
        BY <3>1, PasteLeavesWindow
    <2>2. CASE WriteFails(t)
      <3>1. /\ UNCHANGED <<suppressLeft, ownLeft, cleared>> /\ paste[t].at = "write"
            /\ DOMAIN paste' = Paste /\ \A u \in Paste \ {t} : paste'[u] = paste[u]
            /\ {"at", "f", "left", "keys"} \subseteq DOMAIN paste'[t]
            /\ paste'[t].at = "clear" /\ paste'[t].left = paste[t].left
        BY <2>2 DEF WriteFails, WindowInv, WindowTypes
      <3> QED
        BY <3>1, PasteLeavesWindow
    <2>3. CASE HideRequested(t) \/ HideRecorded(t) \/ Answered(t)
      <3>1. /\ UNCHANGED <<suppressLeft, ownLeft, cleared>> /\ paste[t].at \in {"hide", "flag", "delay"}
            /\ DOMAIN paste' = Paste /\ \A u \in Paste \ {t} : paste'[u] = paste[u]
            /\ {"at", "f", "left", "keys"} \subseteq DOMAIN paste'[t]
            /\ paste'[t].at \in {"flag", "delay", "idle"} /\ paste'[t].left \in {0, paste[t].left}
        BY <2>3 DEF HideRequested, HideRecorded, Answered, WindowInv, WindowTypes, IdlePaste
      <3> QED
        BY <3>1, PasteLeavesWindow
    <2> QED
      BY <1>4, <2>1, <2>2, <2>3, OpenWindowSafe, ClearWindowSafe DEF PasteAct
  <1> QED
    BY <1>1, <1>2, <1>3, <1>4, TickWindow
       DEF ClipboardStep, PasteEntry, PasteEntryPlaintext

LEMMA WindowStart ==
    ASSUME Init
    PROVE  WindowInv
  <1>1. /\ suppressLeft = 0 /\ ownLeft = 0 /\ cleared = FALSE
        /\ paste = [t \in Paste |-> IdlePaste]
    BY DEF Init, ClipboardInit
  <1> QED
    BY <1>1, NoWindow

\* The window, throughout.
THEOREM WindowAlways == Spec => []WindowInv
  <1>1. WindowInv /\ [Next]_vars => WindowInv'
    BY NextIsClipboardStep, WindowStep
  <1> QED
    BY <1>1, WindowStart, PTL DEF Spec

(***************************************************************************)
(* However the writes, failures and windows of any number of pastes        *)
(* overlap, the monitor is deaf only for one that is being written or was. *)
(***************************************************************************)
THEOREM DeafOnlyForPastes == Spec => []DeafOnlyAroundPaste
  <1>1. WindowInv => DeafOnlyAroundPaste
    BY DEF WindowInv
  <1> QED
    BY <1>1, WindowAlways, PTL

-----------------------------------------------------------------------------
(* What the monitor reads                                                  *)

Readable(b) == {k \in Formats : b.f[k] \notin {None, Bad}}

Got(b, S) == [k \in Formats |-> IF k \in S THEN b.f[k] ELSE None]

\* What a capture of b ends with.
Fits(b, got) ==
    IF Present(got) = {} THEN Faithful(b) = {} ELSE PayloadOf(got) \in Faithful(b)

LEMMA NothingGot ==
    ASSUME NEW b
    PROVE  NoFlavors = Got(b, {}) /\ Got(b, Readable(b) \cap {}) = Got(b, {})
  BY DEF NoFlavors, Got

LEMMA TextGot ==
    ASSUME NEW b, NEW S, NEW k \in Formats \ S
    PROVE  [Got(b, Readable(b) \cap S) EXCEPT ![k] = IF b.f[k] = Bad THEN None ELSE b.f[k]]
             = Got(b, Readable(b) \cap (S \cup {k}))
  BY DEF Got, Readable

LEMMA FaithfulText ==
    ASSUME NEW b, "image" \notin Readable(b), "files" \notin Readable(b)
    PROVE  Fits(b, Got(b, Readable(b) \cap TextFormats))
  <1>1. Readable(b) \cap TextFormats = Readable(b)
    BY DEF Readable, TextFormats, Formats
  <1>2. Present(Got(b, Readable(b))) = Readable(b)
    BY DEF Present, Got, Readable
  <1>3. Faithful(b) = IF Readable(b) = {} THEN {} ELSE {PayloadOf(Got(b, Readable(b)))}
    BY DEF Faithful, Readable, Got
  <1> QED
    BY <1>1, <1>2, <1>3 DEF Fits

LEMMA FaithfulImage ==
    ASSUME NEW b, "image" \in Readable(b)
    PROVE  Fits(b, [NoFlavors EXCEPT !["image"] = b.f["image"]])
  <1>1. [NoFlavors EXCEPT !["image"] = b.f["image"]] = Got(b, {"image"})
    BY DEF NoFlavors, Got, Formats
  <1>2. "image" \in Present(Got(b, {"image"}))
    BY DEF Present, Got, Readable, Formats
  <1>3. Faithful(b) = {PayloadOf(Got(b, {"image"}))}
    BY DEF Faithful, Readable, Got
  <1> QED
    BY <1>1, <1>2, <1>3 DEF Fits

LEMMA FaithfulFiles ==
    ASSUME NEW b, "image" \notin Readable(b), "files" \in Readable(b)
    PROVE  /\ Fits(b, [NoFlavors EXCEPT !["files"] = b.f["files"]])
           /\ Picture[b.f["files"]] # None =>
                Fits(b, [NoFlavors EXCEPT !["image"] = Picture[b.f["files"]]])
  <1> DEFINE p == [NoFlavors EXCEPT !["image"] = Picture[b.f["files"]]]
  <1>1. [NoFlavors EXCEPT !["files"] = b.f["files"]] = Got(b, {"files"})
    BY DEF NoFlavors, Got, Formats
  <1>2. "files" \in Present(Got(b, {"files"}))
    BY DEF Present, Got, Readable, Formats
  <1>3. Picture[b.f["files"]] # None => "image" \in Present(p)
    BY DEF Present, NoFlavors, Formats
  <1>4. Faithful(b) = {PayloadOf(Got(b, {"files"}))} \cup
                      (IF Picture[b.f["files"]] = None THEN {} ELSE {PayloadOf(p)})
    BY DEF Faithful, Readable, Got
  <1> HIDE DEF p
  <1> QED
    BY <1>1, <1>2, <1>3, <1>4 DEF Fits, p

LEMMA NothingToKeep == Faithful(EmptyBoard) = {}
  <1>1. \A k \in Formats : EmptyBoard.f[k] = None
    BY DEF EmptyBoard, NoFlavors
  <1>2. Readable(EmptyBoard) = {}
    BY <1>1 DEF Readable
  <1> QED
    BY <1>2 DEF Faithful, Readable, Formats

-----------------------------------------------------------------------------
(* The monitor's thread                                                    *)

WorkerShape ==
    /\ {"at", "got", "touched", "own", "excused"} \subseteq DOMAIN worker
    /\ worker.touched \in BOOLEAN
    /\ worker.at = "pause" => worker.touched = FALSE /\ worker.got = NoFlavors
    /\ worker.at = "none" => worker.touched = FALSE

\* A callback that gets past the window is excused.
Excused == worker.at \in Reading \cup {"pause", "store"} => worker.excused = TRUE

\* What a reading that nobody disturbs has learnt of the clipboard.
ReadSoFar ==
    worker.at \in Reading \cup {"store"} /\ worker.touched = FALSE =>
      /\ worker.at # "marker" => ~board.private
      /\ worker.at \in {"files"} \cup TextFormats => "image" \notin Readable(board)
      /\ worker.at \in TextFormats => "files" \notin Readable(board)
      /\ worker.at \in {"marker", "image", "files", "text"} => worker.got = NoFlavors
      /\ worker.at = "html" => worker.got = Got(board, Readable(board) \cap {"text"})
      /\ worker.at = "rtf" => worker.got = Got(board, Readable(board) \cap {"text", "html"})
      /\ worker.at = "store" => Fits(board, worker.got)

\* The inductive invariant of the monitor's thread.
WorkerInv == WorkerShape /\ Excused /\ ReadSoFar

LEMMA IdleSafe ==
    ASSUME NEW at \in {"none", "wait"}, worker' = IdleWorker(at)
    PROVE  WorkerInv' /\ worker'.at = at /\ worker'.touched = FALSE
  BY DEF IdleWorker, WorkerInv, WorkerShape, Excused, ReadSoFar, Reading

LEMMA DisturbedSafe ==
    ASSUME WorkerInv, worker' = Disturbed
    PROVE  WorkerInv' /\ worker'.at = worker.at
  <1>1. /\ worker'.at = worker.at /\ worker'.got = worker.got /\ worker'.excused = worker.excused
        /\ {"at", "got", "touched", "own", "excused"} \subseteq DOMAIN worker'
        /\ worker'.touched = (worker.touched \/ worker.at \in Reading \cup {"store"})
    BY DEF Disturbed, WorkerInv, WorkerShape
  <1>2. worker'.touched \in BOOLEAN
    BY <1>1
  <1>3. worker.at \in Reading \cup {"store"} => worker'.touched = TRUE
    BY <1>1
  <1>4. worker.at \in {"pause", "none"} => worker'.touched = FALSE
    BY <1>1 DEF Reading, WorkerInv, WorkerShape
  <1> QED
    BY <1>1, <1>2, <1>3, <1>4 DEF WorkerInv, WorkerShape, Excused, ReadSoFar

LEMMA HearEventSafe ==
    ASSUME WindowInv, HearEvent
    PROVE  WorkerInv'
  <1>1. CASE suppressLeft > 0
    BY <1>1, IdleSafe DEF HearEvent, Skip
  <1>2. CASE ~(suppressLeft > 0)
    <2>1. ownLeft = 0 \/ cleared
      BY <1>2, DesktopAppAssumption DEF DesktopClipboardAssumption, WindowInv, WindowTypes,
         WindowOfWrites
    <2>2. worker' = [IdleWorker("pause") EXCEPT !.excused = ownLeft = 0 \/ cleared]
      BY <1>2 DEF HearEvent
    <2>3. (ownLeft = 0 \/ cleared) = TRUE
      BY <2>1
    <2>4. worker' = [IdleWorker("pause") EXCEPT !.excused = TRUE]
      BY <2>2, <2>3
    <2>5. /\ worker'.at = "pause" /\ worker'.got = NoFlavors /\ worker'.touched = FALSE
          /\ worker'.excused = TRUE
          /\ {"at", "got", "touched", "own", "excused"} \subseteq DOMAIN worker'
      BY <2>4 DEF IdleWorker
    <2> QED
      BY <2>5 DEF WorkerInv, WorkerShape, Excused, ReadSoFar, Reading
  <1> QED
    BY <1>1, <1>2

\* A step of a reading, but for what it learns.
LEMMA ReadOn ==
    ASSUME WorkerInv, worker.at \in Reading \cup {"pause"}, worker'.at \in Reading \cup {"store"},
           UNCHANGED board, worker'.touched = worker.touched, worker'.excused = worker.excused,
           {"at", "got", "touched", "own", "excused"} \subseteq DOMAIN worker',
           worker.touched = FALSE => ReadSoFar'
    PROVE  WorkerInv'
  BY DEF WorkerInv, WorkerShape, Excused, ReadSoFar, Reading

LEMMA CheckPauseSafe ==
    ASSUME WorkerInv, CheckPause
    PROVE  WorkerInv'
  <1>1. CASE capturePause # "Active"
    BY <1>1, IdleSafe DEF CheckPause, Skip
  <1>2. CASE capturePause = "Active"
    <2>1. /\ worker.at = "pause" /\ UNCHANGED board
          /\ worker'.at = "marker" /\ worker'.got = worker.got
          /\ worker'.touched = worker.touched /\ worker'.excused = worker.excused
          /\ {"at", "got", "touched", "own", "excused"} \subseteq DOMAIN worker'
      BY <1>2 DEF CheckPause, ClipboardRest, WorkerInv, WorkerShape
    <2>2. ReadSoFar'
      BY <2>1 DEF ReadSoFar, WorkerInv, WorkerShape, TextFormats
    <2> QED
      BY <2>1, <2>2, ReadOn DEF Reading
  <1> QED
    BY <1>1, <1>2

LEMMA CheckMarkerSafe ==
    ASSUME WorkerInv, CheckMarker
    PROVE  WorkerInv'
  <1>1. CASE board.private
    BY <1>1, IdleSafe DEF CheckMarker, Skip
  <1>2. CASE ~board.private
    <2>1. /\ worker.at = "marker" /\ UNCHANGED board
          /\ worker'.at = "image" /\ worker'.got = worker.got
          /\ worker'.touched = worker.touched /\ worker'.excused = worker.excused
          /\ {"at", "got", "touched", "own", "excused"} \subseteq DOMAIN worker'
      BY <1>2 DEF CheckMarker, ClipboardRest, WorkerInv, WorkerShape
    <2>2. worker.touched = FALSE => ReadSoFar'
      BY <1>2, <2>1 DEF ReadSoFar, WorkerInv, TextFormats, Reading
    <2> QED
      BY <2>1, <2>2, ReadOn DEF Reading
  <1> QED
    BY <1>1, <1>2

LEMMA ReadImageSafe ==
    ASSUME WorkerInv, ReadImage
    PROVE  WorkerInv'
  <1>1. /\ worker.at = "image" /\ UNCHANGED board
        /\ worker'.at \in {"files", "store"}
        /\ worker'.touched = worker.touched /\ worker'.excused = worker.excused
        /\ {"at", "got", "touched", "own", "excused"} \subseteq DOMAIN worker'
    BY DEF ReadImage, ClipboardRest, WorkerInv, WorkerShape
  <1>2. ASSUME worker.touched = FALSE PROVE ReadSoFar'
    <2>1. worker.got = NoFlavors /\ ~board.private
      BY <1>1, <1>2 DEF WorkerInv, ReadSoFar, Reading
    <2>2. CASE board.f["image"] \in {None, Bad}
      <3>1. worker'.at = "files" /\ worker'.got = worker.got
        BY <2>2 DEF ReadImage, WorkerInv, WorkerShape
      <3>2. "image" \notin Readable(board)
        BY <2>2 DEF Readable
      <3> QED
        BY <1>1, <2>1, <3>1, <3>2 DEF ReadSoFar, TextFormats
    <2>3. CASE board.f["image"] \notin {None, Bad}
      <3>1. /\ worker'.at = "store"
            /\ worker'.got = [NoFlavors EXCEPT !["image"] = board.f["image"]]
        BY <2>1, <2>3 DEF ReadImage, WorkerInv, WorkerShape
      <3>2. "image" \in Readable(board)
        BY <2>3 DEF Readable, Formats
      <3>3. Fits(board, worker'.got)
        BY <3>1, <3>2, FaithfulImage
      <3> QED
        BY <1>1, <2>1, <3>1, <3>3 DEF ReadSoFar, TextFormats
    <2> QED
      BY <2>2, <2>3
  <1> QED
    BY <1>1, <1>2, ReadOn DEF Reading

LEMMA ReadFilesSafe ==
    ASSUME WorkerInv, ReadFiles
    PROVE  WorkerInv'
  <1> DEFINE files == board.f["files"]
  <1>0. worker.at = "files" /\ UNCHANGED board
    BY DEF ReadFiles, ClipboardRest
  <1>1. \/ /\ files \in {None, Bad}
           /\ worker' = [worker EXCEPT !.at = "text"]
        \/ /\ files \notin {None, Bad}
           /\ worker' = [worker EXCEPT !.at = "store", !.got["files"] = files]
        \/ /\ files \notin {None, Bad} /\ Picture[files] # None
           /\ worker' = [worker EXCEPT !.at = "store", !.got["image"] = Picture[files]]
    BY DEF ReadFiles
  <1>2. /\ worker'.at \in {"text", "store"}
        /\ worker'.touched = worker.touched /\ worker'.excused = worker.excused
        /\ {"at", "got", "touched", "own", "excused"} \subseteq DOMAIN worker'
    BY <1>1 DEF WorkerInv, WorkerShape
  <1>3. ASSUME worker.touched = FALSE PROVE ReadSoFar'
    <2>1. worker.got = NoFlavors /\ ~board.private /\ "image" \notin Readable(board)
      BY <1>0, <1>3 DEF WorkerInv, ReadSoFar, Reading
    <2>2. CASE files \in {None, Bad}
      <3>1. worker'.at = "text" /\ worker'.got = worker.got
        BY <1>1, <2>2 DEF WorkerInv, WorkerShape
      <3>2. "files" \notin Readable(board)
        BY <2>2 DEF Readable
      <3> QED
        BY <1>0, <2>1, <3>1, <3>2 DEF ReadSoFar, TextFormats
    <2>3. CASE files \notin {None, Bad}
      <3>1. "files" \in Readable(board)
        BY <2>3 DEF Readable, Formats
      <3>2. \/ /\ worker'.at = "store"
               /\ worker'.got = [NoFlavors EXCEPT !["files"] = files]
            \/ /\ worker'.at = "store" /\ Picture[files] # None
               /\ worker'.got = [NoFlavors EXCEPT !["image"] = Picture[files]]
        BY <1>1, <2>1, <2>3 DEF WorkerInv, WorkerShape
      <3>3. Fits(board, worker'.got)
        BY <2>1, <3>1, <3>2, FaithfulFiles
      <3> QED
        BY <1>0, <2>1, <3>2, <3>3 DEF ReadSoFar, TextFormats
    <2> QED
      BY <2>2, <2>3
  <1> QED
    BY <1>0, <1>2, <1>3, ReadOn DEF Reading

LEMMA ReadTextSafe ==
    ASSUME WorkerInv, NEW k \in TextFormats, ReadText(k)
    PROVE  WorkerInv'
  <1> DEFINE got == [worker.got EXCEPT ![k] = IF board.f[k] = Bad THEN None ELSE board.f[k]]
  <1>1. /\ worker.at = k /\ UNCHANGED board /\ worker'.got = got
        /\ worker'.at = CASE k = "text" -> "html" [] k = "html" -> "rtf" [] OTHER -> "store"
        /\ worker'.touched = worker.touched /\ worker'.excused = worker.excused
        /\ {"at", "got", "touched", "own", "excused"} \subseteq DOMAIN worker'
    BY DEF ReadText, ClipboardRest, WorkerInv, WorkerShape
  <1>2. ASSUME worker.touched = FALSE PROVE ReadSoFar'
    <2>1. /\ ~board.private /\ "image" \notin Readable(board) /\ "files" \notin Readable(board)
          /\ k = "text" => worker.got = NoFlavors
          /\ k = "html" => worker.got = Got(board, Readable(board) \cap {"text"})
          /\ k = "rtf" => worker.got = Got(board, Readable(board) \cap {"text", "html"})
      BY <1>1, <1>2 DEF WorkerInv, ReadSoFar, Reading, TextFormats
    <2>2. CASE k = "text"
      <3>1. worker'.at = "html" /\ worker.got = Got(board, Readable(board) \cap {})
        BY <1>1, <2>1, <2>2, NothingGot
      <3>2. worker'.got = Got(board, Readable(board) \cap ({} \cup {"text"}))
        BY <1>1, <2>2, <3>1, TextGot DEF Formats
      <3>3. {} \cup {"text"} = {"text"}
        OBVIOUS
      <3> QED
        BY <1>1, <2>1, <3>1, <3>2, <3>3 DEF ReadSoFar, TextFormats
    <2>3. CASE k = "html"
      <3>0. "html" \in Formats \ {"text"}
        BY DEF Formats
      <3>a. worker'.got = [Got(board, Readable(board) \cap {"text"}) EXCEPT
                             !["html"] = IF board.f["html"] = Bad THEN None ELSE board.f["html"]]
        BY <1>1, <2>1, <2>3
      <3>1. worker'.got = Got(board, Readable(board) \cap ({"text"} \cup {"html"}))
        BY <3>0, <3>a, TextGot
      <3>2. {"text"} \cup {"html"} = {"text", "html"}
        OBVIOUS
      <3> QED
        BY <1>1, <2>1, <2>3, <3>1, <3>2 DEF ReadSoFar, TextFormats
    <2>4. CASE k = "rtf"
      <3>0. "rtf" \in Formats \ {"text", "html"}
        BY DEF Formats
      <3>a. worker'.got = [Got(board, Readable(board) \cap {"text", "html"}) EXCEPT
                             !["rtf"] = IF board.f["rtf"] = Bad THEN None ELSE board.f["rtf"]]
        BY <1>1, <2>1, <2>4
      <3>1. worker'.got = Got(board, Readable(board) \cap ({"text", "html"} \cup {"rtf"}))
        BY <3>0, <3>a, TextGot
      <3>2. {"text", "html"} \cup {"rtf"} = TextFormats
        BY DEF TextFormats
      <3>3. Fits(board, worker'.got)
        BY <2>1, <3>1, <3>2, FaithfulText
      <3> QED
        BY <1>1, <2>1, <2>4, <3>3 DEF ReadSoFar, TextFormats
    <2> QED
      BY <2>2, <2>3, <2>4 DEF TextFormats
  <1> HIDE DEF got
  <1> QED
    BY <1>1, <1>2, ReadOn DEF Reading, TextFormats

LEMMA StoreEntrySafe ==
    ASSUME StoreEntry
    PROVE  worker' = IdleWorker("wait") /\ UNCHANGED <<board, events, phase>>
  BY DEF StoreEntry, Skip, ClipboardRest

LEMMA WorkerStep ==
    ASSUME WindowInv, WorkerInv, ClipboardStep
    PROVE  WorkerInv'
  <1>1. CASE UNCHANGED <<worker, board>>
    BY <1>1 DEF WorkerInv, WorkerShape, Excused, ReadSoFar
  <1>2. CASE StartMonitor \/ WatcherStops \/ StoreFails \/ WatcherDies \/ FreshClipboard \/ StoreEntry
    <2>1. worker' \in {IdleWorker("none"), IdleWorker("wait")} \/ UNCHANGED <<worker, board>>
      BY <1>2, StoreEntrySafe DEF StartMonitor, WatcherStops, StoreFails, WatcherDies,
         FreshClipboard, Skip
    <2> QED
      BY <1>1, <2>1, IdleSafe
  <1>3. CASE UNCHANGED clipboardVars \/ StopMonitor \/ MonitorJoined \/ (\E p : SetCapturePause(p))
             \/ PauseExpires \/ ClipboardTick
    BY <1>1, <1>3 DEF clipboardVars, StopMonitor, MonitorJoined, SetCapturePause, PauseExpires,
       ClipboardTick
  <1>4. ASSUME NEW t \in Paste, (\E f : BeginPaste(t, f)) \/ PasteAct(t)
        PROVE  WorkerInv'
    <2>1. UNCHANGED <<worker, board>> \/ worker' = Disturbed
      BY <1>4 DEF BeginPaste, PasteAct, OpenWindow, WriteClipboard, WriteFails, ClearWindow,
         HideRequested, HideRecorded, Answered
    <2> QED
      BY <1>1, <2>1, DisturbedSafe
  <1>5. ASSUME NEW c \in Clips, UserCopies(c)
        PROVE  WorkerInv'
    BY <1>5, DisturbedSafe DEF UserCopies
  <1>6. CASE MonitorThread
    BY <1>2, <1>6, HearEventSafe, CheckPauseSafe, CheckMarkerSafe, ReadImageSafe, ReadFilesSafe,
       ReadTextSafe DEF MonitorThread
  <1> QED
    BY <1>2, <1>3, <1>4, <1>5, <1>6 DEF ClipboardStep, PasteEntry, PasteEntryPlaintext

LEMMA WorkerStart ==
    ASSUME Init
    PROVE  WorkerInv
  <1>1. worker = IdleWorker("none")
    BY DEF Init, ClipboardInit
  <1> QED
    BY <1>1 DEF IdleWorker, WorkerInv, WorkerShape, Excused, ReadSoFar, Reading

\* The reading, throughout.
THEOREM WorkerAlways == Spec => [](WindowInv /\ WorkerInv)
  <1>1. WindowInv /\ WorkerInv /\ [Next]_vars => WindowInv' /\ WorkerInv'
    BY NextIsClipboardStep, WindowStep, WorkerStep
  <1>2. Init => WindowInv /\ WorkerInv
    BY WindowStart, WorkerStart
  <1> QED
    BY <1>1, <1>2, PTL DEF Spec

(***************************************************************************)
(* Whatever pastes overlap and however notifications are doubled, a row    *)
(* that this application wrote is not captured from within the window of   *)
(* that write.                                                             *)
(***************************************************************************)
THEOREM OwnWritesStayOut == Spec => []OwnWriteNotCaptured
  <1>1. WorkerInv => OwnWriteNotCaptured
    BY DEF WorkerInv, Excused, OwnWriteNotCaptured
  <1> QED
    BY <1>1, WorkerAlways, PTL

(***************************************************************************)
(* Whatever formats are offered, broken or marked, a capture that nobody   *)
(* disturbs stores the best payload there is, and no secret.               *)
(***************************************************************************)
THEOREM CapturesAreFaithful == Spec => []UndisturbedReadIsFaithful
  <1>1. WorkerInv => UndisturbedReadIsFaithful
    <2> SUFFICES ASSUME WorkerInv, worker.at = "store", ~worker.touched
                 PROVE  ~board.private /\ Fits(board, worker.got)
      BY DEF UndisturbedReadIsFaithful, Fits
    <2>1. worker.touched = FALSE
      BY DEF WorkerInv, WorkerShape
    <2> QED
      BY <2>1 DEF WorkerInv, ReadSoFar, TextFormats
  <1> QED
    BY <1>1, WorkerAlways, PTL

-----------------------------------------------------------------------------
(* What the user copied                                                    *)

(***************************************************************************)
(* The inductive invariant of UserCopyKept: nothing is on the clipboard    *)
(* before the monitor runs, and whoever disturbs a reading announces it.   *)
(***************************************************************************)
KeptInv ==
    /\ events \in Nat
    /\ phase = "starting" => board = EmptyBoard /\ worker.at = "none" /\ events = 0
    /\ worker.touched = TRUE => events > 0
    /\ UserCopyKept

\* The clipboard is as it was, and the monitor neither ends a capture nor
\* gets over a notification.
LEMMA NothingNewToKeep ==
    ASSUME KeptInv, UNCHANGED <<board, events, missed, rows>>,
           phase' = "starting" => phase = "starting" /\ worker' = worker,
           worker'.touched = worker.touched \/ worker'.touched = FALSE,
           worker'.at = "wait" => worker.at = "wait"
    PROVE  KeptInv'
  BY DEF KeptInv, UserCopyKept, Stored

\* Somebody takes the clipboard over and says so.
LEMMA Announced ==
    ASSUME KeptInv, WorkerInv, NEW n \in Nat \ {0}, Notify(n), worker' = Disturbed, phase # "starting",
           UNCHANGED phase
    PROVE  KeptInv'
  <1>1. worker'.at = worker.at /\ (worker.at = "none" => worker'.touched = worker.touched)
    BY DEF Disturbed, WorkerInv, WorkerShape, Reading
  <1>2. CASE worker.at = "none"
    <2>1. events' = 0 /\ worker'.touched = FALSE
      BY <1>1, <1>2 DEF Notify, WorkerInv, WorkerShape
    <2> QED
      BY <1>1, <1>2, <2>1 DEF KeptInv, UserCopyKept
  <1>3. CASE worker.at # "none"
    <2>1. events' \in Nat /\ events' > 0
      BY <1>3 DEF Notify, KeptInv
    <2> QED
      BY <1>1, <2>1 DEF KeptInv, UserCopyKept
  <1> QED
    BY <1>2, <1>3

\* The callback ends, for a reason that excuses it or with nothing to store.
LEMMA Skipped ==
    ASSUME KeptInv, UNCHANGED <<board, phase>>, phase # "starting", events' \in Nat,
           worker' = IdleWorker("wait"),
           \/ missed' \in {"deaf", "paused", "refused"}
           \/ board.private \/ Faithful(board) = {} \/ events' > 0
           \/ \E p \in Faithful(board) : Stored(p)'
    PROVE  KeptInv'
  <1>1. worker'.touched = FALSE /\ worker'.at = "wait"
    BY DEF IdleWorker
  <1> QED
    BY <1>1 DEF KeptInv, UserCopyKept

LEMMA StoreEntryKept ==
    ASSUME KeptInv, WorkerInv, StoreEntry
    PROVE  KeptInv'
  <1>1. worker' = IdleWorker("wait") /\ UNCHANGED <<board, events, phase>> /\ worker.at = "store"
        /\ phase # "starting"
    BY StoreEntrySafe DEF StoreEntry, KeptInv
  <1>2. CASE worker.touched = TRUE
    BY <1>1, <1>2, Skipped DEF KeptInv
  <1>3. CASE worker.touched = FALSE
    <2>1. Fits(board, worker.got)
      BY <1>1, <1>3 DEF WorkerInv, ReadSoFar
    <2>2. CASE Present(worker.got) = {}
      BY <1>1, <2>1, <2>2, Skipped DEF Fits, KeptInv
    <2>3. CASE Present(worker.got) # {}
      <3> DEFINE p == PayloadOf(worker.got)
      <3>1. p \in Faithful(board)
        BY <2>1, <2>3 DEF Fits
      <3>2. rows' = rows \cup {p} \/ (Stored(p) /\ rows' = rows)
        BY <2>3 DEF StoreEntry
      <3>3. \E q \in rows' : PayloadHash(q) = PayloadHash(p)
        BY <3>2 DEF Stored
      <3>4. \E r \in Faithful(board) : Stored(r)'
        BY <3>1, <3>3 DEF Stored
      <3> QED
        BY <1>1, <3>4, Skipped DEF KeptInv
    <2> QED
      BY <2>2, <2>3
  <1> QED
    BY <1>2, <1>3 DEF WorkerInv, WorkerShape

LEMMA MonitorKept ==
    ASSUME KeptInv, WorkerInv, MonitorThread
    PROVE  KeptInv'
  <1>0. worker.at # "none" /\ phase # "starting" /\ UNCHANGED <<board, phase>>
    BY DEF MonitorThread, HearEvent, CheckPause, CheckMarker, ReadImage, ReadFiles, ReadText,
       TextFormats, StoreEntry, ClipboardRest, KeptInv
  <1>1. CASE HearEvent
    <2>1. events' \in Nat
      BY <1>1 DEF HearEvent, KeptInv
    <2>2. CASE suppressLeft > 0
      BY <1>0, <1>1, <2>1, <2>2, Skipped DEF HearEvent, Skip
    <2>3. CASE ~(suppressLeft > 0)
      <3>1. worker'.at = "pause" /\ worker'.touched = FALSE
        BY <1>1, <2>3 DEF HearEvent, IdleWorker
      <3> QED
        BY <1>0, <2>1, <3>1 DEF KeptInv, UserCopyKept
    <2> QED
      BY <2>2, <2>3
  <1>2. CASE CheckPause /\ capturePause # "Active"
    BY <1>0, <1>2, Skipped DEF CheckPause, Skip, KeptInv
  <1>3. CASE CheckMarker /\ board.private
    BY <1>0, <1>3, Skipped DEF CheckMarker, Skip, KeptInv
  <1>4. CASE \/ CheckPause /\ capturePause = "Active"
             \/ CheckMarker /\ ~board.private
             \/ ReadImage \/ ReadFiles \/ \E k \in TextFormats : ReadText(k)
    <2>1. UNCHANGED <<events, missed, rows>>
      BY <1>4 DEF CheckPause, CheckMarker, ReadImage, ReadFiles, ReadText
    <2>2. worker'.at # "wait" /\ worker'.touched = worker.touched
      BY <1>4 DEF CheckPause, CheckMarker, ReadImage, ReadFiles, ReadText, WorkerInv, WorkerShape
    <2> QED
      BY <1>0, <2>1, <2>2, NothingNewToKeep
  <1> QED
    BY <1>1, <1>2, <1>3, <1>4, StoreEntryKept DEF MonitorThread

LEMMA PasteKept ==
    ASSUME KeptInv, WorkerInv, NEW t \in Paste, Running, PasteAct(t)
    PROVE  KeptInv'
  <1>1. CASE WriteClipboard(t)
    <2>1. PICK n \in 1..2 : Notify(n)
      BY <1>1 DEF WriteClipboard
    <2> QED
      BY <1>1, <2>1, Announced DEF WriteClipboard, PasteRest, Running
  <1>2. CASE ~WriteClipboard(t)
    <2>1. UNCHANGED <<board, events, missed, rows, phase, worker>>
      BY <1>2 DEF PasteAct, OpenWindow, WriteFails, ClearWindow, HideRequested, HideRecorded,
         Answered, PasteRest
    <2> QED
      BY <2>1, NothingNewToKeep
  <1> QED
    BY <1>1, <1>2

LEMMA KeptStep ==
    ASSUME KeptInv, WorkerInv, ClipboardStep
    PROVE  KeptInv'
  <1>1. CASE UNCHANGED <<board, events, missed, rows, worker>> /\ (phase' = "starting" => phase = "starting")
    BY <1>1, NothingNewToKeep
  <1>2. CASE UNCHANGED clipboardVars \/ StopMonitor \/ MonitorJoined \/ (\E p : SetCapturePause(p))
             \/ PauseExpires \/ ClipboardTick
    BY <1>1, <1>2 DEF clipboardVars, StopMonitor, MonitorJoined, SetCapturePause, PauseExpires,
       ClipboardTick
  <1>8. ASSUME NEW t \in Paste, NEW f, BeginPaste(t, f)
        PROVE  KeptInv'
    BY <1>1, <1>8 DEF BeginPaste, PasteRest
  <1>3. CASE StartMonitor
    <2>1. phase' = "running" /\ UNCHANGED <<board, events>> /\ board = EmptyBoard /\ events = 0
          /\ (worker' = worker \/ worker' = IdleWorker("wait"))
      BY <1>3 DEF StartMonitor, KeptInv
    <2>2. worker'.touched = worker.touched \/ worker'.touched = FALSE
      BY <2>1 DEF IdleWorker
    <2> QED
      BY <2>1, <2>2, NothingToKeep DEF KeptInv, UserCopyKept
  <1>4. CASE FreshClipboard
    BY <1>4 DEF FreshClipboard, KeptInv, UserCopyKept, IdleWorker
  <1>5. CASE WatcherStops \/ WatcherDies
    <2>1. /\ worker' = IdleWorker("none") /\ events' = 0 /\ UNCHANGED phase /\ phase # "starting"
      BY <1>5 DEF WatcherStops, WatcherDies, KeptInv
    <2> QED
      BY <2>1 DEF KeptInv, UserCopyKept, IdleWorker
  <1>6. CASE StoreFails
    BY <1>6, Skipped DEF StoreFails, Skip, ClipboardRest, KeptInv
  <1>7. ASSUME NEW c \in Clips, UserCopies(c)
        PROVE  KeptInv'
    BY <1>7, Announced DEF UserCopies
  <1> QED
    BY <1>2, <1>3, <1>4, <1>5, <1>6, <1>7, <1>8, MonitorKept, PasteKept
       DEF ClipboardStep, PasteEntry, PasteEntryPlaintext

LEMMA KeptStart ==
    ASSUME Init
    PROVE  KeptInv
  <1>1. worker = IdleWorker("none") /\ events = 0 /\ board = EmptyBoard /\ phase = "starting"
    BY DEF Init, ClipboardInit
  <1> QED
    BY <1>1 DEF IdleWorker, KeptInv, UserCopyKept

(***************************************************************************)
(* Once the monitor has caught up, what the user copied last is in the     *)
(* history unless one of the reasons that UserCopyKept names stood in the  *)
(* way: no interleaving of copies, reads, pastes, pauses and notifications *)
(* loses a copy in silence.                                                *)
(***************************************************************************)
THEOREM UserCopiesKept == Spec => []UserCopyKept
  <1>1. KeptInv /\ WorkerInv /\ [Next]_vars => KeptInv'
    BY NextIsClipboardStep, KeptStep
  <1>2. KeptInv => UserCopyKept
    BY DEF KeptInv
  <1> QED
    BY <1>1, <1>2, KeptStart, WorkerAlways, PTL DEF Spec

-----------------------------------------------------------------------------
(* Types                                                                   *)

WorkerTyped ==
    /\ worker.at \in Reading \cup {"none", "wait", "pause", "store"}
    /\ DOMAIN worker.got = Formats
    /\ worker.touched \in BOOLEAN /\ worker.own \in BOOLEAN /\ worker.excused \in BOOLEAN

RowsTyped ==
    /\ \A p \in rows : p.type \in Formats /\ DOMAIN p.f = Formats
    /\ rows # {} => recent \in rows

PastesTyped ==
    \A t \in Paste :
      /\ paste[t].at \in {"idle", "window", "write", "clear", "hide", "flag", "delay"}
      /\ DOMAIN paste[t].f = Formats
      /\ paste[t].left \in 0..Suppress /\ paste[t].keys \in 0..KeyDelay

\* The rest of ClipboardTypeOK.
ClipboardTyped ==
    /\ board.private \in BOOLEAN /\ board.by \in {"user", "app"} /\ DOMAIN board.f = Formats
    /\ events \in 0..MaxQueue
    /\ monitor \in [kept : BOOLEAN, status : {"Stopped", "Watching", "Failed"}]
    /\ phase \in {"starting", "running", "stopping", "stopped"}
    /\ capturePause \in {"Active", "Until", "Indefinite"}
    /\ missed \in {"no", "deaf", "paused", "private", "unreadable", "refused"}

LEMMA ClipboardParts ==
    WindowInv => (ClipboardTypeOK <=> WorkerTyped /\ RowsTyped /\ PastesTyped /\ ClipboardTyped)
  BY DEF WindowInv, WindowTypes, ClipboardTypeOK, WorkerTyped, RowsTyped, PastesTyped,
     ClipboardTyped

ClipboardTypes == WorkerTyped /\ RowsTyped /\ PastesTyped /\ ClipboardTyped

LEMMA BoundsAreNumbers ==
    /\ Suppress \in Nat /\ KeyDelay \in Nat /\ MaxQueue \in Nat /\ 0 \in 0..Suppress
    /\ 0 \in 0..KeyDelay /\ 0 \in 0..MaxQueue /\ Suppress \in 0..Suppress
    /\ KeyDelay \in 0..KeyDelay
  BY DesktopAppAssumption DEF DesktopClipboardAssumption

LEMMA IdleTyped ==
    ASSUME NEW at \in {"none", "wait", "pause"}
    PROVE  LET w == IdleWorker(at) IN
           /\ w.at = at /\ DOMAIN w.got = Formats
           /\ w.touched = FALSE /\ w.own = FALSE /\ w.excused = FALSE
  BY DEF IdleWorker, NoFlavors

LEMMA DisturbedTyped ==
    ASSUME WorkerTyped, WorkerInv, worker' = Disturbed
    PROVE  WorkerTyped'
  <1>1. /\ worker'.at = worker.at /\ worker'.got = worker.got
        /\ worker'.own = worker.own /\ worker'.excused = worker.excused
        /\ worker'.touched \in BOOLEAN
    BY DEF Disturbed, WorkerInv, WorkerShape
  <1> QED
    BY <1>1 DEF WorkerTyped

\* What a row is written back as has the five formats.
LEMMA FlavorsWritten ==
    ASSUME RowsTyped, NEW t, NEW p \in rows, PasteEntry(t, p) \/ PasteEntryPlaintext(t, p)
    PROVE  \E f : BeginPaste(t, f) /\ DOMAIN f = Formats
  <1>1. DOMAIN p.f = Formats
    BY DEF RowsTyped
  <1>2. CASE PasteEntry(t, p)
    <2>1. DOMAIN WrittenBack(p) = Formats
      BY <1>1 DEF WrittenBack, WithPlain
    <2> QED
      BY <1>2, <2>1 DEF PasteEntry
  <1>3. CASE PasteEntryPlaintext(t, p)
    <2>1. DOMAIN [NoFlavors EXCEPT !["text"] = PlainText(p.f)] = Formats
      BY DEF NoFlavors
    <2> QED
      BY <1>3, <2>1 DEF PasteEntryPlaintext
  <1> QED
    BY <1>2, <1>3

LEMMA MonitorTypes ==
    ASSUME ClipboardTypes, WindowInv, WorkerInv,
           MonitorThread \/ WatcherStops \/ StoreFails \/ WatcherDies
    PROVE  ClipboardTypes'
  <1>1. UNCHANGED <<board, phase, capturePause, paste>>
    BY DEF MonitorThread, HearEvent, CheckPause, CheckMarker, ReadImage, ReadFiles, ReadText,
       StoreEntry, StoreFails, WatcherStops, WatcherDies, ClipboardRest
  <1>2. PastesTyped'
    BY <1>1 DEF ClipboardTypes, PastesTyped
  <1>3. RowsTyped'
    <2>1. CASE StoreEntry
      <3>1. CASE UNCHANGED <<rows, recent>>
        BY <3>1 DEF ClipboardTypes, RowsTyped
      <3>2. CASE rows' = rows \cup {PayloadOf(worker.got)} /\ recent' = PayloadOf(worker.got)
        <4>1. /\ PayloadOf(worker.got).type \in Formats
              /\ DOMAIN PayloadOf(worker.got).f = Formats
          BY DEF PayloadOf, TypeOf, Formats, ClipboardTypes, WorkerTyped
        <4> HIDE DEF PayloadOf
        <4> QED
          BY <3>2, <4>1 DEF ClipboardTypes, RowsTyped
      <3>3. CASE rows' = rows /\ recent' \in rows
        BY <3>3 DEF ClipboardTypes, RowsTyped
      <3> QED
        BY <2>1, <3>1, <3>2, <3>3 DEF StoreEntry, Skip
    <2>2. CASE UNCHANGED <<rows, recent>>
      BY <2>2 DEF ClipboardTypes, RowsTyped
    <2> QED
      BY <2>1, <2>2 DEF MonitorThread, HearEvent, CheckPause, CheckMarker, ReadImage, ReadFiles,
         ReadText, StoreFails, WatcherStops, WatcherDies, Skip
  <1>4. /\ missed' \in {"no", "deaf", "paused", "private", "unreadable", "refused"}
        /\ monitor' \in [kept : BOOLEAN, status : {"Stopped", "Watching", "Failed"}]
        /\ events' \in 0..MaxQueue
    <2>1. missed' = missed \/ missed' \in {"no", "deaf", "paused", "private", "unreadable", "refused"}
      BY DEF MonitorThread, HearEvent, CheckPause, CheckMarker, ReadImage, ReadFiles, ReadText,
         StoreEntry, StoreFails, WatcherStops, WatcherDies, Skip
    <2>2. \/ monitor' = monitor \/ monitor' = [monitor EXCEPT !.status = "Failed"]
          \/ monitor' = [monitor EXCEPT !.status = "Stopped"]
      BY DEF MonitorThread, HearEvent, CheckPause, CheckMarker, ReadImage, ReadFiles, ReadText,
         StoreEntry, StoreFails, WatcherStops, WatcherDies, ClipboardRest
    <2>3. events' = events \/ events' = 0 \/ (events > 0 /\ events' = events - 1)
      BY DEF MonitorThread, HearEvent, CheckPause, CheckMarker, ReadImage, ReadFiles, ReadText,
         StoreEntry, StoreFails, WatcherStops, WatcherDies
    <2> QED
      BY <2>1, <2>2, <2>3, BoundsAreNumbers DEF ClipboardTypes, ClipboardTyped
  <1>5. WorkerTyped'
    <2>1. CASE worker' = worker
      BY <2>1 DEF ClipboardTypes, WorkerTyped
    <2>2. ASSUME NEW at \in {"none", "wait"}, worker' = IdleWorker(at)
          PROVE  WorkerTyped'
      BY <2>2, IdleTyped DEF WorkerTyped
    <2>3. CASE worker' = [IdleWorker("pause") EXCEPT !.excused = ownLeft = 0 \/ cleared]
      <3>1. /\ worker'.at = "pause" /\ worker'.got = NoFlavors /\ worker'.touched = FALSE
            /\ worker'.own = FALSE /\ worker'.excused \in BOOLEAN
        BY <2>3 DEF IdleWorker
      <3> QED
        BY <3>1 DEF WorkerTyped, NoFlavors
    <2>4. CASE worker' = [worker EXCEPT !.at = "marker", !.own = board.by = "app"]
      <3>1. /\ worker'.at = "marker" /\ worker'.got = worker.got
            /\ worker'.touched = worker.touched /\ worker'.own \in BOOLEAN
            /\ worker'.excused = worker.excused
        BY <2>4 DEF WorkerInv, WorkerShape
      <3> QED
        BY <3>1 DEF ClipboardTypes, WorkerTyped, Reading
    <2>5. ASSUME NEW at \in {"image", "files", "text"}, worker' = [worker EXCEPT !.at = at]
          PROVE  WorkerTyped'
      <3>1. /\ worker'.at = at /\ worker'.got = worker.got
            /\ worker'.touched = worker.touched /\ worker'.own = worker.own
            /\ worker'.excused = worker.excused
        BY <2>5 DEF WorkerInv, WorkerShape
      <3> QED
        BY <3>1 DEF ClipboardTypes, WorkerTyped, Reading
    <2>6. ASSUME NEW at \in {"html", "rtf", "store"}, NEW k \in Formats, NEW v,
                 worker' = [worker EXCEPT !.at = at, !.got[k] = v]
          PROVE  WorkerTyped'
      <3>1. /\ worker'.at = at /\ worker'.got = [worker.got EXCEPT ![k] = v]
            /\ worker'.touched = worker.touched /\ worker'.own = worker.own
            /\ worker'.excused = worker.excused
        BY <2>6 DEF WorkerInv, WorkerShape
      <3>2. DOMAIN worker'.got = Formats
        BY <3>1 DEF ClipboardTypes, WorkerTyped
      <3> QED
        BY <3>1, <3>2 DEF ClipboardTypes, WorkerTyped, Reading
    <2>7. CASE HearEvent
      BY <2>2, <2>3, <2>7 DEF HearEvent, Skip
    <2>8. CASE CheckPause \/ CheckMarker
      BY <2>2, <2>4, <2>5, <2>8 DEF CheckPause, CheckMarker, Skip
    <2>9. CASE ReadImage
      BY <2>5, <2>6, <2>9 DEF ReadImage, Formats
    <2>10. CASE ReadFiles
      BY <2>5, <2>6, <2>10 DEF ReadFiles, Formats
    <2>11. ASSUME NEW k \in TextFormats, ReadText(k)
           PROVE  WorkerTyped'
      BY <2>6, <2>11 DEF ReadText, TextFormats, Formats
    <2>12. CASE StoreEntry \/ StoreFails \/ WatcherStops \/ WatcherDies
      BY <2>2, <2>12 DEF StoreEntry, StoreFails, WatcherStops, WatcherDies, Skip
    <2> QED
      BY <2>7, <2>8, <2>9, <2>10, <2>11, <2>12 DEF MonitorThread
  <1> QED
    BY <1>1, <1>2, <1>3, <1>4, <1>5 DEF ClipboardTypes, ClipboardTyped

LEMMA PasteTypes ==
    ASSUME ClipboardTypes, WindowInv, WorkerInv, NEW t \in Paste,
           (\E f : BeginPaste(t, f) /\ DOMAIN f = Formats) \/ PasteAct(t)
    PROVE  ClipboardTypes'
  <1>1. UNCHANGED <<monitor, phase, rows, recent, capturePause, missed>>
    BY DEF BeginPaste, PasteAct, OpenWindow, WriteClipboard, WriteFails, ClearWindow,
       HideRequested, HideRecorded, Answered, PasteRest
  <1>2. RowsTyped'
    BY <1>1 DEF ClipboardTypes, RowsTyped
  <1>3. WorkerTyped'
    <2>1. worker' = worker \/ worker' = Disturbed
      BY DEF BeginPaste, PasteAct, OpenWindow, WriteClipboard, WriteFails, ClearWindow,
         HideRequested, HideRecorded, Answered
    <2> QED
      BY <2>1, DisturbedTyped DEF ClipboardTypes, WorkerTyped
  <1>4. ClipboardTyped'
    <2>1. CASE WriteClipboard(t)
      <3>1. /\ board'.private = FALSE /\ board'.by = "app" /\ board'.f = paste[t].f
        BY <2>1 DEF WriteClipboard
      <3>2. DOMAIN board'.f = Formats
        BY <3>1 DEF ClipboardTypes, PastesTyped
      <3>3. events' \in 0..MaxQueue
        BY <2>1, BoundsAreNumbers DEF WriteClipboard, Notify, ClipboardTypes, ClipboardTyped
      <3> QED
        BY <1>1, <3>1, <3>2, <3>3 DEF ClipboardTypes, ClipboardTyped
    <2>2. CASE ~WriteClipboard(t)
      <3>1. UNCHANGED <<board, events>>
        BY <2>2 DEF BeginPaste, PasteAct, OpenWindow, WriteFails, ClearWindow,
           HideRequested, HideRecorded, Answered
      <3> QED
        BY <1>1, <3>1 DEF ClipboardTypes, ClipboardTyped
    <2> QED
      BY <2>1, <2>2
  <1>5. PastesTyped'
    <2>1. /\ DOMAIN paste = Paste
          /\ \A u \in Paste : {"at", "f", "left", "keys"} \subseteq DOMAIN paste[u]
      BY DEF WindowInv, WindowTypes
    <2>2. ASSUME NEW at \in {"window", "write", "clear", "hide", "flag", "delay"},
                 NEW left \in {paste[t].left, Suppress}, NEW n \in {paste[t].keys, KeyDelay},
                 paste' = [paste EXCEPT ![t] = [paste[t] EXCEPT !.at = at, !.left = left,
                                                                !.keys = n]]
          PROVE  PastesTyped'
      <3>1. /\ \A u \in Paste \ {t} : paste'[u] = paste[u]
            /\ paste'[t].at = at /\ paste'[t].f = paste[t].f /\ paste'[t].left = left
            /\ paste'[t].keys = n
        BY <2>1, <2>2
      <3> QED
        BY <3>1, BoundsAreNumbers DEF ClipboardTypes, PastesTyped
    <2>3. CASE ClearWindow(t) \/ Answered(t)
      <3>1. /\ \A u \in Paste \ {t} : paste'[u] = paste[u]
            /\ paste'[t].at = "idle" /\ paste'[t].f = NoFlavors /\ paste'[t].left = 0
            /\ paste'[t].keys = 0
        BY <2>1, <2>3 DEF ClearWindow, Answered, IdlePaste
      <3> QED
        BY <3>1, BoundsAreNumbers DEF ClipboardTypes, PastesTyped, NoFlavors
    <2>4. ASSUME NEW f, BeginPaste(t, f), DOMAIN f = Formats
          PROVE  PastesTyped'
      <3>1. /\ \A u \in Paste \ {t} : paste'[u] = paste[u]
            /\ paste'[t].at = "window" /\ paste'[t].f = f /\ paste'[t].left = 0
            /\ paste'[t].keys = 0
        BY <2>1, <2>4 DEF BeginPaste, IdlePaste
      <3> QED
        BY <2>4, <3>1, BoundsAreNumbers DEF ClipboardTypes, PastesTyped
    <2>5. CASE OpenWindow(t)
      <3>1. /\ \A u \in Paste \ {t} : paste'[u] = paste[u]
            /\ paste'[t].at = "write" /\ paste'[t].f = paste[t].f /\ paste'[t].left = Suppress
            /\ paste'[t].keys = paste[t].keys
        BY <2>1, <2>5 DEF OpenWindow
      <3> QED
        BY <3>1, BoundsAreNumbers DEF ClipboardTypes, PastesTyped
    <2>6. CASE WriteClipboard(t) \/ WriteFails(t) \/ HideRequested(t)
      <3>1. /\ \A u \in Paste \ {t} : paste'[u] = paste[u]
            /\ paste'[t].at \in {"hide", "clear", "flag"} /\ paste'[t].f = paste[t].f
            /\ paste'[t].left = paste[t].left /\ paste'[t].keys = paste[t].keys
        BY <2>1, <2>6 DEF WriteClipboard, WriteFails, HideRequested
      <3> QED
        BY <3>1 DEF ClipboardTypes, PastesTyped
    <2>7. CASE HideRecorded(t)
      <3>1. /\ \A u \in Paste \ {t} : paste'[u] = paste[u]
            /\ paste'[t].at = "delay" /\ paste'[t].f = paste[t].f
            /\ paste'[t].left = paste[t].left /\ paste'[t].keys = KeyDelay
        BY <2>1, <2>7 DEF HideRecorded
      <3> QED
        BY <3>1, BoundsAreNumbers DEF ClipboardTypes, PastesTyped
    <2> QED
      BY <2>3, <2>4, <2>5, <2>6, <2>7 DEF PasteAct
  <1> QED
    BY <1>2, <1>3, <1>4, <1>5 DEF ClipboardTypes

LEMMA TickTypes ==
    ASSUME ClipboardTypes, WindowInv, ClipboardTick
    PROVE  ClipboardTypes'
  <1>1. UNCHANGED <<board, events, worker, monitor, phase, rows, recent, capturePause, missed>>
    BY DEF ClipboardTick
  <1>2. \A t \in Paste : /\ paste'[t].at = paste[t].at /\ paste'[t].f = paste[t].f
                         /\ paste'[t].left = Less(paste[t].left)
                         /\ paste'[t].keys = Less(paste[t].keys)
    BY DEF ClipboardTick, WindowInv, WindowTypes
  <1>3. \A n \in 0..Suppress : Less(n) \in 0..Suppress
    BY BoundsAreNumbers DEF Less
  <1>4. \A n \in 0..KeyDelay : Less(n) \in 0..KeyDelay
    BY BoundsAreNumbers DEF Less
  <1>5. PastesTyped'
    BY <1>2, <1>3, <1>4 DEF ClipboardTypes, PastesTyped
  <1> QED
    BY <1>1, <1>5 DEF ClipboardTypes, WorkerTyped, RowsTyped, ClipboardTyped

LEMMA ClipboardTypesStep ==
    ASSUME ClipboardTypes, WindowInv, WorkerInv, ClipboardStep
    PROVE  ClipboardTypes'
  <1>1. CASE UNCHANGED clipboardVars
    BY <1>1 DEF clipboardVars, ClipboardTypes, WorkerTyped, RowsTyped, PastesTyped, ClipboardTyped
  <1>2. CASE StartMonitor \/ StopMonitor \/ MonitorJoined \/ PauseExpires
             \/ \E p \in {"Active", "Until", "Indefinite"} : SetCapturePause(p)
    <2>1. UNCHANGED <<board, events, rows, recent, paste, missed>>
      BY <1>2 DEF StartMonitor, StopMonitor, MonitorJoined, PauseExpires, SetCapturePause
    <2>2. worker' = worker \/ worker' = IdleWorker("wait")
      BY <1>2 DEF StartMonitor, StopMonitor, MonitorJoined, PauseExpires, SetCapturePause
    <2>3. WorkerTyped'
      BY <2>2, IdleTyped DEF ClipboardTypes, WorkerTyped
    <2>4. monitor' \in [kept : BOOLEAN, status : {"Stopped", "Watching", "Failed"}]
      <3>1. \/ monitor' = monitor \/ monitor' = [kept |-> TRUE, status |-> "Watching"]
            \/ monitor' = [kept |-> FALSE, status |-> "Failed"]
            \/ monitor' = [kept |-> FALSE, status |-> "Stopped"]
        BY <1>2 DEF StartMonitor, StopMonitor, MonitorJoined, PauseExpires, SetCapturePause
      <3> DEFINE M == [kept : BOOLEAN, status : {"Stopped", "Watching", "Failed"}]
      <3>2. [kept |-> TRUE, status |-> "Watching"] \in M
        OBVIOUS
      <3>3. [kept |-> FALSE, status |-> "Failed"] \in M
        OBVIOUS
      <3>4. [kept |-> FALSE, status |-> "Stopped"] \in M
        OBVIOUS
      <3>5. monitor \in M
        BY DEF ClipboardTypes, ClipboardTyped
      <3> HIDE DEF M
      <3>6. monitor' \in M
        BY <3>1, <3>2, <3>3, <3>4, <3>5
      <3> QED
        BY <3>6 DEF M
    <2>5. capturePause' \in {"Active", "Until", "Indefinite"}
      <3>1. CASE UNCHANGED capturePause
        BY <3>1 DEF ClipboardTypes, ClipboardTyped
      <3>2. CASE PauseExpires
        BY <3>2 DEF PauseExpires
      <3>3. ASSUME NEW p \in {"Active", "Until", "Indefinite"}, SetCapturePause(p)
            PROVE  capturePause' \in {"Active", "Until", "Indefinite"}
        BY <3>3 DEF SetCapturePause
      <3> QED
        BY <1>2, <3>1, <3>2, <3>3 DEF StartMonitor, StopMonitor, MonitorJoined
    <2>6. phase' \in {"starting", "running", "stopping", "stopped"}
      BY <1>2 DEF StartMonitor, StopMonitor, MonitorJoined, PauseExpires, SetCapturePause,
         ClipboardTypes, ClipboardTyped
    <2> QED
      BY <2>1, <2>3, <2>4, <2>5, <2>6 DEF ClipboardTypes, RowsTyped, PastesTyped, ClipboardTyped
  <1>3. CASE FreshClipboard
    <2>1. WorkerTyped'
      BY <1>3, IdleTyped DEF FreshClipboard, WorkerTyped
    <2>2. RowsTyped'
      BY <1>3 DEF FreshClipboard, ClipboardTypes, RowsTyped
    <2>3. PastesTyped'
      BY <1>3, BoundsAreNumbers DEF FreshClipboard, PastesTyped, IdlePaste, NoFlavors
    <2>4. board'.private = FALSE /\ board'.by = "user" /\ DOMAIN board'.f = Formats
      BY <1>3 DEF FreshClipboard, EmptyBoard, NoFlavors
    <2>5. ClipboardTyped'
      BY <1>3, <2>4, BoundsAreNumbers DEF FreshClipboard, ClipboardTyped
    <2> QED
      BY <2>1, <2>2, <2>3, <2>5 DEF ClipboardTypes
  <1>4. ASSUME NEW c \in Clips, UserCopies(c)
        PROVE  ClipboardTypes'
    <2>1. UNCHANGED <<monitor, phase, rows, recent, capturePause, paste, missed>> /\ worker' = Disturbed
      BY <1>4 DEF UserCopies
    <2>2. WorkerTyped'
      BY <2>1, DisturbedTyped DEF ClipboardTypes
    <2>3. c.private \in BOOLEAN
      BY DesktopAppAssumption DEF DesktopClipboardAssumption
    <2>4. board'.private = c.private /\ board'.by = "user" /\ DOMAIN board'.f = Formats
      BY <1>4 DEF UserCopies
    <2>5. events' \in 0..MaxQueue
      BY <1>4, BoundsAreNumbers DEF UserCopies, Notify, ClipboardTypes, ClipboardTyped
    <2> QED
      BY <2>1, <2>2, <2>3, <2>4, <2>5 DEF ClipboardTypes, RowsTyped, PastesTyped, ClipboardTyped
  <1>5. ASSUME NEW t \in Paste, NEW p \in rows, PasteEntry(t, p) \/ PasteEntryPlaintext(t, p)
        PROVE  ClipboardTypes'
    BY <1>5, FlavorsWritten, PasteTypes DEF ClipboardTypes
  <1> QED
    BY <1>1, <1>2, <1>3, <1>4, <1>5, PasteTypes, MonitorTypes, TickTypes DEF ClipboardStep

\* The types of the clipboard, the monitor, the pastes and the history.
THEOREM ClipboardTypesAlways == Spec => []ClipboardTypes
  <1>1. Init => ClipboardTypes
    <2> SUFFICES ASSUME Init PROVE ClipboardTypes
      OBVIOUS
    <2>1. PICK s \in Starts : ClipboardInit(s.history)
      BY DEF Init
    <2>2. \A p \in s.history : p.type \in Formats /\ DOMAIN p.f = Formats
      BY DesktopAppAssumption
    <2>3. RowsTyped
      BY <2>1, <2>2 DEF ClipboardInit, RowsTyped
    <2>4. WorkerTyped
      BY <2>1, IdleTyped DEF ClipboardInit, WorkerTyped
    <2>5. PastesTyped
      BY <2>1, BoundsAreNumbers DEF ClipboardInit, PastesTyped, IdlePaste, NoFlavors
    <2>6. board.private = FALSE /\ board.by = "user" /\ DOMAIN board.f = Formats
      BY <2>1 DEF ClipboardInit, EmptyBoard, NoFlavors
    <2>7. ClipboardTyped
      BY <2>1, <2>6, BoundsAreNumbers DEF ClipboardInit, ClipboardTyped
    <2> QED
      BY <2>3, <2>4, <2>5, <2>7 DEF ClipboardTypes
  <1>2. ClipboardTypes /\ WindowInv /\ WorkerInv /\ [Next]_vars => ClipboardTypes'
    BY NextIsClipboardStep, ClipboardTypesStep
  <1> QED
    BY <1>1, <1>2, WorkerAlways, PTL DEF Spec

-----------------------------------------------------------------------------
(* What a step of the application is to the popup                          *)

FreshPopup ==
    /\ visible' = FALSE /\ active' = FALSE /\ popupOpen' = FALSE
    /\ debounceLeft' = 0 /\ guardLeft' = 0 /\ tasks' = <<>>
    /\ hider' = [h \in Hider |-> "idle"] /\ autoHide' = NoTimer

\* A paste on the main thread hides the window there and then.
HideForMainPaste ==
    /\ visible' = FALSE /\ Activity(FALSE)
    /\ UNCHANGED <<popupOpen, debounceLeft, guardLeft, tasks, hider>>

RunPlaintext ==
    /\ tasks # <<>> /\ tasks' = Tail(tasks)
    /\ UNCHANGED <<visible, active, popupOpen, debounceLeft, guardLeft, hider, autoHide>>

PopupStep ==
    \/ UNCHANGED popupVars
    \/ FreshPopup \/ RunToggle \/ RunHide \/ RunPlaintext
    \/ \E task \in Task : RequestTask(task)
    \/ HideForMainPaste \/ HideForPaste \/ FlagForPaste
    \/ FocusChanges \/ PopupTick
    \/ \E h \in Hider : EscapePressed(h) \/ AutoHideFires(h) \/ HideAsked(h) \/ FlagCleared(h)

LEMMA NextIsPopupStep ==
    ASSUME KdeSafe, [Next]_vars
    PROVE  PopupStep
  <1>1. CASE SetupShortcuts \/ SetupMonitor \/ Quit \/ LeaveMonitor \/ LeaveKde \/ Leave
    BY <1>1 DEF SetupShortcuts, SetupMonitor, Quit, LeaveMonitor, LeaveKde, Leave, ShortcutsOnly,
       ClipboardOnly, PopupStep
  <1>2. CASE Restart
    BY <1>2 DEF Restart, FreshPopup, PopupStep
  <1>3. CASE MainToggle \/ MainHide \/ MainPlaintext
    BY <1>3 DEF MainToggle, MainHide, MainPlaintext, RunPlaintext, PopupStep
  <1>4. ASSUME NEW a \in Action, TrayOrCommand(a) \/ GnomeKey(a) \/ GrabbedKey(a)
        PROVE  PopupStep
    <2>1. RequestTask(a) /\ a \in Task
      BY <1>4, ActionsAreTasks DEF TrayOrCommand, GnomeKey, GrabbedKey, Ask
    <2> QED
      BY <2>1 DEF PopupStep
  <1>5. ASSUME NEW t \in Paste,
               (\E p \in rows : PasteCommand(t, p)) \/ GrabbedPlaintext(t) \/ PasteWriteFails(t)
        PROVE  PopupStep
    BY <1>5 DEF PasteCommand, GrabbedPlaintext, PasteWriteFails, ClipboardOnly, PopupStep
  <1>6. ASSUME NEW t \in Paste, Pasting(t)
        PROVE  PopupStep
    BY <1>6 DEF Pasting, PasteStep, PasteGivesUp, PasteHides, PasteHidden, PasteAnswered,
       ClipboardOnly, HideForMainPaste, PopupStep
  <1>7. CASE Monitoring \/ UserAtClipboard \/ Registering \/ SettingsSaved \/ ReregisterShortcuts
             \/ OthersAtShortcuts \/ Working
    BY <1>7 DEF Monitoring, UserAtClipboard, Registering, SettingsSaved, ReregisterShortcuts,
       OthersAtShortcuts, Working, ShortcutsOnly, ClipboardOnly, PopupStep
  <1>8. CASE UserAtPopup \/ Hiding \/ Tick
    BY <1>8 DEF UserAtPopup, Hiding, Tick, PopupStep
  <1>9. CASE Activating
    <2>1. Head(signals).a \in Task
      BY <1>9, HandleSafe, ActionsAreTasks DEF Activating, Signal
    <2> QED
      BY <1>9, <2>1 DEF Activating, PopupStep
  <1>10. CASE UNCHANGED vars
    BY <1>10 DEF vars, PopupStep
  <1> QED
    BY <1>1, <1>2, <1>3, <1>4, <1>5, <1>6, <1>7, <1>8, <1>9, <1>10 DEF Next

\* Only a toggle winds the debounce up.
LEMMA OnlyTogglesDebounce ==
    ASSUME PopupStep, debounceLeft = 0, debounceLeft' = Debounce
    PROVE  RunToggle
  <1>1. Debounce # 0
    BY DesktopAppAssumption DEF PopupWindowAssumption
  <1>2. ASSUME NEW h \in Hider,
               EscapePressed(h) \/ AutoHideFires(h) \/ HideAsked(h) \/ FlagCleared(h)
        PROVE  debounceLeft' = debounceLeft
    BY <1>2 DEF EscapePressed, AutoHideFires, HideAsked, FlagCleared, CallHidePopup
  <1>3. ASSUME NEW task \in Task, RequestTask(task)
        PROVE  debounceLeft' = debounceLeft
    BY <1>3 DEF RequestTask
  <1>4. ASSUME PopupTick
        PROVE  debounceLeft' = 0
    BY <1>4 DEF PopupTick
  <1>5. ASSUME FreshPopup
        PROVE  debounceLeft' = 0
    BY <1>5 DEF FreshPopup
  <1>6. ASSUME UNCHANGED popupVars \/ RunHide \/ RunPlaintext \/ HideForMainPaste
               \/ HideForPaste \/ FlagForPaste \/ FocusChanges
        PROVE  debounceLeft' = debounceLeft
    BY <1>6 DEF popupVars, RunHide, RunPlaintext, HideForMainPaste, HideForPaste, FlagForPaste,
       FocusChanges
  <1> QED
    BY <1>1, <1>2, <1>3, <1>4, <1>5, <1>6 DEF PopupStep

(***************************************************************************)
(* Every toggle that is taken does what the user sees as toggling, and     *)
(* leaves the flag as the window is: whatever hides overtook it and        *)
(* however late other threads store the flag, no step that looks like a    *)
(* toggle does anything else.                                              *)
(***************************************************************************)
THEOREM TogglesFlip == Spec => ToggleFlips
  <1> DEFINE Flip == ToggleTaken =>
                       /\ popupOpen' = visible'
                       /\ (visible /\ guardLeft = 0) => ~visible'
                       /\ (visible /\ guardLeft > 0) => visible'
  <1>1. ASSUME PopupSafe, KdeSafe, [Next]_vars
        PROVE  Flip
    <2> SUFFICES ASSUME ToggleTaken
                 PROVE  /\ popupOpen' = visible'
                        /\ (visible /\ guardLeft = 0) => ~visible'
                        /\ (visible /\ guardLeft > 0) => visible'
      OBVIOUS
    <2>1. TogglePopup /\ debounceLeft = 0
      BY <1>1, NextIsPopupStep, OnlyTogglesDebounce DEF ToggleTaken, RunToggle
    <2>2. visible = TRUE \/ visible = FALSE
      BY <1>1 DEF PopupSafe, PopupShape
    <2>3. CASE visible = TRUE
      <3>1. CASE guardLeft > 0
        <4>1. popupOpen' = TRUE /\ visible' = TRUE /\ guardLeft # 0
          BY <2>1, <2>3, <3>1 DEF TogglePopup
        <4> QED
          BY <4>1
      <3>2. CASE ~(guardLeft > 0)
        <4>1. popupOpen' = FALSE /\ visible' = FALSE
          BY <2>1, <2>3, <3>2 DEF TogglePopup, HideNow
        <4> QED
          BY <3>2, <4>1
      <3> QED
        BY <3>1, <3>2
    <2>4. CASE visible = FALSE
      <3>1. (popupOpen' = TRUE /\ visible' = TRUE) \/ (popupOpen' = FALSE /\ visible' = FALSE)
        BY <2>1, <2>4 DEF TogglePopup, ShowNow
      <3> QED
        BY <2>4, <3>1
    <2> QED
      BY <2>2, <2>3, <2>4
  <1>2. PopupSafe /\ KdeSafe /\ [Next]_vars => [Flip]_popupVars
    BY <1>1
  <1> QED
    BY <1>2, PopupSafeAlways, KeysOwnedAlways, PTL DEF Spec, ToggleFlips

-----------------------------------------------------------------------------
(* The popup's types                                                       *)

Timers == [on : BOOLEAN, left : 0..AutoHide]

PopupTypes ==
    /\ visible \in BOOLEAN /\ active \in BOOLEAN /\ popupOpen \in BOOLEAN
    /\ debounceLeft \in 0..Debounce /\ guardLeft \in 0..CloseGuard
    /\ Len(tasks) <= MaxTasks
    /\ hider \in [Hider -> {"idle", "hide", "flag"}]
    /\ autoHide \in Timers

LEMMA TimersAreNumbers ==
    /\ Debounce \in Nat /\ CloseGuard \in Nat /\ AutoHide \in Nat /\ MaxTasks \in Nat
    /\ 0 \in 0..Debounce /\ 0 \in 0..CloseGuard /\ 0 \in 0..AutoHide
    /\ Debounce \in 0..Debounce /\ CloseGuard \in 0..CloseGuard /\ AutoHide \in 0..AutoHide
  BY DesktopAppAssumption DEF PopupWindowAssumption

LEMMA TimersSet == NoTimer \in Timers /\ [on |-> TRUE, left |-> AutoHide] \in Timers
  BY TimersAreNumbers DEF NoTimer, Timers

LEMMA ActivityTypes ==
    ASSUME PopupTypes, NEW on \in BOOLEAN, Activity(on)
    PROVE  active' \in BOOLEAN /\ autoHide' \in Timers
  BY TimersSet DEF Activity, PopupTypes

LEMMA ToggleTypes ==
    ASSUME PopupTypes, TogglePopup
    PROVE  /\ visible' \in BOOLEAN /\ active' \in BOOLEAN /\ popupOpen' \in BOOLEAN
           /\ debounceLeft' \in 0..Debounce /\ guardLeft' \in 0..CloseGuard /\ autoHide' \in Timers
  <1>1. CASE UNCHANGED <<visible, active, guardLeft, autoHide>>
    <2>1. popupOpen' = popupOpen \/ popupOpen' = TRUE \/ popupOpen' = FALSE
      BY <1>1 DEF TogglePopup, ShowNow, HideNow
    <2>2. popupOpen' \in BOOLEAN
      BY <2>1 DEF PopupTypes
    <2>3. debounceLeft' = debounceLeft \/ debounceLeft' = Debounce
      BY DEF TogglePopup
    <2> QED
      BY <1>1, <2>2, <2>3, TimersAreNumbers DEF PopupTypes
  <1>2. CASE ShowNow /\ debounceLeft' = Debounce
    <2>1. CASE popupOpen' = FALSE /\ UNCHANGED <<visible, active, guardLeft, autoHide>>
      BY <1>1, <2>1
    <2>2. CASE visible' = TRUE
      <3>1. active' \in BOOLEAN /\ autoHide' \in Timers /\ popupOpen' \in BOOLEAN
            /\ (guardLeft' = CloseGuard \/ guardLeft' = guardLeft)
        BY <1>2, ActivityTypes DEF ShowNow, PopupTypes
      <3> QED
        BY <1>2, <2>2, <3>1, TimersAreNumbers DEF PopupTypes
    <2> QED
      BY <1>2, <2>1, <2>2 DEF ShowNow
  <1>3. CASE HideNow /\ debounceLeft' = Debounce
    <2>1. active' \in BOOLEAN /\ autoHide' \in Timers
      BY <1>3, ActivityTypes DEF HideNow
    <2> QED
      BY <1>3, <2>1, TimersAreNumbers DEF HideNow, PopupTypes
  <1> QED
    BY <1>1, <1>2, <1>3 DEF TogglePopup

LEMMA PopupTypesStep ==
    ASSUME PopupTypes, PopupSafe, PopupStep
    PROVE  PopupTypes'
  <1>0. tasks \in Seq(Task) /\ Len(tasks) \in Nat
    BY DEF PopupSafe, PopupShape
  <1>1. ASSUME tasks # <<>>, tasks' = Tail(tasks)
        PROVE  Len(tasks') <= MaxTasks
    BY <1>0, <1>1, TimersAreNumbers DEF PopupTypes
  <1>2. ASSUME NEW task, Post(task)
        PROVE  Len(tasks') <= MaxTasks
    <2>1. Len(Append(tasks, task)) = Len(tasks) + 1
      BY <1>0
    <2> QED
      BY <1>0, <1>2, <2>1, TimersAreNumbers DEF Post
  <1>3. CASE UNCHANGED popupVars
    BY <1>3 DEF popupVars, PopupTypes
  <1>4. CASE FreshPopup
    <2>1. Len(tasks') <= MaxTasks
      BY <1>4, TimersAreNumbers DEF FreshPopup
    <2>2. visible' \in BOOLEAN /\ active' \in BOOLEAN /\ popupOpen' \in BOOLEAN
      BY <1>4 DEF FreshPopup
    <2>3. autoHide' \in Timers /\ hider' \in [Hider -> {"idle", "hide", "flag"}]
      BY <1>4, TimersSet DEF FreshPopup
    <2> QED
      BY <1>4, <2>1, <2>2, <2>3, TimersAreNumbers DEF FreshPopup, PopupTypes
  <1>5. CASE RunToggle
    BY <1>1, <1>5, ToggleTypes DEF RunToggle, PopupTypes
  <1>6. CASE RunHide \/ HideForMainPaste
    <2>1. active' \in BOOLEAN /\ autoHide' \in Timers
      BY <1>6, ActivityTypes DEF RunHide, HideForMainPaste
    <2>2. visible' \in BOOLEAN
      BY <1>6 DEF RunHide, HideForMainPaste
    <2>3. Len(tasks') <= MaxTasks
      BY <1>1, <1>6 DEF RunHide, HideForMainPaste, PopupTypes
    <2> QED
      BY <1>6, <2>1, <2>2, <2>3 DEF RunHide, HideForMainPaste, PopupTypes
  <1>7. CASE RunPlaintext
    BY <1>1, <1>7 DEF RunPlaintext, PopupTypes
  <1>8. ASSUME NEW task, RequestTask(task)
        PROVE  PopupTypes'
    BY <1>2, <1>8 DEF RequestTask, PopupTypes
  <1>9. CASE HideForPaste
    BY <1>2, <1>9 DEF HideForPaste, PopupTypes
  <1>10. CASE FlagForPaste
    <2>1. popupOpen' \in BOOLEAN
      BY <1>10 DEF FlagForPaste
    <2> QED
      BY <1>10, <2>1 DEF FlagForPaste, PopupTypes
  <1>11. CASE FocusChanges
    <2>1. active \in BOOLEAN /\ active' = ~active
      BY <1>11 DEF FocusChanges, Activity, PopupTypes
    <2>2. active' \in BOOLEAN /\ autoHide' \in Timers
      BY <1>11, <2>1, TimersSet DEF FocusChanges, Activity, PopupTypes
    <2> QED
      BY <1>11, <2>2 DEF FocusChanges, PopupTypes
  <1>12. ASSUME NEW h \in Hider, EscapePressed(h) \/ AutoHideFires(h)
         PROVE  PopupTypes'
    <2>1. autoHide' \in Timers
      BY <1>12, TimersSet DEF EscapePressed, AutoHideFires, PopupTypes
    <2>2. hider' \in [Hider -> {"idle", "hide", "flag"}]
      BY <1>12 DEF EscapePressed, AutoHideFires, CallHidePopup, PopupTypes
    <2> QED
      BY <1>12, <2>1, <2>2 DEF EscapePressed, AutoHideFires, CallHidePopup, PopupTypes
  <1>13. ASSUME NEW h \in Hider, HideAsked(h)
         PROVE  PopupTypes'
    BY <1>2, <1>13 DEF HideAsked, PopupTypes
  <1>14. ASSUME NEW h \in Hider, FlagCleared(h)
         PROVE  PopupTypes'
    <2>1. popupOpen' \in BOOLEAN
      BY <1>14 DEF FlagCleared
    <2> QED
      BY <1>14, <2>1 DEF FlagCleared, PopupTypes
  <1>15. CASE PopupTick
    <2>1. debounceLeft' \in 0..Debounce /\ guardLeft' \in 0..CloseGuard
      BY <1>15, TimersAreNumbers DEF PopupTick, PopupTypes
    <2>2. ASSUME NEW n \in 0..AutoHide
          PROVE  (IF n > 0 THEN n - 1 ELSE 0) \in 0..AutoHide
      BY TimersAreNumbers
    <2>3. autoHide' = [autoHide EXCEPT !.left = IF @ > 0 THEN @ - 1 ELSE 0]
          /\ autoHide \in Timers
      BY <1>15 DEF PopupTick, PopupTypes
    <2>4. autoHide' \in Timers
      BY <2>2, <2>3 DEF Timers
    <2> QED
      BY <1>15, <2>1, <2>4 DEF PopupTick, PopupTypes
  <1> QED
    BY <1>3, <1>4, <1>5, <1>6, <1>7, <1>8, <1>9, <1>10, <1>11, <1>12, <1>13, <1>14, <1>15
       DEF PopupStep

LEMMA PopupTypesStart ==
    ASSUME Init
    PROVE  PopupTypes
  <1>1. Len(tasks) = 0
    BY DEF Init, PopupInit
  <1>2. visible \in BOOLEAN /\ active \in BOOLEAN /\ popupOpen \in BOOLEAN
    BY DEF Init, PopupInit
  <1>3. autoHide \in Timers /\ hider \in [Hider -> {"idle", "hide", "flag"}]
    BY TimersSet DEF Init, PopupInit
  <1>4. debounceLeft = 0 /\ guardLeft = 0
    BY DEF Init, PopupInit
  <1> QED
    BY <1>1, <1>2, <1>3, <1>4, TimersAreNumbers DEF PopupTypes

\* The types of the popup, its timers and the main thread's queue.
THEOREM PopupTypesAlways == Spec => []PopupTypes
  <1>1. PopupTypes /\ PopupSafe /\ KdeSafe /\ [Next]_vars => PopupTypes'
    BY NextIsPopupStep, PopupTypesStep
  <1> QED
    BY <1>1, PopupTypesStart, PopupSafeAlways, KeysOwnedAlways, PTL DEF Spec

-----------------------------------------------------------------------------
(* The application's own types                                             *)

AppTypes ==
    /\ setup \in {"shortcuts", "monitor", "done", "leaving", "gone"}
    /\ mainPaste \in Paste \cup {NoPaste} /\ resave \in BOOLEAN
    /\ allowed \in [EventClass -> Nat]

\* What a step may do to them.
AppStep ==
    /\ setup' = setup \/ setup' \in {"shortcuts", "monitor", "done", "leaving", "gone"}
    /\ mainPaste' \in {mainPaste, NoPaste} \cup Paste
    /\ resave' = resave \/ resave' = TRUE \/ resave' = FALSE
    /\ UNCHANGED allowed \/ \E c \in EventClass : Event(c)

LEMMA NextIsAppStep ==
    ASSUME [Next]_vars
    PROVE  AppStep
  <1> USE DEF AppStep, Quiet, EventClass
  <1>1. CASE UNCHANGED vars
    BY <1>1 DEF vars, appVars
  <1>2. CASE SetupShortcuts \/ SetupMonitor \/ Quit \/ LeaveMonitor \/ LeaveKde \/ Leave
    BY <1>2 DEF SetupShortcuts, SetupMonitor, Quit, LeaveMonitor, LeaveKde, Leave
  <1>3. CASE Restart
    BY <1>3 DEF Restart
  <1>4. CASE MainToggle \/ MainHide
    BY <1>4 DEF MainToggle, MainHide
  <1>5. CASE MainPlaintext
    <2>1. mainPaste' = mainPaste \/ mainPaste' \in Paste
      BY <1>5 DEF MainPlaintext
    <2> QED
      BY <1>5, <2>1 DEF MainPlaintext
  <1>6. ASSUME NEW a \in Action, TrayOrCommand(a) \/ GnomeKey(a) \/ GrabbedKey(a)
        PROVE  AppStep
    BY <1>6 DEF TrayOrCommand, GnomeKey, GrabbedKey, Ask
  <1>7. ASSUME NEW t \in Paste,
               (\E p \in rows : PasteCommand(t, p)) \/ GrabbedPlaintext(t) \/ PasteWriteFails(t)
        PROVE  AppStep
    BY <1>7 DEF PasteCommand, GrabbedPlaintext, PasteWriteFails
  <1>8. ASSUME NEW t \in Paste, Pasting(t)
        PROVE  AppStep
    BY <1>8 DEF Pasting, PasteStep, PasteGivesUp, PasteHides, PasteHidden, PasteAnswered, Finished
  <1>9. CASE Monitoring \/ UserAtClipboard \/ UserAtPopup \/ Hiding \/ Registering \/ Working
    BY <1>9 DEF Monitoring, UserAtClipboard, UserAtPopup, Hiding, Registering, Working
  <1>10. CASE SettingsSaved \/ ReregisterShortcuts
    BY <1>10 DEF SettingsSaved, ReregisterShortcuts
  <1>11. CASE OthersAtShortcuts \/ Activating \/ Tick
    BY <1>11 DEF OthersAtShortcuts, Activating, Tick, appVars
  <1> QED
    BY <1>1, <1>2, <1>3, <1>4, <1>5, <1>6, <1>7, <1>8, <1>9, <1>10, <1>11 DEF Next

\* The life of the process, the paste on its main thread, and the bounds.
THEOREM AppTypesAlways == Spec => []AppTypes
  <1>1. Init => AppTypes
    <2> SUFFICES ASSUME Init PROVE AppTypes
      OBVIOUS
    <2>1. PICK s \in Starts : allowed = [c \in EventClass |-> s[c]]
      BY DEF Init
    <2>2. \A c \in EventClass : s[c] \in Nat
      BY DesktopAppAssumption
    <2>3. resave \in BOOLEAN
      BY DEF Init
    <2> QED
      BY <2>1, <2>2, <2>3 DEF Init, AppTypes
  <1>2. AppTypes /\ [Next]_vars => AppTypes'
    <2> SUFFICES ASSUME AppTypes, [Next]_vars PROVE AppTypes'
      OBVIOUS
    <2>1. AppStep
      BY NextIsAppStep
    <2>2. resave' \in BOOLEAN
      BY <2>1 DEF AppStep, AppTypes
    <2>3. allowed' \in [EventClass -> Nat]
      <3>1. ASSUME NEW c \in EventClass, Event(c)
            PROVE  allowed' \in [EventClass -> Nat]
        <4>1. allowed[c] - 1 \in Nat
          BY <3>1 DEF Event, AppTypes
        <4> QED
          BY <3>1, <4>1 DEF Event, AppTypes
      <3> QED
        BY <2>1, <3>1 DEF AppStep, AppTypes
    <2> QED
      BY <2>1, <2>2, <2>3 DEF AppStep, AppTypes
  <1> QED
    BY <1>1, <1>2, PTL DEF Spec

(***************************************************************************)
(* Every variable of the desktop application has its type: no step of any  *)
(* thread takes a timer below zero, a queue past its end, or a paste or a  *)
(* registration to a stage that it does not have.                          *)
(***************************************************************************)
THEOREM DesktopTypeOK == Spec => []TypeOK
  <1>1. /\ ClipboardTypes /\ WindowInv /\ PopupTypes /\ PopupSafe /\ ShortcutsTypeOK /\ AppTypes
        => TypeOK
    <2> SUFFICES ASSUME ClipboardTypes, WindowInv, PopupTypes, PopupSafe, ShortcutsTypeOK, AppTypes
                 PROVE  TypeOK
      OBVIOUS
    <2>1. ClipboardTypeOK
      BY ClipboardParts DEF ClipboardTypes
    <2>2. PopupTypeOK
      BY DEF PopupTypes, PopupSafe, PopupShape, Task, Timers, PopupTypeOK
    <2> QED
      BY <2>1, <2>2 DEF AppTypes, PopupSafe, PopupShape, TypeOK
  <1> QED
    BY <1>1, ClipboardTypesAlways, WindowAlways, PopupTypesAlways, PopupSafeAlways,
       ShortcutsTypeAlways, AppTypesAlways, PTL

-----------------------------------------------------------------------------
(* Where the popup is shown                                                *)

(***************************************************************************)
(* clamp_popup_axis never panics: whatever a monitor reports, the bounds   *)
(* it hands to clamp are in order.                                         *)
(***************************************************************************)
THEOREM ClampNeverPanics ==
    ASSUME Half \in Nat, NEW popupExtent \in U32, NEW workExtent \in U32, NEW workStart \in I32
    PROVE  workStart <= MaxOrigin(popupExtent, workStart, workExtent)
BY DEF MaxOrigin, I32, U32

(***************************************************************************)
(* `as i32' at the end of clamp_popup_axis loses nothing, although the end *)
(* of a work area may lie beyond the largest i32.                          *)
(***************************************************************************)
THEOREM PositionFitsItsType ==
    ASSUME Half \in Nat, NEW candidate \in I32, NEW workStart \in I32,
           NEW popupExtent \in U32, NEW workExtent \in U32
    PROVE  ClampPopupAxis(candidate, popupExtent, workStart, workExtent) \in I32
<1> DEFINE last == MaxOrigin(popupExtent, workStart, workExtent)
<1>1. last \in Int /\ workStart <= last
    BY DEF MaxOrigin, I32, U32
<1>2. Clamp(candidate, workStart, last) \in I32
    BY <1>1 DEF Clamp, I32
<1> QED
    BY <1>2 DEF ClampPopupAxis

\* One axis of PopupIsInside.
LEMMA AxisIsInside ==
    ASSUME Half \in Nat, NEW candidate \in I32, NEW workStart \in I32, NEW popupExtent \in U32,
           NEW workExtent \in U32, popupExtent <= workExtent
    PROVE  LET p == ClampPopupAxis(candidate, popupExtent, workStart, workExtent) IN
           workStart <= p /\ p + popupExtent <= workStart + workExtent
BY DEF ClampPopupAxis, Clamp, MaxOrigin, I32, U32

\* A popup that fits is shown within the work area, whole, wherever the
\* cursor is.
THEOREM PopupIsInside ==
    ASSUME Half \in Nat, NEW candidate \in [x : I32, y : I32], NEW size \in [width : U32, height : U32],
           NEW workArea \in Rectangle,
           size.width <= workArea.width, size.height <= workArea.height
    PROVE  Inside(FinalPosition(candidate, size, workArea), size, workArea)
<1> DEFINE p == FinalPosition(candidate, size, workArea)
<1>1. workArea.x <= p.x /\ p.x + size.width <= workArea.x + workArea.width
    BY AxisIsInside DEF FinalPosition, Rectangle
<1>2. workArea.y <= p.y /\ p.y + size.height <= workArea.y + workArea.height
    BY AxisIsInside DEF FinalPosition, Rectangle
<1> QED
    BY <1>1, <1>2 DEF Inside

\* One that does not fit starts where the work area does, so that the title
\* and the search field stay in sight.
THEOREM OversizedPopupStartsAtEdge ==
    ASSUME Half \in Nat, NEW candidate \in I32, NEW workStart \in I32,
           NEW popupExtent \in U32, NEW workExtent \in U32, popupExtent >= workExtent
    PROVE  ClampPopupAxis(candidate, popupExtent, workStart, workExtent) = workStart
BY DEF ClampPopupAxis, Clamp, MaxOrigin, I32, U32

(***************************************************************************)
(* The popup stays next to the cursor: it is moved only as far as it must  *)
(* be to lie inside, so no allowed position is nearer to the candidate.    *)
(***************************************************************************)
THEOREM PopupStaysNearCursor ==
    ASSUME Half \in Nat, NEW candidate \in I32, NEW workStart \in I32, NEW popupExtent \in U32,
           NEW workExtent \in U32, NEW q \in Int,
           workStart <= q, q + popupExtent <= workStart + workExtent
    PROVE  LET p == ClampPopupAxis(candidate, popupExtent, workStart, workExtent) IN
           \/ candidate <= p /\ p <= q
           \/ q <= p /\ p <= candidate
BY DEF ClampPopupAxis, Clamp, MaxOrigin, I32, U32

(***************************************************************************)
(* On monitors that do not overlap the choice does not depend on the order *)
(* the system lists them in.                                               *)
(***************************************************************************)
THEOREM OneMonitorHasTheCursor ==
    ASSUME NEW monitors, NEW cursor, NEW i \in DOMAIN monitors, NEW j \in DOMAIN monitors,
           \A a, b \in DOMAIN monitors : a # b =>
               ~\E p : Covers(monitors[a].frame, p) /\ Covers(monitors[b].frame, p),
           ResolveMonitor(monitors, cursor, i), MonitorContainsCursor(monitors[j], cursor)
    PROVE  j = i
BY DEF ResolveMonitor, MonitorContainsCursor
=============================================================================
