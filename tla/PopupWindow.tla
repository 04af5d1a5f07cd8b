----------------------------- MODULE PopupWindow -----------------------------
(***************************************************************************)
(* The popup: a window of the main thread, a flag that says whether it is  *)
(* open, and the threads that change one and then the other (lib.rs).      *)
(*                                                                         *)
(* Whatever touches the window is done by the main thread, which takes     *)
(* tasks from one queue: toggles come from shortcuts, the tray and other   *)
(* invocations of the program; a hide comes from a thread that runs the    *)
(* hide_popup command or a paste, which then clears the flag by itself.    *)
(***************************************************************************)
EXTENDS Integers, Sequences

CONSTANTS
    Hider,       \* threads that run the hide_popup command
    Debounce,    \* ticks in which a second toggle is dropped (100 ms)
    CloseGuard,  \* ticks in which a popup just opened stays open (200 ms)
    AutoHide,    \* ticks of inactivity until the popup closes itself (500 ms)
    MaxTasks     \* bound: tasks waiting for the main thread

ASSUME PopupWindowAssumption ==
    /\ Debounce \in Nat \ {0} /\ CloseGuard \in Nat /\ AutoHide \in Nat /\ MaxTasks \in Nat

VARIABLES
    visible,       \* the window is on the screen
    active,        \* and has the focus
    popupOpen,     \* AppState.popup_open
    debounceLeft,  \* ticks until last_popup_toggle_at no longer matters
    guardLeft,     \* ticks until last_popup_opened_at no longer matters
    tasks,         \* what the main thread has been asked to do
    hider,         \* per thread of hide_popup: its step
    autoHide       \* the frontend's timer

popupVars == <<visible, active, popupOpen, debounceLeft, guardLeft, tasks,
               hider, autoHide>>

Toggles == {"toggle", "starred"}

PopupTypeOK ==
    /\ visible \in BOOLEAN /\ active \in BOOLEAN /\ popupOpen \in BOOLEAN
    /\ debounceLeft \in 0..Debounce /\ guardLeft \in 0..CloseGuard
    /\ tasks \in Seq(Toggles \cup {"plaintext", "hide"}) /\ Len(tasks) <= MaxTasks
    /\ hider \in [Hider -> {"idle", "hide", "flag"}]
    /\ autoHide \in [on : BOOLEAN, left : 0..AutoHide]

NoTimer == [on |-> FALSE, left |-> 0]

PopupInit ==
    /\ visible = FALSE /\ active = FALSE /\ popupOpen = FALSE
    /\ debounceLeft = 0 /\ guardLeft = 0
    /\ tasks = <<>>
    /\ hider = [h \in Hider |-> "idle"]
    /\ autoHide = NoTimer

-----------------------------------------------------------------------------
(* The main thread                                                         *)

Post(task) == Len(tasks) < MaxTasks /\ tasks' = Append(tasks, task)

\* toggle_popup, from whichever thread: the work is left to the main thread.
RequestTask(task) ==
    /\ Post(task)
    /\ UNCHANGED <<visible, active, popupOpen, debounceLeft, guardLeft, hider,
                   autoHide>>

\* The window's activity changes: any such event stops the frontend's timer,
\* and one that says `inactive' starts it again.
Activity(on) ==
    /\ active' = on
    /\ autoHide' = IF on = active THEN autoHide
                   ELSE IF on THEN NoTimer ELSE [on |-> TRUE, left |-> AutoHide]

\* The main thread hides the window itself and clears the flag.
HideNow ==
    /\ visible' = FALSE /\ popupOpen' = FALSE
    /\ Activity(FALSE)
    /\ UNCHANGED guardLeft

(***************************************************************************)
(* The popup is placed and shown, with all rows or the starred ones, and   *)
(* with or without the focus; or showing it fails, and none is recorded.   *)
(***************************************************************************)
ShowNow ==
    \/ /\ visible' = TRUE /\ popupOpen' = TRUE
       /\ guardLeft' = CloseGuard
       /\ \E on \in BOOLEAN : Activity(on)
    \/ popupOpen' = FALSE /\ UNCHANGED <<visible, active, guardLeft, autoHide>>

\* (Mutant: the flag is believed, whatever the window looks like.)
TogglePopupUnreconciled ==
    IF debounceLeft > 0
    THEN UNCHANGED <<visible, active, popupOpen, debounceLeft, guardLeft, autoHide>>
    ELSE /\ debounceLeft' = Debounce
         /\ IF ~popupOpen THEN ShowNow
            ELSE IF guardLeft > 0
            THEN UNCHANGED <<visible, active, popupOpen, guardLeft, autoHide>>
            ELSE HideNow

(***************************************************************************)
(* toggle_popup_impl.  A toggle that comes too soon after the last one is  *)
(* dropped.  The flag is first corrected from the window; another thread   *)
(* that stores it meanwhile stores `closed', which the correction and the  *)
(* branches below make no difference to, so the handler is one step.       *)
(***************************************************************************)
TogglePopup ==
    IF debounceLeft > 0
    THEN UNCHANGED <<visible, active, popupOpen, debounceLeft, guardLeft, autoHide>>
    ELSE /\ debounceLeft' = Debounce
         /\ IF ~visible THEN ShowNow
            ELSE IF guardLeft > 0
            THEN popupOpen' = TRUE /\ UNCHANGED <<visible, active, guardLeft, autoHide>>
            ELSE HideNow

RunToggle ==
    /\ tasks # <<>> /\ Head(tasks) \in Toggles /\ tasks' = Tail(tasks)
    /\ TogglePopup
    /\ UNCHANGED hider

\* A hide that another thread asked for reaches the window; not the flag.
RunHide ==
    /\ tasks # <<>> /\ Head(tasks) = "hide" /\ tasks' = Tail(tasks)
    /\ visible' = FALSE /\ Activity(FALSE)
    /\ UNCHANGED <<popupOpen, debounceLeft, guardLeft, hider>>

-----------------------------------------------------------------------------
(* Other threads and the frontend                                          *)

\* Another application takes the focus, or the popup gets it back.
FocusChanges ==
    /\ visible
    /\ Activity(~active)
    /\ UNCHANGED <<visible, popupOpen, debounceLeft, guardLeft, tasks, hider>>

\* The frontend closes the popup, on Escape or when its timer runs out.
CallHidePopup(h) ==
    /\ hider[h] = "idle"
    /\ hider' = [hider EXCEPT ![h] = "hide"]
    /\ UNCHANGED <<visible, active, popupOpen, debounceLeft, guardLeft, tasks>>

EscapePressed(h) == visible /\ active /\ CallHidePopup(h) /\ UNCHANGED autoHide

AutoHideFires(h) ==
    autoHide.on /\ autoHide.left = 0 /\ CallHidePopup(h) /\ autoHide' = NoTimer

\* hide_popup_window_impl, outside the main thread: ask, then clear the flag.
HideAsked(h) ==
    /\ hider[h] = "hide" /\ Post("hide")
    /\ hider' = [hider EXCEPT ![h] = "flag"]
    /\ UNCHANGED <<visible, active, popupOpen, debounceLeft, guardLeft, autoHide>>

FlagCleared(h) ==
    /\ hider[h] = "flag"
    /\ hider' = [hider EXCEPT ![h] = "idle"]
    /\ popupOpen' = FALSE
    /\ UNCHANGED <<visible, active, debounceLeft, guardLeft, tasks, autoHide>>

\* The same two steps of a thread of another module.
HideForPaste ==
    /\ Post("hide")
    /\ UNCHANGED <<visible, active, popupOpen, debounceLeft, guardLeft, hider, autoHide>>

FlagForPaste ==
    /\ popupOpen' = FALSE
    /\ UNCHANGED <<visible, active, debounceLeft, guardLeft, tasks, hider, autoHide>>

PopupClockRuns == debounceLeft > 0 \/ guardLeft > 0 \/ autoHide.left > 0

PopupTick ==
    /\ debounceLeft' = IF debounceLeft > 0 THEN debounceLeft - 1 ELSE 0
    /\ guardLeft' = IF guardLeft > 0 THEN guardLeft - 1 ELSE 0
    /\ autoHide' = [autoHide EXCEPT !.left = IF @ > 0 THEN @ - 1 ELSE 0]
    /\ UNCHANGED <<visible, active, popupOpen, tasks, hider>>

-----------------------------------------------------------------------------
(* Properties                                                              *)

ToggleTaken ==
    /\ tasks # <<>> /\ Head(tasks) \in Toggles /\ tasks' = Tail(tasks)
    /\ debounceLeft = 0 /\ debounceLeft' = Debounce

(***************************************************************************)
(* A toggle outside the two guards does what the user sees as toggling: it *)
(* closes a popup that is on the screen and shows one that is not (or shows*)
(* nothing when showing fails), however stale the flag was that threads    *)
(* which hid the popup stored late; and it leaves the flag right.          *)
(***************************************************************************)
ToggleFlips ==
    [][ToggleTaken =>
         /\ popupOpen' = visible'
         /\ (visible /\ guardLeft = 0) => ~visible'
         /\ (visible /\ guardLeft > 0) => visible']_popupVars
=============================================================================
