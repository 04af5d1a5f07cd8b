---------------------------- MODULE PopupPlacement ----------------------------
(***************************************************************************)
(* Where the popup is shown: position_popup_near_cursor and its helpers    *)
(* (src-tauri/src/lib.rs).  Lengths are physical pixels.  The operating    *)
(* system reports positions as i32 and sizes as u32 without promising that *)
(* they make sense together, so DesktopProofs is about all of them.        *)
(*                                                                         *)
(* The candidate is the cursor, 14 logical pixels further on both axes,    *)
(* rounded to an i32 at the monitor's scale; what matters here is only     *)
(* that it is some i32.                                                    *)
(***************************************************************************)
EXTENDS Integers

CONSTANT Half    \* 2^31 in the program; the theorems about it hold for every width

I32 == -Half .. Half - 1
U32 == 0 .. 2 * Half - 1

\* i64::clamp; it panics unless low <= high.
Clamp(v, low, high) == IF v < low THEN low ELSE IF v > high THEN high ELSE v

\* The last place the popup may start at so that its end is still inside.
MaxOrigin(popupExtent, workStart, workExtent) ==
    IF popupExtent >= workExtent THEN workStart ELSE workStart + workExtent - popupExtent

\* clamp_popup_axis, computed in i64.
ClampPopupAxis(candidate, popupExtent, workStart, workExtent) ==
    Clamp(candidate, workStart, MaxOrigin(popupExtent, workStart, workExtent))

Rectangle == [x : I32, y : I32, width : U32, height : U32]

\* Half open: the pixel just beyond a monitor belongs to its neighbour.
Covers(r, p) ==
    /\ p.x >= r.x /\ p.x < r.x + r.width
    /\ p.y >= r.y /\ p.y < r.y + r.height

\* monitor_contains_cursor is about the whole monitor, panels included.
MonitorContainsCursor(monitor, cursor) == Covers(monitor.frame, cursor)

\* resolve_monitor_for_cursor: the first monitor the cursor is on.
ResolveMonitor(monitors, cursor, i) ==
    /\ i \in DOMAIN monitors /\ MonitorContainsCursor(monitors[i], cursor)
    /\ \A j \in DOMAIN monitors : j < i => ~MonitorContainsCursor(monitors[j], cursor)

\* Where position_popup_near_cursor puts a popup of this size.
FinalPosition(candidate, size, workArea) ==
    [x |-> ClampPopupAxis(candidate.x, size.width, workArea.x, workArea.width),
     y |-> ClampPopupAxis(candidate.y, size.height, workArea.y, workArea.height)]

\* The popup at position p lies within the work area.
Inside(p, size, workArea) ==
    /\ workArea.x <= p.x /\ p.x + size.width <= workArea.x + workArea.width
    /\ workArea.y <= p.y /\ p.y + size.height <= workArea.y + workArea.height
=============================================================================
