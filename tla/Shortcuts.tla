------------------------------ MODULE Shortcuts ------------------------------
(***************************************************************************)
(* Global shortcuts on Linux: three ways to have a key press reach the     *)
(* application, of which the session allows one (lib.rs register_shortcuts,*)
(* linux/shortcuts.rs, linux/shortcuts/kde.rs).                            *)
(*                                                                         *)
(*   X11     the process grabs the keys, and removes the rows that it left *)
(*           in GNOME's list in an earlier Wayland session;                *)
(*   GNOME   on Wayland: one row per action in a list of key bindings that *)
(*           all applications share and that outlives this process; GNOME  *)
(*           answers a key by running the program again with an argument;  *)
(*   KDE     a worker thread registers the actions with KGlobalAccel over  *)
(*           D-Bus and is told of presses by signals, across restarts of   *)
(*           that service and failures of the bus.                         *)
(***************************************************************************)
EXTENDS Integers, FiniteSets, Sequences, SequencesExt

CONSTANTS
    Actions,    \* toggle, starred, plaintext, in the order of Settings
    Slot,       \* numbers n of the paths customN of GNOME's list
    Key,        \* key combinations that GNOME can express
    Odd,        \* a combination that it cannot
    DefaultKeys,  \* Settings::default
    MaxOwner,   \* bound: starts of KGlobalAccel, each under a new unique name
    MaxSignals  \* bound: signals that wait for the worker

\* Unique bus names are never used again, so they are numbered.
Owner == 1..MaxOwner
NoOwner == 0

Action == Range(Actions)

NoKey == "no key"

\* Names of rows that are not an action: reset, ours of an older version,
\* and another application's.
Reset == "reset"
Old == "old"
Foreign == "foreign"

Row == [name : Action \cup {Reset, Old, Foreign}, key : Key \cup {NoKey}]

ResetRow == [name |-> Reset, key |-> NoKey]

ASSUME ShortcutsAssumption ==
    /\ Slot \subseteq Nat /\ IsFiniteSet(Slot) /\ Slot # {}
    /\ Actions \in Seq(Action) /\ IsInjective(Actions)
    /\ Odd \notin Key /\ NoKey \notin Key \cup {Odd}
    /\ Action \cap {Reset, Old, Foreign} = {}
    /\ DefaultKeys \in [Action -> Key]
    /\ MaxOwner \in Nat \ {0} /\ MaxSignals \in Nat

VARIABLES
    session,     \* the kind of desktop session
    keys,        \* the three accelerators of the settings
    grabs,       \* keys this process has grabbed
    list, row,   \* GNOME: the paths in the list, the row at every path
    reg,         \* a registration: its step and what it has read
    mechanism,   \* the mechanism last reported
    kde,         \* the KDE worker: its step, its owner, its health
    registered,  \* what the worker's session must release: <<owner, action>>
    held,        \* actions whose release it has not seen
    signals,     \* signals it has not handled
    kOwner,      \* the owner of the service's name now
    born,        \* the youngest owner there has been
    present,     \* actions that are active at that owner
    down,        \* per action: the owner that saw the key go down, or NoOwner
    owed,        \* history: presses that were not yet an activation
    kept,        \* history: rows of others that a registration found listed
    blurred,     \* history: names that could not be read, edits that raced, rows
                 \* that could be neither reset nor taken off the list
    leftActive   \* history: a release of a KDE action that failed twice

gnomeVars == <<session, keys, grabs, list, row, reg, mechanism, kept, blurred>>
kdeVars == <<kde, registered, held, signals, kOwner, born, present, down, owed, leftActive>>

Sessions == {"x11", "x11 gnome", "wayland gnome", "wayland", "kde"}

RegStep == {"idle", "read", "configure", "leftovers", "write", "clean", "cleanwrite", "grab"}

KdeStep == {"off", "top", "poll", "register", "drain", "failed", "done"}

ShortcutsTypeOK ==
    /\ session \in Sessions
    /\ keys \in [Action -> Key \cup {Odd, NoKey}]
    /\ grabs \in [Action -> Key \cup {Odd, NoKey}]
    /\ list \subseteq Slot /\ row \in [Slot -> Row]
    /\ reg.at \in RegStep /\ reg.paths \subseteq Slot /\ reg.owned \subseteq Slot
    /\ mechanism \in {"in_process", "gnome", "manual", "kde"}
    /\ kde.at \in KdeStep /\ kde.owner \in Owner \cup {NoOwner}
    /\ kde.health \in {"none", "ok", "session", "start"} /\ kde.stop \in BOOLEAN
    /\ registered \subseteq Owner \X Action /\ held \subseteq Action
    /\ born \in 0..MaxOwner /\ kOwner \in {NoOwner, born} /\ present \subseteq Action
    /\ down \in [Action -> Owner \cup {NoOwner}]
    /\ Len(signals) <= MaxSignals
    /\ kept \subseteq Slot /\ blurred \in BOOLEAN /\ leftActive \in BOOLEAN

Lowest(S) == CHOOSE s \in S : \A t \in S : s <= t

NoGrabs == [a \in Action |-> NoKey]

NoReg == [at |-> "idle", keys |-> NoGrabs, paths |-> {}, owned |-> {}, todo |-> <<>>,
          changed |-> FALSE]

NoWorker == [at |-> "off", owner |-> NoOwner, target |-> NoOwner, todo |-> <<>>,
             stop |-> FALSE, health |-> "none"]

ShortcutsInit ==
    /\ session \in Sessions
    /\ keys = DefaultKeys
    /\ grabs = NoGrabs
    /\ \/ list = {} /\ row = [s \in Slot |-> ResetRow]
       \/ /\ session \in {"x11 gnome", "wayland gnome"}
          /\ list = {Lowest(Slot)}
          /\ row = [s \in Slot |-> [ResetRow EXCEPT
                                      !.name = IF s \in list THEN Old ELSE Reset]]
    /\ reg = NoReg /\ mechanism = "in_process"
    /\ kde = NoWorker /\ registered = {} /\ held = {} /\ signals = <<>>
    /\ kOwner = NoOwner /\ born = 0 /\ present = {}
    /\ down = [a \in Action |-> NoOwner]
    /\ owed = [a \in Action |-> 0]
    /\ kept = {} /\ blurred = FALSE /\ leftActive = FALSE

-----------------------------------------------------------------------------
(* Registering: at the start, and after every change of the settings       *)

(***************************************************************************)
(* register_shortcuts drops all grabs, and sync chooses by session.  "KDE  *)
(* owns its assignments on both X11 and Wayland; never also grab keys":    *)
(* its worker is started once in the life of the process (start_kde), and  *)
(* if the thread cannot be started it never is.                            *)
(***************************************************************************)
BeginRegister ==
    /\ reg.at = "idle"
    /\ grabs' = NoGrabs
    /\ reg' = [NoReg EXCEPT
                 !.keys = keys,
                 !.at = CASE session = "x11" -> "grab"
                          [] session = "x11 gnome" -> "clean"
                          [] session = "wayland gnome" -> "read"
                          [] OTHER -> "idle"]
    /\ mechanism' = CASE session = "kde" -> "kde"
                      [] session = "wayland" -> "manual"
                      [] OTHER -> mechanism
    /\ IF session = "kde" /\ kde.at = "off" /\ kde.health = "none"
       THEN \E started \in BOOLEAN :
              kde' = IF started THEN [NoWorker EXCEPT !.at = "top"]
                     ELSE [NoWorker EXCEPT !.health = "start"]
       ELSE UNCHANGED kde
    /\ UNCHANGED <<session, keys, list, row, kept, blurred, registered, held,
                   signals, kOwner, born, present, down, owed, leftActive>>

RegRest == UNCHANGED <<session, keys>> /\ UNCHANGED kdeVars

Ours(s) == row[s].name \in Action \cup {Old}

\* One slot for each of our names: the map from labels that is built from
\* the list keeps one row of each.
OneOfEach(S) ==
    {T \in SUBSET S : /\ {row[s].name : s \in T} = {row[s].name : s \in S}
                      /\ \A s, t \in T : row[s].name = row[t].name => s = t}

\* install_gnome_bindings reads the list and the names of the rows in it.
\* A name that cannot be read makes a row of ours look like another's.
ReadListBut(unread) ==
    /\ reg.at = "read"
    /\ \E owned \in OneOfEach({s \in list \ unread : Ours(s)}) :
         reg' = [reg EXCEPT !.at = "configure", !.paths = list, !.owned = owned,
                            !.todo = Actions]
    /\ kept' = kept \cup {s \in list : row[s].name = Foreign}
    /\ blurred' = (blurred \/ unread # {})
    /\ UNCHANGED <<grabs, list, row, mechanism>>
    /\ RegRest

ReadList == ReadListBut({})

ReadListBlurred ==
    /\ Cardinality(list) + Len(Actions) <= Cardinality(Slot)
    /\ \E s \in list : Ours(s) /\ ReadListBut({s})

\* (Mutant: only this application's own rows count as taken.)
NextFreeOfOurs(paths) == Lowest({s \in Slot : s \notin paths \/ row[s].name = Foreign})

\* (Mutant: the path after the last one, however far that is.)
NextFreePastLast(paths) == IF paths = {} THEN 0 ELSE 1 + CHOOSE s \in paths : \A t \in paths : t <= s

\* "The lowest `customN' slot not already taken (other apps share this list)".
NextFreePath(paths) == Lowest(Slot \ paths)

\* to_gtk_accelerator: the key, or no binding at all.
Binding(k) == IF k \in Key THEN k ELSE NoKey

\* reset-recursively, whose failure for a row is ignored: the row stays.
Resets(rows) ==
    \E done \in SUBSET rows : row' = [s \in Slot |-> IF s \in done THEN ResetRow ELSE row[s]]

SlotFor(a) ==
    LET mine == {s \in reg.owned : row[s].name = a}
    IN  IF mine = {} THEN NextFreePath(reg.paths) ELSE Lowest(mine)

\* Bound: there is a number for the row of action a.
Room(a) ==
    \/ Binding(reg.keys[a]) = NoKey
    \/ reg.paths # Slot \/ \E s \in reg.owned : row[s].name = a

\* (Mutant: the row of an action without a binding stays in the list.)
ConfigureActionKeepsRow ==
    /\ reg.at = "configure" /\ reg.todo # <<>>
    /\ LET a == Head(reg.todo)
           mine == {s \in reg.owned : row[s].name = a}
           next == [reg EXCEPT !.todo = Tail(@)]
       IN  IF Binding(reg.keys[a]) = NoKey
           THEN reg' = [next EXCEPT !.owned = @ \ mine] /\ UNCHANGED row
           ELSE /\ reg' = [next EXCEPT !.paths = @ \cup {SlotFor(a)}, !.owned = @ \ mine,
                                       !.changed = @ \/ mine = {}]
                /\ row' = [row EXCEPT ![SlotFor(a)] = [name |-> a, key |-> reg.keys[a]]]
    /\ UNCHANGED <<grabs, list, mechanism, kept, blurred>>
    /\ RegRest

(***************************************************************************)
(* One action: its row is dropped if it has no binding, else written, in a *)
(* row of ours or at a free path.                                          *)
(***************************************************************************)
ConfigureAction ==
    /\ reg.at = "configure" /\ reg.todo # <<>> /\ Room(Head(reg.todo))
    /\ LET a == Head(reg.todo)
           mine == {s \in reg.owned : row[s].name = a}
           next == [reg EXCEPT !.todo = Tail(@)]
       IN  IF Binding(reg.keys[a]) = NoKey
           THEN /\ reg' = [next EXCEPT !.paths = @ \ mine, !.owned = @ \ mine,
                                       !.changed = @ \/ mine # {}]
                /\ Resets(mine)
           ELSE /\ reg' = [next EXCEPT !.paths = @ \cup {SlotFor(a)}, !.owned = @ \ mine,
                                       !.changed = @ \/ mine = {}]
                /\ row' = [row EXCEPT ![SlotFor(a)] = [name |-> a, key |-> reg.keys[a]]]
    /\ UNCHANGED <<grabs, list, mechanism, kept, blurred>>
    /\ RegRest

GiveUp == reg' = [reg EXCEPT !.at = "idle"] /\ mechanism' = "manual"

\* gsettings fails while a row is written, before or after its name.
ConfigureFails ==
    /\ reg.at = "configure" /\ reg.todo # <<>> /\ Room(Head(reg.todo))
    /\ LET a == Head(reg.todo) IN
         /\ Binding(reg.keys[a]) # NoKey
         /\ row' \in {row, [row EXCEPT ![SlotFor(a)].name = a]}
    /\ GiveUp
    /\ UNCHANGED <<grabs, list, kept, blurred>>
    /\ RegRest

\* Rows named like ours that match no action any more are removed.
DropLeftovers ==
    /\ reg.at = "configure" /\ reg.todo = <<>>
    /\ reg' = [reg EXCEPT !.at = "write", !.paths = @ \ reg.owned, !.owned = {},
                          !.changed = @ \/ reg.owned # {}]
    /\ Resets(reg.owned)
    /\ UNCHANGED <<grabs, list, mechanism, kept, blurred>>
    /\ RegRest

\* The list is written back as it was read plus and minus our rows, and only
\* if that is a change: an edit by another application meanwhile is lost.
WriteList ==
    /\ reg.at = "write"
    /\ list' = IF reg.changed THEN reg.paths ELSE list
    /\ reg' = [reg EXCEPT !.at = "idle"] /\ mechanism' = "gnome"
    /\ UNCHANGED <<grabs, row, kept, blurred>>
    /\ RegRest

\* gsettings fails to read or to write the list.
ListFails ==
    /\ reg.at = "read" \/ (reg.at = "write" /\ reg.changed)
    /\ GiveUp
    /\ UNCHANGED <<grabs, list, row, kept, blurred>>
    /\ RegRest

(***************************************************************************)
(* remove_gnome_bindings, on X11: "or every shortcut would fire twice".    *)
(* Its rows are reset first, then the list is written without them; any    *)
(* failure is only logged.                                                 *)
(***************************************************************************)
CleanRows ==
    /\ reg.at = "clean"
    /\ LET ours == {s \in list : Ours(s)} IN
         /\ Resets(ours)
         /\ reg' = [reg EXCEPT !.at = IF ours = {} THEN "grab" ELSE "cleanwrite",
                               !.paths = list \ ours]
    /\ kept' = kept \cup {s \in list : row[s].name = Foreign}
    /\ UNCHANGED <<grabs, list, mechanism, blurred>>
    /\ RegRest

CleanList ==
    /\ reg.at = "cleanwrite"
    /\ list' = reg.paths
    /\ reg' = [reg EXCEPT !.at = "grab"]
    /\ UNCHANGED <<grabs, row, mechanism, kept, blurred>>
    /\ RegRest

CleanFails ==
    /\ reg.at \in {"clean", "cleanwrite"}
    /\ reg' = [reg EXCEPT !.at = "grab"]
    /\ blurred' = (blurred \/ reg.at = "clean" \/ \E s \in list : Ours(s))
    /\ UNCHANGED <<grabs, list, row, mechanism, kept>>
    /\ RegRest

\* (Mutant: the process also grabs keys after it has bound rows.)
GrabKeysAnywhere ==
    /\ reg.at = "grab" \/ (reg.at = "write" /\ ~reg.changed)
    /\ grabs' = reg.keys
    /\ reg' = [reg EXCEPT !.at = "idle"] /\ mechanism' = "in_process"
    /\ UNCHANGED <<list, row, kept, blurred>>
    /\ RegRest

(***************************************************************************)
(* The rest of register_shortcuts: grab each key that is set and that no   *)
(* other action of ours or other application has.                          *)
(***************************************************************************)
GrabKeys ==
    /\ reg.at = "grab"
    /\ \E got \in SUBSET {a \in Action : reg.keys[a] # NoKey} :
         /\ \A a, b \in got : reg.keys[a] = reg.keys[b] => a = b
         /\ grabs' = [a \in Action |-> IF a \in got THEN reg.keys[a] ELSE NoKey]
    /\ reg' = [reg EXCEPT !.at = "idle"] /\ mechanism' = "in_process"
    /\ UNCHANGED <<list, row, kept, blurred>>
    /\ RegRest

Registration ==
    \/ ReadList \/ ConfigureAction \/ DropLeftovers \/ WriteList
    \/ CleanRows \/ CleanList \/ GrabKeys

GsettingsFails == ReadListBlurred \/ ConfigureFails \/ ListFails \/ CleanFails

-----------------------------------------------------------------------------
(* Other applications and the user                                         *)

\* update_settings; the dialog has reregister_shortcuts called next.
SaveKeys(a, k) ==
    /\ keys[a] # k /\ keys' = [keys EXCEPT ![a] = k]
    /\ UNCHANGED <<session, grabs, list, row, reg, mechanism, kept, blurred>>
    /\ UNCHANGED kdeVars

\* Another application adds a row of its own at a free path, or removes one.
ForeignAdds(s) ==
    /\ session \in {"x11 gnome", "wayland gnome"}
    /\ s \notin list /\ Cardinality(list) + Len(Actions) < Cardinality(Slot)
    /\ list' = list \cup {s}
    /\ row' = [row EXCEPT ![s] = [name |-> Foreign, key |-> NoKey]]
    /\ blurred' = (blurred \/ reg.at # "idle")
    /\ UNCHANGED <<session, keys, grabs, reg, mechanism, kept>>
    /\ UNCHANGED kdeVars

ForeignRemoves(s) ==
    /\ s \in list /\ row[s].name = Foreign
    /\ list' = list \ {s} /\ row' = [row EXCEPT ![s] = ResetRow]
    /\ kept' = kept \ {s}
    /\ UNCHANGED <<session, keys, grabs, reg, mechanism, blurred>>
    /\ UNCHANGED kdeVars

\* Rows of ours in the list that GNOME answers to.
Bound(a) == {s \in list : row[s].name = a /\ row[s].key # NoKey}

GnomeAnswers(a) == session \in {"x11 gnome", "wayland gnome"} /\ Bound(a) # {}

GnomeRuns(a) == GnomeAnswers(a) /\ UNCHANGED gnomeVars /\ UNCHANGED kdeVars

GrabFires(a) == grabs[a] # NoKey /\ UNCHANGED gnomeVars /\ UNCHANGED kdeVars

-----------------------------------------------------------------------------
(* The KDE worker                                                          *)

\* Session::connect, after a look at the stop flag.
KdeConnect ==
    /\ kde.at = "top"
    /\ kde' = IF kde.stop THEN [kde EXCEPT !.at = "done"]
              ELSE [kde EXCEPT !.at = "poll", !.owner = NoOwner]
    /\ UNCHANGED <<registered, held, signals, kOwner, born, present, down, owed, leftActive>>
    /\ UNCHANGED gnomeVars

KdeConnectFails ==
    /\ kde.at = "top" /\ ~kde.stop
    /\ kde' = [kde EXCEPT !.at = "failed", !.health = "session"]
    /\ UNCHANGED <<registered, held, signals, kOwner, born, present, down, owed, leftActive>>
    /\ UNCHANGED gnomeVars

\* A key held across a reset of `held' may count once more.
Forget ==
    /\ held' = {} /\ signals' = <<>>
    /\ owed' = [a \in Action |-> IF down[a] # NoOwner THEN owed[a] + 1 ELSE owed[a]]

Here(S) == {p[2] : p \in {q \in S : q[1] = kOwner}}

(***************************************************************************)
(* deactivate, and the second try of Drop: every registered action is set  *)
(* inactive at the owner it was registered with.                           *)
(***************************************************************************)
Release(failing) ==
    /\ registered' = {}
    /\ present' = present \ (Here(registered) \ failing)
    /\ leftActive' = (leftActive \/ (failing \cap Here(registered) \cap present) # {})

\* The session ends in an error and is dropped.
Fail(failing) ==
    /\ kde' = [kde EXCEPT !.at = "failed", !.health = "session", !.owner = NoOwner]
    /\ Release(failing) /\ Forget
    /\ UNCHANGED <<kOwner, born, down>> /\ UNCHANGED gnomeVars

(***************************************************************************)
(* poll: the service's owner is asked for, and the service started if it   *)
(* has none.  A new owner is registered with anew; the old one is told to  *)
(* let go, does not answer any more, and is kept to be told again.         *)
(***************************************************************************)
KdePoll ==
    /\ kde.at = "poll" /\ ~kde.stop
    /\ LET o == IF kOwner = NoOwner THEN born + 1 ELSE kOwner IN
         /\ kOwner' = o
         /\ born' = IF kOwner = NoOwner THEN born + 1 ELSE born
         /\ IF o = kde.owner
            THEN /\ kde' = [kde EXCEPT !.at = "drain"]
                 /\ UNCHANGED <<registered, held, signals, present, owed, leftActive>>
            ELSE /\ kde' = [kde EXCEPT !.at = "register", !.owner = NoOwner, !.target = o,
                                       !.todo = Actions]
                 /\ Forget /\ UNCHANGED <<registered, present, leftActive>>
    /\ UNCHANGED down /\ UNCHANGED gnomeVars

KdePollFails == kde.at = "poll" /\ ~kde.stop /\ Fail({})

\* (Mutant: an action is recorded only once its registration has answered.)
KdeRegisterUnrecorded ==
    /\ kde.at = "register" /\ kde.todo # <<>> /\ kde.target = kOwner
    /\ present' = present \cup {Head(kde.todo)}
    /\ registered' = {p \in registered : p[2] # Head(kde.todo)}
    /\ kde' = [kde EXCEPT !.todo = Tail(@)]
    /\ UNCHANGED <<held, signals, kOwner, born, down, owed, leftActive>> /\ UNCHANGED gnomeVars

(***************************************************************************)
(* register: "Keep cleanup ownership even before registration finishes or  *)
(* replies time out", so the action is recorded before the calls.          *)
(***************************************************************************)
KdeRegister ==
    /\ kde.at = "register" /\ kde.todo # <<>> /\ kde.target = kOwner
    /\ registered' = registered \cup {<<kde.target, Head(kde.todo)>>}
    /\ present' = present \cup {Head(kde.todo)}
    /\ kde' = [kde EXCEPT !.todo = Tail(@)]
    /\ UNCHANGED <<held, signals, kOwner, born, down, owed, leftActive>> /\ UNCHANGED gnomeVars

KdeRegistered ==
    /\ kde.at = "register" /\ kde.todo = <<>> /\ kde.target = kOwner
    /\ kde' = [kde EXCEPT !.at = "drain", !.owner = kde.target]
    /\ UNCHANGED <<registered, held, signals, kOwner, born, present, down, owed, leftActive>>
    /\ UNCHANGED gnomeVars

\* The owner is gone when a call reaches it.
KdeOwnerGone == kde.at = "register" /\ kde.target # kOwner /\ Fail({})

\* A call times out: the service may have carried it out all the same.
KdeRegisterTimesOut ==
    /\ kde.at = "register" /\ kde.todo # <<>> /\ kde.target = kOwner
    /\ \E failing \in {{}, {Head(kde.todo)}} :
         LET known == registered \cup {<<kde.target, Head(kde.todo)>>} IN
         /\ registered' = {}
         /\ \E done \in {{}, {Head(kde.todo)}} :
              present' = (present \cup done) \ (Here(known) \ failing)
         /\ leftActive' = (leftActive \/ failing # {})
    /\ kde' = [kde EXCEPT !.at = "failed", !.health = "session", !.owner = NoOwner]
    /\ Forget
    /\ UNCHANGED <<kOwner, born, down>> /\ UNCHANGED gnomeVars

\* activation: a signal counts only if it comes from the registered owner.
Authentic(s) == s.from = kde.owner

\* (Mutant: a repeated press counts like the first.)
NewPressLoose(s) == Authentic(s) /\ s.kind = "pressed"

NewPress(s) == Authentic(s) /\ s.kind = "pressed" /\ s.a \notin held

(***************************************************************************)
(* handle_signal, for the first signal that waits.  NewPress says whether  *)
(* it is an activation, which DesktopApp passes on to the main thread.     *)
(***************************************************************************)
KdeHandle ==
    /\ kde.at = "drain" /\ signals # <<>>
    /\ LET s == Head(signals) IN
         /\ held' = IF ~Authentic(s) THEN held
                    ELSE IF s.kind = "released" THEN held \ {s.a} ELSE held \cup {s.a}
         /\ owed' = IF NewPress(s) THEN [owed EXCEPT ![s.a] = @ - 1] ELSE owed
    /\ signals' = Tail(signals)
    /\ kde' = [kde EXCEPT !.health = "ok"]
    /\ UNCHANGED <<registered, kOwner, born, present, down, leftActive>> /\ UNCHANGED gnomeVars

KdeDrained ==
    /\ kde.at = "drain" /\ signals = <<>>
    /\ kde' = [kde EXCEPT !.at = "poll", !.health = "ok"]
    /\ UNCHANGED <<registered, held, signals, kOwner, born, present, down, owed, leftActive>>
    /\ UNCHANGED gnomeVars

\* The stop flag is seen: the keys are released and the thread ends.
KdeLeave(failing) ==
    /\ kde.at = "poll" /\ kde.stop
    /\ kde' = [kde EXCEPT !.at = "done", !.health = IF failing = {} THEN "ok" ELSE "session"]
    /\ Release(failing) /\ Forget
    /\ UNCHANGED <<kOwner, born, down>> /\ UNCHANGED gnomeVars

\* After KDE_RETRY, or woken by shutdown, the worker tries again.
KdeRetry ==
    /\ kde.at = "failed"
    /\ kde' = [kde EXCEPT !.at = IF kde.stop THEN "done" ELSE "top"]
    /\ UNCHANGED <<registered, held, signals, kOwner, born, present, down, owed, leftActive>>
    /\ UNCHANGED gnomeVars

KdeWorker ==
    \/ KdeConnect \/ KdePoll \/ KdeRegister \/ KdeRegistered \/ KdeOwnerGone
    \/ KdeDrained \/ KdeLeave({}) \/ KdeRetry

KdeFails ==
    \/ KdeConnectFails \/ KdePollFails \/ KdeRegisterTimesOut
    \/ \E a \in Action : kde.at = "poll" /\ KdeLeave({a})

\* shutdown: the flag is set and the retry woken; then the worker is joined.
KdeShutdown ==
    /\ ~kde.stop /\ kde' = [kde EXCEPT !.stop = TRUE]
    /\ UNCHANGED <<registered, held, signals, kOwner, born, present, down, owed, leftActive>>
    /\ UNCHANGED gnomeVars

\* (Mutant: a worker that was never started is waited for.)
KdeJoinedStarted == kde.stop /\ kde.at = "done"

KdeJoined == kde.stop /\ kde.at \in {"off", "done"}

-----------------------------------------------------------------------------
(* The KDE service and the keyboard                                        *)

Listening == kde.at \in {"poll", "register", "drain"}

Send(kind, a) ==
    signals' = IF Listening THEN Append(signals, [from |-> kOwner, a |-> a, kind |-> kind])
               ELSE signals

\* The service restarts under a new unique name, or goes away.
ServiceChanges ==
    /\ session = "kde" /\ born < MaxOwner
    /\ \/ kOwner # NoOwner /\ kOwner' = NoOwner /\ UNCHANGED born
       \/ born + 1 < MaxOwner /\ born' = born + 1 /\ kOwner' = born + 1
    /\ present' = {}
    /\ UNCHANGED <<kde, registered, held, signals, down, owed, leftActive>>
    /\ UNCHANGED gnomeVars

KeyDown(a) ==
    /\ session = "kde" /\ down[a] = NoOwner /\ a \in present /\ Len(signals) < MaxSignals
    /\ down' = [down EXCEPT ![a] = kOwner]
    /\ owed' = [owed EXCEPT ![a] = @ + 1]
    /\ Send("pressed", a)
    /\ UNCHANGED <<kde, registered, held, kOwner, born, present, leftActive>> /\ UNCHANGED gnomeVars

\* "KF5 repeats and KF6 releases".
KeyRepeats(a) ==
    /\ down[a] = kOwner /\ a \in present /\ Len(signals) < MaxSignals
    /\ Send("pressed", a)
    /\ UNCHANGED <<kde, registered, held, kOwner, born, present, down, owed, leftActive>>
    /\ UNCHANGED gnomeVars

KeyUp(a) ==
    /\ down[a] # NoOwner /\ Len(signals) < MaxSignals
    /\ down' = [down EXCEPT ![a] = NoOwner]
    /\ IF down[a] = kOwner THEN Send("released", a) ELSE UNCHANGED signals
    /\ UNCHANGED <<kde, registered, held, kOwner, born, present, owed, leftActive>>
    /\ UNCHANGED gnomeVars

-----------------------------------------------------------------------------
(* Properties                                                              *)

(***************************************************************************)
(* While this process has grabbed keys, GNOME answers to none of its rows  *)
(* as well, whatever an earlier session, a failed registration or a failed *)
(* write of the list has left behind: "or every shortcut would fire        *)
(* twice".                                                                 *)
(***************************************************************************)
NoDoubleBinding ==
    (\E a \in Action : grabs[a] # NoKey) => blurred \/ \A a \in Action : ~GnomeAnswers(a)

(***************************************************************************)
(* After a registration that reports success, GNOME's list holds one row   *)
(* for every action with a usable key, with that key, and none for the     *)
(* others, whatever the registrations before it left half done.            *)
(***************************************************************************)
RegisteredMeansBound ==
    (reg.at = "idle" /\ mechanism = "gnome" /\ session = "wayland gnome" /\ ~blurred) =>
      \A a \in Action :
        LET mine == {s \in list : row[s].name = a} IN
        IF Binding(reg.keys[a]) = NoKey THEN mine = {}
        ELSE \E s \in mine : mine = {s} /\ row[s].key = reg.keys[a]

(***************************************************************************)
(* A row of another application that a registration found in the list      *)
(* stays there untouched until its owner removes it, even when that owner  *)
(* and this application change the list at the same time.                  *)
(***************************************************************************)
ForeignRowsKept == \A s \in kept : s \in list /\ row[s].name = Foreign

(***************************************************************************)
(* A press of a key is one activation at most, however often the service   *)
(* repeats it.                                                             *)
(***************************************************************************)
OneActivationPerPress == \A a \in Action : owed[a] >= 0

(***************************************************************************)
(* Once the worker has ended no key is left active at the service on its   *)
(* behalf, though registrations timed out or the service was replaced,     *)
(* unless a release itself failed: "Stop the worker before exit so KDE     *)
(* releases our keys".                                                     *)
(***************************************************************************)
ExitReleasesKeys == kde.at = "done" => present = {} \/ leftActive
=============================================================================
