---------------------------- MODULE ShortcutsProofs ----------------------------
(***************************************************************************)
(* What TLAPS proves of the global shortcuts of the desktop application,   *)
(* for any actions, keys and rows of GNOME's list and any number of        *)
(* restarts.                                                               *)
(*                                                                         *)
(* KDE: what is active at the service is recorded with its owner, so the   *)
(* exit releases it; and every activation that waits is owed to a press.   *)
(* GNOME and X11: the rows of this application in GNOME's list are known   *)
(* to a registration at every step of it, so that afterwards each action   *)
(* has its one row, no row doubles a grabbed key, and no row of another    *)
(* application is lost.                                                    *)
(***************************************************************************)
EXTENDS DesktopApp, TLAPS, FiniteSetTheorems, WellFoundedInduction

-----------------------------------------------------------------------------
(* What a step of the application is to the KDE worker                     *)

FreshWorker ==
    /\ kde' = NoWorker /\ registered' = {} /\ held' = {} /\ signals' = <<>>
    /\ kOwner' = NoOwner /\ born' = 0 /\ present' = {} /\ leftActive' = FALSE
    /\ down' = [a \in Action |-> NoOwner] /\ owed' = [a \in Action |-> 0]

KdeMove ==
    \/ UNCHANGED kdeVars
    \/ BeginRegister \/ KdeShutdown \/ FreshWorker
    \/ KdeWorker \/ KdeHandle \/ KdeFails \/ ServiceChanges
    \/ \E a \in Action : KeyDown(a) \/ KeyRepeats(a) \/ KeyUp(a)

LEMMA NextIsKdeMove ==
    ASSUME [Next]_vars
    PROVE  KdeMove
  <1>1. CASE UNCHANGED kdeVars
    BY <1>1 DEF KdeMove
  <1>2. CASE SetupShortcuts \/ ReregisterShortcuts \/ LeaveKde \/ Working \/ Activating
    BY <1>2 DEF SetupShortcuts, ReregisterShortcuts, LeaveKde, Working, Activating, KdeMove
  <1>3. CASE Restart
    BY <1>3 DEF Restart, FreshWorker, KdeMove
  <1>4. CASE OthersAtShortcuts
    <2>1. GsettingsFails \/ (\E s \in Slot : ForeignAdds(s) \/ ForeignRemoves(s))
            => UNCHANGED kdeVars
      BY DEF GsettingsFails, ReadListBlurred, ReadListBut, ConfigureFails, ListFails,
         CleanFails, ForeignAdds, ForeignRemoves, RegRest
    <2> QED
      BY <1>4, <2>1 DEF OthersAtShortcuts, KdeMove
  <1>5. SetupMonitor \/ Quit \/ LeaveMonitor \/ Leave \/ MainToggle \/ MainHide \/ MainPlaintext
        => UNCHANGED kdeVars
    BY DEF SetupMonitor, Quit, LeaveMonitor, Leave, MainToggle, MainHide, MainPlaintext,
       ClipboardOnly, PopupOnly
  <1>6. \A a \in Action : TrayOrCommand(a) \/ GnomeKey(a) \/ GrabbedKey(a) => UNCHANGED kdeVars
    BY DEF TrayOrCommand, GnomeKey, GrabbedKey, GnomeRuns, GrabFires
  <1>7. \A t \in Paste : (\E p \in rows : PasteCommand(t, p)) \/ GrabbedPlaintext(t)
           \/ PasteWriteFails(t) \/ Pasting(t) => UNCHANGED kdeVars
    BY DEF PasteCommand, GrabbedPlaintext, PasteWriteFails, Pasting, PasteStep, PasteGivesUp,
       PasteHides, PasteHidden, PasteAnswered, GrabFires, ClipboardOnly
  <1>8. Monitoring \/ UserAtClipboard \/ UserAtPopup \/ Hiding \/ Tick => UNCHANGED kdeVars
    BY DEF Monitoring, UserAtClipboard, UserAtPopup, Hiding, Tick, ClipboardOnly, PopupOnly
  <1>9. Registering \/ SettingsSaved => UNCHANGED kdeVars
    BY DEF Registering, SettingsSaved, Registration, ReadList, ReadListBut, ConfigureAction,
       DropLeftovers, WriteList, CleanRows, CleanList, GrabKeys, RegRest, SaveKeys
  <1>10. CASE UNCHANGED vars
    BY <1>1, <1>10 DEF vars
  <1> QED
    BY <1>1, <1>2, <1>3, <1>4, <1>5, <1>6, <1>7, <1>8, <1>9, <1>10 DEF Next

-----------------------------------------------------------------------------
(* The keys at the KDE service                                             *)

Signal == [from : Nat, a : Action, kind : {"pressed", "released"}]

\* The types that the proofs need.
KdeShape ==
    /\ signals \in Seq(Signal) /\ kOwner \in Nat /\ born \in Nat
    /\ {"at", "owner", "target", "todo", "stop", "health"} \subseteq DOMAIN kde

(***************************************************************************)
(* The inductive invariant of ExitReleasesKeys: what is active at the      *)
(* service is recorded as registered with its owner, and nothing is        *)
(* recorded between two sessions.                                          *)
(***************************************************************************)
KeysOwned ==
    /\ kOwner = NoOwner => present = {}
    /\ leftActive \/ present \subseteq Here(registered)
    /\ kde.at \in {"off", "top", "failed", "done"} => registered = {}
    /\ kde.at = "register" => kde.target # NoOwner

KdeSafe == KdeShape /\ KeysOwned

\* Steps that leave what is registered, and where, alone.
LEMMA KdeKept ==
    ASSUME KdeSafe, UNCHANGED <<registered, kOwner, born, present, leftActive>>,
           signals' \in Seq(Signal),
           {"at", "owner", "target", "todo", "stop", "health"} \subseteq DOMAIN kde',
           kde'.at \in {"off", "top", "failed", "done"} => registered = {},
           kde'.at = "register" => kde'.target # NoOwner
    PROVE  KdeSafe'
  BY DEF KdeSafe, KdeShape, KeysOwned, Here

LEMMA ReleaseSafe ==
    ASSUME KdeSafe, NEW failing \in SUBSET Action, Release(failing), Forget,
           UNCHANGED <<kOwner, born>>, kde'.at # "register",
           {"at", "owner", "target", "todo", "stop", "health"} \subseteq DOMAIN kde'
    PROVE  KdeSafe'
  <1>1. signals' \in Seq(Signal)
    BY DEF Forget
  <1>2. leftActive' \/ present' = {}
    BY DEF Release, KdeSafe, KeysOwned
  <1>3. kOwner' = NoOwner => present' = {}
    BY DEF Release, KdeSafe, KeysOwned
  <1> QED
    BY <1>1, <1>2, <1>3 DEF Release, KdeSafe, KdeShape, KeysOwned

LEMMA PollSafe ==
    ASSUME KdeSafe, KdePoll
    PROVE  KdeSafe'
  <1>1. UNCHANGED <<registered, present, leftActive>> /\ kde'.at \in {"drain", "register"}
        /\ {"at", "owner", "target", "todo", "stop", "health"} \subseteq DOMAIN kde'
    BY DEF KdePoll, KdeSafe, KdeShape
  <1>2. signals' \in Seq(Signal)
    <2>1. signals' = signals \/ signals' = <<>>
      BY DEF KdePoll, Forget
    <2>2. signals \in Seq(Signal) /\ <<>> \in Seq(Signal)
      BY DEF KdeSafe, KdeShape
    <2> QED
      BY <2>1, <2>2
  <1>3. kOwner' \in Nat /\ born' \in Nat
    <2>1. /\ kOwner' = IF kOwner = NoOwner THEN born + 1 ELSE kOwner
          /\ born' = IF kOwner = NoOwner THEN born + 1 ELSE born
      BY DEF KdePoll
    <2>2. kOwner \in Nat /\ born \in Nat
      BY DEF KdeSafe, KdeShape
    <2> QED
      BY <2>1, <2>2
  <1>4. kOwner # NoOwner => kOwner' = kOwner
    BY DEF KdePoll
  <1>5. kOwner' # NoOwner
    BY DEF KdePoll, KdeSafe, KdeShape, NoOwner
  <1>6. kde'.at = "register" => kde'.target = kOwner'
    BY DEF KdePoll, KdeSafe, KdeShape
  <1> QED
    BY <1>1, <1>2, <1>3, <1>4, <1>5, <1>6 DEF KdeSafe, KdeShape, KeysOwned, Here

LEMMA RegisterSafe ==
    ASSUME KdeSafe, KdeRegister
    PROVE  KdeSafe'
  <1>1. /\ kde.at = "register" /\ kde.target = kOwner /\ kOwner' = kOwner
        /\ registered' = registered \cup {<<kOwner, Head(kde.todo)>>}
        /\ present' = present \cup {Head(kde.todo)}
        /\ UNCHANGED <<leftActive, signals, born>> /\ kde' = [kde EXCEPT !.todo = Tail(@)]
    BY DEF KdeRegister
  <1> DEFINE entry == <<kOwner, Head(kde.todo)>>
             mine == {q \in registered : q[1] = kOwner}
             mineNow == {q \in registered' : q[1] = kOwner'}
  <1>a. mine \subseteq mineNow /\ entry \in mineNow /\ entry[2] = Head(kde.todo)
    BY <1>1
  <1>b. Here(registered) = {p[2] : p \in mine} /\ Here(registered)' = {p[2] : p \in mineNow}
    BY DEF Here
  <1> HIDE DEF entry, mine, mineNow
  <1>2. Head(kde.todo) \in Here(registered)' /\ Here(registered) \subseteq Here(registered)'
    BY <1>a, <1>b
  <1>3. kde'.at = "register" /\ kde'.target = kde.target
        /\ {"at", "owner", "target", "todo", "stop", "health"} \subseteq DOMAIN kde'
    BY <1>1 DEF KdeSafe, KdeShape
  <1>4. KdeShape'
    BY <1>1, <1>3 DEF KdeSafe, KdeShape
  <1>5. kOwner' # NoOwner
    BY <1>1 DEF KdeSafe, KeysOwned
  <1>6. leftActive' \/ present' \subseteq Here(registered)'
    BY <1>1, <1>2 DEF KdeSafe, KeysOwned
  <1> QED
    BY <1>1, <1>3, <1>4, <1>5, <1>6 DEF KdeSafe, KeysOwned

\* What everybody at the service and in the worker does.
LEMMA WorkerSafe ==
    ASSUME KdeSafe, KdeWorker
    PROVE  KdeSafe'
  <1>1. ASSUME KdeConnect \/ KdeRegistered \/ KdeDrained \/ KdeRetry
        PROVE  KdeSafe'
    <2>1. UNCHANGED <<registered, kOwner, born, present, leftActive, signals>>
      BY <1>1 DEF KdeConnect, KdeRegistered, KdeDrained, KdeRetry
    <2>2. {"at", "owner", "target", "todo", "stop", "health"} \subseteq DOMAIN kde'
      BY <1>1 DEF KdeConnect, KdeRegistered, KdeDrained, KdeRetry, KdeSafe, KdeShape
    <2>3. kde'.at \in {"off", "top", "failed", "done"} => kde.at \in {"top", "failed"}
      BY <1>1 DEF KdeConnect, KdeRegistered, KdeDrained, KdeRetry, KdeSafe, KdeShape
    <2>4. kde'.at # "register"
      BY <1>1 DEF KdeConnect, KdeRegistered, KdeDrained, KdeRetry, KdeSafe, KdeShape
    <2>5. signals' \in Seq(Signal)
      BY <2>1 DEF KdeSafe, KdeShape
    <2> QED
      BY <2>1, <2>2, <2>3, <2>4, <2>5, KdeKept DEF KdeSafe, KeysOwned
  <1>2. ASSUME KdeOwnerGone
        PROVE  KdeSafe'
    BY <1>2, ReleaseSafe DEF KdeOwnerGone, Fail, KdeSafe, KdeShape
  <1>3. ASSUME KdeLeave({})
        PROVE  KdeSafe'
    BY <1>3, ReleaseSafe DEF KdeLeave, KdeSafe, KdeShape
  <1> QED
    BY <1>1, <1>2, <1>3, PollSafe, RegisterSafe DEF KdeWorker

LEMMA FailSafe ==
    ASSUME KdeSafe, KdeFails
    PROVE  KdeSafe'
  <1>1. ASSUME KdeConnectFails
        PROVE  KdeSafe'
    BY <1>1, KdeKept DEF KdeConnectFails, KdeSafe, KdeShape, KeysOwned
  <1>2. ASSUME KdePollFails
        PROVE  KdeSafe'
    BY <1>2, ReleaseSafe DEF KdePollFails, Fail, KdeSafe, KdeShape
  <1>3. ASSUME NEW a \in Action, KdeLeave({a})
        PROVE  KdeSafe'
    BY <1>3, ReleaseSafe DEF KdeLeave, KdeSafe, KdeShape
  <1>4. ASSUME KdeRegisterTimesOut
        PROVE  KdeSafe'
    <2> DEFINE a == Head(kde.todo)
               known == registered \cup {<<kde.target, a>>}
    <2>1. PICK failing \in {{}, {a}}, done \in {{}, {a}} :
            /\ present' = (present \cup done) \ (Here(known) \ failing)
            /\ leftActive' = (leftActive \/ failing # {})
      BY <1>4 DEF KdeRegisterTimesOut
    <2>2. kde.target = kOwner /\ kde.at = "register" /\ registered' = {} /\ signals' = <<>>
          /\ UNCHANGED <<kOwner, born>> /\ kde'.at = "failed"
          /\ {"at", "owner", "target", "todo", "stop", "health"} \subseteq DOMAIN kde'
      BY <1>4 DEF KdeRegisterTimesOut, Forget, KdeSafe, KdeShape
    <2>3. a \in Here(known) /\ Here(registered) \subseteq Here(known)
      <3> DEFINE mine == {q \in registered : q[1] = kOwner}
                 all == {q \in known : q[1] = kOwner}
      <3>1. mine \subseteq all /\ <<kde.target, a>> \in all /\ <<kde.target, a>>[2] = a
        BY <2>2
      <3>2. Here(registered) = {p[2] : p \in mine} /\ Here(known) = {p[2] : p \in all}
        BY DEF Here
      <3> HIDE DEF mine, all
      <3> QED
        BY <3>1, <3>2
    <2>4. leftActive' \/ present' = {}
      BY <2>1, <2>3 DEF KdeSafe, KeysOwned
    <2>5. kOwner # NoOwner
      BY <2>2 DEF KdeSafe, KeysOwned
    <2>6. <<>> \in Seq(Signal)
      OBVIOUS
    <2> QED
      BY <2>2, <2>4, <2>5, <2>6 DEF KdeSafe, KdeShape, KeysOwned
  <1> QED
    BY <1>1, <1>2, <1>3, <1>4 DEF KdeFails

LEMMA SentSafe ==
    ASSUME KdeSafe, NEW a \in Action, KeyDown(a) \/ KeyRepeats(a) \/ KeyUp(a)
    PROVE  KdeSafe'
  <1>1. UNCHANGED <<kde, registered, kOwner, born, present, leftActive>>
    BY DEF KeyDown, KeyRepeats, KeyUp
  <1>2. /\ [from |-> kOwner, a |-> a, kind |-> "pressed"] \in Signal
        /\ [from |-> kOwner, a |-> a, kind |-> "released"] \in Signal
    BY DEF KdeSafe, KdeShape, Signal
  <1>3. \/ signals' = signals
        \/ signals' = Append(signals, [from |-> kOwner, a |-> a, kind |-> "pressed"])
        \/ signals' = Append(signals, [from |-> kOwner, a |-> a, kind |-> "released"])
    BY DEF KeyDown, KeyRepeats, KeyUp, Send
  <1>4. signals \in Seq(Signal)
    BY DEF KdeSafe, KdeShape
  <1>5. signals' \in Seq(Signal)
    BY <1>2, <1>3, <1>4
  <1> QED
    BY <1>1, <1>5, KdeKept DEF KdeSafe, KdeShape, KeysOwned

LEMMA HandleSafe ==
    ASSUME KdeSafe, KdeHandle
    PROVE  KdeSafe' /\ Head(signals) \in Signal
  <1>1. signals \in Seq(Signal) /\ signals # <<>> /\ signals' = Tail(signals)
    BY DEF KdeSafe, KdeShape, KdeHandle
  <1>2. signals' \in Seq(Signal) /\ Head(signals) \in Signal
    BY <1>1
  <1> QED
    BY <1>2, KdeKept DEF KdeHandle, KdeSafe, KdeShape, KeysOwned

LEMMA ServiceSafe ==
    ASSUME KdeSafe, ServiceChanges
    PROVE  KdeSafe'
  <1>1. UNCHANGED <<kde, registered, signals, leftActive>> /\ present' = {}
    BY DEF ServiceChanges
  <1>2. born \in Nat
    BY DEF KdeSafe, KdeShape
  <1>3. born' \in Nat /\ kOwner' \in Nat
    BY <1>2 DEF ServiceChanges, NoOwner
  <1> QED
    BY <1>1, <1>3 DEF KdeSafe, KdeShape, KeysOwned

\* A registration starts the worker, with nothing registered.
LEMMA BeginSafe ==
    ASSUME KdeSafe, BeginRegister
    PROVE  KdeSafe'
  <1>1. UNCHANGED <<registered, kOwner, born, present, leftActive, signals>>
    BY DEF BeginRegister
  <1>2. \/ kde' = kde
        \/ /\ kde.at = "off" /\ kde'.at \in {"off", "top"}
           /\ {"at", "owner", "target", "todo", "stop", "health"} \subseteq DOMAIN kde'
    BY DEF BeginRegister, NoWorker
  <1> QED
    BY <1>1, <1>2, KdeKept DEF KdeSafe, KdeShape, KeysOwned

LEMMA KdeNext ==
    ASSUME KdeSafe, [Next]_vars
    PROVE  KdeSafe'
  <1>1. CASE UNCHANGED kdeVars
    BY <1>1 DEF kdeVars, KdeSafe, KdeShape, KeysOwned, Here
  <1>2. CASE KdeShutdown
    BY <1>2, KdeKept DEF KdeShutdown, KdeSafe, KdeShape, KeysOwned
  <1>3. CASE FreshWorker
    BY <1>3 DEF FreshWorker, KdeSafe, KdeShape, KeysOwned, NoWorker, NoOwner
  <1> QED
    BY <1>1, <1>2, <1>3, NextIsKdeMove, BeginSafe, WorkerSafe, FailSafe, HandleSafe, ServiceSafe,
       SentSafe DEF KdeMove

LEMMA KdeInit ==
    ASSUME Init
    PROVE  KdeSafe
  <1>1. /\ signals = <<>> /\ kOwner = 0 /\ born = 0 /\ present = {} /\ registered = {}
        /\ kde = NoWorker
    BY DEF Init, ShortcutsInit, NoOwner
  <1>2. <<>> \in Seq(Signal)
    OBVIOUS
  <1>3. /\ {"at", "owner", "target", "todo", "stop", "health"} \subseteq DOMAIN NoWorker
        /\ NoWorker.at = "off"
    BY DEF NoWorker
  <1> QED
    BY <1>1, <1>2, <1>3 DEF KdeSafe, KdeShape, KeysOwned

\* The inductive invariant of ExitReleasesKeys.
THEOREM KeysOwnedAlways == Spec => []KdeSafe
  BY KdeInit, KdeNext, PTL DEF Spec

(***************************************************************************)
(* The exit leaves no key active at KGlobalAccel, through any number of    *)
(* restarts of the service, timeouts and failures of the bus, unless a     *)
(* release itself failed.                                                  *)
(***************************************************************************)
THEOREM ExitAlwaysReleasesKeys == Spec => []ExitReleasesKeys
  <1>1. KdeSafe => ExitReleasesKeys
    BY DEF KdeSafe, KeysOwned, ExitReleasesKeys, Here
  <1> QED
    BY <1>1, KeysOwnedAlways, PTL

-----------------------------------------------------------------------------
(* Presses that wait for the worker                                        *)

\* The signals of q that owner e sent for action a.
From(q, e, a) == {i \in 1..Len(q) : q[i].from = e /\ q[i].a = a}

\* Whether the worker believes a held before it handles signal i, if it
\* believes the actions in h held now.
HeldBefore(q, e, a, h, i) ==
    \/ \E j \in From(q, e, a) :
         /\ j < i /\ q[j].kind = "pressed"
         /\ \A k \in From(q, e, a) : k < i => k <= j
    \/ a \in h /\ \A j \in From(q, e, a) : j >= i

\* The signals that will be activations.
Counting(q, e, a, h) ==
    {i \in From(q, e, a) : q[i].kind = "pressed" /\ ~HeldBefore(q, e, a, h, i)}

\* The next repeat of a press would be one.
RepeatCounts(q, e, a, h) == ~HeldBefore(q, e, a, h, Len(q) + 1)

LEMMA CountingFinite ==
    ASSUME NEW q \in Seq(Signal), NEW e, NEW a, NEW h
    PROVE  IsFiniteSet(Counting(q, e, a, h)) /\ Cardinality(Counting(q, e, a, h)) \in Nat
  <1>1. Len(q) \in Nat
    OBVIOUS
  <1>2. IsFiniteSet(1..Len(q))
    BY <1>1, FS_Interval
  <1>3. Counting(q, e, a, h) \in SUBSET (1..Len(q))
    BY DEF Counting, From
  <1>4. IsFiniteSet(Counting(q, e, a, h))
    BY <1>2, <1>3, FS_Subset
  <1> QED
    BY <1>4, FS_CardinalityType

\* Nothing waits.
LEMMA NoneCounting ==
    ASSUME NEW e, NEW a, NEW h
    PROVE  /\ Cardinality(Counting(<<>>, e, a, h)) = 0
           /\ RepeatCounts(<<>>, e, a, h) <=> a \notin h
  <1>1. From(<<>>, e, a) = {}
    BY DEF From
  <1>2. Counting(<<>>, e, a, h) = {}
    BY <1>1 DEF Counting
  <1>3. RepeatCounts(<<>>, e, a, h) <=> a \notin h
    BY <1>1 DEF RepeatCounts, HeldBefore
  <1> QED
    BY <1>2, <1>3, FS_EmptySet

\* One more signal: it counts if it is a press, from e, and a repeat would
\* have; and after it a repeat does not.
LEMMA SignalArrives ==
    ASSUME NEW q \in Seq(Signal), NEW e, NEW a, NEW h, NEW s \in Signal
    PROVE  LET p == Append(q, s)
               c == Cardinality(Counting(q, e, a, h))
               d == Cardinality(Counting(p, e, a, h)) IN
           /\ s.kind # "pressed" \/ s.from # e \/ s.a # a => d = c
           /\ s.kind = "pressed" /\ s.from = e /\ s.a = a =>
                /\ d = IF RepeatCounts(q, e, a, h) THEN c + 1 ELSE c
                /\ ~RepeatCounts(p, e, a, h)
           /\ s.from # e \/ s.a # a => (RepeatCounts(p, e, a, h) <=> RepeatCounts(q, e, a, h))
  <1> DEFINE p == Append(q, s)
             n == Len(q)
             mine == s.from = e /\ s.a = a
             F == From(q, e, a)
             G == From(p, e, a)
  <1>1. /\ n \in Nat /\ Len(p) = n + 1 /\ p[n + 1] = s
        /\ \A i \in 1..n : p[i] = q[i]
    OBVIOUS
  <1>2. F \subseteq 1..n /\ G \subseteq 1..(n + 1)
    BY <1>1 DEF From
  <1>3. \A i \in 1..n : i \in G <=> i \in F
    BY <1>1 DEF From
  <1>4. n + 1 \in G <=> mine
    BY <1>1 DEF From
  <1> HIDE DEF p, n, F, G
  <1>5. ASSUME NEW i \in 1..(n + 1)
        PROVE  HeldBefore(p, e, a, h, i) <=> HeldBefore(q, e, a, h, i)
    <2>1. \A j \in G : j < i => j \in F /\ p[j] = q[j]
      BY <1>1, <1>2, <1>3
    <2>2. \A j \in F : j \in G /\ p[j] = q[j]
      BY <1>1, <1>2, <1>3
    <2> QED
      BY <1>1, <1>2, <2>1, <2>2 DEF HeldBefore, F, G
  <1>6. RepeatCounts(q, e, a, h) <=> ~HeldBefore(q, e, a, h, n + 1)
    BY DEF RepeatCounts, n
  <1>7. RepeatCounts(p, e, a, h) <=> ~HeldBefore(p, e, a, h, n + 2)
    BY <1>1 DEF RepeatCounts
  <1>8. \A i \in 1..n : i \in Counting(p, e, a, h) <=> i \in Counting(q, e, a, h)
    BY <1>1, <1>3, <1>5 DEF Counting, F, G
  <1>9. n + 1 \in Counting(p, e, a, h) <=> mine /\ s.kind = "pressed" /\ RepeatCounts(q, e, a, h)
    BY <1>1, <1>4, <1>5, <1>6 DEF Counting, G
  <1>10. Counting(q, e, a, h) \subseteq 1..n /\ Counting(p, e, a, h) \subseteq 1..(n + 1)
    BY <1>2 DEF Counting, F, G
  <1>11. n + 1 \notin Counting(q, e, a, h)
    BY <1>1, <1>10
  <1>12. IF n + 1 \in Counting(p, e, a, h)
         THEN Counting(p, e, a, h) = Counting(q, e, a, h) \cup {n + 1}
         ELSE Counting(p, e, a, h) = Counting(q, e, a, h)
    <2>1. \A i \in 1..(n + 1) : i \in 1..n \/ i = n + 1
      BY <1>1
    <2>2. \A i : i \in Counting(p, e, a, h) <=>
                   i \in Counting(q, e, a, h) \/ (i = n + 1 /\ n + 1 \in Counting(p, e, a, h))
      BY <1>8, <1>10, <2>1
    <2> QED
      BY <2>2
  <1>13. /\ IsFiniteSet(Counting(q, e, a, h))
         /\ Cardinality(Counting(q, e, a, h)) \in Nat
    BY CountingFinite
  <1>14. Cardinality(Counting(p, e, a, h)) =
           IF n + 1 \in Counting(p, e, a, h) THEN Cardinality(Counting(q, e, a, h)) + 1
           ELSE Cardinality(Counting(q, e, a, h))
    BY <1>11, <1>12, <1>13, FS_AddElement
  <1>15. ASSUME mine, s.kind = "pressed"
         PROVE  HeldBefore(p, e, a, h, n + 2)
    <2>1. \A k \in G : k < n + 2 => k <= n + 1
      BY <1>1, <1>2
    <2> QED
      BY <1>1, <1>4, <1>15, <2>1 DEF HeldBefore, G
  <1>16. ASSUME ~mine
         PROVE  HeldBefore(p, e, a, h, n + 2) <=> HeldBefore(p, e, a, h, n + 1)
    <2>1. \A k \in G : k < n + 2 /\ k < n + 1 /\ k \in Nat
      BY <1>1, <1>2, <1>4, <1>16
    <2> QED
      BY <1>1, <2>1 DEF HeldBefore, G
  <1> QED
    BY <1>1, <1>5, <1>6, <1>7, <1>9, <1>14, <1>15, <1>16 DEF p

\* The first signal is handled: it is not counted any more.
LEMMA SignalHandled ==
    ASSUME NEW q \in Seq(Signal), q # <<>>, NEW e, NEW a, NEW h, NEW g,
           LET s == Head(q) IN
           IF s.from = e /\ s.a = a THEN a \in g <=> s.kind = "pressed" ELSE a \in g <=> a \in h
    PROVE  LET c == Cardinality(Counting(q, e, a, h))
               d == Cardinality(Counting(Tail(q), e, a, g))
               s == Head(q) IN
           /\ d <= c
           /\ s.from = e /\ s.a = a /\ s.kind = "pressed" /\ a \notin h => d <= c - 1
           /\ RepeatCounts(Tail(q), e, a, g) <=> RepeatCounts(q, e, a, h)
  <1> DEFINE p == Tail(q)
             n == Len(q)
             s == Head(q)
             F == From(q, e, a)
             G == From(p, e, a)
             C == Counting(q, e, a, h)
             D == Counting(p, e, a, g)
  <1>1. /\ n \in Nat \ {0} /\ Len(p) = n - 1 /\ q[1] = s /\ p \in Seq(Signal)
        /\ \A i \in 1..(n - 1) : p[i] = q[i + 1]
    OBVIOUS
  <1>2. F \subseteq 1..n /\ G \subseteq 1..(n - 1)
    BY <1>1 DEF From
  <1>3. \A i \in 1..(n - 1) : i \in G <=> i + 1 \in F
    BY <1>1 DEF From
  <1>4. 1 \in F <=> s.from = e /\ s.a = a
    BY <1>1 DEF From
  <1>5. IF 1 \in F THEN a \in g <=> q[1].kind = "pressed" ELSE a \in g <=> a \in h
    BY <1>1, <1>4
  <1> HIDE DEF p, n, s, F, G, C, D
  <1>6. ASSUME NEW i \in 1..n
        PROVE  HeldBefore(p, e, a, g, i) <=> HeldBefore(q, e, a, h, i + 1)
    <2>1. \A j \in G : j \in 1..(n - 1) /\ j + 1 \in F /\ p[j] = q[j + 1]
      BY <1>1, <1>2, <1>3
    <2>2. \A j \in F : j \in 1..n /\ (j # 1 => j - 1 \in G /\ p[j - 1] = q[j])
      <3> SUFFICES ASSUME NEW j \in F, j # 1 PROVE j - 1 \in G /\ p[j - 1] = q[j]
        BY <1>2
      <3>1. j \in 1..n /\ j - 1 \in 1..(n - 1) /\ (j - 1) + 1 = j
        BY <1>1, <1>2
      <3> QED
        BY <1>1, <1>3, <3>1
    <2>3. ASSUME HeldBefore(p, e, a, g, i)
          PROVE  HeldBefore(q, e, a, h, i + 1)
      <3>1. ASSUME NEW j \in G, j < i, p[j].kind = "pressed", \A k \in G : k < i => k <= j
            PROVE  HeldBefore(q, e, a, h, i + 1)
        <4>1. j + 1 \in F /\ j + 1 < i + 1 /\ q[j + 1].kind = "pressed"
          BY <2>1, <3>1
        <4>2. ASSUME NEW k \in F, k < i + 1
              PROVE  k <= j + 1
          <5>1. CASE k = 1
            BY <2>1, <5>1
          <5>2. CASE k # 1
            <6>1. k - 1 \in G /\ k \in 1..n
              BY <2>2, <5>2
            <6>2. k - 1 < i
              BY <4>2, <6>1
            <6>3. k - 1 <= j
              BY <3>1, <6>1, <6>2
            <6> QED
              BY <2>1, <6>1, <6>3
          <5> QED
            BY <5>1, <5>2
        <4> QED
          BY <4>1, <4>2 DEF HeldBefore, F
      <3>2. ASSUME a \in g, \A j \in G : j >= i
            PROVE  HeldBefore(q, e, a, h, i + 1)
        <4>1. ASSUME NEW k \in F, k # 1
              PROVE  k >= i + 1
          <5>1. k - 1 \in G /\ k \in 1..n
            BY <2>2, <4>1
          <5>2. k - 1 >= i
            BY <3>2, <5>1
          <5> QED
            BY <5>1, <5>2
        <4>2. CASE 1 \in F
          <5>1. 1 < i + 1 /\ q[1].kind = "pressed"
            BY <1>5, <3>2, <4>2
          <5>2. \A k \in F : k < i + 1 => k <= 1
            BY <2>2, <4>1
          <5> QED
            BY <4>2, <5>1, <5>2 DEF HeldBefore, F
        <4>3. CASE 1 \notin F
          <5>1. a \in h /\ \A j \in F : j >= i + 1
            BY <1>5, <3>2, <4>1, <4>3
          <5> QED
            BY <5>1 DEF HeldBefore, F
        <4> QED
          BY <4>2, <4>3
      <3> QED
        BY <2>3, <3>1, <3>2 DEF HeldBefore, G
    <2>4. ASSUME HeldBefore(q, e, a, h, i + 1)
          PROVE  HeldBefore(p, e, a, g, i)
      <3>1. ASSUME NEW j \in F, j < i + 1, q[j].kind = "pressed",
                   \A k \in F : k < i + 1 => k <= j
            PROVE  HeldBefore(p, e, a, g, i)
        <4>1. CASE j = 1
          <5>1. a \in g
            BY <1>5, <3>1, <4>1
          <5>2. ASSUME NEW k \in G
                PROVE  k >= i
            <6>1. k + 1 \in F /\ k \in 1..(n - 1)
              BY <2>1
            <6>2. ~(k + 1 < i + 1)
              BY <3>1, <4>1, <6>1
            <6> QED
              BY <6>1, <6>2
          <5> QED
            BY <5>1, <5>2 DEF HeldBefore, G
        <4>2. CASE j # 1
          <5>1. j - 1 \in G /\ p[j - 1].kind = "pressed" /\ j \in 1..n
            BY <2>2, <3>1, <4>2
          <5>2. j - 1 < i
            BY <3>1, <5>1
          <5>3. ASSUME NEW k \in G, k < i
                PROVE  k <= j - 1
            <6>1. k + 1 \in F /\ k \in 1..(n - 1)
              BY <2>1
            <6>2. k + 1 <= j
              BY <3>1, <5>3, <6>1
            <6> QED
              BY <5>1, <6>1, <6>2
          <5> QED
            BY <5>1, <5>2, <5>3 DEF HeldBefore, G
        <4> QED
          BY <4>1, <4>2
      <3>2. ASSUME a \in h, \A j \in F : j >= i + 1
            PROVE  HeldBefore(p, e, a, g, i)
        <4>1. 1 \notin F
          BY <3>2
        <4>2. ASSUME NEW k \in G
              PROVE  k >= i
          <5>1. k + 1 \in F /\ k \in 1..(n - 1)
            BY <2>1
          <5>2. k + 1 >= i + 1
            BY <3>2, <5>1
          <5> QED
            BY <5>1, <5>2
        <4> QED
          BY <1>5, <3>2, <4>1, <4>2 DEF HeldBefore, G
      <3> QED
        BY <2>4, <3>1, <3>2 DEF HeldBefore, F
    <2> QED
      BY <2>3, <2>4
  <1>7. RepeatCounts(Tail(q), e, a, g) <=> RepeatCounts(q, e, a, h)
    <2>1. RepeatCounts(p, e, a, g) <=> ~HeldBefore(p, e, a, g, n)
      BY <1>1 DEF RepeatCounts
    <2>2. RepeatCounts(q, e, a, h) <=> ~HeldBefore(q, e, a, h, n + 1)
      BY DEF RepeatCounts, n
    <2> QED
      BY <1>1, <1>6, <2>1, <2>2 DEF p
  <1>8. IsFiniteSet(C) /\ Cardinality(C) \in Nat /\ IsFiniteSet(D) /\ Cardinality(D) \in Nat
    BY <1>1, CountingFinite DEF C, D
  <1>9. D \subseteq 1..(n - 1) /\ C \subseteq 1..n
    BY <1>2 DEF Counting, C, D, F, G
  <1>10. ASSUME NEW i \in 1..(n - 1)
         PROVE  i \in D <=> i + 1 \in C
    BY <1>1, <1>3, <1>6 DEF Counting, C, D, F, G
  <1>11. IsFiniteSet(C \ {1}) /\ Cardinality(C \ {1}) = IF 1 \in C THEN Cardinality(C) - 1
                                                       ELSE Cardinality(C)
    BY <1>8, FS_RemoveElement
  <1>12. Cardinality(D) <= Cardinality(C \ {1})
    <2> DEFINE f == [i \in D |-> i + 1]
    <2>1. f \in [D -> C \ {1}]
      BY <1>9, <1>10
    <2>2. \A i, j \in D : f[i] = f[j] => i = j
      BY <1>9
    <2>3. f \in Injection(D, C \ {1})
      BY <2>1, <2>2 DEF Injection, IsInjective
    <2> QED
      BY <1>11, <2>3, FS_Injection
  <1>13. s.from = e /\ s.a = a /\ s.kind = "pressed" /\ a \notin h => 1 \in C
    <2>1. \A j \in F : ~(j < 1)
      BY <1>1, <1>2
    <2> QED
      BY <1>1, <1>4, <2>1 DEF Counting, HeldBefore, C, F
  <1> QED
    BY <1>7, <1>8, <1>11, <1>12, <1>13 DEF C, D, p, s

-----------------------------------------------------------------------------
(* Presses and activations                                                 *)

\* The owner whose signals the worker will find authentic.
Trusted == IF kde.at = "register" THEN kde.target ELSE kde.owner

Waiting(a) == Cardinality(Counting(signals, Trusted, a, held))

\* A key that is down, and whose next repeat would be an activation.
StillCounts(a) == down[a] # NoOwner /\ RepeatCounts(signals, Trusted, a, held)

(***************************************************************************)
(* The inductive invariant of OneActivationPerPress: every activation that *)
(* the waiting signals will be, and one more if a key is held that the     *)
(* worker would take for a new press, is owed.                             *)
(***************************************************************************)
PressesOwed ==
    /\ owed \in [Action -> Int] /\ down \in [Action -> Nat]
    /\ ~Listening => signals = <<>>
    /\ \A a \in Action : Waiting(a) + (IF StillCounts(a) THEN 1 ELSE 0) <= owed[a]

\* Nothing that the worker counts by changes, or there is nothing to count.
LEMMA PressesKept ==
    ASSUME PressesOwed, UNCHANGED <<signals, held, down, owed>>,
           Trusted' = Trusted \/ signals = <<>>, ~Listening' => signals = <<>>
    PROVE  PressesOwed'
  <1>1. CASE Trusted' = Trusted
    <2>1. \A a \in Action : Waiting(a)' = Waiting(a) /\ StillCounts(a)' = StillCounts(a)
      BY <1>1 DEF Waiting, StillCounts
    <2> QED
      BY <2>1 DEF PressesOwed
  <1>2. CASE signals = <<>>
    <2>1. \A a \in Action : /\ Waiting(a)' = Waiting(a)
                            /\ StillCounts(a)' <=> StillCounts(a)
      BY <1>2, NoneCounting DEF Waiting, StillCounts
    <2> QED
      BY <1>2, <2>1 DEF PressesOwed
  <1> QED
    BY <1>1, <1>2

\* What is owed is never less than nothing.
LEMMA OwedNatural ==
    ASSUME PressesOwed, KdeSafe, NEW a \in Action
    PROVE  owed[a] \in Nat /\ Waiting(a) \in Nat
  <1>1. Waiting(a) \in Nat
    BY CountingFinite DEF Waiting, KdeSafe, KdeShape
  <1> QED
    BY <1>1 DEF PressesOwed

LEMMA PressesForgotten ==
    ASSUME PressesOwed, KdeSafe, Forget, UNCHANGED down
    PROVE  PressesOwed'
  <1>1. \A a \in Action : owed[a] \in Nat
    BY OwedNatural
  <1>2. /\ owed' \in [Action -> Int]
        /\ \A a \in Action : owed'[a] = IF down[a] # NoOwner THEN owed[a] + 1 ELSE owed[a]
    BY <1>1 DEF Forget
  <1>3. \A a \in Action : /\ Waiting(a)' = 0
                          /\ StillCounts(a)' => down[a] # NoOwner
    BY NoneCounting DEF Forget, Waiting, StillCounts
  <1> QED
    BY <1>1, <1>2, <1>3 DEF PressesOwed, Forget

LEMMA PressesFresh ==
    ASSUME signals' = <<>>, down' = [a \in Action |-> NoOwner], owed' = [a \in Action |-> 0]
    PROVE  PressesOwed'
  <1>1. \A a \in Action : Waiting(a)' = 0 /\ ~StillCounts(a)'
    BY NoneCounting DEF Waiting, StillCounts
  <1> QED
    BY <1>1 DEF PressesOwed, NoOwner

LEMMA PressesOfWorker ==
    ASSUME PressesOwed, KdeSafe, KdeWorker \/ KdeFails
    PROVE  PressesOwed'
  <1>1. CASE KdeOwnerGone \/ KdeLeave({}) \/ KdePollFails \/ KdeRegisterTimesOut
             \/ \E a \in Action : kde.at = "poll" /\ KdeLeave({a})
    <2>1. Forget /\ UNCHANGED down
      BY <1>1 DEF KdeOwnerGone, KdeLeave, KdePollFails, KdeRegisterTimesOut, Fail
    <2> QED
      BY <2>1, PressesForgotten
  <1>2. CASE KdePoll
    <2>1. UNCHANGED down
      BY <1>2 DEF KdePoll
    <2>2. CASE Forget
      BY <2>1, <2>2, PressesForgotten
    <2>3. CASE ~Forget
      <3>1. /\ UNCHANGED <<signals, held, owed>> /\ kde.at = "poll"
            /\ kde' = [kde EXCEPT !.at = "drain"]
        BY <1>2, <2>3 DEF KdePoll
      <3>2. kde'.at = "drain" /\ Trusted' = Trusted
        BY <3>1 DEF Trusted, KdeSafe, KdeShape
      <3> QED
        BY <2>1, <3>1, <3>2, PressesKept DEF Listening
    <2> QED
      BY <2>2, <2>3
  <1>3. CASE KdeRegister \/ KdeRegistered \/ KdeDrained
    <2>1. UNCHANGED <<signals, held, down, owed>>
      BY <1>3 DEF KdeRegister, KdeRegistered, KdeDrained
    <2>2. Trusted' = Trusted /\ kde'.at \in {"poll", "register", "drain"}
      BY <1>3 DEF KdeRegister, KdeRegistered, KdeDrained, Trusted, KdeSafe, KdeShape
    <2> QED
      BY <2>1, <2>2, PressesKept DEF Listening
  <1>4. CASE KdeConnect \/ KdeRetry \/ KdeConnectFails
    <2>1. UNCHANGED <<signals, held, down, owed>> /\ kde.at \in {"top", "failed"}
      BY <1>4 DEF KdeConnect, KdeRetry, KdeConnectFails
    <2>2. signals = <<>>
      BY <2>1 DEF PressesOwed, Listening
    <2> QED
      BY <2>1, <2>2, PressesKept
  <1> QED
    BY <1>1, <1>2, <1>3, <1>4 DEF KdeWorker, KdeFails

LEMMA PressesHandled ==
    ASSUME PressesOwed, KdeSafe, KdeHandle
    PROVE  PressesOwed'
  <1> DEFINE s == Head(signals)
  <1>1. /\ signals \in Seq(Signal) /\ signals # <<>> /\ signals' = Tail(signals)
        /\ kde.at = "drain" /\ kde' = [kde EXCEPT !.health = "ok"] /\ down' = down
        /\ held' = IF ~Authentic(s) THEN held
                   ELSE IF s.kind = "released" THEN held \ {s.a} ELSE held \cup {s.a}
        /\ owed' = IF NewPress(s) THEN [owed EXCEPT ![s.a] = @ - 1] ELSE owed
    BY DEF KdeHandle, KdeSafe, KdeShape
  <1>2. s \in Signal /\ s.a \in Action /\ s.kind \in {"pressed", "released"}
    BY <1>1, HandleSafe DEF Signal
  <1>3. /\ kde'.at = "drain" /\ Trusted' = Trusted /\ Trusted = kde.owner
    BY <1>1 DEF Trusted, KdeSafe, KdeShape
  <1> HIDE DEF s
  <1>4. ASSUME NEW a \in Action
        PROVE  IF s.from = Trusted /\ s.a = a THEN a \in held' <=> s.kind = "pressed"
               ELSE a \in held' <=> a \in held
    BY <1>1, <1>2, <1>3 DEF Authentic
  <1>5. ASSUME NEW a \in Action
        PROVE  /\ Waiting(a)' <= Waiting(a)
               /\ NewPress(s) /\ s.a = a => Waiting(a)' <= Waiting(a) - 1
               /\ StillCounts(a)' <=> StillCounts(a)
    <2> DEFINE c == Cardinality(Counting(signals, Trusted, a, held))
               d == Cardinality(Counting(Tail(signals), Trusted, a, held'))
    <2>1. IF Head(signals).from = Trusted /\ Head(signals).a = a
          THEN a \in held' <=> Head(signals).kind = "pressed" ELSE a \in held' <=> a \in held
      BY <1>4 DEF s
    <2>2. /\ d <= c
          /\ s.from = Trusted /\ s.a = a /\ s.kind = "pressed" /\ a \notin held => d <= c - 1
          /\ RepeatCounts(Tail(signals), Trusted, a, held') <=> RepeatCounts(signals, Trusted, a, held)
      BY <1>1, <2>1, SignalHandled DEF s
    <2>3. /\ Waiting(a) = c /\ Waiting(a)' = d
          /\ StillCounts(a)' <=> down'[a] # NoOwner /\ RepeatCounts(Tail(signals), Trusted, a, held')
      BY <1>1, <1>3 DEF Waiting, StillCounts
    <2>4. NewPress(s) /\ s.a = a
            => s.from = Trusted /\ s.a = a /\ s.kind = "pressed" /\ a \notin held
      BY <1>3 DEF NewPress, Authentic
    <2> HIDE DEF c, d
    <2> QED
      BY <1>1, <2>2, <2>3, <2>4 DEF StillCounts
  <1>6. owed \in [Action -> Int]
    BY DEF PressesOwed
  <1>7. /\ owed' \in [Action -> Int]
        /\ \A a \in Action : owed'[a] = IF NewPress(s) /\ s.a = a THEN owed[a] - 1 ELSE owed[a]
    BY <1>1, <1>2, <1>6
  <1>8. \A a \in Action : Waiting(a) \in Nat
    BY OwedNatural
  <1>9. \A a \in Action : Waiting(a)' \in Nat
    <2>1. signals' \in Seq(Signal)
      BY HandleSafe DEF KdeSafe, KdeShape
    <2> QED
      BY <2>1, CountingFinite DEF Waiting
  <1>10. ASSUME NEW a \in Action
         PROVE  Waiting(a)' + (IF StillCounts(a)' THEN 1 ELSE 0) <= owed'[a]
    <2>1. Waiting(a) + (IF StillCounts(a) THEN 1 ELSE 0) <= owed[a]
      BY DEF PressesOwed
    <2> QED
      BY <1>5, <1>6, <1>7, <1>8, <1>9, <2>1
  <1> QED
    BY <1>1, <1>3, <1>7, <1>10 DEF PressesOwed, Listening

\* A key goes down, repeats or goes up: a press adds to what is owed before
\* its signal can be counted, and a repeat was counted already.
LEMMA PressesSent ==
    ASSUME PressesOwed, KdeSafe, NEW b \in Action, KeyDown(b) \/ KeyRepeats(b) \/ KeyUp(b)
    PROVE  PressesOwed'
  <1>1. UNCHANGED <<kde, held>> /\ Trusted' = Trusted /\ (Listening' <=> Listening)
    BY DEF KeyDown, KeyRepeats, KeyUp, Trusted, Listening
  <1>2. /\ signals \in Seq(Signal) /\ kOwner \in Nat
        /\ owed \in [Action -> Int] /\ down \in [Action -> Nat]
    BY DEF PressesOwed, KdeSafe, KdeShape
  <1>3. ~Listening' => signals' = <<>>
    BY DEF KeyDown, KeyRepeats, KeyUp, Send, Listening, PressesOwed
  <1>4. /\ owed' \in [Action -> Int] /\ down' \in [Action -> Nat]
        /\ \A a \in Action \ {b} : owed'[a] = owed[a] /\ down'[a] = down[a]
    BY <1>2 DEF KeyDown, KeyRepeats, KeyUp, NoOwner
  <1>5. \A a \in Action : Waiting(a) \in Nat
    BY OwedNatural
  <1>6. ASSUME NEW kind \in {"pressed", "released"},
               signals' = Append(signals, [from |-> kOwner, a |-> b, kind |-> kind])
        PROVE  /\ \A a \in Action \ {b} : /\ Waiting(a)' = Waiting(a)
                                          /\ StillCounts(a)' <=> StillCounts(a)
               /\ kind = "released" => Waiting(b)' = Waiting(b)
               /\ kind = "pressed" =>
                    \/ /\ Waiting(b)' = Waiting(b)
                       /\ StillCounts(b)' => RepeatCounts(signals, Trusted, b, held)
                    \/ /\ Waiting(b)' = Waiting(b) + 1 /\ ~StillCounts(b)'
                       /\ RepeatCounts(signals, Trusted, b, held)
    <2> DEFINE s == [from |-> kOwner, a |-> b, kind |-> kind]
    <2>1. s \in Signal /\ s.from = kOwner /\ s.a = b /\ s.kind = kind
      BY <1>2 DEF Signal
    <2> HIDE DEF s
    <2>2. signals' = Append(signals, s)
      BY <1>6 DEF s
    <2> QED
      BY <1>1, <1>2, <1>4, <1>5, <2>1, <2>2, SignalArrives DEF Waiting, StillCounts
  <1>7. ASSUME signals' = signals
        PROVE  \A a \in Action : /\ Waiting(a)' = Waiting(a)
                                 /\ down'[a] = down[a] => (StillCounts(a)' <=> StillCounts(a))
    BY <1>1, <1>7 DEF Waiting, StillCounts
  <1>8. \A a \in Action : Waiting(a) + (IF StillCounts(a) THEN 1 ELSE 0) <= owed[a]
    BY DEF PressesOwed
  <1>9. Waiting(b)' \in Nat
    BY <1>1, <1>2, <1>5, <1>6, <1>7 DEF KeyDown, KeyRepeats, KeyUp, Send
  <1>10. ASSUME NEW a \in Action \ {b}
        PROVE  Waiting(a)' + (IF StillCounts(a)' THEN 1 ELSE 0) <= owed'[a]
    <2>1. Waiting(a)' = Waiting(a) /\ (StillCounts(a)' <=> StillCounts(a))
      BY <1>4, <1>6, <1>7 DEF KeyDown, KeyRepeats, KeyUp, Send
    <2> QED
      BY <1>4, <1>8, <2>1
  <1>11. Waiting(b)' + (IF StillCounts(b)' THEN 1 ELSE 0) <= owed'[b]
    <2>1. CASE KeyDown(b)
      <3>1. owed'[b] = owed[b] + 1 /\ ~StillCounts(b)
        BY <1>2, <2>1 DEF KeyDown, StillCounts
      <3>2. Waiting(b)' + (IF StillCounts(b)' THEN 1 ELSE 0) <= Waiting(b) + 1
        BY <1>5, <1>6, <1>7, <2>1 DEF KeyDown, Send
      <3> QED
        BY <1>2, <1>5, <1>8, <1>9, <3>1, <3>2
    <2>2. CASE KeyRepeats(b)
      <3>1. owed'[b] = owed[b] /\ down' = down /\ down[b] # NoOwner
        BY <2>2 DEF KeyRepeats, KdeSafe, KeysOwned
      <3>2. CASE signals' = signals
        BY <1>7, <1>8, <3>1, <3>2
      <3>3. CASE signals' = Append(signals, [from |-> kOwner, a |-> b, kind |-> "pressed"])
        <4>1. \/ Waiting(b)' = Waiting(b) /\ (StillCounts(b)' => StillCounts(b))
              \/ Waiting(b)' = Waiting(b) + 1 /\ ~StillCounts(b)' /\ StillCounts(b)
          BY <1>1, <1>6, <3>1, <3>3 DEF StillCounts
        <4> QED
          BY <1>2, <1>5, <1>8, <1>9, <3>1, <4>1
      <3> QED
        BY <2>2, <3>2, <3>3 DEF KeyRepeats, Send
    <2>3. CASE KeyUp(b)
      <3>1. owed' = owed /\ down'[b] = NoOwner
        BY <1>2, <2>3 DEF KeyUp
      <3>2. Waiting(b)' = Waiting(b) /\ ~StillCounts(b)'
        BY <1>6, <1>7, <2>3, <3>1 DEF KeyUp, Send, StillCounts
      <3> QED
        BY <1>2, <1>5, <1>8, <1>9, <3>1, <3>2
    <2> QED
      BY <2>1, <2>2, <2>3
  <1> QED
    BY <1>3, <1>4, <1>10, <1>11 DEF PressesOwed

LEMMA PressesNext ==
    ASSUME PressesOwed, KdeSafe, [Next]_vars
    PROVE  PressesOwed'
  <1>1. CASE UNCHANGED kdeVars
    BY <1>1 DEF kdeVars, PressesOwed, Waiting, StillCounts, Trusted, Listening
  <1>2. CASE BeginRegister
    <2>1. UNCHANGED <<signals, held, down, owed>>
      BY <1>2 DEF BeginRegister
    <2>2. kde' = kde \/ (kde.at = "off" /\ ~Listening')
      BY <1>2 DEF BeginRegister, NoWorker, Listening
    <2>3. Trusted' = Trusted \/ signals = <<>>
      BY <2>2 DEF PressesOwed, Listening, Trusted
    <2>4. ~Listening' => signals = <<>>
      BY <2>2 DEF PressesOwed, Listening
    <2> QED
      BY <2>1, <2>3, <2>4, PressesKept
  <1>3. CASE KdeShutdown
    <2>1. /\ UNCHANGED <<signals, held, down, owed>> /\ kde' = [kde EXCEPT !.stop = TRUE]
      BY <1>3 DEF KdeShutdown
    <2>2. Trusted' = Trusted /\ (Listening' <=> Listening)
      BY <2>1 DEF Trusted, Listening, KdeSafe, KdeShape
    <2> QED
      BY <2>1, <2>2, PressesKept DEF PressesOwed
  <1>4. CASE ServiceChanges
    BY <1>4, PressesKept DEF ServiceChanges, PressesOwed, Trusted, Listening
  <1>5. CASE FreshWorker
    BY <1>5, PressesFresh DEF FreshWorker
  <1> QED
    BY <1>1, <1>2, <1>3, <1>4, <1>5, NextIsKdeMove, PressesOfWorker, PressesHandled, PressesSent
       DEF KdeMove

\* The inductive invariant of OneActivationPerPress.
THEOREM PressesOwedAlways == Spec => []PressesOwed
  <1>1. Init => PressesOwed
    <2> SUFFICES ASSUME Init PROVE PressesOwed
      OBVIOUS
    <2>1. /\ signals = <<>> /\ down = [a \in Action |-> NoOwner] /\ owed = [a \in Action |-> 0]
      BY DEF Init, ShortcutsInit
    <2>2. \A a \in Action : Waiting(a) = 0 /\ ~StillCounts(a)
      BY <2>1, NoneCounting DEF Waiting, StillCounts
    <2> QED
      BY <2>1, <2>2 DEF PressesOwed, NoOwner
  <1>2. PressesOwed /\ KdeSafe /\ [Next]_vars => PressesOwed'
    BY PressesNext
  <1> QED
    BY <1>1, <1>2, KeysOwnedAlways, PTL DEF Spec

(***************************************************************************)
(* One press of a key is one activation at most, however often the service *)
(* repeats it, in whatever order presses, repeats and releases reach the   *)
(* worker between restarts of the service and failures of the bus.         *)
(***************************************************************************)
THEOREM PressActivatesOnce == Spec => []OneActivationPerPress
  <1>1. PressesOwed /\ KdeSafe => OneActivationPerPress
    BY OwedNatural DEF OneActivationPerPress
  <1> QED
    BY <1>1, PressesOwedAlways, KeysOwnedAlways, PTL

-----------------------------------------------------------------------------
(* The types of the KDE worker and of the service                          *)

KdeState ==
    [at : KdeStep, owner : 0..MaxOwner, target : 0..MaxOwner, todo : Seq(Action), stop : BOOLEAN,
     health : {"none", "ok", "session", "start"}]

(***************************************************************************)
(* The types, and that an owner is left for the service to start under     *)
(* whenever it has none.                                                   *)
(***************************************************************************)
KdeTypes ==
    /\ kde \in KdeState /\ registered \subseteq Owner \X Action /\ held \subseteq Action
    /\ born \in 0..MaxOwner /\ kOwner \in {NoOwner, born} /\ (kOwner = NoOwner => born < MaxOwner)
    /\ present \subseteq Action /\ down \in [Action -> 0..MaxOwner]
    /\ Len(signals) <= MaxSignals /\ leftActive \in BOOLEAN

LEMMA OwnersExist ==
    MaxOwner \in Nat \ {0} /\ MaxSignals \in Nat /\ NoOwner = 0 /\ NoOwner \in 0..MaxOwner
  BY DesktopAppAssumption DEF ShortcutsAssumption, NoOwner

LEMMA NoWorkerIsIdle == NoWorker \in KdeState
  <1>1. <<>> \in Seq(Action)
    OBVIOUS
  <1> QED
    BY <1>1, OwnersExist DEF NoWorker, KdeState, KdeStep, NoOwner

LEMMA ReleaseTypes ==
    ASSUME KdeTypes, NEW failing, Release(failing), Forget, UNCHANGED <<kOwner, born, down>>,
           kde' \in KdeState
    PROVE  KdeTypes'
  <1>1. Len(<<>>) = 0
    OBVIOUS
  <1> QED
    BY <1>1, OwnersExist DEF KdeTypes, Release, Forget

LEMMA WorkerTypes ==
    ASSUME KdeTypes, KdeSafe, KdeWorker \/ KdeFails
    PROVE  KdeTypes'
  <1>1. CASE KdeConnect \/ KdeRegistered \/ KdeDrained \/ KdeRetry \/ KdeConnectFails
    <2>1. UNCHANGED <<registered, held, signals, kOwner, born, present, down, leftActive>>
      BY <1>1 DEF KdeConnect, KdeRegistered, KdeDrained, KdeRetry, KdeConnectFails
    <2>2. kde' \in KdeState
      BY <1>1, OwnersExist DEF KdeConnect, KdeRegistered, KdeDrained, KdeRetry, KdeConnectFails,
         KdeTypes, KdeState, KdeStep
    <2> QED
      BY <2>1, <2>2 DEF KdeTypes
  <1>2. CASE KdePoll
    <2>1. kOwner' \in 1..MaxOwner /\ born' = kOwner'
      BY <1>2, OwnersExist DEF KdePoll, KdeTypes, NoOwner
    <2>2. kde' \in KdeState
      <3>1. Actions \in Seq(Action)
        BY DesktopAppAssumption DEF ShortcutsAssumption
      <3>2. \/ kde' = [kde EXCEPT !.at = "drain"]
            \/ kde' = [kde EXCEPT !.at = "register", !.owner = NoOwner, !.target = kOwner',
                                  !.todo = Actions]
        BY <1>2 DEF KdePoll
      <3>3. kOwner' \in 0..MaxOwner
        BY <2>1, OwnersExist
      <3>4. ASSUME NEW o \in 0..MaxOwner
            PROVE  [kde EXCEPT !.at = "register", !.owner = NoOwner, !.target = o,
                               !.todo = Actions] \in KdeState
        BY <3>1, OwnersExist DEF KdeTypes, KdeState, KdeStep
      <3>5. [kde EXCEPT !.at = "drain"] \in KdeState
        BY DEF KdeTypes, KdeState, KdeStep
      <3> QED
        BY <3>2, <3>3, <3>4, <3>5
    <2>3. /\ UNCHANGED <<registered, present, leftActive, down>>
          /\ (held' = held /\ signals' = signals) \/ (held' = {} /\ signals' = <<>>)
      BY <1>2 DEF KdePoll, Forget
    <2>4. Len(<<>>) = 0
      OBVIOUS
    <2>5. Len(signals') <= MaxSignals
      BY <2>3, <2>4, OwnersExist DEF KdeTypes
    <2> QED
      BY <2>1, <2>2, <2>3, <2>5, OwnersExist DEF KdeTypes, NoOwner
  <1>3. CASE KdeRegister
    <2>1. Head(kde.todo) \in Action /\ Tail(kde.todo) \in Seq(Action)
      BY <1>3 DEF KdeRegister, KdeTypes, KdeState
    <2>2. kde.target \in Owner
      BY <1>3, OwnersExist DEF KdeRegister, KdeTypes, KdeSafe, KeysOwned, NoOwner, Owner
    <2>3. kde' \in KdeState
      BY <1>3, <2>1 DEF KdeRegister, KdeTypes, KdeState
    <2>4. registered' \subseteq Owner \X Action
      BY <1>3, <2>1, <2>2 DEF KdeRegister, KdeTypes
    <2> QED
      BY <1>3, <2>1, <2>3, <2>4 DEF KdeRegister, KdeTypes
  <1>4. CASE KdeOwnerGone \/ KdePollFails
    <2>1. Fail({})
      BY <1>4 DEF KdeOwnerGone, KdePollFails
    <2>2. kde' \in KdeState
      BY <2>1, OwnersExist DEF Fail, KdeTypes, KdeState, KdeStep
    <2> QED
      BY <2>1, <2>2, ReleaseTypes DEF Fail
  <1>5. ASSUME NEW failing, KdeLeave(failing)
        PROVE  KdeTypes'
    <2>1. kde' \in KdeState
      BY <1>5 DEF KdeLeave, KdeTypes, KdeState, KdeStep
    <2> QED
      BY <1>5, <2>1, ReleaseTypes DEF KdeLeave
  <1>6. CASE KdeRegisterTimesOut
    <2>1. Head(kde.todo) \in Action
      BY <1>6 DEF KdeRegisterTimesOut, KdeTypes, KdeState
    <2>2. kde' \in KdeState
      BY <1>6, OwnersExist DEF KdeRegisterTimesOut, KdeTypes, KdeState, KdeStep
    <2>3. Len(<<>>) = 0
      OBVIOUS
    <2>4. /\ registered' = {} /\ held' = {} /\ signals' = <<>> /\ UNCHANGED <<kOwner, born, down>>
          /\ leftActive' \in BOOLEAN
      BY <1>6 DEF KdeRegisterTimesOut, Forget, KdeTypes
    <2>5. present' \subseteq Action
      BY <1>6, <2>1 DEF KdeRegisterTimesOut, KdeTypes
    <2> QED
      BY <2>2, <2>3, <2>4, <2>5, OwnersExist DEF KdeTypes
  <1> QED
    BY <1>1, <1>2, <1>3, <1>4, <1>5, <1>6 DEF KdeWorker, KdeFails

LEMMA SentTypes ==
    ASSUME KdeTypes, KdeSafe, NEW a \in Action, KeyDown(a) \/ KeyRepeats(a) \/ KeyUp(a)
    PROVE  KdeTypes'
  <1>1. UNCHANGED <<kde, registered, held, kOwner, born, present, leftActive>>
    BY DEF KeyDown, KeyRepeats, KeyUp
  <1>2. Len(signals) < MaxSignals /\ Len(signals) \in Nat /\ signals \in Seq(Signal)
    BY DEF KeyDown, KeyRepeats, KeyUp, KdeSafe, KdeShape
  <1>3. ASSUME NEW kind
        PROVE  Len(Append(signals, [from |-> kOwner, a |-> a, kind |-> kind])) = Len(signals) + 1
    BY <1>2
  <1>4. Len(signals') <= MaxSignals
    BY <1>2, <1>3, OwnersExist DEF KeyDown, KeyRepeats, KeyUp, Send
  <1>5. down' \in [Action -> 0..MaxOwner]
    BY OwnersExist DEF KeyDown, KeyRepeats, KeyUp, KdeTypes, NoOwner
  <1> QED
    BY <1>1, <1>4, <1>5 DEF KdeTypes

LEMMA HandleTypes ==
    ASSUME KdeTypes, KdeSafe, KdeHandle
    PROVE  KdeTypes'
  <1>1. Head(signals).a \in Action
    BY HandleSafe DEF Signal
  <1>2. Len(signals') <= MaxSignals
    BY OwnersExist DEF KdeHandle, KdeTypes, KdeSafe, KdeShape
  <1>3. kde' \in KdeState
    BY DEF KdeHandle, KdeTypes, KdeState
  <1> QED
    BY <1>1, <1>2, <1>3 DEF KdeHandle, KdeTypes

LEMMA KdeTypesNext ==
    ASSUME KdeTypes, KdeSafe, [Next]_vars
    PROVE  KdeTypes'
  <1>1. CASE UNCHANGED kdeVars
    BY <1>1 DEF kdeVars, KdeTypes
  <1>2. CASE BeginRegister
    <2>1. kde' \in KdeState
      BY <1>2, NoWorkerIsIdle DEF BeginRegister, KdeTypes, KdeState, KdeStep
    <2> QED
      BY <1>2, <2>1 DEF BeginRegister, KdeTypes
  <1>3. CASE KdeShutdown
    BY <1>3 DEF KdeShutdown, KdeTypes, KdeState
  <1>4. CASE FreshWorker
    <2>1. Len(signals') = 0 /\ down' \in [Action -> 0..MaxOwner] /\ kde' \in KdeState
      BY <1>4, NoWorkerIsIdle, OwnersExist DEF FreshWorker
    <2>2. leftActive' \in BOOLEAN
      BY <1>4 DEF FreshWorker
    <2>3. 0 < MaxOwner /\ 0 <= MaxSignals
      BY OwnersExist
    <2> QED
      BY <1>4, <2>1, <2>2, <2>3, OwnersExist DEF FreshWorker, KdeTypes
  <1>5. CASE ServiceChanges
    BY <1>5, OwnersExist DEF ServiceChanges, KdeTypes, NoOwner
  <1> QED
    BY <1>1, <1>2, <1>3, <1>4, <1>5, NextIsKdeMove, WorkerTypes, SentTypes, HandleTypes DEF KdeMove

\* The types of the KDE worker and of what it and the service share.
THEOREM KdeTypesAlways == Spec => []KdeTypes
  <1>1. Init => KdeTypes
    <2> SUFFICES ASSUME Init PROVE KdeTypes
      OBVIOUS
    <2>1. Len(signals) = 0 /\ down \in [Action -> 0..MaxOwner] /\ kde \in KdeState
      BY NoWorkerIsIdle, OwnersExist DEF Init, ShortcutsInit
    <2>2. leftActive \in BOOLEAN
      BY DEF Init, ShortcutsInit
    <2>3. 0 < MaxOwner /\ 0 <= MaxSignals
      BY OwnersExist
    <2>4. /\ registered = {} /\ held = {} /\ present = {} /\ born = 0 /\ kOwner = NoOwner
      BY DEF Init, ShortcutsInit
    <2> QED
      BY <2>1, <2>2, <2>3, <2>4, OwnersExist DEF KdeTypes
  <1>2. KdeTypes /\ KdeSafe /\ [Next]_vars => KdeTypes'
    BY KdeTypesNext
  <1> QED
    BY <1>1, <1>2, KeysOwnedAlways, PTL DEF Spec

-----------------------------------------------------------------------------
(* What a step of the application is to the shortcuts of X11 and GNOME     *)

FreshRegistration ==
    /\ session' \in Sessions /\ grabs' = NoGrabs /\ reg' = NoReg /\ mechanism' = "in_process"
    /\ UNCHANGED <<keys, list, row, kept, blurred>>

GnomeStep ==
    \/ UNCHANGED gnomeVars
    \/ FreshRegistration \/ BeginRegister
    \/ ReadList \/ ReadListBlurred \/ ConfigureAction \/ ConfigureFails \/ DropLeftovers
    \/ WriteList \/ ListFails \/ CleanRows \/ CleanList \/ CleanFails \/ GrabKeys
    \/ \E a \in Action, k \in Key \cup {Odd, NoKey} : SaveKeys(a, k)
    \/ \E s \in Slot : ForeignAdds(s) \/ ForeignRemoves(s)

LEMMA NextIsGnomeStep ==
    ASSUME [Next]_vars
    PROVE  GnomeStep
  <1>1. CASE SetupShortcuts \/ ReregisterShortcuts \/ SettingsSaved
    BY <1>1 DEF SetupShortcuts, ReregisterShortcuts, SettingsSaved, GnomeStep
  <1>2. CASE Restart
    BY <1>2 DEF Restart, FreshRegistration, GnomeStep
  <1>3. CASE Registering
    BY <1>3 DEF Registering, Registration, GnomeStep
  <1>4. CASE OthersAtShortcuts
    <2>1. KdeFails \/ ServiceChanges \/ (\E a \in Action : KeyDown(a) \/ KeyRepeats(a) \/ KeyUp(a))
            => UNCHANGED gnomeVars
      BY DEF KdeFails, KdeConnectFails, KdePollFails, KdeRegisterTimesOut, KdeLeave, Fail,
         ServiceChanges, KeyDown, KeyRepeats, KeyUp
    <2> QED
      BY <1>4, <2>1 DEF OthersAtShortcuts, GsettingsFails, GnomeStep
  <1>5. SetupMonitor \/ Quit \/ LeaveMonitor \/ LeaveKde \/ Leave \/ MainToggle \/ MainHide
          \/ MainPlaintext => UNCHANGED gnomeVars
    BY DEF SetupMonitor, Quit, LeaveMonitor, LeaveKde, KdeShutdown, Leave, MainToggle, MainHide,
       MainPlaintext, ClipboardOnly, PopupOnly
  <1>6. \A a \in Action : TrayOrCommand(a) \/ GnomeKey(a) \/ GrabbedKey(a) => UNCHANGED gnomeVars
    BY DEF TrayOrCommand, GnomeKey, GrabbedKey, GnomeRuns, GrabFires
  <1>7. \A t \in Paste : (\E p \in rows : PasteCommand(t, p)) \/ GrabbedPlaintext(t)
           \/ PasteWriteFails(t) \/ Pasting(t) => UNCHANGED gnomeVars
    BY DEF PasteCommand, GrabbedPlaintext, PasteWriteFails, Pasting, PasteStep, PasteGivesUp,
       PasteHides, PasteHidden, PasteAnswered, GrabFires, ClipboardOnly
  <1>8. Monitoring \/ UserAtClipboard \/ UserAtPopup \/ Hiding \/ Tick => UNCHANGED gnomeVars
    BY DEF Monitoring, UserAtClipboard, UserAtPopup, Hiding, Tick, ClipboardOnly, PopupOnly
  <1>9. Working \/ Activating => UNCHANGED gnomeVars
    BY DEF Working, Activating, KdeWorker, KdeConnect, KdePoll, KdeRegister, KdeRegistered,
       KdeOwnerGone, Fail, KdeDrained, KdeLeave, KdeRetry, KdeHandle
  <1>10. CASE UNCHANGED vars
    BY <1>10 DEF vars, GnomeStep
  <1>11. CASE UNCHANGED gnomeVars
    BY <1>11 DEF GnomeStep
  <1> QED
    BY <1>1, <1>2, <1>3, <1>4, <1>5, <1>6, <1>7, <1>8, <1>9, <1>10, <1>11 DEF Next

-----------------------------------------------------------------------------
(* Rows and registrations                                                  *)

KeyOrNot == Key \cup {Odd, NoKey}

RegState ==
    [at : RegStep, keys : [Action -> KeyOrNot], paths : SUBSET Slot, owned : SUBSET Slot,
     todo : {q \in Seq(Action) : IsInjective(q)}, changed : BOOLEAN]

GnomeTypes ==
    /\ session \in Sessions /\ keys \in [Action -> KeyOrNot] /\ grabs \in [Action -> KeyOrNot]
    /\ list \subseteq Slot /\ row \in [Slot -> Row] /\ reg \in RegState
    /\ mechanism \in {"in_process", "gnome", "manual", "kde"}
    /\ kept \subseteq Slot /\ blurred \in BOOLEAN

LEMMA LeastNatural ==
    ASSUME NEW S \in SUBSET Nat, S # {}
    PROVE  \E m \in S : \A n \in S : m <= n
  <1>1. PICK m \in S : \A n \in S : <<n, m>> \notin OpToRel(<, Nat)
    BY NatLessThanWellFounded, WFMin, Zenon
  <1>2. \A n \in S : ~(n < m)
    BY <1>1, Zenon DEF OpToRel
  <1> QED
    BY <1>2

LEMMA LowestIn ==
    ASSUME NEW S \in SUBSET Slot, S # {}
    PROVE  Lowest(S) \in S
  <1>1. S \in SUBSET Nat
    BY DesktopAppAssumption DEF ShortcutsAssumption
  <1>2. \E m \in S : \A n \in S : m <= n
    BY <1>1, LeastNatural
  <1> QED
    BY <1>2 DEF Lowest

\* What is still to be done shrinks by its first action.
LEMMA TodoShrinks ==
    ASSUME NEW q \in Seq(Action), IsInjective(q), q # <<>>
    PROVE  /\ Tail(q) \in Seq(Action) /\ IsInjective(Tail(q))
           /\ Head(q) \in Action /\ Head(q) \notin Range(Tail(q))
           /\ Range(q) = Range(Tail(q)) \cup {Head(q)}
  <1>1. /\ Tail(q) \in Seq(Action) /\ Len(Tail(q)) = Len(q) - 1 /\ Len(q) \in Nat \ {0}
        /\ \A i \in 1..Len(Tail(q)) : Tail(q)[i] = q[i + 1]
        /\ Head(q) = q[1] /\ Head(q) \in Action
        /\ DOMAIN Tail(q) = 1..Len(Tail(q)) /\ DOMAIN q = 1..Len(q)
    OBVIOUS
  <1>2. IsInjective(Tail(q))
    <2> SUFFICES ASSUME NEW i \in 1..Len(Tail(q)), NEW j \in 1..Len(Tail(q)), Tail(q)[i] = Tail(q)[j]
                 PROVE  i = j
      BY <1>1 DEF IsInjective
    <2>1. i + 1 \in 1..Len(q) /\ j + 1 \in 1..Len(q) /\ q[i + 1] = q[j + 1]
      BY <1>1
    <2>2. i + 1 = j + 1
      BY <1>1, <2>1 DEF IsInjective
    <2> QED
      BY <2>2
  <1>3. ASSUME NEW i \in 1..Len(Tail(q))
        PROVE  Tail(q)[i] # Head(q)
    <2>1. i + 1 \in 1..Len(q) /\ 1 \in 1..Len(q) /\ i + 1 # 1
      BY <1>1
    <2>2. q[i + 1] # q[1]
      BY <1>1, <2>1 DEF IsInjective
    <2> QED
      BY <1>1, <2>2
  <1>4. Head(q) \notin Range(Tail(q))
    BY <1>1, <1>3 DEF Range
  <1>5. ASSUME NEW a \in Range(q)
        PROVE  a \in Range(Tail(q)) \cup {Head(q)}
    <2>1. PICK i \in 1..Len(q) : q[i] = a
      BY <1>1 DEF Range
    <2>2. CASE i = 1
      BY <1>1, <2>1, <2>2
    <2>3. CASE i # 1
      <3>1. i - 1 \in 1..Len(Tail(q)) /\ (i - 1) + 1 = i
        BY <1>1, <2>3
      <3>2. Tail(q)[i - 1] = a
        BY <1>1, <2>1, <3>1
      <3> QED
        BY <1>1, <3>1, <3>2 DEF Range
    <2> QED
      BY <2>2, <2>3
  <1>6. ASSUME NEW i \in 1..Len(Tail(q))
        PROVE  Tail(q)[i] \in Range(q)
    <2>1. i + 1 \in 1..Len(q)
      BY <1>1
    <2> QED
      BY <1>1, <2>1 DEF Range
  <1>7. Range(Tail(q)) \subseteq Range(q)
    BY <1>1, <1>6 DEF Range
  <1>8. Head(q) \in Range(q)
    BY <1>1 DEF Range
  <1> QED
    BY <1>1, <1>2, <1>4, <1>5, <1>7, <1>8

LEMMA RangeIn ==
    ASSUME NEW q \in Seq(Action)
    PROVE  Range(q) \subseteq Action
  <1>1. DOMAIN q = 1..Len(q) /\ \A i \in 1..Len(q) : q[i] \in Action
    OBVIOUS
  <1> QED
    BY <1>1 DEF Range

LEMMA Names ==
    /\ Action \cap {Reset, Old, Foreign} = {}
    /\ Reset # Old /\ Reset # Foreign /\ Old # Foreign
    /\ ResetRow \in Row /\ ResetRow.name = Reset
    /\ <<>> \in {q \in Seq(Action) : IsInjective(q)} /\ Range(<<>>) = {}
    /\ Actions \in {q \in Seq(Action) : IsInjective(q)} /\ Range(Actions) = Action
  <1>1. ResetRow \in Row /\ ResetRow.name = Reset
    BY DEF ResetRow, Row
  <1>2. <<>> \in Seq(Action) /\ IsInjective(<<>>) /\ Range(<<>>) = {}
    BY DEF IsInjective, Range
  <1> QED
    BY <1>1, <1>2, DesktopAppAssumption DEF ShortcutsAssumption, Reset, Old, Foreign, Action

-----------------------------------------------------------------------------
(* The inductive invariant                                                 *)

\* Each way to register belongs to its sessions.
InSession ==
    /\ reg.at \in {"read", "configure", "write"} => session = "wayland gnome"
    /\ reg.at \in {"clean", "cleanwrite"} => session = "x11 gnome"
    /\ reg.at = "grab" \/ (\E a \in Action : grabs[a] # NoKey) => session \in {"x11", "x11 gnome"}

\* No two rows have the same name of ours.
OursOnce ==
    ~blurred => \A s, t \in list \cup reg.paths :
                   row[s].name \in Action \cup {Old} /\ row[s].name = row[t].name => s = t

\* The rows that a registration still has to do with are ours, and all of ours.
OwnedRows ==
    reg.at = "configure" =>
      /\ reg.owned \subseteq list \cap reg.paths
      /\ \A s \in reg.owned : row[s].name \in Range(reg.todo) \cup {Old}
      /\ ~blurred => \A s \in list \cup reg.paths :
                        row[s].name \in Range(reg.todo) \cup {Old} => s \in reg.owned

\* What will be written back holds the rows of others that were found.
KeptListed ==
    /\ ForeignRowsKept
    /\ reg.at \in {"configure", "write", "cleanwrite"} => kept \subseteq reg.paths

\* Before and while keys are grabbed, no row of an action is listed; nor is one
\* in the list that is about to be written.
Cleaned ==
    (session = "x11 gnome" /\ ~blurred) =>
      /\ reg.at = "cleanwrite" => \A s \in reg.paths : row[s].name \notin Action
      /\ reg.at = "grab" \/ (\E a \in Action : grabs[a] # NoKey) =>
           \A s \in list \cup reg.paths : row[s].name \notin Action

BoundIn(S, a, k, rw) ==
    IF Binding(k) = NoKey THEN \A s \in S : rw[s].name # a
    ELSE \E s \in S : /\ rw[s].name = a /\ rw[s].key = k
                      /\ \A t \in S : rw[t].name = a => t = s

BoundOnce(S, a) == BoundIn(S, a, reg.keys[a], row)

\* An action that is done has its row, or none, in what will be written
\* back; and nothing has to be if nothing changed.
Bindings ==
    reg.at \in {"configure", "write"} /\ ~blurred =>
      /\ \A a \in Action : (reg.at = "configure" => a \notin Range(reg.todo)) => BoundOnce(reg.paths, a)
      /\ ~reg.changed => list \subseteq reg.paths /\ \A s \in reg.paths \ list : row[s].name \notin Action

Registered ==
    (reg.at = "idle" /\ mechanism = "gnome" /\ session = "wayland gnome" /\ ~blurred) =>
      \A a \in Action : BoundOnce(list, a)

GnomeInv ==
    /\ GnomeTypes /\ InSession /\ OursOnce /\ OwnedRows /\ KeptListed /\ Cleaned
    /\ Bindings /\ Registered

LEMMA GnomeKept ==
    ASSUME GnomeInv, UNCHANGED <<session, grabs, list, row, reg, mechanism, kept, blurred>>,
           keys' \in [Action -> KeyOrNot]
    PROVE  GnomeInv'
  <1>1. GnomeTypes' /\ InSession' /\ Cleaned'
    BY DEF GnomeInv, GnomeTypes, InSession, Cleaned
  <1>2. OursOnce' /\ OwnedRows' /\ KeptListed'
    BY DEF GnomeInv, OursOnce, OwnedRows, KeptListed, ForeignRowsKept
  <1>3. \A S, a : BoundOnce(S, a)' <=> BoundOnce(S, a)
    BY DEF BoundOnce, BoundIn
  <1>4. Bindings' /\ Registered'
    BY <1>3 DEF GnomeInv, Bindings, Registered
  <1> QED
    BY <1>1, <1>2, <1>4 DEF GnomeInv

\* The rows of an action are the same ones as before, in another set.
LEMMA SameRows ==
    ASSUME NEW a, NEW k, NEW S, NEW T, NEW old, NEW new, BoundIn(S, a, k, old),
           \A s \in S : old[s].name = a => s \in T /\ new[s] = old[s],
           \A s \in T : new[s].name = a => s \in S /\ new[s] = old[s]
    PROVE  BoundIn(T, a, k, new)
  <1>1. CASE Binding(k) = NoKey
    BY <1>1 DEF BoundIn
  <1>2. CASE Binding(k) # NoKey
    <2>1. PICK s \in S : /\ old[s].name = a /\ old[s].key = k
                         /\ \A t \in S : old[t].name = a => t = s
      BY <1>2 DEF BoundIn
    <2> QED
      BY <1>2, <2>1 DEF BoundIn
  <1> QED
    BY <1>1, <1>2

\* A registration that has not read anything.
LEMMA NothingRead ==
    ASSUME GnomeInv, UNCHANGED <<keys, list, row, kept, blurred>>, grabs' = NoGrabs,
           session' \in Sessions, mechanism' \in {"in_process", "gnome", "manual", "kde"},
           reg' \in RegState, reg'.paths = {}, reg'.at \notin {"configure", "write", "cleanwrite"},
           reg'.at = "read" => session' = "wayland gnome",
           reg'.at = "clean" => session' = "x11 gnome",
           reg'.at = "grab" => session' = "x11",
           reg'.at = "idle" => session' # "wayland gnome" \/ mechanism' # "gnome"
    PROVE  GnomeInv'
  <1>1. NoGrabs \in [Action -> KeyOrNot] /\ \A a \in Action : NoGrabs[a] = NoKey
    BY DEF NoGrabs, KeyOrNot
  <1>2. GnomeTypes'
    BY <1>1 DEF GnomeInv, GnomeTypes
  <1>3. InSession' /\ Cleaned'
    BY <1>1 DEF InSession, Cleaned
  <1>4. OursOnce' /\ OwnedRows' /\ KeptListed' /\ Bindings' /\ Registered'
    BY DEF GnomeInv, OursOnce, OwnedRows, KeptListed, ForeignRowsKept, Bindings, Registered
  <1> QED
    BY <1>2, <1>3, <1>4 DEF GnomeInv

LEMMA NoRegState ==
    /\ NoReg \in RegState
    /\ NoReg.at = "idle" /\ NoReg.paths = {}
  <1>1. NoGrabs \in [Action -> KeyOrNot]
    BY DEF NoGrabs, KeyOrNot
  <1> QED
    BY <1>1, Names DEF NoReg, RegState, RegStep

LEMMA BeginRegisterSafe ==
    ASSUME GnomeInv, BeginRegister
    PROVE  GnomeInv'
  <1> DEFINE at == CASE session = "x11" -> "grab"
                     [] session = "x11 gnome" -> "clean"
                     [] session = "wayland gnome" -> "read"
                     [] OTHER -> "idle"
  <1>1. /\ UNCHANGED <<session, keys, list, row, kept, blurred>> /\ grabs' = NoGrabs
        /\ reg' = [NoReg EXCEPT !.keys = keys, !.at = at]
        /\ mechanism' = CASE session = "kde" -> "kde" [] session = "wayland" -> "manual"
                          [] OTHER -> mechanism
    BY DEF BeginRegister
  <1>2. at \in RegStep /\ session \in Sessions /\ keys \in [Action -> KeyOrNot]
        /\ mechanism \in {"in_process", "gnome", "manual", "kde"}
    BY DEF GnomeInv, GnomeTypes, RegStep
  <1>3. /\ at = "read" => session = "wayland gnome"
        /\ at = "clean" => session = "x11 gnome"
        /\ at = "grab" => session = "x11"
        /\ at = "idle" => session # "wayland gnome"
        /\ at \notin {"configure", "write", "cleanwrite"}
    BY <1>2 DEF Sessions
  <1> HIDE DEF at
  <1>4. reg' \in RegState /\ reg'.at = at /\ reg'.paths = {}
    BY <1>1, <1>2, NoRegState DEF RegState
  <1>5. mechanism' \in {"in_process", "gnome", "manual", "kde"}
    BY <1>1, <1>2
  <1> QED
    BY <1>1, <1>2, <1>3, <1>4, <1>5, NothingRead

LEMMA FreshRegistrationSafe ==
    ASSUME GnomeInv, FreshRegistration
    PROVE  GnomeInv'
  BY NothingRead, NoRegState DEF FreshRegistration

\* The registration goes on or gives up; the list and the rows stay.
LEMMA RegistrationMoves ==
    ASSUME GnomeInv, UNCHANGED <<session, keys, list, row, kept, grabs>>,
           blurred' \in BOOLEAN, blurred => blurred',
           mechanism' \in {"in_process", "gnome", "manual", "kde"}, reg' \in RegState,
           reg'.paths = reg.paths, reg'.at \in {"idle", "grab"},
           reg'.at = "grab" => /\ reg.at \in {"clean", "cleanwrite"}
                               /\ reg.at = "clean" \/ (\E s \in list : Ours(s)) => blurred',
           reg'.at = "idle" => mechanism' # "gnome"
    PROVE  GnomeInv'
  <1>1. GnomeTypes'
    BY DEF GnomeInv, GnomeTypes
  <1>2. InSession' /\ Cleaned'
    BY DEF GnomeInv, InSession, Cleaned, Ours
  <1>3. OursOnce'
    BY DEF GnomeInv, OursOnce
  <1>4. OwnedRows' /\ KeptListed' /\ Bindings' /\ Registered'
    BY DEF GnomeInv, OwnedRows, KeptListed, ForeignRowsKept, Bindings, Registered
  <1> QED
    BY <1>1, <1>2, <1>3, <1>4 DEF GnomeInv

LEMMA ListFailsSafe ==
    ASSUME GnomeInv, ListFails
    PROVE  GnomeInv'
  <1>1. reg \in RegState /\ reg' = [reg EXCEPT !.at = "idle"]
    BY DEF ListFails, GiveUp, GnomeInv, GnomeTypes
  <1>2. reg' \in RegState /\ reg'.at = "idle" /\ reg'.paths = reg.paths
    BY <1>1 DEF RegState, RegStep
  <1>3. blurred \in BOOLEAN
    BY DEF GnomeInv, GnomeTypes
  <1> QED
    BY <1>2, <1>3, RegistrationMoves DEF ListFails, GiveUp, RegRest

LEMMA CleanFailsSafe ==
    ASSUME GnomeInv, CleanFails
    PROVE  GnomeInv'
  <1>1. reg \in RegState /\ reg' = [reg EXCEPT !.at = "grab"] /\ reg.at \in {"clean", "cleanwrite"}
    BY DEF CleanFails, GnomeInv, GnomeTypes
  <1>2. reg' \in RegState /\ reg'.at = "grab" /\ reg'.paths = reg.paths
    BY <1>1 DEF RegState, RegStep
  <1>3. blurred' = (blurred \/ reg.at = "clean" \/ \E s \in list : Ours(s))
    BY DEF CleanFails
  <1>4. /\ blurred' \in BOOLEAN /\ (blurred => blurred')
        /\ reg.at = "clean" \/ (\E s \in list : Ours(s)) => blurred'
    BY <1>3
  <1>5. mechanism' \in {"in_process", "gnome", "manual", "kde"}
    BY DEF CleanFails, GnomeInv, GnomeTypes
  <1> QED
    BY <1>1, <1>2, <1>4, <1>5, RegistrationMoves DEF CleanFails, RegRest

LEMMA SaveKeysSafe ==
    ASSUME GnomeInv, NEW a \in Action, NEW k \in KeyOrNot, SaveKeys(a, k)
    PROVE  GnomeInv'
  <1>1. /\ UNCHANGED <<session, grabs, list, row, reg, mechanism, kept, blurred>>
        /\ keys' \in [Action -> KeyOrNot]
    BY DEF SaveKeys, GnomeInv, GnomeTypes
  <1> QED
    BY <1>1, GnomeKept

\* A row of each of our names is every row of ours when they are all different.
LEMMA OneOfEachIsAll ==
    ASSUME NEW S, NEW T \in OneOfEach(S),
           \A s, t \in S : row[s].name = row[t].name => s = t
    PROVE  T = S
  BY DEF OneOfEach

LEMMA ReadListSafe ==
    ASSUME GnomeInv, NEW unread, ReadListBut(unread), unread \in SUBSET list
    PROVE  GnomeInv'
  <1>1. PICK owned \in OneOfEach({s \in list \ unread : Ours(s)}) :
          reg' = [reg EXCEPT !.at = "configure", !.paths = list, !.owned = owned, !.todo = Actions]
    BY DEF ReadListBut
  <1>2. /\ UNCHANGED <<session, keys, grabs, list, row, mechanism>>
        /\ kept' = kept \cup {s \in list : row[s].name = Foreign}
        /\ blurred' = (blurred \/ unread # {}) /\ reg.at = "read"
    BY DEF ReadListBut, RegRest
  <1>3. GnomeTypes
    BY DEF GnomeInv
  <1>4. owned \subseteq list /\ \A s \in owned : row[s].name \in Action \cup {Old}
    BY <1>1 DEF OneOfEach, Ours
  <1>5. /\ reg'.at = "configure" /\ reg'.paths = list /\ reg'.owned = owned
        /\ reg'.todo = Actions /\ reg' \in RegState
    BY <1>1, <1>3, <1>4, Names DEF GnomeTypes, RegState, RegStep
  <1>6. GnomeTypes'
    BY <1>2, <1>3, <1>5 DEF GnomeTypes
  <1>7. InSession' /\ Cleaned'
    BY <1>2, <1>5 DEF GnomeInv, InSession, Cleaned
  <1>8. OursOnce'
    BY <1>2, <1>5 DEF GnomeInv, OursOnce
  <1>9. ASSUME ~blurred' PROVE owned = {s \in list : Ours(s)}
    <2>1. ~blurred /\ unread = {}
      BY <1>2, <1>9
    <2>2. {s \in list \ unread : Ours(s)} = {s \in list : Ours(s)}
      BY <2>1
    <2>3. \A s, t \in {r \in list : Ours(r)} : row[s].name = row[t].name => s = t
      BY <2>1 DEF GnomeInv, OursOnce, Ours
    <2> QED
      BY <1>1, <2>2, <2>3, OneOfEachIsAll
  <1>10. OwnedRows'
    BY <1>2, <1>4, <1>5, <1>9, Names DEF OwnedRows, Ours
  <1>11. KeptListed'
    BY <1>2, <1>5 DEF GnomeInv, KeptListed, ForeignRowsKept
  <1>12. Bindings' /\ Registered'
    BY <1>2, <1>5, Names DEF Bindings, Registered
  <1> QED
    BY <1>6, <1>7, <1>8, <1>10, <1>11, <1>12 DEF GnomeInv

\* What a step of `configure' starts from.
LEMMA Configuring ==
    ASSUME GnomeInv, reg.at = "configure", reg.todo # <<>>
    PROVE  LET a == Head(reg.todo) IN
           /\ GnomeTypes /\ session = "wayland gnome" /\ a \in Action
           /\ Tail(reg.todo) \in {q \in Seq(Action) : IsInjective(q)}
           /\ a \notin Range(Tail(reg.todo))
           /\ Range(reg.todo) = Range(Tail(reg.todo)) \cup {a}
           /\ reg.owned \subseteq list \cap reg.paths
           /\ \A s \in reg.owned : row[s].name \in Range(reg.todo) \cup {Old}
           /\ kept \subseteq reg.paths /\ kept \subseteq list
           /\ \A s \in kept : row[s].name = Foreign
           /\ ~\E b \in Action : grabs[b] # NoKey
  <1>1. reg.todo \in Seq(Action) /\ IsInjective(reg.todo)
    BY DEF GnomeInv, GnomeTypes, RegState
  <1> QED
    BY <1>1, TodoShrinks DEF GnomeInv, InSession, OwnedRows, KeptListed, ForeignRowsKept

\* Where the row of an action goes: to one of ours, or where nothing was read.
LEMMA SlotForWhere ==
    ASSUME GnomeInv, reg.at = "configure", NEW a, Room(a), Binding(reg.keys[a]) # NoKey
    PROVE  /\ SlotFor(a) \in Slot
           /\ \/ SlotFor(a) \in reg.owned /\ row[SlotFor(a)].name = a
              \/ SlotFor(a) \notin reg.paths /\ \A s \in reg.owned : row[s].name # a
  <1> DEFINE mine == {s \in reg.owned : row[s].name = a}
  <1>1. reg.owned \subseteq Slot /\ reg.paths \subseteq Slot
    BY DEF GnomeInv, GnomeTypes, RegState
  <1>2. CASE mine = {}
    <2>1. Slot \ reg.paths # {}
      BY <1>1, <1>2 DEF Room
    <2>2. Lowest(Slot \ reg.paths) \in Slot \ reg.paths
      BY <2>1, LowestIn
    <2> QED
      BY <1>2, <2>2 DEF SlotFor, NextFreePath
  <1>3. CASE mine # {}
    <2>1. Lowest(mine) \in mine
      BY <1>1, <1>3, LowestIn
    <2>2. SlotFor(a) = Lowest(mine)
      BY <1>3 DEF SlotFor
    <2> QED
      BY <1>1, <2>1, <2>2
  <1> QED
    BY <1>2, <1>3

LEMMA BoundKey ==
    ASSUME NEW k \in KeyOrNot, Binding(k) # NoKey
    PROVE  k \in Key
  BY DEF Binding

\* Each of the rows is reset, or stays as it is.
LEMMA ResetsFacts ==
    ASSUME row \in [Slot -> Row], NEW S, Resets(S)
    PROVE  /\ row' \in [Slot -> Row]
           /\ \A s \in Slot : row'[s] = row[s] \/ (s \in S /\ row'[s] = ResetRow)
  <1>1. PICK done \in SUBSET S : row' = [s \in Slot |-> IF s \in done THEN ResetRow ELSE row[s]]
    BY DEF Resets
  <1>2. ResetRow \in Row
    BY Names
  <1>3. \A s \in Slot : row'[s] = IF s \in done THEN ResetRow ELSE row[s]
    BY <1>1
  <1>4. row' \in [Slot -> Row]
    BY <1>1, <1>2
  <1> QED
    BY <1>3, <1>4

\* An action without a binding gives its row up.
LEMMA UnbindSafe ==
    ASSUME GnomeInv, ConfigureAction, Binding(reg.keys[Head(reg.todo)]) = NoKey
    PROVE  GnomeInv'
  <1> DEFINE a == Head(reg.todo)
             rest == Tail(reg.todo)
             mine == {s \in reg.owned : row[s].name = a}
  <1>1. reg.at = "configure" /\ reg.todo # <<>>
    BY DEF ConfigureAction
  <1>2. /\ GnomeTypes /\ session = "wayland gnome" /\ a \in Action
        /\ rest \in {q \in Seq(Action) : IsInjective(q)} /\ a \notin Range(rest)
        /\ Range(reg.todo) = Range(rest) \cup {a}
        /\ reg.owned \subseteq list \cap reg.paths
        /\ \A s \in reg.owned : row[s].name \in Range(reg.todo) \cup {Old}
        /\ kept \subseteq reg.paths /\ kept \subseteq list /\ \A s \in kept : row[s].name = Foreign
        /\ ~\E b \in Action : grabs[b] # NoKey
    BY <1>1, Configuring
  <1>3. /\ UNCHANGED <<session, keys, grabs, list, mechanism, kept, blurred>>
        /\ Resets(mine)
        /\ reg' = [reg EXCEPT !.todo = Tail(@), !.paths = @ \ mine, !.owned = @ \ mine,
                              !.changed = @ \/ mine # {}]
    BY DEF ConfigureAction, RegRest
  <1>4. /\ reg \in RegState /\ reg.paths \subseteq Slot /\ list \subseteq Slot /\ kept \subseteq Slot
        /\ row \in [Slot -> Row]
    BY <1>2 DEF GnomeTypes, RegState
  <1>5. mine \subseteq reg.owned /\ \A s \in reg.owned : s \in mine <=> row[s].name = a
    OBVIOUS
  <1>6. /\ reg'.at = "configure" /\ reg'.keys = reg.keys /\ reg'.paths = reg.paths \ mine
        /\ reg'.owned = reg.owned \ mine /\ reg'.todo = rest
        /\ reg'.changed = (reg.changed \/ mine # {})
    BY <1>1, <1>3, <1>4 DEF RegState
  <1>7. /\ row' \in [Slot -> Row]
        /\ \A s \in Slot : row'[s] = row[s] \/ (s \in mine /\ row'[s] = ResetRow)
    BY <1>3, <1>4, ResetsFacts
  <1>8. reg' \in RegState
    BY <1>2, <1>3, <1>4 DEF RegState
  <1>9. a # Foreign /\ a # Old /\ Old # Foreign /\ Reset \notin Action \cup {Old} /\ ResetRow.name = Reset
    BY <1>2, Names
  <1> HIDE DEF mine, a, rest
  <1>10. GnomeTypes' /\ InSession' /\ Cleaned' /\ Registered'
    BY <1>2, <1>3, <1>6, <1>7, <1>8 DEF GnomeTypes, InSession, Cleaned, Registered
  <1>11. OursOnce'
    BY <1>3, <1>4, <1>6, <1>7, <1>9 DEF GnomeInv, OursOnce
  <1>12. OwnedRows'
    <2>1. reg'.owned \subseteq list' \cap reg'.paths
      BY <1>2, <1>3, <1>6
    <2>2. ASSUME NEW s \in reg'.owned PROVE row'[s].name \in Range(rest) \cup {Old}
      BY <1>2, <1>4, <1>5, <1>6, <1>7
    <2>3. ASSUME ~blurred', NEW s \in list' \cup reg'.paths, row'[s].name \in Range(rest) \cup {Old}
          PROVE  s \in reg'.owned
      <3>1. s \in Slot /\ s \notin mine
        <4>1. s \in Slot
          BY <1>3, <1>4, <1>6, <2>3
        <4>2. Range(rest) \subseteq Action
          BY <1>2, RangeIn
        <4> QED
          BY <1>2, <1>4, <1>5, <1>7, <1>9, <2>3, <4>1, <4>2
      <3>2. row[s].name \in Range(reg.todo) \cup {Old} /\ s \in list \cup reg.paths
        BY <1>2, <1>3, <1>6, <1>7, <2>3, <3>1
      <3>3. s \in reg.owned
        BY <1>1, <1>3, <2>3, <3>2 DEF GnomeInv, OwnedRows
      <3> QED
        BY <1>6, <3>1, <3>3
    <2> QED
      BY <1>6, <2>1, <2>2, <2>3 DEF OwnedRows
  <1>13. KeptListed'
    BY <1>2, <1>3, <1>4, <1>5, <1>6, <1>7, <1>9 DEF KeptListed, ForeignRowsKept
  <1>14. ASSUME ~blurred PROVE Bindings'
    <2>1. \A s \in reg.paths : row[s].name = a => s \in mine
      BY <1>1, <1>2, <1>5, <1>14 DEF GnomeInv, OwnedRows
    <2>2. ASSUME NEW b \in Action, b = a PROVE BoundOnce(reg.paths, b)'
      BY <1>4, <1>6, <1>7, <2>1, <2>2 DEF BoundOnce, BoundIn, a
    <2>3. ASSUME NEW b \in Action, b # a, b \notin Range(rest) PROVE BoundOnce(reg.paths, b)'
      <3>1. BoundOnce(reg.paths, b)
        BY <1>1, <1>2, <1>14, <2>3 DEF GnomeInv, Bindings
      <3>2. \A s \in mine : row[s].name # b
        BY <1>5, <2>3
      <3> QED
        BY <1>4, <1>6, <1>7, <1>9, <2>3, <3>1, <3>2 DEF BoundOnce, BoundIn
    <2>4. ASSUME ~reg'.changed
          PROVE  list' \subseteq reg'.paths /\ \A s \in reg'.paths \ list' : row'[s].name \notin Action
      <3>1. ~reg.changed /\ mine = {}
        BY <1>6, <2>4
      <3> QED
        BY <1>1, <1>3, <1>4, <1>6, <1>7, <1>14, <3>1 DEF GnomeInv, Bindings
    <2> QED
      BY <1>2, <1>6, <2>2, <2>3, <2>4 DEF Bindings
  <1> QED
    BY <1>3, <1>10, <1>11, <1>12, <1>13, <1>14 DEF GnomeInv, Bindings

\* An action with a binding has its row written.
LEMMA BindSafe ==
    ASSUME GnomeInv, ConfigureAction, Binding(reg.keys[Head(reg.todo)]) # NoKey
    PROVE  GnomeInv'
  <1> DEFINE a == Head(reg.todo)
             rest == Tail(reg.todo)
             slot == SlotFor(a)
             mine == {s \in reg.owned : row[s].name = a}
             new == [name |-> a, key |-> reg.keys[a]]
  <1>1. reg.at = "configure" /\ reg.todo # <<>> /\ Room(a)
    BY DEF ConfigureAction
  <1>2. /\ GnomeTypes /\ session = "wayland gnome" /\ a \in Action
        /\ rest \in {q \in Seq(Action) : IsInjective(q)} /\ a \notin Range(rest)
        /\ Range(reg.todo) = Range(rest) \cup {a}
        /\ reg.owned \subseteq list \cap reg.paths
        /\ \A s \in reg.owned : row[s].name \in Range(reg.todo) \cup {Old}
        /\ kept \subseteq reg.paths /\ kept \subseteq list /\ \A s \in kept : row[s].name = Foreign
        /\ ~\E b \in Action : grabs[b] # NoKey
    BY <1>1, Configuring
  <1>3. /\ UNCHANGED <<session, keys, grabs, list, mechanism, kept, blurred>>
        /\ row' = [row EXCEPT ![slot] = new]
        /\ reg' = [reg EXCEPT !.todo = Tail(@), !.paths = @ \cup {slot}, !.owned = @ \ mine,
                              !.changed = @ \/ mine = {}]
    BY DEF ConfigureAction, RegRest
  <1>4. /\ reg \in RegState /\ reg.paths \subseteq Slot /\ list \subseteq Slot /\ kept \subseteq Slot
        /\ row \in [Slot -> Row]
    BY <1>2 DEF GnomeTypes, RegState
  <1>5. /\ mine \subseteq reg.owned /\ \A s \in reg.owned : s \in mine <=> row[s].name = a
        /\ slot \in Slot
        /\ slot \in mine \/ (slot \notin reg.paths /\ mine = {})
    BY <1>1, SlotForWhere
  <1>6. /\ reg'.at = "configure" /\ reg'.keys = reg.keys /\ reg'.paths = reg.paths \cup {slot}
        /\ reg'.owned = reg.owned \ mine /\ reg'.todo = rest
        /\ reg'.changed = (reg.changed \/ mine = {})
    BY <1>1, <1>3, <1>4 DEF RegState
  <1>7. new \in Row /\ new.name = a /\ new.key = reg.keys[a]
    <2>1. reg.keys[a] \in KeyOrNot
      BY <1>2, <1>4 DEF RegState
    <2>2. reg.keys[a] \in Key
      BY <2>1, BoundKey
    <2> QED
      BY <1>2, <2>2 DEF Row
  <1>8. /\ row' \in [Slot -> Row]
        /\ \A s \in Slot : row'[s] = IF s = slot THEN new ELSE row[s]
    BY <1>3, <1>4, <1>5, <1>7
  <1>9. reg' \in RegState
    BY <1>2, <1>3, <1>4, <1>5 DEF RegState
  <1>10. a # Foreign /\ a # Old /\ Old # Foreign
    BY <1>2, Names
  <1>11. ~blurred => \A s \in list \cup reg.paths : row[s].name = a => s \in mine
    BY <1>1, <1>2, <1>5 DEF GnomeInv, OwnedRows
  <1>12. ~blurred => \A s \in list \cup reg.paths : row[s].name = a => s = slot
    <2> SUFFICES ASSUME ~blurred, NEW s \in list \cup reg.paths, row[s].name = a
                 PROVE  s = slot
      OBVIOUS
    <2>1. s \in mine /\ slot \in mine
      BY <1>5, <1>11
    <2>2. slot \in list /\ row[slot].name = a
      BY <1>2, <1>5, <2>1
    <2> QED
      BY <1>2, <2>2 DEF GnomeInv, OursOnce
  <1>13. slot \notin reg.owned \ mine /\ slot \notin kept
    BY <1>2, <1>5, <1>10
  <1>14. Binding(reg.keys[a]) # NoKey
    OBVIOUS
  <1> HIDE DEF mine, a, rest, slot, new
  <1>15. GnomeTypes' /\ InSession' /\ Cleaned' /\ Registered'
    BY <1>2, <1>3, <1>6, <1>8, <1>9 DEF GnomeTypes, InSession, Cleaned, Registered
  <1>16. OursOnce'
    <2> SUFFICES ASSUME ~blurred, NEW s \in list \cup reg'.paths, NEW t \in list \cup reg'.paths,
                        row'[s].name \in Action \cup {Old}, row'[s].name = row'[t].name
                 PROVE  s = t
      BY <1>3 DEF OursOnce
    <2>1. s \in Slot /\ t \in Slot
      BY <1>4, <1>5, <1>6
    <2>2. ASSUME NEW u \in list \cup reg'.paths, u # slot
          PROVE  u \in list \cup reg.paths /\ row'[u] = row[u] /\ row'[u].name # a
      BY <1>4, <1>5, <1>6, <1>8, <1>12, <2>2
    <2>3. row'[slot].name = a
      BY <1>5, <1>7, <1>8
    <2>4. CASE s = slot \/ t = slot
      BY <2>2, <2>3, <2>4
    <2>5. CASE s # slot /\ t # slot
      BY <2>2, <2>5 DEF GnomeInv, OursOnce
    <2> QED
      BY <2>4, <2>5
  <1>17. OwnedRows'
    <2>1. reg'.owned \subseteq list' \cap reg'.paths
      BY <1>2, <1>3, <1>6
    <2>2. ASSUME NEW s \in reg'.owned PROVE row'[s].name \in Range(rest) \cup {Old}
      BY <1>2, <1>4, <1>5, <1>6, <1>8, <1>13
    <2>3. ASSUME ~blurred', NEW s \in list' \cup reg'.paths, row'[s].name \in Range(rest) \cup {Old}
          PROVE  s \in reg'.owned
      <3>1. s # slot
        BY <1>2, <1>5, <1>7, <1>8, <1>10, <2>3
      <3>2. row[s].name \in Range(reg.todo) \cup {Old} /\ s \in list \cup reg.paths /\ row[s].name # a
        BY <1>2, <1>3, <1>4, <1>6, <1>8, <1>10, <2>3, <3>1
      <3>3. s \in reg.owned /\ s \notin mine
        BY <1>1, <1>3, <1>5, <2>3, <3>2 DEF GnomeInv, OwnedRows
      <3> QED
        BY <1>6, <3>3
    <2> QED
      BY <1>6, <2>1, <2>2, <2>3 DEF OwnedRows
  <1>18. KeptListed'
    BY <1>2, <1>3, <1>4, <1>6, <1>8, <1>13 DEF KeptListed, ForeignRowsKept
  <1>19. ASSUME ~blurred PROVE Bindings'
    <2>1. \A s \in reg.paths : row[s].name = a => s = slot
      BY <1>12, <1>19
    <2>2. ASSUME NEW b \in Action, b = a PROVE BoundOnce(reg.paths, b)'
      BY <1>4, <1>5, <1>6, <1>7, <1>8, <1>14, <2>1, <2>2 DEF BoundOnce, BoundIn
    <2>3. ASSUME NEW b \in Action, b # a, b \notin Range(rest) PROVE BoundOnce(reg.paths, b)'
      <3>1. BoundOnce(reg.paths, b)
        BY <1>1, <1>2, <1>19, <2>3 DEF GnomeInv, Bindings
      <3>2. /\ \A s \in reg'.paths : row'[s].name = b => s \in reg.paths /\ s # slot /\ row'[s] = row[s]
            /\ \A s \in reg.paths : row[s].name = b => s # slot /\ row'[s] = row[s] /\ s \in reg'.paths
        BY <1>4, <1>5, <1>6, <1>7, <1>8, <2>3
      <3> QED
        BY <1>6, <3>1, <3>2 DEF BoundOnce, BoundIn
    <2>4. ASSUME ~reg'.changed
          PROVE  list' \subseteq reg'.paths /\ \A s \in reg'.paths \ list' : row'[s].name \notin Action
      <3>1. ~reg.changed /\ slot \in mine
        BY <1>5, <1>6, <2>4
      <3>2. slot \in list
        BY <1>2, <1>5, <3>1
      <3> QED
        BY <1>1, <1>3, <1>4, <1>6, <1>8, <1>19, <3>1, <3>2 DEF GnomeInv, Bindings
    <2> QED
      BY <1>2, <1>6, <2>2, <2>3, <2>4 DEF Bindings
  <1> QED
    BY <1>3, <1>15, <1>16, <1>17, <1>18, <1>19 DEF GnomeInv, Bindings

\* A write that fails leaves at most the name in the row.
LEMMA ConfigureFailsSafe ==
    ASSUME GnomeInv, ConfigureFails
    PROVE  GnomeInv'
  <1> DEFINE a == Head(reg.todo)
             slot == SlotFor(a)
             mine == {s \in reg.owned : row[s].name = a}
  <1>1. reg.at = "configure" /\ reg.todo # <<>> /\ Room(a) /\ Binding(reg.keys[a]) # NoKey
    BY DEF ConfigureFails
  <1>2. /\ GnomeTypes /\ session = "wayland gnome" /\ a \in Action
        /\ reg.owned \subseteq list \cap reg.paths
        /\ kept \subseteq reg.paths /\ kept \subseteq list /\ \A s \in kept : row[s].name = Foreign
        /\ ~\E b \in Action : grabs[b] # NoKey
        /\ Range(reg.todo) = Range(Tail(reg.todo)) \cup {a}
    BY <1>1, Configuring
  <1>3. /\ UNCHANGED <<session, keys, grabs, list, kept, blurred>> /\ mechanism' = "manual"
        /\ row' \in {row, [row EXCEPT ![slot].name = a]}
        /\ reg' = [reg EXCEPT !.at = "idle"]
    BY DEF ConfigureFails, GiveUp, RegRest
  <1>4. /\ reg \in RegState /\ reg.paths \subseteq Slot /\ list \subseteq Slot /\ kept \subseteq Slot
        /\ row \in [Slot -> Row]
    BY <1>2 DEF GnomeTypes, RegState
  <1>5. /\ slot \in Slot
        /\ slot \in mine \/ (slot \notin reg.paths /\ mine = {})
    BY <1>1, SlotForWhere
  <1>6. reg' \in RegState /\ reg'.at = "idle" /\ reg'.paths = reg.paths
    BY <1>3, <1>4 DEF RegState, RegStep
  <1>7. a # Foreign
    BY <1>2, Names
  <1>8. [row[slot] EXCEPT !.name = a] \in Row /\ [row[slot] EXCEPT !.name = a].name = a
    BY <1>2, <1>4, <1>5 DEF Row
  <1>9. /\ row' \in [Slot -> Row]
        /\ \A s \in Slot : s # slot => row'[s] = row[s]
        /\ row'[slot].name = a \/ row' = row
    BY <1>3, <1>4, <1>5, <1>8
  <1>10. ~blurred => \A s \in list \cup reg.paths : row[s].name = a => s \in mine
    BY <1>1, <1>2 DEF GnomeInv, OwnedRows
  <1>11. ~blurred => \A s \in list \cup reg.paths : row[s].name = a => s = slot
    BY <1>2, <1>5, <1>10 DEF GnomeInv, OursOnce
  <1>12. slot \notin kept
    BY <1>2, <1>5, <1>7
  <1> HIDE DEF mine, a, slot
  <1>13. GnomeTypes' /\ InSession' /\ Cleaned' /\ Registered' /\ OwnedRows' /\ Bindings'
    BY <1>2, <1>3, <1>6, <1>9 DEF GnomeTypes, InSession, Cleaned, Registered, OwnedRows, Bindings
  <1>14. OursOnce'
    <2> SUFFICES ASSUME ~blurred, NEW s \in list \cup reg.paths, NEW t \in list \cup reg.paths,
                        row'[s].name \in Action \cup {Old}, row'[s].name = row'[t].name
                 PROVE  s = t
      BY <1>3, <1>6 DEF OursOnce
    <2>1. CASE row' = row
      BY <2>1 DEF GnomeInv, OursOnce
    <2>2. CASE row'[slot].name = a
      <3>1. \A u \in list \cup reg.paths : u # slot => row'[u] = row[u] /\ row'[u].name # a
        BY <1>4, <1>9, <1>11
      <3>2. CASE s = slot \/ t = slot
        BY <2>2, <3>1, <3>2
      <3>3. CASE s # slot /\ t # slot
        BY <3>1, <3>3 DEF GnomeInv, OursOnce
      <3> QED
        BY <3>2, <3>3
    <2> QED
      BY <1>9, <2>1, <2>2
  <1>15. KeptListed'
    BY <1>2, <1>3, <1>4, <1>6, <1>9, <1>12 DEF KeptListed, ForeignRowsKept
  <1> QED
    BY <1>13, <1>14, <1>15 DEF GnomeInv

LEMMA DropLeftoversSafe ==
    ASSUME GnomeInv, DropLeftovers
    PROVE  GnomeInv'
  <1>1. reg.at = "configure" /\ reg.todo = <<>>
    BY DEF DropLeftovers
  <1>2. /\ GnomeTypes /\ session = "wayland gnome"
        /\ reg.owned \subseteq list \cap reg.paths
        /\ \A s \in reg.owned : row[s].name = Old
        /\ kept \subseteq reg.paths /\ kept \subseteq list /\ \A s \in kept : row[s].name = Foreign
        /\ ~\E b \in Action : grabs[b] # NoKey
    BY <1>1, Names DEF GnomeInv, InSession, OwnedRows, KeptListed, ForeignRowsKept
  <1>3. /\ UNCHANGED <<session, keys, grabs, list, mechanism, kept, blurred>>
        /\ Resets(reg.owned)
        /\ reg' = [reg EXCEPT !.at = "write", !.paths = @ \ reg.owned, !.owned = {},
                              !.changed = @ \/ reg.owned # {}]
    BY DEF DropLeftovers, RegRest
  <1>4. /\ reg \in RegState /\ reg.paths \subseteq Slot /\ list \subseteq Slot /\ kept \subseteq Slot
        /\ row \in [Slot -> Row]
    BY <1>2 DEF GnomeTypes, RegState
  <1>5. /\ reg'.at = "write" /\ reg'.keys = reg.keys /\ reg'.paths = reg.paths \ reg.owned
        /\ reg'.changed = (reg.changed \/ reg.owned # {}) /\ reg' \in RegState
    BY <1>3, <1>4 DEF RegState, RegStep
  <1>6. /\ row' \in [Slot -> Row]
        /\ \A s \in Slot : row'[s] = row[s] \/ (s \in reg.owned /\ row'[s] = ResetRow)
    BY <1>3, <1>4, ResetsFacts
  <1>7. GnomeTypes' /\ InSession' /\ Cleaned' /\ Registered' /\ OwnedRows'
    BY <1>2, <1>3, <1>5, <1>6 DEF GnomeTypes, InSession, Cleaned, Registered, OwnedRows
  <1>8. OursOnce'
    BY <1>3, <1>4, <1>5, <1>6, Names DEF GnomeInv, OursOnce
  <1>9. KeptListed'
    BY <1>2, <1>3, <1>4, <1>5, <1>6, Names DEF KeptListed, ForeignRowsKept
  <1>10. ASSUME ~blurred PROVE Bindings'
    <2>1. ASSUME NEW b \in Action PROVE BoundOnce(reg.paths, b)'
      <3>1. BoundOnce(reg.paths, b)
        BY <1>1, <1>10, Names DEF GnomeInv, Bindings
      <3>2. /\ \A s \in reg'.paths : s \in reg.paths /\ row'[s] = row[s]
            /\ \A s \in reg.paths : row[s].name = b => s \in reg'.paths
        BY <1>2, <1>4, <1>5, <1>6, Names
      <3> QED
        BY <1>5, <3>1, <3>2 DEF BoundOnce, BoundIn
    <2>2. ASSUME ~reg'.changed
          PROVE  list' \subseteq reg'.paths /\ \A s \in reg'.paths \ list' : row'[s].name \notin Action
      <3>1. ~reg.changed /\ reg.owned = {}
        BY <1>5, <2>2
      <3> QED
        BY <1>1, <1>3, <1>4, <1>5, <1>6, <1>10, <3>1 DEF GnomeInv, Bindings
    <2> QED
      BY <1>5, <2>1, <2>2 DEF Bindings
  <1> QED
    BY <1>3, <1>7, <1>8, <1>9, <1>10 DEF GnomeInv, Bindings

LEMMA WriteListSafe ==
    ASSUME GnomeInv, WriteList
    PROVE  GnomeInv'
  <1>1. /\ reg.at = "write" /\ UNCHANGED <<session, keys, grabs, row, kept, blurred>>
        /\ list' = IF reg.changed THEN reg.paths ELSE list
        /\ reg' = [reg EXCEPT !.at = "idle"] /\ mechanism' = "gnome"
    BY DEF WriteList, RegRest
  <1>2. /\ reg \in RegState /\ reg.paths \subseteq Slot /\ list \subseteq Slot /\ GnomeTypes
        /\ session = "wayland gnome" /\ ~\E b \in Action : grabs[b] # NoKey
    BY <1>1 DEF GnomeInv, GnomeTypes, RegState, InSession
  <1>3. reg' \in RegState /\ reg'.at = "idle" /\ reg'.paths = reg.paths /\ reg'.keys = reg.keys
    BY <1>1, <1>2 DEF RegState, RegStep
  <1>4. GnomeTypes' /\ InSession' /\ Cleaned' /\ OwnedRows' /\ Bindings'
    BY <1>1, <1>2, <1>3 DEF GnomeTypes, InSession, Cleaned, OwnedRows, Bindings
  <1>5. OursOnce'
    BY <1>1, <1>3 DEF GnomeInv, OursOnce
  <1>6. KeptListed'
    BY <1>1, <1>3 DEF GnomeInv, KeptListed, ForeignRowsKept
  <1>7. Registered'
    <2> SUFFICES ASSUME ~blurred, NEW a \in Action
                 PROVE  BoundOnce(list, a)'
      BY <1>1 DEF Registered
    <2>1. BoundOnce(reg.paths, a)
      BY <1>1 DEF GnomeInv, Bindings
    <2>2. CASE reg.changed
      BY <1>1, <1>3, <2>1, <2>2 DEF BoundOnce, BoundIn
    <2>3. CASE ~reg.changed
      <3>1. list \subseteq reg.paths /\ \A s \in reg.paths \ list : row[s].name # a
        BY <1>1, <2>3 DEF GnomeInv, Bindings
      <3> QED
        BY <1>1, <1>3, <2>1, <2>3, <3>1 DEF BoundOnce, BoundIn
    <2> QED
      BY <2>2, <2>3
  <1> QED
    BY <1>4, <1>5, <1>6, <1>7 DEF GnomeInv

LEMMA CleanRowsSafe ==
    ASSUME GnomeInv, CleanRows
    PROVE  GnomeInv'
  <1> DEFINE ours == {s \in list : Ours(s)}
  <1>1. /\ reg.at = "clean" /\ UNCHANGED <<session, keys, grabs, list, mechanism, blurred>>
        /\ Resets(ours)
        /\ reg' = [reg EXCEPT !.at = IF ours = {} THEN "grab" ELSE "cleanwrite",
                              !.paths = list \ ours]
        /\ kept' = kept \cup {s \in list : row[s].name = Foreign}
    BY DEF CleanRows, RegRest
  <1>2. /\ reg \in RegState /\ list \subseteq Slot /\ row \in [Slot -> Row] /\ GnomeTypes
        /\ session = "x11 gnome"
    BY <1>1 DEF GnomeInv, GnomeTypes, RegState, InSession
  <1>3. /\ reg'.at \in {"grab", "cleanwrite"} /\ reg'.paths = list \ ours /\ reg' \in RegState
        /\ ours \subseteq list
    BY <1>1, <1>2 DEF RegState, RegStep
  <1>4. /\ row' \in [Slot -> Row]
        /\ \A s \in Slot : row'[s] = row[s] \/ (s \in ours /\ row'[s] = ResetRow)
    BY <1>1, <1>2, ResetsFacts
  <1>5. \A s \in list : s \in ours <=> row[s].name \in Action \cup {Old}
    BY DEF Ours
  <1> HIDE DEF ours
  <1>6. GnomeTypes' /\ InSession' /\ OwnedRows' /\ Bindings' /\ Registered'
    BY <1>1, <1>2, <1>3, <1>4 DEF GnomeTypes, InSession, OwnedRows, Bindings, Registered
  <1>a. \A s \in list : row'[s].name \in Action \cup {Old} => row'[s] = row[s]
    BY <1>2, <1>4, Names
  <1>b. list' \cup reg'.paths = list
    BY <1>1, <1>3
  <1>7. OursOnce'
    BY <1>1, <1>a, <1>b DEF GnomeInv, OursOnce
  <1>8. Cleaned'
    <2> SUFFICES ASSUME session = "x11 gnome", ~blurred
                 PROVE  /\ \A s \in reg'.paths : row'[s].name \notin Action
                        /\ (\E a \in Action : grabs[a] # NoKey) =>
                             \A s \in list : row'[s].name \notin Action
                        /\ reg'.at = "grab" => \A s \in list : row'[s].name \notin Action
      BY <1>1, <1>b DEF Cleaned
    <2>1. \A s \in reg'.paths : row'[s].name \notin Action
      BY <1>3, <1>5, <1>a
    <2>2. (\E a \in Action : grabs[a] # NoKey) => \A s \in list : row'[s].name \notin Action
      BY <1>a DEF GnomeInv, Cleaned
    <2>3. reg'.at = "grab" => ours = {}
      BY <1>1, <1>2 DEF RegState
    <2> QED
      BY <1>3, <2>1, <2>2, <2>3
  <1>9. KeptListed'
    BY <1>1, <1>2, <1>3, <1>4, <1>5, Names DEF GnomeInv, KeptListed, ForeignRowsKept
  <1> QED
    BY <1>6, <1>7, <1>8, <1>9 DEF GnomeInv

LEMMA CleanListSafe ==
    ASSUME GnomeInv, CleanList
    PROVE  GnomeInv'
  <1>1. /\ reg.at = "cleanwrite" /\ list' = reg.paths /\ reg' = [reg EXCEPT !.at = "grab"]
        /\ UNCHANGED <<session, keys, grabs, row, mechanism, kept, blurred>>
    BY DEF CleanList, RegRest
  <1>2. reg \in RegState /\ reg.paths \subseteq Slot /\ GnomeTypes /\ session = "x11 gnome"
    BY <1>1 DEF GnomeInv, GnomeTypes, RegState, InSession
  <1>3. reg' \in RegState /\ reg'.at = "grab" /\ reg'.paths = reg.paths
    BY <1>1, <1>2 DEF RegState, RegStep
  <1>4. GnomeTypes' /\ InSession' /\ OwnedRows' /\ Bindings' /\ Registered'
    BY <1>1, <1>2, <1>3 DEF GnomeTypes, InSession, OwnedRows, Bindings, Registered
  <1>5. OursOnce' /\ Cleaned' /\ KeptListed'
    BY <1>1, <1>2, <1>3 DEF GnomeInv, OursOnce, Cleaned, KeptListed, ForeignRowsKept
  <1> QED
    BY <1>4, <1>5 DEF GnomeInv

LEMMA GrabKeysSafe ==
    ASSUME GnomeInv, GrabKeys
    PROVE  GnomeInv'
  <1>1. /\ reg.at = "grab" /\ reg' = [reg EXCEPT !.at = "idle"] /\ mechanism' = "in_process"
        /\ UNCHANGED <<session, keys, list, row, kept, blurred>>
    BY DEF GrabKeys, RegRest
  <1>2. reg \in RegState /\ GnomeTypes /\ session \in {"x11", "x11 gnome"}
    BY <1>1 DEF GnomeInv, GnomeTypes, InSession
  <1>3. PICK got \in SUBSET Action :
          grabs' = [a \in Action |-> IF a \in got THEN reg.keys[a] ELSE NoKey]
    BY DEF GrabKeys
  <1>4. grabs' \in [Action -> KeyOrNot]
    BY <1>2, <1>3 DEF RegState, KeyOrNot
  <1>5. reg' \in RegState /\ reg'.at = "idle" /\ reg'.paths = reg.paths
    BY <1>1, <1>2 DEF RegState, RegStep
  <1>6. GnomeTypes' /\ InSession' /\ OwnedRows' /\ Bindings' /\ Registered'
    BY <1>1, <1>2, <1>4, <1>5 DEF GnomeTypes, InSession, OwnedRows, Bindings, Registered
  <1>7. OursOnce' /\ Cleaned' /\ KeptListed'
    BY <1>1, <1>5 DEF GnomeInv, OursOnce, Cleaned, KeptListed, ForeignRowsKept
  <1> QED
    BY <1>6, <1>7 DEF GnomeInv

LEMMA ForeignAddsSafe ==
    ASSUME GnomeInv, NEW s \in Slot, ForeignAdds(s)
    PROVE  GnomeInv'
  <1> DEFINE new == [name |-> Foreign, key |-> NoKey]
  <1>1. /\ s \notin list /\ list' = list \cup {s} /\ row' = [row EXCEPT ![s] = new]
        /\ blurred' = (blurred \/ reg.at # "idle")
        /\ UNCHANGED <<session, keys, grabs, reg, mechanism, kept>>
    BY DEF ForeignAdds
  <1>2. /\ reg.paths \subseteq Slot /\ list \subseteq Slot /\ row \in [Slot -> Row] /\ GnomeTypes
    BY DEF GnomeInv, GnomeTypes, RegState
  <1>3. new \in Row /\ new.name = Foreign
    BY DEF Row
  <1>4. row' \in [Slot -> Row] /\ \A u \in Slot : row'[u] = IF u = s THEN new ELSE row[u]
    BY <1>1, <1>2, <1>3
  <1> HIDE DEF new
  <1>5. GnomeTypes' /\ InSession'
    BY <1>1, <1>2, <1>4 DEF GnomeInv, GnomeTypes, InSession
  <1>6. OursOnce'
    <2> SUFFICES ASSUME ~blurred', NEW u \in list' \cup reg.paths, NEW v \in list' \cup reg.paths,
                        row'[u].name \in Action \cup {Old}, row'[u].name = row'[v].name
                 PROVE  u = v
      BY <1>1 DEF OursOnce
    <2>1. u \in Slot /\ v \in Slot /\ row'[s].name = Foreign
      BY <1>1, <1>2, <1>3, <1>4
    <2>2. u # s /\ v # s
      BY <2>1, Names
    <2>3. ~blurred
      BY <1>1
    <2> QED
      BY <1>1, <1>4, <2>1, <2>2, <2>3 DEF GnomeInv, OursOnce
  <1>7. Cleaned'
    BY <1>1, <1>2, <1>3, <1>4, Names DEF GnomeInv, Cleaned
  <1>8. OwnedRows' /\ KeptListed'
    BY <1>1, <1>2, <1>3, <1>4 DEF GnomeInv, OwnedRows, KeptListed, ForeignRowsKept
  <1>9. Bindings'
    BY <1>1 DEF Bindings
  <1>10. Registered'
    <2> SUFFICES ASSUME ~blurred, reg.at = "idle", mechanism = "gnome", session = "wayland gnome",
                        NEW a \in Action
                 PROVE  BoundOnce(list, a)'
      BY <1>1 DEF Registered
    <2>1. BoundOnce(list, a)
      BY DEF GnomeInv, Registered
    <2>2. /\ \A u \in list : row[u].name = a => u \in list' /\ row'[u] = row[u]
          /\ \A u \in list' : row'[u].name = a => u \in list /\ row'[u] = row[u]
      BY <1>1, <1>2, <1>3, <1>4, Names
    <2>3. reg'.keys = reg.keys
      BY <1>1
    <2> QED
      BY <2>1, <2>2, <2>3, SameRows DEF BoundOnce
  <1> QED
    BY <1>5, <1>6, <1>7, <1>8, <1>9, <1>10 DEF GnomeInv

LEMMA ForeignRemovesSafe ==
    ASSUME GnomeInv, NEW s \in Slot, ForeignRemoves(s)
    PROVE  GnomeInv'
  <1>1. /\ s \in list /\ row[s].name = Foreign
        /\ list' = list \ {s} /\ row' = [row EXCEPT ![s] = ResetRow] /\ kept' = kept \ {s}
        /\ UNCHANGED <<session, keys, grabs, reg, mechanism, blurred>>
    BY DEF ForeignRemoves
  <1>2. reg.paths \subseteq Slot /\ list \subseteq Slot /\ row \in [Slot -> Row] /\ GnomeTypes
    BY DEF GnomeInv, GnomeTypes, RegState
  <1>3. row' \in [Slot -> Row] /\ \A u \in Slot : row'[u] = IF u = s THEN ResetRow ELSE row[u]
    BY <1>1, <1>2, Names
  <1>4. ResetRow.name \notin Action \cup {Old}
    BY Names
  <1>5. Range(reg.todo) \subseteq Action
    BY <1>2, RangeIn DEF GnomeTypes, RegState
  <1>6. GnomeTypes' /\ InSession'
    BY <1>1, <1>2, <1>3 DEF GnomeInv, GnomeTypes, InSession
  <1>7. OursOnce' /\ Cleaned'
    BY <1>1, <1>2, <1>3, <1>4 DEF GnomeInv, OursOnce, Cleaned
  <1>8. OwnedRows'
    BY <1>1, <1>2, <1>3, <1>4, <1>5, Names DEF GnomeInv, OwnedRows
  <1>9. KeptListed'
    BY <1>1, <1>2, <1>3 DEF GnomeInv, KeptListed, ForeignRowsKept
  <1>11. ASSUME NEW a \in Action, BoundOnce(reg.paths, a)
         PROVE  BoundOnce(reg.paths, a)'
    <2>1. row[s].name # a /\ row'[s].name # a
      BY <1>1, <1>3, Names
    <2>2. \A u \in reg.paths : u # s => row'[u] = row[u]
      BY <1>2, <1>3
    <2>3. reg'.keys = reg.keys /\ reg'.paths = reg.paths
      BY <1>1
    <2>4. \A u \in reg.paths : row[u].name = a \/ row'[u].name = a => row'[u] = row[u]
      BY <2>1, <2>2
    <2> QED
      BY <1>11, <2>3, <2>4, SameRows DEF BoundOnce
  <1>12. Bindings'
    <2> SUFFICES ASSUME reg.at \in {"configure", "write"}, ~blurred
                 PROVE  Bindings'
      BY <1>1 DEF Bindings
    <2>1. ASSUME ~reg.changed
          PROVE  list' \subseteq reg.paths /\ \A u \in reg.paths \ list' : row'[u].name \notin Action
      BY <1>1, <1>2, <1>3, <1>4, <2>1 DEF GnomeInv, Bindings
    <2> QED
      BY <1>1, <1>11, <2>1 DEF GnomeInv, Bindings
  <1>13. Registered'
    <2> SUFFICES ASSUME ~blurred, reg.at = "idle", mechanism = "gnome", session = "wayland gnome",
                        NEW a \in Action
                 PROVE  BoundOnce(list, a)'
      BY <1>1 DEF Registered
    <2>1. BoundOnce(list, a)
      BY DEF GnomeInv, Registered
    <2>2. /\ \A u \in list : row[u].name = a => u \in list' /\ row'[u] = row[u]
          /\ \A u \in list' : row'[u].name = a => u \in list /\ row'[u] = row[u]
      BY <1>1, <1>2, <1>3, <1>4, Names
    <2>3. reg'.keys = reg.keys
      BY <1>1
    <2> QED
      BY <2>1, <2>2, <2>3, SameRows DEF BoundOnce
  <1> QED
    BY <1>6, <1>7, <1>8, <1>9, <1>12, <1>13 DEF GnomeInv

LEMMA GnomeInvStep ==
    ASSUME GnomeInv, GnomeStep
    PROVE  GnomeInv'
  <1>1. CASE UNCHANGED gnomeVars
    <2>1. keys \in [Action -> KeyOrNot]
      BY DEF GnomeInv, GnomeTypes
    <2> QED
      BY <1>1, <2>1, GnomeKept DEF gnomeVars
  <1>2. CASE ReadList \/ ReadListBlurred
    BY <1>2, ReadListSafe DEF ReadList, ReadListBlurred
  <1>3. CASE ConfigureAction
    BY <1>3, UnbindSafe, BindSafe
  <1> QED
    BY <1>1, <1>2, <1>3, FreshRegistrationSafe, BeginRegisterSafe, ConfigureFailsSafe,
       DropLeftoversSafe, WriteListSafe, ListFailsSafe, CleanRowsSafe, CleanListSafe,
       CleanFailsSafe, GrabKeysSafe, SaveKeysSafe, ForeignAddsSafe, ForeignRemovesSafe
    DEF GnomeStep, KeyOrNot

LEMMA GnomeStart ==
    ASSUME Init
    PROVE  GnomeInv
  <1>1. /\ session \in Sessions /\ keys = DefaultKeys /\ grabs = NoGrabs /\ reg = NoReg
        /\ mechanism = "in_process" /\ kept = {} /\ blurred = FALSE
        /\ \/ list = {} /\ row = [s \in Slot |-> ResetRow]
           \/ /\ list = {Lowest(Slot)}
              /\ row = [s \in Slot |-> [ResetRow EXCEPT !.name = IF s \in list THEN Old ELSE Reset]]
    BY DEF Init, ShortcutsInit
  <1>2. Lowest(Slot) \in Slot
    BY LowestIn, DesktopAppAssumption DEF ShortcutsAssumption
  <1>3. row \in [Slot -> Row] /\ \A s \in Slot : row[s].name \in {Old, Reset}
    BY <1>1 DEF ResetRow, Row
  <1>4. NoGrabs \in [Action -> KeyOrNot] /\ \A a \in Action : NoGrabs[a] = NoKey
    BY DEF NoGrabs, KeyOrNot
  <1>5. keys \in [Action -> KeyOrNot]
    BY <1>1, DesktopAppAssumption DEF ShortcutsAssumption, KeyOrNot
  <1>6. GnomeTypes /\ InSession
    BY <1>1, <1>2, <1>3, <1>4, <1>5, NoRegState DEF GnomeTypes, InSession
  <1>7. OursOnce
    BY <1>1, NoRegState DEF OursOnce
  <1>8. OwnedRows /\ KeptListed /\ Cleaned /\ Bindings /\ Registered
    BY <1>1, <1>4, NoRegState DEF OwnedRows, KeptListed, ForeignRowsKept, Cleaned, Bindings, Registered
  <1> QED
    BY <1>6, <1>7, <1>8 DEF GnomeInv

\* The inductive invariant of the three properties of GNOME's rows.
THEOREM GnomeAlways == Spec => []GnomeInv
  <1>1. GnomeInv /\ [Next]_vars => GnomeInv'
    BY NextIsGnomeStep, GnomeInvStep
  <1> QED
    BY <1>1, GnomeStart, PTL DEF Spec

(***************************************************************************)
(* No key is answered both by this process and by GNOME, whatever rows an  *)
(* earlier session left behind and whatever failed while they were         *)
(* removed.                                                                *)
(***************************************************************************)
THEOREM NeverBoundTwice == Spec => []NoDoubleBinding
  <1>1. GnomeInv => NoDoubleBinding
    BY DEF GnomeInv, InSession, Cleaned, NoDoubleBinding, GnomeAnswers, Bound
  <1> QED
    BY <1>1, GnomeAlways, PTL

(***************************************************************************)
(* A registration that GNOME reports done has bound every usable key, once *)
(* and to the settings it was begun with, and nothing else.                *)
(***************************************************************************)
THEOREM RegisteredIsBound == Spec => []RegisteredMeansBound
  <1>1. GnomeInv => RegisteredMeansBound
    <2> SUFFICES ASSUME GnomeInv, reg.at = "idle", mechanism = "gnome", session = "wayland gnome",
                        ~blurred, NEW a \in Action
                 PROVE  LET mine == {s \in list : row[s].name = a} IN
                        IF Binding(reg.keys[a]) = NoKey THEN mine = {}
                        ELSE \E s \in mine : mine = {s} /\ row[s].key = reg.keys[a]
      BY DEF RegisteredMeansBound
    <2>1. BoundOnce(list, a)
      BY DEF GnomeInv, Registered
    <2> QED
      BY <2>1 DEF BoundOnce, BoundIn
  <1> QED
    BY <1>1, GnomeAlways, PTL

(***************************************************************************)
(* A row of another application that a registration has seen is never lost *)
(* or overwritten, however the two change the list at the same time.       *)
(***************************************************************************)
THEOREM RowsOfOthersKept == Spec => []ForeignRowsKept
  <1>1. GnomeInv => ForeignRowsKept
    BY DEF GnomeInv, KeptListed
  <1> QED
    BY <1>1, GnomeAlways, PTL

(***************************************************************************)
(* The variables of the shortcuts have their types, the bounds of owners   *)
(* and signals included.                                                   *)
(***************************************************************************)
THEOREM ShortcutsTypeAlways == Spec => []ShortcutsTypeOK
  <1>1. GnomeInv /\ KdeTypes => ShortcutsTypeOK
    <2> SUFFICES ASSUME GnomeInv, KdeTypes PROVE ShortcutsTypeOK
      OBVIOUS
    <2>1. Owner \cup {NoOwner} = 0..MaxOwner
      BY OwnersExist DEF Owner, NoOwner
    <2> QED
      BY <2>1 DEF GnomeInv, GnomeTypes, RegState, KeyOrNot, KdeTypes, KdeState, ShortcutsTypeOK
  <1> QED
    BY <1>1, GnomeAlways, KdeTypesAlways, PTL
=============================================================================
