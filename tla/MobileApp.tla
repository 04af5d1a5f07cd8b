------------------------------- MODULE MobileApp -------------------------------
(***************************************************************************)
(* The application on Android: the list (ClipboardList), the shares that   *)
(* wait to be imported (ShareImport) and the refresh that runs whenever    *)
(* the application is opened or comes back (+page.svelte): it imports the  *)
(* shares, captures the clipboard, synchronises and loads the list, giving *)
(* each command a time to answer in; and the status that is shown of the   *)
(* synchronisation, with its watchdog (syncStatusStore.ts).                *)
(***************************************************************************)
EXTENDS ShareImport

CONSTANTS
    OnBoard,   \* content of the system clipboard
    Remote,    \* contents of the server
    Starts     \* bounds: histories to start with, each with the number of
               \* events of every class that may happen

VARIABLES
    mounted,   \* the frontend is there
    refresh,   \* refreshMobileEntries: the step that it waits in, and the import
    capture,   \* capture_clipboard is under way, awaited or given up (late)
    sync,      \* so is sync_now: it pushes, pulls, or has pulled something and
               \* not told of it, as the sync loop may have
    status,    \* syncEndpointStatus: it says `checking', or not
    watchdog,  \* the watchdog of a check is armed
    allowed    \* bound: the events of each class that may still happen

appVars == <<mounted, refresh, capture, sync, status, watchdog, allowed>>

vars == <<listVars, shareVars, appVars>>

EventClass == {"share", "user", "resume", "outside", "pull", "fault"}

Waited == {"awaited", "late"}

Puller == Waited \cup {"loop"}

SyncStep == {"none", "asked", "pulling", "pulled"}

ASSUME MobileAppAssumption ==
    /\ ClipboardListAssumption /\ ShareImportAssumption
    /\ OnBoard \in Content /\ Remote \subseteq Content
    /\ \A s \in Starts : /\ s.rows \in Seq(Content) /\ IsInjective(s.rows)
                         /\ s.starred \subseteq Range(s.rows)
                         /\ \A c \in EventClass : s[c] \in Nat

RefreshStep == {"idle", "config", "shares", "import", "importLoad", "capture",
                "captureLoad", "sync", "list"}

NoRefresh == [at |-> "idle", m |-> {}, load |-> FALSE]

TypeOK ==
    /\ ListTypeOK /\ ShareTypeOK
    /\ mounted \in BOOLEAN /\ refresh.at \in RefreshStep /\ refresh.load \in BOOLEAN
    /\ capture \subseteq Waited /\ sync \in [Puller -> SyncStep]
    /\ status \in {"checking", "settled"} /\ watchdog \in BOOLEAN
    /\ allowed \in [EventClass -> Nat]

Init ==
    /\ \E s \in Starts : ListInit(s.rows, s.starred) /\ allowed = [c \in EventClass |-> s[c]]
    /\ ShareInit
    /\ mounted = FALSE /\ refresh = NoRefresh
    /\ capture = {} /\ sync = [w \in Puller |-> "none"]
    /\ status = "checking" /\ watchdog = FALSE

Event(c) == allowed[c] > 0 /\ allowed' = [allowed EXCEPT ![c] = @ - 1]

Calm == UNCHANGED <<mounted, refresh, capture, sync, status, watchdog>>

-----------------------------------------------------------------------------
(* Opening, leaving and coming back                                        *)

\* onMount: the list is loaded and a refresh begun.
Mount ==
    /\ ~mounted /\ mounted' = TRUE
    /\ LoadEntries("other")
    /\ refresh' = [NoRefresh EXCEPT !.at = "config"]
    /\ UNCHANGED shareVars /\ UNCHANGED <<capture, sync, status, watchdog, allowed>>

\* The application comes back, a share or a text from Shizuku was staged, or
\* the user pulls: nothing happens while a refresh is under way.
Resume ==
    /\ mounted /\ Event("resume") /\ refresh.at = "idle"
    /\ refresh' = [NoRefresh EXCEPT !.at = "config"]
    /\ UNCHANGED listVars /\ UNCHANGED shareVars
    /\ UNCHANGED <<mounted, capture, sync, status, watchdog>>

\* Android kills the process; files and rows survive.
Killed ==
    /\ mounted /\ Event("fault") /\ mounted' = FALSE
    /\ query' = "all" /\ shown' = <<>> /\ selected' = NoRow
    /\ loading' = FALSE /\ loadingMore' = FALSE /\ hasMore' = FALSE
    /\ nextOffset' = 0 /\ timer' = FALSE /\ listening' = FALSE /\ notices' = FALSE
    /\ calls' = [c \in Call |-> NoCall]
    /\ shownFor' = "all" /\ failed' = FALSE /\ raced' = FALSE
    /\ importer' = [m \in Importer |-> NoImport]
    /\ refresh' = NoRefresh /\ capture' = {} /\ sync' = [w \in Puller |-> "none"]
    /\ status' = "checking" /\ watchdog' = FALSE
    /\ UNCHANGED <<db, star, batch, files, everStored>>

-----------------------------------------------------------------------------
(* The refresh                                                             *)

RefreshGoes(step) == refresh' = [NoRefresh EXCEPT !.at = step]

\* get_settings, which only reads the database, has no time limit.
ConfigRead ==
    /\ refresh.at = "config" /\ RefreshGoes("shares")
    /\ status' = "checking" /\ watchdog' = TRUE
    /\ UNCHANGED listVars /\ UNCHANGED shareVars /\ UNCHANGED <<mounted, capture, sync, allowed>>

\* The next step begins with the call of capture_clipboard.
GoOnToCapture ==
    /\ RefreshGoes("capture") /\ capture' = capture \cup {"awaited"}
    /\ UNCHANGED <<sync, status, watchdog>>

\* The one after it with that of sync_now, which says `checking' once more.
GoOnToSync ==
    /\ RefreshGoes("sync") /\ sync' = [sync EXCEPT !["awaited"] = "asked"]
    /\ status' = "checking" /\ watchdog' = TRUE

Stays == UNCHANGED <<refresh, capture, sync, status, watchdog>>

\* has_pending_shares answers.
SharesChecked ==
    /\ refresh.at = "shares"
    /\ IF \E b \in Batch : batch[b] = "pending"
       THEN \E m \in Importer :
              /\ BeginImport(m)
              /\ refresh' = [NoRefresh EXCEPT !.at = "import", !.m = {m}]
              /\ UNCHANGED <<capture, sync, status, watchdog>>
       ELSE GoOnToCapture /\ UNCHANGED importer
    /\ UNCHANGED listVars /\ UNCHANGED <<batch, files, everStored, mounted, allowed>>

\* The import ends; the refresh goes on if it still waits for it.
ImportAnswered(m) ==
    /\ EndImport(m)
    /\ IF refresh.at = "import" /\ m \in refresh.m
       THEN IF importer[m].imported
            THEN RefreshGoes("importLoad") /\ UNCHANGED <<capture, sync, status, watchdog>>
            ELSE GoOnToCapture
       ELSE Stays
    /\ UNCHANGED <<mounted, allowed>>

LoadStep == {"importLoad", "captureLoad", "list"}

RefreshLoads ==
    /\ refresh.at \in LoadStep /\ ~refresh.load
    /\ LoadEntries("refresh")
    /\ refresh' = [refresh EXCEPT !.load = TRUE]
    /\ UNCHANGED shareVars /\ UNCHANGED <<mounted, capture, sync, status, watchdog, allowed>>

\* loadEntries returns to the refresh that awaits it, however it ended.
Returned(c) ==
    IF calls[c].by = "refresh"
    THEN CASE refresh.at = "importLoad"  -> GoOnToCapture
           [] refresh.at = "captureLoad" -> GoOnToSync /\ UNCHANGED capture
           [] OTHER -> RefreshGoes("idle") /\ UNCHANGED <<capture, sync, status, watchdog>>
    ELSE Stays

LoadReturns(c) ==
    LoadAnswered(c) /\ Returned(c) /\ UNCHANGED shareVars /\ UNCHANGED <<mounted, allowed>>

LoadGivenUp(c) ==
    Event("fault") /\ LoadFails(c) /\ Returned(c) /\ UNCHANGED shareVars /\ UNCHANGED mounted

(***************************************************************************)
(* capture_clipboard: what is on the clipboard becomes the newest row, and *)
(* the list is told of it if it was not in the history before; also after  *)
(* the frontend has given up waiting.                                      *)
(***************************************************************************)
CaptureServed(w) ==
    /\ Event("outside") /\ w \in capture
    /\ db' = Inserted(OnBoard) /\ everStored' = everStored \cup {OnBoard}
    /\ CASE OnBoard \notin Range(db) -> Emit
         [] OnBoard \in Range(db) /\ db' = db -> UNCHANGED <<notices, calls, raced>>
         [] OTHER -> Unheard /\ UNCHANGED notices
    /\ capture' = capture \ {w}
    /\ IF w = "awaited"
       THEN IF OnBoard \notin Range(db)
            THEN RefreshGoes("captureLoad") /\ UNCHANGED <<sync, status, watchdog>>
            ELSE GoOnToSync
       ELSE UNCHANGED <<refresh, sync, status, watchdog>>
    /\ Frontend /\ UNCHANGED <<star, listening, batch, files, importer, mounted>>

\* The clipboard is blank, or reading it or storing what is on it failed.
CaptureFails(w) ==
    /\ Event("outside") /\ w \in capture /\ capture' = capture \ {w}
    /\ IF w = "awaited" THEN GoOnToSync ELSE UNCHANGED <<refresh, sync, status, watchdog>>
    /\ UNCHANGED listVars /\ UNCHANGED shareVars /\ UNCHANGED mounted

\* sync_now has pushed, and says `checking' before it pulls.
SyncPushed(w) ==
    /\ sync[w] = "asked" /\ sync' = [sync EXCEPT ![w] = "pulling"]
    /\ status' = "checking" /\ watchdog' = TRUE
    /\ UNCHANGED listVars /\ UNCHANGED shareVars /\ UNCHANGED <<mounted, refresh, capture, allowed>>

\* A row that is new here takes the place that the server's stamp gives it.
PullsRow ==
    \E x \in Remote \ Range(db), place \in 1..(Len(db) + 1), starred \in BOOLEAN :
      /\ db' = InsertAt(db, place, x) /\ everStored' = everStored \cup {x}
      /\ star' = IF starred THEN star \cup {x} ELSE star

\* apply_remote_star_state: a row whose star is another on the server takes
\* that and moves to the top.  (Which of the rows wait to be pushed, and are
\* left alone, is not kept here.)
PullsStar ==
    \E r \in Remote \cap Range(db) :
      /\ star' = IF r \in star THEN star \ {r} ELSE star \cup {r}
      /\ db' = ToTop(r) /\ UNCHANGED everStored

\* An entry that sync_now or the sync loop has pulled.
SyncPulls(w) ==
    /\ mounted /\ Event("pull") /\ (sync[w] \in {"pulling", "pulled"} \/ w = "loop")
    /\ sync' = [sync EXCEPT ![w] = "pulled"]
    /\ PullsRow \/ PullsStar
    /\ Frontend /\ UNCHANGED <<listening, notices, calls, raced, batch, files, importer>>
    /\ UNCHANGED <<mounted, refresh, capture, status, watchdog>>

\* The status is told of the result; sync_now answers, the loop sleeps.
SyncEnds(w) ==
    /\ mounted /\ Event("outside") /\ (sync[w] # "none" \/ w = "loop")
    /\ sync' = [sync EXCEPT ![w] = "none"]
    /\ status' = "settled" /\ watchdog' = FALSE
    /\ IF w = "awaited" THEN RefreshGoes("list") ELSE UNCHANGED refresh
    /\ Frontend /\ UNCHANGED <<db, star, listening>> /\ UNCHANGED shareVars
    /\ UNCHANGED <<mounted, capture>>

\* If anything was pulled the list is told of it.
SyncAnswered(w) ==
    /\ SyncEnds(w)
    /\ IF sync[w] = "pulled" THEN Emit ELSE UNCHANGED <<notices, calls, raced>>

\* After 35 seconds sync_now drops the pull, and nobody is told of what the
\* pull has brought until then.
SyncCutOff(w) ==
    /\ w \in Waited /\ sync[w] = "pulled" /\ SyncEnds(w)
    /\ Unheard /\ UNCHANGED notices

\* (Mutant: the import is awaited for as long as it takes.)
StepTimesOutButImport ==
    /\ CASE refresh.at = "shares" -> GoOnToCapture
         [] refresh.at = "capture" -> GoOnToSync /\ capture' = {"late"}
         [] refresh.at = "sync" ->
              /\ RefreshGoes("list") /\ UNCHANGED <<capture, status, watchdog>>
              /\ sync' = [sync EXCEPT !["awaited"] = "none", !["late"] = sync["awaited"]]
         [] OTHER -> FALSE
    /\ UNCHANGED listVars /\ UNCHANGED shareVars /\ UNCHANGED <<mounted, allowed>>

(***************************************************************************)
(* withTimeout: 5 seconds for the check of the shares and the capture, 10  *)
(* for the import, 45 for the synchronisation, which all go on without     *)
(* being waited for.  Of several that do, one stands for all.              *)
(***************************************************************************)
StepTimesOut ==
    /\ CASE refresh.at \in {"shares", "import"} -> GoOnToCapture
         [] refresh.at = "capture" -> GoOnToSync /\ capture' = {"late"}
         [] refresh.at = "sync" ->
              /\ RefreshGoes("list") /\ UNCHANGED <<capture, status, watchdog>>
              /\ sync' = [sync EXCEPT !["awaited"] = "none",
                                      !["late"] = IF @ = "pulled" THEN @ ELSE sync["awaited"]]
         [] OTHER -> FALSE
    /\ UNCHANGED listVars /\ UNCHANGED shareVars /\ UNCHANGED <<mounted, allowed>>

\* 45 seconds after `checking' was shown, if nothing else was shown since.
WatchdogFires ==
    /\ watchdog /\ watchdog' = FALSE /\ status' = "settled"
    /\ UNCHANGED listVars /\ UNCHANGED shareVars
    /\ UNCHANGED <<mounted, refresh, capture, sync, allowed>>

-----------------------------------------------------------------------------
(* Everything                                                              *)

ListCommands ==
    /\ \E c \in Call : ServeQuery(c) \/ ServeStar(c) \/ ServeDelete(c)
    /\ UNCHANGED shareVars /\ Calm /\ UNCHANGED allowed

ListSteps ==
    /\ mounted
    /\ \/ Listens \/ EventHeard \/ TimerFires
       \/ \E c \in Call : MoreAnswered(c) \/ ChangeAnswered(c)
    /\ UNCHANGED shareVars /\ Calm /\ UNCHANGED allowed

UserAtList ==
    /\ mounted /\ Event("user")
    /\ \/ \E q \in Query : QueryChanges(q)
       \/ LoadMore
       \/ \E r \in Content : AskChange("star", r) \/ AskChange("delete", r) \/ SelectEntry(r)
    /\ UNCHANGED shareVars /\ Calm

Shared ==
    /\ Event("share") /\ Calm
    /\ \E b \in Batch : ShareStaged(b)

Imports ==
    /\ \E m \in Importer : Importing(m)
    /\ Calm /\ UNCHANGED allowed

Faults ==
    /\ Event("fault") /\ Calm
    /\ \/ \E m \in Importer : ImportFails(m)
       \/ (\E c \in Call : MoreFails(c) \/ ChangeFails(c)) /\ UNCHANGED shareVars

Loading == \E c \in Call : LoadReturns(c)

Next ==
    \/ Mount \/ Resume \/ Killed
    \/ ConfigRead \/ SharesChecked \/ RefreshLoads \/ Loading
    \/ StepTimesOut \/ WatchdogFires
    \/ \E w \in Waited : CaptureServed(w) \/ CaptureFails(w) \/ SyncPushed(w)
    \/ \E w \in Puller : SyncPulls(w) \/ SyncAnswered(w) \/ SyncCutOff(w)
    \/ \E c \in Call : LoadGivenUp(c)
    \/ \E m \in Importer : ImportAnswered(m)
    \/ ListCommands \/ ListSteps \/ UserAtList \/ Shared \/ Imports \/ Faults

(***************************************************************************)
(* Fairness.  Timers of the frontend fire, its listeners run, and commands *)
(* that only touch the local database answer.  An import, a capture and a  *)
(* synchronisation wait for other applications, the system and the network *)
(* and owe nothing; nor do the user and failures.                          *)
(***************************************************************************)
Fairness ==
    /\ WF_vars(ConfigRead) /\ WF_vars(RefreshLoads) /\ WF_vars(Loading)
    /\ WF_vars(StepTimesOut) /\ WF_vars(WatchdogFires)
    /\ WF_vars(ListCommands) /\ WF_vars(ListSteps)

Spec == Init /\ [][Next]_vars /\ Fairness

-----------------------------------------------------------------------------
(* Properties                                                              *)

\* Every row that will be announced has been.
Announced ==
    /\ "pulled" \notin Range(sync)
    /\ \A m \in Importer : importer[m].at \notin {"unlink", "announce"}

\* ClipboardList's property, whoever else inserts and moves rows.
ListHasNoGap == mounted /\ Announced => ListIsWhole

(***************************************************************************)
(* A refresh ends, and the status leaves `checking', though the import,    *)
(* the capture or the server never answers: a refresh that hung would keep *)
(* every later one from starting.                                          *)
(***************************************************************************)
RefreshSettles ==
    /\ (refresh.at # "idle") ~> (refresh.at = "idle")
    /\ (status = "checking" /\ watchdog) ~> (status = "settled" \/ ~mounted)
=============================================================================
