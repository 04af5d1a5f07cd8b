----------------------------- MODULE ClipboardList -----------------------------
(***************************************************************************)
(* The list of the history in the frontend (clipboardStore.ts) and the     *)
(* commands of the backend that it is filled from and acts through.        *)
(*                                                                         *)
(* Every command is a promise: it is carried out some time after it was    *)
(* asked for, answered some time after that, and given up after ten        *)
(* seconds if it is a query.  Several may be under way, and nothing orders *)
(* their answers.  The rows themselves are LocalHistory's; here one is     *)
(* known by its content.                                                   *)
(***************************************************************************)
EXTENDS Naturals, FiniteSets, Sequences, SequencesExt

CONSTANTS
    Content,   \* rows, by content
    PageSize,  \* PAGE_SIZE
    MaxCalls,  \* bound: commands under way at the same time
    NoRow

ASSUME ClipboardListAssumption ==
    /\ IsFiniteSet(Content) /\ NoRow \notin Content
    /\ PageSize \in Nat \ {0} /\ MaxCalls \in Nat \ {0}

VARIABLES
    db,           \* the rows in the order of updated_at, newest first
    star,         \* those that are starred
    listening,    \* the listener of clipboard-updated is registered
    notices,      \* clipboard-updated has been emitted and not been handled
    query,        \* what the filter bar asks for
    shown,        \* the list
    selected,     \* the selected row
    loading, loadingMore, hasMore,
    nextOffset,   \* where the next page begins
    timer,        \* debouncedLoad's timer runs
    calls,        \* commands under way
    shownFor,     \* history: the query that the list is an answer to
    failed,       \* history: the last load failed
    raced         \* history: a change of a row overlapped a load of the list or
                  \* another change of that row, or no event told of it

listVars == <<db, star, listening, notices, query, shown, selected, loading, loadingMore, hasMore,
              nextOffset, timer, calls, shownFor, failed, raced>>

Query == {"all", "starred"}

Call == 1..MaxCalls

NoCall == [kind |-> "none", fresh |-> FALSE, q |-> "all", offset |-> 0, row |-> NoRow,
           by |-> "other", done |-> FALSE, answer |-> <<>>, raced |-> FALSE]

Loads == {c \in Call : calls[c].kind \in {"load", "more"}}

Changes == {c \in Call : calls[c].kind \in {"star", "delete"}}

ListTypeOK ==
    /\ IsInjective(db) /\ Range(db) \subseteq Content /\ star \subseteq Range(db)
    /\ listening \in BOOLEAN /\ notices \in BOOLEAN /\ query \in Query /\ shownFor \in Query
    /\ Range(shown) \subseteq Content /\ selected \in Content \cup {NoRow}
    /\ loading \in BOOLEAN /\ loadingMore \in BOOLEAN /\ hasMore \in BOOLEAN
    /\ nextOffset \in 0..Cardinality(Content) /\ timer \in BOOLEAN
    /\ DOMAIN calls = Call
    /\ \A c \in Call : /\ DOMAIN calls[c] = DOMAIN NoCall
                       /\ calls[c].kind \in {"none", "load", "more", "star", "delete"}
    /\ failed \in BOOLEAN /\ raced \in BOOLEAN

ListInit(rows, starred) ==
    /\ db = rows /\ star = starred
    /\ listening = FALSE /\ notices = FALSE /\ query = "all" /\ shown = <<>> /\ selected = NoRow
    /\ loading = FALSE /\ loadingMore = FALSE /\ hasMore = FALSE
    /\ nextOffset = 0 /\ timer = FALSE
    /\ calls = [c \in Call |-> NoCall]
    /\ shownFor = "all" /\ failed = FALSE /\ raced = FALSE

-----------------------------------------------------------------------------
(* The backend                                                             *)

\* The elements of list that are in keep, in their order.
Only(list, keep) ==
    LET places == {i \in DOMAIN list : list[i] \in keep}
        nth(k) == CHOOSE i \in places : Cardinality({j \in places : j <= i}) = k
    IN  [k \in 1..Cardinality(places) |-> list[nth(k)]]

Without(list, r) == Only(list, Range(list) \ {r})

\* get_entries: WHERE starred, ORDER BY updated_at DESC, LIMIT, OFFSET.
Matching(q) == Only(db, IF q = "all" THEN Content ELSE star)

Page(q, offset) ==
    LET m == Matching(q) IN
    SubSeq(m, offset + 1, IF Len(m) < offset + PageSize THEN Len(m) ELSE offset + PageSize)

ToTop(r) == <<r>> \o Without(db, r)

\* (Mutant: the content is not looked up first.)
InsertedAgain(x) == <<x>> \o db

\* insert_entry: the row of this content, which is made if there is none,
\* becomes the newest.
Inserted(x) == ToTop(x)

(***************************************************************************)
(* A row moved, or came in, and nothing will tell the list: it, and what   *)
(* the loads that are under way have found already, are behind.            *)
(***************************************************************************)
Unheard ==
    /\ raced' = TRUE
    /\ calls' = [c \in Call |-> [calls[c] EXCEPT !.raced = @ \/ (c \in Loads /\ calls[c].done)]]

\* emit("clipboard-updated"), which is lost before the listener is there.
Emit ==
    IF listening THEN notices' = TRUE /\ UNCHANGED <<calls, raced>>
    ELSE Unheard /\ UNCHANGED notices

ServeQuery(c) ==
    /\ c \in Loads /\ ~calls[c].done
    /\ calls' = [calls EXCEPT ![c].done = TRUE,
                              ![c].answer = Page(calls[c].q, calls[c].offset)]
    /\ UNCHANGED <<db, star, listening, notices, query, shown, selected, loading, loadingMore,
                   hasMore, nextOffset, timer, shownFor, failed, raced>>

\* toggle_star moves the row to the top; a deleted row cannot be starred.
ServeStar(c) ==
    /\ calls[c].kind = "star" /\ ~calls[c].done
    /\ LET r == calls[c].row IN
       IF r \in Range(db)
       THEN /\ star' = IF r \in star THEN star \ {r} ELSE star \cup {r}
            /\ db' = ToTop(r)
            /\ calls' = [calls EXCEPT ![c].done = TRUE,
                                      ![c].answer = IF r \in star THEN <<>> ELSE <<r>>]
       ELSE calls' = [calls EXCEPT ![c] = NoCall] /\ UNCHANGED <<db, star>>
    /\ UNCHANGED <<listening, notices, query, shown, selected, loading, loadingMore, hasMore,
                   nextOffset, timer, shownFor, failed, raced>>

ServeDelete(c) ==
    /\ calls[c].kind = "delete" /\ ~calls[c].done
    /\ db' = Without(db, calls[c].row)
    /\ star' = star \ {calls[c].row}
    /\ calls' = [calls EXCEPT ![c].done = TRUE]
    /\ UNCHANGED <<listening, notices, query, shown, selected, loading, loadingMore, hasMore,
                   nextOffset, timer, shownFor, failed, raced>>

-----------------------------------------------------------------------------
(* Loading                                                                 *)

\* syncSelection: the first row, if the selected one is not in the list.
SyncSelection(list) ==
    IF list = <<>> THEN NoRow
    ELSE IF selected \in Range(list) THEN selected ELSE Head(list)

Free(c) == calls[c] = NoCall /\ \A d \in Call : d < c => calls[d] # NoCall

\* `++loadRequestId': no answer that is under way is the current one any more.
Outdated == [c \in Call |-> [calls[c] EXCEPT !.fresh = FALSE]]

Ask(c, call) ==
    Free(c) /\ calls' = [Outdated EXCEPT ![c] = call]

\* loadEntries, up to its await.
BeginLoad(by, q) ==
    /\ \E c \in Call :
         Ask(c, [NoCall EXCEPT !.kind = "load", !.fresh = TRUE, !.q = q, !.by = by,
                               !.raced = Changes # {}])
    /\ loading' = TRUE /\ loadingMore' = FALSE /\ hasMore' = FALSE

LoadRest == UNCHANGED <<db, star, listening, query, shown, selected, nextOffset, shownFor,
                        failed, raced>>

LoadEntries(by) == BeginLoad(by, query) /\ LoadRest /\ UNCHANGED <<notices, timer>>

\* The frontend registers it after the list is loaded for the first time.
Listens ==
    /\ ~listening /\ listening' = TRUE
    /\ UNCHANGED <<db, star, notices, query, shown, selected, loading, loadingMore,
                   hasMore, nextOffset, timer, calls, shownFor, failed, raced>>

\* The listener of clipboard-updated and clipboard-reordered.
EventHeard ==
    /\ notices /\ notices' = FALSE
    /\ BeginLoad("other", query) /\ LoadRest /\ UNCHANGED timer

\* (Mutant: an answer that is under way is not invalidated.)
QueryChangesOnly(q) ==
    /\ query # q /\ query' = q
    /\ selected' = NoRow /\ loading' = TRUE /\ loadingMore' = FALSE /\ hasMore' = FALSE
    /\ timer' = TRUE
    /\ UNCHANGED <<db, star, listening, notices, shown, nextOffset, calls, shownFor, failed, raced>>

(***************************************************************************)
(* debouncedLoad: "Invalidate the visible selection and any in-flight      *)
(* response as soon as the query changes."                                 *)
(***************************************************************************)
QueryChanges(q) ==
    /\ query # q /\ query' = q
    /\ calls' = Outdated
    /\ selected' = NoRow /\ loading' = TRUE /\ loadingMore' = FALSE /\ hasMore' = FALSE
    /\ timer' = TRUE
    /\ UNCHANGED <<db, star, listening, notices, shown, nextOffset, shownFor, failed, raced>>

TimerFires ==
    /\ timer /\ timer' = FALSE
    /\ BeginLoad("other", query) /\ LoadRest /\ UNCHANGED notices

LoadAnswered(c) ==
    /\ calls[c].kind = "load" /\ calls[c].done
    /\ calls' = [calls EXCEPT ![c] = NoCall]
    /\ IF calls[c].fresh
       THEN /\ shown' = calls[c].answer /\ nextOffset' = Len(calls[c].answer)
            /\ hasMore' = (Len(calls[c].answer) = PageSize)
            /\ selected' = SyncSelection(calls[c].answer)
            /\ loading' = FALSE
            /\ shownFor' = calls[c].q /\ failed' = FALSE /\ raced' = calls[c].raced
       ELSE UNCHANGED <<shown, nextOffset, hasMore, selected, loading, shownFor, failed, raced>>
    /\ UNCHANGED <<db, star, listening, notices, query, loadingMore, timer>>

\* Ten seconds have passed, or the command failed: the list stays.
LoadFails(c) ==
    /\ calls[c].kind = "load"
    /\ calls' = [calls EXCEPT ![c] = NoCall]
    /\ loading' = (loading /\ ~calls[c].fresh)
    /\ failed' = (failed \/ calls[c].fresh)
    /\ UNCHANGED <<db, star, listening, notices, query, shown, selected, loadingMore, hasMore,
                   nextOffset, timer, shownFor, raced>>

\* loadMoreEntries, when the end of the list is scrolled to.
LoadMore ==
    /\ ~loading /\ ~loadingMore /\ hasMore
    /\ \E c \in Call :
         /\ Free(c)
         /\ calls' = [calls EXCEPT ![c] =
                        [NoCall EXCEPT !.kind = "more", !.fresh = TRUE, !.q = query,
                                       !.offset = nextOffset, !.raced = Changes # {}]]
    /\ loadingMore' = TRUE
    /\ UNCHANGED <<db, star, listening, notices, query, shown, selected, loading, hasMore,
                   nextOffset, timer, shownFor, failed, raced>>

MoreAnswered(c) ==
    /\ calls[c].kind = "more" /\ calls[c].done
    /\ calls' = [calls EXCEPT ![c] = NoCall]
    /\ IF calls[c].fresh
       THEN LET page == calls[c].answer
                all == shown \o Only(page, Content \ Range(shown))
            IN  /\ shown' = all /\ selected' = SyncSelection(all)
                /\ nextOffset' = nextOffset + Len(page)
                /\ hasMore' = (Len(page) = PageSize)
                /\ loadingMore' = FALSE /\ raced' = (raced \/ calls[c].raced)
       ELSE UNCHANGED <<shown, nextOffset, hasMore, selected, loadingMore, raced>>
    /\ UNCHANGED <<db, star, listening, notices, query, loading, timer, shownFor, failed>>

MoreFails(c) ==
    /\ calls[c].kind = "more"
    /\ calls' = [calls EXCEPT ![c] = NoCall]
    /\ loadingMore' = (loadingMore /\ ~calls[c].fresh)
    /\ UNCHANGED <<db, star, listening, notices, query, shown, selected, loading, hasMore,
                   nextOffset, timer, shownFor, failed, raced>>

-----------------------------------------------------------------------------
(* Acting on a row                                                         *)

\* toggleStar and deleteEntry, which neither a load nor another change holds
\* back.
AskChange(kind, r) ==
    /\ r \in Range(shown)
    /\ \E c \in Call :
         /\ Free(c)
         /\ calls' = [d \in Call |->
                        IF d = c THEN [NoCall EXCEPT !.kind = kind, !.row = r]
                        ELSE [calls[d] EXCEPT !.raced = @ \/ d \in Loads]]
    /\ raced' = (raced \/ \E d \in Changes : calls[d].kind = "star" /\ calls[d].row = r)
    /\ UNCHANGED <<db, star, listening, notices, query, shown, selected, loading, loadingMore,
                   hasMore, nextOffset, timer, shownFor, failed>>

\* (Mutant: the next page still begins where it did before the row left.)
ChangeAnsweredOffsetKept(c) ==
    /\ c \in Changes /\ calls[c].done
    /\ calls' = [calls EXCEPT ![c] = NoCall]
    /\ LET leaves == calls[c].kind = "delete" \/ (query = "starred" /\ calls[c].answer = <<>>)
           list == IF leaves THEN Without(shown, calls[c].row) ELSE shown
       IN  shown' = list /\ selected' = SyncSelection(list)
    /\ UNCHANGED <<db, star, listening, notices, query, loading, loadingMore, hasMore, nextOffset,
                   timer, shownFor, failed, raced>>

\* The list follows: the row leaves it, or stays where it is.
ChangeAnswered(c) ==
    /\ c \in Changes /\ calls[c].done
    /\ calls' = [calls EXCEPT ![c] = NoCall]
    /\ LET leaves == calls[c].kind = "delete" \/ (query = "starred" /\ calls[c].answer = <<>>)
           list == IF leaves THEN Without(shown, calls[c].row) ELSE shown
       IN  /\ shown' = list
           /\ nextOffset' = IF nextOffset < Len(list) THEN nextOffset ELSE Len(list)
           /\ selected' = SyncSelection(list)
    /\ UNCHANGED <<db, star, listening, notices, query, loading, loadingMore, hasMore, timer,
                   shownFor, failed, raced>>

ChangeFails(c) ==
    /\ c \in Changes /\ ~calls[c].done
    /\ calls' = [calls EXCEPT ![c] = NoCall]
    /\ UNCHANGED <<db, star, listening, notices, query, shown, selected, loading, loadingMore,
                   hasMore, nextOffset, timer, shownFor, failed, raced>>

\* selectEntry, moveSelection, selectEdge.
SelectEntry(r) ==
    /\ r \in Range(shown) /\ selected # r /\ selected' = r
    /\ UNCHANGED <<db, star, listening, notices, query, shown, loading, loadingMore, hasMore,
                   nextOffset, timer, calls, shownFor, failed, raced>>

-----------------------------------------------------------------------------
(* Properties                                                              *)

(***************************************************************************)
(* What Enter pastes is a row of the list, and the list is an answer to    *)
(* what the filter bar says now, unless loading that answer failed:        *)
(* "Otherwise Enter can act on the previous result set".                   *)
(***************************************************************************)
EnterMatchesQuery ==
    ~loading /\ selected # NoRow =>
      selected \in Range(shown) /\ (shownFor = query \/ failed)

AtRest == ~loading /\ ~loadingMore /\ ~timer /\ ~notices /\ Changes = {}

(***************************************************************************)
(* A list at rest has no row twice, none that is gone and no gap: it holds *)
(* the newest rows that match, and all of them once there is no more to    *)
(* load.  Unless the load failed; a row was starred or deleted while the   *)
(* list was being loaded, or its star was clicked again before the first   *)
(* click was answered; or, since the rows were read, a row has moved or    *)
(* come in that no event told the list of.                                 *)
(***************************************************************************)
ListIsWhole ==
    AtRest /\ ~failed /\ ~raced =>
      LET m == Matching(query) IN
      /\ IsInjective(shown) /\ Len(shown) <= Len(m)
      /\ Range(shown) = {m[i] : i \in 1..Len(shown)}
      /\ ~hasMore => Len(shown) = Len(m)
=============================================================================
