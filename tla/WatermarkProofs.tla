---------------------------- MODULE WatermarkProofs ----------------------------
(***************************************************************************)
(* What TLAPS proves of the pull cursor in HistorySync: a watermark always *)
(* belongs to the server the settings name, and hides nothing new of it.   *)
(***************************************************************************)
EXTENDS HistorySyncProofs, FiniteSetTheorems, WellFoundedInduction

\* A walk remembers the generation of the cursor it began with; none is newer
\* than the cursor's.
OldGeneration(c) == pull[c].at # "idle" => pull[c].generation <= cursor[c].generation

\* A walk whose generation still stands walks the configured server, unless a
\* change of server has yet to reset the cursor.
WalkOfConfigured(c) ==
    /\ ~saving[c]
    /\ pull[c].at \notin {"idle", "begun"}
    /\ pull[c].generation = cursor[c].generation
    => pull[c].srv = config[c]

MarksOfConfigured(c) ==
    Configured(c) =>
        /\ cursor[c].watermark # None => cursor[c].watermark.srv = config[c]
        /\ disk[c] # None => disk[c].srv = config[c]

(***************************************************************************)
(* Strengthens WatermarkOfConfiguredServer by what the generation is for:  *)
(* the end of a walk that began under other settings is told from one      *)
(* that may move the watermark.                                            *)
(***************************************************************************)
OwnMarks == \A c \in Client : OldGeneration(c) /\ WalkOfConfigured(c) /\ MarksOfConfigured(c)

\* What a step may leave as it is for one client.
Kept(c) ==
    /\ pull'[c] = pull[c] /\ cursor'[c] = cursor[c] /\ disk'[c] = disk[c]
    /\ config'[c] = config[c] /\ saving'[c] = saving[c] /\ torn'[c] = torn[c]

LEMMA KeptOwnMarks ==
    ASSUME OwnMarks, NEW c \in Client, Kept(c)
    PROVE  OldGeneration(c)' /\ WalkOfConfigured(c)' /\ MarksOfConfigured(c)'
  BY DEF OwnMarks, Kept, OldGeneration, WalkOfConfigured, MarksOfConfigured, Configured

\* A step of client c alone.
LEMMA OneClient ==
    ASSUME OwnMarks, NEW c \in Client,
           \A d \in Client \ {c} : Kept(d),
           OldGeneration(c)', WalkOfConfigured(c)', MarksOfConfigured(c)'
    PROVE  OwnMarks'
  <1>1. ASSUME NEW d \in Client, d # c
        PROVE  OldGeneration(d)' /\ WalkOfConfigured(d)' /\ MarksOfConfigured(d)'
    BY <1>1, KeptOwnMarks
  <1> QED
    BY <1>1 DEF OwnMarks

\* A step that moves a walk on within the server it walks, or ends it.
LEMMA WalkMoves ==
    ASSUME TypeOK, OwnMarks, NEW c \in Client, NEW walk,
           pull' = [pull EXCEPT ![c] = walk],
           UNCHANGED <<cursor, disk, config, saving, torn>>,
           \/ walk.at \in {"idle", "begun"} /\ (walk.at = "begun" => walk.generation = cursor[c].generation)
           \/ /\ pull[c].at # "idle" /\ walk.generation = pull[c].generation
              /\ \/ pull[c].at \notin {"idle", "begun"} /\ walk.srv = pull[c].srv
                 \/ walk.srv = config[c]
    PROVE  OwnMarks'
  <1>0. pull'[c] = walk /\ \A d \in Client \ {c} : Kept(d)
    BY DEF TypeOK, Kept
  <1>1. cursor[c].generation \in Nat
    BY DEF TypeOK
  <1>2. OldGeneration(c)'
    BY <1>0, <1>1 DEF OwnMarks, OldGeneration
  <1>3. WalkOfConfigured(c)'
    BY <1>0 DEF OwnMarks, WalkOfConfigured
  <1>4. MarksOfConfigured(c)'
    BY DEF OwnMarks, MarksOfConfigured, Configured
  <1> QED
    BY <1>0, <1>2, <1>3, <1>4, OneClient

\* A step that touches neither cursors, walks nor settings.
LEMMA Elsewhere ==
    ASSUME OwnMarks, UNCHANGED <<pull, cursor, disk, config, saving, torn>>
    PROVE  OwnMarks'
  BY KeptOwnMarks DEF Kept, OwnMarks

\* reset_pull_cursor makes every walk under way one of an older generation.
LEMMA ResetOwnMarks ==
    ASSUME TypeOK, OwnMarks, NEW c \in Client, ResetCursor(c), UNCHANGED config,
           \/ saving' = saving
           \/ saving[c] /\ saving' = [saving EXCEPT ![c] = FALSE]
    PROVE  OwnMarks'
  <1>0. /\ pull' = pull /\ config' = config
        /\ cursor'[c].generation = cursor[c].generation + 1 /\ cursor'[c].watermark = None
        /\ cursor[c].generation \in Nat /\ pull[c].generation \in Nat
    BY DEF ResetCursor, TypeOK, PullState, PullRecord
  <1>1. \A d \in Client \ {c} : Kept(d)
    BY DEF ResetCursor, Kept, TypeOK
  <1>2. OldGeneration(c)' /\ WalkOfConfigured(c)'
    BY <1>0 DEF OwnMarks, OldGeneration, WalkOfConfigured
  <1>3. MarksOfConfigured(c)'
    <2>1. CASE disk' = [disk EXCEPT ![c] = None]
      BY <1>0, <2>1 DEF MarksOfConfigured, TypeOK
    <2>2. CASE disk' = disk /\ torn' = [torn EXCEPT ![c] = torn[c] \/ saving[c]]
      <3> SUFFICES ASSUME Configured(c)', disk[c] # None PROVE disk[c].srv = config[c]
        BY <1>0, <2>2 DEF MarksOfConfigured
      <3>1. config[c] # None /\ ~saving'[c] /\ ~torn'[c]
        BY <1>0 DEF Configured
      <3>2. ~torn[c] /\ ~saving[c]
        BY <2>2, <3>1 DEF TypeOK
      <3> QED
        BY <3>1, <3>2 DEF OwnMarks, MarksOfConfigured, Configured
    <2> QED
      BY <2>1, <2>2 DEF ResetCursor
  <1> QED
    BY <1>1, <1>2, <1>3, OneClient

LEMMA UserOwnMarks ==
    ASSUME TypeOK, OwnMarks, NEW c \in Client, UserStep(c)
    PROVE  OwnMarks'
  <1>1. ASSUME NEW k \in Content, Capture(c, k) \/ ToggleStar(c, k) \/ DeleteLocal(c, k)
        PROVE  OwnMarks'
    BY <1>1, Elsewhere DEF Capture, ToggleStar, DeleteLocal, pullVars, configVars
  <1>2. ASSUME NEW s \in Server \cup {None}, SaveSettings(c, s) PROVE OwnMarks'
    <2>1. /\ ~saving[c] /\ UNCHANGED <<pull, cursor, disk, torn>>
          /\ config'[c] = s /\ (saving'[c] <=> config[c] # s)
          /\ \A d \in Client \ {c} : Kept(d)
      BY <1>2 DEF SaveSettings, pullVars, TypeOK, Kept
    <2>2. OldGeneration(c)' /\ WalkOfConfigured(c)' /\ MarksOfConfigured(c)'
      BY <2>1 DEF OwnMarks, OldGeneration, WalkOfConfigured, MarksOfConfigured, Configured
    <2> QED
      BY <2>1, <2>2, OneClient
  <1>3. CASE ResetAfterSave(c)
    BY <1>3, ResetOwnMarks DEF ResetAfterSave
  <1>4. CASE ResetSyncCursor(c)
    BY <1>4, ResetOwnMarks DEF ResetSyncCursor, configVars
  <1>5. CASE Restart(c)
    <2>1. /\ pull'[c] = IdlePull /\ cursor'[c] = StartCursor(disk[c]) /\ disk' = disk
          /\ config' = config
          /\ \A d \in Client \ {c} : Kept(d)
      BY <1>5 DEF Restart, TypeOK, Kept
    <2>2. OldGeneration(c)' /\ WalkOfConfigured(c)'
      BY <2>1 DEF IdlePull, OldGeneration, WalkOfConfigured
    <2>3. torn' = [torn EXCEPT ![c] = torn[c] \/ saving[c]]
      BY <1>5 DEF Restart
    <2>4. Configured(c)' => Configured(c)
      BY <2>1, <2>3 DEF Configured, TypeOK
    <2>5. MarksOfConfigured(c)'
      BY <2>1, <2>4 DEF OwnMarks, MarksOfConfigured, StartCursor
    <2> QED
      BY <2>1, <2>2, <2>5, OneClient
  <1> QED
    BY <1>1, <1>2, <1>3, <1>4, <1>5 DEF UserStep

\* The end of a walk moves the watermark only if its generation still stands.
LEMMA FinishOwnMarks ==
    ASSUME TypeOK, OwnMarks, NEW c \in Client, PullFinish(c)
    PROVE  OwnMarks'
  <1> DEFINE walk == pull[c]
             mark == [srv |-> walk.srv, at |-> walk.newest]
  <1>1. /\ pull'[c] = IdlePull /\ walk.at = "finish"
        /\ UNCHANGED <<config, saving, torn>>
        /\ \A d \in Client \ {c} : pull'[d] = pull[d]
    BY DEF PullFinish, EndWalk, TypeOK, configVars
  <1>2. OldGeneration(c)' /\ WalkOfConfigured(c)'
    BY <1>1 DEF IdlePull, OldGeneration, WalkOfConfigured
  <1>3. CASE UNCHANGED <<cursor, disk>>
    <2>1. MarksOfConfigured(c)'
      BY <1>1, <1>3 DEF OwnMarks, MarksOfConfigured, Configured
    <2> QED
      BY <1>1, <1>2, <1>3, <2>1, OneClient DEF Kept
  <1>4. CASE /\ walk.generation = cursor[c].generation
             /\ \/ /\ cursor' = [cursor EXCEPT ![c] =
                                     [cursor[c] EXCEPT !.watermark = mark, !.initialized = TRUE]]
                   /\ Persist(c, mark)
                \/ /\ cursor' = [cursor EXCEPT ![c] = [cursor[c] EXCEPT !.initialized = TRUE]]
                   /\ disk' = disk
    <2>1. \A d \in Client \ {c} : Kept(d)
      BY <1>1, <1>4 DEF Kept, Persist, TypeOK
    <2>2. Configured(c) => walk.srv = config[c]
      BY <1>1, <1>4 DEF OwnMarks, WalkOfConfigured, Configured
    <2>3. /\ cursor'[c].watermark \in {cursor[c].watermark, mark}
          /\ disk'[c] \in {disk[c], mark}
      BY <1>4 DEF Persist, TypeOK
    <2>4. MarksOfConfigured(c)'
      BY <1>1, <2>2, <2>3 DEF OwnMarks, MarksOfConfigured, Configured
    <2> QED
      BY <1>2, <2>1, <2>4, OneClient
  <1> QED
    BY <1>3, <1>4 DEF PullFinish

LEMMA PullOwnMarks ==
    ASSUME TypeOK, OwnMarks, NEW c \in Client, PullStep(c)
    PROVE  OwnMarks'
  <1> DEFINE w == pull[c]
  <1>0. w \in PullRecord /\ pull \in [Client -> PullState]
    BY DEF TypeOK, PullState
  \* A walk that goes on.
  <1>a. ASSUME NEW walk, pull' = [pull EXCEPT ![c] = walk],
               UNCHANGED <<cursor, disk, config, saving, torn>>,
               w.at \notin {"idle", "begun"}, walk.generation = w.generation, walk.srv = w.srv
        PROVE  OwnMarks'
    BY <1>a, WalkMoves
  \* A walk that ends and moves no watermark.
  <1>b. ASSUME EndWalk(c), UNCHANGED <<cursor, disk, config, saving, torn>> PROVE OwnMarks'
    BY <1>b, WalkMoves DEF EndWalk, IdlePull
  <1>1. ASSUME NEW p \in Passer, PullBegin(c, p) PROVE OwnMarks'
    BY <1>1, WalkMoves DEF PullBegin, IdlePull, configVars
  <1>2. CASE PullReadSettings(c)
    <2>1. CASE config[c] = None
      BY <1>2, <1>b, <2>1 DEF PullReadSettings, configVars
    <2>2. CASE config[c] # None
      <3> DEFINE walk == [w EXCEPT !.at = "settings", !.srv = config[c]]
      <3>1. /\ w.at = "begun" /\ pull' = [pull EXCEPT ![c] = walk]
            /\ UNCHANGED <<cursor, disk, config, saving, torn>>
        BY <1>2, <2>2 DEF PullReadSettings, configVars
      <3>2. walk.generation = w.generation /\ walk.srv = config[c]
        BY <1>0 DEF PullRecord
      <3> HIDE DEF walk
      <3> QED
        BY <3>1, <3>2, WalkMoves
    <2> QED
      BY <2>1, <2>2
  <1>3. CASE PullReadCursor(c)
    BY <1>0, <1>3, <1>a DEF PullReadCursor, configVars, PullRecord
  <1>4. CASE PullPage(c)
    <2> DEFINE items == ItemsBefore(server[w.srv], w.before)
               page  == NewestItems(items, Limit(w))
               fresh == Above(page, w.mark)
               last  == [w EXCEPT !.at = "finish"]
               step(more, before, newest) ==
                  [w EXCEPT !.at = "page", !.page = fresh, !.more = more,
                            !.before = before, !.newest = newest]
    <2>1. w.at = "fetch" /\ UNCHANGED <<cursor, disk, config, saving, torn>>
      BY <1>4 DEF PullPage, configVars
    <2>2. CASE page = {}
      <3>1. pull' = [pull EXCEPT ![c] = last]
        BY <1>4, <2>2 DEF PullPage
      <3>2. last.generation = w.generation /\ last.srv = w.srv
        BY <1>0 DEF PullRecord
      <3> HIDE DEF last
      <3> QED
        BY <1>a, <2>1, <3>1, <3>2
    <2>3. CASE page # {}
      <3>1. PICK first \in page, oldest \in page :
               pull' = [pull EXCEPT ![c] =
                  step(page # items /\ fresh = page, oldest.updated,
                       IF w.newest = None THEN first.updated ELSE w.newest)]
        BY <1>4, <2>3 DEF PullPage
      <3>2. \A more, before, newest :
               /\ step(more, before, newest).generation = w.generation
               /\ step(more, before, newest).srv = w.srv
        BY <1>0 DEF PullRecord
      <3> DEFINE walk == step(page # items /\ fresh = page, oldest.updated,
                             IF w.newest = None THEN first.updated ELSE w.newest)
      <3> HIDE DEF items, page, fresh, step
      <3>3. pull' = [pull EXCEPT ![c] = walk] /\ walk.generation = w.generation /\ walk.srv = w.srv
        BY <3>1, <3>2
      <3> HIDE DEF walk
      <3> QED
        BY <1>a, <2>1, <3>3
    <2> QED
      BY <2>2, <2>3
  <1>5. CASE PullPageFailed(c)
    BY <1>5, <1>b DEF PullPageFailed, configVars
  <1>6. CASE PullNextPage(c)
    BY <1>0, <1>6, <1>a DEF PullNextPage, configVars, PullRecord
  <1>7. CASE IngestCheck(c)
    <2>1. w.at = "page" /\ UNCHANGED <<cursor, disk, config, saving, torn>>
      BY <1>7 DEF IngestCheck, configVars
    <2>2. \E walk : /\ pull' = [pull EXCEPT ![c] = walk]
                    /\ walk.generation = w.generation /\ walk.srv = w.srv
      BY <1>0, <1>7 DEF IngestCheck, PullRecord
    <2> QED
      BY <1>a, <2>1, <2>2
  <1>8. CASE DownloadBlob(c)
    BY <1>0, <1>8, <1>a DEF DownloadBlob, configVars, PullRecord
  <1>9. ASSUME NEW i, Ingested(c, i), w.at \notin {"idle", "begun"} PROVE OwnMarks'
    <2>1. /\ UNCHANGED <<cursor, disk, config, saving, torn>>
          /\ pull' = [pull EXCEPT ![c] = PastItem(w, i)]
      BY <1>9 DEF Ingested, configVars
    <2>2. PastItem(w, i).generation = w.generation /\ PastItem(w, i).srv = w.srv
      BY <1>0 DEF PastItem, PullRecord
    <2> QED
      BY <1>9, <1>a, <2>1, <2>2
  <1>10. CASE IngestStar(c) \/ SkipBlob(c) \/ IngestInsert(c)
    BY <1>9, <1>10 DEF IngestStar, SkipBlob, IngestInsert
  <1>11. CASE IngestFailed(c)
    <2>1. /\ w.at \notin {"idle", "begun"}
          /\ UNCHANGED <<cursor, disk, config, saving, torn>>
      BY <1>11 DEF IngestFailed, configVars
    <2>2. \E walk : /\ pull' = [pull EXCEPT ![c] = walk]
                    /\ walk.generation = w.generation /\ walk.srv = w.srv
      BY <1>0, <1>11 DEF IngestFailed, PastItem, PullRecord
    <2> QED
      BY <1>a, <2>1, <2>2
  <1>12. CASE PullFinish(c)
    BY <1>12, FinishOwnMarks
  <1>13. CASE CancelPull(c)
    <2>1. UNCHANGED <<cursor, disk, config, saving, torn>> /\ (pull' = pull \/ EndWalk(c))
      BY <1>13 DEF CancelPull, configVars
    <2> QED
      BY <1>b, <2>1, Elsewhere
  <1> QED
    BY <1>1, <1>2, <1>3, <1>4, <1>5, <1>6, <1>7, <1>8, <1>10, <1>11, <1>12, <1>13 DEF PullStep

LEMMA NextOwnMarks ==
    ASSUME TypeOK, OwnMarks, [Next]_vars
    PROVE  OwnMarks'
  <1>1. ASSUME NEW c \in Client, NEW p \in Task, PushStep(c, p) PROVE OwnMarks'
    <2>1. UNCHANGED <<pullVars, configVars>>
      BY <1>1 DEF PushStep, ReadBatch, PushReadSettings, PushSend, PushDelivered, PushAcknowledged,
                  PushRejected, PushRefused, PushTimedOut
    <2> QED
      BY <2>1, Elsewhere DEF pullVars, configVars
  <1>2. ASSUME NEW c \in Client, CancelPush(c) PROVE OwnMarks'
    BY <1>2, Elsewhere DEF CancelPush, pullVars, configVars
  <1>3. ASSUME NEW s \in Server, NEW k \in Content, OtherStep(s, k) PROVE OwnMarks'
    <2>1. UNCHANGED <<pullVars, configVars>>
      BY <1>3 DEF OtherStep, OtherDevicePush, AdminStar, AdminDelete
    <2> QED
      BY <2>1, Elsewhere DEF pullVars, configVars
  <1>4. ASSUME NEW r \in late, LateDelivered(r) PROVE OwnMarks'
    BY <1>4, Elsewhere DEF LateDelivered, pullVars, configVars
  <1>5. CASE UNCHANGED vars
    BY <1>5, Elsewhere DEF vars
  <1> QED
    BY <1>1, <1>2, <1>3, <1>4, <1>5, UserOwnMarks, PullOwnMarks DEF Next

\* The strengthening holds throughout.
THEOREM OwnMarksAlways == Spec => []OwnMarks
  <1>1. Init => OwnMarks
    BY DEF Init, OwnMarks, OldGeneration, WalkOfConfigured, MarksOfConfigured, Configured, IdlePull,
           StartCursor
  <1>2. TypeOK /\ OwnMarks /\ [Next]_vars => OwnMarks'
    BY NextOwnMarks
  <1> QED
    BY <1>1, <1>2, TypeCorrect, PTL DEF Spec

(***************************************************************************)
(* Whatever walks were under way when the user changed the server, the     *)
(* watermark that decides where the next walk stops is a position in the   *)
(* configured server's history and never in the one before.                *)
(***************************************************************************)
THEOREM WatermarkIsOfConfiguredServer == Spec => []WatermarkOfConfiguredServer
  <1>1. OwnMarks => WatermarkOfConfiguredServer
    BY DEF OwnMarks, MarksOfConfigured, WatermarkOfConfiguredServer
  <1> QED
    BY <1>1, OwnMarksAlways, PTL

-----------------------------------------------------------------------------
(***************************************************************************)
(* Pages.  The newest entries of a finite history are there if any are,    *)
(* and every other entry is older than each of them.                       *)
(***************************************************************************)

LEMMA LeastNatural ==
    ASSUME NEW S \in SUBSET Nat, S # {}
    PROVE  \E m \in S : \A n \in S : m <= n
  <1>1. PICK m \in S : \A n \in S : <<n, m>> \notin OpToRel(<, Nat)
    BY NatLessThanWellFounded, WFMin, Zenon
  <1>2. \A n \in S : ~(n < m)
    BY <1>1, Zenon DEF OpToRel
  <1> QED
    BY <1>2

Newer(items, i) == {j \in items : i.updated < j.updated}

LEMMA FewerAreNewer ==
    ASSUME NEW items \in SUBSET Item, IsFiniteSet(items), NEW i \in items, NEW j \in items
    PROVE  /\ Cardinality(Newer(items, i)) \in Nat
           /\ i.updated <= j.updated =>
                 Cardinality(Newer(items, j)) <= Cardinality(Newer(items, i))
           /\ i.updated < j.updated =>
                 Cardinality(Newer(items, j)) < Cardinality(Newer(items, i))
  <1>1. /\ IsFiniteSet(Newer(items, i)) /\ IsFiniteSet(Newer(items, j))
    BY FS_Subset DEF Newer
  <1>2. Cardinality(Newer(items, i)) \in Nat /\ Cardinality(Newer(items, j)) \in Nat
    BY <1>1, FS_CardinalityType
  <1>3. i.updated \in Nat /\ j.updated \in Nat
    BY DEF Item
  <1>4. i.updated <= j.updated => Newer(items, j) \in SUBSET Newer(items, i)
    BY <1>3 DEF Newer, Item
  <1>5. i.updated < j.updated => Newer(items, j) # Newer(items, i)
    BY <1>3 DEF Newer
  <1> QED
    BY <1>1, <1>2, <1>3, <1>4, <1>5, FS_Subset

LEMMA PageIsNewest ==
    ASSUME NEW items \in SUBSET Item, IsFiniteSet(items), NEW limit \in Nat \ {0}
    PROVE  /\ NewestItems(items, limit) \subseteq items
           /\ items # {} => NewestItems(items, limit) # {}
           /\ \A i \in items \ NewestItems(items, limit), j \in NewestItems(items, limit) :
                 i.updated < j.updated
  <1>0. NewestItems(items, limit) = {i \in items : Cardinality(Newer(items, i)) < limit}
    BY DEF NewestItems, Newer
  <1>1. ASSUME items # {} PROVE NewestItems(items, limit) # {}
    <2> DEFINE counts == {Cardinality(Newer(items, i)) : i \in items}
    <2>1. counts \in SUBSET Nat /\ counts # {}
      BY <1>1, FewerAreNewer
    <2>2. PICK m \in counts : \A n \in counts : m <= n
      BY <2>1, LeastNatural
    <2>3. PICK i \in items : m = Cardinality(Newer(items, i))
      BY <2>2
    <2>4. \A j \in items : ~(i.updated < j.updated)
      BY <2>1, <2>2, <2>3, FewerAreNewer
    <2>5. Newer(items, i) = {}
      BY <2>4 DEF Newer
    <2> QED
      BY <1>0, <2>5, FS_EmptySet
  <1>2. ASSUME NEW i \in items \ NewestItems(items, limit), NEW j \in NewestItems(items, limit)
        PROVE  i.updated < j.updated
    <2>1. /\ Cardinality(Newer(items, i)) \in Nat /\ Cardinality(Newer(items, j)) \in Nat
          /\ ~(Cardinality(Newer(items, i)) < limit) /\ Cardinality(Newer(items, j)) < limit
      BY <1>0, FewerAreNewer
    <2>2. i.updated \in Nat /\ j.updated \in Nat
      BY <1>0 DEF Item
    <2>3. ~(j.updated <= i.updated)
      BY <1>0, <2>1, FewerAreNewer
    <2> QED
      BY <2>2, <2>3
  <1> QED
    BY <1>0, <1>1, <1>2

-----------------------------------------------------------------------------
(***************************************************************************)
(* Histories change at the top only: what a step adds to one is newer than *)
(* anything that was there.                                                *)
(***************************************************************************)

\* One write to history h at time now.
WritesOnTop(h, new, now) ==
    \E x \in Item : x.updated = now /\ Items(new) \subseteq Items(h) \cup {x}

LEMMA CreateEntryOnTop ==
    ASSUME NEW h \in History, NEW k \in Content, NEW now \in Nat,
           NEW starred \in BOOLEAN \cup {None}, NEW edit \in Stamp \cup {None}
    PROVE  WritesOnTop(h, CreateEntry(h, k, starred, edit, now), now)
  <1> DEFINE new == CreateEntry(h, k, starred, edit, now)
             x == [key |-> k, updated |-> now, starred |-> new[k].starred]
  <1>1. new \in History
    BY CreateEntryType
  <1>2. new[k] \in ServerRow /\ new[k].updated = now
    <2>1. CASE starred # None
      BY <2>1 DEF CreateEntry, History, ServerRow
    <2>2. CASE starred = None /\ h[k] = None
      BY <2>2 DEF CreateEntry, History, ServerRow
    <2>3. CASE starred = None /\ h[k] # None
      <3>1. h[k] \in ServerRow
        BY <2>3 DEF History
      <3> QED
        BY <2>3, <3>1 DEF CreateEntry, History, ServerRow
    <2> QED
      BY <2>1, <2>2, <2>3
  <1>3. \A l \in Content : l # k => new[l] = h[l]
    BY DEF CreateEntry, History
  <1> HIDE DEF new
  <1>4. x \in Item /\ x.updated = now
    BY <1>2 DEF Item, ServerRow
  <1>5. Items(new) \subseteq Items(h) \cup {x}
    BY <1>2, <1>3 DEF Items
  <1> QED
    BY <1>4, <1>5 DEF WritesOnTop, new

LEMMA UpdateEntryOnTop ==
    ASSUME NEW h \in History, NEW k \in Content, NEW now \in Nat,
           NEW starred \in BOOLEAN, NEW edit \in Stamp \cup {None}, h[k] # None
    PROVE  WritesOnTop(h, UpdateEntryStarred(h, k, starred, edit, now), now)
  <1> DEFINE new == UpdateEntryStarred(h, k, starred, edit, now)
             x == [key |-> k, updated |-> now, starred |-> starred]
  <1>1. /\ new[k].updated = now /\ new[k].starred = starred
        /\ \A l \in Content : l # k => new[l] = h[l]
    BY DEF UpdateEntryStarred, History
  <1> HIDE DEF new
  <1>2. x \in Item /\ x.updated = now
    BY DEF Item
  <1>3. Items(new) \subseteq Items(h) \cup {x}
    BY <1>1 DEF Items
  <1> QED
    BY <1>2, <1>3 DEF WritesOnTop, new

LEMMA DeleteEntryShrinks ==
    ASSUME NEW h \in History, NEW k \in Content
    PROVE  Items(DeleteEntry(h, k)) \subseteq Items(h)
  <1>1. \A l \in Content : DeleteEntry(h, k)[l] # None => DeleteEntry(h, k)[l] = h[l]
    BY DEF DeleteEntry, History
  <1> QED
    BY <1>1 DEF Items

\* What a step may do to the history of server s.
HistoryMoves(s) ==
    \/ Items(server'[s]) \subseteq Items(server[s])
    \/ clock' = Now /\ WritesOnTop(server[s], server'[s], Now)

LEMMA StoreMoves ==
    ASSUME TypeOK, NEW r \in Request, Store(r)
    PROVE  \A s \in Server : HistoryMoves(s)
  <1>1. r.srv \in Server /\ r.key \in Content /\ r.starred \in BOOLEAN
        /\ r.edit \in Stamp \cup {None} /\ server[r.srv] \in History /\ Now \in Nat
    BY NowType DEF Request, TypeOK
  <1>2. WritesOnTop(server[r.srv], CreateEntry(server[r.srv], r.key, r.starred, r.edit, Now), Now)
    BY <1>1, CreateEntryOnTop
  <1>3. clock' = Now /\ \A s \in Server :
           server'[s] = IF s = r.srv
                        THEN CreateEntry(server[r.srv], r.key, r.starred, r.edit, Now)
                        ELSE server[s]
    BY DEF Store, TypeOK
  <1> QED
    BY <1>2, <1>3 DEF HistoryMoves

LEMMA OtherMoves ==
    ASSUME TypeOK, NEW t \in Server, NEW k \in Content, OtherStep(t, k)
    PROVE  \A s \in Server : HistoryMoves(s)
  <1>0. server[t] \in History /\ Now \in Nat /\ StampOf(t) \in Stamp
    BY NowType DEF TypeOK
  <1>1. ASSUME NEW starred \in BOOLEAN \cup {None}, OtherDevicePush(t, k, starred)
        PROVE  \A s \in Server : HistoryMoves(s)
    <2>1. WritesOnTop(server[t], CreateEntry(server[t], k, starred, StampOf(t), Now), Now)
      BY <1>0, CreateEntryOnTop
    <2>2. clock' = Now /\ \A s \in Server :
             server'[s] = IF s = t THEN CreateEntry(server[t], k, starred, StampOf(t), Now)
                          ELSE server[s]
      BY <1>1 DEF OtherDevicePush, TypeOK
    <2> QED
      BY <2>1, <2>2 DEF HistoryMoves
  <1>2. ASSUME NEW starred \in BOOLEAN, AdminStar(t, k, starred)
        PROVE  \A s \in Server : HistoryMoves(s)
    <2>1. WritesOnTop(server[t], UpdateEntryStarred(server[t], k, starred, StampOf(t), Now), Now)
      BY <1>0, <1>2, UpdateEntryOnTop DEF AdminStar
    <2>2. clock' = Now /\ \A s \in Server :
             server'[s] = IF s = t THEN UpdateEntryStarred(server[t], k, starred, StampOf(t), Now)
                          ELSE server[s]
      BY <1>2 DEF AdminStar, TypeOK
    <2> QED
      BY <2>1, <2>2 DEF HistoryMoves
  <1>3. CASE AdminDelete(t, k)
    <2>1. \A s \in Server :
             server'[s] = IF s = t THEN DeleteEntry(server[t], k) ELSE server[s]
      BY <1>3 DEF AdminDelete, TypeOK
    <2> QED
      BY <1>0, <2>1, DeleteEntryShrinks DEF HistoryMoves
  <1> QED
    BY <1>1, <1>2, <1>3 DEF OtherStep

LEMMA NextMoves ==
    ASSUME TypeOK, [Next]_vars
    PROVE  /\ \A s \in Server : HistoryMoves(s)
           /\ clock' \in {clock, Now}
  <1>0. ASSUME server' = server PROVE \A s \in Server : HistoryMoves(s)
    BY <1>0 DEF HistoryMoves
  <1>1. ASSUME NEW c \in Client, UserStep(c)
        PROVE  server' = server /\ clock' \in {clock, Now}
    BY <1>1 DEF UserStep, Capture, ToggleStar, DeleteLocal, SaveSettings, ResetAfterSave,
                ResetSyncCursor, Restart
  <1>2. ASSUME NEW c \in Client, PullStep(c)
        PROVE  server' = server /\ clock' \in {clock, Now}
    BY <1>2 DEF PullStep, PullBegin, PullReadSettings, PullReadCursor, PullPage, PullPageFailed,
                PullNextPage, IngestCheck, IngestStar, DownloadBlob, SkipBlob, IngestInsert,
                IngestFailed, Ingested, PullFinish, CancelPull
  <1>3. ASSUME NEW c \in Client, CancelPush(c)
        PROVE  server' = server /\ clock' \in {clock, Now}
    BY <1>3 DEF CancelPush
  <1>4. ASSUME NEW c \in Client, NEW p \in Task, PushDelivered(c, p)
        PROVE  /\ \A s \in Server : HistoryMoves(s)
               /\ clock' \in {clock, Now}
    <2>1. RequestOf(task[c][p]) \in Request /\ Store(RequestOf(task[c][p]))
      BY <1>4, RequestType DEF PushDelivered, TypeOK
    <2> QED
      BY <2>1, StoreMoves DEF Store
  <1>5. ASSUME NEW c \in Client, NEW p \in Task, PushStep(c, p), ~PushDelivered(c, p)
        PROVE  server' = server /\ clock' \in {clock, Now}
    BY <1>5 DEF PushStep, ReadBatch, PushReadSettings, PushSend, PushAcknowledged, PushRejected,
                PushRefused, PushTimedOut
  <1>6. ASSUME NEW s \in Server, NEW k \in Content, OtherStep(s, k)
        PROVE  clock' \in {clock, Now}
    BY <1>6 DEF OtherStep, OtherDevicePush, AdminStar, AdminDelete
  <1>7. ASSUME NEW r \in late, LateDelivered(r)
        PROVE  /\ \A s \in Server : HistoryMoves(s)
               /\ clock' \in {clock, Now}
    BY <1>7, StoreMoves DEF LateDelivered, TypeOK, Store
  <1>8. CASE UNCHANGED vars
    BY <1>0, <1>8 DEF vars
  <1> QED
    BY <1>0, <1>1, <1>2, <1>3, <1>4, <1>5, <1>6, <1>7, <1>8, OtherMoves DEF Next

-----------------------------------------------------------------------------
(***************************************************************************)
(* What a walk has covered.  Of history h of server s, `known' are the     *)
(* versions that were dealt with.                                          *)
(***************************************************************************)
SeenUpTo(h, s, at, known) ==
    \A i \in Items(h) :
        i.updated <= at => [srv |-> s, key |-> i.key, updated |-> i.updated] \in known

\* Item i is still to come in the walk.
Ahead(walk, i) ==
    \/ walk.at = "fetch" /\ walk.before # None /\ i.updated < walk.before
    \/ /\ walk.at \in {"page", "apply", "download", "insert"}
       /\ i \in walk.page \/ (walk.more /\ i.updated < walk.before)

(***************************************************************************)
(* Everything up to the watermark that the walk stops at was dealt with,   *)
(* and everything from there to the watermark it will leave was too, or is *)
(* still ahead, unless an entry failed.                                    *)
(***************************************************************************)
Covers(walk, h, s, known) ==
    /\ walk.mark # None => SeenUpTo(h, s, walk.mark.at, known)
    /\ walk.newest # None /\ ~walk.err =>
          \A i \in Items(h) :
              i.updated <= walk.newest =>
                  \/ [srv |-> s, key |-> i.key, updated |-> i.updated] \in known
                  \/ Ahead(walk, i)

\* A walk knows its next watermark from its first page on, and the one it
\* stops at before that.
WalkBegins(walk) ==
    /\ walk.before = None <=> walk.newest = None
    /\ walk.at \in {"idle", "begun", "settings"} => walk.mark = None /\ walk.newest = None

MarksIssued(c) ==
    /\ cursor[c].watermark # None => cursor[c].watermark.at <= clock
    /\ disk[c] # None => disk[c].at <= clock

WalkIssued(walk, now) ==
    /\ walk.mark # None => walk.mark.at <= now
    /\ walk.newest # None => walk.newest <= now

MarksCovered(c) ==
    Configured(c) =>
        /\ cursor[c].watermark # None =>
              SeenUpTo(server[config[c]], config[c], cursor[c].watermark.at, seen[c])
        /\ disk[c] # None => SeenUpTo(server[config[c]], config[c], disk[c].at, seen[c])

\* The walk of c is one that may move the watermark.
Current(c) ==
    /\ Configured(c)
    /\ pull[c].at \notin {"idle", "begun"}
    /\ pull[c].generation = cursor[c].generation

WalkCovers(c) ==
    Current(c) => Covers(pull[c], server[config[c]], config[c], seen[c])

HistoriesIssued ==
    \A s \in Server :
        IsFiniteSet(Items(server[s])) /\ \A i \in Items(server[s]) : i.updated <= clock

Covered(c) ==
    /\ MarksIssued(c) /\ WalkIssued(pull[c], clock) /\ WalkBegins(pull[c])
    /\ MarksCovered(c) /\ WalkCovers(c)

(***************************************************************************)
(* Strengthens WatermarkHidesNothingNew by what a walk keeps while pages,  *)
(* writes to the server, failures and resets come in between, and by the   *)
(* watermark on disk, which a restart falls back to.                       *)
(***************************************************************************)
NothingHidden == HistoriesIssued /\ \A c \in Client : Covered(c)

LEMMA NextHistories ==
    ASSUME TypeOK, TypeOK', HistoriesIssued, [Next]_vars
    PROVE  HistoriesIssued'
  <1> SUFFICES ASSUME NEW s \in Server
               PROVE  /\ IsFiniteSet(Items(server'[s]))
                      /\ \A i \in Items(server'[s]) : i.updated <= clock'
    BY DEF HistoriesIssued, Items
  <1>1. /\ HistoryMoves(s) /\ clock' \in {clock, Now}
        /\ IsFiniteSet(Items(server[s])) /\ \A i \in Items(server[s]) : i.updated <= clock
    BY NextMoves DEF HistoriesIssued
  <1>2. /\ clock \in Nat /\ clock <= clock' /\ clock' \in Nat
        /\ \A i \in Items(server[s]) : i.updated \in Nat
    BY <1>1, ItemsType DEF TypeOK, Now, Item
  <1>3. CASE Items(server'[s]) \subseteq Items(server[s])
    BY <1>1, <1>2, <1>3, FS_Subset
  <1>4. ASSUME NEW x \in Item, clock' = Now, x.updated = Now,
               Items(server'[s]) \subseteq Items(server[s]) \cup {x}
        PROVE  /\ IsFiniteSet(Items(server'[s]))
               /\ \A i \in Items(server'[s]) : i.updated <= clock'
    <2>1. IsFiniteSet(Items(server[s]) \cup {x})
      BY <1>1, FS_AddElement
    <2>2. IsFiniteSet(Items(server'[s]))
      BY <1>4, <2>1, FS_Subset
    <2> QED
      BY <1>1, <1>2, <1>4, <2>2
  <1> QED
    BY <1>1, <1>3, <1>4 DEF HistoryMoves, WritesOnTop

\* Time, histories and what was dealt with only grow.
Grows ==
    /\ clock \in Nat /\ clock' \in Nat /\ clock <= clock'
    /\ \A s \in Server : \A i \in Items(server'[s]) :
          i.updated \in Nat /\ (i \in Items(server[s]) \/ clock < i.updated)

LEMMA NextGrows ==
    ASSUME TypeOK, TypeOK', [Next]_vars
    PROVE  Grows
  <1>1. clock \in Nat /\ clock' \in Nat /\ clock <= clock'
    BY NextMoves DEF TypeOK, Now
  <1>2. ASSUME NEW s \in Server, NEW i \in Items(server'[s])
        PROVE  i.updated \in Nat /\ (i \in Items(server[s]) \/ clock < i.updated)
    <2>1. server'[s] \in History
      BY DEF TypeOK
    <2>2. i.updated \in Nat
      BY <2>1, ItemsType DEF Item
    <2>3. HistoryMoves(s)
      BY NextMoves
    <2> QED
      BY <1>1, <2>2, <2>3 DEF HistoryMoves, WritesOnTop, Now
  <1> QED
    BY <1>1, <1>2 DEF Grows

LEMMA SeenStays ==
    ASSUME Grows, NEW s \in Server, NEW at \in Nat, at <= clock, NEW known, NEW more,
           known \subseteq more, SeenUpTo(server[s], s, at, known)
    PROVE  SeenUpTo(server'[s], s, at, more)
  BY DEF Grows, SeenUpTo

LEMMA CoversStays ==
    ASSUME Grows, NEW s \in Server, NEW walk \in PullState, WalkIssued(walk, clock),
           NEW known, NEW more, known \subseteq more, Covers(walk, server[s], s, known)
    PROVE  Covers(walk, server'[s], s, more)
  <1>1. /\ walk.mark # None => walk.mark.at \in Nat
        /\ walk.newest # None => walk.newest \in Nat
    BY DEF PullState, PullRecord, Mark
  <1>2. walk.mark # None => SeenUpTo(server'[s], s, walk.mark.at, more)
    BY <1>1, SeenStays DEF Covers, WalkIssued
  <1>3. ASSUME walk.newest # None, ~walk.err, NEW i \in Items(server'[s]), i.updated <= walk.newest
        PROVE  \/ [srv |-> s, key |-> i.key, updated |-> i.updated] \in more
               \/ Ahead(walk, i)
    <2>1. i \in Items(server[s])
      BY <1>1, <1>3 DEF Grows, WalkIssued
    <2> QED
      BY <1>3, <2>1 DEF Covers
  <1> QED
    BY <1>2, <1>3 DEF Covers

LEMMA MarkTypes ==
    ASSUME TypeOK, NEW c \in Client
    PROVE  /\ cursor[c].watermark # None => cursor[c].watermark.at \in Nat
           /\ disk[c] # None => disk[c].at \in Nat
           /\ pull[c] \in PullState
           /\ pull[c].mark # None => pull[c].mark.at \in Nat
           /\ pull[c].newest # None => pull[c].newest \in Nat
  BY DEF TypeOK, Mark, PullState, PullRecord

\* A step that moves the walk of c and leaves its cursor and settings.
LEMMA WalkStepCovered ==
    ASSUME TypeOK, Grows, NEW c \in Client, Covered(c), NEW walk,
           pull'[c] = walk, cursor'[c] = cursor[c], disk'[c] = disk[c],
           config'[c] = config[c], saving'[c] = saving[c], torn'[c] = torn[c],
           seen[c] \subseteq seen'[c],
           WalkIssued(walk, clock'), WalkBegins(walk),
           Current(c)' => Covers(walk, server'[config[c]], config[c], seen'[c])
    PROVE  Covered(c)'
  <1>1. clock \in Nat /\ clock' \in Nat /\ clock <= clock'
    BY DEF Grows
  <1>2. MarksIssued(c)'
    BY <1>1, MarkTypes DEF Covered, MarksIssued
  <1>3. MarksCovered(c)'
    <2> SUFFICES ASSUME Configured(c)'
                 PROVE  /\ cursor[c].watermark # None =>
                              SeenUpTo(server'[config[c]], config[c], cursor[c].watermark.at, seen'[c])
                        /\ disk[c] # None =>
                              SeenUpTo(server'[config[c]], config[c], disk[c].at, seen'[c])
      BY DEF MarksCovered
    <2>1. Configured(c) /\ config[c] \in Server
      BY DEF Configured, TypeOK
    <2> QED
      BY <2>1, MarkTypes, SeenStays DEF Covered, MarksCovered, MarksIssued
  <1>4. WalkCovers(c)'
    BY DEF WalkCovers
  <1> QED
    BY <1>2, <1>3, <1>4 DEF Covered

\* A step of something else.
LEMMA KeptCovered ==
    ASSUME TypeOK, Grows, NEW c \in Client, Covered(c), Kept(c), seen[c] \subseteq seen'[c]
    PROVE  Covered(c)'
  <1>1. WalkIssued(pull[c], clock')
    BY MarkTypes DEF Covered, WalkIssued, Grows
  <1>2. ASSUME Current(c)'
        PROVE  Covers(pull[c], server'[config[c]], config[c], seen'[c])
    <2>1. Current(c) /\ config[c] \in Server
      BY <1>2 DEF Current, Configured, Kept, TypeOK
    <2> QED
      BY <2>1, MarkTypes, CoversStays DEF Covered, WalkCovers
  <1> QED
    BY <1>1, <1>2, WalkStepCovered DEF Kept, Covered

-----------------------------------------------------------------------------
(***************************************************************************)
(* What one step of a walk keeps covered.                                  *)
(***************************************************************************)

\* A page: what is neither dealt with nor on the fresh part of it is older
\* than it.
LEMMA PageCovers ==
    ASSUME NEW h \in History, IsFiniteSet(Items(h)), NEW s, NEW known,
           NEW walk \in PullState, walk.at = "fetch", WalkBegins(walk),
           Covers(walk, h, s, known),
           NEW limit \in Nat \ {0}, NEW items, NEW page, NEW fresh,
           items = ItemsBefore(h, walk.before), page = NewestItems(items, limit),
           fresh = Above(page, walk.mark),
           NEW last \in page, NEW new,
           new.at = "page", new.page = fresh, new.more <=> (page # items /\ fresh = page),
           new.before = last.updated, new.mark = walk.mark, new.err = walk.err,
           walk.newest # None => new.newest = walk.newest
    PROVE  Covers(new, h, s, known)
  <1>0. Items(h) \in SUBSET Item /\ items \subseteq Items(h)
    BY ItemsType DEF ItemsBefore
  <1>1. items \in SUBSET Item /\ IsFiniteSet(items)
    BY <1>0, FS_Subset
  <1>2. /\ page \subseteq items
        /\ \A i \in items \ page, j \in page : i.updated < j.updated
    BY <1>1, PageIsNewest
  <1>3. walk.mark # None => walk.mark.at \in Nat /\ SeenUpTo(h, s, walk.mark.at, known)
    BY DEF Covers, PullState, PullRecord, Mark
  <1>4. \A i \in Items(h) : i.updated \in Nat
    BY <1>0 DEF Item
  <1>5. ASSUME ~new.err, NEW i \in Items(h), new.newest # None, i.updated <= new.newest
        PROVE  \/ [srv |-> s, key |-> i.key, updated |-> i.updated] \in known
               \/ Ahead(new, i)
    <2>1. i \in items \/ [srv |-> s, key |-> i.key, updated |-> i.updated] \in known
      <3>1. CASE walk.newest = None
        BY <3>1 DEF WalkBegins, ItemsBefore
      <3>2. CASE walk.newest # None
        BY <1>5, <3>2 DEF Covers, Ahead, ItemsBefore
      <3> QED
        BY <3>1, <3>2
    <2>2. CASE i \in page /\ walk.mark # None /\ i.updated <= walk.mark.at
      BY <1>3, <2>2 DEF SeenUpTo
    <2>3. CASE i \in page /\ ~(walk.mark # None /\ i.updated <= walk.mark.at)
      BY <1>3, <1>4, <2>3 DEF Above, Ahead
    <2>4. CASE i \in items \ page /\ fresh = page
      BY <1>2, <2>4 DEF Ahead
    <2>5. CASE i \in items \ page /\ fresh # page
      <3>1. PICK j \in page : walk.mark # None /\ ~(j.updated > walk.mark.at)
        BY <2>5 DEF Above
      <3>2. i.updated < j.updated /\ j.updated \in Nat
        BY <1>0, <1>2, <1>4, <2>5
      <3>3. i.updated <= walk.mark.at
        BY <1>3, <1>4, <3>1, <3>2
      <3> QED
        BY <1>3, <3>1, <3>3 DEF SeenUpTo
    <2> QED
      BY <2>1, <2>2, <2>3, <2>4, <2>5
  <1> QED
    BY <1>5 DEF Covers

\* No page: nothing is older.
LEMMA NoPageCovers ==
    ASSUME NEW h \in History, IsFiniteSet(Items(h)), NEW s, NEW known,
           NEW walk \in PullState, walk.at = "fetch", WalkBegins(walk),
           Covers(walk, h, s, known), NEW limit \in Nat \ {0},
           NewestItems(ItemsBefore(h, walk.before), limit) = {},
           NEW new, new.at = "finish", new.mark = walk.mark, new.newest = walk.newest,
           new.err = walk.err
    PROVE  Covers(new, h, s, known)
  <1> DEFINE items == ItemsBefore(h, walk.before)
  <1>1. items \in SUBSET Item /\ IsFiniteSet(items)
    BY ItemsType, FS_Subset DEF ItemsBefore
  <1>2. items = {}
    BY <1>1, PageIsNewest
  <1>3. \A i \in Items(h) : ~Ahead(walk, i)
    BY <1>2 DEF Ahead, ItemsBefore
  <1> QED
    BY <1>3 DEF Covers

\* The end of a page.
LEMMA NextPageCovers ==
    ASSUME NEW h, NEW s, NEW known, NEW walk, walk.at = "page", walk.page = {},
           WalkBegins(walk), Covers(walk, h, s, known),
           NEW new, new.at = IF walk.more THEN "fetch" ELSE "finish",
           new.mark = walk.mark, new.newest = walk.newest, new.err = walk.err,
           new.before = walk.before
    PROVE  Covers(new, h, s, known)
  <1>1. walk.newest # None => \A i \in Items(h) : Ahead(walk, i) => Ahead(new, i)
    BY DEF Ahead, WalkBegins
  <1> QED
    BY <1>1 DEF Covers

InPage(walk) == walk.at \in {"page", "apply", "download", "insert"}

\* A step within a page, which takes at most the entries it deals with off it.
LEMMA InPageCovers ==
    ASSUME NEW h, NEW s, NEW known, NEW more, NEW walk, InPage(walk),
           Covers(walk, h, s, known), known \subseteq more,
           NEW new, InPage(new), new.mark = walk.mark, new.newest = walk.newest,
           new.before = walk.before, new.more = walk.more, walk.err => new.err,
           \/ new.err
           \/ \A i \in walk.page \ new.page :
                 [srv |-> s, key |-> i.key, updated |-> i.updated] \in more
    PROVE  Covers(new, h, s, more)
  <1>1. walk.mark # None => SeenUpTo(h, s, walk.mark.at, more)
    BY DEF Covers, SeenUpTo
  <1>2. ASSUME ~new.err, NEW i \in Items(h), new.newest # None, i.updated <= new.newest
        PROVE  \/ [srv |-> s, key |-> i.key, updated |-> i.updated] \in more
               \/ Ahead(new, i)
    BY <1>2 DEF Covers, Ahead, InPage
  <1> QED
    BY <1>1, <1>2 DEF Covers

-----------------------------------------------------------------------------
(***************************************************************************)
(* What is covered stays covered, action by action.                        *)
(***************************************************************************)

\* A step of client c alone.
LEMMA OneClientCovered ==
    ASSUME TypeOK, Grows, NothingHidden, NEW c \in Client,
           \A d \in Client \ {c} : Kept(d) /\ seen'[d] = seen[d],
           Covered(c)'
    PROVE  \A d \in Client : Covered(d)'
  <1> SUFFICES ASSUME NEW d \in Client, d # c PROVE Covered(d)'
    OBVIOUS
  <1>1. Covered(d) /\ Kept(d) /\ seen[d] \subseteq seen'[d]
    BY DEF NothingHidden
  <1> QED
    BY <1>1, KeptCovered

\* A step of client c that moves its walk.
LEMMA WalkCovered ==
    ASSUME TypeOK, Grows, NothingHidden, NEW c \in Client, NEW walk,
           pull' = [pull EXCEPT ![c] = walk], UNCHANGED <<cursor, disk, config, saving, torn>>,
           seen[c] \subseteq seen'[c], \A d \in Client \ {c} : seen'[d] = seen[d],
           WalkIssued(walk, clock'), WalkBegins(walk),
           Current(c)' => Covers(walk, server'[config[c]], config[c], seen'[c])
    PROVE  \A d \in Client : Covered(d)'
  <1>1. pull'[c] = walk /\ \A d \in Client \ {c} : Kept(d)
    BY DEF TypeOK, Kept
  <1>2. Covered(c)
    BY DEF NothingHidden
  <1>3. Covered(c)'
    BY <1>1, <1>2, WalkStepCovered
  <1> QED
    BY <1>1, <1>3, OneClientCovered

\* A walk that goes on, in a history that stays and between the same marks.
LEMMA WalkGoesOn ==
    ASSUME TypeOK, OwnMarks, Grows, NothingHidden, NEW c \in Client, NEW walk,
           pull' = [pull EXCEPT ![c] = walk],
           UNCHANGED <<server, cursor, disk, config, saving, torn>>,
           seen[c] \subseteq seen'[c], \A d \in Client \ {c} : seen'[d] = seen[d],
           pull[c].at \notin {"idle", "begun"},
           walk.at \notin {"idle", "begun", "settings"},
           walk.generation = pull[c].generation, walk.mark = pull[c].mark,
           walk.newest = pull[c].newest, walk.before = pull[c].before,
           NEW h, NEW s, h = server[pull[c].srv], s = pull[c].srv,
           Covers(pull[c], h, s, seen[c]) => Covers(walk, h, s, seen'[c])
    PROVE  \A d \in Client : Covered(d)'
  <1>1. Covered(c) /\ pull'[c] = walk
    BY DEF NothingHidden, TypeOK
  <1>2. WalkBegins(walk)
    BY <1>1 DEF Covered, WalkBegins
  <1>3. WalkIssued(walk, clock')
    BY <1>1, MarkTypes DEF Covered, WalkIssued, Grows
  <1>4. ASSUME Current(c)'
        PROVE  Covers(walk, server'[config[c]], config[c], seen'[c])
    <2>1. Current(c)
      BY <1>1, <1>4 DEF Current, Configured
    <2>2. pull[c].srv = config[c]
      BY <2>1 DEF Current, Configured, OwnMarks, WalkOfConfigured
    <2> QED
      BY <1>1, <2>1, <2>2 DEF Covered, WalkCovers
  <1> QED
    BY <1>2, <1>3, <1>4, WalkCovered

\* A walk that ends and moves no watermark.
LEMMA WalkEndsCovered ==
    ASSUME TypeOK, Grows, NothingHidden, NEW c \in Client, EndWalk(c),
           UNCHANGED <<cursor, disk, config, saving, torn, seen>>
    PROVE  \A d \in Client : Covered(d)'
  <1>1. WalkIssued(IdlePull, clock') /\ WalkBegins(IdlePull)
    BY DEF WalkIssued, WalkBegins, IdlePull
  <1>2. pull' = [pull EXCEPT ![c] = IdlePull] /\ ~Current(c)'
    BY DEF EndWalk, Current, IdlePull, TypeOK
  <1> QED
    BY <1>1, <1>2, WalkCovered

\* A step that leaves every walk, cursor and setting.
LEMMA ElsewhereCovered ==
    ASSUME TypeOK, Grows, NothingHidden,
           UNCHANGED <<pull, cursor, disk, config, saving, torn, seen>>
    PROVE  \A d \in Client : Covered(d)'
  BY KeptCovered DEF Kept, NothingHidden

\* A cursor without a watermark hides nothing, and a walk it is told of is no
\* longer current.
LEMMA ResetCovered ==
    ASSUME TypeOK, OwnMarks, Grows, NothingHidden, NEW c \in Client, ResetCursor(c),
           UNCHANGED <<config, server>>,
           \/ saving' = saving
           \/ saving[c] /\ saving' = [saving EXCEPT ![c] = FALSE]
    PROVE  \A d \in Client : Covered(d)'
  <1>0. /\ pull' = pull /\ config' = config /\ seen' = seen
        /\ cursor'[c].generation = cursor[c].generation + 1 /\ cursor'[c].watermark = None
        /\ cursor[c].generation \in Nat /\ pull[c].generation \in Nat
    BY DEF ResetCursor, TypeOK, PullState, PullRecord
  <1>1. \A d \in Client \ {c} : Kept(d) /\ seen'[d] = seen[d]
    BY <1>0 DEF ResetCursor, Kept, TypeOK
  <1>2. Covered(c) /\ clock \in Nat /\ clock' \in Nat /\ clock <= clock'
    BY DEF NothingHidden, Grows
  <1>3. WalkIssued(pull'[c], clock') /\ WalkBegins(pull'[c])
    BY <1>0, <1>2, MarkTypes DEF Covered, WalkIssued
  <1>4. ~Current(c)'
    BY <1>0 DEF Current, OwnMarks, OldGeneration
  <1>5. CASE disk' = [disk EXCEPT ![c] = None]
    <2>1. disk'[c] = None
      BY <1>5 DEF TypeOK
    <2>2. Covered(c)'
      BY <1>0, <1>3, <1>4, <2>1 DEF Covered, MarksIssued, MarksCovered, WalkCovers
    <2> QED
      BY <1>1, <2>2, OneClientCovered
  <1>6. CASE disk' = disk /\ torn' = [torn EXCEPT ![c] = torn[c] \/ saving[c]]
    <2>1. MarksIssued(c)'
      BY <1>0, <1>2, <1>6, MarkTypes DEF Covered, MarksIssued
    <2>2. Configured(c)' => Configured(c) /\ config[c] \in Server
      <3> SUFFICES ASSUME Configured(c)' PROVE Configured(c) /\ config[c] \in Server
        OBVIOUS
      <3>1. config[c] # None /\ ~saving'[c] /\ ~torn'[c]
        BY <1>0 DEF Configured
      <3>2. ~torn[c] /\ ~saving[c]
        BY <1>6, <3>1 DEF TypeOK
      <3> QED
        BY <3>1, <3>2 DEF Configured, TypeOK
    <2>3. disk[c] # None /\ Configured(c)' =>
             SeenUpTo(server'[config[c]], config[c], disk[c].at, seen'[c])
      BY <1>0, <1>2, <2>2, MarkTypes, SeenStays DEF Covered, MarksCovered, MarksIssued
    <2>4. Covered(c)'
      BY <1>0, <1>3, <1>4, <1>6, <2>1, <2>3 DEF Covered, MarksCovered, WalkCovers
    <2> QED
      BY <1>1, <2>4, OneClientCovered
  <1> QED
    BY <1>5, <1>6 DEF ResetCursor

LEMMA UserCovered ==
    ASSUME TypeOK, OwnMarks, Grows, NothingHidden, NEW c \in Client, UserStep(c)
    PROVE  \A d \in Client : Covered(d)'
  <1>1. ASSUME NEW k \in Content, Capture(c, k) \/ ToggleStar(c, k) \/ DeleteLocal(c, k)
        PROVE  \A d \in Client : Covered(d)'
    BY <1>1, ElsewhereCovered DEF Capture, ToggleStar, DeleteLocal, pullVars, configVars
  <1>2. ASSUME NEW s \in Server \cup {None}, SaveSettings(c, s)
        PROVE  \A d \in Client : Covered(d)'
    <2>1. /\ ~saving[c] /\ UNCHANGED <<pull, cursor, disk, torn, seen>>
          /\ config'[c] = s /\ (saving'[c] <=> config[c] # s)
          /\ \A d \in Client \ {c} : Kept(d) /\ seen'[d] = seen[d]
      BY <1>2 DEF SaveSettings, pullVars, TypeOK, Kept
    <2>2. CASE config[c] = s
      <3>0. saving[c] = FALSE /\ saving'[c] = (config[c] # s)
        BY <1>2 DEF SaveSettings, TypeOK
      <3>1. Kept(c) /\ Covered(c)
        BY <2>1, <2>2, <3>0 DEF Kept, NothingHidden
      <3> QED
        BY <2>1, <3>1, KeptCovered, OneClientCovered
    <2>3. CASE config[c] # s
      <3>1. ~Configured(c)'
        BY <2>1, <2>3 DEF Configured
      <3>2. Covered(c)
        BY DEF NothingHidden
      <3>3. MarksIssued(c)' /\ WalkIssued(pull[c], clock')
        BY <2>1, <3>2, MarkTypes DEF Covered, MarksIssued, WalkIssued, Grows
      <3>4. Covered(c)'
        BY <2>1, <3>1, <3>2, <3>3 DEF Covered, MarksCovered, WalkCovers, Current
      <3> QED
        BY <2>1, <3>4, OneClientCovered
    <2> QED
      BY <2>2, <2>3
  <1>3. CASE ResetAfterSave(c)
    BY <1>3, ResetCovered DEF ResetAfterSave
  <1>4. CASE ResetSyncCursor(c)
    BY <1>4, ResetCovered DEF ResetSyncCursor, configVars
  <1>5. CASE Restart(c)
    <2>1. /\ pull'[c] = IdlePull /\ cursor'[c] = StartCursor(disk[c]) /\ disk' = disk
          /\ config' = config /\ server' = server /\ seen' = seen
          /\ \A d \in Client \ {c} : Kept(d) /\ seen'[d] = seen[d]
      BY <1>5 DEF Restart, TypeOK, Kept
    <2>2. Covered(c) /\ clock \in Nat /\ clock' \in Nat /\ clock <= clock'
      BY DEF NothingHidden, Grows
    <2>3. torn' = [torn EXCEPT ![c] = torn[c] \/ saving[c]]
      BY <1>5 DEF Restart
    <2>4. saving' = [saving EXCEPT ![c] = FALSE]
      BY <1>5 DEF Restart
    <2>5. Configured(c)' => Configured(c)
      BY <2>1, <2>3, <2>4 DEF Configured, TypeOK
    <2>6. cursor'[c].watermark = disk[c]
      BY <2>1 DEF StartCursor
    <2>7. MarksIssued(c)'
      BY <2>1, <2>2, <2>6, MarkTypes DEF Covered, MarksIssued
    <2>8. MarksCovered(c)'
      BY <2>1, <2>2, <2>5, <2>6 DEF Covered, MarksCovered
    <2>9. Covered(c)'
      BY <2>1, <2>7, <2>8 DEF Covered, WalkIssued, WalkBegins, WalkCovers, Current, IdlePull
    <2> QED
      BY <2>1, <2>9, OneClientCovered
  <1> QED
    BY <1>1, <1>2, <1>3, <1>4, <1>5 DEF UserStep

\* The end of a walk: what it covered is what its watermark hides.
LEMMA FinishCovered ==
    ASSUME TypeOK, OwnMarks, Grows, NothingHidden, NEW c \in Client, PullFinish(c)
    PROVE  \A d \in Client : Covered(d)'
  <1> DEFINE walk == pull[c]
             mark == [srv |-> walk.srv, at |-> walk.newest]
  <1>1. /\ EndWalk(c) /\ pull'[c] = IdlePull /\ walk.at = "finish"
        /\ UNCHANGED <<server, config, saving, torn, seen>>
        /\ \A d \in Client \ {c} : pull'[d] = pull[d]
    BY DEF PullFinish, EndWalk, TypeOK, configVars
  <1>2. Covered(c) /\ clock \in Nat /\ clock' \in Nat /\ clock <= clock'
    BY DEF NothingHidden, Grows
  <1>3. CASE UNCHANGED <<cursor, disk>>
    BY <1>1, <1>3, WalkEndsCovered
  <1>4. CASE /\ walk.newest # None /\ ~walk.err /\ walk.generation = cursor[c].generation
             /\ \/ /\ cursor' = [cursor EXCEPT ![c] =
                                     [cursor[c] EXCEPT !.watermark = mark, !.initialized = TRUE]]
                   /\ Persist(c, mark)
                \/ /\ cursor' = [cursor EXCEPT ![c] = [cursor[c] EXCEPT !.initialized = TRUE]]
                   /\ disk' = disk
    <2>1. \A d \in Client \ {c} : Kept(d) /\ seen'[d] = seen[d]
      BY <1>1, <1>4 DEF Kept, Persist, TypeOK
    <2>2. /\ cursor'[c].watermark \in {cursor[c].watermark, mark}
          /\ disk'[c] \in {disk[c], mark}
      <3>1. cursor'[c].watermark \in {cursor[c].watermark, mark}
        <4>0. cursor \in [Client -> [generation : Nat, initialized : BOOLEAN,
                                     watermark : Mark \cup {None}]]
          BY DEF TypeOK
        <4>1. ASSUME NEW m, cursor' = [cursor EXCEPT ![c] =
                                 [cursor[c] EXCEPT !.watermark = m, !.initialized = TRUE]]
              PROVE  cursor'[c].watermark = m
          BY <4>0, <4>1
        <4>2. ASSUME cursor' = [cursor EXCEPT ![c] = [cursor[c] EXCEPT !.initialized = TRUE]]
              PROVE  cursor'[c].watermark = cursor[c].watermark
          BY <4>0, <4>2
        <4> HIDE DEF mark
        <4> QED
          BY <1>4, <4>1, <4>2
      <3>2. disk' \in {disk, [disk EXCEPT ![c] = mark]}
        BY <1>4 DEF Persist
      <3> QED
        BY <3>1, <3>2 DEF TypeOK
    <2>3. walk.newest \in Nat /\ walk.newest <= clock
      BY <1>2, <1>4, MarkTypes DEF Covered, WalkIssued
    <2>4. MarksIssued(c)'
      BY <1>2, <2>2, <2>3, MarkTypes DEF Covered, MarksIssued
    <2>5. MarksCovered(c)'
      <3> SUFFICES ASSUME Configured(c)'
                   PROVE  /\ cursor'[c].watermark # None =>
                                SeenUpTo(server[config[c]], config[c], cursor'[c].watermark.at, seen[c])
                          /\ disk'[c] # None =>
                                SeenUpTo(server[config[c]], config[c], disk'[c].at, seen[c])
        BY <1>1 DEF MarksCovered
      <3>1. Configured(c) /\ Current(c)
        BY <1>1, <1>4 DEF Configured, Current
      <3>2. Covers(walk, server[config[c]], config[c], seen[c])
        BY <1>2, <3>1 DEF Covered, WalkCovers
      <3>3. SeenUpTo(server[config[c]], config[c], mark.at, seen[c])
        BY <1>1, <1>4, <3>2 DEF Covers, SeenUpTo, Ahead
      <3> QED
        BY <1>2, <2>2, <3>1, <3>3 DEF Covered, MarksCovered
    <2>6. Covered(c)'
      BY <1>1, <2>4, <2>5 DEF Covered, WalkIssued, WalkBegins, WalkCovers, Current, IdlePull
    <2> QED
      BY <2>1, <2>6, OneClientCovered
  <1> QED
    BY <1>3, <1>4 DEF PullFinish

LEMMA PageCovered ==
    ASSUME TypeOK, OwnMarks, Grows, NothingHidden, NEW c \in Client, PullPage(c)
    PROVE  \A d \in Client : Covered(d)'
  <1> DEFINE w     == pull[c]
             h     == server[w.srv]
             items == ItemsBefore(h, w.before)
             limit == Limit(w)
             page  == NewestItems(items, limit)
             fresh == Above(page, w.mark)
  <1>1. /\ w.at = "fetch" /\ w \in PullState /\ w.srv \in Server /\ h \in History
        /\ UNCHANGED <<server, cursor, disk, config, saving, torn, seen, clock>>
    BY DEF PullPage, configVars, TypeOK, PullState, PullRecord
  <1>2. /\ Covered(c) /\ WalkBegins(w) /\ IsFiniteSet(Items(h))
        /\ \A i \in Items(h) : i.updated <= clock
    BY <1>1 DEF NothingHidden, Covered, HistoriesIssued
  <1>3. limit \in Nat \ {0}
    BY SyncAssumption DEF Limit
  <1>4. CASE page = {}
    <2> DEFINE new == [w EXCEPT !.at = "finish"]
    <2>1. pull' = [pull EXCEPT ![c] = new]
      BY <1>4 DEF PullPage
    <2>2. /\ new.at = "finish" /\ new.generation = w.generation /\ new.mark = w.mark
          /\ new.newest = w.newest /\ new.before = w.before /\ new.err = w.err
      BY <1>1 DEF PullState, PullRecord
    <2> HIDE DEF new
    <2>3. Covers(w, h, w.srv, seen[c]) => Covers(new, h, w.srv, seen'[c])
      BY <1>1, <1>2, <1>3, <1>4, <2>2, NoPageCovers
    <2> QED
      BY <1>1, <2>1, <2>2, <2>3, WalkGoesOn
  <1>5. CASE page # {}
    <2>1. PICK first \in page, last \in page :
             pull' = [pull EXCEPT ![c] =
                [w EXCEPT !.at = "page", !.page = fresh, !.more = (page # items /\ fresh = page),
                          !.before = last.updated,
                          !.newest = IF w.newest = None THEN first.updated ELSE w.newest]]
      BY <1>5 DEF PullPage
    <2> DEFINE new == [w EXCEPT !.at = "page", !.page = fresh, !.more = (page # items /\ fresh = page),
                          !.before = last.updated,
                          !.newest = IF w.newest = None THEN first.updated ELSE w.newest]
    <2>2. /\ new.at = "page" /\ new.page = fresh /\ new.more = (page # items /\ fresh = page)
          /\ new.generation = w.generation /\ new.srv = w.srv /\ new.mark = w.mark
          /\ new.newest = IF w.newest = None THEN first.updated ELSE w.newest
          /\ new.before = last.updated /\ new.err = w.err
      BY <1>1 DEF PullState, PullRecord
    <2>3. pull' = [pull EXCEPT ![c] = new]
      BY <2>1
    <2> HIDE DEF new
    <2>4. first \in Items(h) /\ last \in Items(h) /\ first.updated \in Nat /\ last.updated \in Nat
      BY <1>1, ItemsType DEF NewestItems, ItemsBefore, Item
    <2>5. WalkIssued(new, clock')
      BY <1>1, <1>2, <2>2, <2>4 DEF Covered, WalkIssued
    <2>6. WalkBegins(new)
      BY <2>2, <2>4, SyncAssumption, <1>2 DEF WalkBegins
    <2>7. ASSUME Current(c)'
          PROVE  Covers(new, server'[config[c]], config[c], seen'[c])
      <3>1. Current(c)
        BY <1>1, <2>2, <2>3, <2>7 DEF Current, Configured, TypeOK
      <3>2. w.srv = config[c]
        BY <3>1 DEF Current, Configured, OwnMarks, WalkOfConfigured
      <3>3. Covers(w, h, w.srv, seen[c])
        BY <1>2, <3>1, <3>2 DEF Covered, WalkCovers
      <3>4. new.more <=> (page # items /\ fresh = page)
        BY <2>2
      <3> HIDE DEF h, items, limit, page, fresh
      <3>5. items = ItemsBefore(h, w.before) /\ page = NewestItems(items, limit) /\ fresh = Above(page, w.mark)
        BY DEF items, page, fresh
      <3>6. Covers(new, h, w.srv, seen[c])
        BY <1>1, <1>2, <1>3, <2>1, <2>2, <3>3, <3>4, <3>5, PageCovers
      <3> QED
        BY <1>1, <3>2, <3>6 DEF h
    <2> QED
      BY <1>1, <2>3, <2>5, <2>6, <2>7, WalkCovered
  <1> QED
    BY <1>4, <1>5

LEMMA PullCovered ==
    ASSUME TypeOK, OwnMarks, Grows, NothingHidden, NEW c \in Client, PullStep(c)
    PROVE  \A d \in Client : Covered(d)'
  <1> DEFINE w == pull[c]
             h == server[w.srv]
  <1>0. /\ w \in PullState /\ w \in PullRecord /\ pull \in [Client -> PullState]
        /\ Covered(c) /\ WalkBegins(w) /\ WalkIssued(w, clock)
    BY DEF TypeOK, PullState, NothingHidden, Covered
  \* A step within a page that fails, or deals with what it takes off the page.
  <1>a. ASSUME NEW new, pull' = [pull EXCEPT ![c] = new],
               UNCHANGED <<server, cursor, disk, config, saving, torn>>,
               seen[c] \subseteq seen'[c], \A d \in Client \ {c} : seen'[d] = seen[d],
               InPage(w), InPage(new),
               new.generation = w.generation, new.mark = w.mark, new.newest = w.newest,
               new.before = w.before, new.more = w.more, w.err => new.err,
               \/ new.err
               \/ \A i \in w.page \ new.page :
                     [srv |-> w.srv, key |-> i.key, updated |-> i.updated] \in seen'[c]
        PROVE  \A d \in Client : Covered(d)'
    <2>1. Covers(w, h, w.srv, seen[c]) => Covers(new, h, w.srv, seen'[c])
      BY <1>a, InPageCovers
    <2>2. w.at \notin {"idle", "begun"} /\ new.at \notin {"idle", "begun", "settings"}
      BY <1>a DEF InPage
    <2> HIDE DEF h
    <2>3. h = server[w.srv]
      BY DEF h
    <2> QED
      BY <1>a, <2>1, <2>2, <2>3, WalkGoesOn
  <1>1. ASSUME NEW p \in Passer, PullBegin(c, p) PROVE \A d \in Client : Covered(d)'
    <2> DEFINE new == [IdlePull EXCEPT !.at = "begun", !.generation = cursor[c].generation]
    <2>1. /\ pull' = [pull EXCEPT ![c] = new]
          /\ UNCHANGED <<cursor, disk, config, saving, torn, seen>>
      BY <1>1 DEF PullBegin, configVars
    <2>2. WalkIssued(new, clock') /\ WalkBegins(new) /\ ~Current(c)'
      BY <2>1, <1>0 DEF WalkIssued, WalkBegins, IdlePull, Current
    <2> QED
      BY <2>1, <2>2, WalkCovered
  <1>2. CASE PullReadSettings(c)
    <2>1. CASE config[c] = None
      BY <1>2, <2>1, WalkEndsCovered DEF PullReadSettings, configVars
    <2>2. CASE config[c] # None
      <3> DEFINE new == [w EXCEPT !.at = "settings", !.srv = config[c]]
      <3>1. /\ w.at = "begun" /\ pull' = [pull EXCEPT ![c] = new]
            /\ UNCHANGED <<cursor, disk, config, saving, torn, seen, clock>>
        BY <1>2, <2>2 DEF PullReadSettings, configVars
      <3>2. new.mark = w.mark /\ new.newest = w.newest /\ new.before = w.before /\ new.at = "settings"
        BY <1>0 DEF PullRecord
      <3> HIDE DEF new
      <3>3. new.mark = None /\ new.newest = None
        BY <1>0, <3>1, <3>2 DEF WalkBegins
      <3>4. WalkIssued(new, clock') /\ WalkBegins(new)
        BY <1>0, <3>2, <3>3 DEF WalkIssued, WalkBegins
      <3>5. Covers(new, server'[config[c]], config[c], seen'[c])
        BY <3>3 DEF Covers
      <3> QED
        BY <3>1, <3>4, <3>5, WalkCovered
    <2> QED
      BY <2>1, <2>2
  <1>3. CASE PullReadCursor(c)
    <2> DEFINE mark == IF cursor[c].initialized THEN cursor[c].watermark ELSE None
               new  == [w EXCEPT !.at = "fetch", !.mark = mark]
    <2>1. /\ w.at = "settings" /\ pull' = [pull EXCEPT ![c] = new]
          /\ UNCHANGED <<server, cursor, disk, config, saving, torn, seen, clock>>
      BY <1>3 DEF PullReadCursor, configVars
    <2>2. /\ new.mark = mark /\ new.newest = w.newest /\ new.before = w.before /\ new.at = "fetch"
          /\ new.generation = w.generation
      BY <1>0 DEF PullRecord
    <2> HIDE DEF new
    <2>3. new.newest = None
      BY <1>0, <2>1, <2>2 DEF WalkBegins
    <2>4. WalkIssued(new, clock') /\ WalkBegins(new)
      BY <1>0, <2>1, <2>2, <2>3 DEF WalkIssued, WalkBegins, Covered, MarksIssued
    <2>5. ASSUME Current(c)'
          PROVE  Covers(new, server'[config[c]], config[c], seen'[c])
      <3>1. Configured(c)
        BY <2>1, <2>5 DEF Current, Configured
      <3> QED
        BY <1>0, <2>1, <2>2, <2>3, <3>1 DEF Covered, MarksCovered, Covers
    <2> QED
      BY <2>1, <2>4, <2>5, WalkCovered
  <1>4. CASE PullPage(c)
    BY <1>4, PageCovered
  <1>5. CASE PullPageFailed(c)
    BY <1>5, WalkEndsCovered DEF PullPageFailed, configVars
  <1>6. CASE PullNextPage(c)
    <2> DEFINE new == [w EXCEPT !.at = IF w.more THEN "fetch" ELSE "finish"]
    <2>1. /\ w.at = "page" /\ w.page = {} /\ pull' = [pull EXCEPT ![c] = new]
          /\ UNCHANGED <<server, cursor, disk, config, saving, torn, seen>>
      BY <1>6 DEF PullNextPage, configVars
    <2>2. /\ new.at = (IF w.more THEN "fetch" ELSE "finish") /\ new.generation = w.generation
          /\ new.mark = w.mark /\ new.newest = w.newest /\ new.before = w.before /\ new.err = w.err
      BY <1>0 DEF PullRecord
    <2> HIDE DEF new
    <2>3. Covers(w, h, w.srv, seen[c]) => Covers(new, h, w.srv, seen'[c])
      BY <1>0, <2>1, <2>2, NextPageCovers
    <2>4. new.at \notin {"idle", "begun", "settings"}
      BY <2>2
    <2> HIDE DEF h
    <2>5. h = server[w.srv]
      BY DEF h
    <2> QED
      BY <2>1, <2>2, <2>3, <2>4, <2>5, WalkGoesOn
  <1>7. CASE IngestCheck(c)
    <2>1. w.at = "page" /\ UNCHANGED <<server, cursor, disk, config, saving, torn, seen>>
      BY <1>7 DEF IngestCheck, configVars
    <2>2. PICK at \in {"apply", "download", "insert"} :
             pull' = [pull EXCEPT ![c] = [w EXCEPT !.at = at]]
      BY <1>7 DEF IngestCheck
    <2> DEFINE new == [w EXCEPT !.at = at]
    <2>3. /\ InPage(w) /\ InPage(new)
          /\ new.generation = w.generation /\ new.mark = w.mark /\ new.newest = w.newest
          /\ new.before = w.before /\ new.more = w.more /\ new.err = w.err /\ new.page = w.page
      BY <1>0, <2>1 DEF PullRecord, InPage
    <2>4. pull' = [pull EXCEPT ![c] = new]
      BY <2>2
    <2> HIDE DEF new
    <2> QED
      BY <1>a, <2>1, <2>3, <2>4
  <1>8. CASE DownloadBlob(c)
    <2> DEFINE new == [w EXCEPT !.at = "insert"]
    <2>1. /\ w.at = "download" /\ UNCHANGED <<server, cursor, disk, config, saving, torn, seen>>
          /\ pull' = [pull EXCEPT ![c] = new]
      BY <1>8 DEF DownloadBlob, configVars
    <2>2. /\ InPage(w) /\ InPage(new)
          /\ new.generation = w.generation /\ new.mark = w.mark /\ new.newest = w.newest
          /\ new.before = w.before /\ new.more = w.more /\ new.err = w.err /\ new.page = w.page
      BY <1>0, <2>1 DEF PullRecord, InPage
    <2> HIDE DEF new
    <2> QED
      BY <1>a, <2>1, <2>2
  <1>p. ASSUME NEW i, NEW new, new \in {PastItem(w, i), [PastItem(w, i) EXCEPT !.err = TRUE]}
        PROVE  /\ new.generation = w.generation /\ new.mark = w.mark /\ new.newest = w.newest
               /\ new.before = w.before /\ new.more = w.more /\ (w.err => new.err)
               /\ new.page = w.page \ {i} /\ InPage(new)
    BY <1>0, <1>p DEF PullRecord, InPage, PastItem
  <1>9. ASSUME NEW i \in w.page, Ingested(c, i), InPage(w), UNCHANGED configVars
        PROVE  \A d \in Client : Covered(d)'
    <2> DEFINE new == PastItem(w, i)
               version == [srv |-> w.srv, key |-> i.key, updated |-> i.updated]
    <2>1. /\ UNCHANGED <<server, cursor, disk, config, saving, torn>>
          /\ pull' = [pull EXCEPT ![c] = new]
      BY <1>9 DEF Ingested, configVars
    <2>2. /\ seen'[c] = seen[c] \cup {version}
          /\ \A d \in Client \ {c} : seen'[d] = seen[d]
      BY <1>9 DEF Ingested, TypeOK
    <2>3. new \in {PastItem(w, i), [PastItem(w, i) EXCEPT !.err = TRUE]}
      OBVIOUS
    <2> HIDE DEF new
    <2>4. /\ new.generation = w.generation /\ new.mark = w.mark /\ new.newest = w.newest
          /\ new.before = w.before /\ new.more = w.more /\ (w.err => new.err)
          /\ new.page = w.page \ {i} /\ InPage(new)
      BY <1>p, <2>3
    <2> QED
      BY <1>9, <1>a, <2>1, <2>2, <2>4
  <1>10. CASE IngestStar(c) \/ SkipBlob(c) \/ IngestInsert(c)
    <2>1. InPage(w) /\ \E i \in w.page : Ingested(c, i)
      BY <1>10 DEF IngestStar, SkipBlob, IngestInsert, InPage
    <2>2. UNCHANGED configVars
      BY <2>1 DEF Ingested
    <2> QED
      BY <1>9, <2>1, <2>2
  <1>11. CASE IngestFailed(c)
    <2>1. /\ InPage(w)
          /\ UNCHANGED <<server, cursor, disk, config, saving, torn, seen>>
      BY <1>11 DEF IngestFailed, configVars, InPage
    <2>2. PICK i : pull' = [pull EXCEPT ![c] = [PastItem(w, i) EXCEPT !.err = TRUE]]
      BY <1>11 DEF IngestFailed
    <2> DEFINE new == [PastItem(w, i) EXCEPT !.err = TRUE]
    <2>3. new.err
      BY <1>0 DEF PastItem, PullRecord
    <2>4. new \in {PastItem(w, i), [PastItem(w, i) EXCEPT !.err = TRUE]}
      OBVIOUS
    <2>5. pull' = [pull EXCEPT ![c] = new]
      BY <2>2
    <2> HIDE DEF new
    <2>6. /\ new.generation = w.generation /\ new.mark = w.mark /\ new.newest = w.newest
          /\ new.before = w.before /\ new.more = w.more /\ (w.err => new.err) /\ InPage(new)
      BY <1>p, <2>4
    <2> QED
      BY <1>a, <2>1, <2>3, <2>5, <2>6
  <1>12. CASE PullFinish(c)
    BY <1>12, FinishCovered
  <1>13. CASE CancelPull(c)
    <2>1. /\ UNCHANGED <<cursor, disk, config, saving, torn, seen>>
          /\ pull' = pull \/ EndWalk(c)
      BY <1>13 DEF CancelPull, configVars
    <2> QED
      BY <2>1, WalkEndsCovered, ElsewhereCovered
  <1> QED
    BY <1>1, <1>2, <1>3, <1>4, <1>5, <1>6, <1>7, <1>8, <1>10, <1>11, <1>12, <1>13 DEF PullStep

LEMMA NextCovered ==
    ASSUME TypeOK, TypeOK', OwnMarks, NothingHidden, [Next]_vars
    PROVE  NothingHidden'
  <1>0. Grows /\ HistoriesIssued'
    BY NextGrows, NextHistories DEF NothingHidden
  <1>1. ASSUME NEW c \in Client, NEW p \in Task, PushStep(c, p) PROVE \A d \in Client : Covered(d)'
    <2>1. UNCHANGED <<pullVars, configVars>>
      BY <1>1 DEF PushStep, ReadBatch, PushReadSettings, PushSend, PushDelivered, PushAcknowledged,
                  PushRejected, PushRefused, PushTimedOut
    <2> QED
      BY <1>0, <2>1, ElsewhereCovered DEF pullVars, configVars
  <1>2. ASSUME NEW c \in Client, CancelPush(c) PROVE \A d \in Client : Covered(d)'
    BY <1>0, <1>2, ElsewhereCovered DEF CancelPush, pullVars, configVars
  <1>3. ASSUME NEW s \in Server, NEW k \in Content, OtherStep(s, k)
        PROVE  \A d \in Client : Covered(d)'
    <2>1. UNCHANGED <<pullVars, configVars>>
      BY <1>3 DEF OtherStep, OtherDevicePush, AdminStar, AdminDelete
    <2> QED
      BY <1>0, <2>1, ElsewhereCovered DEF pullVars, configVars
  <1>4. ASSUME NEW r \in late, LateDelivered(r) PROVE \A d \in Client : Covered(d)'
    BY <1>0, <1>4, ElsewhereCovered DEF LateDelivered, pullVars, configVars
  <1>5. ASSUME UNCHANGED vars PROVE \A d \in Client : Covered(d)'
    BY <1>0, <1>5, ElsewhereCovered DEF vars
  <1>6. \A d \in Client : Covered(d)'
    BY <1>0, <1>1, <1>2, <1>3, <1>4, <1>5, UserCovered, PullCovered DEF Next
  <1> QED
    BY <1>0, <1>6 DEF NothingHidden

\* The strengthening holds throughout.
THEOREM NothingHiddenAlways == Spec => []NothingHidden
  <1>1. Init => NothingHidden
    <2> SUFFICES ASSUME Init PROVE NothingHidden
      OBVIOUS
    <2>1. \A s \in Server : Items(server[s]) = {}
      BY DEF Init, EmptyHistory, Items
    <2>2. HistoriesIssued
      BY <2>1, FS_EmptySet DEF HistoriesIssued
    <2>3. \A c \in Client : Covered(c)
      BY DEF Init, Covered, MarksIssued, WalkIssued, WalkBegins, MarksCovered, WalkCovers, Current,
             IdlePull, StartCursor
    <2> QED
      BY <2>2, <2>3 DEF NothingHidden
  <1>2. TypeOK /\ TypeOK' /\ OwnMarks /\ NothingHidden /\ [Next]_vars => NothingHidden'
    BY NextCovered
  <1> QED
    BY <1>1, <1>2, TypeCorrect, OwnMarksAlways, PTL DEF Spec

(***************************************************************************)
(* However a server's history moves while its pages are walked, whatever   *)
(* fails, and across resets, switches and restarts: the watermark hides no *)
(* version that the client has not dealt with (pull_new_entries).          *)
(***************************************************************************)
THEOREM WatermarkNeverHidesNew == Spec => []WatermarkHidesNothingNew
  <1>1. NothingHidden => WatermarkHidesNothingNew
    BY DEF NothingHidden, Covered, MarksCovered, SeenUpTo, WatermarkHidesNothingNew
  <1> QED
    BY <1>1, NothingHiddenAlways, PTL
=============================================================================
