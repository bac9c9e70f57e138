----------------------------- MODULE SessionSync -----------------------------
(***************************************************************************)
(* The bridge from the browser to the stored session (session_restore_-    *)
(* sync.rs), and the restart that goes the other way.  A synchronisation   *)
(* works on copies: windows and tabs the browser has lost are removed,     *)
(* those it has are added, updated, put in order and one made active; at a *)
(* limit it fails and the copies are dropped.  The session in memory       *)
(* reaches the disk by a save (ProfileRuntime, GenerationStore); a crash   *)
(* loses what was not saved.                                               *)
(*                                                                         *)
(* Bindings lead from the browser's windows and tabs to the stored ones.   *)
(* Nobody but the bridge changes the session while the browser runs.       *)
(***************************************************************************)
EXTENDS BrowserModel, SessionRestore

\* The program starts at least once.
ASSUME SyncConstants == \A l \in Limits : l.boots # 0

VARIABLES
    session,            \* the active profile's snapshot, in memory
    bindings,           \* ProfileSessionRestoreSync: windows and tabs
    disk,               \* the snapshot last saved
    boots,              \* starts of the program
    starting            \* whether the restored session is still to be checked

vars == <<browser, session, bindings, disk, boots, starting>>

Unbound == [windows |-> <<>>, tabs |-> <<>>]

SyncTypeOK ==
    /\ boots \in 1 .. limits.boots /\ starting \in BOOLEAN
    /\ DOMAIN bindings.windows \subseteq 1 .. next.window - 1
    /\ DOMAIN bindings.tabs \subseteq (1 .. next.window - 1) \X (1 .. next.tab - 1)

-----------------------------------------------------------------------------
(* Synchronisation.  work is [ok, session, windows, tabs]: the candidate,  *)
(* the next bindings, and whether nothing has been refused.                *)

Filtered(kept, t) == IF Committed(pages[t]) THEN Append(kept, t) ELSE kept

CommittedTabs(w) == FoldLeft(Filtered, <<>>, windows[w].tabs)

BoundIn(work, w) == {b \in DOMAIN work.tabs : b[1] = w}

\* A window the browser has closed goes, with its tabs.
WindowDropped(work, w) ==
    [work EXCEPT !.session = RemoveWindow(@, work.windows[w]),
                 !.windows = Without(@, {w}),
                 !.tabs = Without(@, BoundIn(work, w))]

WindowBound(work, w) ==
    IF w \in DOMAIN work.windows THEN work
    ELSE IF ~CanAddWindow(work.session) THEN [work EXCEPT !.ok = FALSE]
    ELSE [work EXCEPT !.session = AddWindow(@),
                      !.windows = With(@, w, work.session.nextWindow)]

\* A tab that is closed goes.
TabDropped(work, b) ==
    [work EXCEPT !.session = RemoveTab(@, work.windows[b[1]], work.tabs[b]),
                 !.tabs = Without(@, {b})]

TabBound(work, w, t) ==
    LET window == work.windows[w]
        location == CurrentLocation(pages[t])
    IN  IF <<w, t>> \in DOMAIN work.tabs
        THEN [work EXCEPT !.session =
                 UpdateLocation(@, window, work.tabs[<<w, t>>], location)]
        ELSE IF ~CanAddTab(work.session, window) THEN [work EXCEPT !.ok = FALSE]
        ELSE [work EXCEPT !.session = AddTab(@, window, location),
                          !.tabs = With(@, <<w, t>>, TabIdentity(work.session))]

\* Mutation of TabPlaced: tabs stay in the order they were stored in.
StaysInPlace(work, w, i, t) == work

\* The i-th tab is put before the one that is stored there.
TabPlaced(work, w, i, t) ==
    LET window == work.windows[w]
        there == WindowOf(work.session, window).tabs[i].id
        tab == work.tabs[<<w, t>>]
    IN  IF there = tab THEN work
        ELSE [work EXCEPT !.session = MoveBefore(@, window, tab, there)]

ActiveStored(work, w) ==
    LET b == <<w, windows[w].active>>
    IN  IF b \in DOMAIN work.tabs
        THEN [work EXCEPT !.session = SetActive(@, work.windows[w], work.tabs[b])]
        ELSE work

\* In the order of their numbers, as a BTreeMap has its keys.
Sorted(S) ==
    CHOOSE s \in [1 .. Cardinality(S) -> S] :
        \A i, j \in DOMAIN s : i < j => s[i] < s[j]

\* Tabs that are bound and no longer committed go.
Lost(work, w) == {b[2] : b \in BoundIn(work, w)} \ Range(CommittedTabs(w))

Pruned(work, w) ==
    FoldLeft(LAMBDA k, t : TabDropped(k, <<w, t>>), work, Sorted(Lost(work, w)))

\* The others are updated or added, until one is refused.
WithTabs(work, w, tabs) ==
    FoldLeft(LAMBDA k, t : IF k.ok THEN TabBound(k, w, t) ELSE k, work, tabs)

InOrder(work, w, tabs) ==
    FoldLeft(LAMBDA k, i : TabPlaced(k, w, i, tabs[i]), work, [i \in DOMAIN tabs |-> i])

\* One window, in the order of the loop's body; a refusal ends it.
WindowSynced(before, w) ==
    LET tabs == CommittedTabs(w)
        bound == WindowBound(before, w)
        added == WithTabs(Pruned(bound, w), w, tabs)
    IN  IF ~before.ok \/ (tabs = <<>> /\ w \notin DOMAIN before.windows) THEN before
        ELSE IF ~bound.ok THEN bound
        ELSE IF ~added.ok THEN added
        ELSE ActiveStored(InOrder(added, w, tabs), w)

\* Windows that are closed, then those that are open, each in order.
Dropped(work, closed) == FoldLeft(WindowDropped, work, closed)

WindowsSynced(work, open) == FoldLeft(WindowSynced, work, open)

Started == [ok |-> TRUE, session |-> session,
            windows |-> bindings.windows, tabs |-> bindings.tabs]

\* synchronize, as far as the replacement of the snapshot
Synced ==
    LET closed == Sorted(DOMAIN bindings.windows \ DOMAIN windows)
    IN  WindowsSynced(Dropped(Started, closed), Sorted(DOMAIN windows))

\* Mutation of Published: the bindings are replaced even when refused.
BindingsFirst(work) ==
    /\ session' = IF work.ok THEN work.session ELSE session
    /\ bindings' = [windows |-> work.windows, tabs |-> work.tabs]

\* replace_session_restore_snapshot, then the bindings; nothing on a refusal.
Published(work) ==
    /\ work.ok
    /\ session' = work.session
    /\ bindings' = [windows |-> work.windows, tabs |-> work.tabs]

Synchronize ==
    /\ ~starting
    /\ Published(Synced)
    /\ UNCHANGED <<browser, disk, boots, starting>>

\* The session is saved: a valid snapshot alone is encoded.  A save that no
\* start reads is left out.
Save ==
    /\ boots < limits.boots
    /\ Valid(session)
    /\ disk' = session
    /\ UNCHANGED <<browser, session, bindings, boots, starting>>

-----------------------------------------------------------------------------
(* A start of the program.                                                 *)

\* Mutation of RestoredActive: the first tab of the window is active.
FirstActive(w, ids) == IF ids = <<>> THEN 0 ELSE ids[1]

RestoredActive(w, ids) ==
    IF w.active = 0 THEN FirstActive(w, ids) ELSE ids[IndexOf(w.tabs, w.active)]

\* restore_browser: windows, tabs, navigations and entries are numbered in the
\* order they are stored, and each tab commits its location at once.
Restored(s) ==
    LET flat == FlattenSeq([i \in DOMAIN s.windows |->
                    [j \in DOMAIN s.windows[i].tabs |-> <<i, j>>]])
        number(i, j) == CHOOSE n \in DOMAIN flat : flat[n] = <<i, j>>
        ids(i) == [j \in DOMAIN s.windows[i].tabs |-> number(i, j)]
        stored(n) == s.windows[flat[n][1]].tabs[flat[n][2]]
    IN  [windows |-> [i \in DOMAIN s.windows |->
            [NewWindow EXCEPT !.tabs = ids(i),
                              !.active = RestoredActive(s.windows[i], ids(i))]],
         pages |-> [n \in DOMAIN flat |->
            CommitNew(NewTab, Entry(n, stored(n).location))],
         next |-> [window |-> Len(s.windows) + 1, tab |-> Len(flat) + 1,
                   activation |-> 1, navigation |-> Len(flat) + 1,
                   entry |-> Len(flat) + 1],
         bindings |-> [windows |-> [i \in DOMAIN s.windows |-> s.windows[i].id],
                       tabs |-> [b \in {<<flat[n][1], n>> : n \in DOMAIN flat} |->
                                    stored(b[2]).id]]]

Installed(s) ==
    IF s.windows = <<>>
    THEN [windows |-> Bootstrapped.windows, pages |-> Bootstrapped.pages,
          next |-> Bootstrapped.next, bindings |-> Unbound]
    ELSE Restored(s)

Init ==
    /\ limits \in Limits
    /\ windows = Bootstrapped.windows
    /\ pages = Bootstrapped.pages
    /\ next = Bootstrapped.next
    /\ answers = {} /\ closes = {}
    /\ session = EmptySession /\ disk = EmptySession
    /\ bindings = Unbound
    /\ boots = 1
    /\ starting = FALSE

\* The program ends, with or without a save, and starts again.
Restart ==
    /\ boots < limits.boots
    /\ boots' = boots + 1
    /\ starting' = TRUE
    /\ LET r == Installed(disk)
       IN  /\ windows' = r.windows
           /\ pages' = r.pages
           /\ next' = r.next
           /\ bindings' = r.bindings
    /\ session' = disk
    /\ answers' = {} /\ closes' = {}
    /\ UNCHANGED <<disk, limits>>

\* The rest of install_active_profile_session_restore: a first synchronisation,
\* which must change nothing, and a window more if no window has a tab to show.
CheckRestored ==
    /\ starting
    /\ starting' = FALSE
    /\ Published(Synced)
    /\ session' = session
    /\ IF \E w \in DOMAIN windows : windows[w].active # 0
       THEN UNCHANGED <<windows, pages, next>>
       ELSE /\ windows' = With(windows, next.window, Inserted(NewWindow, next.tab))
            /\ pages' = With(pages, next.tab, NewTab)
            /\ next' = [next EXCEPT !.window = @ + 1, !.tab = @ + 1]
    /\ UNCHANGED <<limits, answers, closes, disk, boots>>

Browse ==
    /\ ~starting
    /\ BrowserNext
    /\ UNCHANGED <<session, bindings, disk, boots, starting>>

Next == Browse \/ Synchronize \/ Save \/ Restart \/ CheckRestored

Spec == Init /\ [][Next]_vars

-----------------------------------------------------------------------------
(* Properties.                                                             *)

TypeOK == BrowserTypeOK /\ SyncTypeOK

\* Windows and histories stay coherent in any order of operations and late
\* answers, before and after a restart.
BrowserIsCoherent == TypeOK /\ WindowsAreSound /\ HistoryIsCoherent

\* The history of a tab that stays moves only by the answer to the navigation
\* it waits for: one that was superseded, stopped or asked by a tab since
\* closed never lands, however late it is answered.
SupersededNeverLands ==
    [][boots' = boots =>
          \A t \in DOMAIN pages \cap DOMAIN pages' :
              LET shown(p) == <<p.history, p.current>>
              IN  shown(pages'[t]) # shown(pages[t]) =>
                      /\ pages[t].pending.id # 0
                      /\ answers \ answers' =
                            {[tab |-> t, navigation |-> pages[t].pending.id]}]_vars

\* The bindings cover the session exactly, one to one, whatever a
\* synchronisation refused half-way: BindingsOutOfSync, which the shell takes
\* for fatal, is never met, and the session is one that can be saved
\* (bindings_match_snapshot, validate_snapshot).
BindingsMatchSession ==
    /\ Valid(session)
    /\ IsInjective(bindings.windows) /\ IsInjective(bindings.tabs)
    /\ Range(bindings.windows) = Ids(session.windows)
    /\ {b[1] : b \in DOMAIN bindings.tabs} \subseteq DOMAIN bindings.windows
    /\ \A w \in DOMAIN bindings.windows :
          {bindings.tabs[b] : b \in {c \in DOMAIN bindings.tabs : c[1] = w}}
              = Ids(WindowOf(session, bindings.windows[w]).tabs)

\* What a session says, but for identities: of each window its locations in
\* order, and where the active one is.
Shape(s) ==
    [i \in DOMAIN s.windows |->
        [tabs |-> [j \in DOMAIN s.windows[i].tabs |-> s.windows[i].tabs[j].location],
         active |-> IndexOf(s.windows[i].tabs, s.windows[i].active)]]

\* What the browser shows of window w; an active tab without a page is no
\* place to come back to, and any tab will do.
ShapeOfWindow(w, stored) ==
    LET tabs == CommittedTabs(w)
        i == SelectInSeq(tabs, LAMBDA t : t = windows[w].active)
    IN  [tabs |-> [j \in DOMAIN tabs |-> CurrentLocation(pages[tabs[j]])],
         active |-> IF i = 0 THEN stored.active ELSE i]

\* A synchronisation that changes the session makes it what the browser shows:
\* of every window it stores, the committed tabs in their order and the active
\* one, after any closing, reordering and navigating since the last one; every
\* window with a committed tab is stored (synchronize).  Windows are stored in
\* the order in which they came to have something to store.
StoredIsWhatIsShown ==
    [][session' # session /\ boots' = boots =>
          /\ Range(bindings'.windows) = Ids(session'.windows)
          /\ DOMAIN bindings'.windows \subseteq DOMAIN windows
          /\ \A w \in DOMAIN bindings'.windows :
                LET i == IndexOf(session'.windows, bindings'.windows[w])
                IN  Shape(session')[i] = ShapeOfWindow(w, Shape(session')[i])
          /\ \A w \in DOMAIN windows :
                CommittedTabs(w) # <<>> => w \in DOMAIN bindings'.windows]_vars

\* A restored browser is what was saved, at any time the program may end: the
\* first synchronisation has nothing to change, and so the program starts
\* (install_active_profile_session_restore), and a crash loses no more than what
\* was not saved.
RestoreIsExact == starting => Synced.ok /\ Synced.session = disk

\* An identity that was ever saved never comes to name another tab, over
\* closing, synchronising, saving, crashing and starting again: what a session
\* has and the disk has not is numbered past all that was there (add_tab).
StoredIdsAreNeverReused ==
    /\ session.nextTab >= disk.nextTab
    /\ \A id \in TabIds(session) \ TabIds(disk) : id >= disk.nextTab
=============================================================================
