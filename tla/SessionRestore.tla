--------------------------- MODULE SessionRestore ---------------------------
(***************************************************************************)
(* The stored session (session_restore.rs), as functions of the snapshot   *)
(* s: windows of tabs, each a committed location, under identities of      *)
(* their own that outlive the browser's.  Its generation is the store's.   *)
(* An operation that meets a limit is refused: the identity it would       *)
(* return is 0.  Locations within their limits alone are considered.       *)
(***************************************************************************)
EXTENDS SequencesExt, FiniteSetsExt, Integers

CONSTANTS
    MaxSessionWindows,      \* MAX_SESSION_WINDOWS
    MaxTabsPerWindow,       \* MAX_SESSION_TABS_PER_WINDOW
    MaxSessionTabs          \* MAX_SESSION_TABS

ASSUME SessionConstants ==
    {MaxSessionWindows, MaxTabsPerWindow, MaxSessionTabs} \subseteq Nat

EmptySession == [windows |-> <<>>, nextWindow |-> 1, nextTab |-> 1]

SessionWindow(id) == [id |-> id, active |-> 0, tabs |-> <<>>]

IndexOf(seq, id) == SelectInSeq(seq, LAMBDA x : x.id = id)
Ids(seq) == {seq[i].id : i \in DOMAIN seq}
WindowOf(s, id) == s.windows[IndexOf(s.windows, id)]

TabIds(s) == UNION {Ids(s.windows[i].tabs) : i \in DOMAIN s.windows}
TotalTabs(s) == FoldLeft(LAMBDA n, w : n + Len(w.tabs), 0, s.windows)

\* The session with window id as Op makes it.
Changed(s, id, Op(_)) ==
    [s EXCEPT !.windows[IndexOf(s.windows, id)] = Op(@)]

CanAddWindow(s) == Len(s.windows) < MaxSessionWindows

\* add_window
AddWindow(s) ==
    [s EXCEPT !.windows = Append(@, SessionWindow(s.nextWindow)), !.nextWindow = @ + 1]

\* remove_window
RemoveWindow(s, id) ==
    [s EXCEPT !.windows = RemoveAt(@, IndexOf(@, id))]

CanAddTab(s, window) ==
    /\ Len(WindowOf(s, window).tabs) < MaxTabsPerWindow
    /\ TotalTabs(s) < MaxSessionTabs

\* Mutation of TabIdentity: one more than those in use.
NextAfterUsed(s) == Max(TabIds(s) \cup {0}) + 1

TabIdentity(s) == s.nextTab

\* add_tab
AddTab(s, window, location) ==
    LET id == TabIdentity(s)
    IN  [Changed(s, window, LAMBDA w :
            [w EXCEPT !.tabs = Append(@, [id |-> id, location |-> location]),
                      !.active = IF @ = 0 THEN id ELSE @])
         EXCEPT !.nextTab = @ + 1]

\* update_tab_location
UpdateLocation(s, window, tab, location) ==
    Changed(s, window, LAMBDA w : [w EXCEPT !.tabs[IndexOf(w.tabs, tab)].location = location])

\* SessionRestoreSnapshot::set_active_tab
SetActive(s, window, tab) == Changed(s, window, LAMBDA w : [w EXCEPT !.active = tab])

\* SessionRestoreSnapshot::move_tab_before, of a tab behind its anchor
MoveBefore(s, window, tab, anchor) ==
    Changed(s, window, LAMBDA w :
        LET rest == RemoveAt(w.tabs, IndexOf(w.tabs, tab))
        IN  [w EXCEPT !.tabs = InsertAt(rest, IndexOf(rest, anchor), @[IndexOf(@, tab)])])

\* remove_tab: the first tab left takes the place of an active one.
RemoveTab(s, window, tab) ==
    Changed(s, window, LAMBDA w :
        LET rest == RemoveAt(w.tabs, IndexOf(w.tabs, tab))
        IN  [w EXCEPT !.tabs = rest,
                      !.active = CASE @ # tab -> @
                                   [] rest = <<>> -> 0
                                   [] OTHER -> rest[1].id])

\* validate_snapshot, which a snapshot must pass to be saved and to be loaded.
Valid(s) ==
    /\ Len(s.windows) <= MaxSessionWindows
    /\ TotalTabs(s) <= MaxSessionTabs
    /\ Cardinality(Ids(s.windows)) = Len(s.windows)
    /\ Cardinality(TabIds(s)) = TotalTabs(s)
    /\ Ids(s.windows) \subseteq 1 .. s.nextWindow - 1
    /\ TabIds(s) \subseteq 1 .. s.nextTab - 1
    /\ \A i \in DOMAIN s.windows :
          LET w == s.windows[i]
          IN  /\ Len(w.tabs) <= MaxTabsPerWindow
              /\ IF w.tabs = <<>> THEN w.active = 0 ELSE w.active \in Ids(w.tabs)
=============================================================================
