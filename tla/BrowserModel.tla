---------------------------- MODULE BrowserModel ----------------------------
(***************************************************************************)
(* The portable browser (app.rs, commands.rs, tab_close.rs and the edit of *)
(* chrome.rs): windows of tabs, of which one is active and another perhaps *)
(* about to become so, and the navigations of each tab.  Its callers hold  *)
(* navigations the engine has yet to answer and closes that wait for the   *)
(* window to be neutral; both may come back when the browser has moved on, *)
(* and are then refused.  An operation that fails changes nothing.         *)
(*                                                                         *)
(* Tabs are numbered across windows, so a tab's number finds its state.    *)
(* What the address bar says is left out, whose text it edits is not.      *)
(***************************************************************************)
EXTENDS TabHistory, FiniteSetsExt

CONSTANT Limits \* bounds: how many of each kind are numbered in a session

ASSUME BrowserConstants ==
    Limits \subseteq [{"windows", "tabs", "activations", "navigations", "boots"} -> Nat]

VARIABLES
    limits,         \* the bounds of this behaviour, one of Limits
    windows,        \* BrowserApp.windows: what each open window holds
    pages,          \* the navigation state of each tab there is
    next,           \* the next identity of each kind
    answers,        \* navigations the engine has yet to answer
    closes          \* the close that waits for neutral content, if one does

browser == <<limits, windows, pages, next, answers, closes>>

NoActivation == [id |-> 0, from |-> 0, to |-> 0]

\* BrowserWindow::new
NewWindow == [tabs |-> <<>>, active |-> 0, activation |-> NoActivation, edit |-> 0]

FirstIds == [window |-> 1, tab |-> 1, activation |-> 1, navigation |-> 1, entry |-> 1]

TabsOf(w) == Range(windows[w].tabs)

BrowserTypeOK ==
    /\ \A w \in DOMAIN windows :
          /\ w < next.window
          /\ windows[w].tabs \in Seq(DOMAIN pages)
          /\ {windows[w].active, windows[w].edit} \subseteq 0 .. next.tab - 1
    /\ \A t \in DOMAIN pages : t < next.tab /\ TabTypeOK(pages[t])
    /\ \A a \in answers : a.tab < next.tab /\ a.navigation < next.navigation
    /\ \A c \in closes : c.tab < next.tab /\ c.activation < next.activation

-----------------------------------------------------------------------------
(* Windows and their tabs.                                                 *)

\* A map with y at x besides, and a map without the keys in S.
With(f, x, y) == [z \in DOMAIN f \cup {x} |-> IF z = x THEN y ELSE f[z]]
Without(f, S) == [x \in DOMAIN f \ S |-> f[x]]

\* insert_tab
Inserted(win, t) ==
    [win EXCEPT !.tabs = Append(@, t), !.active = IF @ = 0 THEN t ELSE @]

Bootstrapped == [windows |-> With(<<>>, 1, Inserted(NewWindow, 1)),
                 pages |-> With(<<>>, 1, NewTab),
                 next |-> [FirstIds EXCEPT !.window = 2, !.tab = 2]]

\* create_window
CreateWindow ==
    /\ next.window <= limits.windows
    /\ windows' = With(windows, next.window, NewWindow)
    /\ next' = [next EXCEPT !.window = @ + 1]
    /\ UNCHANGED <<pages, answers, closes>>

\* close_window
CloseWindow(w) ==
    /\ windows' = Without(windows, {w})
    /\ pages' = Without(pages, TabsOf(w))
    /\ UNCHANGED <<next, answers, closes>>

\* reset_window_for_profile_switch
ResetWindow(w) ==
    /\ next.tab <= limits.tabs
    /\ windows' = [windows EXCEPT ![w] = Inserted(NewWindow, next.tab)]
    /\ pages' = With(Without(pages, TabsOf(w)), next.tab, NewTab)
    /\ next' = [next EXCEPT !.tab = @ + 1]
    /\ UNCHANGED <<answers, closes>>

\* create_tab
CreateTab(w) ==
    /\ next.tab <= limits.tabs
    /\ windows' = [windows EXCEPT ![w] = Inserted(@, next.tab)]
    /\ pages' = With(pages, next.tab, NewTab)
    /\ next' = [next EXCEPT !.tab = @ + 1]
    /\ UNCHANGED <<answers, closes>>

PositionOf(win, t) == SelectInSeq(win.tabs, LAMBDA u : u = t)

\* The tab after t, or else the one before it; 0 if t is alone.
Neighbour(win, t) ==
    LET i == PositionOf(win, t)
    IN  CASE i < Len(win.tabs) -> win.tabs[i + 1]
          [] i = Len(win.tabs) /\ i > 1 -> win.tabs[i - 1]
          [] OTHER -> 0

\* Mutation of CloseTab: an activation from or to the tab stays pending.
KeepsActivation(win, t) ==
    [win EXCEPT !.tabs = RemoveAt(@, PositionOf(win, t)),
                !.edit = IF @ = t THEN 0 ELSE @,
                !.active = IF @ = t THEN Neighbour(win, t) ELSE @]

\* BrowserWindow::close_tab
CloseTab(win, t) ==
    [win EXCEPT !.tabs = RemoveAt(@, PositionOf(win, t)),
                !.activation = IF t \in {@.from, @.to} THEN NoActivation ELSE @,
                !.edit = IF @ = t THEN 0 ELSE @,
                !.active = IF @ = t THEN Neighbour(win, t) ELSE @]

\* BrowserWindow::set_active_tab
Activated(win, t) ==
    [win EXCEPT !.activation = NoActivation, !.active = t,
                !.edit = IF win.active # t THEN 0 ELSE @]

\* set_active_tab
SetActiveTab(w, t) ==
    /\ windows' = [windows EXCEPT ![w] = Activated(@, t)]
    /\ UNCHANGED <<pages, next, answers, closes>>

\* move_tab_before; anchor is 0 for the end.
MovedBefore(win, t, anchor) ==
    LET rest == [win EXCEPT !.tabs = RemoveAt(@, PositionOf(win, t))]
    IN  CASE anchor = t -> win
          [] anchor = 0 -> [win EXCEPT !.tabs = Append(rest.tabs, t)]
          [] anchor \notin {0, t} ->
                [win EXCEPT !.tabs = InsertAt(rest.tabs, PositionOf(rest, anchor), t)]

MoveTab(w, t) ==
    /\ \E anchor \in TabsOf(w) \cup {0} :
          windows' = [windows EXCEPT ![w] = MovedBefore(@, t, anchor)]
    /\ UNCHANGED <<pages, next, answers, closes>>

-----------------------------------------------------------------------------
(* Activation: begun by the user, committed when the content is neutral.   *)

\* begin_tab_activation: a newer one takes the place of the pending one.
BeginActivation(w, t) ==
    /\ windows[w].active # 0
    /\ next.activation <= limits.activations
    /\ windows' = [windows EXCEPT ![w].activation =
                      [id |-> next.activation, from |-> windows[w].active, to |-> t]]
    /\ next' = [next EXCEPT !.activation = @ + 1]

SwitchTo(w, t) ==
    /\ BeginActivation(w, t)
    /\ UNCHANGED <<pages, answers, closes>>

\* cycle_target, and begin_tab_cycle on it
Cycle(w, step) ==
    LET win == windows[w]
        anchor == IF win.activation.id # 0 THEN win.activation.to ELSE win.active
        n == Len(win.tabs)
    IN  /\ n >= 2
        /\ PositionOf(win, anchor) # 0
        /\ SwitchTo(w, win.tabs[((PositionOf(win, anchor) - 1 + step + n) % n) + 1])

\* What commit_tab_activation asks for, of the activation pending under id.
MayActivate(win, id) ==
    /\ id # 0
    /\ win.activation.id = id
    /\ win.active = win.activation.from
    /\ win.activation.to \in Range(win.tabs)

\* commit_tab_activation
CommitActivation(w, id) ==
    /\ MayActivate(windows[w], id)
    /\ windows' = [windows EXCEPT ![w] = Activated(@, @.activation.to)]
    /\ UNCHANGED <<pages, next, answers, closes>>

\* cancel_tab_activation
CancelActivation(w, id) ==
    /\ id # 0
    /\ windows[w].activation.id = id
    /\ windows' = [windows EXCEPT ![w].activation = NoActivation]
    /\ UNCHANGED <<pages, next, answers, closes>>

-----------------------------------------------------------------------------
(* Closing a tab.  An active one goes when its content is neutral, after   *)
(* the activation of its neighbour; that it is neutral is PresentationHand-*)
(* off's affair and is assumed here at any time after the close is begun.  *)
(* The shell has one close under way.                                      *)

\* begin_tab_close
BeginClose(w, t) ==
    LET win == windows[w]
        fallback == Neighbour(win, t)
    IN  \/ /\ win.active # t
           /\ windows' = [windows EXCEPT ![w] = CloseTab(@, t)]
           /\ pages' = Without(pages, {t})
           /\ UNCHANGED <<next, answers, closes>>
        \/ /\ win.active = t
           /\ fallback # 0
           /\ closes = {}
           /\ BeginActivation(w, fallback)
           /\ closes' = {[window |-> w, tab |-> t, activation |-> next.activation]}
           /\ UNCHANGED <<pages, answers>>
        \/ /\ win.active = t
           /\ fallback = 0
           /\ closes = {}
           /\ windows' = [windows EXCEPT ![w] = Activated(@, t)]
           /\ closes' = {[window |-> w, tab |-> t, activation |-> 0]}
           /\ UNCHANGED <<pages, next, answers>>

\* commit_active_tab_close_after_neutral, commit_last_tab_close_after_neutral
MayClose(c) ==
    /\ c.window \in DOMAIN windows
    /\ windows[c.window].active = c.tab
    /\ IF c.activation = 0
       THEN Len(windows[c.window].tabs) = 1
       ELSE MayActivate(windows[c.window], c.activation)

CommitClose(c) ==
    LET win == windows[c.window]
        settled == IF c.activation = 0 THEN win ELSE Activated(win, win.activation.to)
    IN  /\ closes' = closes \ {c}
        /\ IF MayClose(c)
           THEN /\ windows' = [windows EXCEPT ![c.window] = CloseTab(settled, c.tab)]
                /\ pages' = Without(pages, {c.tab})
           ELSE UNCHANGED <<windows, pages>>
        /\ UNCHANGED <<next, answers>>

-----------------------------------------------------------------------------
(* The address bar.                                                        *)

\* begin_address_bar_edit
BeginEdit(w) ==
    /\ windows[w].active # 0
    /\ windows' = [windows EXCEPT ![w].edit = windows[w].active]
    /\ UNCHANGED <<pages, next, answers, closes>>

\* cancel_address_bar_edit, submit_address_bar_edit
EndEdit(w) ==
    /\ windows[w].edit # 0
    /\ windows' = [windows EXCEPT ![w].edit = 0]
    /\ UNCHANGED <<pages, next, answers, closes>>

-----------------------------------------------------------------------------
(* Navigation.                                                             *)

\* begin_navigation (entry 0) and begin_existing_navigation.  The engine will
\* answer it once, whatever becomes of it here.
Begin(t, entry) ==
    /\ next.navigation <= limits.navigations
    /\ pages' = [pages EXCEPT ![t] = Start(@, Intent(next.navigation, entry))]
    /\ next' = [next EXCEPT !.navigation = @ + 1]
    /\ answers' = answers \cup {[tab |-> t, navigation |-> next.navigation]}
    /\ UNCHANGED <<windows, closes>>

Navigate(t) == Begin(t, 0)

\* dispatch_browser_command on the active tab: Back, Forward, ReloadOrStop.
Back(t) == BackTarget(pages[t]) # 0 /\ Begin(t, BackTarget(pages[t]))

Forward(t) == ForwardTarget(pages[t]) # 0 /\ Begin(t, ForwardTarget(pages[t]))

ReloadOrStop(t) ==
    LET p == pages[t]
    IN  \/ /\ p.pending.id # 0
           /\ pages' = [pages EXCEPT ![t] = Stopped(@)]
           /\ UNCHANGED <<windows, next, answers, closes>>
        \/ /\ p.pending.id = 0
           /\ Committed(p)
           /\ Begin(t, ReloadTarget(p))

\* Mutation of PendingFor: whatever is pending is taken to be answered.
AnyPending(t, navigation) == t \in DOMAIN pages /\ pages[t].pending.id # 0

\* pending_for: the answer is to what the tab waits for.
PendingFor(t, navigation) ==
    t \in DOMAIN pages /\ pages[t].pending.id = navigation

\* commit_navigation.  An entry that is gone leaves the navigation pending.
Commit(a, location) ==
    LET p == pages[a.tab]
        entry == p.pending.entry
    IN  CASE entry = 0 ->
               /\ pages' = [pages EXCEPT ![a.tab] = CommitNew(p, Entry(next.entry, location))]
               /\ next' = [next EXCEPT !.entry = @ + 1]
          [] entry \in EntryIds(p) ->
               /\ pages' = [pages EXCEPT ![a.tab] = CommitExisting(p, entry, location)]
               /\ UNCHANGED next
          [] OTHER -> UNCHANGED <<pages, next>>

\* The engine's answer comes: commit_navigation or fail_navigation.
Answer(a) ==
    /\ answers' = answers \ {a}
    /\ \/ /\ PendingFor(a.tab, a.navigation)
          /\ \E location \in Location : Commit(a, location)
       \/ /\ PendingFor(a.tab, a.navigation)
          /\ pages' = [pages EXCEPT ![a.tab] = Stopped(@)]
          /\ UNCHANGED next
       \/ /\ ~PendingFor(a.tab, a.navigation)
          /\ UNCHANGED <<pages, next>>
    /\ UNCHANGED <<windows, closes>>

Operation ==
    \/ CreateWindow
    \/ \E w \in DOMAIN windows :
          \/ CloseWindow(w) \/ ResetWindow(w) \/ CreateTab(w)
          \/ BeginEdit(w) \/ EndEdit(w)
          \/ Cycle(w, 1) \/ Cycle(w, -1)
          \/ \E t \in TabsOf(w) :
                SetActiveTab(w, t) \/ MoveTab(w, t) \/ SwitchTo(w, t)
                \/ BeginClose(w, t) \/ Navigate(t)
          \/ \E t \in TabsOf(w) \cap {windows[w].active} :
                Back(t) \/ Forward(t) \/ ReloadOrStop(t)
          \/ \E id \in 1 .. limits.activations :
                CommitActivation(w, id) \/ CancelActivation(w, id)
    \/ \E c \in closes : CommitClose(c)
    \/ \E a \in answers : Answer(a)

BrowserNext == Operation /\ UNCHANGED limits

-----------------------------------------------------------------------------
(* Properties.                                                             *)

\* A window with tabs has an active one.  What is pending in it, an activation
\* or an edit, is about tabs it still has: an activation leads from the tab
\* that is active, an edit belongs to it, through any order of closing,
\* switching and late commits (app.rs, tab_close.rs).
WindowsAreSound ==
    \A w \in DOMAIN windows :
        LET win == windows[w]
            tabs == TabsOf(w)
        IN  /\ IF win.tabs = <<>> THEN win.active = 0 ELSE win.active \in tabs
            /\ win.activation.id # 0 =>
                  win.activation.from = win.active /\ win.activation.to \in tabs
            /\ win.edit # 0 => win.edit = win.active
            /\ tabs \subseteq DOMAIN pages
            /\ \A v \in DOMAIN windows \ {w} : tabs \cap TabsOf(v) = {}

\* The history limit, the truncation on a new document and traversals leave a
\* history in the order it was made, that holds the entry the tab shows and
\* the one a pending traversal leads to: no answer meets MissingHistoryEntry.
HistoryIsCoherent ==
    \A t \in DOMAIN pages :
        LET p == pages[t]
        IN  /\ Len(p.history) <= MaxEntries
            /\ \A i, j \in DOMAIN p.history :
                  i < j => p.history[i].id < p.history[j].id
            /\ p.history # <<>> <=> p.current # 0
            /\ {p.current, p.pending.entry} \subseteq EntryIds(p) \cup {0}
=============================================================================
