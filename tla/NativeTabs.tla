----------------------------- MODULE NativeTabs -----------------------------
(***************************************************************************)
(* Tabs, frames and navigations in the native shell (platform/windows.rs), *)
(* with the browser model as far as the shell uses it: the tab strip of    *)
(* the one window (app.rs, tab_close.rs, commands.rs) and the pending      *)
(* navigation of each tab (navigation.rs).  A handler runs on the event    *)
(* loop's thread and sends at most one command to the render worker.  It   *)
(* is written as a function of the shell's state: s is that state, and out *)
(* the command to send.  A handler that returns an error ends in Fail.     *)
(*                                                                         *)
(* The browser's own pending activation is committed or cancelled by the   *)
(* handler that begins it, so it is not state.  Pages have no history to   *)
(* go back to: the shell only starts a reload.  The profile side of a      *)
(* switch is in ProfileShell; here it is under way (seeking), or its       *)
(* replaced lock is still held (unlocking).                                *)
(***************************************************************************)
EXTENDS RenderWorker, FiniteSetsExt, SequencesExt

CONSTANTS
    Stored,         \* sessions a profile may have stored, see Fresh
    MaxInputs,      \* bound: keys, window events and profile switches
    MaxSessions     \* bound: profile sessions

\* A stored session: how many tabs, which is active, whether pages are remote.
StoredSession == [tabs : 0 .. MaxTabs, active : 0 .. MaxTabs, remote : BOOLEAN]
Fresh == [tabs |-> 0, active |-> 0, remote |-> FALSE]

\* A session whose active tab is not one of its tabs is not decoded.
ASSUME ShellConstants ==
    /\ MaxInputs \in Nat
    /\ MaxSessions \in Nat \ {0}
    /\ Stored \subseteq StoredSession
    /\ \A stored \in Stored : stored.tabs # 0 => stored.active \in 1 .. stored.tabs

VARIABLES
    shell,          \* the fields of NativeShell, and of its BrowserApp
    minimised,      \* whether the window has no area
    inputs          \* inputs so far

vars == <<renderWorker, shell, minimised, inputs>>

NotCreating == [id |-> 0, tab |-> NoTab, navigation |-> 0]

(* install_active_profile_session_restore: browser, bindings and numbering *)
(* are made anew, the active tab alone has a view.  An empty profile gets  *)
(* a tab with an initial navigation; a restored page is to be reloaded.    *)
Install(s, stored) ==
    LET fresh == stored.tabs = 0
        count == IF fresh THEN 1 ELSE stored.tabs
        tab == IF fresh THEN 1 ELSE stored.active
    IN  [s EXCEPT
            !.tabs = [i \in 1 .. count |-> i], !.active = tab, !.tab = tab,
            !.nextTab = count + 1, !.nextActivation = 1,
            !.nextNavigation = count + 1,
            !.loading = [t \in Tab |-> IF fresh /\ t = 1 THEN 1 ELSE 0],
            !.remote = [t \in Tab |-> t <= count /\ stored.remote],
            !.initial = IF fresh THEN 1 ELSE 0,
            !.restoring = ~fresh,
            !.handoff = NewHandoff(tab), !.materialized = {tab}]

\* The shell before it has a session, and the session it starts with.
NewShell ==
    [tabs |-> <<>>, active |-> NoTab, tab |-> NoTab, nextTab |-> 1,
     nextActivation |-> 1, nextNavigation |-> 1, loading |-> <<>>, remote |-> <<>>,
     initial |-> 0, restoring |-> FALSE, handoff |-> NewHandoff(NoTab),
     materialized |-> {},
     down |-> FALSE, fatal |-> "none", session |-> 1, ready |-> FALSE,
     init |-> 1, frame |-> 0, surface |-> 0, reset |-> 0,
     creating |-> NotCreating, closing |-> NoTab, cancelling |-> NoTarget,
     targets |-> [t \in Tab |-> NoTarget],
     permit |-> NoPermit, recovery |-> NoPermit,
     visible |-> TRUE, dirty |-> FALSE, redraw |-> FALSE,
     seeking |-> FALSE, unlocking |-> FALSE, out |-> <<>>]

Started(stored) == Install(NewShell, stored)

Init ==
    \E stored \in Stored :
        /\ shell = Started(stored)
        /\ WorkerInit(1, shell.tab, shell.handoff.generation)
        /\ minimised = FALSE
        /\ inputs = 0

-----------------------------------------------------------------------------
(* Shutdown, errors, requests and commands.                                *)

\* begin_shutdown: the window, the browser and the worker's handle are dropped.
Shutdown(s) ==
    IF s.down THEN s ELSE
    [s EXCEPT !.down = TRUE, !.ready = FALSE, !.tabs = <<>>, !.active = NoTab,
              !.loading = [t \in Tab |-> 0], !.initial = 0,
              !.init = 0, !.frame = 0, !.surface = 0, !.reset = 0,
              !.creating = NotCreating, !.closing = NoTab,
              !.cancelling = NoTarget, !.permit = NoPermit,
              !.recovery = NoPermit, !.visible = FALSE, !.redraw = FALSE,
              !.out = <<>>]

\* fail: the first error is the one reported.
Fail(s, why) ==
    [Shutdown(s) EXCEPT !.fatal = IF @ = "none" THEN why ELSE @]

Commands == Range(queue) \cup Range(busy) \cup {e.of : e \in Range(events)}

\* The requests that the shell or a command refers to.
KnownRequests(s) ==
    {s.init, s.frame, s.surface, s.reset, s.creating.id} \cup {c.id : c \in Commands}

\* Requests are numbered on; here a number nobody refers to any more is reused.
NextRequest(s) ==
    CHOOSE id \in 1 .. Cardinality(KnownRequests(s)) + 1 : id \notin KnownRequests(s)

Send(s, command) == [s EXCEPT !.out = <<command>>]

\* The state the handler leaves, and the command sent: a full queue is fatal.
Become(s) ==
    LET t == IF s.out # <<>> /\ QueueFull THEN Fail(s, "full") ELSE s
    IN  /\ shell' = [t EXCEPT !.out = <<>>]
        /\ queue' = queue \o t.out
        /\ cancelled' = t.down

\* profile_transition_in_progress
InTransition(s) == s.seeking \/ s.unlocking \/ s.reset # 0

Live(s, tab) == tab \in Range(s.tabs)

-----------------------------------------------------------------------------
(* Frames.                                                                 *)

\* start_frame_with_permit: without an area a target's permit waits.
StartFrame(s, permit) ==
    IF ~s.ready \/ s.frame # 0 \/ s.surface # 0 THEN Fail(s, "protocol")
    ELSE IF minimised
         THEN [s EXCEPT !.dirty = TRUE,
                        !.permit = IF ForTarget(permit) THEN permit ELSE @]
         ELSE Send([s EXCEPT !.frame = NextRequest(s), !.dirty = FALSE],
                   Render(NextRequest(s), permit))

\* dispatch_pending_target_frame
DrawTarget(s) ==
    IF s.frame # 0 \/ s.surface # 0 \/ s.permit = NoPermit THEN s
    ELSE StartFrame([s EXCEPT !.permit = NoPermit], s.permit)

\* start_frame
Draw(s) ==
    CASE ~s.ready -> s
      [] s.ready /\ (s.frame # 0 \/ s.surface # 0 \/ s.creating # NotCreating) ->
            [s EXCEPT !.dirty = TRUE]
      [] OTHER ->
            IF s.permit # NoPermit THEN DrawTarget(s)
            ELSE IF InTransition(s) \/ FrameBlocked(s.handoff)
                 THEN [s EXCEPT !.dirty = TRUE]
            ELSE IF CanDrawCurrent(s.handoff, s.tab)
                 THEN StartFrame(s, CurrentPermit(s.handoff, s.tab))
            ELSE Fail(s, "protocol")

RequestRedraw(s) == [s EXCEPT !.redraw = TRUE]
DirtyRedraw(s) == [s EXCEPT !.dirty = TRUE, !.redraw = TRUE]

\* Mutation of Hide: the window stays.
StayShown(s) == s

Hide(s) == [s EXCEPT !.visible = FALSE]
Show(s) == [s EXCEPT !.visible = TRUE]

\* Mutation of RecoverSurface: the permit of the lost frame is lost with it.
RecoverWithoutPermit(s, permit) ==
    Send([s EXCEPT !.surface = NextRequest(s)],
         ReplaceSurface(NextRequest(s), permit.tab))

\* start_surface_recovery
RecoverSurface(s, permit) ==
    Send([s EXCEPT !.surface = NextRequest(s), !.recovery = permit],
         ReplaceSurface(NextRequest(s), permit.tab))

\* Nothing is under way between the committed tab and its page.
Settled(s) == ~Activating(s.handoff) /\ s.handoff.content = s.tab

-----------------------------------------------------------------------------
(* Tabs.                                                                   *)

(* The passage to another tab: the window is hidden, the handoff neutral,  *)
(* the browser commits (closing the old tab, for a close), the handoff     *)
(* follows, and a frame of the target is permitted.                        *)
SwitchTo(s, to, tabs) ==
    LET intent == [id |-> s.nextActivation, from |-> s.active, to |-> to]
        began == ConfirmNeutral(BeginActivation(s.handoff, intent))
        acked == AcknowledgeChrome(began, to)
    IN  IF ~CanBeginActivation(s.handoff, intent)
           \/ ~CanAcknowledge(began, intent.id, to)
           \/ ~CanDrawTarget(acked, intent.id, to)
        THEN Fail(s, "protocol")
        ELSE DrawTarget([Hide(s) EXCEPT
                 !.nextActivation = @ + 1, !.handoff = acked, !.tabs = tabs,
                 !.active = to, !.tab = to,
                 !.permit = TargetPermit(acked, intent.id, to)])

\* begin_native_tab_activation
Activate(s, to) ==
    IF to \notin s.materialized \/ to = s.active
       THEN [s EXCEPT !.nextActivation = @ + 1]
       ELSE SwitchTo(s, to, s.tabs)

\* Mutation of Idle: a tab may be being created.
IdleButCreating(s) == s.ready /\ s.surface = 0 /\ ~Activating(s.handoff)

Idle(s) == s.ready /\ s.creating = NotCreating /\ s.surface = 0
           /\ ~Activating(s.handoff)

\* start_new_tab
NewTab(s) ==
    IF InTransition(s) \/ ~Idle(s) \/ s.frame # 0 THEN s
    ELSE LET tab == s.nextTab
         IN  Send([s EXCEPT !.nextTab = @ + 1, !.tabs = Append(@, tab),
                            !.nextNavigation = @ + 1,
                            !.loading[tab] = s.nextNavigation,
                            !.creating = [id |-> NextRequest(s), tab |-> tab,
                                          navigation |-> s.nextNavigation]],
                  CreateView(NextRequest(s), tab))

Position(s, tab) == CHOOSE i \in DOMAIN s.tabs : s.tabs[i] = tab

\* begin_tab_close's choice: the tab to the right, or else to the left.
Fallback(s) ==
    LET i == Position(s, s.active)
    IN  IF i < Len(s.tabs) THEN s.tabs[i + 1] ELSE s.tabs[i - 1]

\* start_close_tab, of the active tab: its view is retired after the switch.
CloseTab(s) ==
    IF ~Idle(s) \/ s.closing # NoTab \/ s.permit # NoPermit THEN s
    ELSE IF Len(s.tabs) = 1
         THEN IF CanConfirmCurrentNeutral(s.handoff, s.active)
                 THEN Shutdown(s) ELSE Fail(s, "protocol")
    ELSE IF Fallback(s) \notin s.materialized
         THEN [s EXCEPT !.nextActivation = @ + 1]
    ELSE LET old == s.active
         IN  SwitchTo([s EXCEPT !.closing = old, !.loading[old] = 0],
                      Fallback(s), RemoveAt(s.tabs, Position(s, old)))

\* begin_tab_cycle by step places; not while a tab has no view.
CycleTab(s, step) ==
    LET n == Len(s.tabs)
        next == ((Position(s, s.active) - 1 + step) % n) + 1
    IN  IF s.creating # NotCreating \/ ~(Range(s.tabs) \subseteq s.materialized)
           \/ n < 2
        THEN s
        ELSE Activate(s, s.tabs[next])

-----------------------------------------------------------------------------
(* Navigations.                                                            *)

\* begin_reload and dispatch_navigation_start: the worker is told who asks.
Reload(s, tab) ==
    LET target == [tab |-> tab, navigation |-> s.nextNavigation,
                   profile |-> s.session]
    IN  Send([s EXCEPT !.nextNavigation = @ + 1,
                       !.loading[tab] = target.navigation,
                       !.targets[tab] = target],
             Navigate(target, ~s.remote[tab]))

\* handle_reload_or_stop: a stop is asked of the worker first.
ReloadOrStop(s) ==
    LET owner == s.targets[s.active]
    IN  IF s.cancelling # NoTarget THEN s
        ELSE IF s.loading[s.active] = 0 THEN Reload(s, s.active)
        ELSE IF owner.navigation # s.loading[s.active] THEN Fail(s, "unowned")
        ELSE Send([s EXCEPT !.cancelling = owner], Cancel(owner))

Escape(s) == IF s.loading[s.active] # 0 THEN ReloadOrStop(s) ELSE s

\* navigation_target_is_current
CurrentTarget(s, target) ==
    /\ s.targets[target.tab] = target
    /\ Live(s, target.tab)
    /\ s.loading[target.tab] = target.navigation

ForgetTarget(s, target) ==
    IF s.targets[target.tab] = target
       THEN [s EXCEPT !.targets[target.tab] = NoTarget] ELSE s

\* start_restored_reload_if_ready starts a reload...
MayReplay(s) == s.restoring /\ s.ready /\ ~InTransition(s)

Replay(s) ==
    IF s.tab \notin s.materialized \/ s.active # s.tab THEN Fail(s, "protocol")
    ELSE [Reload(s, s.tab) EXCEPT !.restoring = FALSE]

\* commit_initial_navigation, of the page the worker starts with.
CommitInitial(s) ==
    [s EXCEPT !.initial = 0,
              !.loading = IF s.initial = 0 THEN @ ELSE [@ EXCEPT ![s.tab] = 0]]

-----------------------------------------------------------------------------
(* Answers of the render worker.  Each handler compares the request or the *)
(* target it was given with the one it is waiting for.                     *)

\* Errors the worker reports, by their cause.
Why(result) == IF result \in {"failed", "stale"} THEN "fault" ELSE
               IF result = "refused" THEN "protocol" ELSE result

\* GpuReady: the surface is made here, on the thread that owns the window.
GpuReady(s, c, result) ==
    IF s.init # c.id \/ ~Live(s, c.tab) THEN s
    ELSE IF result = "ok" THEN Send(s, Attach(c.id, c.tab))
    ELSE Fail(s, Why(result))

\* Initialized, the page of an empty profile is committed, a stored one replayed.
Initialized(s, c, result) ==
    LET done == [s EXCEPT !.init = 0]
        ready == [CommitInitial(done) EXCEPT !.ready = TRUE, !.dirty = TRUE]
    IN  IF s.init # c.id THEN s
        ELSE IF ~Live(s, c.tab) THEN done
        ELSE IF result # "ok" THEN Fail(done, Why(result))
        ELSE IF MayReplay(ready) THEN Replay(ready) ELSE RequestRedraw(ready)

\* complete_native_tab_create: the new tab's start page is committed.
ViewCreated(s, c, result) ==
    LET done == [s EXCEPT !.creating = NotCreating]
    IN  IF s.creating.id # c.id THEN s
        ELSE IF ~Live(s, c.tab) THEN done
        ELSE IF result # "ok" THEN Fail(done, Why(result))
        ELSE IF s.loading[c.tab] # s.creating.navigation THEN Fail(done, "protocol")
        ELSE Activate([done EXCEPT !.loading[c.tab] = 0,
                                   !.materialized = @ \cup {c.tab}], c.tab)

\* ViewClosed: the window is shown if the fallback's frame is on it.
ViewClosed(s, c, result) ==
    LET done == [s EXCEPT !.closing = NoTab, !.targets[c.tab] = NoTarget,
                          !.materialized = @ \ {c.tab}]
    IN  IF s.closing # c.tab THEN s
        ELSE IF result # "ok" THEN Fail(s, Why(result))
        ELSE IF Settled(done) THEN Show(done) ELSE done

\* NavigationFinished: a failure of the machinery is fatal before any filter.
NavigationFinished(s, c, result) ==
    IF result \notin {"ok", "unreachable", "stale"} THEN Fail(s, Why(result))
    ELSE IF ~CurrentTarget(s, c.target) THEN ForgetTarget(s, c.target)
    ELSE IF result = "stale" THEN Fail(s, "fault")
    ELSE DirtyRedraw(ForgetTarget([s EXCEPT !.loading[c.target.tab] = 0], c.target))

\* ReloadOrStop in the browser: the active tab's navigation, whichever it is.
StopActive(s) == [s EXCEPT !.loading[s.active] = 0]

\* NavigationCancelFinished: the second phase of a stop.
NavigationCancelled(s, c, result) ==
    LET done == [s EXCEPT !.cancelling = NoTarget]
    IN  IF s.cancelling # c.target THEN s
        ELSE IF result \notin {"ok", "no"} THEN Fail(done, Why(result))
        ELSE IF ~CurrentTarget(s, c.target) THEN done
        ELSE IF result = "no" THEN Fail(done, "protocol")
        ELSE IF s.loading[s.active] # c.target.navigation THEN Fail(done, "otherTab")
        ELSE ForgetTarget(StopActive(done), c.target)

\* Only a switch holds the frame of a tab that is gone.
RetiredSource(s, tab) ==
    s.closing = tab /\ s.handoff.content = Neutral /\ ~s.visible

\* What follows a frame that was drawn, for the current or the target tab.
Presented(s, shown) ==
    CASE s.permit # NoPermit -> DrawTarget(s)
      [] s.permit = NoPermit /\ shown /\ s.closing # NoTab ->
            Send(s, CloseView(s.closing))
      [] OTHER ->
            LET t == IF Settled(s) /\ (shown \/ ~InTransition(s)) THEN Show(s) ELSE s
            IN  IF t.dirty THEN RequestRedraw(t) ELSE t

\* FrameFinished: a target frame settles the handoff unless it comes too late.
FrameFinished(s, c, result) ==
    LET done == [s EXCEPT !.frame = 0]
        permit == c.permit
        late == ForTarget(permit) /\ Stale(s.handoff, permit)
    IN  IF s.frame # c.id THEN s
        ELSE IF ~Live(s, permit.tab)
             THEN IF RetiredSource(s, permit.tab) THEN DrawTarget(done)
                                                  ELSE Fail(done, "protocol")
        ELSE IF result = "lost"
             THEN RecoverSurface([done EXCEPT !.dirty = TRUE], permit)
        ELSE IF result # "ok" THEN Fail(done, Why(result))
        ELSE IF late /\ (s.handoff.content # Neutral \/ s.visible)
             THEN Fail(done, "protocol")
        ELSE IF late \/ ~ForTarget(permit) THEN Presented(done, FALSE)
        ELSE IF ~CanPresent(s.handoff, permit) THEN Fail(done, "protocol")
        ELSE Presented([done EXCEPT !.handoff = PresentTarget(@, permit)], TRUE)

\* SurfaceReplaced: the frame that was lost is drawn again, or the target's.
SurfaceReplaced(s, c, result) ==
    LET done == [s EXCEPT !.surface = 0]
        retried == [done EXCEPT !.dirty = TRUE, !.recovery = NoPermit]
    IN  IF s.surface # c.id THEN s
        ELSE IF ~Live(s, c.tab) THEN done
        ELSE IF result # "ok" THEN Fail(done, Why(result))
        ELSE IF s.permit # NoPermit THEN DrawTarget(retried)
        ELSE IF s.recovery # NoPermit THEN StartFrame(retried, s.recovery)
        ELSE RequestRedraw(retried)

\* ProfileSessionReset: the new session is ready, as after Initialized.
SessionReset(s, c, result) ==
    LET done == [s EXCEPT !.reset = 0]
        ready == [CommitInitial(done) EXCEPT !.ready = TRUE, !.dirty = TRUE]
    IN  IF s.reset # c.id THEN s
        ELSE IF ~Live(s, c.tab) THEN done
        ELSE IF result # "ok" THEN Fail(done, Why(result))
        ELSE IF MayReplay(ready) THEN Replay(ready)
        ELSE IF InTransition(ready) THEN ready ELSE Draw(ready)

Handled(s, c, result) ==
    CASE c.kind = "spawn" -> GpuReady(s, c, result)
      [] c.kind = "attach" -> Initialized(s, c, result)
      [] c.kind = "create" -> ViewCreated(s, c, result)
      [] c.kind = "close" -> ViewClosed(s, c, result)
      [] c.kind = "render" -> FrameFinished(s, c, result)
      [] c.kind = "replace" -> SurfaceReplaced(s, c, result)
      [] c.kind = "navigate" -> NavigationFinished(s, c, result)
      [] c.kind = "cancel" -> NavigationCancelled(s, c, result)
      [] c.kind = "reset" -> SessionReset(s, c, result)

-----------------------------------------------------------------------------
(* Actions.                                                                *)

WorkerStep == Work /\ UNCHANGED <<shell, minimised, inputs>>

HandleEvent ==
    /\ events # <<>>
    /\ events' = Tail(events)
    /\ Become(Handled(shell, Head(events).of, Head(events).result))
    /\ UNCHANGED <<busy, render, screen, losses, minimised, inputs>>

\* A handler of the event loop that no answer of the worker calls.
Callback(s) ==
    /\ ~shell.down
    /\ Become(s)
    /\ UNCHANGED <<busy, events, render, screen, losses>>

Input(s) ==
    /\ inputs < MaxInputs
    /\ inputs' = inputs + 1
    /\ Callback(s)

\* Keys are ignored while the profile is being switched.
Key(s) == Input(IF InTransition(shell) THEN shell ELSE s) /\ UNCHANGED minimised

PressNewTab == shell.nextTab <= MaxTabs /\ Key(NewTab(shell))
PressCloseTab == Key(CloseTab(shell))
PressCycleTab ==
    \E step \in {1, Len(shell.tabs) - 1} : Key(CycleTab(shell, step))
PressReload == Key(ReloadOrStop(shell))
PressEscape == Key(Escape(shell))

\* begin_profile_cycle
PressCycleProfile ==
    shell.session < MaxSessions /\ Key([shell EXCEPT !.seeking = TRUE])

\* CloseRequested
CloseWindow == Input(Shutdown(shell)) /\ UNCHANGED minimised

\* Resized: the window asks to be drawn if nothing is under way.
Resized(s) ==
    IF s.ready /\ s.frame = 0 /\ s.surface = 0 THEN DirtyRedraw(s)
    ELSE [s EXCEPT !.dirty = TRUE]

Resize == Input(Resized(shell)) /\ UNCHANGED minimised

\* The user can do so with a window that is shown.
Minimise ==
    /\ shell.visible
    /\ minimised' = ~minimised
    /\ Input(Resized(shell))

\* RedrawRequested
Redraw ==
    /\ shell.redraw
    /\ Callback(Draw([shell EXCEPT !.redraw = FALSE]))
    /\ UNCHANGED <<minimised, inputs>>

\* No other profile was found.
StaysWithProfile ==
    /\ shell.seeking
    /\ Callback([shell EXCEPT !.seeking = FALSE])
    /\ UNCHANGED <<minimised, inputs>>

\* Mutation of Quiescent: a frame may be under way.
QuiescentButFrame(s) ==
    /\ s.initial = 0 /\ s.creating = NotCreating /\ s.closing = NoTab
    /\ s.cancelling = NoTarget /\ \A t \in Tab : s.targets[t] = NoTarget
    /\ ~Activating(s.handoff) /\ s.permit = NoPermit
    /\ \A t \in Range(s.tabs) : s.loading[t] = 0

\* profile_replacement_browser_quiescent
Quiescent(s) ==
    /\ s.initial = 0 /\ s.creating = NotCreating /\ s.closing = NoTab
    /\ s.cancelling = NoTarget /\ \A t \in Tab : s.targets[t] = NoTarget
    /\ ~Activating(s.handoff) /\ s.permit = NoPermit
    /\ s.frame = 0 /\ s.surface = 0
    /\ \A t \in Range(s.tabs) : s.loading[t] = 0

(* commit_prepared_profile's replacement, with the installation of the     *)
(* stored session and reset_native_session_for_profile_switch.             *)
Replaced(s, stored) ==
    LET id == NextRequest(s)
        t == [Hide(Install(s, stored)) EXCEPT
                 !.session = @ + 1, !.seeking = FALSE, !.unlocking = TRUE,
                 !.permit = NoPermit, !.recovery = NoPermit,
                 !.creating = NotCreating, !.closing = NoTab,
                 !.targets = [tab \in Tab |-> NoTarget],
                 !.cancelling = NoTarget, !.frame = 0, !.surface = 0,
                 !.reset = id, !.ready = FALSE, !.dirty = TRUE]
    IN  Send(t, Reset(id, t.tab, t.handoff.generation))

ReplaceProfile ==
    /\ shell.seeking
    /\ Quiescent(shell)
    /\ \E stored \in Stored : Callback(Replaced(shell, stored))
    /\ UNCHANGED <<minimised, inputs>>

\* LockReleased, of the profile that was replaced.
Unlocked(s) ==
    LET done == [s EXCEPT !.unlocking = FALSE]
    IN  IF MayReplay(done) THEN Replay(done)
        ELSE IF done.dirty /\ ~InTransition(done) THEN Draw(done) ELSE done

LockReleased ==
    /\ shell.unlocking
    /\ Callback(Unlocked(shell))
    /\ UNCHANGED <<minimised, inputs>>

Next ==
    \/ WorkerStep
    \/ HandleEvent
    \/ PressNewTab \/ PressCloseTab \/ PressCycleTab \/ PressReload
    \/ PressEscape \/ PressCycleProfile
    \/ CloseWindow \/ Resize \/ Minimise \/ Redraw
    \/ StaysWithProfile \/ ReplaceProfile \/ LockReleased

Spec == Init /\ [][Next]_vars

(* The threads run, winit delivers events and redraws, a fetch ends (the   *)
(* transport has timeouts), and so does the profile side of a switch.      *)
Fairness ==
    /\ WF_vars(WorkerStep)
    /\ WF_vars(HandleEvent)
    /\ WF_vars(Redraw)
    /\ \A t \in Tab : SF_vars(NavigationEnds(t) /\ UNCHANGED <<shell, minimised, inputs>>)
    /\ WF_vars(LockReleased)
    /\ WF_vars(ReplaceProfile \/ StaysWithProfile)

\* A hidden window has no focus: the user acts on one that is shown.
UserSeesWindow == inputs' # inputs => shell.visible

LiveSpec == Init /\ [][Next /\ UserSeesWindow]_vars /\ Fairness

-----------------------------------------------------------------------------
(* Properties.                                                             *)

Fatal == {"none", "full", "fault", "protocol", "cancelled", "unowned",
          "otherTab", "surfaceless"}

\* Every variable has its type, the handoff and the worker's fields included.
TypeOK ==
    /\ shell.handoff \in Handoff
    /\ shell.permit \in Permit \cup {NoPermit}
    /\ shell.recovery \in Permit \cup {NoPermit}
    /\ shell.active \in Tab \cup {NoTab}
    /\ Range(shell.tabs) \subseteq Tab
    /\ shell.materialized \subseteq Tab
    /\ shell.targets \in [Tab -> Target \cup {NoTarget}]
    /\ shell.cancelling \in Target \cup {NoTarget}
    /\ shell.loading \in [Tab -> Nat]
    /\ shell.fatal \in Fatal
    /\ shell.down = cancelled
    /\ shell.out = <<>>
    /\ Len(queue) <= 1 /\ Len(busy) <= 1
    /\ render.views \subseteq Tab
    /\ render.pending \in [Tab -> Target \cup {NoTarget}]
    /\ losses \in 0 .. MaxLosses

ActivePage == [session |-> shell.session, tab |-> shell.active]

(* None of the errors with which the shell and the worker check each       *)
(* other's view of the handoff ever happens: no stale permit reaches the   *)
(* worker, no frame comes back for a closed tab outside its switch, no     *)
(* view is missing or made twice, no navigation is lost to a stop.         *)
NoProtocolFault == shell.fatal # "protocol"

Waiting == {shell.init, shell.frame, shell.surface, shell.reset,
            shell.creating.id} \ {0}
InFlight(kind) == {c \in Commands : c.kind = kind}

(* A request the shell waits for is in the worker's hands exactly once,    *)
(* and the worker has none the shell has forgotten, so that a completion   *)
(* is never taken for another's and none is awaited in vain.  Likewise the *)
(* retirement of a view follows the switch that needs it: it is asked for  *)
(* once the target's frame is drawn, which is then what is under way.  Not *)
(* so for a profile switched before the worker has its surface: the reset  *)
(* then fails, or meets the attachment in the queue of one.                *)
RequestsAccounted ==
    ~shell.down /\ (shell.init = 0 \/ shell.session = 1) =>
        /\ {c.id : c \in Commands} \ {0} = Waiting
        /\ Cardinality({c \in Commands : c.id # 0}) = Cardinality(Waiting)
        /\ InFlight("cancel") =
              IF shell.cancelling = NoTarget THEN {} ELSE {Cancel(shell.cancelling)}
        /\ InFlight("close") \subseteq {CloseView(shell.closing)}
        /\ shell.closing # NoTab =>
              \/ InFlight("close") # {}
              \/ Activating(shell.handoff)

(* Tabs, activations and navigations are numbered anew in every session.   *)
(* So until the worker has reset its engine nothing of the old session may *)
(* be in its hands, and afterwards it is in step with the shell.           *)
NothingCrossesSwitch ==
    ~shell.down =>
        \/ /\ render.session = shell.session
           /\ \A c \in InFlight("navigate") \cup InFlight("cancel") :
                 c.target.profile = shell.session
           /\ \A t \in Tab : render.pending[t].profile \in {0, shell.session}
        \/ /\ render.session + 1 = shell.session
           /\ InFlight("reset") = {c \in Commands : c.kind # "spawn" /\ c.kind # "attach"}
           /\ Cardinality(InFlight("reset")) = 1

AnswersFor(target) ==
    {i \in DOMAIN events :
        /\ events[i].of.kind \in {"navigate", "cancel"}
        /\ events[i].of.target = target
        /\ events[i].of.kind = "cancel" => events[i].result # "no"}

(* A tab that is loading hears of its end: its page is the one its view is *)
(* created with, or its navigation is known to the worker, on its way      *)
(* there, or already answered, by an end or by a stop, and only once.      *)
LoadingIsOwned ==
    \A t \in Range(shell.tabs) :
        LET target == shell.targets[t]
            asked == {c \in Range(queue) \cup Range(busy) :
                         c.kind = "navigate" /\ c.target = target}
            known == {u \in Tab : render.pending[u] = target}
        IN  shell.loading[t] # 0 =>
                \/ shell.initial = shell.loading[t]
                \/ shell.creating.navigation = shell.loading[t]
                \/ /\ target.navigation = shell.loading[t]
                   /\ Cardinality(asked) + Cardinality(known)
                        + Cardinality(AnswersFor(target)) = 1

(* Shell and worker agree on the work under way: on the requests the shell *)
(* waits for, and on the navigations it shows as loading.                  *)
RequestsInFlight == TypeOK /\ RequestsAccounted /\ LoadingIsOwned

Page == [session : 1 .. MaxSessions, tab : Tab \cup {NoTab}]

(* The shell implements the specification of what is shown.                *)
Shown ==
    INSTANCE ShownTab WITH
        Nothing <- NoPage,
        chrome <- ActivePage,
        shown <- IF shell.visible THEN screen ELSE NoPage
ImplementsShownTab == Shown!Spec

(* A window hidden for a switch of tabs or profiles is shown again, if it  *)
(* has an area to draw on.                                                 *)
HiddenEnds == ~shell.visible ~> (shell.visible \/ shell.down \/ minimised)

StopEnds == (shell.cancelling # NoTarget) ~> (shell.cancelling = NoTarget)
ClosingEnds == (shell.closing # NoTab) ~> (shell.closing = NoTab \/ minimised)
LoadingEnds == \A t \in Tab : (shell.loading[t] # 0) ~> (shell.loading[t] = 0)

(* What the shell asked of the worker comes to its end: a hidden window is *)
(* shown again, a stop and the retirement of a closed tab's view end, as   *)
(* long as the window has an area to draw on, and no tab loads for ever.   *)
WorkEnds == HiddenEnds /\ StopEnds /\ ClosingEnds /\ LoadingEnds

-----------------------------------------------------------------------------
(* What the documentation says of a stop, and the code does not do.        *)

(* When the worker acknowledges a stop of the current navigation of a tab, *)
(* that navigation's pending intent is removed, and nothing else happens.  *)
StopRemovesItsNavigation ==
    [][ LET e == Head(events)
        IN  (/\ events # <<>> /\ events' = Tail(events)
             /\ e.of.kind = "cancel" /\ e.result = "ok"
             /\ shell.cancelling = e.of.target
             /\ CurrentTarget(shell, e.of.target))
            => shell' = [shell EXCEPT !.cancelling = NoTarget,
                                      !.loading[e.of.target.tab] = 0,
                                      !.targets[e.of.target.tab] = NoTarget]
      ]_vars
=============================================================================
