---------------------------- MODULE RenderWorker ----------------------------
(***************************************************************************)
(* The render worker (platform/windows.rs): the thread that owns the       *)
(* engine's views and the surface of the window.  It is fed through a      *)
(* queue of one command by try_send and answers through the event loop's   *)
(* proxy, in order.  An answer carries the command it answers.  Between    *)
(* two commands it polls the navigations the engine has under way.         *)
(*                                                                         *)
(* A page is the pair of a profile session and a tab in it: tabs are       *)
(* numbered from 1 again in every session.  There is one window.           *)
(***************************************************************************)
EXTENDS PresentationHandoff, Sequences

CONSTANTS
    MaxLosses,      \* bound: surface losses
    Faulty          \* whether the engine and the GPU may fail

ASSUME WorkerConstants == MaxLosses \in Nat /\ Faulty \in BOOLEAN

VARIABLES
    queue,          \* commands sent and not received, at most one
    busy,           \* the command being executed, as a sequence of at most one
    events,         \* answers the event loop has not handled
    render,         \* the fields of RenderWorker, and whether the thread runs
    screen,         \* the page whose pixels the surface shows
    losses,         \* surface losses since a frame was presented
    cancelled       \* the cancellation token

renderWorker == <<queue, busy, events, render, screen, losses, cancelled>>

\* Who asked for a navigation: WorkerNavigationTarget.
Target == [tab : Tab, navigation : Nat \ {0}, profile : Nat \ {0}]
NoTarget == [tab |-> NoTab, navigation |-> 0, profile |-> 0]

NoPage == [session |-> 0, tab |-> NoTab]

(* Commands.  id is the request the command carries, 0 if none.            *)
Spawn(id, tab, generation) ==
    [kind |-> "spawn", id |-> id, tab |-> tab, generation |-> generation]
Attach(id, tab) == [kind |-> "attach", id |-> id, tab |-> tab]
CreateView(id, tab) == [kind |-> "create", id |-> id, tab |-> tab]
CloseView(tab) == [kind |-> "close", id |-> 0, tab |-> tab]
Render(id, permit) == [kind |-> "render", id |-> id, permit |-> permit]
ReplaceSurface(id, tab) == [kind |-> "replace", id |-> id, tab |-> tab]
Navigate(target, local) ==
    [kind |-> "navigate", id |-> 0, target |-> target, local |-> local]
Cancel(target) == [kind |-> "cancel", id |-> 0, target |-> target]
Reset(id, tab, generation) ==
    [kind |-> "reset", id |-> id, tab |-> tab, generation |-> generation]

\* sync_channel(1).
QueueFull == queue # <<>>

WorkerInit(id, tab, generation) ==
    /\ queue = <<>>
    /\ busy = <<Spawn(id, tab, generation)>>
    /\ events = <<>>
    /\ render = [runs |-> TRUE, session |-> 1, tab |-> tab,
                 generation |-> generation, attached |-> FALSE, views |-> {},
                 pending |-> [t \in Tab |-> NoTarget]]
    /\ screen = NoPage
    /\ losses = 0
    /\ cancelled = FALSE

-----------------------------------------------------------------------------
Executing(kind) == render.runs /\ busy # <<>> /\ busy[1].kind = kind

Answer(result) ==
    /\ busy' = <<>>
    /\ events' = Append(events, [of |-> busy[1], result |-> result])
    /\ UNCHANGED <<queue, cancelled>>

\* Ok, or an error of the engine, the host or the GPU.
Outcome == IF Faulty THEN {"ok", "failed"} ELSE {"ok"}

\* An error this program's own state causes.
Refuse ==
    /\ Answer("refused")
    /\ UNCHANGED <<render, screen, losses>>

Start ==
    /\ Executing("spawn")
    /\ \E result \in Outcome :
          /\ Answer(result)
          /\ render' = [render EXCEPT !.runs = result = "ok",
                                      !.views = {render.tab}]
    /\ UNCHANGED <<screen, losses>>

Receive ==
    /\ render.runs
    /\ busy = <<>>
    /\ queue # <<>>
    /\ ~cancelled
    /\ busy' = <<Head(queue)>>
    /\ queue' = Tail(queue)
    /\ UNCHANGED <<events, render, screen, losses, cancelled>>

\* The token is seen before a command, or by ensure_active in one.
Leave ==
    /\ cancelled
    /\ render.runs
    /\ render' = [render EXCEPT !.runs = FALSE]
    /\ busy' = <<>>
    /\ queue' = <<>>
    /\ \/ events' = events
       \/ /\ busy # <<>>
          /\ events' = Append(events, [of |-> busy[1], result |-> "cancelled"])
    /\ UNCHANGED <<screen, losses, cancelled>>

AttachSurface ==
    /\ Executing("attach")
    /\ IF busy[1].tab # render.tab \/ render.attached \/ render.session # 1
          THEN Refuse
          ELSE /\ Answer("ok")
               /\ render' = [render EXCEPT !.attached = TRUE]
               /\ UNCHANGED <<screen, losses>>

OpenView ==
    /\ Executing("create")
    /\ IF busy[1].tab \in render.views
          THEN Refuse
          ELSE \E result \in Outcome :
                  /\ Answer(result)
                  /\ render' = IF result = "ok"
                                  THEN [render EXCEPT !.views = @ \cup {busy[1].tab}]
                                  ELSE render
                  /\ UNCHANGED <<screen, losses>>

\* Retiring a view ends its navigation.
RetireView ==
    /\ Executing("close")
    /\ IF busy[1].tab = render.tab \/ busy[1].tab \notin render.views
          THEN Refuse
          ELSE \E result \in Outcome :
                  /\ Answer(result)
                  /\ render' = [render EXCEPT !.views = @ \ {busy[1].tab},
                                              !.pending[busy[1].tab] = NoTarget]
                  /\ UNCHANGED <<screen, losses>>

\* prepare_presentation's checks.
Acceptable(permit) ==
    IF ForTarget(permit) /\ permit.generation # render.generation
       THEN permit.generation > render.generation /\ permit.tab \in render.views
       ELSE permit.generation = render.generation /\ permit.tab = render.tab

\* The view is switched before the frame is drawn, and stays switched if that fails.
DrawFrame ==
    /\ Executing("render")
    /\ LET permit == busy[1].permit
           results == {"ok"} \cup (IF losses < MaxLosses THEN {"lost"} ELSE {})
                             \cup Outcome
       IN  IF ~Acceptable(permit)
              THEN Refuse
              ELSE \E result \in results :
                      /\ Answer(result)
                      /\ render' = [render EXCEPT !.tab = permit.tab,
                                                  !.generation = permit.generation]
                      /\ screen' = IF result = "ok"
                                      THEN [session |-> render.session,
                                            tab |-> permit.tab]
                                      ELSE screen
                      /\ losses' = CASE result = "ok" -> 0
                                     [] result = "lost" -> losses + 1
                                     [] OTHER -> losses

\* The pixels stay where they are until the next frame.
ChangeSurface ==
    /\ Executing("replace")
    /\ IF busy[1].tab # render.tab
          THEN Refuse
          ELSE /\ \E result \in Outcome : Answer(result)
               /\ UNCHANGED <<render, screen, losses>>

\* The start page is loaded at once.
LoadLocal ==
    /\ Executing("navigate")
    /\ busy[1].local
    /\ LET tab == busy[1].target.tab
       IN  IF tab \notin render.views \/ render.pending[tab] # NoTarget
              THEN Refuse
              ELSE /\ \E result \in Outcome : Answer(result)
                   /\ UNCHANGED <<render, screen, losses>>

\* A newer navigation of the tab supersedes the pending one without an answer.
BeginNavigation ==
    /\ Executing("navigate")
    /\ ~busy[1].local
    /\ LET target == busy[1].target
       IN  IF target.tab \notin render.views
              THEN Refuse
              ELSE \/ /\ busy' = <<>>
                      /\ render' = [render EXCEPT !.pending[target.tab] = target]
                      /\ UNCHANGED <<queue, events, screen, losses, cancelled>>
                   \/ /\ Faulty
                      /\ Answer("failed")
                      /\ render' = [render EXCEPT !.pending[target.tab] = NoTarget]
                      /\ UNCHANGED <<screen, losses>>

CancelNavigation ==
    /\ Executing("cancel")
    /\ LET target == busy[1].target
       IN  IF render.pending[target.tab] # target
              THEN Answer("no") /\ UNCHANGED render
              ELSE /\ \E result \in Outcome : Answer(result)
                   /\ render' = [render EXCEPT !.pending[target.tab] = NoTarget]
    /\ UNCHANGED <<screen, losses>>

\* A new engine with one view; GPU and surface are kept, and must be there.
ResetSession ==
    /\ Executing("reset")
    /\ IF \E t \in Tab : render.pending[t] # NoTarget
          THEN Refuse
          ELSE \/ /\ Answer(IF render.attached THEN "ok" ELSE "surfaceless")
                  /\ render' = [render EXCEPT !.session = @ + 1,
                                              !.tab = busy[1].tab,
                                              !.generation = busy[1].generation,
                                              !.views = {busy[1].tab}]
                  /\ UNCHANGED <<screen, losses>>
               \/ /\ Faulty
                  /\ Answer("failed")
                  /\ UNCHANGED <<render, screen, losses>>

\* poll_navigations, for one tab: the fetch has ended, one way or another.
NavigationEnds(tab) ==
    /\ render.runs
    /\ busy = <<>>
    /\ render.pending[tab] # NoTarget
    /\ \E result \in {"ok", "unreachable"} \cup Outcome
                     \cup (IF Faulty THEN {"stale"} ELSE {}) :
          events' = Append(events, [of |-> Navigate(render.pending[tab], FALSE),
                                    result |-> result])
    /\ render' = [render EXCEPT !.pending[tab] = NoTarget]
    /\ UNCHANGED <<queue, busy, screen, losses, cancelled>>

Execute ==
    \/ AttachSurface \/ OpenView \/ RetireView \/ DrawFrame \/ ChangeSurface
    \/ LoadLocal \/ BeginNavigation \/ CancelNavigation \/ ResetSession

Work == Start \/ Receive \/ Leave \/ Execute \/ \E t \in Tab : NavigationEnds(t)
=============================================================================
