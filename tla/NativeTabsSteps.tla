-------------------------- MODULE NativeTabsSteps ---------------------------
(***************************************************************************)
(* What the native shell and its render worker agree on, as an invariant   *)
(* of a state of the shell, of the commands in the worker's hands and of   *)
(* the worker, and what each kind of change keeps of it: a reply that is   *)
(* taken, a command that is sent, a request that is asked for, a passage   *)
(* to another tab, a session that is installed, a command that the worker  *)
(* executes.  No variable of the specification occurs here: the lemmas are *)
(* about any values of those parts, and NativeTabsProofs puts the          *)
(* handlers of the shell and the steps of the worker together from them.   *)
(***************************************************************************)
EXTENDS NativeTabs, FiniteSetTheorems, SequenceTheorems, TLAPS

-----------------------------------------------------------------------------
(* Types.                                                                  *)

Starting == {"spawn", "attach"}
Working == {"create", "render", "replace", "reset"}
Kinds == Starting \cup Working \cup {"close", "navigate", "cancel"}

Command ==
    [kind : {"spawn", "reset"}, id : Nat \ {0}, tab : Tab, generation : Nat]
    \cup [kind : {"attach", "create", "replace"}, id : Nat \ {0}, tab : Tab]
    \cup [kind : {"close"}, id : {0}, tab : Tab]
    \cup [kind : {"render"}, id : Nat \ {0}, permit : Permit]
    \cup [kind : {"navigate"}, id : {0}, target : Target, local : BOOLEAN]
    \cup [kind : {"cancel"}, id : {0}, target : Target]

Result == {"ok", "failed", "refused", "lost", "no", "unreachable", "stale",
           "cancelled", "surfaceless"}

\* The answers a command of the given kind may have.
Results(kind) ==
    {w \in Result : /\ w = "lost" => kind = "render"
                    /\ w = "no" => kind = "cancel"
                    /\ w \in {"unreachable", "stale"} => kind = "navigate"
                    /\ w = "surfaceless" => kind = "reset"}
Reply == {e \in [of : Command, result : Result] : e.result \in Results(e.of.kind)}

\* The worker is started once, before there is a shell.
Asked == {c \in Command : c.kind # "spawn"}

Requested == [id : Nat, tab : Tab \cup {NoTab}, navigation : Nat]

Shell ==
    [tabs : Seq(Tab), active : Tab \cup {NoTab}, tab : Tab, nextTab : 1 .. MaxTabs + 1,
     nextActivation : Nat \ {0}, nextNavigation : Nat \ {0},
     loading : [Tab -> Nat], remote : [Tab -> BOOLEAN], initial : Nat,
     restoring : BOOLEAN, handoff : Handoff, materialized : SUBSET Tab,
     down : BOOLEAN, fatal : Fatal \ {"protocol"}, session : 1 .. MaxSessions,
     ready : BOOLEAN, init : Nat, frame : Nat, surface : Nat, reset : Nat,
     creating : Requested, closing : Tab \cup {NoTab},
     cancelling : Target \cup {NoTarget}, targets : [Tab -> Target \cup {NoTarget}],
     permit : Permit \cup {NoPermit}, recovery : Permit \cup {NoPermit},
     visible : BOOLEAN, dirty : BOOLEAN, redraw : BOOLEAN, seeking : BOOLEAN,
     unlocking : BOOLEAN, out : {<<>>} \cup {<<c>> : c \in Asked}]

Fields ==
    {"tabs", "active", "tab", "nextTab", "nextActivation", "nextNavigation",
     "loading", "remote", "initial", "restoring", "handoff", "materialized",
     "down", "fatal", "session", "ready", "init", "frame", "surface", "reset",
     "creating", "closing", "cancelling", "targets", "permit", "recovery",
     "visible", "dirty", "redraw", "seeking", "unlocking", "out"}

\* The states s and t of the shell differ in the given fields only.
Differ(s, t, changed) == \A f \in Fields \ changed : t[f] = s[f]

Worker ==
    [runs : BOOLEAN, session : Nat, tab : Tab, generation : Nat,
     attached : BOOLEAN, views : SUBSET Tab, pending : [Tab -> Target \cup {NoTarget}]]

-----------------------------------------------------------------------------
(* The invariant, of a state s of the shell, of the pipe p of commands in  *)
(* the worker's hands, in the order in which they are answered, of the     *)
(* replies e to the first of them, of the worker r and of the screen x.    *)

Gen(s) == s.handoff.generation
Switching(s) == Activating(s.handoff)
Seen(s) == [session |-> s.session, tab |-> s.active]

Pipes(p, e) ==
    /\ Len(p) \in Nat /\ Len(e) \in Nat /\ Len(e) <= Len(p)
    /\ \A i \in 1 .. Len(p) : p[i] \in Command
    /\ \A i \in 1 .. Len(e) : e[i].of = p[i] /\ e[i].result \in Results(p[i].kind)

Has(p, kind) == \E i \in 1 .. Len(p) : p[i].kind = kind

\* The tab strip, and the views the shell believes in.
Strip(s) ==
    /\ \A i, j \in 1 .. Len(s.tabs) : s.tabs[i] = s.tabs[j] => i = j
    /\ Range(s.tabs) \cup s.materialized \subseteq 1 .. s.nextTab - 1
    /\ s.active = s.tab
    /\ s.active \in Range(s.tabs) \cap s.materialized
    /\ s.materialized \subseteq Range(s.tabs) \cup {s.closing}
    /\ s.closing # NoTab => s.closing \in s.materialized \ Range(s.tabs)
    /\ s.creating # NotCreating => s.creating.tab \in Range(s.tabs) \ s.materialized
    /\ ~s.ready \/ s.reset # 0 => s.materialized = {s.tab}

\* The handoff, and the permit that waits.
Chrome(s) ==
    /\ s.handoff.represented = s.active
    /\ s.handoff.content = IF Switching(s) THEN Neutral ELSE s.active
    /\ Switching(s) =>
          /\ s.handoff.pending.to = s.active
          /\ s.handoff.pending.id \in 1 .. s.nextActivation - 1
          /\ ~s.visible
    /\ s.permit # NoPermit =>
          /\ Switching(s)
          /\ s.permit = TargetPermit(s.handoff, s.handoff.pending.id, s.active)

\* Which requests may be under way together.
Exclusive(s) ==
    /\ \/ s.frame # 0 \/ s.surface # 0 \/ s.creating # NotCreating
       \/ s.closing # NoTab \/ Switching(s)
       => s.ready /\ s.reset = 0
    /\ s.frame # 0 => s.surface = 0 /\ s.creating = NotCreating
    /\ s.surface # 0 => s.creating = NotCreating
    /\ s.creating # NotCreating => ~Switching(s) /\ s.creating.id # 0
    /\ s.surface # 0 <=> s.recovery # NoPermit
    /\ s.init # 0 => ~s.ready
    /\ s.seeking => s.reset = 0 /\ ~s.unlocking /\ s.session < MaxSessions
    /\ s.visible => s.reset = 0
    /\ s.reset # 0 => s.session > 1

\* Command c is one the shell waits for.
Awaited(s, c) ==
    /\ c.kind \in Starting => c.id = s.init
    /\ c.kind = "create" => c.id = s.creating.id /\ c.tab = s.creating.tab
    /\ c.kind = "render" => c.id = s.frame
    /\ c.kind = "replace" => c.id = s.surface /\ c.tab = s.recovery.tab
    /\ c.kind = "reset" => c.id = s.reset /\ c.tab = s.tab /\ c.generation = Gen(s)
    /\ c.kind = "close" => c.tab = s.closing
    /\ c.kind = "cancel" => c.target = s.cancelling

\* A pipe has one command of each of these classes.
Alike(c, b) ==
    \/ c.kind \in Starting /\ b.kind \in Starting
    \/ c.kind \in Working /\ b.kind \in Working
    \/ c.kind = "close" /\ b.kind = "close"
    \/ c.kind = "cancel" /\ b.kind = "cancel"

Matched(s, p) ==
    /\ \A i \in 1 .. Len(p) : Awaited(s, p[i])
    /\ \A i, j \in 1 .. Len(p) : Alike(p[i], p[j]) => i = j
    /\ s.init # 0 /\ s.reset = 0 => Has(p, "spawn") \/ Has(p, "attach")
    /\ s.frame # 0 => Has(p, "render")
    /\ s.surface # 0 => Has(p, "replace")
    /\ s.creating # NotCreating => Has(p, "create")
    /\ s.reset # 0 => Has(p, "reset")
    /\ s.cancelling # NoTarget => Has(p, "cancel")
    /\ s.closing # NoTab /\ ~Switching(s) => Has(p, "close")

\* A reset has no other company than the start of the worker.
Alone(s, p, r) ==
    s.reset # 0 =>
        /\ \A i \in 1 .. Len(p) : p[i].kind \in Starting \cup {"reset"}
        /\ \A t \in Tab : r.pending[t] = NoTarget /\ s.targets[t] = NoTarget
        /\ s.cancelling = NoTarget

\* A reset that made a new session, with a surface or without.
Renewed(e, i) == i <= Len(e) /\ e[i].result \in {"ok", "surfaceless"}

\* The worker is as the command c to start it left it.
AsStarted(r, c) == r.session = 1 /\ r.tab = c.tab

After(p, kind, i) == \E j \in 1 .. Len(p) : p[j].kind = kind /\ j < i

\* The start of the worker, and the session it is in.
InSession(s, p, e, r) ==
    /\ s.init # 0 /\ ~Has(p, "spawn") /\ ~Has(p, "attach") => ~r.attached
    /\ s.reset = 0 => r.session = s.session
    /\ \A i \in 1 .. Len(p) :
          /\ p[i].kind = "spawn" =>
                /\ ~r.attached
                /\ i <= Len(e) + 1
                /\ Has(p, "reset") \/ AsStarted(r, p[i])
                /\ i <= Len(e) => e[i].result # "refused"
          /\ p[i].kind = "attach" =>
                /\ i > Len(e) => ~r.attached
                /\ i > Len(e) => After(p, "reset", i) \/ AsStarted(r, p[i])
                /\ i <= Len(e) /\ e[i].result = "refused" => After(p, "reset", i)
          /\ p[i].kind = "reset" =>
                /\ i <= Len(e) => e[i].result # "refused"
                /\ i <= Len(e) /\ e[i].result = "ok" =>
                      /\ r.attached
                      /\ \A j \in 1 .. Len(p) : p[j].kind \in Starting => j < i
                /\ ~Renewed(e, i) => r.session + 1 = s.session
                /\ Renewed(e, i) =>
                      /\ r.session = s.session
                      /\ r.tab = s.tab /\ r.generation = Gen(s)
                      /\ r.views = {s.tab}

\* A permit under way fits the handoff.
Fits(s, permit) ==
    /\ permit.generation <= Gen(s)
    /\ permit.tab \in s.materialized
    /\ permit.tab \notin Range(s.tabs) => Switching(s) /\ ~ForTarget(permit)
    /\ permit.generation = Gen(s) =>
          /\ permit.tab = s.active
          /\ s.permit = NoPermit
          /\ permit.activation = IF Switching(s) THEN s.handoff.pending.id ELSE 0
    /\ permit.generation # Gen(s) => Switching(s) /\ s.permit # NoPermit

\* The frame under way, and the view that is presented.
Frames(s, p, e, r, x) ==
    /\ \A i \in 1 .. Len(p) : p[i].kind = "render" =>
          /\ Fits(s, p[i].permit)
          /\ i <= Len(e) =>
                /\ e[i].result # "refused"
                /\ r.generation = p[i].permit.generation /\ r.tab = p[i].permit.tab
                /\ e[i].result = "ok" =>
                      x = [session |-> s.session, tab |-> p[i].permit.tab]
          /\ i > Len(e) =>
                /\ p[i].permit.generation = r.generation => p[i].permit.tab = r.tab
                /\ p[i].permit.generation # r.generation =>
                      ForTarget(p[i].permit) /\ p[i].permit.generation > r.generation
    /\ s.surface # 0 =>
          /\ Fits(s, s.recovery)
          /\ s.recovery.tab \in Range(s.tabs)
          /\ r.generation = s.recovery.generation /\ r.tab = s.recovery.tab
    /\ s.reset = 0 /\ ~Switching(s) => r.generation = Gen(s) /\ r.tab = s.active
    /\ Switching(s) => /\ r.generation <= Gen(s)
                       /\ r.generation = Gen(s) => r.tab = s.active

\* A switch has its frame still to come.
Drawn(s, p) ==
    Switching(s) /\ s.permit = NoPermit =>
        \/ \E i \in 1 .. Len(p) : p[i].kind = "render" /\ p[i].permit.generation = Gen(s)
        \/ s.surface # 0 /\ s.recovery.generation = Gen(s)

\* A view is retired when the worker has left it, ahead of the next switch.
Retiring(s, p, r) ==
    \A i \in 1 .. Len(p) : p[i].kind = "close" =>
        /\ r.tab # s.closing
        /\ \A j \in 1 .. Len(p) : p[j].kind = "render" =>
              /\ p[j].permit.tab \in Range(s.tabs)
              /\ Switching(s) /\ p[j].permit.generation = Gen(s) => i < j
        /\ ~(s.surface # 0 /\ Switching(s) /\ s.recovery.generation = Gen(s))

\* What the surface shows.
Painted(s, x) ==
    /\ s.visible => x \in {NoPage, Seen(s)}
    /\ s.closing # NoTab /\ ~Switching(s) => x = Seen(s)

\* The views there are.
Views(s, p, e, r) ==
    /\ \A i \in 1 .. Len(e) :
          p[i].kind \in {"create", "close", "replace"} => e[i].result # "refused"
    /\ s.reset = 0 /\ ~(\E i \in 1 .. Len(p) : p[i].kind = "spawn" /\ i > Len(e)) =>
          \A t \in Tab : t \in r.views <=>
              \/ /\ t \in s.materialized
                 /\ ~\E i \in 1 .. Len(e) : p[i].kind = "close" /\ p[i].tab = t
              \/ \E i \in 1 .. Len(e) :
                    p[i].kind = "create" /\ p[i].tab = t /\ e[i].result = "ok"

\* Local pages are loaded at once and remote ones are fetched.
Local(s, p, r) ==
    /\ \A i \in 1 .. Len(p) :
          p[i].kind = "navigate" => p[i].local = ~s.remote[p[i].target.tab]
    /\ \A t \in Tab : r.pending[t] # NoTarget => s.remote[t] /\ r.pending[t].tab = t

NavigatesTab(c, t) == c.kind = "navigate" /\ c.target.tab = t

(* The navigations of a tab follow each other, the pending one behind      *)
(* those answered and before those to come; a stop follows what it stops,  *)
(* and the retirement of a view all that was asked of it.                  *)
Ordered(p, e, r) ==
    /\ \A i, j \in 1 .. Len(p) :
          p[i].kind = "navigate" /\ NavigatesTab(p[j], p[i].target.tab) /\ i < j
          => p[i].target.navigation < p[j].target.navigation
    /\ \A i \in 1 .. Len(p), t \in Tab :
          NavigatesTab(p[i], t) /\ r.pending[t] # NoTarget =>
          IF i <= Len(e) THEN p[i].target.navigation < r.pending[t].navigation
                         ELSE p[i].target.navigation > r.pending[t].navigation
    /\ \A i, j \in 1 .. Len(p) :
          p[j].kind = "close" /\ NavigatesTab(p[i], p[j].tab) => i < j
    /\ \A i, j \in 1 .. Len(p) :
          p[i].kind = "navigate" /\ p[j].kind = "cancel" /\ p[i].target = p[j].target
          => i < j
    /\ \A i \in 1 .. Len(e) : p[i].kind = "navigate" => e[i].result # "refused"
    /\ \A t \in Tab : r.pending[t] # NoTarget =>
          \A i \in 1 .. Len(e) : ~(p[i].kind = "close" /\ p[i].tab = t)

\* What is left of a navigation whose stop is answered.
Stopped(p, e, r) ==
    \A i \in 1 .. Len(e) : p[i].kind = "cancel" =>
        /\ e[i].result # "refused"
        /\ r.pending[p[i].target.tab] # p[i].target
        /\ e[i].result # "no" =>
              /\ r.pending[p[i].target.tab] # NoTarget =>
                    r.pending[p[i].target.tab].navigation > p[i].target.navigation
              /\ \A j \in 1 .. Len(p) : NavigatesTab(p[j], p[i].target.tab) =>
                    /\ j < i => p[j].target # p[i].target
                    /\ j > i => p[j].target.navigation > p[i].target.navigation

Own(s, target) ==
    /\ target.profile = s.session
    /\ target.navigation < s.nextNavigation

\* Whose the navigations are.
Owned(s, p, r) ==
    /\ \A i \in 1 .. Len(p) : p[i].kind = "navigate" =>
          Own(s, p[i].target) /\ p[i].target.tab \in s.materialized
    /\ s.cancelling # NoTarget => Own(s, s.cancelling)
    /\ \A t \in Tab :
          /\ r.pending[t] # NoTarget => Own(s, r.pending[t]) /\ t \in s.materialized
          /\ s.targets[t] # NoTarget =>
                Own(s, s.targets[t]) /\ s.targets[t].tab = t /\ t \in s.materialized

\* What the shell shows as loading.
Loading(s) ==
    /\ \A t \in Range(s.tabs) :
          /\ s.loading[t] < s.nextNavigation
          /\ s.targets[t] # NoTarget => s.loading[t] = s.targets[t].navigation
          /\ s.loading[t] # 0 =>
                \/ s.initial # 0 /\ t = s.tab
                \/ s.creating # NotCreating /\ t = s.creating.tab
                \/ s.targets[t] # NoTarget
          /\ \A u \in Range(s.tabs) : s.loading[t] = s.loading[u] /\ t # u => s.loading[t] = 0
    /\ s.initial # 0 =>
          /\ ~s.ready /\ ~s.restoring
          /\ s.loading[s.tab] = s.initial /\ s.targets[s.tab] = NoTarget
    /\ s.creating # NotCreating =>
          /\ s.loading[s.creating.tab] = s.creating.navigation
          /\ s.creating.navigation # 0
          /\ s.targets[s.creating.tab] = NoTarget

\* The end of a navigation is under way.
Carried(p, e, r, target) ==
    \/ \E i \in 1 .. Len(p) : p[i].kind = "navigate" /\ p[i].target = target
    \/ r.pending[target.tab] = target
    \/ \E i \in 1 .. Len(e) :
          p[i].kind = "cancel" /\ p[i].target = target /\ e[i].result # "no"

\* Every tab that is loading hears of its end.
Answered(s, p, e, r) ==
    \A t \in Range(s.tabs) :
        /\ s.targets[t] = NoTarget =>
              /\ r.pending[t] = NoTarget
              /\ \A i \in 1 .. Len(p) : ~NavigatesTab(p[i], t)
        /\ s.targets[t] # NoTarget =>
              /\ r.pending[t].navigation <= s.targets[t].navigation
              /\ \A i \in 1 .. Len(p) : NavigatesTab(p[i], t) =>
                    p[i].target.navigation <= s.targets[t].navigation
              /\ Carried(p, e, r, s.targets[t])

SoundShell(s) ==
    /\ s \in Shell /\ ~s.down
    /\ Strip(s) /\ Chrome(s) /\ Exclusive(s) /\ Loading(s)

\* All but that a switch has its frame to come.
SoundButDrawn(s, p, e, r, x) ==
    /\ SoundShell(s)
    /\ Pipes(p, e) /\ r \in Worker
    /\ Matched(s, p) /\ Alone(s, p, r) /\ InSession(s, p, e, r)
    /\ Frames(s, p, e, r, x) /\ Retiring(s, p, r) /\ Painted(s, x)
    /\ Views(s, p, e, r) /\ Local(s, p, r)
    /\ Ordered(p, e, r) /\ Stopped(p, e, r)
    /\ Owned(s, p, r) /\ Answered(s, p, e, r)

Sound(s, p, e, r, x) == SoundButDrawn(s, p, e, r, x) /\ Drawn(s, p)

-----------------------------------------------------------------------------
(* Commands and pipes.                                                     *)

LEMMA CommandIs ==
    ASSUME NEW c \in Command
    PROVE  /\ c.kind \in Kinds
           /\ c.kind \in Starting \cup Working => c.id \in Nat \ {0}
           /\ c.kind \in Starting \cup {"create", "replace", "reset", "close"} => c.tab \in Tab
           /\ c.kind \in {"spawn", "reset"} => c.generation \in Nat
           /\ c.kind = "render" => c.permit \in Permit
           /\ c.kind = "navigate" => c.target \in Target /\ c.local \in BOOLEAN
           /\ c.kind = "cancel" => c.target \in Target /\ c = Cancel(c.target)
           /\ c.kind = "close" => c.id = 0 /\ c = CloseView(c.tab)
           /\ c.kind \in {"close", "navigate", "cancel"} => c.id = 0
  BY DEF Command, Kinds, Starting, Working, Cancel, CloseView

LEMMA IsCommand ==
    /\ \A id \in Nat \ {0}, t \in Tab, g \in Nat :
          Spawn(id, t, g) \in Command /\ Reset(id, t, g) \in Command
    /\ \A id \in Nat \ {0}, t \in Tab :
          /\ Attach(id, t) \in Command /\ CreateView(id, t) \in Command
          /\ ReplaceSurface(id, t) \in Command
    /\ \A t \in Tab : CloseView(t) \in Command
    /\ \A id \in Nat \ {0}, permit \in Permit : Render(id, permit) \in Command
    /\ \A target \in Target, local \in BOOLEAN : Navigate(target, local) \in Command
    /\ \A target \in Target : Cancel(target) \in Command
  BY DEF Command, Spawn, Reset, Attach, CreateView, ReplaceSurface, CloseView, Render,
         Navigate, Cancel

\* The pipe q is p without its first command.
Pop(p, q) ==
    /\ Len(p) # 0 /\ Len(q) = Len(p) - 1
    /\ \A i \in 1 .. Len(q) : q[i] = p[i + 1]

\* The pipe q is p with c behind it.
Add(p, c, q) ==
    /\ Len(q) = Len(p) + 1 /\ q[Len(p) + 1] = c
    /\ \A i \in 1 .. Len(p) : q[i] = p[i]

LEMMA PipesPop ==
    ASSUME NEW p, NEW e, NEW q, NEW f, Pipes(p, e), Pop(p, q), Pop(e, f)
    PROVE  /\ Pipes(q, f)
           /\ Len(p) \in Nat \ {0} /\ Len(e) \in Nat \ {0}
           /\ Len(q) = Len(p) - 1 /\ Len(f) = Len(e) - 1
           /\ p[1] \in Command /\ e[1].of = p[1] /\ e[1].result \in Results(p[1].kind)
  <1>1. /\ Len(p) \in Nat \ {0} /\ Len(e) \in Nat \ {0} /\ Len(e) <= Len(p)
        /\ Len(q) = Len(p) - 1 /\ Len(f) = Len(e) - 1
    BY DEF Pipes, Pop
  <1>2. 1 \in 1 .. Len(p) /\ 1 \in 1 .. Len(e)
    BY <1>1
  <1>3. p[1] \in Command /\ e[1].of = p[1] /\ e[1].result \in Results(p[1].kind)
    BY <1>2 DEF Pipes
  <1>4. /\ Len(q) \in Nat /\ Len(f) \in Nat /\ Len(f) <= Len(q)
        /\ \A i \in 1 .. Len(q) : i + 1 \in 1 .. Len(p) /\ q[i] = p[i + 1]
        /\ \A i \in 1 .. Len(f) : i + 1 \in 1 .. Len(e) /\ f[i] = e[i + 1]
    BY <1>1 DEF Pop
  <1>5. \A i \in 1 .. Len(f) : q[i] = p[i + 1]
    BY <1>1, <1>4
  <1>6. Pipes(q, f)
    BY <1>4, <1>5 DEF Pipes
  <1>. QED BY <1>1, <1>3, <1>6

LEMMA PipesAdd ==
    ASSUME NEW p, NEW e, NEW q, NEW c \in Command, Pipes(p, e), Add(p, c, q)
    PROVE  Pipes(q, e)
  BY DEF Pipes, Add

LEMMA HasPop ==
    ASSUME NEW p, NEW e, NEW q, NEW f, Pipes(p, e), Pop(p, q), Pop(e, f),
           NEW kind, Has(p, kind), p[1].kind # kind
    PROVE  Has(q, kind)
  <1>1. PICK i \in 1 .. Len(p) : p[i].kind = kind
    BY DEF Has
  <1>2. i - 1 \in 1 .. Len(q) /\ (i - 1) + 1 = i
    BY <1>1 DEF Pipes, Pop
  <1>3. q[i - 1] = p[i]
    BY <1>2 DEF Pop
  <1>. QED BY <1>1, <1>2, <1>3 DEF Has

LEMMA HasAdd ==
    ASSUME NEW p, NEW e, NEW q, NEW c, Pipes(p, e), Add(p, c, q), NEW kind
    PROVE  /\ Has(p, kind) => Has(q, kind)
           /\ c.kind = kind => Has(q, kind)
           /\ c.kind # kind /\ Has(q, kind) => Has(p, kind)
  <1>1. Len(p) \in Nat
    BY DEF Pipes
  <1>. QED BY <1>1 DEF Add, Has

LEMMA AfterPop ==
    ASSUME NEW p, NEW e, NEW q, NEW f, Pipes(p, e), Pop(p, q), Pop(e, f),
           NEW kind, NEW i \in 1 .. Len(q), After(p, kind, i + 1), p[1].kind # kind
    PROVE  After(q, kind, i)
  <1>1. PICK j \in 1 .. Len(p) : p[j].kind = kind /\ j < i + 1
    BY DEF After
  <1>2. j - 1 \in 1 .. Len(q) /\ (j - 1) + 1 = j /\ j - 1 < i
    BY <1>1 DEF Pipes, Pop
  <1>3. q[j - 1] = p[j]
    BY <1>2 DEF Pop
  <1>. QED BY <1>1, <1>2, <1>3 DEF After

\* The groups of the invariant that the head of the pipe can leave at any time.
LEMMA OrderedPop ==
    ASSUME NEW p, NEW e, NEW q, NEW f, NEW r, Pipes(p, e), Pop(p, q), Pop(e, f),
           Ordered(p, e, r)
    PROVE  Ordered(q, f, r)
  <1>1. /\ Len(p) \in Nat \ {0} /\ Len(e) \in Nat \ {0}
        /\ Len(q) = Len(p) - 1 /\ Len(f) = Len(e) - 1 /\ Len(e) <= Len(p)
    BY PipesPop DEF Pipes
  <1>2. \A i \in 1 .. Len(q) : i + 1 \in 1 .. Len(p) /\ q[i] = p[i + 1]
    BY <1>1 DEF Pop
  <1>3. \A i \in 1 .. Len(f) : i + 1 \in 1 .. Len(e) /\ f[i] = e[i + 1] /\ q[i] = p[i + 1]
    BY <1>1 DEF Pop
  <1>4. \A i, j \in 1 .. Len(q) : /\ i + 1 < j + 1 <=> i < j
                                  /\ i + 1 <= Len(e) <=> i <= Len(f)
    BY <1>1
  <1>5. ASSUME NEW i \in 1 .. Len(q), NEW j \in 1 .. Len(q),
               q[i].kind = "navigate", NavigatesTab(q[j], q[i].target.tab), i < j
        PROVE  q[i].target.navigation < q[j].target.navigation
    <2>1. /\ i + 1 \in 1 .. Len(p) /\ j + 1 \in 1 .. Len(p) /\ i + 1 < j + 1
          /\ q[i] = p[i + 1] /\ q[j] = p[j + 1]
      BY <1>2, <1>4, <1>5
    <2>. QED BY <1>5, <2>1 DEF Ordered
  <1>6. \A i \in 1 .. Len(q), t \in Tab :
          NavigatesTab(q[i], t) /\ r.pending[t] # NoTarget =>
          IF i <= Len(f) THEN q[i].target.navigation < r.pending[t].navigation
                         ELSE q[i].target.navigation > r.pending[t].navigation
    BY <1>2, <1>4 DEF Ordered
  <1>7. \A i, j \in 1 .. Len(q) :
          q[j].kind = "close" /\ NavigatesTab(q[i], q[j].tab) => i < j
    BY <1>2, <1>4 DEF Ordered
  <1>8. \A i, j \in 1 .. Len(q) :
          q[i].kind = "navigate" /\ q[j].kind = "cancel" /\ q[i].target = q[j].target
          => i < j
    BY ZenonT(40), <1>2, <1>4 DEF Ordered
  <1>9. \A i \in 1 .. Len(f) : q[i].kind = "navigate" => f[i].result # "refused"
    BY <1>3 DEF Ordered
  <1>10. \A t \in Tab : r.pending[t] # NoTarget =>
          \A i \in 1 .. Len(f) : ~(q[i].kind = "close" /\ q[i].tab = t)
    BY <1>3 DEF Ordered
  <1>. QED BY <1>5, <1>6, <1>7, <1>8, <1>9, <1>10 DEF Ordered

LEMMA StoppedPop ==
    ASSUME NEW p, NEW e, NEW q, NEW f, NEW r, Pipes(p, e), Pop(p, q), Pop(e, f),
           Stopped(p, e, r)
    PROVE  Stopped(q, f, r)
  <1>1. /\ Len(p) \in Nat \ {0} /\ Len(e) \in Nat \ {0}
        /\ Len(q) = Len(p) - 1 /\ Len(f) = Len(e) - 1 /\ Len(e) <= Len(p)
    BY PipesPop DEF Pipes
  <1>2. \A i \in 1 .. Len(q) : i + 1 \in 1 .. Len(p) /\ q[i] = p[i + 1]
    BY <1>1 DEF Pop
  <1>3. \A i \in 1 .. Len(f) : i + 1 \in 1 .. Len(e) /\ f[i] = e[i + 1] /\ q[i] = p[i + 1]
    BY <1>1 DEF Pop
  <1>4. \A i \in 1 .. Len(f), j \in 1 .. Len(q) :
            (j + 1 < i + 1 <=> j < i) /\ (j + 1 > i + 1 <=> j > i)
    BY <1>1
  <1>5. ASSUME NEW i \in 1 .. Len(f), q[i].kind = "cancel"
        PROVE  /\ f[i].result # "refused"
               /\ r.pending[q[i].target.tab] # q[i].target
               /\ f[i].result # "no" /\ r.pending[q[i].target.tab] # NoTarget =>
                     r.pending[q[i].target.tab].navigation > q[i].target.navigation
    BY <1>3, <1>5 DEF Stopped
  <1>6. ASSUME NEW i \in 1 .. Len(f), q[i].kind = "cancel", f[i].result # "no",
               NEW j \in 1 .. Len(q), NavigatesTab(q[j], q[i].target.tab)
        PROVE  /\ j < i => q[j].target # q[i].target
               /\ j > i => q[j].target.navigation > q[i].target.navigation
    <2>1. /\ i + 1 \in 1 .. Len(e) /\ j + 1 \in 1 .. Len(p)
          /\ q[i] = p[i + 1] /\ q[j] = p[j + 1] /\ f[i] = e[i + 1]
      BY <1>2, <1>3
    <2>. QED BY <1>4, <1>6, <2>1 DEF Stopped
  <1>. QED BY <1>5, <1>6 DEF Stopped

LEMMA LocalPop ==
    ASSUME NEW s, NEW p, NEW e, NEW q, NEW f, NEW r, Pipes(p, e), Pop(p, q), Pop(e, f),
           Local(s, p, r)
    PROVE  Local(s, q, r)
  <1>1. \A i \in 1 .. Len(q) : i + 1 \in 1 .. Len(p) /\ q[i] = p[i + 1]
    BY PipesPop DEF Pop
  <1>. QED BY <1>1 DEF Local

LEMMA PopIs ==
    ASSUME NEW p, NEW e, NEW q, NEW f, Pipes(p, e), Pop(p, q), Pop(e, f)
    PROVE  /\ 1 \in 1 .. Len(p) /\ 1 \in 1 .. Len(e) /\ 1 <= Len(e)
           /\ Len(p) \in Nat /\ Len(q) \in Nat /\ Len(e) \in Nat /\ Len(f) \in Nat
           /\ Len(q) = Len(p) - 1 /\ Len(f) = Len(e) - 1
           /\ p[1] \in Command /\ e[1].of = p[1] /\ e[1].result \in Results(p[1].kind)
           /\ \A i \in 1 .. Len(q) :
                 /\ i + 1 \in 1 .. Len(p) /\ i + 1 # 1 /\ q[i] = p[i + 1]
                 /\ i <= Len(f) <=> i + 1 <= Len(e)
                 /\ q[i] \in Command
           /\ \A i \in 1 .. Len(f) :
                 /\ i + 1 \in 1 .. Len(e) /\ f[i] = e[i + 1]
                 /\ i \in 1 .. Len(q) /\ q[i] = p[i + 1]
           /\ \A i \in 1 .. Len(p) : i # 1 => i - 1 \in 1 .. Len(q) /\ q[i - 1] = p[i]
           /\ \A i \in 1 .. Len(e) : i # 1 => i - 1 \in 1 .. Len(f) /\ f[i - 1] = e[i]
                                              /\ q[i - 1] = p[i]
           /\ Pipes(q, f)
  <1>1. /\ Len(p) \in Nat /\ Len(e) \in Nat /\ Len(e) <= Len(p)
        /\ Len(p) # 0 /\ Len(q) = Len(p) - 1 /\ Len(e) # 0 /\ Len(f) = Len(e) - 1
        /\ 1 \in 1 .. Len(p) /\ 1 \in 1 .. Len(e)
    BY DEF Pipes, Pop
  <1>2. p[1] \in Command /\ e[1].of = p[1] /\ e[1].result \in Results(p[1].kind)
    BY <1>1 DEF Pipes
  <1>3. \A i \in 1 .. Len(q) :
           /\ i + 1 \in 1 .. Len(p) /\ i + 1 # 1 /\ q[i] = p[i + 1]
           /\ i <= Len(f) <=> i + 1 <= Len(e)
           /\ q[i] \in Command
    BY <1>1 DEF Pipes, Pop
  <1>4. \A i \in 1 .. Len(f) :
           /\ i + 1 \in 1 .. Len(e) /\ f[i] = e[i + 1]
           /\ i \in 1 .. Len(q) /\ q[i] = p[i + 1]
    BY <1>1 DEF Pop
  <1>5. \A i \in 1 .. Len(p) : i # 1 => i - 1 \in 1 .. Len(q) /\ q[i - 1] = p[i]
    BY <1>1 DEF Pop
  <1>6. \A i \in 1 .. Len(e) : i # 1 => /\ i - 1 \in 1 .. Len(f) /\ f[i - 1] = e[i]
                                       /\ q[i - 1] = p[i]
    BY <1>1 DEF Pop
  <1>7. \A i \in 1 .. Len(f) : f[i].of = q[i] /\ f[i].result \in Results(q[i].kind)
    BY <1>4 DEF Pipes
  <1>8. Pipes(q, f)
    BY <1>1, <1>3, <1>7 DEF Pipes
  <1>. QED BY <1>1, <1>2, <1>3, <1>4, <1>5, <1>6, <1>8

\* The commands behind one that has a class of its own.
LEMMA Unlike ==
    ASSUME NEW s, NEW p, NEW e, NEW q, NEW f, Pipes(p, e), Pop(p, q), Pop(e, f), Matched(s, p)
    PROVE  \A i \in 1 .. Len(q) :
               /\ ~Alike(p[1], q[i]) /\ Awaited(s, q[i])
               /\ \A j \in 1 .. Len(q) : Alike(q[i], q[j]) => i = j
  <1>1. \A i \in 1 .. Len(q) : i + 1 \in 1 .. Len(p) /\ i + 1 # 1 /\ q[i] = p[i + 1]
    BY PopIs
  <1>2. 1 \in 1 .. Len(p)
    BY PopIs
  <1>. QED BY <1>1, <1>2 DEF Matched

-----------------------------------------------------------------------------
(* The groups of the invariant when a reply is taken from the pipe.        *)

LEMMA AlonePop ==
    ASSUME NEW s, NEW p, NEW e, NEW q, NEW f, NEW r, Pipes(p, e), Pop(p, q), Pop(e, f),
           Alone(s, p, r)
    PROVE  Alone(s, q, r)
  <1>1. \A i \in 1 .. Len(q) : i + 1 \in 1 .. Len(p) /\ q[i] = p[i + 1]
    BY PopIs
  <1>. QED BY <1>1 DEF Alone

LEMMA RetiringPop ==
    ASSUME NEW s, NEW p, NEW e, NEW q, NEW f, NEW r, Pipes(p, e), Pop(p, q), Pop(e, f),
           Retiring(s, p, r)
    PROVE  Retiring(s, q, r)
  <1>1. /\ \A i \in 1 .. Len(q) : i + 1 \in 1 .. Len(p) /\ q[i] = p[i + 1]
        /\ \A i, j \in 1 .. Len(q) : i + 1 < j + 1 <=> i < j
    BY PopIs
  <1>. QED BY <1>1 DEF Retiring

LEMMA FramesPop ==
    ASSUME NEW s, NEW p, NEW e, NEW q, NEW f, NEW r, NEW x, Pipes(p, e), Pop(p, q), Pop(e, f),
           Frames(s, p, e, r, x)
    PROVE  Frames(s, q, f, r, x)
  <1>1. \A i \in 1 .. Len(q) : /\ i + 1 \in 1 .. Len(p) /\ q[i] = p[i + 1]
                               /\ i <= Len(f) <=> i + 1 <= Len(e)
                               /\ i > Len(f) <=> i + 1 > Len(e)
                               /\ i <= Len(f) => f[i] = e[i + 1]
    <2>1. /\ Len(p) \in Nat /\ Len(q) \in Nat /\ Len(e) \in Nat /\ Len(f) \in Nat
          /\ \A i \in 1 .. Len(q) : /\ i + 1 \in 1 .. Len(p) /\ q[i] = p[i + 1]
                                    /\ i <= Len(f) <=> i + 1 <= Len(e)
          /\ \A i \in 1 .. Len(f) : f[i] = e[i + 1]
      BY PopIs
    <2>. QED BY <2>1
  <1>. QED BY <1>1 DEF Frames

LEMMA OwnedPop ==
    ASSUME NEW s, NEW p, NEW e, NEW q, NEW f, NEW r, Pipes(p, e), Pop(p, q), Pop(e, f),
           Owned(s, p, r)
    PROVE  Owned(s, q, r)
  <1>1. \A i \in 1 .. Len(q) : i + 1 \in 1 .. Len(p) /\ q[i] = p[i + 1]
    BY PopIs
  <1>. QED BY <1>1 DEF Owned

LEMMA InSessionPop ==
    ASSUME NEW s, NEW p, NEW e, NEW q, NEW f, NEW r, Pipes(p, e), Pop(p, q), Pop(e, f),
           InSession(s, p, e, r), p[1].kind \notin Starting \cup {"reset"}
    PROVE  InSession(s, q, f, r)
  <1>1. /\ Len(p) \in Nat /\ Len(q) \in Nat /\ Len(e) \in Nat /\ Len(f) \in Nat
        /\ \A i \in 1 .. Len(q) : /\ i + 1 \in 1 .. Len(p) /\ q[i] = p[i + 1]
                                  /\ i <= Len(f) <=> i + 1 <= Len(e)
        /\ \A i \in 1 .. Len(f) : f[i] = e[i + 1]
        /\ Len(f) = Len(e) - 1
    BY PopIs
  <1>2. Has(p, "spawn") => Has(q, "spawn")
    BY HasPop DEF Starting
  <1>3. Has(p, "attach") => Has(q, "attach")
    BY HasPop DEF Starting
  <1>4. Has(p, "reset") => Has(q, "reset")
    BY HasPop DEF Starting
  <1>5. \A i \in 1 .. Len(q) : After(p, "reset", i + 1) => After(q, "reset", i)
    BY AfterPop DEF Starting
  <1>6. s.init # 0 /\ ~Has(q, "spawn") /\ ~Has(q, "attach") => ~r.attached
    BY <1>2, <1>3 DEF InSession
  <1>7. s.reset = 0 => r.session = s.session
    BY DEF InSession
  <1>8. ASSUME NEW i \in 1 .. Len(q), q[i].kind = "spawn"
        PROVE  /\ ~r.attached
               /\ i <= Len(f) + 1
               /\ Has(q, "reset") \/ AsStarted(r, q[i])
               /\ i <= Len(f) => f[i].result # "refused"
    <2>1. /\ i + 1 \in 1 .. Len(p) /\ q[i] = p[i + 1]
          /\ i <= Len(f) => i + 1 <= Len(e) /\ f[i] = e[i + 1]
      BY <1>1
    <2>2. /\ ~r.attached /\ i + 1 <= Len(e) + 1
          /\ Has(p, "reset") \/ AsStarted(r, q[i])
          /\ i + 1 <= Len(e) => e[i + 1].result # "refused"
      BY <1>8, <2>1 DEF InSession
    <2>. QED BY <1>1, <1>4, <2>1, <2>2
  <1>9. ASSUME NEW i \in 1 .. Len(q), q[i].kind = "attach"
        PROVE  /\ i > Len(f) => ~r.attached
               /\ i > Len(f) => After(q, "reset", i) \/ AsStarted(r, q[i])
               /\ i <= Len(f) /\ f[i].result = "refused" => After(q, "reset", i)
    <2>1. /\ i + 1 \in 1 .. Len(p) /\ q[i] = p[i + 1]
          /\ i <= Len(f) => i + 1 <= Len(e) /\ f[i] = e[i + 1]
          /\ i > Len(f) => i + 1 > Len(e)
      BY <1>1
    <2>2. /\ i + 1 > Len(e) => ~r.attached
          /\ i + 1 > Len(e) => After(p, "reset", i + 1) \/ AsStarted(r, q[i])
          /\ i + 1 <= Len(e) /\ e[i + 1].result = "refused" => After(p, "reset", i + 1)
      BY <1>9, <2>1 DEF InSession
    <2>. QED BY <1>5, <2>1, <2>2
  <1>10. ASSUME NEW i \in 1 .. Len(q), q[i].kind = "reset"
         PROVE  /\ i <= Len(f) => f[i].result # "refused"
                /\ i <= Len(f) /\ f[i].result = "ok" =>
                      /\ r.attached
                      /\ \A j \in 1 .. Len(q) : q[j].kind \in Starting => j < i
                /\ ~Renewed(f, i) => r.session + 1 = s.session
                /\ Renewed(f, i) =>
                      /\ r.session = s.session
                      /\ r.tab = s.tab /\ r.generation = Gen(s)
                      /\ r.views = {s.tab}
    <2>1. /\ i + 1 \in 1 .. Len(p) /\ q[i] = p[i + 1]
          /\ i <= Len(f) => i + 1 <= Len(e) /\ f[i] = e[i + 1]
          /\ i > Len(f) => i + 1 > Len(e)
      BY <1>1
    <2>2. Renewed(f, i) <=> Renewed(e, i + 1)
      BY <1>1, <2>1 DEF Renewed
    <2>3. /\ i + 1 <= Len(e) => e[i + 1].result # "refused"
          /\ i + 1 <= Len(e) /\ e[i + 1].result = "ok" =>
                r.attached /\ \A j \in 1 .. Len(p) : p[j].kind \in Starting => j < i + 1
          /\ ~Renewed(e, i + 1) => r.session + 1 = s.session
          /\ Renewed(e, i + 1) => /\ r.session = s.session
                                  /\ r.tab = s.tab /\ r.generation = Gen(s)
                                  /\ r.views = {s.tab}
      BY <1>10, <2>1 DEF InSession
    <2>4. i <= Len(f) /\ f[i].result = "ok" => \A j \in 1 .. Len(q) : q[j].kind \in Starting => j < i
      BY SMTT(30), <1>1, <2>1, <2>3
    <2>. QED BY <2>1, <2>2, <2>3, <2>4
  <1>. QED BY <1>6, <1>7, <1>8, <1>9, <1>10 DEF InSession

LEMMA ViewsPop ==
    ASSUME NEW s, NEW p, NEW e, NEW q, NEW f, NEW r, Pipes(p, e), Pop(p, q), Pop(e, f),
           Views(s, p, e, r), p[1].kind \notin {"create", "close"}
    PROVE  Views(s, q, f, r)
  <1>1. /\ 1 \in 1 .. Len(p) /\ 1 <= Len(e)
        /\ \A i \in 1 .. Len(f) : i + 1 \in 1 .. Len(e) /\ f[i] = e[i + 1] /\ q[i] = p[i + 1]
        /\ \A i \in 1 .. Len(e) : i # 1 => /\ i - 1 \in 1 .. Len(f) /\ f[i - 1] = e[i]
                                           /\ q[i - 1] = p[i]
    BY PopIs
  <1>2. \A i \in 1 .. Len(p) : i > Len(e) => i - 1 \in 1 .. Len(q) /\ q[i - 1] = p[i] /\ i - 1 > Len(f)
    <2>1. /\ Len(p) \in Nat /\ Len(q) \in Nat /\ Len(e) \in Nat /\ Len(f) \in Nat /\ 1 <= Len(e)
          /\ Len(f) = Len(e) - 1
          /\ \A i \in 1 .. Len(p) : i # 1 => i - 1 \in 1 .. Len(q) /\ q[i - 1] = p[i]
      BY PopIs
    <2>. QED BY <2>1
  <1>3. \A i \in 1 .. Len(f) :
          q[i].kind \in {"create", "close", "replace"} => f[i].result # "refused"
    BY <1>1 DEF Views
  <1>4. ASSUME s.reset = 0, ~(\E i \in 1 .. Len(q) : q[i].kind = "spawn" /\ i > Len(f)), NEW t \in Tab
        PROVE  t \in r.views <=>
                 \/ /\ t \in s.materialized
                    /\ ~\E i \in 1 .. Len(f) : q[i].kind = "close" /\ q[i].tab = t
                 \/ \E i \in 1 .. Len(f) :
                       q[i].kind = "create" /\ q[i].tab = t /\ f[i].result = "ok"
    <2>1. ~(\E i \in 1 .. Len(p) : p[i].kind = "spawn" /\ i > Len(e))
      BY <1>2, <1>4
    <2>2. (\E i \in 1 .. Len(e) : p[i].kind = "close" /\ p[i].tab = t)
          <=> (\E i \in 1 .. Len(f) : q[i].kind = "close" /\ q[i].tab = t)
      <3>1. ASSUME NEW i \in 1 .. Len(e), p[i].kind = "close" /\ p[i].tab = t
            PROVE  \E j \in 1 .. Len(f) : q[j].kind = "close" /\ q[j].tab = t
        <4>1. i - 1 \in 1 .. Len(f) /\ q[i - 1] = p[i]
          BY <1>1, <3>1
        <4>. QED BY <3>1, <4>1
      <3>2. ASSUME NEW i \in 1 .. Len(f), q[i].kind = "close" /\ q[i].tab = t
            PROVE  \E j \in 1 .. Len(e) : p[j].kind = "close" /\ p[j].tab = t
        <4>1. i + 1 \in 1 .. Len(e) /\ q[i] = p[i + 1]
          BY <1>1
        <4>. QED BY <3>2, <4>1
      <3>. QED BY <3>1, <3>2
    <2>3. (\E i \in 1 .. Len(e) : p[i].kind = "create" /\ p[i].tab = t /\ e[i].result = "ok")
          <=> (\E i \in 1 .. Len(f) : q[i].kind = "create" /\ q[i].tab = t /\ f[i].result = "ok")
      <3>1. ASSUME NEW i \in 1 .. Len(e), p[i].kind = "create" /\ p[i].tab = t /\ e[i].result = "ok"
            PROVE  \E j \in 1 .. Len(f) : q[j].kind = "create" /\ q[j].tab = t /\ f[j].result = "ok"
        <4>1. i - 1 \in 1 .. Len(f) /\ q[i - 1] = p[i] /\ f[i - 1] = e[i]
          BY <1>1, <3>1
        <4>. QED BY <3>1, <4>1
      <3>2. ASSUME NEW i \in 1 .. Len(f), q[i].kind = "create" /\ q[i].tab = t /\ f[i].result = "ok"
            PROVE  \E j \in 1 .. Len(e) : p[j].kind = "create" /\ p[j].tab = t /\ e[j].result = "ok"
        <4>1. i + 1 \in 1 .. Len(e) /\ q[i] = p[i + 1] /\ f[i] = e[i + 1]
          BY <1>1
        <4>. QED BY <3>2, <4>1
      <3>. QED BY <3>1, <3>2
    <2>. QED BY <1>4, <2>1, <2>2, <2>3 DEF Views
  <1>. QED BY <1>3, <1>4 DEF Views

LEMMA AnsweredPop ==
    ASSUME NEW s, NEW p, NEW e, NEW q, NEW f, NEW r, Pipes(p, e), Pop(p, q), Pop(e, f),
           Answered(s, p, e, r), p[1].kind \notin {"navigate", "cancel"}
    PROVE  Answered(s, q, f, r)
  <1>1. /\ \A i \in 1 .. Len(q) : i + 1 \in 1 .. Len(p) /\ q[i] = p[i + 1]
        /\ \A i \in 1 .. Len(p) : i # 1 => i - 1 \in 1 .. Len(q) /\ q[i - 1] = p[i]
        /\ \A i \in 1 .. Len(e) : i # 1 => /\ i - 1 \in 1 .. Len(f) /\ f[i - 1] = e[i]
                                           /\ q[i - 1] = p[i]
    BY PopIs
  <1>2. ASSUME NEW target, Carried(p, e, r, target)
        PROVE  Carried(q, f, r, target)
    <2>1. CASE \E i \in 1 .. Len(p) : p[i].kind = "navigate" /\ p[i].target = target
      <3>1. PICK i \in 1 .. Len(p) : p[i].kind = "navigate" /\ p[i].target = target
        BY <2>1
      <3>2. i - 1 \in 1 .. Len(q) /\ q[i - 1] = p[i]
        BY <1>1, <3>1
      <3>. QED BY <3>1, <3>2 DEF Carried
    <2>2. CASE \E i \in 1 .. Len(e) : p[i].kind = "cancel" /\ p[i].target = target /\ e[i].result # "no"
      <3>1. PICK i \in 1 .. Len(e) : p[i].kind = "cancel" /\ p[i].target = target /\ e[i].result # "no"
        BY <2>2
      <3>2. i - 1 \in 1 .. Len(f) /\ q[i - 1] = p[i] /\ f[i - 1] = e[i]
        BY <1>1, <3>1
      <3>. QED BY <3>1, <3>2 DEF Carried
    <2>. QED BY <1>2, <2>1, <2>2 DEF Carried
  <1>3. ASSUME NEW t \in Range(s.tabs), s.targets[t] = NoTarget
        PROVE  r.pending[t] = NoTarget /\ \A i \in 1 .. Len(q) : ~NavigatesTab(q[i], t)
    BY <1>1, <1>3 DEF Answered
  <1>4. ASSUME NEW t \in Range(s.tabs), s.targets[t] # NoTarget
        PROVE  /\ r.pending[t].navigation <= s.targets[t].navigation
               /\ \A i \in 1 .. Len(q) : NavigatesTab(q[i], t) =>
                    q[i].target.navigation <= s.targets[t].navigation
               /\ Carried(q, f, r, s.targets[t])
    BY <1>1, <1>2, <1>4 DEF Answered
  <1>. QED BY <1>3, <1>4 DEF Answered

LEMMA DrawnPop ==
    ASSUME NEW s, NEW p, NEW e, NEW q, NEW f, Pipes(p, e), Pop(p, q), Pop(e, f),
           Drawn(s, p), p[1].kind # "render"
    PROVE  Drawn(s, q)
  <1>1. \A i \in 1 .. Len(p) : i # 1 => i - 1 \in 1 .. Len(q) /\ q[i - 1] = p[i]
    BY PopIs
  <1>2. (\E i \in 1 .. Len(p) : p[i].kind = "render" /\ p[i].permit.generation = Gen(s))
        => \E i \in 1 .. Len(q) : q[i].kind = "render" /\ q[i].permit.generation = Gen(s)
    BY <1>1
  <1>. QED BY <1>2 DEF Drawn

(* What is left of the invariant when the reply to the head of the pipe is *)
(* taken, before the shell has changed.                                    *)
LEMMA Popped ==
    ASSUME NEW s, NEW p, NEW e, NEW r, NEW x, NEW q, NEW f,
           SoundButDrawn(s, p, e, r, x), Pop(p, q), Pop(e, f)
    PROVE  /\ SoundShell(s) /\ Pipes(q, f) /\ r \in Worker
           /\ Alone(s, q, r) /\ Frames(s, q, f, r, x) /\ Retiring(s, q, r)
           /\ Painted(s, x) /\ Local(s, q, r) /\ Ordered(q, f, r) /\ Stopped(q, f, r)
           /\ Owned(s, q, r)
           /\ p[1].kind \notin Starting \cup {"reset"} => InSession(s, q, f, r)
           /\ p[1].kind \notin {"create", "close"} => Views(s, q, f, r)
           /\ p[1].kind \notin {"navigate", "cancel"} => Answered(s, q, f, r)
           /\ p[1].kind # "render" /\ Drawn(s, p) => Drawn(s, q)
           /\ \A i \in 1 .. Len(q) :
                 /\ ~Alike(p[1], q[i]) /\ Awaited(s, q[i])
                 /\ \A j \in 1 .. Len(q) : Alike(q[i], q[j]) => i = j
           /\ \A kind \in Kinds : Has(p, kind) /\ p[1].kind # kind => Has(q, kind)
           /\ p[1] \in Command /\ Awaited(s, p[1])
           /\ e[1].of = p[1] /\ e[1].result \in Results(p[1].kind)
  <1>1. Pipes(p, e) /\ Matched(s, p) /\ SoundShell(s) /\ r \in Worker /\ Painted(s, x)
    BY DEF SoundButDrawn
  <1>2. Pipes(q, f) /\ p[1] \in Command /\ e[1].of = p[1] /\ e[1].result \in Results(p[1].kind)
        /\ 1 \in 1 .. Len(p)
    BY <1>1, PopIs
  <1>3. Awaited(s, p[1])
    BY <1>1, <1>2 DEF Matched
  <1>4. \A i \in 1 .. Len(q) :
                 /\ ~Alike(p[1], q[i]) /\ Awaited(s, q[i])
                 /\ \A j \in 1 .. Len(q) : Alike(q[i], q[j]) => i = j
    BY <1>1, Unlike
  <1>5. \A kind \in Kinds : Has(p, kind) /\ p[1].kind # kind => Has(q, kind)
    BY <1>1, HasPop
  <1>6. Alone(s, q, r)
    BY <1>1, AlonePop DEF SoundButDrawn
  <1>7. Frames(s, q, f, r, x)
    BY <1>1, FramesPop DEF SoundButDrawn
  <1>8. Retiring(s, q, r)
    BY <1>1, RetiringPop DEF SoundButDrawn
  <1>9. Local(s, q, r)
    BY <1>1, LocalPop DEF SoundButDrawn
  <1>10. Ordered(q, f, r)
    BY <1>1, OrderedPop DEF SoundButDrawn
  <1>11. Stopped(q, f, r)
    BY <1>1, StoppedPop DEF SoundButDrawn
  <1>12. Owned(s, q, r)
    BY <1>1, OwnedPop DEF SoundButDrawn
  <1>13. p[1].kind \notin Starting \cup {"reset"} => InSession(s, q, f, r)
    BY <1>1, InSessionPop DEF SoundButDrawn
  <1>14. p[1].kind \notin {"create", "close"} => Views(s, q, f, r)
    BY <1>1, ViewsPop DEF SoundButDrawn
  <1>15. p[1].kind \notin {"navigate", "cancel"} => Answered(s, q, f, r)
    BY <1>1, AnsweredPop DEF SoundButDrawn
  <1>16. p[1].kind # "render" /\ Drawn(s, p) => Drawn(s, q)
    BY <1>1, DrawnPop
  <1>. QED BY <1>1, <1>2, <1>3, <1>4, <1>5, <1>6, <1>7, <1>8, <1>9, <1>10, <1>11, <1>12,
              <1>13, <1>14, <1>15, <1>16

-----------------------------------------------------------------------------
(* The groups of the invariant when a command is put into the pipe.        *)

LEMMA AddIs ==
    ASSUME NEW p, NEW e, NEW q, NEW c \in Command, Pipes(p, e), Add(p, c, q)
    PROVE  /\ Len(p) \in Nat /\ Len(q) \in Nat /\ Len(e) \in Nat
           /\ Len(q) = Len(p) + 1 /\ Len(e) <= Len(p)
           /\ Len(q) \in 1 .. Len(q) /\ q[Len(q)] = c
           /\ \A i \in 1 .. Len(p) : i \in 1 .. Len(q) /\ q[i] = p[i] /\ i < Len(q)
           /\ \A i \in 1 .. Len(q) :
                 \/ i \in 1 .. Len(p) /\ q[i] = p[i] /\ i < Len(q)
                 \/ i = Len(q) /\ q[i] = c /\ ~(i <= Len(e)) /\ i > Len(e)
           /\ \A i \in 1 .. Len(e) : i \in 1 .. Len(p) /\ i \in 1 .. Len(q) /\ q[i] = p[i]
           /\ Pipes(q, e)
  BY DEF Pipes, Add

\* A command put behind the others leaves alone what is not about its kind.
LEMMA Behind ==
    ASSUME NEW s, NEW p, NEW e, NEW r, NEW x, NEW c \in Command, NEW q,
           Pipes(p, e), Add(p, c, q)
    PROVE  /\ Views(s, p, e, r) => Views(s, q, e, r)
           /\ c.kind # "render" /\ Frames(s, p, e, r, x) => Frames(s, q, e, r, x)
           /\ c.kind \notin {"render", "close"} /\ Retiring(s, p, r) => Retiring(s, q, r)
           /\ c.kind \notin {"close", "navigate", "cancel"} /\ Ordered(p, e, r) => Ordered(q, e, r)
           /\ c.kind # "navigate" => /\ Local(s, p, r) => Local(s, q, r)
                                     /\ Stopped(p, e, r) => Stopped(q, e, r)
                                     /\ Owned(s, p, r) => Owned(s, q, r)
                                     /\ Answered(s, p, e, r) => Answered(s, q, e, r)
           /\ Drawn(s, p) => Drawn(s, q)
  <1>1. /\ Len(p) \in Nat /\ Len(q) \in Nat /\ Len(e) \in Nat
        /\ Len(q) = Len(p) + 1 /\ Len(e) <= Len(p)
        /\ Len(q) \in 1 .. Len(q) /\ q[Len(q)] = c
        /\ \A i \in 1 .. Len(p) : i \in 1 .. Len(q) /\ q[i] = p[i] /\ i < Len(q)
        /\ \A i \in 1 .. Len(q) :
              \/ i \in 1 .. Len(p) /\ q[i] = p[i] /\ i < Len(q)
              \/ i = Len(q) /\ q[i] = c /\ ~(i <= Len(e)) /\ i > Len(e)
        /\ \A i \in 1 .. Len(e) : i \in 1 .. Len(p) /\ i \in 1 .. Len(q) /\ q[i] = p[i]
        /\ Pipes(q, e)
    BY AddIs
  <1>2. ASSUME Views(s, p, e, r) PROVE Views(s, q, e, r)
    <2>1. \A i \in 1 .. Len(e) :
             q[i].kind \in {"create", "close", "replace"} => e[i].result # "refused"
      BY <1>1, <1>2 DEF Views
    <2>2. (\E i \in 1 .. Len(p) : p[i].kind = "spawn" /\ i > Len(e))
          => \E i \in 1 .. Len(q) : q[i].kind = "spawn" /\ i > Len(e)
      BY <1>1
    <2>3. ASSUME NEW t \in Tab
          PROVE  /\ (\E i \in 1 .. Len(e) : q[i].kind = "close" /\ q[i].tab = t)
                    <=> (\E i \in 1 .. Len(e) : p[i].kind = "close" /\ p[i].tab = t)
                 /\ (\E i \in 1 .. Len(e) :
                        q[i].kind = "create" /\ q[i].tab = t /\ e[i].result = "ok")
                    <=> (\E i \in 1 .. Len(e) :
                        p[i].kind = "create" /\ p[i].tab = t /\ e[i].result = "ok")
      BY <1>1
    <2>. QED BY <1>2, <2>1, <2>2, <2>3 DEF Views
  <1>3. ASSUME c.kind # "render", Frames(s, p, e, r, x) PROVE Frames(s, q, e, r, x)
    <2>1. \A i \in 1 .. Len(q) : q[i].kind = "render" => i \in 1 .. Len(p) /\ q[i] = p[i]
      BY <1>1, <1>3
    <2>. QED BY <1>3, <2>1 DEF Frames
  <1>4. ASSUME c.kind \notin {"render", "close"}, Retiring(s, p, r) PROVE Retiring(s, q, r)
    <2>1. \A i \in 1 .. Len(q) : q[i].kind \in {"render", "close"} => i \in 1 .. Len(p) /\ q[i] = p[i]
      BY <1>1, <1>4
    <2>. QED BY <1>4, <2>1 DEF Retiring
  <1>5. ASSUME c.kind \notin {"close", "navigate", "cancel"}, Ordered(p, e, r) PROVE Ordered(q, e, r)
    <2>1. \A i \in 1 .. Len(q) : q[i].kind \in {"close", "navigate", "cancel"} => i \in 1 .. Len(p) /\ q[i] = p[i]
      BY <1>1, <1>5
    <2>2. ASSUME NEW i \in 1 .. Len(q), NEW j \in 1 .. Len(q),
                 q[i].kind = "navigate", NavigatesTab(q[j], q[i].target.tab), i < j
          PROVE  q[i].target.navigation < q[j].target.navigation
      BY <1>5, <2>1, <2>2 DEF Ordered, NavigatesTab
    <2>3. \A i \in 1 .. Len(q), t \in Tab :
              NavigatesTab(q[i], t) /\ r.pending[t] # NoTarget =>
              IF i <= Len(e) THEN q[i].target.navigation < r.pending[t].navigation
                             ELSE q[i].target.navigation > r.pending[t].navigation
      BY <1>5, <2>1 DEF Ordered, NavigatesTab
    <2>4. \A i, j \in 1 .. Len(q) :
              q[j].kind = "close" /\ NavigatesTab(q[i], q[j].tab) => i < j
      BY <1>5, <2>1 DEF Ordered, NavigatesTab
    <2>5. \A i, j \in 1 .. Len(q) :
              q[i].kind = "navigate" /\ q[j].kind = "cancel" /\ q[i].target = q[j].target
              => i < j
      BY <1>5, <2>1 DEF Ordered
    <2>6. /\ \A i \in 1 .. Len(e) : q[i].kind = "navigate" => e[i].result # "refused"
          /\ \A t \in Tab : r.pending[t] # NoTarget =>
                \A i \in 1 .. Len(e) : ~(q[i].kind = "close" /\ q[i].tab = t)
      BY <1>1, <1>5 DEF Ordered
    <2>. QED BY <2>2, <2>3, <2>4, <2>5, <2>6 DEF Ordered
  <1>6. ASSUME c.kind # "navigate"
        PROVE  /\ Local(s, p, r) => Local(s, q, r)
               /\ Stopped(p, e, r) => Stopped(q, e, r)
               /\ Owned(s, p, r) => Owned(s, q, r)
               /\ Answered(s, p, e, r) => Answered(s, q, e, r)
    <2>1. \A i \in 1 .. Len(q) : q[i].kind = "navigate" => i \in 1 .. Len(p) /\ q[i] = p[i]
      BY <1>1, <1>6
    <2>2. Local(s, p, r) => Local(s, q, r)
      BY <2>1 DEF Local
    <2>3. ASSUME Stopped(p, e, r) PROVE Stopped(q, e, r)
      <3>1. ASSUME NEW i \in 1 .. Len(e), q[i].kind = "cancel"
            PROVE  /\ e[i].result # "refused"
                   /\ r.pending[q[i].target.tab] # q[i].target
                   /\ e[i].result # "no" /\ r.pending[q[i].target.tab] # NoTarget =>
                            r.pending[q[i].target.tab].navigation > q[i].target.navigation
        BY <1>1, <2>3, <3>1 DEF Stopped
      <3>2. ASSUME NEW i \in 1 .. Len(e), q[i].kind = "cancel", e[i].result # "no",
                   NEW j \in 1 .. Len(q), NavigatesTab(q[j], q[i].target.tab)
            PROVE  /\ j < i => q[j].target # q[i].target
                   /\ j > i => q[j].target.navigation > q[i].target.navigation
        <4>1. j \in 1 .. Len(p) /\ q[j] = p[j] /\ i \in 1 .. Len(e) /\ q[i] = p[i]
          BY <1>1, <2>1, <3>2 DEF NavigatesTab
        <4>. QED BY <2>3, <3>2, <4>1 DEF Stopped
      <3>. QED BY <3>1, <3>2 DEF Stopped
    <2>4. Owned(s, p, r) => Owned(s, q, r)
      BY <2>1 DEF Owned
    <2>5. ASSUME Answered(s, p, e, r) PROVE Answered(s, q, e, r)
      <3>1. \A i \in 1 .. Len(q), t \in Tab : NavigatesTab(q[i], t) => i \in 1 .. Len(p) /\ q[i] = p[i]
        BY <2>1 DEF NavigatesTab
      <3>2. ASSUME NEW target, Carried(p, e, r, target)
            PROVE  Carried(q, e, r, target)
        BY <1>1, <3>2 DEF Carried
      <3>3. ASSUME NEW t \in Range(s.tabs), s.targets[t] = NoTarget
            PROVE  r.pending[t] = NoTarget /\ \A i \in 1 .. Len(q) : ~NavigatesTab(q[i], t)
        BY <2>1, <2>5, <3>3 DEF Answered, NavigatesTab
      <3>4. ASSUME NEW t \in Range(s.tabs), s.targets[t] # NoTarget
            PROVE  /\ r.pending[t].navigation <= s.targets[t].navigation
                   /\ \A i \in 1 .. Len(q) : NavigatesTab(q[i], t) =>
                        q[i].target.navigation <= s.targets[t].navigation
                   /\ Carried(q, e, r, s.targets[t])
        BY <2>1, <2>5, <3>2, <3>4 DEF Answered, NavigatesTab
      <3>. QED BY <3>3, <3>4 DEF Answered
    <2>. QED BY <2>2, <2>3, <2>4, <2>5
  <1>7. Drawn(s, p) => Drawn(s, q)
    <2>1. (\E i \in 1 .. Len(p) : p[i].kind = "render" /\ p[i].permit.generation = Gen(s))
          => \E i \in 1 .. Len(q) : q[i].kind = "render" /\ q[i].permit.generation = Gen(s)
      BY <1>1
    <2>. QED BY <2>1 DEF Drawn
  <1>. QED BY <1>2, <1>3, <1>4, <1>5, <1>6, <1>7

(* What there is of the invariant when the command is in the pipe, before  *)
(* the shell has changed.                                                  *)
LEMMA Added ==
    ASSUME NEW s, NEW p, NEW e, NEW r, NEW x, NEW c \in Command, NEW q,
           SoundButDrawn(s, p, e, r, x), Add(p, c, q), c.kind \notin Starting \cup {"reset"}
    PROVE  /\ SoundShell(s) /\ Pipes(q, e) /\ r \in Worker
           /\ InSession(s, q, e, r)
           /\ s.reset = 0 => Alone(s, q, r)
           /\ Painted(s, x) /\ Views(s, q, e, r)
           /\ c.kind # "render" => Frames(s, q, e, r, x)
           /\ c.kind \notin {"render", "close"} => Retiring(s, q, r)
           /\ c.kind \notin {"close", "navigate", "cancel"} => Ordered(q, e, r)
           /\ c.kind # "navigate" => /\ Local(s, q, r) /\ Stopped(q, e, r)
                                     /\ Owned(s, q, r) /\ Answered(s, q, e, r)
           /\ Drawn(s, p) => Drawn(s, q)
           /\ \A i \in 1 .. Len(p) : Awaited(s, p[i])
           /\ \A i, j \in 1 .. Len(p) : Alike(p[i], p[j]) => i = j
           /\ \A kind \in Kinds : Has(p, kind) => Has(q, kind)
           /\ \A kind \in Kinds : Has(q, kind) => Has(p, kind) \/ kind = c.kind
           /\ Has(q, c.kind)
  <1>1. /\ SoundShell(s) /\ Pipes(p, e) /\ r \in Worker /\ Painted(s, x)
        /\ Matched(s, p) /\ Alone(s, p, r) /\ InSession(s, p, e, r)
        /\ Frames(s, p, e, r, x) /\ Retiring(s, p, r)
        /\ Views(s, p, e, r) /\ Local(s, p, r)
        /\ Ordered(p, e, r) /\ Stopped(p, e, r)
        /\ Owned(s, p, r) /\ Answered(s, p, e, r)
    BY DEF SoundButDrawn
  <1>2. /\ Len(p) \in Nat /\ Len(q) \in Nat /\ Len(e) \in Nat
        /\ Len(q) = Len(p) + 1 /\ Len(e) <= Len(p)
        /\ Len(q) \in 1 .. Len(q) /\ q[Len(q)] = c
        /\ \A i \in 1 .. Len(p) : i \in 1 .. Len(q) /\ q[i] = p[i] /\ i < Len(q)
        /\ \A i \in 1 .. Len(q) :
              \/ i \in 1 .. Len(p) /\ q[i] = p[i] /\ i < Len(q)
              \/ i = Len(q) /\ q[i] = c /\ ~(i <= Len(e)) /\ i > Len(e)
        /\ \A i \in 1 .. Len(e) : i \in 1 .. Len(p) /\ i \in 1 .. Len(q) /\ q[i] = p[i]
        /\ Pipes(q, e)
    BY <1>1, AddIs
  <1>3. /\ \A kind \in Kinds : Has(p, kind) => Has(q, kind)
        /\ \A kind \in Kinds : Has(q, kind) => Has(p, kind) \/ kind = c.kind
        /\ Has(q, c.kind)
    BY <1>2 DEF Has
  <1>4. InSession(s, q, e, r)
    <2>1. /\ Has(p, "spawn") <=> Has(q, "spawn")
          /\ Has(p, "attach") <=> Has(q, "attach")
          /\ Has(p, "reset") <=> Has(q, "reset")
      BY <1>3 DEF Kinds, Starting, Working
    <2>2. /\ s.init # 0 /\ ~Has(q, "spawn") /\ ~Has(q, "attach") => ~r.attached
          /\ s.reset = 0 => r.session = s.session
      BY <1>1, <2>1 DEF InSession
    <2>3. \A i \in 1 .. Len(q) : q[i].kind \in Starting \cup {"reset"} => i \in 1 .. Len(p) /\ q[i] = p[i]
      BY <1>2
    <2>4. \A i \in 1 .. Len(p) : After(p, "reset", i) => After(q, "reset", i)
      BY <1>2 DEF After
    <2>5. \A i \in 1 .. Len(q) : q[i].kind = "spawn" =>
                /\ ~r.attached
                /\ i <= Len(e) + 1
                /\ Has(q, "reset") \/ AsStarted(r, q[i])
                /\ i <= Len(e) => e[i].result # "refused"
      BY <1>1, <2>1, <2>3 DEF InSession, Starting
    <2>6. \A i \in 1 .. Len(q) : q[i].kind = "attach" =>
                /\ i > Len(e) => ~r.attached
                /\ i > Len(e) => After(q, "reset", i) \/ AsStarted(r, q[i])
                /\ i <= Len(e) /\ e[i].result = "refused" => After(q, "reset", i)
      BY <1>1, <2>3, <2>4 DEF InSession, Starting
    <2>7. \A i \in 1 .. Len(q) : q[i].kind = "reset" =>
                /\ i <= Len(e) => e[i].result # "refused"
                /\ i <= Len(e) /\ e[i].result = "ok" =>
                      /\ r.attached
                      /\ \A j \in 1 .. Len(q) : q[j].kind \in Starting => j < i
                /\ ~Renewed(e, i) => r.session + 1 = s.session
                /\ Renewed(e, i) =>
                      /\ r.session = s.session
                      /\ r.tab = s.tab /\ r.generation = Gen(s)
                      /\ r.views = {s.tab}
      BY <1>1, <2>3 DEF InSession
    <2>. QED BY <2>2, <2>5, <2>6, <2>7 DEF InSession
  <1>5. s.reset = 0 => Alone(s, q, r)
    BY DEF Alone
  <1>6. /\ Views(s, q, e, r)
        /\ c.kind # "render" => Frames(s, q, e, r, x)
        /\ c.kind \notin {"render", "close"} => Retiring(s, q, r)
        /\ c.kind \notin {"close", "navigate", "cancel"} => Ordered(q, e, r)
        /\ c.kind # "navigate" => /\ Local(s, q, r) /\ Stopped(q, e, r)
                                  /\ Owned(s, q, r) /\ Answered(s, q, e, r)
        /\ Drawn(s, p) => Drawn(s, q)
    BY <1>1, Behind
  <1>7. /\ \A i \in 1 .. Len(p) : Awaited(s, p[i])
        /\ \A i, j \in 1 .. Len(p) : Alike(p[i], p[j]) => i = j
    BY <1>1 DEF Matched
  <1>. QED BY <1>1, <1>2, <1>3, <1>4, <1>5, <1>6, <1>7

\* Every command in the pipe is one the shell waits for.
LEMMA WaitedFor ==
    ASSUME NEW s, NEW p, NEW e, Pipes(p, e), Matched(s, p), NEW i \in 1 .. Len(p)
    PROVE  /\ p[i].kind \in Kinds
           /\ p[i].kind \in Starting => s.init # 0 /\ p[i].id = s.init
           /\ p[i].kind = "create" =>
                 /\ s.creating # NotCreating /\ s.creating.id # 0
                 /\ p[i].id = s.creating.id /\ p[i].tab = s.creating.tab
           /\ p[i].kind = "render" => s.frame # 0 /\ p[i].id = s.frame
           /\ p[i].kind = "replace" => s.surface # 0 /\ p[i].id = s.surface /\ p[i].tab = s.recovery.tab
           /\ p[i].kind = "reset" =>
                 /\ s.reset # 0 /\ p[i].id = s.reset
                 /\ p[i].tab = s.tab /\ p[i].generation = Gen(s)
           /\ p[i].kind = "close" => s.closing # NoTab /\ p[i].tab = s.closing
           /\ p[i].kind = "cancel" => s.cancelling # NoTarget /\ p[i].target = s.cancelling
  <1>1. p[i] \in Command /\ Awaited(s, p[i])
    BY DEF Pipes, Matched
  <1>2. /\ p[i].kind \in Kinds
        /\ p[i].kind \in Starting \cup Working => p[i].id # 0
        /\ p[i].kind = "close" => p[i].tab # NoTab
        /\ p[i].kind = "cancel" => p[i].target # NoTarget
    <2>1. /\ p[i].kind \in Kinds
          /\ p[i].kind \in Starting \cup Working => p[i].id \in Nat \ {0}
          /\ p[i].kind = "close" => p[i].tab \in Tab
          /\ p[i].kind = "cancel" => p[i].target \in Target
      BY <1>1, CommandIs
    <2>. QED BY <2>1 DEF Tab, NoTab, Target, NoTarget
  <1>. QED BY <1>1, <1>2 DEF Awaited, NotCreating, Starting, Working, Kinds

\* The replies to the start of the worker, when the pipe has no other.
LEMMA InSessionStarted ==
    ASSUME NEW s, NEW p, NEW e, NEW q, NEW f, NEW r, NEW t, Pipes(p, e), Pop(p, q), Pop(e, f),
           InSession(s, p, e, r), \A i \in 1 .. Len(q) : q[i].kind \notin Starting,
           t.reset = s.reset, t.session = s.session, t.tab = s.tab, Gen(t) = Gen(s),
           t.init # 0 => ~r.attached
    PROVE  InSession(t, q, f, r)
  <1>1. /\ Len(p) \in Nat /\ Len(q) \in Nat /\ Len(e) \in Nat /\ Len(f) \in Nat
        /\ \A i \in 1 .. Len(q) : /\ i + 1 \in 1 .. Len(p) /\ q[i] = p[i + 1]
                                  /\ i <= Len(f) <=> i + 1 <= Len(e)
        /\ \A i \in 1 .. Len(f) : f[i] = e[i + 1]
        /\ Len(f) = Len(e) - 1
    BY PopIs
  <1>2. ASSUME NEW i \in 1 .. Len(q), q[i].kind = "reset"
        PROVE  /\ i <= Len(f) => f[i].result # "refused"
               /\ i <= Len(f) /\ f[i].result = "ok" =>
                     /\ r.attached
                     /\ \A j \in 1 .. Len(q) : q[j].kind \in Starting => j < i
               /\ ~Renewed(f, i) => r.session + 1 = t.session
               /\ Renewed(f, i) =>
                     /\ r.session = t.session
                     /\ r.tab = t.tab /\ r.generation = Gen(t)
                     /\ r.views = {t.tab}
    <2>1. /\ i + 1 \in 1 .. Len(p) /\ q[i] = p[i + 1]
          /\ i <= Len(f) => i + 1 <= Len(e) /\ f[i] = e[i + 1]
          /\ i > Len(f) => i + 1 > Len(e)
      BY <1>1
    <2>2. Renewed(f, i) <=> Renewed(e, i + 1)
      BY <1>1, <2>1 DEF Renewed
    <2>3. /\ i + 1 <= Len(e) => e[i + 1].result # "refused"
          /\ i + 1 <= Len(e) /\ e[i + 1].result = "ok" => r.attached
          /\ ~Renewed(e, i + 1) => r.session + 1 = s.session
          /\ Renewed(e, i + 1) => /\ r.session = s.session
                                  /\ r.tab = s.tab /\ r.generation = Gen(s)
                                  /\ r.views = {s.tab}
      BY <1>2, <2>1 DEF InSession
    <2>. QED BY <2>1, <2>2, <2>3
  <1>3. t.reset = 0 => r.session = t.session
    BY DEF InSession
  <1>4. \A i \in 1 .. Len(q) : q[i].kind # "spawn" /\ q[i].kind # "attach"
    BY DEF Starting
  <1>. QED BY <1>2, <1>3, <1>4 DEF InSession

LEMMA TabsAre ==
    ASSUME NEW s \in Shell, Strip(s)
    PROVE  /\ Range(s.tabs) \subseteq Tab /\ s.materialized \subseteq Tab
           /\ s.tab \in Tab /\ s.active \in Tab /\ s.tab = s.active
           /\ s.tab \in Range(s.tabs) /\ s.tab \in s.materialized
           /\ Len(s.tabs) \in Nat /\ s.tabs \in Seq(Tab)
           /\ \A i \in 1 .. Len(s.tabs) : s.tabs[i] \in Range(s.tabs)
           /\ \A u \in Range(s.tabs) : \E i \in 1 .. Len(s.tabs) : s.tabs[i] = u
  <1>1. s.tabs \in Seq(Tab) /\ s.materialized \subseteq Tab
    BY DEF Shell
  <1>2. DOMAIN s.tabs = 1 .. Len(s.tabs) /\ Len(s.tabs) \in Nat
        /\ \A i \in 1 .. Len(s.tabs) : s.tabs[i] \in Tab
    BY <1>1
  <1>3. Range(s.tabs) = {s.tabs[i] : i \in 1 .. Len(s.tabs)}
    BY <1>2 DEF Range
  <1>. QED BY <1>1, <1>2, <1>3 DEF Strip

\* What a frame under way depends on.
SameFrames(s, t) ==
    /\ t.session = s.session /\ t.handoff = s.handoff /\ t.permit = s.permit
    /\ t.materialized = s.materialized /\ t.tabs = s.tabs /\ t.active = s.active
    /\ t.surface = s.surface /\ t.recovery = s.recovery /\ t.reset = s.reset

LEMMA FramesAlike ==
    ASSUME NEW s, NEW t, SameFrames(s, t), NEW p, NEW e, NEW r, NEW x, Frames(s, p, e, r, x)
    PROVE  Frames(t, p, e, r, x)
  BY DEF SameFrames, Frames, Fits, Switching, Gen

-----------------------------------------------------------------------------
(* Steps of the shell.                                                     *)

\* What is no part of the invariant, or hardly.
LEMMA Untouched ==
    ASSUME NEW s, NEW p, NEW e, NEW r, NEW x,
           SoundButDrawn(s, p, e, r, x),
           NEW t \in Shell, Differ(s, t, {"dirty", "redraw", "out", "nextActivation", "restoring", "seeking", "unlocking"}),
           t.nextActivation >= s.nextActivation, t.restoring => s.restoring,
           t.seeking => s.reset = 0 /\ ~t.unlocking /\ s.session < MaxSessions
    PROVE  SoundButDrawn(t, p, e, r, x)
  <1>1. s \in Shell /\ ~s.down /\ Strip(s) /\ Chrome(s) /\ Exclusive(s) /\ Loading(s)
    BY DEF Sound, SoundButDrawn, SoundShell
  <1>2. /\ Pipes(p, e) /\ r \in Worker /\ Matched(s, p) /\ Alone(s, p, r)
        /\ InSession(s, p, e, r) /\ Frames(s, p, e, r, x) /\ Retiring(s, p, r)
        /\ Painted(s, x) /\ Views(s, p, e, r) /\ Local(s, p, r) /\ Ordered(p, e, r)
        /\ Stopped(p, e, r) /\ Owned(s, p, r) /\ Answered(s, p, e, r)
    BY DEF Sound, SoundButDrawn
  <1>strip. Strip(t)
    BY <1>1 DEF Strip, Differ, Fields
  <1>chrome. Chrome(t)
    <2>1. s.nextActivation \in Nat /\ t.nextActivation \in Nat
      BY <1>1 DEF Shell
    <2>2. \A id : id \in 1 .. s.nextActivation - 1 => id \in 1 .. t.nextActivation - 1
      BY <2>1
    <2>. QED BY <1>1, <2>2 DEF Chrome, Switching, Differ, Fields
  <1>exclusive. Exclusive(t)
    BY <1>1 DEF Exclusive, Switching, Differ, Fields
  <1>loading. Loading(t)
    BY <1>1 DEF Loading, Differ, Fields
  <1>shell. SoundShell(t)
    BY <1>1, <1>strip, <1>chrome, <1>exclusive, <1>loading DEF SoundShell, Differ, Fields
  <1>matched. Matched(t, p)
    BY <1>2 DEF Matched, Awaited, Switching, Gen, Differ, Fields
  <1>alone. Alone(t, p, r)
    BY <1>2 DEF Alone, Differ, Fields
  <1>insession. InSession(t, p, e, r)
    BY <1>2 DEF InSession, Gen, Differ, Fields
  <1>frames. Frames(t, p, e, r, x)
    <2>1. SameFrames(s, t)
      BY DEF SameFrames, Differ, Fields
    <2>. QED BY <1>2, <2>1, FramesAlike
  <1>retiring. Retiring(t, p, r)
    BY <1>2 DEF Retiring, Switching, Gen, Differ, Fields
  <1>painted. Painted(t, x)
    BY <1>2 DEF Painted, Seen, Switching, Differ, Fields
  <1>views. Views(t, p, e, r)
    BY <1>2 DEF Views, Differ, Fields
  <1>local. Local(t, p, r)
    BY <1>2 DEF Local, Differ, Fields
  <1>ordered. Ordered(p, e, r)
    BY <1>2
  <1>stopped. Stopped(p, e, r)
    BY <1>2
  <1>owned. Owned(t, p, r)
    BY <1>2 DEF Owned, Own, Differ, Fields
  <1>answered. Answered(t, p, e, r)
    BY <1>2 DEF Answered, Differ, Fields
  <1>rest. SoundButDrawn(t, p, e, r, x)
    BY <1>2, <1>shell, <1>matched, <1>alone, <1>insession, <1>frames, <1>retiring,
       <1>painted, <1>views, <1>local, <1>ordered, <1>stopped, <1>owned, <1>answered DEF SoundButDrawn
  <1>. QED BY <1>rest

\* The window is shown.
LEMMA ShowIs ==
    ASSUME NEW s, NEW p, NEW e, NEW r, NEW x,
           Sound(s, p, e, r, x),
           ~Switching(s), s.reset = 0, x \in {NoPage, Seen(s)},
           NEW t \in Shell, Differ(s, t, {"visible"})
    PROVE  Sound(t, p, e, r, x)
  <1>1. s \in Shell /\ ~s.down /\ Strip(s) /\ Chrome(s) /\ Exclusive(s) /\ Loading(s)
    BY DEF Sound, SoundButDrawn, SoundShell
  <1>2. /\ Pipes(p, e) /\ r \in Worker /\ Matched(s, p) /\ Alone(s, p, r)
        /\ InSession(s, p, e, r) /\ Frames(s, p, e, r, x) /\ Retiring(s, p, r)
        /\ Painted(s, x) /\ Views(s, p, e, r) /\ Local(s, p, r) /\ Ordered(p, e, r)
        /\ Stopped(p, e, r) /\ Owned(s, p, r) /\ Answered(s, p, e, r) /\ Drawn(s, p)
    BY DEF Sound, SoundButDrawn
  <1>strip. Strip(t)
    BY <1>1 DEF Strip, Differ, Fields
  <1>chrome. Chrome(t)
    BY <1>1 DEF Chrome, Switching, Differ, Fields
  <1>exclusive. Exclusive(t)
    BY <1>1 DEF Exclusive, Switching, Differ, Fields
  <1>loading. Loading(t)
    BY <1>1 DEF Loading, Differ, Fields
  <1>shell. SoundShell(t)
    BY <1>1, <1>strip, <1>chrome, <1>exclusive, <1>loading DEF SoundShell, Differ, Fields
  <1>matched. Matched(t, p)
    BY <1>2 DEF Matched, Awaited, Switching, Gen, Differ, Fields
  <1>alone. Alone(t, p, r)
    BY <1>2 DEF Alone, Differ, Fields
  <1>insession. InSession(t, p, e, r)
    BY <1>2 DEF InSession, Gen, Differ, Fields
  <1>frames. Frames(t, p, e, r, x)
    <2>1. SameFrames(s, t)
      BY DEF SameFrames, Differ, Fields
    <2>. QED BY <1>2, <2>1, FramesAlike
  <1>retiring. Retiring(t, p, r)
    BY <1>2 DEF Retiring, Switching, Gen, Differ, Fields
  <1>painted. Painted(t, x)
    BY <1>1, <1>2 DEF Painted, Seen, Switching, Differ, Fields
  <1>views. Views(t, p, e, r)
    BY <1>2 DEF Views, Differ, Fields
  <1>local. Local(t, p, r)
    BY <1>2 DEF Local, Differ, Fields
  <1>ordered. Ordered(p, e, r)
    BY <1>2
  <1>stopped. Stopped(p, e, r)
    BY <1>2
  <1>owned. Owned(t, p, r)
    BY <1>2 DEF Owned, Own, Differ, Fields
  <1>answered. Answered(t, p, e, r)
    BY <1>2 DEF Answered, Differ, Fields
  <1>rest. SoundButDrawn(t, p, e, r, x)
    BY <1>2, <1>shell, <1>matched, <1>alone, <1>insession, <1>frames, <1>retiring,
       <1>painted, <1>views, <1>local, <1>ordered, <1>stopped, <1>owned, <1>answered DEF SoundButDrawn
  <1>drawn. Drawn(t, p)
    BY <1>2 DEF Drawn, Switching, Gen, Differ, Fields
  <1>. QED BY <1>rest, <1>drawn DEF Sound

\* A frame is answered.
LEMMA FrameDone ==
    ASSUME NEW s, NEW p, NEW e, NEW r, NEW x, NEW q, NEW f,
           SoundButDrawn(s, p, e, r, x),
           Pop(p, q), Pop(e, f), p[1].kind = "render",
           NEW t \in Shell, Differ(s, t, {"frame"}),
           t.frame = 0
    PROVE  SoundButDrawn(t, q, f, r, x)
  <1>1. s \in Shell /\ ~s.down /\ Strip(s) /\ Chrome(s) /\ Exclusive(s) /\ Loading(s)
    BY DEF Sound, SoundButDrawn, SoundShell
  <1>2. SoundButDrawn(s, p, e, r, x)
    BY DEF Sound
  <1>3. /\ Pipes(q, f) /\ r \in Worker /\ Alone(s, q, r) /\ Frames(s, q, f, r, x)
        /\ Retiring(s, q, r) /\ Painted(s, x) /\ Local(s, q, r) /\ Ordered(q, f, r)
        /\ Stopped(q, f, r) /\ Owned(s, q, r) /\ InSession(s, q, f, r)
        /\ Views(s, q, f, r) /\ Answered(s, q, f, r)
    BY <1>2, Popped DEF Starting
  <1>4. /\ Pipes(p, e) /\ Matched(s, p) /\ Alone(s, p, r) /\ InSession(s, p, e, r)
        /\ Frames(s, p, e, r, x) /\ Retiring(s, p, r) /\ Painted(s, x)
        /\ Views(s, p, e, r) /\ Local(s, p, r) /\ Ordered(p, e, r) /\ Stopped(p, e, r)
        /\ Owned(s, p, r) /\ Answered(s, p, e, r)
    BY DEF Sound, SoundButDrawn
  <1>5. /\ \A i \in 1 .. Len(q) :
              /\ ~Alike(p[1], q[i]) /\ Awaited(s, q[i])
              /\ \A j \in 1 .. Len(q) : Alike(q[i], q[j]) => i = j
    BY <1>4, Unlike
  <1>6. /\ p[1] \in Command /\ e[1].of = p[1] /\ e[1].result \in Results(p[1].kind)
        /\ 1 \in 1 .. Len(p) /\ 1 \in 1 .. Len(e)
    BY <1>4, PopIs
  <1>7. Awaited(s, p[1])
    BY <1>4, <1>6 DEF Matched
  <1>8. \A kind \in Kinds : Has(p, kind) /\ kind # "render" => Has(q, kind)
    BY <1>4, HasPop
  <1>strip. Strip(t)
    BY <1>1 DEF Strip, Differ, Fields
  <1>chrome. Chrome(t)
    BY <1>1 DEF Chrome, Switching, Differ, Fields
  <1>exclusive. Exclusive(t)
    BY <1>1 DEF Exclusive, Switching, Differ, Fields
  <1>loading. Loading(t)
    BY <1>1 DEF Loading, Differ, Fields
  <1>shell. SoundShell(t)
    BY <1>1, <1>strip, <1>chrome, <1>exclusive, <1>loading DEF SoundShell, Differ, Fields
  <1>matched. Matched(t, q)
    <2>1. \A i \in 1 .. Len(q) : Awaited(t, q[i])
      BY <1>5 DEF Awaited, Alike, Starting, Working, Differ, Fields, Gen
    <2>2. \A kind \in Kinds \ {"render"} : Has(p, kind) => Has(q, kind)
      BY <1>8
    <2>. QED BY <1>4, <1>5, <2>1, <2>2 DEF Matched, Kinds, Starting, Working, Switching, Differ, Fields
  <1>alone. Alone(t, q, r)
    BY <1>3 DEF Alone, Differ, Fields
  <1>insession. InSession(t, q, f, r)
    BY <1>3 DEF InSession, Gen, Differ, Fields
  <1>frames. Frames(t, q, f, r, x)
    <2>1. SameFrames(s, t)
      BY DEF SameFrames, Differ, Fields
    <2>. QED BY <1>3, <2>1, FramesAlike
  <1>retiring. Retiring(t, q, r)
    BY <1>3 DEF Retiring, Switching, Gen, Differ, Fields
  <1>painted. Painted(t, x)
    BY <1>3 DEF Painted, Seen, Switching, Differ, Fields
  <1>views. Views(t, q, f, r)
    BY <1>3 DEF Views, Differ, Fields
  <1>local. Local(t, q, r)
    BY <1>3 DEF Local, Differ, Fields
  <1>ordered. Ordered(q, f, r)
    BY <1>3
  <1>stopped. Stopped(q, f, r)
    BY <1>3
  <1>owned. Owned(t, q, r)
    BY <1>3 DEF Owned, Own, Differ, Fields
  <1>answered. Answered(t, q, f, r)
    BY <1>3 DEF Answered, Differ, Fields
  <1>rest. SoundButDrawn(t, q, f, r, x)
    BY <1>3, <1>shell, <1>matched, <1>alone, <1>insession, <1>frames, <1>retiring,
       <1>painted, <1>views, <1>local, <1>ordered, <1>stopped, <1>owned, <1>answered DEF SoundButDrawn
  <1>. QED BY <1>rest

\* The surface is replaced.
LEMMA SurfaceDone ==
    ASSUME NEW s, NEW p, NEW e, NEW r, NEW x, NEW q, NEW f,
           SoundButDrawn(s, p, e, r, x),
           Pop(p, q), Pop(e, f), p[1].kind = "replace",
           NEW t \in Shell, Differ(s, t, {"surface", "recovery"}),
           t.surface = 0, t.recovery = NoPermit
    PROVE  SoundButDrawn(t, q, f, r, x)
  <1>1. s \in Shell /\ ~s.down /\ Strip(s) /\ Chrome(s) /\ Exclusive(s) /\ Loading(s)
    BY DEF Sound, SoundButDrawn, SoundShell
  <1>2. SoundButDrawn(s, p, e, r, x)
    BY DEF Sound
  <1>3. /\ Pipes(q, f) /\ r \in Worker /\ Alone(s, q, r) /\ Frames(s, q, f, r, x)
        /\ Retiring(s, q, r) /\ Painted(s, x) /\ Local(s, q, r) /\ Ordered(q, f, r)
        /\ Stopped(q, f, r) /\ Owned(s, q, r) /\ InSession(s, q, f, r)
        /\ Views(s, q, f, r) /\ Answered(s, q, f, r)
    BY <1>2, Popped DEF Starting
  <1>4. /\ Pipes(p, e) /\ Matched(s, p) /\ Alone(s, p, r) /\ InSession(s, p, e, r)
        /\ Frames(s, p, e, r, x) /\ Retiring(s, p, r) /\ Painted(s, x)
        /\ Views(s, p, e, r) /\ Local(s, p, r) /\ Ordered(p, e, r) /\ Stopped(p, e, r)
        /\ Owned(s, p, r) /\ Answered(s, p, e, r)
    BY DEF Sound, SoundButDrawn
  <1>5. /\ \A i \in 1 .. Len(q) :
              /\ ~Alike(p[1], q[i]) /\ Awaited(s, q[i])
              /\ \A j \in 1 .. Len(q) : Alike(q[i], q[j]) => i = j
    BY <1>4, Unlike
  <1>6. /\ p[1] \in Command /\ e[1].of = p[1] /\ e[1].result \in Results(p[1].kind)
        /\ 1 \in 1 .. Len(p) /\ 1 \in 1 .. Len(e)
    BY <1>4, PopIs
  <1>7. Awaited(s, p[1])
    BY <1>4, <1>6 DEF Matched
  <1>8. \A kind \in Kinds : Has(p, kind) /\ kind # "replace" => Has(q, kind)
    BY <1>4, HasPop
  <1>strip. Strip(t)
    BY <1>1 DEF Strip, Differ, Fields
  <1>chrome. Chrome(t)
    BY <1>1 DEF Chrome, Switching, Differ, Fields
  <1>exclusive. Exclusive(t)
    BY <1>1 DEF Exclusive, Switching, Differ, Fields
  <1>loading. Loading(t)
    BY <1>1 DEF Loading, Differ, Fields
  <1>shell. SoundShell(t)
    BY <1>1, <1>strip, <1>chrome, <1>exclusive, <1>loading DEF SoundShell, Differ, Fields
  <1>matched. Matched(t, q)
    <2>1. \A i \in 1 .. Len(q) : Awaited(t, q[i])
      BY <1>5 DEF Awaited, Alike, Starting, Working, Differ, Fields, Gen
    <2>2. \A kind \in Kinds \ {"replace"} : Has(p, kind) => Has(q, kind)
      BY <1>8
    <2>. QED BY <1>4, <1>5, <2>1, <2>2 DEF Matched, Kinds, Starting, Working, Switching, Differ, Fields
  <1>alone. Alone(t, q, r)
    BY <1>3 DEF Alone, Differ, Fields
  <1>insession. InSession(t, q, f, r)
    BY <1>3 DEF InSession, Gen, Differ, Fields
  <1>frames. Frames(t, q, f, r, x)
    BY <1>1, <1>3 DEF Frames, Fits, Switching, Gen, Differ, Fields
  <1>retiring. Retiring(t, q, r)
    BY <1>1, <1>3 DEF Retiring, Switching, Gen, Differ, Fields
  <1>painted. Painted(t, x)
    BY <1>3 DEF Painted, Seen, Switching, Differ, Fields
  <1>views. Views(t, q, f, r)
    BY <1>3 DEF Views, Differ, Fields
  <1>local. Local(t, q, r)
    BY <1>3 DEF Local, Differ, Fields
  <1>ordered. Ordered(q, f, r)
    BY <1>3
  <1>stopped. Stopped(q, f, r)
    BY <1>3
  <1>owned. Owned(t, q, r)
    BY <1>3 DEF Owned, Own, Differ, Fields
  <1>answered. Answered(t, q, f, r)
    BY <1>3 DEF Answered, Differ, Fields
  <1>rest. SoundButDrawn(t, q, f, r, x)
    BY <1>3, <1>shell, <1>matched, <1>alone, <1>insession, <1>frames, <1>retiring,
       <1>painted, <1>views, <1>local, <1>ordered, <1>stopped, <1>owned, <1>answered DEF SoundButDrawn
  <1>. QED BY <1>rest

-----------------------------------------------------------------------------
(* Answers that end what the shell waited for.                             *)

\* The frame of the target ends the switch.
LEMMA Settle ==
    ASSUME NEW s, NEW p, NEW e, NEW r, NEW x,
           SoundButDrawn(s, p, e, r, x),
           Switching(s), s.permit = NoPermit, s.frame = 0, s.surface = 0, s.closing = NoTab,
           r.generation = Gen(s),
           NEW t \in Shell, Differ(s, t, {"handoff"}),
           ~Switching(t), t.handoff.represented = s.active, t.handoff.content = s.active,
           Gen(t) = Gen(s)
    PROVE  Sound(t, p, e, r, x)
  <1>1. s \in Shell /\ ~s.down /\ Strip(s) /\ Chrome(s) /\ Exclusive(s) /\ Loading(s)
    BY DEF Sound, SoundButDrawn, SoundShell
  <1>2. /\ Pipes(p, e) /\ r \in Worker /\ Matched(s, p) /\ Alone(s, p, r)
        /\ InSession(s, p, e, r) /\ Frames(s, p, e, r, x) /\ Retiring(s, p, r)
        /\ Painted(s, x) /\ Views(s, p, e, r) /\ Local(s, p, r) /\ Ordered(p, e, r)
        /\ Stopped(p, e, r) /\ Owned(s, p, r) /\ Answered(s, p, e, r)
    BY DEF Sound, SoundButDrawn
  <1>3. s.reset = 0 /\ s.ready /\ \A i \in 1 .. Len(p) : p[i].kind # "render"
    BY <1>1, <1>2, WaitedFor DEF Exclusive
  <1>strip. Strip(t)
    BY <1>1 DEF Strip, Differ, Fields
  <1>chrome. Chrome(t)
    BY <1>1 DEF Chrome, Differ, Fields
  <1>exclusive. Exclusive(t)
    BY <1>1, <1>3 DEF Exclusive, Differ, Fields
  <1>loading. Loading(t)
    BY <1>1 DEF Loading, Differ, Fields
  <1>shell. SoundShell(t)
    BY <1>1, <1>strip, <1>chrome, <1>exclusive, <1>loading DEF SoundShell, Differ, Fields
  <1>matched. Matched(t, p)
    BY <1>1, <1>2, <1>3 DEF Matched, Awaited, Differ, Fields
  <1>alone. Alone(t, p, r)
    BY <1>2 DEF Alone, Differ, Fields
  <1>insession. InSession(t, p, e, r)
    BY <1>1, <1>2 DEF InSession, Gen, Differ, Fields
  <1>frames. Frames(t, p, e, r, x)
    BY <1>1, <1>2, <1>3 DEF Frames, Differ, Fields
  <1>retiring. Retiring(t, p, r)
    BY <1>1, <1>2, <1>3 DEF Retiring, Differ, Fields
  <1>painted. Painted(t, x)
    BY <1>1, <1>2 DEF Painted, Seen, Switching, Differ, Fields
  <1>views. Views(t, p, e, r)
    BY <1>2 DEF Views, Differ, Fields
  <1>local. Local(t, p, r)
    BY <1>2 DEF Local, Differ, Fields
  <1>ordered. Ordered(p, e, r)
    BY <1>2
  <1>stopped. Stopped(p, e, r)
    BY <1>2
  <1>owned. Owned(t, p, r)
    BY <1>2 DEF Owned, Own, Differ, Fields
  <1>answered. Answered(t, p, e, r)
    BY <1>2 DEF Answered, Differ, Fields
  <1>rest. SoundButDrawn(t, p, e, r, x)
    BY <1>2, <1>shell, <1>matched, <1>alone, <1>insession, <1>frames, <1>retiring,
       <1>painted, <1>views, <1>local, <1>ordered, <1>stopped, <1>owned, <1>answered DEF SoundButDrawn
  <1>drawn. Drawn(t, p)
    BY DEF Drawn
  <1>. QED BY <1>rest, <1>drawn DEF Sound

\* The worker has its surface.
LEMMA AttachDone ==
    ASSUME NEW s, NEW p, NEW e, NEW r, NEW x, NEW q, NEW f,
           Sound(s, p, e, r, x),
           Pop(p, q), Pop(e, f), p[1].kind = "attach",
           e[1].result = "ok",
           NEW t \in Shell, Differ(s, t, {"init", "initial", "loading", "ready", "dirty"}),
           t.init = 0, t.initial = 0, t.ready,
           t.loading = IF s.initial = 0 THEN s.loading ELSE [s.loading EXCEPT ![s.tab] = 0]
    PROVE  Sound(t, q, f, r, x)
  <1>1. s \in Shell /\ ~s.down /\ Strip(s) /\ Chrome(s) /\ Exclusive(s) /\ Loading(s)
    BY DEF Sound, SoundButDrawn, SoundShell
  <1>2. SoundButDrawn(s, p, e, r, x) /\ Drawn(s, p)
    BY DEF Sound
  <1>3. /\ Pipes(q, f) /\ r \in Worker /\ Alone(s, q, r) /\ Frames(s, q, f, r, x)
        /\ Retiring(s, q, r) /\ Painted(s, x) /\ Local(s, q, r) /\ Ordered(q, f, r)
        /\ Stopped(q, f, r) /\ Owned(s, q, r) /\ Views(s, q, f, r)
        /\ Answered(s, q, f, r) /\ Drawn(s, q)
    BY <1>2, Popped DEF Starting
  <1>4. /\ Pipes(p, e) /\ Matched(s, p) /\ Alone(s, p, r) /\ InSession(s, p, e, r)
        /\ Frames(s, p, e, r, x) /\ Retiring(s, p, r) /\ Painted(s, x)
        /\ Views(s, p, e, r) /\ Local(s, p, r) /\ Ordered(p, e, r) /\ Stopped(p, e, r)
        /\ Owned(s, p, r) /\ Answered(s, p, e, r) /\ Drawn(s, p)
    BY DEF Sound, SoundButDrawn
  <1>5. /\ \A i \in 1 .. Len(q) :
              /\ ~Alike(p[1], q[i]) /\ Awaited(s, q[i])
              /\ \A j \in 1 .. Len(q) : Alike(q[i], q[j]) => i = j
    BY <1>4, Unlike
  <1>6. /\ p[1] \in Command /\ e[1].of = p[1] /\ e[1].result \in Results(p[1].kind)
        /\ 1 \in 1 .. Len(p) /\ 1 \in 1 .. Len(e)
    BY <1>4, PopIs
  <1>7. Awaited(s, p[1])
    BY <1>4, <1>6 DEF Matched
  <1>8. \A kind \in Kinds : Has(p, kind) /\ kind # "attach" => Has(q, kind)
    BY <1>4, HasPop
  <1>strip. Strip(t)
    BY <1>1 DEF Strip, Differ, Fields
  <1>chrome. Chrome(t)
    BY <1>1 DEF Chrome, Switching, Differ, Fields
  <1>exclusive. Exclusive(t)
    BY <1>1 DEF Exclusive, Switching, Differ, Fields
  <1>loading. Loading(t)
    <2>1. \A u \in Range(s.tabs) :
             t.loading[u] = IF s.initial # 0 /\ u = s.tab THEN 0 ELSE s.loading[u]
      <3>1. Range(s.tabs) \subseteq Tab /\ s.loading \in [Tab -> Nat]
        BY <1>1, TabsAre DEF Shell
      <3>. QED BY <3>1
    <2>2. s.initial # 0 => s.creating = NotCreating
      BY <1>1 DEF Loading, Exclusive
    <2>3. /\ t.tabs = s.tabs /\ t.nextNavigation = s.nextNavigation /\ t.targets = s.targets
          /\ t.creating = s.creating /\ t.tab = s.tab
      BY DEF Differ, Fields
    <2>4. s.nextNavigation \in Nat \ {0}
      BY <1>1 DEF Shell
    <2>5. s.creating # NotCreating => s.creating.tab \in Range(s.tabs)
      BY <1>1 DEF Strip
    <2>6. \A u \in Range(s.tabs) :
             /\ t.loading[u] < s.nextNavigation
             /\ s.targets[u] # NoTarget => t.loading[u] = s.targets[u].navigation
             /\ t.loading[u] # 0 => \/ s.creating # NotCreating /\ u = s.creating.tab
                                   \/ s.targets[u] # NoTarget
      BY <1>1, <2>1, <2>2, <2>4 DEF Loading
    <2>7. \A u, v \in Range(s.tabs) : t.loading[u] = t.loading[v] /\ u # v => t.loading[u] = 0
      BY <1>1, <2>1 DEF Loading
    <2>. QED BY <1>1, <2>1, <2>2, <2>3, <2>5, <2>6, <2>7 DEF Loading
  <1>shell. SoundShell(t)
    BY <1>1, <1>strip, <1>chrome, <1>exclusive, <1>loading DEF SoundShell, Differ, Fields
  <1>matched. Matched(t, q)
    <2>1. \A i \in 1 .. Len(q) : Awaited(t, q[i])
      BY <1>5 DEF Awaited, Alike, Starting, Working, Differ, Fields, Gen
    <2>2. \A kind \in Kinds \ {"attach"} : Has(p, kind) => Has(q, kind)
      BY <1>8
    <2>. QED BY <1>4, <1>5, <2>1, <2>2 DEF Matched, Kinds, Starting, Working, Switching, Differ, Fields
  <1>alone. Alone(t, q, r)
    BY <1>3 DEF Alone, Differ, Fields
  <1>insession. InSession(t, q, f, r)
    <2>1. \A i \in 1 .. Len(q) : q[i].kind \notin Starting
      BY <1>5 DEF Alike, Starting
    <2>. QED BY <1>4, <2>1, InSessionStarted DEF Differ, Fields, Gen
  <1>frames. Frames(t, q, f, r, x)
    <2>1. SameFrames(s, t)
      BY DEF SameFrames, Differ, Fields
    <2>. QED BY <1>3, <2>1, FramesAlike
  <1>retiring. Retiring(t, q, r)
    BY SMTT(30), <1>3 DEF Retiring, Switching, Gen, Differ, Fields
  <1>painted. Painted(t, x)
    BY <1>3 DEF Painted, Seen, Switching, Differ, Fields
  <1>views. Views(t, q, f, r)
    BY <1>3 DEF Views, Differ, Fields
  <1>local. Local(t, q, r)
    BY <1>3 DEF Local, Differ, Fields
  <1>ordered. Ordered(q, f, r)
    BY <1>3
  <1>stopped. Stopped(q, f, r)
    BY <1>3
  <1>owned. Owned(t, q, r)
    BY <1>3 DEF Owned, Own, Differ, Fields
  <1>answered. Answered(t, q, f, r)
    BY <1>3 DEF Answered, Differ, Fields
  <1>rest. SoundButDrawn(t, q, f, r, x)
    BY <1>3, <1>shell, <1>matched, <1>alone, <1>insession, <1>frames, <1>retiring,
       <1>painted, <1>views, <1>local, <1>ordered, <1>stopped, <1>owned, <1>answered DEF SoundButDrawn
  <1>drawn. Drawn(t, q)
    BY <1>3 DEF Drawn, Switching, Gen, Differ, Fields
  <1>. QED BY <1>rest, <1>drawn DEF Sound

\* The surface of a session that is gone.
LEMMA AttachDead ==
    ASSUME NEW s, NEW p, NEW e, NEW r, NEW x, NEW q, NEW f,
           Sound(s, p, e, r, x),
           Pop(p, q), Pop(e, f), p[1].kind = "attach",
           NEW t \in Shell, Differ(s, t, {"init"}),
           t.init = 0
    PROVE  Sound(t, q, f, r, x)
  <1>1. s \in Shell /\ ~s.down /\ Strip(s) /\ Chrome(s) /\ Exclusive(s) /\ Loading(s)
    BY DEF Sound, SoundButDrawn, SoundShell
  <1>2. SoundButDrawn(s, p, e, r, x) /\ Drawn(s, p)
    BY DEF Sound
  <1>3. /\ Pipes(q, f) /\ r \in Worker /\ Alone(s, q, r) /\ Frames(s, q, f, r, x)
        /\ Retiring(s, q, r) /\ Painted(s, x) /\ Local(s, q, r) /\ Ordered(q, f, r)
        /\ Stopped(q, f, r) /\ Owned(s, q, r) /\ Views(s, q, f, r)
        /\ Answered(s, q, f, r) /\ Drawn(s, q)
    BY ZenonT(40), <1>2, Popped DEF Starting
  <1>4. /\ Pipes(p, e) /\ Matched(s, p) /\ Alone(s, p, r) /\ InSession(s, p, e, r)
        /\ Frames(s, p, e, r, x) /\ Retiring(s, p, r) /\ Painted(s, x)
        /\ Views(s, p, e, r) /\ Local(s, p, r) /\ Ordered(p, e, r) /\ Stopped(p, e, r)
        /\ Owned(s, p, r) /\ Answered(s, p, e, r) /\ Drawn(s, p)
    BY DEF Sound, SoundButDrawn
  <1>5. /\ \A i \in 1 .. Len(q) :
              /\ ~Alike(p[1], q[i]) /\ Awaited(s, q[i])
              /\ \A j \in 1 .. Len(q) : Alike(q[i], q[j]) => i = j
    BY <1>4, Unlike
  <1>6. /\ p[1] \in Command /\ e[1].of = p[1] /\ e[1].result \in Results(p[1].kind)
        /\ 1 \in 1 .. Len(p) /\ 1 \in 1 .. Len(e)
    BY <1>4, PopIs
  <1>7. Awaited(s, p[1])
    BY <1>4, <1>6 DEF Matched
  <1>8. \A kind \in Kinds : Has(p, kind) /\ kind # "attach" => Has(q, kind)
    BY <1>4, HasPop
  <1>strip. Strip(t)
    BY <1>1 DEF Strip, Differ, Fields
  <1>chrome. Chrome(t)
    BY <1>1 DEF Chrome, Switching, Differ, Fields
  <1>exclusive. Exclusive(t)
    BY <1>1 DEF Exclusive, Switching, Differ, Fields
  <1>loading. Loading(t)
    BY <1>1 DEF Loading, Differ, Fields
  <1>shell. SoundShell(t)
    BY <1>1, <1>strip, <1>chrome, <1>exclusive, <1>loading DEF SoundShell, Differ, Fields
  <1>matched. Matched(t, q)
    <2>1. \A i \in 1 .. Len(q) : Awaited(t, q[i])
      BY <1>5 DEF Awaited, Alike, Starting, Working, Differ, Fields, Gen
    <2>2. \A kind \in Kinds \ {"attach"} : Has(p, kind) => Has(q, kind)
      BY <1>8
    <2>. QED BY <1>4, <1>5, <2>1, <2>2 DEF Matched, Kinds, Starting, Working, Switching, Differ, Fields
  <1>alone. Alone(t, q, r)
    BY <1>3 DEF Alone, Differ, Fields
  <1>insession. InSession(t, q, f, r)
    <2>1. \A i \in 1 .. Len(q) : q[i].kind \notin Starting
      BY <1>5 DEF Alike, Starting
    <2>. QED BY <1>4, <2>1, InSessionStarted DEF Differ, Fields, Gen
  <1>frames. Frames(t, q, f, r, x)
    <2>1. SameFrames(s, t)
      BY DEF SameFrames, Differ, Fields
    <2>. QED BY <1>3, <2>1, FramesAlike
  <1>retiring. Retiring(t, q, r)
    BY <1>3 DEF Retiring, Switching, Gen, Differ, Fields
  <1>painted. Painted(t, x)
    BY <1>3 DEF Painted, Seen, Switching, Differ, Fields
  <1>views. Views(t, q, f, r)
    BY <1>3 DEF Views, Differ, Fields
  <1>local. Local(t, q, r)
    BY <1>3 DEF Local, Differ, Fields
  <1>ordered. Ordered(q, f, r)
    BY <1>3
  <1>stopped. Stopped(q, f, r)
    BY <1>3
  <1>owned. Owned(t, q, r)
    BY <1>3 DEF Owned, Own, Differ, Fields
  <1>answered. Answered(t, q, f, r)
    BY <1>3 DEF Answered, Differ, Fields
  <1>rest. SoundButDrawn(t, q, f, r, x)
    BY <1>3, <1>shell, <1>matched, <1>alone, <1>insession, <1>frames, <1>retiring,
       <1>painted, <1>views, <1>local, <1>ordered, <1>stopped, <1>owned, <1>answered DEF SoundButDrawn
  <1>drawn. Drawn(t, q)
    BY <1>3 DEF Drawn, Switching, Gen, Differ, Fields
  <1>. QED BY <1>rest, <1>drawn DEF Sound

\* A view is made.
LEMMA CreateDone ==
    ASSUME NEW s, NEW p, NEW e, NEW r, NEW x, NEW q, NEW f,
           Sound(s, p, e, r, x),
           Pop(p, q), Pop(e, f), p[1].kind = "create",
           e[1].result = "ok",
           NEW t \in Shell, Differ(s, t, {"creating", "loading", "materialized"}),
           t.creating = NotCreating, t.materialized = s.materialized \cup {p[1].tab},
           t.loading = [s.loading EXCEPT ![p[1].tab] = 0]
    PROVE  Sound(t, q, f, r, x)
  <1>1. s \in Shell /\ ~s.down /\ Strip(s) /\ Chrome(s) /\ Exclusive(s) /\ Loading(s)
    BY DEF Sound, SoundButDrawn, SoundShell
  <1>2. SoundButDrawn(s, p, e, r, x) /\ Drawn(s, p)
    BY DEF Sound
  <1>3. /\ Pipes(q, f) /\ r \in Worker /\ Alone(s, q, r) /\ Frames(s, q, f, r, x)
        /\ Retiring(s, q, r) /\ Painted(s, x) /\ Local(s, q, r) /\ Ordered(q, f, r)
        /\ Stopped(q, f, r) /\ Owned(s, q, r) /\ InSession(s, q, f, r)
        /\ Answered(s, q, f, r) /\ Drawn(s, q)
    BY <1>2, Popped DEF Starting
  <1>4. /\ Pipes(p, e) /\ Matched(s, p) /\ Alone(s, p, r) /\ InSession(s, p, e, r)
        /\ Frames(s, p, e, r, x) /\ Retiring(s, p, r) /\ Painted(s, x)
        /\ Views(s, p, e, r) /\ Local(s, p, r) /\ Ordered(p, e, r) /\ Stopped(p, e, r)
        /\ Owned(s, p, r) /\ Answered(s, p, e, r) /\ Drawn(s, p)
    BY DEF Sound, SoundButDrawn
  <1>5. /\ \A i \in 1 .. Len(q) :
              /\ ~Alike(p[1], q[i]) /\ Awaited(s, q[i])
              /\ \A j \in 1 .. Len(q) : Alike(q[i], q[j]) => i = j
    BY <1>4, Unlike
  <1>6. /\ p[1] \in Command /\ e[1].of = p[1] /\ e[1].result \in Results(p[1].kind)
        /\ 1 \in 1 .. Len(p) /\ 1 \in 1 .. Len(e)
    BY <1>4, PopIs
  <1>7. Awaited(s, p[1])
    BY <1>4, <1>6 DEF Matched
  <1>8. \A kind \in Kinds : Has(p, kind) /\ kind # "create" => Has(q, kind)
    BY <1>4, HasPop
  <1>9. s.creating # NotCreating /\ p[1].tab = s.creating.tab
    BY <1>4, <1>6, WaitedFor
  <1>10. /\ s.ready /\ s.reset = 0
         /\ p[1].tab \in Range(s.tabs) \ s.materialized /\ p[1].tab \in Tab
    BY <1>1, <1>9 DEF Strip, Exclusive, Shell
  <1>strip. Strip(t)
    BY <1>1, <1>10 DEF Strip, Differ, Fields
  <1>chrome. Chrome(t)
    BY <1>1 DEF Chrome, Switching, Differ, Fields
  <1>exclusive. Exclusive(t)
    BY <1>1 DEF Exclusive, Switching, Differ, Fields
  <1>loading. Loading(t)
    <2>1. \A u \in Range(s.tabs) :
             t.loading[u] = IF u = p[1].tab THEN 0 ELSE s.loading[u]
      BY <1>1, <1>10, TabsAre DEF Shell
    <2>2. s.initial = 0 /\ s.targets[p[1].tab] = NoTarget
      BY <1>1, <1>9, <1>10 DEF Loading
    <2>3. /\ t.tabs = s.tabs /\ t.nextNavigation = s.nextNavigation /\ t.targets = s.targets
          /\ t.initial = s.initial
      BY DEF Differ, Fields
    <2>4. s.nextNavigation \in Nat \ {0}
      BY <1>1 DEF Shell
    <2>5. \A u \in Range(s.tabs) :
             /\ t.loading[u] < s.nextNavigation
             /\ s.targets[u] # NoTarget => t.loading[u] = s.targets[u].navigation
             /\ t.loading[u] # 0 => s.targets[u] # NoTarget
      BY <1>1, <1>9, <2>1, <2>2, <2>4 DEF Loading
    <2>6. \A u, v \in Range(s.tabs) : t.loading[u] = t.loading[v] /\ u # v => t.loading[u] = 0
      BY <1>1, <2>1 DEF Loading
    <2>. QED BY <2>2, <2>3, <2>5, <2>6 DEF Loading
  <1>shell. SoundShell(t)
    BY <1>1, <1>strip, <1>chrome, <1>exclusive, <1>loading DEF SoundShell, Differ, Fields
  <1>matched. Matched(t, q)
    <2>1. \A i \in 1 .. Len(q) : Awaited(t, q[i])
      BY <1>5 DEF Awaited, Alike, Starting, Working, Differ, Fields, Gen
    <2>2. \A kind \in Kinds \ {"create"} : Has(p, kind) => Has(q, kind)
      BY <1>8
    <2>. QED BY <1>4, <1>5, <2>1, <2>2 DEF Matched, Kinds, Starting, Working, Switching, Differ, Fields
  <1>alone. Alone(t, q, r)
    BY <1>3 DEF Alone, Differ, Fields
  <1>insession. InSession(t, q, f, r)
    BY <1>3 DEF InSession, Gen, Differ, Fields
  <1>frames. Frames(t, q, f, r, x)
    BY SMTT(30), <1>1, <1>3 DEF Frames, Fits, Switching, Gen, Differ, Fields
  <1>retiring. Retiring(t, q, r)
    BY SMTT(30), <1>3 DEF Retiring, Switching, Gen, Differ, Fields
  <1>painted. Painted(t, x)
    BY <1>3 DEF Painted, Seen, Switching, Differ, Fields
  <1>views. Views(t, q, f, r)
    <2>1. \A i \in 1 .. Len(f) : /\ i + 1 \in 1 .. Len(e) /\ f[i] = e[i + 1] /\ i \in 1 .. Len(q)
                                 /\ q[i] = p[i + 1]
      BY <1>4, PopIs
    <2>2. \A i \in 1 .. Len(q) : q[i].kind # "spawn"
      <3>1. s.init = 0
        BY <1>1, <1>10 DEF Exclusive
      <3>2. Awaited(s, p[1]) /\ Pipes(q, f) /\ \A i \in 1 .. Len(q) : q[i] \in Command /\ Awaited(s, q[i])
        BY <1>3, <1>5, <1>7 DEF Pipes
      <3>3. \A i \in 1 .. Len(q) : q[i].kind \in Starting => q[i].id # 0
        BY <3>2, CommandIs
      <3>. QED BY <3>1, <3>2, <3>3 DEF Awaited, Starting
    <2>3. /\ s.reset = 0 /\ t.reset = 0
          /\ ~(\E i \in 1 .. Len(p) : p[i].kind = "spawn" /\ i > Len(e))
      <3>1. \A i \in 1 .. Len(p) : i # 1 => i - 1 \in 1 .. Len(q) /\ q[i - 1] = p[i]
        BY <1>4, PopIs
      <3>2. \A i \in 1 .. Len(p) : p[i].kind # "spawn"
        BY <2>2, <3>1
      <3>. QED BY <1>10, <3>2 DEF Differ, Fields
    <2>4. ASSUME NEW u \in Tab
          PROVE  /\ u \in r.views <=>
                      \/ /\ u \in t.materialized
                         /\ ~\E i \in 1 .. Len(f) : q[i].kind = "close" /\ q[i].tab = u
                      \/ \E i \in 1 .. Len(f) :
                            q[i].kind = "create" /\ q[i].tab = u /\ f[i].result = "ok"
      <3>1. \A i \in 1 .. Len(q) : q[i].kind # "create"
        BY <1>5 DEF Alike, Working
      <3>2. \A i \in 1 .. Len(e) : i # 1 => /\ i - 1 \in 1 .. Len(f) /\ q[i - 1] = p[i]
                                              /\ i - 1 \in 1 .. Len(q)
        BY <1>4, <2>1, PopIs
      <3>3. (\E i \in 1 .. Len(e) : p[i].kind = "create" /\ p[i].tab = u /\ e[i].result = "ok")
            <=> u = p[1].tab
        <4>1. \A i \in 1 .. Len(e) : i # 1 => p[i].kind # "create"
          BY <3>1, <3>2
        <4>2. 1 \in 1 .. Len(e) /\ p[1].kind = "create" /\ e[1].result = "ok"
          BY <1>4, <1>6, PopIs
        <4>. QED BY <4>1, <4>2
      <3>4. (\E i \in 1 .. Len(e) : p[i].kind = "close" /\ p[i].tab = u)
            <=> (\E i \in 1 .. Len(f) : q[i].kind = "close" /\ q[i].tab = u)
        <4>1. ASSUME NEW i \in 1 .. Len(e), p[i].kind = "close" /\ p[i].tab = u
              PROVE  \E j \in 1 .. Len(f) : q[j].kind = "close" /\ q[j].tab = u
          <5>1. i - 1 \in 1 .. Len(f) /\ q[i - 1] = p[i]
            BY <3>2, <4>1
          <5>. QED BY <4>1, <5>1
        <4>2. ASSUME NEW i \in 1 .. Len(f), q[i].kind = "close" /\ q[i].tab = u
              PROVE  \E j \in 1 .. Len(e) : p[j].kind = "close" /\ p[j].tab = u
          BY <2>1, <4>2
        <4>. QED BY <4>1, <4>2
      <3>5. ASSUME NEW i \in 1 .. Len(f), q[i].kind = "close" PROVE q[i].tab # p[1].tab
        <4>1. i \in 1 .. Len(q) /\ q[i].tab = s.closing /\ s.closing # NoTab
          <5>1. i \in 1 .. Len(p) /\ i + 1 \in 1 .. Len(p) /\ q[i] = p[i + 1] /\ i \in 1 .. Len(q)
            BY <1>4, <2>1 DEF Pipes
          <5>. QED BY <1>4, <3>5, <5>1, WaitedFor
        <4>. QED BY <1>1, <1>10, <4>1 DEF Strip
      <3>6. u \in r.views <=>
                      \/ /\ u \in s.materialized
                         /\ ~\E i \in 1 .. Len(f) : q[i].kind = "close" /\ q[i].tab = u
                      \/ u = p[1].tab
        BY <1>4, <2>3, <3>3, <3>4 DEF Views
      <3>7. ~\E i \in 1 .. Len(f) : q[i].kind = "create" /\ q[i].tab = u /\ f[i].result = "ok"
        BY <2>1, <3>1
      <3>. QED BY <3>5, <3>6, <3>7
    <2>5. \A i \in 1 .. Len(f) :
             q[i].kind \in {"create", "close", "replace"} => f[i].result # "refused"
      BY <1>4, <2>1 DEF Views
    <2>. QED BY <2>4, <2>5 DEF Views
  <1>local. Local(t, q, r)
    BY <1>3 DEF Local, Differ, Fields
  <1>ordered. Ordered(q, f, r)
    BY <1>3
  <1>stopped. Stopped(q, f, r)
    BY <1>3
  <1>owned. Owned(t, q, r)
    BY <1>1, <1>3 DEF Owned, Own, Differ, Fields
  <1>answered. Answered(t, q, f, r)
    BY <1>3 DEF Answered, Differ, Fields
  <1>rest. SoundButDrawn(t, q, f, r, x)
    BY <1>3, <1>shell, <1>matched, <1>alone, <1>insession, <1>frames, <1>retiring,
       <1>painted, <1>views, <1>local, <1>ordered, <1>stopped, <1>owned, <1>answered DEF SoundButDrawn
  <1>drawn. Drawn(t, q)
    BY <1>3 DEF Drawn, Switching, Gen, Differ, Fields
  <1>. QED BY <1>rest, <1>drawn DEF Sound

\* A view is retired.
LEMMA CloseDone ==
    ASSUME NEW s, NEW p, NEW e, NEW r, NEW x, NEW q, NEW f,
           Sound(s, p, e, r, x),
           Pop(p, q), Pop(e, f), p[1].kind = "close",
           e[1].result # "refused",
           NEW t \in Shell, Differ(s, t, {"closing", "targets", "materialized"}),
           t.closing = NoTab, t.materialized = s.materialized \ {p[1].tab},
           t.targets = [s.targets EXCEPT ![p[1].tab] = NoTarget]
    PROVE  Sound(t, q, f, r, x)
  <1>1. s \in Shell /\ ~s.down /\ Strip(s) /\ Chrome(s) /\ Exclusive(s) /\ Loading(s)
    BY DEF Sound, SoundButDrawn, SoundShell
  <1>2. SoundButDrawn(s, p, e, r, x) /\ Drawn(s, p)
    BY DEF Sound
  <1>3. /\ Pipes(q, f) /\ r \in Worker /\ Alone(s, q, r) /\ Frames(s, q, f, r, x)
        /\ Retiring(s, q, r) /\ Painted(s, x) /\ Local(s, q, r) /\ Ordered(q, f, r)
        /\ Stopped(q, f, r) /\ Owned(s, q, r) /\ InSession(s, q, f, r)
        /\ Answered(s, q, f, r) /\ Drawn(s, q)
    BY <1>2, Popped DEF Starting
  <1>4. /\ Pipes(p, e) /\ Matched(s, p) /\ Alone(s, p, r) /\ InSession(s, p, e, r)
        /\ Frames(s, p, e, r, x) /\ Retiring(s, p, r) /\ Painted(s, x)
        /\ Views(s, p, e, r) /\ Local(s, p, r) /\ Ordered(p, e, r) /\ Stopped(p, e, r)
        /\ Owned(s, p, r) /\ Answered(s, p, e, r) /\ Drawn(s, p)
    BY DEF Sound, SoundButDrawn
  <1>5. /\ \A i \in 1 .. Len(q) :
              /\ ~Alike(p[1], q[i]) /\ Awaited(s, q[i])
              /\ \A j \in 1 .. Len(q) : Alike(q[i], q[j]) => i = j
    BY <1>4, Unlike
  <1>6. /\ p[1] \in Command /\ e[1].of = p[1] /\ e[1].result \in Results(p[1].kind)
        /\ 1 \in 1 .. Len(p) /\ 1 \in 1 .. Len(e)
    BY <1>4, PopIs
  <1>7. Awaited(s, p[1])
    BY <1>4, <1>6 DEF Matched
  <1>8. \A kind \in Kinds : Has(p, kind) /\ kind # "close" => Has(q, kind)
    BY <1>4, HasPop
  <1>9. /\ s.closing # NoTab /\ p[1].tab = s.closing /\ s.closing \in Tab
        /\ s.closing \in s.materialized \ Range(s.tabs)
    <2>1. s.closing # NoTab /\ p[1].tab = s.closing
      BY <1>4, <1>6, WaitedFor
    <2>. QED BY <1>1, <2>1 DEF Strip, Shell
  <1>10. /\ s.targets \in [Tab -> Target \cup {NoTarget}] /\ Range(s.tabs) \subseteq Tab
         /\ \A u \in Tab : t.targets[u] = IF u = s.closing THEN NoTarget ELSE s.targets[u]
         /\ \A u \in Range(s.tabs) : t.targets[u] = s.targets[u]
    <2>1. s.targets \in [Tab -> Target \cup {NoTarget}] /\ Range(s.tabs) \subseteq Tab
      BY <1>1, TabsAre DEF Shell
    <2>. QED BY <1>9, <2>1
  <1>11. /\ t.tabs = s.tabs /\ t.reset = s.reset /\ t.materialized = s.materialized \ {s.closing}
         /\ s.ready /\ s.reset = 0 /\ s.init = 0
    BY <1>1, <1>9 DEF Differ, Fields, Exclusive
  <1>strip. Strip(t)
    <2>1. /\ t.nextTab = s.nextTab /\ t.active = s.active /\ t.tab = s.tab
          /\ t.creating = s.creating /\ t.ready = s.ready
      BY DEF Differ, Fields
    <2>2. s.tab # s.closing /\ t.materialized \subseteq Range(s.tabs)
      BY <1>1, <1>9, <1>11 DEF Strip
    <2>. QED BY <1>1, <1>9, <1>11, <2>1, <2>2 DEF Strip
  <1>chrome. Chrome(t)
    BY <1>1 DEF Chrome, Switching, Differ, Fields
  <1>exclusive. Exclusive(t)
    BY <1>1 DEF Exclusive, Switching, Differ, Fields
  <1>loading. Loading(t)
    <2>1. s.creating # NotCreating => s.creating.tab \in Range(s.tabs)
      BY <1>1 DEF Strip
    <2>2. s.tab \in Range(s.tabs)
      BY <1>1, TabsAre
    <2>. QED BY <1>1, <1>10, <1>11, <2>1, <2>2 DEF Loading, Differ, Fields
  <1>shell. SoundShell(t)
    BY <1>1, <1>strip, <1>chrome, <1>exclusive, <1>loading DEF SoundShell, Differ, Fields
  <1>matched. Matched(t, q)
    <2>1. \A i \in 1 .. Len(q) : Awaited(t, q[i])
      BY <1>5 DEF Awaited, Alike, Starting, Working, Differ, Fields, Gen
    <2>2. \A kind \in Kinds \ {"close"} : Has(p, kind) => Has(q, kind)
      BY <1>8
    <2>. QED BY <1>4, <1>5, <2>1, <2>2 DEF Matched, Kinds, Starting, Working, Switching, Differ, Fields
  <1>alone. Alone(t, q, r)
    BY <1>1, <1>3 DEF Alone, Differ, Fields
  <1>insession. InSession(t, q, f, r)
    BY <1>3 DEF InSession, Gen, Differ, Fields
  <1>frames. Frames(t, q, f, r, x)
    <2>1. s.surface # 0 => s.recovery.tab # s.closing
      BY <1>3, <1>9 DEF Frames
    <2>2. \A i \in 1 .. Len(q) : q[i].kind = "render" => q[i].permit.tab # s.closing
      <3>1. \A i \in 1 .. Len(p) : p[i].kind = "render" => p[i].permit.tab \in Range(s.tabs)
        BY <1>4, <1>6 DEF Retiring
      <3>2. \A i \in 1 .. Len(q) : i + 1 \in 1 .. Len(p) /\ q[i] = p[i + 1]
        BY <1>4, PopIs
      <3>. QED BY <1>9, <3>1, <3>2
    <2>3. \A permit : Fits(s, permit) /\ permit.tab # s.closing => Fits(t, permit)
      BY <1>11 DEF Fits, Switching, Gen, Differ, Fields
    <2>. QED BY <1>1, <1>3, <2>1, <2>2, <2>3 DEF Frames, Switching, Gen, Differ, Fields
  <1>retiring. Retiring(t, q, r)
    <2>1. \A i \in 1 .. Len(q) : q[i].kind # "close"
      BY <1>5, <1>6 DEF Alike
    <2>. QED BY <2>1 DEF Retiring
  <1>painted. Painted(t, x)
    BY <1>1, <1>3 DEF Painted, Seen, Switching, Differ, Fields
  <1>views. Views(t, q, f, r)
    <2>1. \A i \in 1 .. Len(f) : /\ i + 1 \in 1 .. Len(e) /\ f[i] = e[i + 1] /\ i \in 1 .. Len(q)
                                 /\ q[i] = p[i + 1]
      BY <1>4, PopIs
    <2>2. \A i \in 1 .. Len(f) :
             q[i].kind \in {"create", "close", "replace"} => f[i].result # "refused"
      BY <1>4, <2>1 DEF Views
    <2>3. ~(\E i \in 1 .. Len(p) : p[i].kind = "spawn" /\ i > Len(e))
      BY <1>4, <1>11, WaitedFor DEF Starting
    <2>4. \A i \in 1 .. Len(q) : q[i].kind # "close"
      BY <1>5, <1>6 DEF Alike
    <2>5. ASSUME NEW u \in Tab
          PROVE  /\ u \in r.views <=>
                      \/ /\ u \in t.materialized
                         /\ ~\E i \in 1 .. Len(f) : q[i].kind = "close" /\ q[i].tab = u
                      \/ \E i \in 1 .. Len(f) :
                            q[i].kind = "create" /\ q[i].tab = u /\ f[i].result = "ok"
      <3>1. \A i \in 1 .. Len(e) : i # 1 => /\ i - 1 \in 1 .. Len(f) /\ q[i - 1] = p[i]
                                              /\ i - 1 \in 1 .. Len(q) /\ f[i - 1] = e[i]
        BY <1>4, <2>1, PopIs
      <3>2. (\E i \in 1 .. Len(e) : p[i].kind = "close" /\ p[i].tab = u)
            <=> u = s.closing
        <4>1. ASSUME NEW i \in 1 .. Len(e), i # 1 PROVE p[i].kind # "close"
          <5>1. i - 1 \in 1 .. Len(q) /\ q[i - 1] = p[i]
            BY <3>1, <4>1
          <5>. QED BY <2>4, <5>1
        <4>. QED BY <1>6, <1>9, <4>1
      <3>3. (\E i \in 1 .. Len(e) : p[i].kind = "create" /\ p[i].tab = u /\ e[i].result = "ok")
            <=> (\E i \in 1 .. Len(f) : q[i].kind = "create" /\ q[i].tab = u /\ f[i].result = "ok")
        <4>1. ASSUME NEW i \in 1 .. Len(e), p[i].kind = "create" /\ p[i].tab = u /\ e[i].result = "ok"
              PROVE  \E j \in 1 .. Len(f) : q[j].kind = "create" /\ q[j].tab = u /\ f[j].result = "ok"
          <5>1. i - 1 \in 1 .. Len(f) /\ q[i - 1] = p[i] /\ f[i - 1] = e[i]
            BY <3>1, <4>1
          <5>. QED BY <4>1, <5>1
        <4>2. ASSUME NEW i \in 1 .. Len(f), q[i].kind = "create" /\ q[i].tab = u /\ f[i].result = "ok"
              PROVE  \E j \in 1 .. Len(e) : p[j].kind = "create" /\ p[j].tab = u /\ e[j].result = "ok"
          BY <2>1, <4>2
        <4>. QED BY <4>1, <4>2
      <3>4. ~\E i \in 1 .. Len(f) : q[i].kind = "close" /\ q[i].tab = u
        BY <2>1, <2>4
      <3>5. u \in r.views <=>
                      \/ u \in s.materialized /\ u # s.closing
                      \/ \E i \in 1 .. Len(f) : q[i].kind = "create" /\ q[i].tab = u /\ f[i].result = "ok"
        BY <1>4, <1>11, <2>3, <3>2, <3>3 DEF Views
      <3>. QED BY <1>11, <3>4, <3>5
    <2>. QED BY <2>2, <2>5 DEF Views
  <1>local. Local(t, q, r)
    BY <1>3 DEF Local, Differ, Fields
  <1>ordered. Ordered(q, f, r)
    BY <1>3
  <1>stopped. Stopped(q, f, r)
    BY <1>3
  <1>owned. Owned(t, q, r)
    <2>1. r.pending[s.closing] = NoTarget
      BY <1>4, <1>6, <1>9 DEF Ordered
    <2>2. \A i \in 1 .. Len(q) : q[i].kind = "navigate" => q[i].target.tab # s.closing
      <3>1. \A i \in 1 .. Len(q) : i + 1 \in 1 .. Len(p) /\ q[i] = p[i + 1] /\ ~(i + 1 < 1)
        BY <1>4, PopIs
      <3>2. \A i \in 1 .. Len(p) : p[i].kind = "navigate" /\ p[i].target.tab = s.closing => i < 1
        BY <1>4, <1>6, <1>9 DEF Ordered, NavigatesTab
      <3>. QED BY <3>1, <3>2
    <2>. QED BY <1>3, <1>10, <1>11, <2>1, <2>2 DEF Owned, Own, Differ, Fields
  <1>answered. Answered(t, q, f, r)
    <2>1. \A i \in 1 .. Len(q) : q[i].kind # "close"
      BY <1>5, <1>6 DEF Alike
    <2>2. Answered(s, q, f, r)
      BY <1>4, AnsweredPop
    <2>. QED BY <1>10, <1>11, <2>2 DEF Answered
  <1>rest. SoundButDrawn(t, q, f, r, x)
    BY <1>3, <1>shell, <1>matched, <1>alone, <1>insession, <1>frames, <1>retiring,
       <1>painted, <1>views, <1>local, <1>ordered, <1>stopped, <1>owned, <1>answered DEF SoundButDrawn
  <1>drawn. Drawn(t, q)
    BY <1>3 DEF Drawn, Switching, Gen, Differ, Fields
  <1>. QED BY <1>rest, <1>drawn DEF Sound

-----------------------------------------------------------------------------
(* Answers to navigations and stops, and of the start of a session.        *)

\* The end of another navigation stays where it is.
LEMMA CarriedPop ==
    ASSUME NEW p, NEW e, NEW q, NEW f, NEW r, Pipes(p, e), Pop(p, q), Pop(e, f),
           NEW target, Carried(p, e, r, target),
           ~(p[1].kind = "navigate" /\ p[1].target = target),
           ~(p[1].kind = "cancel" /\ p[1].target = target /\ e[1].result # "no")
    PROVE  Carried(q, f, r, target)
  <1>1. /\ \A i \in 1 .. Len(p) : i # 1 => i - 1 \in 1 .. Len(q) /\ q[i - 1] = p[i]
        /\ \A i \in 1 .. Len(e) : i # 1 => /\ i - 1 \in 1 .. Len(f) /\ f[i - 1] = e[i]
                                           /\ q[i - 1] = p[i]
    BY PopIs
  <1>2. CASE \E i \in 1 .. Len(p) : p[i].kind = "navigate" /\ p[i].target = target
    <2>1. PICK i \in 1 .. Len(p) : p[i].kind = "navigate" /\ p[i].target = target
      BY <1>2
    <2>2. i - 1 \in 1 .. Len(q) /\ q[i - 1] = p[i]
      BY <1>1, <2>1
    <2>. QED BY <2>1, <2>2 DEF Carried
  <1>3. CASE \E i \in 1 .. Len(e) : p[i].kind = "cancel" /\ p[i].target = target /\ e[i].result # "no"
    <2>1. PICK i \in 1 .. Len(e) : p[i].kind = "cancel" /\ p[i].target = target /\ e[i].result # "no"
      BY <1>3
    <2>2. i - 1 \in 1 .. Len(f) /\ q[i - 1] = p[i] /\ f[i - 1] = e[i]
      BY <1>1, <2>1
    <2>. QED BY <2>1, <2>2 DEF Carried
  <1>. QED BY <1>2, <1>3 DEF Carried

\* A navigation of an open tab has ended.
LEMMA NavigationDone ==
    ASSUME NEW s, NEW p, NEW e, NEW r, NEW x, NEW q, NEW f,
           Sound(s, p, e, r, x),
           Pop(p, q), Pop(e, f), p[1].kind = "navigate",
           s.targets[p[1].target.tab] = p[1].target, p[1].target.tab \in Range(s.tabs),
           NEW t \in Shell, Differ(s, t, {"loading", "targets", "dirty", "redraw"}),
           t.loading = [s.loading EXCEPT ![p[1].target.tab] = 0],
           t.targets = [s.targets EXCEPT ![p[1].target.tab] = NoTarget]
    PROVE  Sound(t, q, f, r, x)
  <1>1. s \in Shell /\ ~s.down /\ Strip(s) /\ Chrome(s) /\ Exclusive(s) /\ Loading(s)
    BY DEF Sound, SoundButDrawn, SoundShell
  <1>2. SoundButDrawn(s, p, e, r, x) /\ Drawn(s, p)
    BY DEF Sound
  <1>3. /\ Pipes(q, f) /\ r \in Worker /\ Alone(s, q, r) /\ Frames(s, q, f, r, x)
        /\ Retiring(s, q, r) /\ Painted(s, x) /\ Local(s, q, r) /\ Ordered(q, f, r)
        /\ Stopped(q, f, r) /\ Owned(s, q, r) /\ InSession(s, q, f, r)
        /\ Views(s, q, f, r) /\ Drawn(s, q)
    BY <1>2, Popped DEF Starting
  <1>4. /\ Pipes(p, e) /\ Matched(s, p) /\ Alone(s, p, r) /\ InSession(s, p, e, r)
        /\ Frames(s, p, e, r, x) /\ Retiring(s, p, r) /\ Painted(s, x)
        /\ Views(s, p, e, r) /\ Local(s, p, r) /\ Ordered(p, e, r) /\ Stopped(p, e, r)
        /\ Owned(s, p, r) /\ Answered(s, p, e, r) /\ Drawn(s, p)
    BY DEF Sound, SoundButDrawn
  <1>5. /\ \A i \in 1 .. Len(q) :
              /\ ~Alike(p[1], q[i]) /\ Awaited(s, q[i])
              /\ \A j \in 1 .. Len(q) : Alike(q[i], q[j]) => i = j
    BY <1>4, Unlike
  <1>6. /\ p[1] \in Command /\ e[1].of = p[1] /\ e[1].result \in Results(p[1].kind)
        /\ 1 \in 1 .. Len(p) /\ 1 \in 1 .. Len(e)
    BY <1>4, PopIs
  <1>7. Awaited(s, p[1])
    BY <1>4, <1>6 DEF Matched
  <1>8. \A kind \in Kinds : Has(p, kind) /\ kind # "navigate" => Has(q, kind)
    BY <1>4, HasPop
  <1>9. p[1].target \in Target /\ p[1].target.tab \in Tab /\ p[1].target # NoTarget
        /\ p[1].target.navigation \in Nat \ {0}
    <2>1. p[1].target \in Target
      BY <1>6, CommandIs
    <2>. QED BY <2>1 DEF Target, NoTarget, Tab, NoTab
  <1>10. s.reset = 0
    BY <1>4, <1>6 DEF Alone, Starting
  <1>11. /\ s.targets \in [Tab -> Target \cup {NoTarget}] /\ s.loading \in [Tab -> Nat]
         /\ Range(s.tabs) \subseteq Tab
    BY <1>1, TabsAre DEF Shell
  <1>12. /\ \A u \in Tab : t.targets[u] = IF u = p[1].target.tab THEN NoTarget ELSE s.targets[u]
         /\ t.tabs = s.tabs
    BY <1>9, <1>11 DEF Differ, Fields
  <1>13. \A u \in Range(s.tabs) : t.loading[u] = IF u = p[1].target.tab THEN 0 ELSE s.loading[u]
    BY <1>9, <1>11
  <1>strip. Strip(t)
    BY SMTT(30), <1>1 DEF Strip, Differ, Fields
  <1>chrome. Chrome(t)
    BY <1>1 DEF Chrome, Switching, Differ, Fields
  <1>exclusive. Exclusive(t)
    BY <1>1 DEF Exclusive, Switching, Differ, Fields
  <1>loading. Loading(t)
    <2>1. s.initial # 0 => s.tab # p[1].target.tab
      BY <1>1, <1>9 DEF Loading
    <2>2. s.creating # NotCreating => s.creating.tab # p[1].target.tab /\ s.creating.tab \in Range(s.tabs)
      BY <1>1, <1>9 DEF Loading, Strip
    <2>3. s.tab \in Range(s.tabs) /\ s.nextNavigation \in Nat \ {0}
      BY <1>1, TabsAre DEF Shell
    <2>4. /\ t.tabs = s.tabs /\ t.nextNavigation = s.nextNavigation /\ t.ready = s.ready
          /\ t.creating = s.creating /\ t.tab = s.tab /\ t.initial = s.initial /\ t.restoring = s.restoring
      BY DEF Differ, Fields
    <2>5. \A u \in Range(s.tabs) :
             /\ t.loading[u] < s.nextNavigation
             /\ t.targets[u] # NoTarget => t.loading[u] = t.targets[u].navigation
             /\ t.loading[u] # 0 =>
                   \/ s.initial # 0 /\ u = s.tab
                   \/ s.creating # NotCreating /\ u = s.creating.tab
                   \/ t.targets[u] # NoTarget
      BY <1>1, <1>11, <1>12, <1>13, <2>3 DEF Loading
    <2>6. \A u, v \in Range(s.tabs) : t.loading[u] = t.loading[v] /\ u # v => t.loading[u] = 0
      BY <1>1, <1>13 DEF Loading
    <2>7. s.initial # 0 => /\ ~s.ready /\ ~s.restoring
                           /\ t.loading[s.tab] = s.initial /\ t.targets[s.tab] = NoTarget
      BY <1>1, <1>11, <1>12, <1>13, <2>1, <2>3 DEF Loading
    <2>8. s.creating # NotCreating => /\ t.loading[s.creating.tab] = s.creating.navigation
                                      /\ s.creating.navigation # 0
                                      /\ t.targets[s.creating.tab] = NoTarget
      BY <1>1, <1>11, <1>12, <1>13, <2>2 DEF Loading
    <2>. QED BY <2>4, <2>5, <2>6, <2>7, <2>8 DEF Loading
  <1>shell. SoundShell(t)
    BY <1>1, <1>strip, <1>chrome, <1>exclusive, <1>loading DEF SoundShell, Differ, Fields
  <1>matched. Matched(t, q)
    <2>1. \A i \in 1 .. Len(q) : Awaited(t, q[i])
      BY <1>5 DEF Awaited, Alike, Starting, Working, Differ, Fields, Gen
    <2>2. \A kind \in Kinds \ {"navigate"} : Has(p, kind) => Has(q, kind)
      BY <1>8
    <2>. QED BY <1>4, <1>5, <2>1, <2>2 DEF Matched, Kinds, Starting, Working, Switching, Differ, Fields
  <1>alone. Alone(t, q, r)
    BY <1>10 DEF Alone, Differ, Fields
  <1>insession. InSession(t, q, f, r)
    BY <1>3 DEF InSession, Gen, Differ, Fields
  <1>frames. Frames(t, q, f, r, x)
    <2>1. SameFrames(s, t)
      BY DEF SameFrames, Differ, Fields
    <2>. QED BY <1>3, <2>1, FramesAlike
  <1>retiring. Retiring(t, q, r)
    BY <1>3 DEF Retiring, Switching, Gen, Differ, Fields
  <1>painted. Painted(t, x)
    BY <1>3 DEF Painted, Seen, Switching, Differ, Fields
  <1>views. Views(t, q, f, r)
    BY <1>3 DEF Views, Differ, Fields
  <1>local. Local(t, q, r)
    BY <1>3 DEF Local, Differ, Fields
  <1>ordered. Ordered(q, f, r)
    BY <1>3
  <1>stopped. Stopped(q, f, r)
    BY <1>3
  <1>owned. Owned(t, q, r)
    BY <1>3, <1>12 DEF Owned, Own, Differ, Fields
  <1>answered. Answered(t, q, f, r)
    <2>1. ASSUME NEW u \in Range(s.tabs), u # p[1].target.tab
          PROVE  /\ s.targets[u] = NoTarget =>
                      /\ r.pending[u] = NoTarget
                      /\ \A i \in 1 .. Len(q) : ~NavigatesTab(q[i], u)
                 /\ s.targets[u] # NoTarget =>
                      /\ r.pending[u].navigation <= s.targets[u].navigation
                      /\ \A i \in 1 .. Len(q) : NavigatesTab(q[i], u) =>
                            q[i].target.navigation <= s.targets[u].navigation
                      /\ Carried(q, f, r, s.targets[u])
      <3>1. \A i \in 1 .. Len(q) : i + 1 \in 1 .. Len(p) /\ q[i] = p[i + 1]
        BY <1>4, PopIs
      <3>2. s.targets[u] # NoTarget => s.targets[u].tab = u
        BY <1>4, <1>11 DEF Owned
      <3>3. s.targets[u] # NoTarget => Carried(p, e, r, s.targets[u])
        BY <1>4 DEF Answered
      <3>4. s.targets[u] # NoTarget => Carried(q, f, r, s.targets[u])
        BY <1>4, <2>1, <3>2, <3>3, CarriedPop
      <3>. QED BY <1>4, <3>1, <3>4 DEF Answered
    <2>2. /\ r.pending[p[1].target.tab] = NoTarget
          /\ \A i \in 1 .. Len(q) : ~NavigatesTab(q[i], p[1].target.tab)
      <3>1. /\ 1 <= Len(e) /\ Len(p) \in Nat
            /\ \A i \in 1 .. Len(q) : i + 1 \in 1 .. Len(p) /\ 1 < i + 1 /\ q[i] = p[i + 1] /\ q[i] \in Command
        BY <1>4, PopIs
      <3>2. /\ r.pending[p[1].target.tab].navigation <= p[1].target.navigation
            /\ \A i \in 1 .. Len(p) : NavigatesTab(p[i], p[1].target.tab) =>
                  p[i].target.navigation <= p[1].target.navigation
        BY <1>4, <1>9 DEF Answered
      <3>3. r.pending[p[1].target.tab] # NoTarget =>
               p[1].target.navigation < r.pending[p[1].target.tab].navigation
        BY <1>4, <1>6, <1>9, <3>1 DEF Ordered, NavigatesTab
      <3>4. \A i \in 1 .. Len(q) : NavigatesTab(q[i], p[1].target.tab) =>
               p[1].target.navigation < q[i].target.navigation
        BY <1>4, <1>6, <3>1 DEF Ordered
      <3>5. /\ r.pending[p[1].target.tab] \in Target \cup {NoTarget}
            /\ \A i \in 1 .. Len(q) : NavigatesTab(q[i], p[1].target.tab) => q[i].target \in Target
        BY <1>3, <1>9, <3>1, CommandIs DEF Worker, NavigatesTab
      <3>6. \A target \in Target : target.navigation \in Nat
        BY DEF Target
      <3>7. ASSUME NEW i \in 1 .. Len(q), NavigatesTab(q[i], p[1].target.tab) PROVE FALSE
        <4>1. /\ q[i].target.navigation <= p[1].target.navigation
              /\ p[1].target.navigation < q[i].target.navigation
              /\ q[i].target.navigation \in Nat
          BY <3>1, <3>2, <3>4, <3>5, <3>6, <3>7
        <4>. QED BY <1>9, <4>1
      <3>8. ASSUME r.pending[p[1].target.tab] # NoTarget PROVE FALSE
        <4>1. r.pending[p[1].target.tab].navigation \in Nat
          BY <3>5, <3>6, <3>8
        <4>. QED BY <1>9, <3>2, <3>3, <3>8, <4>1
      <3>. QED BY <3>7, <3>8
    <2>. QED BY <1>11, <1>12, <2>1, <2>2 DEF Answered
  <1>rest. SoundButDrawn(t, q, f, r, x)
    BY <1>3, <1>shell, <1>matched, <1>alone, <1>insession, <1>frames, <1>retiring,
       <1>painted, <1>views, <1>local, <1>ordered, <1>stopped, <1>owned, <1>answered DEF SoundButDrawn
  <1>drawn. Drawn(t, q)
    BY <1>3 DEF Drawn, Switching, Gen, Differ, Fields
  <1>. QED BY <1>rest, <1>drawn DEF Sound

\* A navigation of a tab that is closed has ended.
LEMMA NavigationForgotten ==
    ASSUME NEW s, NEW p, NEW e, NEW r, NEW x, NEW q, NEW f,
           Sound(s, p, e, r, x),
           Pop(p, q), Pop(e, f), p[1].kind = "navigate",
           s.targets[p[1].target.tab] = p[1].target, p[1].target.tab \notin Range(s.tabs),
           NEW t \in Shell, Differ(s, t, {"targets"}),
           t.targets = [s.targets EXCEPT ![p[1].target.tab] = NoTarget]
    PROVE  Sound(t, q, f, r, x)
  <1>1. s \in Shell /\ ~s.down /\ Strip(s) /\ Chrome(s) /\ Exclusive(s) /\ Loading(s)
    BY DEF Sound, SoundButDrawn, SoundShell
  <1>2. SoundButDrawn(s, p, e, r, x) /\ Drawn(s, p)
    BY DEF Sound
  <1>3. /\ Pipes(q, f) /\ r \in Worker /\ Alone(s, q, r) /\ Frames(s, q, f, r, x)
        /\ Retiring(s, q, r) /\ Painted(s, x) /\ Local(s, q, r) /\ Ordered(q, f, r)
        /\ Stopped(q, f, r) /\ Owned(s, q, r) /\ InSession(s, q, f, r)
        /\ Views(s, q, f, r) /\ Drawn(s, q)
    BY <1>2, Popped DEF Starting
  <1>4. /\ Pipes(p, e) /\ Matched(s, p) /\ Alone(s, p, r) /\ InSession(s, p, e, r)
        /\ Frames(s, p, e, r, x) /\ Retiring(s, p, r) /\ Painted(s, x)
        /\ Views(s, p, e, r) /\ Local(s, p, r) /\ Ordered(p, e, r) /\ Stopped(p, e, r)
        /\ Owned(s, p, r) /\ Answered(s, p, e, r) /\ Drawn(s, p)
    BY DEF Sound, SoundButDrawn
  <1>5. /\ \A i \in 1 .. Len(q) :
              /\ ~Alike(p[1], q[i]) /\ Awaited(s, q[i])
              /\ \A j \in 1 .. Len(q) : Alike(q[i], q[j]) => i = j
    BY <1>4, Unlike
  <1>6. /\ p[1] \in Command /\ e[1].of = p[1] /\ e[1].result \in Results(p[1].kind)
        /\ 1 \in 1 .. Len(p) /\ 1 \in 1 .. Len(e)
    BY <1>4, PopIs
  <1>7. Awaited(s, p[1])
    BY <1>4, <1>6 DEF Matched
  <1>8. \A kind \in Kinds : Has(p, kind) /\ kind # "navigate" => Has(q, kind)
    BY <1>4, HasPop
  <1>9. p[1].target \in Target /\ p[1].target.tab \in Tab /\ p[1].target # NoTarget
        /\ p[1].target.navigation \in Nat \ {0}
    <2>1. p[1].target \in Target
      BY <1>6, CommandIs
    <2>. QED BY <2>1 DEF Target, NoTarget, Tab, NoTab
  <1>10. s.reset = 0
    BY <1>4, <1>6 DEF Alone, Starting
  <1>11. /\ s.targets \in [Tab -> Target \cup {NoTarget}] /\ s.loading \in [Tab -> Nat]
         /\ Range(s.tabs) \subseteq Tab
    BY <1>1, TabsAre DEF Shell
  <1>12. /\ \A u \in Tab : t.targets[u] = IF u = p[1].target.tab THEN NoTarget ELSE s.targets[u]
         /\ t.tabs = s.tabs
    BY <1>9, <1>11 DEF Differ, Fields
  <1>strip. Strip(t)
    BY <1>1 DEF Strip, Differ, Fields
  <1>chrome. Chrome(t)
    BY <1>1 DEF Chrome, Switching, Differ, Fields
  <1>exclusive. Exclusive(t)
    BY <1>1 DEF Exclusive, Switching, Differ, Fields
  <1>loading. Loading(t)
    <2>1. s.creating # NotCreating => s.creating.tab \in Range(s.tabs)
      BY <1>1 DEF Strip
    <2>2. s.tab \in Range(s.tabs) /\ \A u \in Range(s.tabs) : t.targets[u] = s.targets[u]
      BY <1>1, <1>11, <1>12, TabsAre
    <2>3. /\ t.tabs = s.tabs /\ t.nextNavigation = s.nextNavigation /\ t.ready = s.ready
          /\ t.creating = s.creating /\ t.tab = s.tab /\ t.initial = s.initial /\ t.restoring = s.restoring
          /\ t.loading = s.loading
      BY DEF Differ, Fields
    <2>. QED BY <1>1, <2>1, <2>2, <2>3 DEF Loading
  <1>shell. SoundShell(t)
    BY <1>1, <1>strip, <1>chrome, <1>exclusive, <1>loading DEF SoundShell, Differ, Fields
  <1>matched. Matched(t, q)
    <2>1. \A i \in 1 .. Len(q) : Awaited(t, q[i])
      BY <1>5 DEF Awaited, Alike, Starting, Working, Differ, Fields, Gen
    <2>2. \A kind \in Kinds \ {"navigate"} : Has(p, kind) => Has(q, kind)
      BY <1>8
    <2>. QED BY <1>4, <1>5, <2>1, <2>2 DEF Matched, Kinds, Starting, Working, Switching, Differ, Fields
  <1>alone. Alone(t, q, r)
    BY <1>10 DEF Alone, Differ, Fields
  <1>insession. InSession(t, q, f, r)
    BY <1>3 DEF InSession, Gen, Differ, Fields
  <1>frames. Frames(t, q, f, r, x)
    <2>1. SameFrames(s, t)
      BY DEF SameFrames, Differ, Fields
    <2>. QED BY <1>3, <2>1, FramesAlike
  <1>retiring. Retiring(t, q, r)
    BY <1>3 DEF Retiring, Switching, Gen, Differ, Fields
  <1>painted. Painted(t, x)
    BY <1>3 DEF Painted, Seen, Switching, Differ, Fields
  <1>views. Views(t, q, f, r)
    BY <1>3 DEF Views, Differ, Fields
  <1>local. Local(t, q, r)
    BY <1>3 DEF Local, Differ, Fields
  <1>ordered. Ordered(q, f, r)
    BY <1>3
  <1>stopped. Stopped(q, f, r)
    BY <1>3
  <1>owned. Owned(t, q, r)
    BY <1>3, <1>12 DEF Owned, Own, Differ, Fields
  <1>answered. Answered(t, q, f, r)
    <2>1. ASSUME NEW u \in Range(s.tabs), u # p[1].target.tab
          PROVE  /\ s.targets[u] = NoTarget =>
                      /\ r.pending[u] = NoTarget
                      /\ \A i \in 1 .. Len(q) : ~NavigatesTab(q[i], u)
                 /\ s.targets[u] # NoTarget =>
                      /\ r.pending[u].navigation <= s.targets[u].navigation
                      /\ \A i \in 1 .. Len(q) : NavigatesTab(q[i], u) =>
                            q[i].target.navigation <= s.targets[u].navigation
                      /\ Carried(q, f, r, s.targets[u])
      <3>1. \A i \in 1 .. Len(q) : i + 1 \in 1 .. Len(p) /\ q[i] = p[i + 1]
        BY <1>4, PopIs
      <3>2. s.targets[u] # NoTarget => s.targets[u].tab = u
        BY <1>4, <1>11 DEF Owned
      <3>3. s.targets[u] # NoTarget => Carried(p, e, r, s.targets[u])
        BY <1>4 DEF Answered
      <3>4. s.targets[u] # NoTarget => Carried(q, f, r, s.targets[u])
        BY <1>4, <2>1, <3>2, <3>3, CarriedPop
      <3>. QED BY <1>4, <3>1, <3>4 DEF Answered
    <2>. QED BY <1>11, <1>12, <2>1 DEF Answered
  <1>rest. SoundButDrawn(t, q, f, r, x)
    BY <1>3, <1>shell, <1>matched, <1>alone, <1>insession, <1>frames, <1>retiring,
       <1>painted, <1>views, <1>local, <1>ordered, <1>stopped, <1>owned, <1>answered DEF SoundButDrawn
  <1>drawn. Drawn(t, q)
    BY <1>3 DEF Drawn, Switching, Gen, Differ, Fields
  <1>. QED BY <1>rest, <1>drawn DEF Sound

\* A navigation that was superseded has ended.
LEMMA NavigationIgnored ==
    ASSUME NEW s, NEW p, NEW e, NEW r, NEW x, NEW q, NEW f,
           Sound(s, p, e, r, x),
           Pop(p, q), Pop(e, f), p[1].kind = "navigate",
           s.targets[p[1].target.tab] # p[1].target
    PROVE  Sound(s, q, f, r, x)
  <1>1. s \in Shell /\ ~s.down /\ Strip(s) /\ Chrome(s) /\ Exclusive(s) /\ Loading(s)
    BY DEF Sound, SoundButDrawn, SoundShell
  <1>2. SoundButDrawn(s, p, e, r, x) /\ Drawn(s, p)
    BY DEF Sound
  <1>3. /\ Pipes(q, f) /\ r \in Worker /\ Alone(s, q, r) /\ Frames(s, q, f, r, x)
        /\ Retiring(s, q, r) /\ Painted(s, x) /\ Local(s, q, r) /\ Ordered(q, f, r)
        /\ Stopped(q, f, r) /\ Owned(s, q, r) /\ InSession(s, q, f, r)
        /\ Views(s, q, f, r) /\ Drawn(s, q)
    BY <1>2, Popped DEF Starting
  <1>4. /\ Pipes(p, e) /\ Matched(s, p) /\ Alone(s, p, r) /\ InSession(s, p, e, r)
        /\ Frames(s, p, e, r, x) /\ Retiring(s, p, r) /\ Painted(s, x)
        /\ Views(s, p, e, r) /\ Local(s, p, r) /\ Ordered(p, e, r) /\ Stopped(p, e, r)
        /\ Owned(s, p, r) /\ Answered(s, p, e, r) /\ Drawn(s, p)
    BY DEF Sound, SoundButDrawn
  <1>5. /\ \A i \in 1 .. Len(q) :
              /\ ~Alike(p[1], q[i]) /\ Awaited(s, q[i])
              /\ \A j \in 1 .. Len(q) : Alike(q[i], q[j]) => i = j
    BY <1>4, Unlike
  <1>6. /\ p[1] \in Command /\ e[1].of = p[1] /\ e[1].result \in Results(p[1].kind)
        /\ 1 \in 1 .. Len(p) /\ 1 \in 1 .. Len(e)
    BY <1>4, PopIs
  <1>7. Awaited(s, p[1])
    BY <1>4, <1>6 DEF Matched
  <1>8. \A kind \in Kinds : Has(p, kind) /\ kind # "navigate" => Has(q, kind)
    BY <1>4, HasPop
  <1>9. p[1].target \in Target /\ p[1].target.tab \in Tab /\ p[1].target # NoTarget
        /\ p[1].target.navigation \in Nat \ {0}
    <2>1. p[1].target \in Target
      BY <1>6, CommandIs
    <2>. QED BY <2>1 DEF Target, NoTarget, Tab, NoTab
  <1>10. s.reset = 0
    BY <1>4, <1>6 DEF Alone, Starting
  <1>11. Range(s.tabs) \subseteq Tab
    BY <1>1, TabsAre
  <1>strip. Strip(s)
    BY <1>1
  <1>chrome. Chrome(s)
    BY <1>1
  <1>exclusive. Exclusive(s)
    BY <1>1
  <1>loading. Loading(s)
    BY <1>1
  <1>shell. SoundShell(s)
    BY <1>1, <1>strip, <1>chrome, <1>exclusive, <1>loading DEF SoundShell
  <1>matched. Matched(s, q)
    <2>1. \A i \in 1 .. Len(q) : Awaited(s, q[i])
      BY <1>5 DEF Awaited, Alike, Starting, Working, Gen
    <2>2. \A kind \in Kinds \ {"navigate"} : Has(p, kind) => Has(q, kind)
      BY <1>8
    <2>. QED BY <1>4, <1>5, <2>1, <2>2 DEF Matched, Kinds, Starting, Working, Switching
  <1>alone. Alone(s, q, r)
    BY <1>3
  <1>insession. InSession(s, q, f, r)
    BY <1>3
  <1>frames. Frames(s, q, f, r, x)
    BY <1>3
  <1>retiring. Retiring(s, q, r)
    BY <1>3
  <1>painted. Painted(s, x)
    BY <1>3
  <1>views. Views(s, q, f, r)
    BY <1>3
  <1>local. Local(s, q, r)
    BY <1>3
  <1>ordered. Ordered(q, f, r)
    BY <1>3
  <1>stopped. Stopped(q, f, r)
    BY <1>3
  <1>owned. Owned(s, q, r)
    BY <1>3
  <1>answered. Answered(s, q, f, r)
    <2>1. ASSUME NEW u \in Range(s.tabs)
          PROVE  /\ s.targets[u] = NoTarget =>
                      /\ r.pending[u] = NoTarget
                      /\ \A i \in 1 .. Len(q) : ~NavigatesTab(q[i], u)
                 /\ s.targets[u] # NoTarget =>
                      /\ r.pending[u].navigation <= s.targets[u].navigation
                      /\ \A i \in 1 .. Len(q) : NavigatesTab(q[i], u) =>
                            q[i].target.navigation <= s.targets[u].navigation
                      /\ Carried(q, f, r, s.targets[u])
      <3>1. \A i \in 1 .. Len(q) : i + 1 \in 1 .. Len(p) /\ q[i] = p[i + 1]
        BY <1>4, PopIs
      <3>2. s.targets[u] # NoTarget => s.targets[u].tab = u
        BY <1>4, <1>11 DEF Owned
      <3>3. s.targets[u] # NoTarget => Carried(p, e, r, s.targets[u])
        BY <1>4 DEF Answered
      <3>4. s.targets[u] # NoTarget => Carried(q, f, r, s.targets[u])
        BY <1>4, <1>6, <1>9, <3>2, <3>3, CarriedPop
      <3>. QED BY <1>4, <3>1, <3>4 DEF Answered
    <2>. QED BY <2>1 DEF Answered
  <1>rest. SoundButDrawn(s, q, f, r, x)
    BY <1>3, <1>shell, <1>matched, <1>alone, <1>insession, <1>frames, <1>retiring,
       <1>painted, <1>views, <1>local, <1>ordered, <1>stopped, <1>owned, <1>answered DEF SoundButDrawn
  <1>drawn. Drawn(s, q)
    BY <1>3
  <1>. QED BY <1>rest, <1>drawn DEF Sound

-----------------------------------------------------------------------------
(* Answers to stops, and to the start and the reset of the worker.         *)

\* The navigation of the active tab is stopped.
LEMMA StopDone ==
    ASSUME NEW s, NEW p, NEW e, NEW r, NEW x, NEW q, NEW f,
           Sound(s, p, e, r, x),
           Pop(p, q), Pop(e, f), p[1].kind = "cancel",
           s.targets[p[1].target.tab] = p[1].target, p[1].target.tab \in Range(s.tabs),
           e[1].result # "no",
           NEW t \in Shell, Differ(s, t, {"loading", "targets", "cancelling"}),
           t.loading = [s.loading EXCEPT ![p[1].target.tab] = 0], t.cancelling = NoTarget,
           t.targets = [s.targets EXCEPT ![p[1].target.tab] = NoTarget]
    PROVE  Sound(t, q, f, r, x)
  <1>1. s \in Shell /\ ~s.down /\ Strip(s) /\ Chrome(s) /\ Exclusive(s) /\ Loading(s)
    BY DEF Sound, SoundButDrawn, SoundShell
  <1>2. SoundButDrawn(s, p, e, r, x) /\ Drawn(s, p)
    BY DEF Sound
  <1>3. /\ Pipes(q, f) /\ r \in Worker /\ Alone(s, q, r) /\ Frames(s, q, f, r, x)
        /\ Retiring(s, q, r) /\ Painted(s, x) /\ Local(s, q, r) /\ Ordered(q, f, r)
        /\ Stopped(q, f, r) /\ Owned(s, q, r) /\ InSession(s, q, f, r)
        /\ Views(s, q, f, r) /\ Drawn(s, q)
    BY <1>2, Popped DEF Starting
  <1>4. /\ Pipes(p, e) /\ Matched(s, p) /\ Alone(s, p, r) /\ InSession(s, p, e, r)
        /\ Frames(s, p, e, r, x) /\ Retiring(s, p, r) /\ Painted(s, x)
        /\ Views(s, p, e, r) /\ Local(s, p, r) /\ Ordered(p, e, r) /\ Stopped(p, e, r)
        /\ Owned(s, p, r) /\ Answered(s, p, e, r) /\ Drawn(s, p)
    BY DEF Sound, SoundButDrawn
  <1>5. /\ \A i \in 1 .. Len(q) :
              /\ ~Alike(p[1], q[i]) /\ Awaited(s, q[i])
              /\ \A j \in 1 .. Len(q) : Alike(q[i], q[j]) => i = j
    BY <1>4, Unlike
  <1>6. /\ p[1] \in Command /\ e[1].of = p[1] /\ e[1].result \in Results(p[1].kind)
        /\ 1 \in 1 .. Len(p) /\ 1 \in 1 .. Len(e)
    BY <1>4, PopIs
  <1>7. Awaited(s, p[1])
    BY <1>4, <1>6 DEF Matched
  <1>8. \A kind \in Kinds : Has(p, kind) /\ kind # "cancel" => Has(q, kind)
    BY <1>4, HasPop
  <1>9. p[1].target = s.cancelling /\ s.cancelling # NoTarget /\ p[1].target \in Target
        /\ p[1].target.tab \in Tab /\ p[1].target.navigation \in Nat \ {0}
    <2>1. p[1].target \in Target /\ p[1].target = s.cancelling /\ s.cancelling # NoTarget
      BY <1>4, <1>6, CommandIs, WaitedFor
    <2>. QED BY <2>1 DEF Target
  <1>10. s.reset = 0
    BY <1>4, <1>6 DEF Alone, Starting
  <1>11. /\ s.targets \in [Tab -> Target \cup {NoTarget}] /\ s.loading \in [Tab -> Nat]
         /\ Range(s.tabs) \subseteq Tab
    BY <1>1, TabsAre DEF Shell
  <1>12. /\ \A u \in Tab : t.targets[u] = IF u = p[1].target.tab THEN NoTarget ELSE s.targets[u]
         /\ t.tabs = s.tabs
    BY <1>9, <1>11 DEF Differ, Fields
  <1>13. \A u \in Range(s.tabs) : t.loading[u] = IF u = p[1].target.tab THEN 0 ELSE s.loading[u]
    BY <1>9, <1>11
  <1>strip. Strip(t)
    BY SMTT(30), <1>1 DEF Strip, Differ, Fields
  <1>chrome. Chrome(t)
    BY <1>1 DEF Chrome, Switching, Differ, Fields
  <1>exclusive. Exclusive(t)
    BY <1>1 DEF Exclusive, Switching, Differ, Fields
  <1>loading. Loading(t)
    <2>1. s.initial # 0 => s.tab # p[1].target.tab
      BY <1>1, <1>9 DEF Loading
    <2>2. s.creating # NotCreating => s.creating.tab # p[1].target.tab /\ s.creating.tab \in Range(s.tabs)
      BY <1>1, <1>9 DEF Loading, Strip
    <2>3. s.tab \in Range(s.tabs) /\ s.nextNavigation \in Nat \ {0}
      BY <1>1, TabsAre DEF Shell
    <2>4. /\ t.tabs = s.tabs /\ t.nextNavigation = s.nextNavigation /\ t.ready = s.ready
          /\ t.creating = s.creating /\ t.tab = s.tab /\ t.initial = s.initial /\ t.restoring = s.restoring
      BY DEF Differ, Fields
    <2>5. \A u \in Range(s.tabs) :
             /\ t.loading[u] < s.nextNavigation
             /\ t.targets[u] # NoTarget => t.loading[u] = t.targets[u].navigation
             /\ t.loading[u] # 0 =>
                   \/ s.initial # 0 /\ u = s.tab
                   \/ s.creating # NotCreating /\ u = s.creating.tab
                   \/ t.targets[u] # NoTarget
      BY <1>1, <1>11, <1>12, <1>13, <2>3 DEF Loading
    <2>6. \A u, v \in Range(s.tabs) : t.loading[u] = t.loading[v] /\ u # v => t.loading[u] = 0
      BY <1>1, <1>13 DEF Loading
    <2>7. s.initial # 0 => /\ ~s.ready /\ ~s.restoring
                           /\ t.loading[s.tab] = s.initial /\ t.targets[s.tab] = NoTarget
      BY <1>1, <1>11, <1>12, <1>13, <2>1, <2>3 DEF Loading
    <2>8. s.creating # NotCreating => /\ t.loading[s.creating.tab] = s.creating.navigation
                                      /\ s.creating.navigation # 0
                                      /\ t.targets[s.creating.tab] = NoTarget
      BY <1>1, <1>11, <1>12, <1>13, <2>2 DEF Loading
    <2>. QED BY <2>4, <2>5, <2>6, <2>7, <2>8 DEF Loading
  <1>shell. SoundShell(t)
    BY <1>1, <1>strip, <1>chrome, <1>exclusive, <1>loading DEF SoundShell, Differ, Fields
  <1>matched. Matched(t, q)
    <2>1. \A i \in 1 .. Len(q) : Awaited(t, q[i])
      BY <1>5 DEF Awaited, Alike, Starting, Working, Differ, Fields, Gen
    <2>2. \A kind \in Kinds \ {"cancel"} : Has(p, kind) => Has(q, kind)
      BY <1>8
    <2>. QED BY <1>4, <1>5, <2>1, <2>2 DEF Matched, Kinds, Starting, Working, Switching, Differ, Fields
  <1>alone. Alone(t, q, r)
    BY <1>10 DEF Alone, Differ, Fields
  <1>insession. InSession(t, q, f, r)
    BY <1>3 DEF InSession, Gen, Differ, Fields
  <1>frames. Frames(t, q, f, r, x)
    <2>1. SameFrames(s, t)
      BY DEF SameFrames, Differ, Fields
    <2>. QED BY <1>3, <2>1, FramesAlike
  <1>retiring. Retiring(t, q, r)
    BY <1>3 DEF Retiring, Switching, Gen, Differ, Fields
  <1>painted. Painted(t, x)
    BY <1>3 DEF Painted, Seen, Switching, Differ, Fields
  <1>views. Views(t, q, f, r)
    BY <1>3 DEF Views, Differ, Fields
  <1>local. Local(t, q, r)
    BY <1>3 DEF Local, Differ, Fields
  <1>ordered. Ordered(q, f, r)
    BY <1>3
  <1>stopped. Stopped(q, f, r)
    BY <1>3
  <1>owned. Owned(t, q, r)
    BY <1>3, <1>12 DEF Owned, Own, Differ, Fields
  <1>answered. Answered(t, q, f, r)
    <2>1. ASSUME NEW u \in Range(s.tabs), u # p[1].target.tab
          PROVE  /\ s.targets[u] = NoTarget =>
                      /\ r.pending[u] = NoTarget
                      /\ \A i \in 1 .. Len(q) : ~NavigatesTab(q[i], u)
                 /\ s.targets[u] # NoTarget =>
                      /\ r.pending[u].navigation <= s.targets[u].navigation
                      /\ \A i \in 1 .. Len(q) : NavigatesTab(q[i], u) =>
                            q[i].target.navigation <= s.targets[u].navigation
                      /\ Carried(q, f, r, s.targets[u])
      <3>1. \A i \in 1 .. Len(q) : i + 1 \in 1 .. Len(p) /\ q[i] = p[i + 1]
        BY <1>4, PopIs
      <3>2. s.targets[u] # NoTarget => s.targets[u].tab = u
        BY <1>4, <1>11 DEF Owned
      <3>3. s.targets[u] # NoTarget => Carried(p, e, r, s.targets[u])
        BY <1>4 DEF Answered
      <3>4. s.targets[u] # NoTarget => Carried(q, f, r, s.targets[u])
        BY <1>4, <2>1, <3>2, <3>3, CarriedPop
      <3>. QED BY <1>4, <3>1, <3>4 DEF Answered
    <2>2. /\ r.pending[p[1].target.tab] = NoTarget
          /\ \A i \in 1 .. Len(q) : ~NavigatesTab(q[i], p[1].target.tab)
      <3>1. /\ 1 <= Len(e) /\ Len(p) \in Nat
            /\ \A i \in 1 .. Len(q) : i + 1 \in 1 .. Len(p) /\ i + 1 > 1 /\ q[i] = p[i + 1] /\ q[i] \in Command
        BY <1>4, PopIs
      <3>2. /\ r.pending[p[1].target.tab].navigation <= p[1].target.navigation
            /\ \A i \in 1 .. Len(p) : NavigatesTab(p[i], p[1].target.tab) =>
                  p[i].target.navigation <= p[1].target.navigation
        BY <1>4, <1>9 DEF Answered, Target, NoTarget
      <3>3. r.pending[p[1].target.tab] # NoTarget =>
               r.pending[p[1].target.tab].navigation > p[1].target.navigation
        BY <1>4, <1>6 DEF Stopped
      <3>4. \A i \in 1 .. Len(p) : NavigatesTab(p[i], p[1].target.tab) /\ i > 1 =>
               p[i].target.navigation > p[1].target.navigation
        BY <1>4, <1>6 DEF Stopped
      <3>5. /\ r.pending[p[1].target.tab] \in Target \cup {NoTarget}
            /\ \A i \in 1 .. Len(q) : NavigatesTab(q[i], p[1].target.tab) => q[i].target \in Target
        BY <1>3, <1>9, <3>1, CommandIs DEF Worker, NavigatesTab
      <3>6. \A target \in Target : target.navigation \in Nat
        BY DEF Target
      <3>7. ASSUME NEW i \in 1 .. Len(q), NavigatesTab(q[i], p[1].target.tab) PROVE FALSE
        <4>1. /\ q[i].target.navigation <= p[1].target.navigation
              /\ q[i].target.navigation > p[1].target.navigation
              /\ q[i].target.navigation \in Nat
          BY <3>1, <3>2, <3>4, <3>5, <3>6, <3>7
        <4>. QED BY <1>9, <4>1
      <3>8. ASSUME r.pending[p[1].target.tab] # NoTarget PROVE FALSE
        <4>1. r.pending[p[1].target.tab].navigation \in Nat
          BY <3>5, <3>6, <3>8
        <4>. QED BY <1>9, <3>2, <3>3, <3>8, <4>1
      <3>. QED BY <3>7, <3>8
    <2>. QED BY <1>11, <1>12, <2>1, <2>2 DEF Answered
  <1>rest. SoundButDrawn(t, q, f, r, x)
    BY <1>3, <1>shell, <1>matched, <1>alone, <1>insession, <1>frames, <1>retiring,
       <1>painted, <1>views, <1>local, <1>ordered, <1>stopped, <1>owned, <1>answered DEF SoundButDrawn
  <1>drawn. Drawn(t, q)
    BY <1>3 DEF Drawn, Switching, Gen, Differ, Fields
  <1>. QED BY <1>rest, <1>drawn DEF Sound

\* A stop that came too late.
LEMMA StopIgnored ==
    ASSUME NEW s, NEW p, NEW e, NEW r, NEW x, NEW q, NEW f,
           Sound(s, p, e, r, x),
           Pop(p, q), Pop(e, f), p[1].kind = "cancel",
           \/ s.targets[p[1].target.tab] # p[1].target
              \/ p[1].target.tab \notin Range(s.tabs),
           NEW t \in Shell, Differ(s, t, {"cancelling"}),
           t.cancelling = NoTarget
    PROVE  Sound(t, q, f, r, x)
  <1>1. s \in Shell /\ ~s.down /\ Strip(s) /\ Chrome(s) /\ Exclusive(s) /\ Loading(s)
    BY DEF Sound, SoundButDrawn, SoundShell
  <1>2. SoundButDrawn(s, p, e, r, x) /\ Drawn(s, p)
    BY DEF Sound
  <1>3. /\ Pipes(q, f) /\ r \in Worker /\ Alone(s, q, r) /\ Frames(s, q, f, r, x)
        /\ Retiring(s, q, r) /\ Painted(s, x) /\ Local(s, q, r) /\ Ordered(q, f, r)
        /\ Stopped(q, f, r) /\ Owned(s, q, r) /\ InSession(s, q, f, r)
        /\ Views(s, q, f, r) /\ Drawn(s, q)
    BY <1>2, Popped DEF Starting
  <1>4. /\ Pipes(p, e) /\ Matched(s, p) /\ Alone(s, p, r) /\ InSession(s, p, e, r)
        /\ Frames(s, p, e, r, x) /\ Retiring(s, p, r) /\ Painted(s, x)
        /\ Views(s, p, e, r) /\ Local(s, p, r) /\ Ordered(p, e, r) /\ Stopped(p, e, r)
        /\ Owned(s, p, r) /\ Answered(s, p, e, r) /\ Drawn(s, p)
    BY DEF Sound, SoundButDrawn
  <1>5. /\ \A i \in 1 .. Len(q) :
              /\ ~Alike(p[1], q[i]) /\ Awaited(s, q[i])
              /\ \A j \in 1 .. Len(q) : Alike(q[i], q[j]) => i = j
    BY <1>4, Unlike
  <1>6. /\ p[1] \in Command /\ e[1].of = p[1] /\ e[1].result \in Results(p[1].kind)
        /\ 1 \in 1 .. Len(p) /\ 1 \in 1 .. Len(e)
    BY <1>4, PopIs
  <1>7. Awaited(s, p[1])
    BY <1>4, <1>6 DEF Matched
  <1>8. \A kind \in Kinds : Has(p, kind) /\ kind # "cancel" => Has(q, kind)
    BY <1>4, HasPop
  <1>9. p[1].target = s.cancelling /\ s.cancelling # NoTarget /\ p[1].target \in Target
        /\ p[1].target.tab \in Tab /\ p[1].target.navigation \in Nat \ {0}
    <2>1. p[1].target \in Target /\ p[1].target = s.cancelling /\ s.cancelling # NoTarget
      BY <1>4, <1>6, CommandIs, WaitedFor
    <2>. QED BY <2>1 DEF Target
  <1>10. s.reset = 0
    BY <1>4, <1>6 DEF Alone, Starting
  <1>11. Range(s.tabs) \subseteq Tab
    BY <1>1, TabsAre
  <1>strip. Strip(t)
    BY <1>1 DEF Strip, Differ, Fields
  <1>chrome. Chrome(t)
    BY <1>1 DEF Chrome, Switching, Differ, Fields
  <1>exclusive. Exclusive(t)
    BY <1>1 DEF Exclusive, Switching, Differ, Fields
  <1>loading. Loading(t)
    BY <1>1 DEF Loading, Differ, Fields
  <1>shell. SoundShell(t)
    BY <1>1, <1>strip, <1>chrome, <1>exclusive, <1>loading DEF SoundShell, Differ, Fields
  <1>matched. Matched(t, q)
    <2>1. \A i \in 1 .. Len(q) : Awaited(t, q[i])
      BY <1>5 DEF Awaited, Alike, Starting, Working, Differ, Fields, Gen
    <2>2. \A kind \in Kinds \ {"cancel"} : Has(p, kind) => Has(q, kind)
      BY <1>8
    <2>. QED BY <1>4, <1>5, <2>1, <2>2 DEF Matched, Kinds, Starting, Working, Switching, Differ, Fields
  <1>alone. Alone(t, q, r)
    BY <1>10 DEF Alone, Differ, Fields
  <1>insession. InSession(t, q, f, r)
    BY <1>3 DEF InSession, Gen, Differ, Fields
  <1>frames. Frames(t, q, f, r, x)
    <2>1. SameFrames(s, t)
      BY DEF SameFrames, Differ, Fields
    <2>. QED BY <1>3, <2>1, FramesAlike
  <1>retiring. Retiring(t, q, r)
    BY <1>3 DEF Retiring, Switching, Gen, Differ, Fields
  <1>painted. Painted(t, x)
    BY <1>3 DEF Painted, Seen, Switching, Differ, Fields
  <1>views. Views(t, q, f, r)
    BY <1>3 DEF Views, Differ, Fields
  <1>local. Local(t, q, r)
    BY <1>3 DEF Local, Differ, Fields
  <1>ordered. Ordered(q, f, r)
    BY <1>3
  <1>stopped. Stopped(q, f, r)
    BY <1>3
  <1>owned. Owned(t, q, r)
    BY <1>1, <1>3 DEF Owned, Own, Differ, Fields
  <1>answered. Answered(t, q, f, r)
    <2>1. ASSUME NEW u \in Range(s.tabs)
          PROVE  /\ s.targets[u] = NoTarget =>
                      /\ r.pending[u] = NoTarget
                      /\ \A i \in 1 .. Len(q) : ~NavigatesTab(q[i], u)
                 /\ s.targets[u] # NoTarget =>
                      /\ r.pending[u].navigation <= s.targets[u].navigation
                      /\ \A i \in 1 .. Len(q) : NavigatesTab(q[i], u) =>
                            q[i].target.navigation <= s.targets[u].navigation
                      /\ Carried(q, f, r, s.targets[u])
      <3>1. \A i \in 1 .. Len(q) : i + 1 \in 1 .. Len(p) /\ q[i] = p[i + 1]
        BY <1>4, PopIs
      <3>2. s.targets[u] # NoTarget => s.targets[u].tab = u
        BY <1>4, <1>11 DEF Owned
      <3>3. s.targets[u] # NoTarget => Carried(p, e, r, s.targets[u])
        BY <1>4 DEF Answered
      <3>4. s.targets[u] # NoTarget => Carried(q, f, r, s.targets[u])
        BY <1>4, <1>6, <1>9, <3>2, <3>3, CarriedPop
      <3>. QED BY <1>4, <3>1, <3>4 DEF Answered
    <2>. QED BY <2>1 DEF Answered, Differ, Fields
  <1>rest. SoundButDrawn(t, q, f, r, x)
    BY <1>3, <1>shell, <1>matched, <1>alone, <1>insession, <1>frames, <1>retiring,
       <1>painted, <1>views, <1>local, <1>ordered, <1>stopped, <1>owned, <1>answered DEF SoundButDrawn
  <1>drawn. Drawn(t, q)
    BY <1>3 DEF Drawn, Switching, Gen, Differ, Fields
  <1>. QED BY <1>rest, <1>drawn DEF Sound

\* The worker has its new session.
LEMMA ResetDone ==
    ASSUME NEW s, NEW p, NEW e, NEW r, NEW x, NEW q, NEW f,
           Sound(s, p, e, r, x),
           Pop(p, q), Pop(e, f), p[1].kind = "reset",
           e[1].result = "ok",
           NEW t \in Shell, Differ(s, t, {"reset", "initial", "loading", "ready", "dirty"}),
           t.reset = 0, t.initial = 0, t.ready,
           t.loading = IF s.initial = 0 THEN s.loading ELSE [s.loading EXCEPT ![s.tab] = 0]
    PROVE  Sound(t, q, f, r, x)
  <1>1. s \in Shell /\ ~s.down /\ Strip(s) /\ Chrome(s) /\ Exclusive(s) /\ Loading(s)
    BY DEF Sound, SoundButDrawn, SoundShell
  <1>2. SoundButDrawn(s, p, e, r, x) /\ Drawn(s, p)
    BY DEF Sound
  <1>3. /\ Pipes(q, f) /\ r \in Worker /\ Alone(s, q, r) /\ Frames(s, q, f, r, x)
        /\ Retiring(s, q, r) /\ Painted(s, x) /\ Local(s, q, r) /\ Ordered(q, f, r)
        /\ Stopped(q, f, r) /\ Owned(s, q, r) /\ Views(s, q, f, r)
        /\ Answered(s, q, f, r) /\ Drawn(s, q)
    BY <1>2, Popped DEF Starting
  <1>4. /\ Pipes(p, e) /\ Matched(s, p) /\ Alone(s, p, r) /\ InSession(s, p, e, r)
        /\ Frames(s, p, e, r, x) /\ Retiring(s, p, r) /\ Painted(s, x)
        /\ Views(s, p, e, r) /\ Local(s, p, r) /\ Ordered(p, e, r) /\ Stopped(p, e, r)
        /\ Owned(s, p, r) /\ Answered(s, p, e, r) /\ Drawn(s, p)
    BY DEF Sound, SoundButDrawn
  <1>5. /\ \A i \in 1 .. Len(q) :
              /\ ~Alike(p[1], q[i]) /\ Awaited(s, q[i])
              /\ \A j \in 1 .. Len(q) : Alike(q[i], q[j]) => i = j
    BY <1>4, Unlike
  <1>6. /\ p[1] \in Command /\ e[1].of = p[1] /\ e[1].result \in Results(p[1].kind)
        /\ 1 \in 1 .. Len(p) /\ 1 \in 1 .. Len(e)
    BY <1>4, PopIs
  <1>7. Awaited(s, p[1])
    BY <1>4, <1>6 DEF Matched
  <1>8. \A kind \in Kinds : Has(p, kind) /\ kind # "reset" => Has(q, kind)
    BY <1>4, HasPop
  <1>9. s.reset # 0
    BY <1>4, <1>6, WaitedFor
  <1>10. /\ Renewed(e, 1) /\ r.attached /\ r.session = s.session
         /\ r.tab = s.tab /\ r.generation = Gen(s) /\ r.views = {s.tab}
         /\ \A i \in 1 .. Len(p) : p[i].kind \in Starting => i < 1
    <2>1. Renewed(e, 1)
      BY <1>6 DEF Renewed
    <2>. QED BY <1>4, <1>6, <2>1 DEF InSession
  <1>11. Len(q) = 0 /\ Len(f) = 0
    <2>1. /\ \A i \in 1 .. Len(q) : i + 1 \in 1 .. Len(p) /\ q[i] = p[i + 1] /\ ~(i + 1 < 1)
          /\ Len(q) \in Nat /\ Len(f) \in Nat
      BY <1>4, PopIs
    <2>2. \A i \in 1 .. Len(q) : q[i].kind \notin Starting
      BY <1>10, <2>1
    <2>3. \A i \in 1 .. Len(q) : q[i].kind # "reset"
      BY <1>5 DEF Alike, Working
    <2>4. \A i \in 1 .. Len(q) : q[i].kind \in Starting \cup {"reset"}
      BY <1>3, <1>9 DEF Alone
    <2>. QED BY <1>3, <2>1, <2>2, <2>3, <2>4 DEF Pipes
  <1>12. s.init = 0
    <2>1. ~Has(p, "spawn") /\ ~Has(p, "attach")
      BY <1>10 DEF Has, Starting
    <2>. QED BY <1>4, <1>10, <2>1 DEF InSession
  <1>13. /\ ~Switching(s) /\ s.frame = 0 /\ s.surface = 0 /\ s.creating = NotCreating
         /\ s.closing = NoTab /\ ~s.seeking /\ ~s.visible /\ s.recovery = NoPermit
    BY <1>1, <1>9 DEF Exclusive
  <1>14. /\ s.cancelling = NoTarget /\ s.materialized = {s.tab} /\ s.tab = s.active
         /\ \A u \in Tab : r.pending[u] = NoTarget /\ s.targets[u] = NoTarget
    BY <1>1, <1>3, <1>9 DEF Alone, Strip
  <1>15. /\ Range(s.tabs) \subseteq Tab /\ s.loading \in [Tab -> Nat] /\ s.tab \in Range(s.tabs)
         /\ s.nextNavigation \in Nat \ {0}
    BY <1>1, TabsAre DEF Shell
  <1>strip. Strip(t)
    BY <1>1, <1>14 DEF Strip, Differ, Fields
  <1>chrome. Chrome(t)
    BY <1>1 DEF Chrome, Switching, Differ, Fields
  <1>exclusive. Exclusive(t)
    BY <1>1, <1>12, <1>13 DEF Exclusive, Switching, Differ, Fields
  <1>loading. Loading(t)
    <2>1. \A u \in Range(s.tabs) : t.loading[u] = 0
      <3>1. \A u \in Range(s.tabs) : s.loading[u] # 0 => s.initial # 0 /\ u = s.tab
        BY <1>1, <1>13, <1>14, <1>15 DEF Loading
      <3>. QED BY <1>15, <3>1
    <2>2. /\ t.tabs = s.tabs /\ t.nextNavigation = s.nextNavigation /\ t.targets = s.targets
          /\ t.creating = s.creating
      BY DEF Differ, Fields
    <2>. QED BY <1>13, <1>14, <1>15, <2>1, <2>2 DEF Loading
  <1>shell. SoundShell(t)
    BY <1>1, <1>strip, <1>chrome, <1>exclusive, <1>loading DEF SoundShell, Differ, Fields
  <1>matched. Matched(t, q)
    BY <1>11, <1>12, <1>13, <1>14 DEF Matched, Differ, Fields
  <1>alone. Alone(t, q, r)
    BY DEF Alone
  <1>insession. InSession(t, q, f, r)
    BY <1>10, <1>11, <1>12 DEF InSession, Differ, Fields
  <1>frames. Frames(t, q, f, r, x)
    BY <1>10, <1>11, <1>13, <1>14 DEF Frames, Switching, Gen, Differ, Fields
  <1>retiring. Retiring(t, q, r)
    BY <1>11 DEF Retiring
  <1>painted. Painted(t, x)
    BY <1>3 DEF Painted, Seen, Switching, Differ, Fields
  <1>views. Views(t, q, f, r)
    <2>1. t.materialized = {s.tab}
      BY <1>14 DEF Differ, Fields
    <2>. QED BY <1>10, <1>11, <2>1 DEF Views
  <1>local. Local(t, q, r)
    BY <1>3 DEF Local, Differ, Fields
  <1>ordered. Ordered(q, f, r)
    BY <1>3
  <1>stopped. Stopped(q, f, r)
    BY <1>3
  <1>owned. Owned(t, q, r)
    BY <1>3 DEF Owned, Own, Differ, Fields
  <1>answered. Answered(t, q, f, r)
    <2>1. t.tabs = s.tabs /\ t.targets = s.targets
      BY DEF Differ, Fields
    <2>. QED BY <1>11, <1>14, <1>15, <2>1 DEF Answered
  <1>rest. SoundButDrawn(t, q, f, r, x)
    BY <1>3, <1>shell, <1>matched, <1>alone, <1>insession, <1>frames, <1>retiring,
       <1>painted, <1>views, <1>local, <1>ordered, <1>stopped, <1>owned, <1>answered DEF SoundButDrawn
  <1>drawn. Drawn(t, q)
    BY <1>13 DEF Drawn, Switching, Differ, Fields
  <1>. QED BY <1>rest, <1>drawn DEF Sound

\* The engine is made for a session that is gone.
LEMMA SpawnDead ==
    ASSUME NEW s, NEW p, NEW e, NEW r, NEW x, NEW q, NEW f,
           Sound(s, p, e, r, x),
           Pop(p, q), Pop(e, f), p[1].kind = "spawn",
           p[1].tab \notin Range(s.tabs)
    PROVE  Sound(s, q, f, r, x)
  <1>1. s \in Shell /\ ~s.down /\ Strip(s) /\ Chrome(s) /\ Exclusive(s) /\ Loading(s)
    BY DEF Sound, SoundButDrawn, SoundShell
  <1>2. SoundButDrawn(s, p, e, r, x) /\ Drawn(s, p)
    BY DEF Sound
  <1>3. /\ Pipes(q, f) /\ r \in Worker /\ Alone(s, q, r) /\ Frames(s, q, f, r, x)
        /\ Retiring(s, q, r) /\ Painted(s, x) /\ Local(s, q, r) /\ Ordered(q, f, r)
        /\ Stopped(q, f, r) /\ Owned(s, q, r) /\ Views(s, q, f, r)
        /\ Answered(s, q, f, r) /\ Drawn(s, q)
    BY <1>2, Popped DEF Starting
  <1>4. /\ Pipes(p, e) /\ Matched(s, p) /\ Alone(s, p, r) /\ InSession(s, p, e, r)
        /\ Frames(s, p, e, r, x) /\ Retiring(s, p, r) /\ Painted(s, x)
        /\ Views(s, p, e, r) /\ Local(s, p, r) /\ Ordered(p, e, r) /\ Stopped(p, e, r)
        /\ Owned(s, p, r) /\ Answered(s, p, e, r) /\ Drawn(s, p)
    BY DEF Sound, SoundButDrawn
  <1>5. /\ \A i \in 1 .. Len(q) :
              /\ ~Alike(p[1], q[i]) /\ Awaited(s, q[i])
              /\ \A j \in 1 .. Len(q) : Alike(q[i], q[j]) => i = j
    BY <1>4, Unlike
  <1>6. /\ p[1] \in Command /\ e[1].of = p[1] /\ e[1].result \in Results(p[1].kind)
        /\ 1 \in 1 .. Len(p) /\ 1 \in 1 .. Len(e)
    BY <1>4, PopIs
  <1>7. Awaited(s, p[1])
    BY <1>4, <1>6 DEF Matched
  <1>8. \A kind \in Kinds : Has(p, kind) /\ kind # "spawn" => Has(q, kind)
    BY <1>4, HasPop
  <1>9. s.init # 0 /\ ~r.attached
    BY <1>4, <1>6, WaitedFor DEF InSession, Starting
  <1>10. ASSUME s.reset = 0 PROVE FALSE
    <2>1. \A i \in 1 .. Len(p) : p[i].kind # "reset"
      BY <1>4, <1>10, WaitedFor
    <2>2. AsStarted(r, p[1])
      BY <1>4, <1>6, <2>1 DEF InSession, Has
    <2>3. ~Switching(s)
      BY <1>1, <1>9 DEF Exclusive
    <2>4. r.tab = s.active
      BY <1>4, <1>10, <2>3 DEF Frames
    <2>. QED BY <1>1, <2>2, <2>4 DEF AsStarted, Strip
  <1>strip. Strip(s)
    BY <1>1
  <1>chrome. Chrome(s)
    BY <1>1
  <1>exclusive. Exclusive(s)
    BY <1>1
  <1>loading. Loading(s)
    BY <1>1
  <1>shell. SoundShell(s)
    BY <1>1, <1>strip, <1>chrome, <1>exclusive, <1>loading DEF SoundShell
  <1>matched. Matched(s, q)
    <2>. QED BY <1>4, <1>5, <1>8, <1>10 DEF Matched, Kinds, Starting, Working
  <1>alone. Alone(s, q, r)
    BY <1>3
  <1>insession. InSession(s, q, f, r)
    <2>1. \A i \in 1 .. Len(q) : q[i].kind \notin Starting
      BY <1>5 DEF Alike, Starting
    <2>. QED BY <1>4, <1>9, <2>1, InSessionStarted
  <1>frames. Frames(s, q, f, r, x)
    BY <1>3
  <1>retiring. Retiring(s, q, r)
    BY <1>3
  <1>painted. Painted(s, x)
    BY <1>3
  <1>views. Views(s, q, f, r)
    BY <1>3
  <1>local. Local(s, q, r)
    BY <1>3
  <1>ordered. Ordered(q, f, r)
    BY <1>3
  <1>stopped. Stopped(q, f, r)
    BY <1>3
  <1>owned. Owned(s, q, r)
    BY <1>3
  <1>answered. Answered(s, q, f, r)
    BY <1>3
  <1>rest. SoundButDrawn(s, q, f, r, x)
    BY <1>3, <1>shell, <1>matched, <1>alone, <1>insession, <1>frames, <1>retiring,
       <1>painted, <1>views, <1>local, <1>ordered, <1>stopped, <1>owned, <1>answered DEF SoundButDrawn
  <1>drawn. Drawn(s, q)
    BY <1>3
  <1>. QED BY <1>rest, <1>drawn DEF Sound

-----------------------------------------------------------------------------
(* Commands that are sent.                                                 *)

\* The engine is made, and its surface is to be attached.
LEMMA SpawnDone ==
    ASSUME NEW s, NEW p, NEW e, NEW r, NEW x, NEW q, NEW f, NEW c \in Command, NEW g,
           Sound(s, p, e, r, x), Pop(p, q), Pop(e, f), p[1].kind = "spawn",
           c.kind = "attach", c.id = p[1].id, c.tab = p[1].tab, Add(q, c, g)
    PROVE  Sound(s, g, f, r, x)
  <1>1. SoundButDrawn(s, p, e, r, x) /\ Drawn(s, p)
    BY DEF Sound
  <1>2. /\ Pipes(p, e) /\ Matched(s, p) /\ Alone(s, p, r) /\ InSession(s, p, e, r)
        /\ Views(s, p, e, r) /\ SoundShell(s) /\ r \in Worker /\ Exclusive(s)
    BY <1>1 DEF SoundButDrawn, SoundShell
  <1>3. /\ Pipes(q, f) /\ Alone(s, q, r) /\ Frames(s, q, f, r, x)
        /\ Retiring(s, q, r) /\ Painted(s, x) /\ Local(s, q, r) /\ Ordered(q, f, r)
        /\ Stopped(q, f, r) /\ Owned(s, q, r) /\ Views(s, q, f, r)
        /\ Answered(s, q, f, r) /\ Drawn(s, q)
    BY <1>1, Popped
  <1>4. /\ Len(q) \in Nat /\ Len(g) \in Nat /\ Len(f) \in Nat
        /\ Len(g) = Len(q) + 1 /\ Len(f) <= Len(q)
        /\ Len(g) \in 1 .. Len(g) /\ g[Len(g)] = c
        /\ \A i \in 1 .. Len(q) : i \in 1 .. Len(g) /\ g[i] = q[i] /\ i < Len(g)
        /\ \A i \in 1 .. Len(g) :
              \/ i \in 1 .. Len(q) /\ g[i] = q[i] /\ i < Len(g)
              \/ i = Len(g) /\ g[i] = c /\ ~(i <= Len(f)) /\ i > Len(f)
        /\ \A i \in 1 .. Len(f) : i \in 1 .. Len(q) /\ i \in 1 .. Len(g) /\ g[i] = q[i]
        /\ Pipes(g, f)
    BY <1>3, AddIs
  <1>5. /\ Frames(s, g, f, r, x) /\ Retiring(s, g, r) /\ Local(s, g, r) /\ Ordered(g, f, r)
        /\ Stopped(g, f, r) /\ Owned(s, g, r) /\ Views(s, g, f, r)
        /\ Answered(s, g, f, r) /\ Drawn(s, g)
    BY <1>3, Behind
  <1>6. /\ 1 \in 1 .. Len(p) /\ p[1].kind \in Starting
        /\ \A i \in 1 .. Len(q) : i + 1 \in 1 .. Len(p) /\ q[i] = p[i + 1]
        /\ \A i \in 1 .. Len(p) : i # 1 => i - 1 \in 1 .. Len(q) /\ q[i - 1] = p[i]
    BY <1>2, PopIs DEF Starting
  <1>7. \A i \in 1 .. Len(q) : /\ Awaited(s, q[i]) /\ q[i].kind \notin Starting
                               /\ \A j \in 1 .. Len(q) : Alike(q[i], q[j]) => i = j
    BY <1>2, <1>6, Unlike DEF Alike
  <1>8. Alone(s, g, r)
    BY <1>3, <1>4 DEF Alone, Starting
  <1>9. Matched(s, g)
    <2>1. Awaited(s, c)
      BY <1>2, <1>6 DEF Matched, Awaited, Starting, Working
    <2>2. \A i \in 1 .. Len(g) : Awaited(s, g[i])
      BY <1>4, <1>7, <2>1
    <2>3. \A i \in 1 .. Len(q) : ~Alike(q[i], c) /\ ~Alike(c, q[i])
      BY <1>7 DEF Alike, Starting, Working
    <2>4. \A i, j \in 1 .. Len(g) : Alike(g[i], g[j]) => i = j
      BY <1>4, <1>7, <2>3
    <2>5. \A kind \in Kinds \ {"spawn"} : Has(p, kind) => Has(q, kind)
      BY <1>2, HasPop
    <2>6. \A kind \in Kinds \ {"spawn"} : Has(p, kind) => Has(g, kind)
      BY <1>4, <2>5 DEF Has
    <2>7. Has(g, "attach")
      BY <1>4 DEF Has
    <2>. QED BY <1>2, <2>2, <2>4, <2>6, <2>7 DEF Matched, Kinds, Starting, Working
  <1>10. InSession(s, g, f, r)
    <2>1. ~r.attached /\ (Has(p, "reset") \/ AsStarted(r, p[1]))
      BY <1>2, <1>6 DEF InSession
    <2>2. InSession([s EXCEPT !.init = 0], q, f, r)
      <3>1. \A i \in 1 .. Len(q) : q[i].kind \notin Starting
        BY <1>7
      <3>2. s \in Shell
        BY <1>2 DEF SoundShell
      <3>3. /\ [s EXCEPT !.init = 0].reset = s.reset /\ [s EXCEPT !.init = 0].session = s.session
            /\ [s EXCEPT !.init = 0].tab = s.tab /\ [s EXCEPT !.init = 0].handoff = s.handoff
        BY <3>2 DEF Shell
      <3>. QED BY <1>2, <2>1, <3>1, <3>3, InSessionStarted DEF Gen
    <2>3. /\ s.reset = 0 => r.session = s.session
          /\ \A i \in 1 .. Len(q) : q[i].kind = "reset" =>
                /\ i <= Len(f) => f[i].result # "refused"
                /\ i <= Len(f) /\ f[i].result = "ok" => r.attached
                /\ ~Renewed(f, i) => r.session + 1 = s.session
                /\ Renewed(f, i) =>
                      /\ r.session = s.session
                      /\ r.tab = s.tab /\ r.generation = Gen(s)
                      /\ r.views = {s.tab}
      <3>1. s \in Shell
        BY <1>2 DEF SoundShell
      <3>2. /\ [s EXCEPT !.init = 0].reset = s.reset /\ [s EXCEPT !.init = 0].session = s.session
            /\ [s EXCEPT !.init = 0].tab = s.tab /\ [s EXCEPT !.init = 0].handoff = s.handoff
        BY <3>1 DEF Shell
      <3>. QED BY <2>2, <3>2 DEF InSession, Gen
    <2>4. Has(p, "reset") => After(g, "reset", Len(g))
      <3>1. SUFFICES ASSUME Has(p, "reset") PROVE After(g, "reset", Len(g))
        OBVIOUS
      <3>2. Has(q, "reset")
        BY <1>2, <3>1, HasPop
      <3>. QED BY <1>4, <3>2 DEF Has, After
    <2>5. /\ \A i \in 1 .. Len(g) : g[i].kind # "spawn"
          /\ \A i \in 1 .. Len(g) : g[i].kind = "attach" => i = Len(g)
          /\ \A i \in 1 .. Len(g) : g[i].kind = "reset" => i \in 1 .. Len(q) /\ g[i] = q[i]
      BY <1>4, <1>7 DEF Starting
    <2>6. Has(g, "attach")
      BY <1>4 DEF Has
    <2>7. ASSUME NEW i \in 1 .. Len(g), g[i].kind = "attach"
          PROVE  /\ i > Len(f) => ~r.attached
                 /\ i > Len(f) => After(g, "reset", i) \/ AsStarted(r, g[i])
                 /\ i <= Len(f) /\ f[i].result = "refused" => After(g, "reset", i)
      BY <1>4, <2>1, <2>4, <2>5, <2>7 DEF AsStarted
    <2>8. ASSUME NEW i \in 1 .. Len(g), g[i].kind = "reset"
          PROVE  /\ i <= Len(f) => f[i].result # "refused"
                 /\ i <= Len(f) /\ f[i].result = "ok" =>
                       /\ r.attached
                       /\ \A j \in 1 .. Len(g) : g[j].kind \in Starting => j < i
                 /\ ~Renewed(f, i) => r.session + 1 = s.session
                 /\ Renewed(f, i) =>
                       /\ r.session = s.session
                       /\ r.tab = s.tab /\ r.generation = Gen(s)
                       /\ r.views = {s.tab}
      BY <2>1, <2>3, <2>5, <2>8
    <2>. QED BY <2>3, <2>5, <2>6, <2>7, <2>8 DEF InSession
  <1>. QED BY <1>2, <1>3, <1>4, <1>5, <1>8, <1>9, <1>10 DEF Sound, SoundButDrawn

\* The permit that waits is about to be used.
LEMMA PermitTaken ==
    ASSUME NEW s, NEW p, NEW e, NEW r, NEW x,
           SoundButDrawn(s, p, e, r, x),
           s.frame = 0, s.surface = 0,
           NEW t \in Shell, Differ(s, t, {"permit"}),
           t.permit = NoPermit
    PROVE  SoundButDrawn(t, p, e, r, x)
  <1>1. s \in Shell /\ ~s.down /\ Strip(s) /\ Chrome(s) /\ Exclusive(s) /\ Loading(s)
    BY DEF Sound, SoundButDrawn, SoundShell
  <1>2. /\ Pipes(p, e) /\ r \in Worker /\ Matched(s, p) /\ Alone(s, p, r)
        /\ InSession(s, p, e, r) /\ Frames(s, p, e, r, x) /\ Retiring(s, p, r)
        /\ Painted(s, x) /\ Views(s, p, e, r) /\ Local(s, p, r) /\ Ordered(p, e, r)
        /\ Stopped(p, e, r) /\ Owned(s, p, r) /\ Answered(s, p, e, r)
    BY DEF Sound, SoundButDrawn
  <1>3. \A i \in 1 .. Len(p) : p[i].kind # "render"
    BY <1>2, WaitedFor
  <1>strip. Strip(t)
    BY <1>1 DEF Strip, Differ, Fields
  <1>chrome. Chrome(t)
    BY <1>1 DEF Chrome, Switching, Differ, Fields
  <1>exclusive. Exclusive(t)
    BY <1>1 DEF Exclusive, Switching, Differ, Fields
  <1>loading. Loading(t)
    BY <1>1 DEF Loading, Differ, Fields
  <1>shell. SoundShell(t)
    BY <1>1, <1>strip, <1>chrome, <1>exclusive, <1>loading DEF SoundShell, Differ, Fields
  <1>matched. Matched(t, p)
    BY <1>2 DEF Matched, Awaited, Switching, Gen, Differ, Fields
  <1>alone. Alone(t, p, r)
    BY <1>2 DEF Alone, Differ, Fields
  <1>insession. InSession(t, p, e, r)
    BY <1>2 DEF InSession, Gen, Differ, Fields
  <1>frames. Frames(t, p, e, r, x)
    BY <1>1, <1>2, <1>3 DEF Frames, Switching, Gen, Differ, Fields
  <1>retiring. Retiring(t, p, r)
    BY <1>2 DEF Retiring, Switching, Gen, Differ, Fields
  <1>painted. Painted(t, x)
    BY <1>2 DEF Painted, Seen, Switching, Differ, Fields
  <1>views. Views(t, p, e, r)
    BY <1>2 DEF Views, Differ, Fields
  <1>local. Local(t, p, r)
    BY <1>2 DEF Local, Differ, Fields
  <1>ordered. Ordered(p, e, r)
    BY <1>2
  <1>stopped. Stopped(p, e, r)
    BY <1>2
  <1>owned. Owned(t, p, r)
    BY <1>2 DEF Owned, Own, Differ, Fields
  <1>answered. Answered(t, p, e, r)
    BY <1>2 DEF Answered, Differ, Fields
  <1>rest. SoundButDrawn(t, p, e, r, x)
    BY <1>2, <1>shell, <1>matched, <1>alone, <1>insession, <1>frames, <1>retiring,
       <1>painted, <1>views, <1>local, <1>ordered, <1>stopped, <1>owned, <1>answered DEF SoundButDrawn
  <1>. QED BY <1>rest

\* A window without an area keeps the permit.
LEMMA PermitKept ==
    ASSUME NEW s, NEW p, NEW e, NEW r, NEW x,
           SoundButDrawn(s, p, e, r, x),
           s.frame = 0, s.surface = 0, s.permit = NoPermit, Switching(s),
           NEW t \in Shell, Differ(s, t, {"permit", "dirty"}),
           t.permit = TargetPermit(s.handoff, s.handoff.pending.id, s.active)
    PROVE  Sound(t, p, e, r, x)
  <1>1. s \in Shell /\ ~s.down /\ Strip(s) /\ Chrome(s) /\ Exclusive(s) /\ Loading(s)
    BY DEF Sound, SoundButDrawn, SoundShell
  <1>2. /\ Pipes(p, e) /\ r \in Worker /\ Matched(s, p) /\ Alone(s, p, r)
        /\ InSession(s, p, e, r) /\ Frames(s, p, e, r, x) /\ Retiring(s, p, r)
        /\ Painted(s, x) /\ Views(s, p, e, r) /\ Local(s, p, r) /\ Ordered(p, e, r)
        /\ Stopped(p, e, r) /\ Owned(s, p, r) /\ Answered(s, p, e, r)
    BY DEF Sound, SoundButDrawn
  <1>3. \A i \in 1 .. Len(p) : p[i].kind # "render"
    BY <1>2, WaitedFor
  <1>strip. Strip(t)
    BY <1>1 DEF Strip, Differ, Fields
  <1>chrome. Chrome(t)
    BY <1>1 DEF Chrome, Switching, Differ, Fields
  <1>exclusive. Exclusive(t)
    BY <1>1 DEF Exclusive, Switching, Differ, Fields
  <1>loading. Loading(t)
    BY <1>1 DEF Loading, Differ, Fields
  <1>shell. SoundShell(t)
    BY <1>1, <1>strip, <1>chrome, <1>exclusive, <1>loading DEF SoundShell, Differ, Fields
  <1>matched. Matched(t, p)
    BY <1>2 DEF Matched, Awaited, Switching, Gen, Differ, Fields
  <1>alone. Alone(t, p, r)
    BY <1>2 DEF Alone, Differ, Fields
  <1>insession. InSession(t, p, e, r)
    BY <1>2 DEF InSession, Gen, Differ, Fields
  <1>frames. Frames(t, p, e, r, x)
    BY <1>1, <1>2, <1>3 DEF Frames, Switching, Gen, Differ, Fields
  <1>retiring. Retiring(t, p, r)
    BY <1>2 DEF Retiring, Switching, Gen, Differ, Fields
  <1>painted. Painted(t, x)
    BY <1>2 DEF Painted, Seen, Switching, Differ, Fields
  <1>views. Views(t, p, e, r)
    BY <1>2 DEF Views, Differ, Fields
  <1>local. Local(t, p, r)
    BY <1>2 DEF Local, Differ, Fields
  <1>ordered. Ordered(p, e, r)
    BY <1>2
  <1>stopped. Stopped(p, e, r)
    BY <1>2
  <1>owned. Owned(t, p, r)
    BY <1>2 DEF Owned, Own, Differ, Fields
  <1>answered. Answered(t, p, e, r)
    BY <1>2 DEF Answered, Differ, Fields
  <1>rest. SoundButDrawn(t, p, e, r, x)
    BY <1>2, <1>shell, <1>matched, <1>alone, <1>insession, <1>frames, <1>retiring,
       <1>painted, <1>views, <1>local, <1>ordered, <1>stopped, <1>owned, <1>answered DEF SoundButDrawn
  <1>drawn. Drawn(t, p)
    <2>1. t.permit # NoPermit
      <3>1. s.handoff.pending.id # 0
        BY <1>1 DEF Chrome, Shell, Handoff, Intent, Switching, Activating, NoIntent
      <3>. QED BY <3>1 DEF TargetPermit, NoPermit
    <2>. QED BY <2>1 DEF Drawn
  <1>. QED BY <1>rest, <1>drawn DEF Sound

\* A frame of the current tab, or of the target, is asked for.
LEMMA FrameAsked ==
    ASSUME NEW s, NEW p, NEW e, NEW r, NEW x, NEW q, NEW c \in Command,
           SoundButDrawn(s, p, e, r, x),
           Add(p, c, q), c.kind = "render",
           s.ready, s.reset = 0, s.frame = 0, s.surface = 0, s.creating = NotCreating,
           s.permit = NoPermit,
           NEW t \in Shell, Differ(s, t, {"frame", "dirty", "out"}),
           t.frame = c.id,
           c.permit.generation = Gen(s), c.permit.tab = s.active,
           c.permit.activation = IF Switching(s) THEN s.handoff.pending.id ELSE 0
    PROVE  Sound(t, q, e, r, x)
  <1>1. s \in Shell /\ ~s.down /\ Strip(s) /\ Chrome(s) /\ Exclusive(s) /\ Loading(s)
    BY DEF Sound, SoundButDrawn, SoundShell
  <1>2. /\ Pipes(q, e) /\ r \in Worker /\ InSession(s, q, e, r) /\ Painted(s, x)
        /\ Views(s, q, e, r) /\ (s.reset = 0 => Alone(s, q, r)) /\ Ordered(q, e, r)
        /\ Local(s, q, r) /\ Stopped(q, e, r) /\ Owned(s, q, r) /\ Answered(s, q, e, r)
        /\ \A i \in 1 .. Len(p) : Awaited(s, p[i])
        /\ \A i, j \in 1 .. Len(p) : Alike(p[i], p[j]) => i = j
        /\ \A kind \in Kinds : Has(p, kind) => Has(q, kind)
        /\ \A kind \in Kinds : Has(q, kind) => Has(p, kind) \/ kind = "render"
        /\ Has(q, "render")
    BY Added DEF Sound, Starting
  <1>3. /\ Pipes(p, e) /\ Matched(s, p) /\ Alone(s, p, r) /\ InSession(s, p, e, r)
        /\ Frames(s, p, e, r, x) /\ Retiring(s, p, r) /\ Painted(s, x)
        /\ Views(s, p, e, r) /\ Local(s, p, r) /\ Ordered(p, e, r) /\ Stopped(p, e, r)
        /\ Owned(s, p, r) /\ Answered(s, p, e, r)
    BY DEF Sound, SoundButDrawn
  <1>4. /\ Len(p) \in Nat /\ Len(q) \in Nat /\ Len(e) \in Nat
        /\ Len(q) = Len(p) + 1 /\ Len(e) <= Len(p)
        /\ Len(q) \in 1 .. Len(q) /\ q[Len(q)] = c
        /\ \A i \in 1 .. Len(p) : i \in 1 .. Len(q) /\ q[i] = p[i] /\ i < Len(q)
        /\ \A i \in 1 .. Len(q) :
              \/ i \in 1 .. Len(p) /\ q[i] = p[i] /\ i < Len(q)
              \/ i = Len(q) /\ q[i] = c /\ ~(i <= Len(e)) /\ i > Len(e)
        /\ \A i \in 1 .. Len(e) : i \in 1 .. Len(p) /\ i \in 1 .. Len(q) /\ q[i] = p[i]
    BY <1>3, AddIs
  <1>5. \A i \in 1 .. Len(p) : p[i].kind \notin Working
    BY <1>3, WaitedFor DEF Working
  <1>6. c.id # 0
    <2>1. c.id \in Nat \ {0}
      BY CommandIs DEF Working
    <2>. QED BY <2>1
  <1>strip. Strip(t)
    BY <1>1 DEF Strip, Differ, Fields
  <1>chrome. Chrome(t)
    BY <1>1 DEF Chrome, Switching, Differ, Fields
  <1>exclusive. Exclusive(t)
    BY <1>1 DEF Exclusive, Switching, Differ, Fields
  <1>loading. Loading(t)
    BY <1>1 DEF Loading, Differ, Fields
  <1>shell. SoundShell(t)
    BY <1>1, <1>strip, <1>chrome, <1>exclusive, <1>loading DEF SoundShell, Differ, Fields
  <1>matched. Matched(t, q)
    <2>1. \A i \in 1 .. Len(q) : Awaited(t, q[i])
      <3>1. \A i \in 1 .. Len(p) : Awaited(t, p[i])
        BY <1>2, <1>3, WaitedFor DEF Awaited, Starting, Working, Differ, Fields, Gen
      <3>2. Awaited(t, c)
        BY DEF Awaited, Starting, Working, Differ, Fields, Gen
      <3>. QED BY <1>4, <3>1, <3>2
    <2>2. \A i \in 1 .. Len(p) : ~Alike(p[i], c) /\ ~Alike(c, p[i])
      BY <1>1, <1>3, WaitedFor DEF Alike, Starting, Working
    <2>3. \A i, j \in 1 .. Len(q) : Alike(q[i], q[j]) => i = j
      BY <1>2, <1>4, <2>2
    <2>. QED BY <1>2, <1>3, <2>1, <2>3 DEF Matched, Kinds, Starting, Working, Switching, Differ, Fields
  <1>alone. Alone(t, q, r)
    BY <1>2 DEF Alone, Differ, Fields
  <1>insession. InSession(t, q, e, r)
    BY <1>2 DEF InSession, Gen, Differ, Fields
  <1>frames. Frames(t, q, e, r, x)
    <2>1. Fits(t, c.permit)
      <3>1. Gen(s) \in Nat
        BY <1>1 DEF Gen, Shell, Handoff
      <3>. QED BY <1>1, <3>1 DEF Fits, Strip, Switching, Gen, Differ, Fields
    <2>2. /\ c.permit.generation = r.generation => c.permit.tab = r.tab
          /\ c.permit.generation # r.generation =>
                ForTarget(c.permit) /\ c.permit.generation > r.generation
      <3>1. Gen(s) \in Nat /\ r.generation \in Nat
        BY <1>1, <1>2 DEF Gen, Shell, Handoff, Worker
      <3>2. Switching(s) => s.handoff.pending.id # 0
        BY <1>1 DEF Chrome, Shell, Handoff, Intent, Switching, Activating, NoIntent
      <3>. QED BY <1>3, <3>1, <3>2 DEF Frames, ForTarget
    <2>3. \A i \in 1 .. Len(q) : q[i].kind = "render" => q[i] = c /\ ~(i <= Len(e))
      BY <1>4, <1>5 DEF Working
    <2>4. /\ t.surface = 0 /\ t.handoff = s.handoff /\ t.reset = s.reset /\ t.active = s.active
      BY DEF Differ, Fields
    <2>. QED BY <1>3, <2>1, <2>2, <2>3, <2>4 DEF Frames, Switching, Gen
  <1>retiring. Retiring(t, q, r)
    <2>1. \A i \in 1 .. Len(q) : q[i].kind = "render" => i = Len(q) /\ q[i].permit.tab \in Range(s.tabs)
      BY <1>1, <1>4, <1>5 DEF Working, Strip
    <2>2. \A i \in 1 .. Len(q) : q[i].kind = "close" => i \in 1 .. Len(p) /\ p[i] = q[i] /\ i < Len(q)
      BY <1>4
    <2>. QED BY <1>3, <2>1, <2>2 DEF Retiring, Differ, Fields
  <1>painted. Painted(t, x)
    BY <1>2 DEF Painted, Seen, Switching, Differ, Fields
  <1>views. Views(t, q, e, r)
    BY <1>2 DEF Views, Differ, Fields
  <1>local. Local(t, q, r)
    BY <1>2 DEF Local, Differ, Fields
  <1>ordered. Ordered(q, e, r)
    BY <1>2
  <1>stopped. Stopped(q, e, r)
    BY <1>2
  <1>owned. Owned(t, q, r)
    BY <1>2 DEF Owned, Own, Differ, Fields
  <1>answered. Answered(t, q, e, r)
    BY <1>2 DEF Answered, Differ, Fields
  <1>rest. SoundButDrawn(t, q, e, r, x)
    BY <1>2, <1>shell, <1>matched, <1>alone, <1>insession, <1>frames, <1>retiring,
       <1>painted, <1>views, <1>local, <1>ordered, <1>stopped, <1>owned, <1>answered DEF SoundButDrawn
  <1>drawn. Drawn(t, q)
    <2>1. q[Len(q)].kind = "render" /\ q[Len(q)].permit.generation = Gen(t) /\ Len(q) \in 1 .. Len(q)
      BY <1>4 DEF Gen, Differ, Fields
    <2>. QED BY <2>1 DEF Drawn
  <1>. QED BY <1>rest, <1>drawn DEF Sound

\* The surface of a lost frame is to be replaced.
LEMMA SurfaceAsked ==
    ASSUME NEW s, NEW p, NEW e, NEW r, NEW x, NEW q, NEW c \in Command,
           SoundButDrawn(s, p, e, r, x),
           Add(p, c, q), c.kind = "replace",
           s.ready, s.reset = 0, s.frame = 0, s.surface = 0, s.creating = NotCreating,
           NEW t \in Shell, Differ(s, t, {"surface", "recovery", "out"}),
           t.surface = c.id, t.recovery \in Permit, t.recovery # NoPermit, c.tab = t.recovery.tab,
           Fits(s, t.recovery), t.recovery.tab \in Range(s.tabs),
           r.generation = t.recovery.generation, r.tab = t.recovery.tab,
           ~(Has(p, "close") /\ Switching(s) /\ t.recovery.generation = Gen(s))
    PROVE  Sound(t, q, e, r, x)
  <1>1. s \in Shell /\ ~s.down /\ Strip(s) /\ Chrome(s) /\ Exclusive(s) /\ Loading(s)
    BY DEF Sound, SoundButDrawn, SoundShell
  <1>2. /\ Pipes(q, e) /\ r \in Worker /\ InSession(s, q, e, r) /\ Painted(s, x)
        /\ Views(s, q, e, r) /\ (s.reset = 0 => Alone(s, q, r)) /\ Frames(s, q, e, r, x)
        /\ Retiring(s, q, r) /\ Ordered(q, e, r) /\ Local(s, q, r) /\ Stopped(q, e, r)
        /\ Owned(s, q, r) /\ Answered(s, q, e, r)
        /\ \A i \in 1 .. Len(p) : Awaited(s, p[i])
        /\ \A i, j \in 1 .. Len(p) : Alike(p[i], p[j]) => i = j
        /\ \A kind \in Kinds : Has(p, kind) => Has(q, kind)
        /\ \A kind \in Kinds : Has(q, kind) => Has(p, kind) \/ kind = "replace"
        /\ Has(q, "replace")
    BY Added DEF Sound, Starting
  <1>3. /\ Pipes(p, e) /\ Matched(s, p) /\ Alone(s, p, r) /\ InSession(s, p, e, r)
        /\ Frames(s, p, e, r, x) /\ Retiring(s, p, r) /\ Painted(s, x)
        /\ Views(s, p, e, r) /\ Local(s, p, r) /\ Ordered(p, e, r) /\ Stopped(p, e, r)
        /\ Owned(s, p, r) /\ Answered(s, p, e, r)
    BY DEF Sound, SoundButDrawn
  <1>4. /\ Len(p) \in Nat /\ Len(q) \in Nat /\ Len(e) \in Nat
        /\ Len(q) = Len(p) + 1 /\ Len(e) <= Len(p)
        /\ Len(q) \in 1 .. Len(q) /\ q[Len(q)] = c
        /\ \A i \in 1 .. Len(p) : i \in 1 .. Len(q) /\ q[i] = p[i] /\ i < Len(q)
        /\ \A i \in 1 .. Len(q) :
              \/ i \in 1 .. Len(p) /\ q[i] = p[i] /\ i < Len(q)
              \/ i = Len(q) /\ q[i] = c /\ ~(i <= Len(e)) /\ i > Len(e)
        /\ \A i \in 1 .. Len(e) : i \in 1 .. Len(p) /\ i \in 1 .. Len(q) /\ q[i] = p[i]
    BY <1>3, AddIs
  <1>5. \A i \in 1 .. Len(p) : p[i].kind \notin Working
    BY <1>3, WaitedFor DEF Working
  <1>6. c.id # 0
    <2>1. c.id \in Nat \ {0}
      BY CommandIs DEF Working
    <2>. QED BY <2>1
  <1>strip. Strip(t)
    BY <1>1 DEF Strip, Differ, Fields
  <1>chrome. Chrome(t)
    BY <1>1 DEF Chrome, Switching, Differ, Fields
  <1>exclusive. Exclusive(t)
    BY <1>1, <1>6 DEF Exclusive, Switching, Differ, Fields
  <1>loading. Loading(t)
    BY <1>1 DEF Loading, Differ, Fields
  <1>shell. SoundShell(t)
    BY <1>1, <1>strip, <1>chrome, <1>exclusive, <1>loading DEF SoundShell, Differ, Fields
  <1>matched. Matched(t, q)
    <2>1. \A i \in 1 .. Len(q) : Awaited(t, q[i])
      <3>1. \A i \in 1 .. Len(p) : Awaited(t, p[i])
        BY <1>2, <1>3, WaitedFor DEF Awaited, Starting, Working, Differ, Fields, Gen
      <3>2. Awaited(t, c)
        BY DEF Awaited, Starting, Working, Differ, Fields, Gen
      <3>. QED BY <1>4, <3>1, <3>2
    <2>2. \A i \in 1 .. Len(p) : ~Alike(p[i], c) /\ ~Alike(c, p[i])
      BY <1>1, <1>3, WaitedFor DEF Alike, Starting, Working
    <2>3. \A i, j \in 1 .. Len(q) : Alike(q[i], q[j]) => i = j
      BY <1>2, <1>4, <2>2
    <2>. QED BY <1>2, <1>3, <2>1, <2>3 DEF Matched, Kinds, Starting, Working, Switching, Differ, Fields
  <1>alone. Alone(t, q, r)
    BY <1>2 DEF Alone, Differ, Fields
  <1>insession. InSession(t, q, e, r)
    BY <1>2 DEF InSession, Gen, Differ, Fields
  <1>frames. Frames(t, q, e, r, x)
    <2>1. \A i \in 1 .. Len(q) : q[i].kind # "render"
      BY <1>4, <1>5 DEF Working
    <2>2. Fits(t, t.recovery)
      BY DEF Fits, Switching, Gen, Differ, Fields
    <2>. QED BY <1>3, <2>1, <2>2 DEF Frames, Switching, Gen, Differ, Fields
  <1>retiring. Retiring(t, q, r)
    <2>1. \A i \in 1 .. Len(q) : q[i].kind # "render"
      BY <1>4, <1>5 DEF Working
    <2>2. \A i \in 1 .. Len(q) : q[i].kind = "close" => i \in 1 .. Len(p) /\ p[i].kind = "close"
      BY <1>4
    <2>. QED BY <1>3, <2>1, <2>2 DEF Retiring, Has, Switching, Gen, Differ, Fields
  <1>painted. Painted(t, x)
    BY <1>2 DEF Painted, Seen, Switching, Differ, Fields
  <1>views. Views(t, q, e, r)
    BY <1>2 DEF Views, Differ, Fields
  <1>local. Local(t, q, r)
    BY <1>2 DEF Local, Differ, Fields
  <1>ordered. Ordered(q, e, r)
    BY <1>2
  <1>stopped. Stopped(q, e, r)
    BY <1>2
  <1>owned. Owned(t, q, r)
    BY <1>2 DEF Owned, Own, Differ, Fields
  <1>answered. Answered(t, q, e, r)
    BY <1>2 DEF Answered, Differ, Fields
  <1>rest. SoundButDrawn(t, q, e, r, x)
    BY <1>2, <1>shell, <1>matched, <1>alone, <1>insession, <1>frames, <1>retiring,
       <1>painted, <1>views, <1>local, <1>ordered, <1>stopped, <1>owned, <1>answered DEF SoundButDrawn
  <1>drawn. Drawn(t, q)
    <2>1. Switching(s) /\ s.permit = NoPermit => t.recovery.generation = Gen(s)
      BY DEF Fits
    <2>. QED BY <1>6, <2>1 DEF Drawn, Switching, Gen, Differ, Fields
  <1>. QED BY <1>rest, <1>drawn DEF Sound

-----------------------------------------------------------------------------
(* Commands that are sent for the tabs and their pages.                    *)

\* The frame of the target ends the switch, and the old view is to be retired.
LEMMA CloseAsked ==
    ASSUME NEW s, NEW p, NEW e, NEW r, NEW x, NEW q, NEW c \in Command,
           SoundButDrawn(s, p, e, r, x),
           Add(p, c, q), c.kind = "close",
           Switching(s), s.permit = NoPermit, s.frame = 0, s.surface = 0, s.closing # NoTab,
           r.generation = Gen(s), x = Seen(s), ~Has(p, "close"),
           NEW t \in Shell, Differ(s, t, {"handoff", "out"}),
           c.tab = s.closing,
           ~Switching(t), t.handoff.represented = s.active, t.handoff.content = s.active,
           Gen(t) = Gen(s)
    PROVE  Sound(t, q, e, r, x)
  <1>1. s \in Shell /\ ~s.down /\ Strip(s) /\ Chrome(s) /\ Exclusive(s) /\ Loading(s)
    BY DEF Sound, SoundButDrawn, SoundShell
  <1>2. /\ Pipes(q, e) /\ r \in Worker /\ InSession(s, q, e, r) /\ Painted(s, x)
        /\ Views(s, q, e, r) /\ (s.reset = 0 => Alone(s, q, r)) /\ Frames(s, q, e, r, x)
        /\ Local(s, q, r) /\ Stopped(q, e, r) /\ Owned(s, q, r) /\ Answered(s, q, e, r)
        /\ \A i \in 1 .. Len(p) : Awaited(s, p[i])
        /\ \A i, j \in 1 .. Len(p) : Alike(p[i], p[j]) => i = j
        /\ \A kind \in Kinds : Has(p, kind) => Has(q, kind)
        /\ \A kind \in Kinds : Has(q, kind) => Has(p, kind) \/ kind = "close"
        /\ Has(q, "close")
    BY Added DEF Sound, Starting
  <1>3. /\ Pipes(p, e) /\ Matched(s, p) /\ Alone(s, p, r) /\ InSession(s, p, e, r)
        /\ Frames(s, p, e, r, x) /\ Retiring(s, p, r) /\ Painted(s, x)
        /\ Views(s, p, e, r) /\ Local(s, p, r) /\ Ordered(p, e, r) /\ Stopped(p, e, r)
        /\ Owned(s, p, r) /\ Answered(s, p, e, r)
    BY DEF Sound, SoundButDrawn
  <1>4. /\ Len(p) \in Nat /\ Len(q) \in Nat /\ Len(e) \in Nat
        /\ Len(q) = Len(p) + 1 /\ Len(e) <= Len(p)
        /\ Len(q) \in 1 .. Len(q) /\ q[Len(q)] = c
        /\ \A i \in 1 .. Len(p) : i \in 1 .. Len(q) /\ q[i] = p[i] /\ i < Len(q)
        /\ \A i \in 1 .. Len(q) :
              \/ i \in 1 .. Len(p) /\ q[i] = p[i] /\ i < Len(q)
              \/ i = Len(q) /\ q[i] = c /\ ~(i <= Len(e)) /\ i > Len(e)
        /\ \A i \in 1 .. Len(e) : i \in 1 .. Len(p) /\ i \in 1 .. Len(q) /\ q[i] = p[i]
    BY <1>3, AddIs
  <1>5. s.reset = 0 /\ s.ready /\ \A i \in 1 .. Len(p) : p[i].kind # "render" /\ p[i].kind # "close"
    BY <1>1, <1>3, WaitedFor DEF Exclusive, Has
  <1>6. /\ s.closing \notin Range(s.tabs) /\ s.active \in Range(s.tabs) /\ r.tab = s.active
    BY <1>1, <1>3 DEF Strip, Frames
  <1>strip. Strip(t)
    BY <1>1 DEF Strip, Differ, Fields
  <1>chrome. Chrome(t)
    BY <1>1 DEF Chrome, Differ, Fields
  <1>exclusive. Exclusive(t)
    BY <1>1, <1>5 DEF Exclusive, Differ, Fields
  <1>loading. Loading(t)
    BY <1>1 DEF Loading, Differ, Fields
  <1>shell. SoundShell(t)
    BY <1>1, <1>strip, <1>chrome, <1>exclusive, <1>loading DEF SoundShell, Differ, Fields
  <1>matched. Matched(t, q)
    <2>1. \A i \in 1 .. Len(q) : Awaited(t, q[i])
      <3>1. \A i \in 1 .. Len(p) : Awaited(t, p[i])
        BY <1>2, <1>3, WaitedFor DEF Awaited, Starting, Working, Differ, Fields, Gen
      <3>2. Awaited(t, c)
        BY DEF Awaited, Starting, Working, Differ, Fields, Gen
      <3>. QED BY <1>4, <3>1, <3>2
    <2>2. \A i \in 1 .. Len(p) : ~Alike(p[i], c) /\ ~Alike(c, p[i])
      BY <1>5 DEF Alike, Starting, Working
    <2>3. \A i, j \in 1 .. Len(q) : Alike(q[i], q[j]) => i = j
      BY <1>2, <1>4, <2>2
    <2>. QED BY <1>2, <1>3, <2>1, <2>3 DEF Matched, Kinds, Starting, Working, Differ, Fields
  <1>alone. Alone(t, q, r)
    BY <1>5 DEF Alone, Differ, Fields
  <1>insession. InSession(t, q, e, r)
    BY <1>1, <1>2 DEF InSession, Gen, Differ, Fields
  <1>frames. Frames(t, q, e, r, x)
    <2>1. \A i \in 1 .. Len(q) : q[i].kind # "render"
      BY <1>4, <1>5
    <2>. QED BY <1>1, <1>2, <1>5, <1>6, <2>1 DEF Frames, Differ, Fields
  <1>retiring. Retiring(t, q, r)
    <2>1. \A i \in 1 .. Len(q) : q[i].kind # "render"
      BY <1>4, <1>5
    <2>. QED BY <1>6, <2>1 DEF Retiring, Differ, Fields
  <1>painted. Painted(t, x)
    BY <1>1, <1>2 DEF Painted, Chrome, Seen, Differ, Fields
  <1>views. Views(t, q, e, r)
    BY <1>2 DEF Views, Differ, Fields
  <1>local. Local(t, q, r)
    BY <1>2 DEF Local, Differ, Fields
  <1>ordered. Ordered(q, e, r)
    <2>1. \A i \in 1 .. Len(q) : q[i].kind \in {"navigate", "cancel"} => i \in 1 .. Len(p) /\ q[i] = p[i] /\ i < Len(q)
      BY <1>4
    <2>2. ASSUME NEW i \in 1 .. Len(q), NEW j \in 1 .. Len(q),
                 q[i].kind = "navigate", NavigatesTab(q[j], q[i].target.tab), i < j
          PROVE  q[i].target.navigation < q[j].target.navigation
      BY <1>3, <2>1, <2>2 DEF Ordered, NavigatesTab
    <2>3. \A i \in 1 .. Len(q), u \in Tab :
              NavigatesTab(q[i], u) /\ r.pending[u] # NoTarget =>
              IF i <= Len(e) THEN q[i].target.navigation < r.pending[u].navigation
                             ELSE q[i].target.navigation > r.pending[u].navigation
      BY <1>3, <2>1 DEF Ordered, NavigatesTab
    <2>4. \A i, j \in 1 .. Len(q) :
              q[j].kind = "close" /\ NavigatesTab(q[i], q[j].tab) => i < j
      <3>1. \A j \in 1 .. Len(q) : q[j].kind = "close" => j = Len(q)
        BY <1>4, <1>5
      <3>. QED BY <2>1, <3>1 DEF NavigatesTab
    <2>5. \A i, j \in 1 .. Len(q) :
              q[i].kind = "navigate" /\ q[j].kind = "cancel" /\ q[i].target = q[j].target
              => i < j
      BY <1>3, <2>1 DEF Ordered
    <2>6. /\ \A i \in 1 .. Len(e) : q[i].kind = "navigate" => e[i].result # "refused"
          /\ \A u \in Tab : r.pending[u] # NoTarget =>
                \A i \in 1 .. Len(e) : ~(q[i].kind = "close" /\ q[i].tab = u)
      BY <1>3, <1>4 DEF Ordered
    <2>. QED BY <2>2, <2>3, <2>4, <2>5, <2>6 DEF Ordered
  <1>stopped. Stopped(q, e, r)
    BY <1>2
  <1>owned. Owned(t, q, r)
    BY <1>2 DEF Owned, Own, Differ, Fields
  <1>answered. Answered(t, q, e, r)
    BY <1>2 DEF Answered, Differ, Fields
  <1>rest. SoundButDrawn(t, q, e, r, x)
    BY <1>2, <1>shell, <1>matched, <1>alone, <1>insession, <1>frames, <1>retiring,
       <1>painted, <1>views, <1>local, <1>ordered, <1>stopped, <1>owned, <1>answered DEF SoundButDrawn
  <1>drawn. Drawn(t, q)
    BY DEF Drawn
  <1>. QED BY <1>rest, <1>drawn DEF Sound

LEMMA AppendIs ==
    ASSUME NEW tabs \in Seq(Tab), NEW new \in Tab
    PROVE  LET more == Append(tabs, new)
           IN  /\ Len(tabs) \in Nat /\ Len(more) = Len(tabs) + 1 /\ more[Len(tabs) + 1] = new
               /\ \A i \in 1 .. Len(tabs) : more[i] = tabs[i]
               /\ Range(more) = Range(tabs) \cup {new}
  <1> DEFINE more == Append(tabs, new)
  <1>1. /\ Len(tabs) \in Nat /\ Len(more) = Len(tabs) + 1 /\ more[Len(tabs) + 1] = new
        /\ \A i \in 1 .. Len(tabs) : more[i] = tabs[i]
        /\ DOMAIN tabs = 1 .. Len(tabs) /\ DOMAIN more = 1 .. Len(more)
    OBVIOUS
  <1>2. Range(more) \subseteq Range(tabs) \cup {new}
    BY <1>1 DEF Range
  <1>3. Range(tabs) \cup {new} \subseteq Range(more)
    <2>1. \A i \in 1 .. Len(tabs) : i \in 1 .. Len(more)
      BY <1>1
    <2>2. Len(tabs) + 1 \in 1 .. Len(more)
      BY <1>1
    <2>. QED BY <1>1, <2>1, <2>2 DEF Range
  <1>. QED BY <1>1, <1>2, <1>3

\* A new tab.
LEMMA ViewAsked ==
    ASSUME NEW s, NEW p, NEW e, NEW r, NEW x, NEW q, NEW c \in Command,
           Sound(s, p, e, r, x),
           Add(p, c, q), c.kind = "create",
           s.ready, s.reset = 0, s.frame = 0, s.surface = 0, s.creating = NotCreating,
           ~Switching(s), s.nextTab \in Tab,
           NEW t \in Shell, Differ(s, t, {"nextTab", "tabs", "nextNavigation", "loading", "creating", "out"}),
           c.tab = s.nextTab, t.nextTab = s.nextTab + 1, t.tabs = Append(s.tabs, s.nextTab),
           t.nextNavigation = s.nextNavigation + 1, t.loading = [s.loading EXCEPT ![s.nextTab] = s.nextNavigation],
           t.creating = [id |-> c.id, tab |-> s.nextTab, navigation |-> s.nextNavigation]
    PROVE  Sound(t, q, e, r, x)
  <1>1. s \in Shell /\ ~s.down /\ Strip(s) /\ Chrome(s) /\ Exclusive(s) /\ Loading(s)
    BY DEF Sound, SoundButDrawn, SoundShell
  <1>2. /\ Pipes(q, e) /\ r \in Worker /\ InSession(s, q, e, r) /\ Painted(s, x)
        /\ Views(s, q, e, r) /\ (s.reset = 0 => Alone(s, q, r)) /\ Frames(s, q, e, r, x)
        /\ Retiring(s, q, r) /\ Ordered(q, e, r) /\ Local(s, q, r) /\ Stopped(q, e, r)
        /\ Owned(s, q, r) /\ Answered(s, q, e, r) /\ Drawn(s, q)
        /\ \A i \in 1 .. Len(p) : Awaited(s, p[i])
        /\ \A i, j \in 1 .. Len(p) : Alike(p[i], p[j]) => i = j
        /\ \A kind \in Kinds : Has(p, kind) => Has(q, kind)
        /\ \A kind \in Kinds : Has(q, kind) => Has(p, kind) \/ kind = "create"
        /\ Has(q, "create")
    BY Added DEF Sound, Starting
  <1>3. /\ Pipes(p, e) /\ Matched(s, p) /\ Alone(s, p, r) /\ InSession(s, p, e, r)
        /\ Frames(s, p, e, r, x) /\ Retiring(s, p, r) /\ Painted(s, x)
        /\ Views(s, p, e, r) /\ Local(s, p, r) /\ Ordered(p, e, r) /\ Stopped(p, e, r)
        /\ Owned(s, p, r) /\ Answered(s, p, e, r) /\ Drawn(s, p)
    BY DEF Sound, SoundButDrawn
  <1>4. /\ Len(p) \in Nat /\ Len(q) \in Nat /\ Len(e) \in Nat
        /\ Len(q) = Len(p) + 1 /\ Len(e) <= Len(p)
        /\ Len(q) \in 1 .. Len(q) /\ q[Len(q)] = c
        /\ \A i \in 1 .. Len(p) : i \in 1 .. Len(q) /\ q[i] = p[i] /\ i < Len(q)
        /\ \A i \in 1 .. Len(q) :
              \/ i \in 1 .. Len(p) /\ q[i] = p[i] /\ i < Len(q)
              \/ i = Len(q) /\ q[i] = c /\ ~(i <= Len(e)) /\ i > Len(e)
        /\ \A i \in 1 .. Len(e) : i \in 1 .. Len(p) /\ i \in 1 .. Len(q) /\ q[i] = p[i]
    BY <1>3, AddIs
  <1>5. \A i \in 1 .. Len(p) : p[i].kind \notin Working
    BY <1>3, WaitedFor DEF Working
  <1>6. c.id # 0 /\ t.creating # NotCreating
    <2>1. c.id \in Nat \ {0}
      BY CommandIs DEF Working
    <2>. QED BY <2>1 DEF NotCreating
  <1>7. /\ s.tabs \in Seq(Tab) /\ s.nextNavigation \in Nat \ {0} /\ s.loading \in [Tab -> Nat]
        /\ Range(s.tabs) \subseteq Tab /\ s.initial = 0 /\ s.materialized \subseteq Tab
        /\ s.nextTab \in Nat
    <2>1. s.tabs \in Seq(Tab) /\ s.nextNavigation \in Nat \ {0} /\ s.loading \in [Tab -> Nat]
      BY <1>1 DEF Shell
    <2>2. Range(s.tabs) \subseteq Tab /\ s.materialized \subseteq Tab
      BY <1>1, TabsAre
    <2>3. s.initial = 0
      BY <1>1 DEF Loading
    <2>. QED BY <2>1, <2>2, <2>3 DEF Tab
  <1>8. /\ Len(s.tabs) \in Nat /\ Len(t.tabs) = Len(s.tabs) + 1 /\ t.tabs[Len(s.tabs) + 1] = s.nextTab
        /\ \A i \in 1 .. Len(s.tabs) : t.tabs[i] = s.tabs[i] /\ s.tabs[i] \in Range(s.tabs)
        /\ Range(t.tabs) = Range(s.tabs) \cup {s.nextTab}
    <2>1. /\ Len(s.tabs) \in Nat /\ Len(t.tabs) = Len(s.tabs) + 1 /\ t.tabs[Len(s.tabs) + 1] = s.nextTab
          /\ \A i \in 1 .. Len(s.tabs) : t.tabs[i] = s.tabs[i]
          /\ Range(t.tabs) = Range(s.tabs) \cup {s.nextTab}
      BY <1>7, AppendIs
    <2>2. \A i \in 1 .. Len(s.tabs) : s.tabs[i] \in Range(s.tabs)
      BY <1>1, TabsAre
    <2>. QED BY <2>1, <2>2
  <1>9. s.nextTab \notin Range(s.tabs) /\ s.nextTab \notin s.materialized
    BY <1>1, <1>7 DEF Strip
  <1>10. s.targets[s.nextTab] = NoTarget /\ r.pending[s.nextTab] = NoTarget
    BY <1>3, <1>7, <1>9 DEF Owned
  <1>same. /\ t.active = s.active /\ t.tab = s.tab
           /\ t.nextActivation = s.nextActivation /\ t.remote = s.remote
           /\ t.initial = s.initial /\ t.restoring = s.restoring
           /\ t.handoff = s.handoff /\ t.materialized = s.materialized
           /\ t.down = s.down /\ t.session = s.session /\ t.ready = s.ready
           /\ t.init = s.init /\ t.frame = s.frame /\ t.surface = s.surface
           /\ t.reset = s.reset /\ t.closing = s.closing /\ t.cancelling = s.cancelling
           /\ t.targets = s.targets /\ t.permit = s.permit /\ t.recovery = s.recovery
           /\ t.visible = s.visible /\ t.seeking = s.seeking
           /\ t.unlocking = s.unlocking
    <2>1. /\ t.active = s.active /\ t.tab = s.tab /\ t.nextActivation = s.nextActivation
          /\ t.remote = s.remote /\ t.initial = s.initial /\ t.restoring = s.restoring
      BY ZenonT(40) DEF Differ, Fields
    <2>2. /\ t.handoff = s.handoff /\ t.materialized = s.materialized /\ t.down = s.down
          /\ t.session = s.session /\ t.ready = s.ready /\ t.init = s.init
      BY ZenonT(40) DEF Differ, Fields
    <2>3. /\ t.frame = s.frame /\ t.surface = s.surface /\ t.reset = s.reset
          /\ t.closing = s.closing /\ t.cancelling = s.cancelling
          /\ t.targets = s.targets
      BY ZenonT(40) DEF Differ, Fields
    <2>4. /\ t.permit = s.permit /\ t.recovery = s.recovery /\ t.visible = s.visible
          /\ t.seeking = s.seeking /\ t.unlocking = s.unlocking
      BY ZenonT(40) DEF Differ, Fields
    <2>. QED BY <2>1, <2>2, <2>3, <2>4
  <1>strip. Strip(t)
    <2>1. \A i, j \in 1 .. Len(t.tabs) : t.tabs[i] = t.tabs[j] => i = j
      BY <1>1, <1>8, <1>9 DEF Strip
    <2>2. /\ t.active = s.active /\ t.tab = s.tab /\ t.materialized = s.materialized
          /\ t.closing = s.closing /\ t.ready = s.ready /\ t.reset = s.reset
      BY ZenonT(40) DEF Differ, Fields
    <2>3. s.nextTab # s.closing
      BY <1>1, <1>9 DEF Strip, Tab, NoTab
    <2>4. \A u \in 1 .. s.nextTab - 1 : u \in 1 .. t.nextTab - 1
      BY <1>7
    <2>5. s.nextTab \in 1 .. t.nextTab - 1
      BY <1>7 DEF Tab
    <2>6. Range(t.tabs) \cup t.materialized \subseteq 1 .. t.nextTab - 1
      BY <1>1, <1>8, <2>2, <2>4, <2>5 DEF Strip
    <2>7. t.creating.tab = s.nextTab
      OBVIOUS
    <2>. QED BY <1>1, <1>8, <1>9, <2>1, <2>2, <2>3, <2>6, <2>7 DEF Strip
  <1>chrome. Chrome(t)
    BY <1>same, <1>1 DEF Chrome, Switching
  <1>exclusive. Exclusive(t)
    <2>1. t.creating.id # 0
      BY <1>6
    <2>. QED BY <1>1, <1>6, <1>same, <2>1 DEF Exclusive, Switching
  <1>loading. Loading(t)
    <2>1. \A u \in Range(s.tabs) : t.loading[u] = s.loading[u]
      BY <1>7, <1>9
    <2>2. t.loading[s.nextTab] = s.nextNavigation
      BY <1>7
    <2>3. t.initial = 0 /\ t.targets = s.targets
      BY ZenonT(40), <1>7 DEF Differ, Fields
    <2>4. \A u \in Range(s.tabs) : s.loading[u] < s.nextNavigation /\ s.loading[u] \in Nat
      BY <1>1, <1>7 DEF Loading
    <2>5. t.creating.tab = s.nextTab /\ t.creating.navigation = s.nextNavigation
      OBVIOUS
    <2>6. \A u \in Range(t.tabs) :
             /\ t.loading[u] < t.nextNavigation
             /\ s.targets[u] # NoTarget => t.loading[u] = s.targets[u].navigation
             /\ t.loading[u] # 0 => u = s.nextTab \/ s.targets[u] # NoTarget
      BY <1>1, <1>7, <1>8, <1>10, <2>1, <2>2, <2>4 DEF Loading
    <2>7. \A u, v \in Range(t.tabs) : t.loading[u] = t.loading[v] /\ u # v => t.loading[u] = 0
      BY <1>1, <1>8, <2>1, <2>2, <2>4 DEF Loading
    <2>. QED BY <1>6, <1>7, <1>10, <2>2, <2>3, <2>5, <2>6, <2>7 DEF Loading
  <1>shell. SoundShell(t)
    BY <1>same, <1>1, <1>strip, <1>chrome, <1>exclusive, <1>loading DEF SoundShell
  <1>matched. Matched(t, q)
    <2>1. \A i \in 1 .. Len(q) : Awaited(t, q[i])
      <3>1. \A i \in 1 .. Len(p) : Awaited(t, p[i])
        BY <1>2, <1>5, <1>same DEF Awaited, Starting, Working, Gen
      <3>2. Awaited(t, c)
        BY DEF Awaited, Starting, Working
      <3>. QED BY <1>4, <3>1, <3>2
    <2>2. \A i \in 1 .. Len(p) : ~Alike(p[i], c) /\ ~Alike(c, p[i])
      BY <1>1, <1>3, WaitedFor DEF Alike, Starting, Working
    <2>3. \A i, j \in 1 .. Len(q) : Alike(q[i], q[j]) => i = j
      BY <1>2, <1>4, <2>2
    <2>. QED BY <1>6, <1>same, <1>2, <1>3, <2>1, <2>3 DEF Matched, Kinds, Starting, Working, Switching
  <1>alone. Alone(t, q, r)
    BY <1>same, <1>2 DEF Alone
  <1>insession. InSession(t, q, e, r)
    BY <1>same, <1>2 DEF InSession, Gen
  <1>frames. Frames(t, q, e, r, x)
    <2>1. \A i \in 1 .. Len(q) : q[i].kind # "render"
      BY <1>4, <1>5 DEF Working
    <2>2. t.surface = 0 /\ t.reset = 0 /\ t.active = s.active /\ t.handoff = s.handoff
      BY DEF Differ, Fields
    <2>. QED BY <1>3, <2>1, <2>2 DEF Frames, Switching, Gen
  <1>retiring. Retiring(t, q, r)
    <2>1. \A i \in 1 .. Len(q) : q[i].kind # "render"
      BY <1>4, <1>5 DEF Working
    <2>2. t.surface = 0 /\ t.closing = s.closing
      BY DEF Differ, Fields
    <2>. QED BY <1>2, <2>1, <2>2 DEF Retiring
  <1>painted. Painted(t, x)
    BY <1>same, <1>2 DEF Painted, Seen, Switching
  <1>views. Views(t, q, e, r)
    BY <1>same, <1>2 DEF Views
  <1>local. Local(t, q, r)
    BY <1>same, <1>2 DEF Local
  <1>ordered. Ordered(q, e, r)
    BY <1>2
  <1>stopped. Stopped(q, e, r)
    BY <1>2
  <1>owned. Owned(t, q, r)
    <2>1. \A target \in Target \cup {NoTarget} : Own(s, target) => Own(t, target)
      <3>1. \A target \in Target \cup {NoTarget} : target.navigation \in Nat
        BY DEF Target, NoTarget
      <3>2. t.session = s.session
        BY DEF Differ, Fields
      <3>. QED BY <1>7, <3>1, <3>2 DEF Own
    <2>2. \A i \in 1 .. Len(q) : q[i].kind = "navigate" => q[i].target \in Target
      BY <1>2, CommandIs DEF Pipes
    <2>3. /\ t.cancelling = s.cancelling /\ t.targets = s.targets /\ t.materialized = s.materialized
          /\ s.cancelling \in Target \cup {NoTarget} /\ r.pending \in [Tab -> Target \cup {NoTarget}]
          /\ s.targets \in [Tab -> Target \cup {NoTarget}]
      BY <1>1, <1>2, <1>same DEF Shell, Worker
    <2>. QED BY <1>2, <2>1, <2>2, <2>3 DEF Owned
  <1>answered. Answered(t, q, e, r)
    <2>1. \A i \in 1 .. Len(q) : ~NavigatesTab(q[i], s.nextTab)
      BY <1>2, <1>9 DEF Owned, NavigatesTab
    <2>2. t.targets = s.targets
      BY DEF Differ, Fields
    <2>. QED BY <1>2, <1>8, <1>10, <2>1, <2>2 DEF Answered
  <1>rest. SoundButDrawn(t, q, e, r, x)
    BY <1>2, <1>shell, <1>matched, <1>alone, <1>insession, <1>frames, <1>retiring,
       <1>painted, <1>views, <1>local, <1>ordered, <1>stopped, <1>owned, <1>answered DEF SoundButDrawn
  <1>drawn. Drawn(t, q)
    BY <1>same, <1>2 DEF Drawn, Switching, Gen
  <1>. QED BY <1>rest, <1>drawn DEF Sound

-----------------------------------------------------------------------------
(* Navigations and stops that are asked for.                               *)

\* A reload of the active page.
LEMMA ReloadAsked ==
    ASSUME NEW s, NEW p, NEW e, NEW r, NEW x, NEW q, NEW c \in Command,
           Sound(s, p, e, r, x),
           Add(p, c, q), c.kind = "navigate",
           s.reset = 0, s.initial = 0,
           NEW t \in Shell, Differ(s, t, {"nextNavigation", "loading", "targets", "out"}),
           c.target = [tab |-> s.tab, navigation |-> s.nextNavigation, profile |-> s.session],
           c.local = ~s.remote[s.tab], t.nextNavigation = s.nextNavigation + 1,
           t.loading = [s.loading EXCEPT ![s.tab] = s.nextNavigation],
           t.targets = [s.targets EXCEPT ![s.tab] = c.target]
    PROVE  Sound(t, q, e, r, x)
  <1>1. s \in Shell /\ ~s.down /\ Strip(s) /\ Chrome(s) /\ Exclusive(s) /\ Loading(s)
    BY DEF Sound, SoundButDrawn, SoundShell
  <1>2. /\ Pipes(q, e) /\ r \in Worker /\ InSession(s, q, e, r) /\ Painted(s, x)
        /\ Views(s, q, e, r) /\ (s.reset = 0 => Alone(s, q, r)) /\ Frames(s, q, e, r, x)
        /\ Retiring(s, q, r) /\ Drawn(s, q)
        /\ \A i \in 1 .. Len(p) : Awaited(s, p[i])
        /\ \A i, j \in 1 .. Len(p) : Alike(p[i], p[j]) => i = j
        /\ \A kind \in Kinds : Has(p, kind) => Has(q, kind)
        /\ \A kind \in Kinds : Has(q, kind) => Has(p, kind) \/ kind = "navigate"
        /\ Has(q, "navigate")
    BY Added DEF Sound, Starting
  <1>3. /\ Pipes(p, e) /\ Matched(s, p) /\ Alone(s, p, r) /\ InSession(s, p, e, r)
        /\ Frames(s, p, e, r, x) /\ Retiring(s, p, r) /\ Painted(s, x)
        /\ Views(s, p, e, r) /\ Local(s, p, r) /\ Ordered(p, e, r) /\ Stopped(p, e, r)
        /\ Owned(s, p, r) /\ Answered(s, p, e, r) /\ Drawn(s, p)
    BY DEF Sound, SoundButDrawn
  <1>4. /\ Len(p) \in Nat /\ Len(q) \in Nat /\ Len(e) \in Nat
        /\ Len(q) = Len(p) + 1 /\ Len(e) <= Len(p)
        /\ Len(q) \in 1 .. Len(q) /\ q[Len(q)] = c
        /\ \A i \in 1 .. Len(p) : i \in 1 .. Len(q) /\ q[i] = p[i] /\ i < Len(q)
        /\ \A i \in 1 .. Len(q) :
              \/ i \in 1 .. Len(p) /\ q[i] = p[i] /\ i < Len(q)
              \/ i = Len(q) /\ q[i] = c /\ ~(i <= Len(e)) /\ i > Len(e)
        /\ \A i \in 1 .. Len(e) : i \in 1 .. Len(p) /\ i \in 1 .. Len(q) /\ q[i] = p[i]
    BY <1>3, AddIs
  <1>5. /\ s.nextNavigation \in Nat \ {0} /\ s.loading \in [Tab -> Nat] /\ s.tab \in Tab
        /\ s.targets \in [Tab -> Target \cup {NoTarget}] /\ Range(s.tabs) \subseteq Tab
        /\ s.tab \in Range(s.tabs) /\ s.tab \in s.materialized /\ c.target \in Target
        /\ c.target # NoTarget
    <2>1. /\ s.nextNavigation \in Nat \ {0} /\ s.loading \in [Tab -> Nat]
          /\ s.targets \in [Tab -> Target \cup {NoTarget}]
      BY <1>1 DEF Shell
    <2>2. /\ Range(s.tabs) \subseteq Tab /\ s.tab \in Tab
          /\ s.tab \in Range(s.tabs) /\ s.tab \in s.materialized
      BY <1>1, TabsAre
    <2>3. c.target \in Target
      BY CommandIs
    <2>. QED BY <2>1, <2>2, <2>3 DEF Target, NoTarget
  <1>6. /\ \A u \in Tab : t.loading[u] = IF u = s.tab THEN s.nextNavigation ELSE s.loading[u]
        /\ \A u \in Tab : t.targets[u] = IF u = s.tab THEN c.target ELSE s.targets[u]
    BY <1>5
  <1>7. \A target \in Target \cup {NoTarget} : target.navigation \in Nat
    BY DEF Target, NoTarget
  <1>8. /\ \A i \in 1 .. Len(p) : /\ p[i].kind = "navigate" => p[i].target \in Target
                                  /\ p[i].kind = "cancel" => p[i].target \in Target
        /\ r.pending \in [Tab -> Target \cup {NoTarget}]
    BY <1>2, <1>3, CommandIs DEF Pipes, Worker
  <1>9. /\ \A i \in 1 .. Len(p) : p[i].kind \in {"navigate", "cancel"} =>
              p[i].target.navigation < s.nextNavigation
        /\ \A u \in Tab : r.pending[u] # NoTarget => r.pending[u].navigation < s.nextNavigation
    BY <1>3, WaitedFor DEF Owned, Own
  <1>10. \A i \in 1 .. Len(p) : p[i].kind = "close" => p[i].tab # s.tab
    BY <1>1, <1>3, <1>5, WaitedFor DEF Strip
  <1>same. /\ t.tabs = s.tabs /\ t.active = s.active /\ t.tab = s.tab
           /\ t.nextTab = s.nextTab /\ t.nextActivation = s.nextActivation
           /\ t.remote = s.remote /\ t.initial = s.initial /\ t.restoring = s.restoring
           /\ t.handoff = s.handoff /\ t.materialized = s.materialized
           /\ t.down = s.down /\ t.session = s.session /\ t.ready = s.ready
           /\ t.init = s.init /\ t.frame = s.frame /\ t.surface = s.surface
           /\ t.reset = s.reset /\ t.creating = s.creating /\ t.closing = s.closing
           /\ t.cancelling = s.cancelling /\ t.permit = s.permit
           /\ t.recovery = s.recovery /\ t.visible = s.visible /\ t.seeking = s.seeking
           /\ t.unlocking = s.unlocking
    <2>1. /\ t.tabs = s.tabs /\ t.active = s.active /\ t.tab = s.tab
          /\ t.nextTab = s.nextTab /\ t.nextActivation = s.nextActivation
          /\ t.remote = s.remote
      BY DEF Differ, Fields
    <2>2. /\ t.initial = s.initial /\ t.restoring = s.restoring /\ t.handoff = s.handoff
          /\ t.materialized = s.materialized /\ t.down = s.down /\ t.session = s.session
      BY DEF Differ, Fields
    <2>3. /\ t.ready = s.ready /\ t.init = s.init /\ t.frame = s.frame
          /\ t.surface = s.surface /\ t.reset = s.reset /\ t.creating = s.creating
      BY DEF Differ, Fields
    <2>4. /\ t.closing = s.closing /\ t.cancelling = s.cancelling /\ t.permit = s.permit
          /\ t.recovery = s.recovery /\ t.visible = s.visible /\ t.seeking = s.seeking
      BY DEF Differ, Fields
    <2>5. /\ t.unlocking = s.unlocking
      BY DEF Differ, Fields
    <2>. QED BY <2>1, <2>2, <2>3, <2>4, <2>5
  <1>strip. Strip(t)
    BY <1>same, <1>1 DEF Strip
  <1>chrome. Chrome(t)
    BY <1>same, <1>1 DEF Chrome, Switching
  <1>exclusive. Exclusive(t)
    BY <1>same, <1>1 DEF Exclusive, Switching
  <1>loading. Loading(t)
    <2>1. s.creating # NotCreating => s.creating.tab # s.tab /\ s.creating.tab \in Range(s.tabs)
      BY <1>1, <1>5 DEF Strip
    <2>2. \A u \in Range(s.tabs) : s.loading[u] < s.nextNavigation /\ s.loading[u] \in Nat
      BY <1>1, <1>5 DEF Loading
    <2>3. c.target.navigation = s.nextNavigation
      OBVIOUS
    <2>4. \A u \in Range(s.tabs) :
             /\ t.loading[u] < t.nextNavigation
             /\ t.targets[u] # NoTarget => t.loading[u] = t.targets[u].navigation
             /\ t.loading[u] # 0 =>
                   \/ s.creating # NotCreating /\ u = s.creating.tab
                   \/ t.targets[u] # NoTarget
      BY <1>1, <1>5, <1>6, <2>2, <2>3 DEF Loading
    <2>5. \A u, v \in Range(s.tabs) : t.loading[u] = t.loading[v] /\ u # v => t.loading[u] = 0
      BY <1>1, <1>5, <1>6, <2>2 DEF Loading
    <2>6. s.creating # NotCreating => /\ t.loading[s.creating.tab] = s.creating.navigation
                                      /\ s.creating.navigation # 0
                                      /\ t.targets[s.creating.tab] = NoTarget
      BY <1>1, <1>5, <1>6, <2>1 DEF Loading
    <2>. QED BY <1>same, <2>4, <2>5, <2>6 DEF Loading
  <1>shell. SoundShell(t)
    BY <1>same, <1>1, <1>strip, <1>chrome, <1>exclusive, <1>loading DEF SoundShell
  <1>matched. Matched(t, q)
    <2>1. \A i \in 1 .. Len(q) : Awaited(t, q[i])
      <3>1. \A i \in 1 .. Len(p) : Awaited(t, p[i])
        BY <1>2, <1>same DEF Awaited, Starting, Working, Gen
      <3>2. Awaited(t, c)
        BY DEF Awaited, Starting, Working
      <3>. QED BY <1>4, <3>1, <3>2
    <2>2. \A i \in 1 .. Len(p) : ~Alike(p[i], c) /\ ~Alike(c, p[i])
      BY DEF Alike, Starting, Working
    <2>3. \A i, j \in 1 .. Len(q) : Alike(q[i], q[j]) => i = j
      BY <1>2, <1>4, <2>2
    <2>. QED BY <1>same, <1>2, <1>3, <2>1, <2>3 DEF Matched, Kinds, Starting, Working, Switching
  <1>alone. Alone(t, q, r)
    BY <1>same DEF Alone
  <1>insession. InSession(t, q, e, r)
    BY <1>same, <1>2 DEF InSession, Gen
  <1>frames. Frames(t, q, e, r, x)
    BY <1>same, <1>2 DEF Frames, Fits, Switching, Gen
  <1>retiring. Retiring(t, q, r)
    BY <1>same, <1>2 DEF Retiring, Switching, Gen
  <1>painted. Painted(t, x)
    BY <1>same, <1>2 DEF Painted, Seen, Switching
  <1>views. Views(t, q, e, r)
    BY <1>same, <1>2 DEF Views
  <1>local. Local(t, q, r)
    <2>1. c.target.tab = s.tab
      OBVIOUS
    <2>2. \A i \in 1 .. Len(q) : q[i].kind = "navigate" => q[i].local = ~s.remote[q[i].target.tab]
      BY <1>3, <1>4, <2>1 DEF Local
    <2>. QED BY <1>same, <1>3, <2>2 DEF Local
  <1>ordered. Ordered(q, e, r)
    <2>1. c.target.tab = s.tab /\ c.target.navigation = s.nextNavigation
      OBVIOUS
    <2>2. ASSUME NEW i \in 1 .. Len(q), NEW j \in 1 .. Len(q),
                 q[i].kind = "navigate", NavigatesTab(q[j], q[i].target.tab), i < j
          PROVE  q[i].target.navigation < q[j].target.navigation
      <3>1. i \in 1 .. Len(p) /\ q[i] = p[i]
        BY <1>4, <2>2
      <3>2. CASE j \in 1 .. Len(p) /\ q[j] = p[j]
        BY <1>3, <2>2, <3>1, <3>2 DEF Ordered
      <3>3. CASE q[j] = c
        BY <1>9, <2>1, <2>2, <3>1, <3>3
      <3>. QED BY <1>4, <3>2, <3>3
    <2>3. ASSUME NEW i \in 1 .. Len(q), NEW u \in Tab, NavigatesTab(q[i], u), r.pending[u] # NoTarget
          PROVE  IF i <= Len(e) THEN q[i].target.navigation < r.pending[u].navigation
                                ELSE q[i].target.navigation > r.pending[u].navigation
      <3>1. CASE i \in 1 .. Len(p) /\ q[i] = p[i]
        BY <1>3, <2>3, <3>1 DEF Ordered
      <3>2. CASE q[i] = c /\ ~(i <= Len(e))
        <4>1. r.pending[u].navigation < s.nextNavigation /\ r.pending[u].navigation \in Nat
          BY <1>7, <1>8, <1>9, <2>3
        <4>. QED BY <1>5, <2>1, <3>2, <4>1
      <3>. QED BY <1>4, <3>1, <3>2
    <2>4. ASSUME NEW i \in 1 .. Len(q), NEW j \in 1 .. Len(q),
                 q[j].kind = "close", NavigatesTab(q[i], q[j].tab)
          PROVE  i < j
      <3>1. j \in 1 .. Len(p) /\ q[j] = p[j]
        BY <1>4, <2>4
      <3>2. q[i] # c
        BY <1>10, <2>1, <2>4, <3>1 DEF NavigatesTab
      <3>. QED BY <1>3, <1>4, <2>4, <3>1, <3>2 DEF Ordered
    <2>5. ASSUME NEW i \in 1 .. Len(q), NEW j \in 1 .. Len(q),
                 q[i].kind = "navigate", q[j].kind = "cancel", q[i].target = q[j].target
          PROVE  i < j
      <3>1. j \in 1 .. Len(p) /\ q[j] = p[j]
        BY <1>4, <2>5
      <3>2. p[j].target.navigation < s.nextNavigation /\ p[j].target.navigation \in Nat
        BY <1>7, <1>8, <1>9, <2>5, <3>1
      <3>3. q[i] # c
        BY <1>5, <2>1, <2>5, <3>1, <3>2
      <3>. QED BY <1>3, <1>4, <2>5, <3>1, <3>3 DEF Ordered
    <2>6. /\ \A i \in 1 .. Len(e) : q[i].kind = "navigate" => e[i].result # "refused"
          /\ \A u \in Tab : r.pending[u] # NoTarget =>
                \A i \in 1 .. Len(e) : ~(q[i].kind = "close" /\ q[i].tab = u)
      BY <1>3, <1>4 DEF Ordered
    <2>. QED BY <2>2, <2>3, <2>4, <2>5, <2>6 DEF Ordered
  <1>stopped. Stopped(q, e, r)
    <2>1. c.target.navigation = s.nextNavigation
      OBVIOUS
    <2>2. ASSUME NEW i \in 1 .. Len(e), q[i].kind = "cancel"
          PROVE  /\ e[i].result # "refused"
                 /\ r.pending[q[i].target.tab] # q[i].target
                 /\ e[i].result # "no" /\ r.pending[q[i].target.tab] # NoTarget =>
                          r.pending[q[i].target.tab].navigation > q[i].target.navigation
      BY <1>3, <1>4, <2>2 DEF Stopped
    <2>3. ASSUME NEW i \in 1 .. Len(e), q[i].kind = "cancel", e[i].result # "no",
                 NEW j \in 1 .. Len(q), NavigatesTab(q[j], q[i].target.tab)
          PROVE  /\ j < i => q[j].target # q[i].target
                 /\ j > i => q[j].target.navigation > q[i].target.navigation
      <3>1. i \in 1 .. Len(p) /\ q[i] = p[i] /\ i <= Len(e)
        BY <1>4
      <3>2. CASE j \in 1 .. Len(p) /\ q[j] = p[j]
        BY <1>3, <2>3, <3>1, <3>2 DEF Stopped
      <3>3. CASE q[j] = c /\ j > Len(e)
        <4>1. p[i].target.navigation < s.nextNavigation /\ p[i].target.navigation \in Nat
          BY <1>7, <1>8, <1>9, <2>3, <3>1
        <4>2. ~(j < i)
          BY <1>4, <3>1, <3>3
        <4>. QED BY <1>5, <2>1, <3>1, <3>3, <4>1, <4>2
      <3>. QED BY <1>4, <3>2, <3>3
    <2>. QED BY <2>2, <2>3 DEF Stopped
  <1>owned. Owned(t, q, r)
    <2>1. \A target \in Target \cup {NoTarget} : Own(s, target) => Own(t, target)
      BY <1>5, <1>7, <1>same DEF Own
    <2>2. Own(t, c.target) /\ c.target.tab = s.tab
      BY <1>5, <1>same DEF Own
    <2>3. \A i \in 1 .. Len(q) : q[i].kind = "navigate" => Own(t, q[i].target) /\ q[i].target.tab \in s.materialized
      <3>1. ASSUME NEW i \in 1 .. Len(p), p[i].kind = "navigate"
            PROVE  Own(t, p[i].target) /\ p[i].target.tab \in s.materialized
        <4>1. Own(s, p[i].target) /\ p[i].target.tab \in s.materialized
          BY <1>3, <3>1 DEF Owned
        <4>2. p[i].target \in Target \cup {NoTarget}
          BY <1>8, <3>1
        <4>. QED BY <2>1, <4>1, <4>2
      <3>. QED BY <1>4, <1>5, <2>2, <3>1
    <2>4. s.cancelling # NoTarget => Own(t, s.cancelling)
      BY <1>1, <1>3, <2>1 DEF Owned, Shell
    <2>5. \A u \in Tab :
             /\ r.pending[u] # NoTarget => Own(t, r.pending[u]) /\ u \in s.materialized
             /\ t.targets[u] # NoTarget => Own(t, t.targets[u]) /\ t.targets[u].tab = u /\ u \in s.materialized
      <3>1. \A u \in Tab : r.pending[u] # NoTarget => Own(t, r.pending[u]) /\ u \in s.materialized
        BY <1>3, <1>8, <2>1 DEF Owned
      <3>2. ASSUME NEW u \in Tab, u # s.tab, s.targets[u] # NoTarget
            PROVE  Own(t, s.targets[u]) /\ s.targets[u].tab = u /\ u \in s.materialized
        <4>1. Own(s, s.targets[u]) /\ s.targets[u].tab = u /\ u \in s.materialized
          BY <1>3, <3>2 DEF Owned
        <4>2. s.targets[u] \in Target \cup {NoTarget}
          BY <1>5
        <4>. QED BY <2>1, <4>1, <4>2
      <3>. QED BY <1>5, <1>6, <2>2, <3>1, <3>2
    <2>. QED BY <1>same, <2>3, <2>4, <2>5 DEF Owned
  <1>answered. Answered(t, q, e, r)
    <2>1. c.target.tab = s.tab /\ c.target.navigation = s.nextNavigation
      OBVIOUS
    <2>2. ASSUME NEW target, Carried(p, e, r, target) PROVE Carried(q, e, r, target)
      BY <1>4, <2>2 DEF Carried
    <2>3. ASSUME NEW u \in Range(s.tabs), u # s.tab
          PROVE  /\ s.targets[u] = NoTarget =>
                      /\ r.pending[u] = NoTarget
                      /\ \A i \in 1 .. Len(q) : ~NavigatesTab(q[i], u)
                 /\ s.targets[u] # NoTarget =>
                      /\ r.pending[u].navigation <= s.targets[u].navigation
                      /\ \A i \in 1 .. Len(q) : NavigatesTab(q[i], u) =>
                            q[i].target.navigation <= s.targets[u].navigation
                      /\ Carried(q, e, r, s.targets[u])
      <3>1. \A i \in 1 .. Len(q) : NavigatesTab(q[i], u) => i \in 1 .. Len(p) /\ q[i] = p[i]
        BY <1>4, <2>1, <2>3 DEF NavigatesTab
      <3>. QED BY <1>3, <2>2, <2>3, <3>1 DEF Answered
    <2>4. r.pending[s.tab].navigation <= s.nextNavigation
      <3>1. r.pending[s.tab].navigation \in Nat
        BY <1>5, <1>7, <1>8
      <3>2. r.pending[s.tab] # NoTarget => r.pending[s.tab].navigation < s.nextNavigation
        BY <1>5, <1>9
      <3>. QED BY <1>5, <3>1, <3>2 DEF NoTarget
    <2>5. \A i \in 1 .. Len(q) : NavigatesTab(q[i], s.tab) => q[i].target.navigation <= s.nextNavigation
      <3>1. \A i \in 1 .. Len(p) : NavigatesTab(p[i], s.tab) =>
               p[i].target.navigation \in Nat /\ p[i].target.navigation < s.nextNavigation
        BY <1>7, <1>8, <1>9 DEF NavigatesTab
      <3>. QED BY <1>4, <1>5, <2>1, <3>1
    <2>6. Carried(q, e, r, c.target)
      BY <1>4 DEF Carried
    <2>. QED BY <1>5, <1>6, <1>same, <2>1, <2>3, <2>4, <2>5, <2>6 DEF Answered
  <1>rest. SoundButDrawn(t, q, e, r, x)
    BY <1>2, <1>shell, <1>matched, <1>alone, <1>insession, <1>frames, <1>retiring,
       <1>painted, <1>views, <1>local, <1>ordered, <1>stopped, <1>owned, <1>answered DEF SoundButDrawn
  <1>drawn. Drawn(t, q)
    BY <1>same, <1>2 DEF Drawn, Switching, Gen
  <1>. QED BY <1>rest, <1>drawn DEF Sound

\* A stop of the navigation of the active page.
LEMMA StopAsked ==
    ASSUME NEW s, NEW p, NEW e, NEW r, NEW x, NEW q, NEW c \in Command,
           Sound(s, p, e, r, x),
           Add(p, c, q), c.kind = "cancel",
           s.reset = 0, s.cancelling = NoTarget,
           NEW t \in Shell, Differ(s, t, {"cancelling", "out"}),
           c.target = s.targets[s.tab], c.target # NoTarget, t.cancelling = c.target
    PROVE  Sound(t, q, e, r, x)
  <1>1. s \in Shell /\ ~s.down /\ Strip(s) /\ Chrome(s) /\ Exclusive(s) /\ Loading(s)
    BY DEF Sound, SoundButDrawn, SoundShell
  <1>2. /\ Pipes(q, e) /\ r \in Worker /\ InSession(s, q, e, r) /\ Painted(s, x)
        /\ Views(s, q, e, r) /\ (s.reset = 0 => Alone(s, q, r)) /\ Frames(s, q, e, r, x)
        /\ Retiring(s, q, r) /\ Local(s, q, r) /\ Stopped(q, e, r) /\ Owned(s, q, r)
        /\ Answered(s, q, e, r) /\ Drawn(s, q)
        /\ \A i \in 1 .. Len(p) : Awaited(s, p[i])
        /\ \A i, j \in 1 .. Len(p) : Alike(p[i], p[j]) => i = j
        /\ \A kind \in Kinds : Has(p, kind) => Has(q, kind)
        /\ \A kind \in Kinds : Has(q, kind) => Has(p, kind) \/ kind = "cancel"
        /\ Has(q, "cancel")
    BY Added DEF Sound, Starting
  <1>3. /\ Pipes(p, e) /\ Matched(s, p) /\ Alone(s, p, r) /\ InSession(s, p, e, r)
        /\ Frames(s, p, e, r, x) /\ Retiring(s, p, r) /\ Painted(s, x)
        /\ Views(s, p, e, r) /\ Local(s, p, r) /\ Ordered(p, e, r) /\ Stopped(p, e, r)
        /\ Owned(s, p, r) /\ Answered(s, p, e, r) /\ Drawn(s, p)
    BY DEF Sound, SoundButDrawn
  <1>4. /\ Len(p) \in Nat /\ Len(q) \in Nat /\ Len(e) \in Nat
        /\ Len(q) = Len(p) + 1 /\ Len(e) <= Len(p)
        /\ Len(q) \in 1 .. Len(q) /\ q[Len(q)] = c
        /\ \A i \in 1 .. Len(p) : i \in 1 .. Len(q) /\ q[i] = p[i] /\ i < Len(q)
        /\ \A i \in 1 .. Len(q) :
              \/ i \in 1 .. Len(p) /\ q[i] = p[i] /\ i < Len(q)
              \/ i = Len(q) /\ q[i] = c /\ ~(i <= Len(e)) /\ i > Len(e)
        /\ \A i \in 1 .. Len(e) : i \in 1 .. Len(p) /\ i \in 1 .. Len(q) /\ q[i] = p[i]
    BY <1>3, AddIs
  <1>5. \A i \in 1 .. Len(p) : p[i].kind # "cancel"
    BY <1>3, WaitedFor
  <1>6. s.tab \in Tab
    BY <1>1, TabsAre
  <1>same. /\ t.tabs = s.tabs /\ t.active = s.active /\ t.tab = s.tab
           /\ t.nextTab = s.nextTab /\ t.nextActivation = s.nextActivation
           /\ t.nextNavigation = s.nextNavigation /\ t.loading = s.loading
           /\ t.remote = s.remote /\ t.initial = s.initial /\ t.restoring = s.restoring
           /\ t.handoff = s.handoff /\ t.materialized = s.materialized
           /\ t.down = s.down /\ t.session = s.session /\ t.ready = s.ready
           /\ t.init = s.init /\ t.frame = s.frame /\ t.surface = s.surface
           /\ t.reset = s.reset /\ t.creating = s.creating /\ t.closing = s.closing
           /\ t.targets = s.targets /\ t.permit = s.permit /\ t.recovery = s.recovery
           /\ t.visible = s.visible /\ t.seeking = s.seeking
           /\ t.unlocking = s.unlocking
    <2>1. /\ t.tabs = s.tabs /\ t.active = s.active /\ t.tab = s.tab
          /\ t.nextTab = s.nextTab /\ t.nextActivation = s.nextActivation
          /\ t.nextNavigation = s.nextNavigation
      BY DEF Differ, Fields
    <2>2. /\ t.loading = s.loading /\ t.remote = s.remote /\ t.initial = s.initial
          /\ t.restoring = s.restoring /\ t.handoff = s.handoff
          /\ t.materialized = s.materialized
      BY DEF Differ, Fields
    <2>3. /\ t.down = s.down /\ t.session = s.session /\ t.ready = s.ready
          /\ t.init = s.init /\ t.frame = s.frame /\ t.surface = s.surface
      BY DEF Differ, Fields
    <2>4. /\ t.reset = s.reset /\ t.creating = s.creating /\ t.closing = s.closing
          /\ t.targets = s.targets /\ t.permit = s.permit /\ t.recovery = s.recovery
      BY DEF Differ, Fields
    <2>5. /\ t.visible = s.visible /\ t.seeking = s.seeking /\ t.unlocking = s.unlocking
      BY DEF Differ, Fields
    <2>. QED BY <2>1, <2>2, <2>3, <2>4, <2>5
  <1>strip. Strip(t)
    BY <1>same, <1>1 DEF Strip
  <1>chrome. Chrome(t)
    BY <1>same, <1>1 DEF Chrome, Switching
  <1>exclusive. Exclusive(t)
    BY <1>same, <1>1 DEF Exclusive, Switching
  <1>loading. Loading(t)
    BY <1>same, <1>1 DEF Loading
  <1>shell. SoundShell(t)
    BY <1>same, <1>1, <1>strip, <1>chrome, <1>exclusive, <1>loading DEF SoundShell
  <1>matched. Matched(t, q)
    <2>1. \A i \in 1 .. Len(q) : Awaited(t, q[i])
      <3>1. \A i \in 1 .. Len(p) : Awaited(t, p[i])
        BY <1>2, <1>5, <1>same DEF Awaited, Starting, Working, Gen
      <3>2. Awaited(t, c)
        BY DEF Awaited, Starting, Working
      <3>. QED BY <1>4, <3>1, <3>2
    <2>2. \A i \in 1 .. Len(p) : ~Alike(p[i], c) /\ ~Alike(c, p[i])
      BY <1>5 DEF Alike, Starting, Working
    <2>3. \A i, j \in 1 .. Len(q) : Alike(q[i], q[j]) => i = j
      BY <1>2, <1>4, <2>2
    <2>. QED BY <1>same, <1>2, <1>3, <2>1, <2>3 DEF Matched, Kinds, Starting, Working, Switching
  <1>alone. Alone(t, q, r)
    BY <1>same DEF Alone
  <1>insession. InSession(t, q, e, r)
    BY <1>same, <1>2 DEF InSession, Gen
  <1>frames. Frames(t, q, e, r, x)
    BY <1>same, <1>2 DEF Frames, Fits, Switching, Gen
  <1>retiring. Retiring(t, q, r)
    BY <1>same, <1>2 DEF Retiring, Switching, Gen
  <1>painted. Painted(t, x)
    BY <1>same, <1>2 DEF Painted, Seen, Switching
  <1>views. Views(t, q, e, r)
    BY <1>same, <1>2 DEF Views
  <1>local. Local(t, q, r)
    BY <1>same, <1>2 DEF Local
  <1>ordered. Ordered(q, e, r)
    <2>1. \A i \in 1 .. Len(q) : q[i].kind \in {"navigate", "close"} => i \in 1 .. Len(p) /\ q[i] = p[i] /\ i < Len(q)
      BY <1>4
    <2>2. ASSUME NEW i \in 1 .. Len(q), NEW j \in 1 .. Len(q),
                 q[i].kind = "navigate", NavigatesTab(q[j], q[i].target.tab), i < j
          PROVE  q[i].target.navigation < q[j].target.navigation
      BY <1>3, <2>1, <2>2 DEF Ordered, NavigatesTab
    <2>3. \A i \in 1 .. Len(q), u \in Tab :
              NavigatesTab(q[i], u) /\ r.pending[u] # NoTarget =>
              IF i <= Len(e) THEN q[i].target.navigation < r.pending[u].navigation
                             ELSE q[i].target.navigation > r.pending[u].navigation
      BY <1>3, <2>1 DEF Ordered, NavigatesTab
    <2>4. \A i, j \in 1 .. Len(q) :
              q[j].kind = "close" /\ NavigatesTab(q[i], q[j].tab) => i < j
      BY <1>3, <2>1 DEF Ordered, NavigatesTab
    <2>5. \A i, j \in 1 .. Len(q) :
              q[i].kind = "navigate" /\ q[j].kind = "cancel" /\ q[i].target = q[j].target
              => i < j
      <3>1. \A j \in 1 .. Len(q) : q[j].kind = "cancel" => j = Len(q)
        BY <1>4, <1>5
      <3>. QED BY <2>1, <3>1
    <2>6. /\ \A i \in 1 .. Len(e) : q[i].kind = "navigate" => e[i].result # "refused"
          /\ \A u \in Tab : r.pending[u] # NoTarget =>
                \A i \in 1 .. Len(e) : ~(q[i].kind = "close" /\ q[i].tab = u)
      BY <1>3, <1>4 DEF Ordered
    <2>. QED BY <2>2, <2>3, <2>4, <2>5, <2>6 DEF Ordered
  <1>stopped. Stopped(q, e, r)
    BY <1>2
  <1>owned. Owned(t, q, r)
    <2>1. Own(s, c.target)
      BY <1>3, <1>6 DEF Owned
    <2>. QED BY <1>same, <1>2, <2>1 DEF Owned, Own
  <1>answered. Answered(t, q, e, r)
    BY <1>same, <1>2 DEF Answered
  <1>rest. SoundButDrawn(t, q, e, r, x)
    BY <1>2, <1>shell, <1>matched, <1>alone, <1>insession, <1>frames, <1>retiring,
       <1>painted, <1>views, <1>local, <1>ordered, <1>stopped, <1>owned, <1>answered DEF SoundButDrawn
  <1>drawn. Drawn(t, q)
    BY <1>same, <1>2 DEF Drawn, Switching, Gen
  <1>. QED BY <1>rest, <1>drawn DEF Sound

-----------------------------------------------------------------------------
(* The passage from one tab to another.                                    *)

LEMMA RemoveAtIs ==
    ASSUME NEW X, NEW seq \in Seq(X), NEW p \in 1 .. Len(seq)
    PROVE  /\ RemoveAt(seq, p) \in Seq(X)
           /\ Len(RemoveAt(seq, p)) = Len(seq) - 1
           /\ \A k \in 1 .. Len(seq) - 1 :
                 RemoveAt(seq, p)[k] = IF k < p THEN seq[k] ELSE seq[k + 1]
  <1> DEFINE n == Len(seq)
             a == SubSeq(seq, 1, p - 1)
             b == SubSeq(seq, p + 1, n)
  <1>1. n \in Nat /\ p \in 1 .. n /\ \A i \in 1 .. n : seq[i] \in X
    BY LenProperties
  <1> HIDE DEF n
  <1>2. /\ a \in Seq(X) /\ Len(a) = p - 1
        /\ \A i \in 1 .. p - 1 : a[i] = seq[i]
    <2>1. \A i \in 1 .. p - 1 : seq[i] \in X
      BY <1>1
    <2>2. /\ a \in Seq(X)
          /\ Len(a) = IF 1 <= p - 1 THEN (p - 1) - 1 + 1 ELSE 0
          /\ \A i \in 1 .. (p - 1) - 1 + 1 : a[i] = seq[1 + i - 1]
      BY <1>1, <2>1, SubSeqProperties
    <2> HIDE DEF a
    <2>. QED BY <1>1, <2>2
  <1>3. /\ b \in Seq(X) /\ Len(b) = n - p
        /\ \A i \in 1 .. n - p : b[i] = seq[p + i]
    <2>1. \A i \in p + 1 .. n : seq[i] \in X
      BY <1>1
    <2>2. /\ b \in Seq(X)
          /\ Len(b) = IF p + 1 <= n THEN n - (p + 1) + 1 ELSE 0
          /\ \A i \in 1 .. n - (p + 1) + 1 : b[i] = seq[p + 1 + i - 1]
      BY <1>1, <2>1, SubSeqProperties
    <2> HIDE DEF b
    <2>. QED BY <1>1, <2>2
  <1>4. RemoveAt(seq, p) = a \o b
    BY DEF RemoveAt, n
  <1> HIDE DEF a, b
  <1>5. /\ a \o b \in Seq(X) /\ Len(a \o b) = n - 1
        /\ \A k \in 1 .. n - 1 :
              (a \o b)[k] = IF k <= p - 1 THEN a[k] ELSE b[k - (p - 1)]
    <2>1. Len(a) + Len(b) = n - 1
      BY <1>1, <1>2, <1>3
    <2>2. /\ a \o b \in Seq(X) /\ Len(a \o b) = Len(a) + Len(b)
          /\ \A k \in 1 .. Len(a) + Len(b) :
                (a \o b)[k] = IF k <= Len(a) THEN a[k] ELSE b[k - Len(a)]
      BY <1>2, <1>3, ConcatProperties
    <2>. QED BY <1>2, <2>1, <2>2
  <1>6. \A k \in 1 .. n - 1 : (a \o b)[k] = IF k < p THEN seq[k] ELSE seq[k + 1]
    <2> TAKE k \in 1 .. n - 1
    <2>1. CASE k < p
      <3>1. k <= p - 1 /\ k \in 1 .. p - 1
        BY <1>1, <2>1
      <3>. QED BY <1>2, <1>5, <2>1, <3>1
    <2>2. CASE ~(k < p)
      <3>1. ~(k <= p - 1) /\ k - (p - 1) \in 1 .. n - p /\ p + (k - (p - 1)) = k + 1
        BY <1>1, <2>2
      <3>. QED BY <1>3, <1>5, <2>2, <3>1
    <2>. QED BY <2>1, <2>2
  <1>. QED BY <1>4, <1>5, <1>6 DEF n

\* The strip without one of its tabs.
LEMMA StripWithout ==
    ASSUME NEW tabs \in Seq(Tab), NEW k \in 1 .. Len(tabs),
           \A i, j \in 1 .. Len(tabs) : tabs[i] = tabs[j] => i = j
    PROVE  LET rest == RemoveAt(tabs, k)
           IN  /\ rest \in Seq(Tab)
               /\ Range(rest) = Range(tabs) \ {tabs[k]}
               /\ \A i, j \in 1 .. Len(rest) : rest[i] = rest[j] => i = j
  <1> DEFINE rest == RemoveAt(tabs, k)
  <1>1. /\ rest \in Seq(Tab) /\ Len(rest) = Len(tabs) - 1 /\ Len(tabs) \in Nat
        /\ \A i \in 1 .. Len(tabs) - 1 : rest[i] = IF i < k THEN tabs[i] ELSE tabs[i + 1]
        /\ DOMAIN rest = 1 .. Len(rest) /\ DOMAIN tabs = 1 .. Len(tabs)
    <2>1. /\ rest \in Seq(Tab) /\ Len(rest) = Len(tabs) - 1
          /\ \A i \in 1 .. Len(tabs) - 1 : rest[i] = IF i < k THEN tabs[i] ELSE tabs[i + 1]
      BY RemoveAtIs
    <2> HIDE DEF rest
    <2>. QED BY <2>1
  <1> HIDE DEF rest
  <1>2. \A i \in 1 .. Len(rest) :
            \E m \in 1 .. Len(tabs) : m # k /\ rest[i] = tabs[m] /\ m = IF i < k THEN i ELSE i + 1
    BY <1>1
  <1>3. ASSUME NEW m \in 1 .. Len(tabs), m # k
        PROVE  \E i \in 1 .. Len(rest) : rest[i] = tabs[m]
    <2>1. CASE m < k
      <3>1. m \in 1 .. Len(rest)
        BY <1>1, <2>1
      <3>2. rest[m] = tabs[m]
        BY <1>1, <2>1, <3>1
      <3>. QED BY <3>1, <3>2
    <2>2. CASE m > k
      <3>1. m - 1 \in 1 .. Len(rest) /\ ~(m - 1 < k) /\ (m - 1) + 1 = m
        BY <1>1, <2>2
      <3>2. rest[m - 1] = tabs[m]
        BY <1>1, <3>1
      <3>. QED BY <3>1, <3>2
    <2>. QED BY <1>3, <2>1, <2>2
  <1>4. Range(rest) \subseteq Range(tabs) \ {tabs[k]}
    <2>1. ASSUME NEW i \in 1 .. Len(rest) PROVE rest[i] \in Range(tabs) \ {tabs[k]}
      <3>1. PICK m \in 1 .. Len(tabs) : m # k /\ rest[i] = tabs[m]
        BY <1>2
      <3>. QED BY <1>1, <3>1 DEF Range
    <2>. QED BY <1>1, <2>1 DEF Range
  <1>5. Range(tabs) \ {tabs[k]} \subseteq Range(rest)
    <2>1. ASSUME NEW m \in 1 .. Len(tabs), tabs[m] # tabs[k] PROVE tabs[m] \in Range(rest)
      <3>1. PICK i \in 1 .. Len(rest) : rest[i] = tabs[m]
        BY <1>3, <2>1
      <3>. QED BY <1>1, <3>1 DEF Range
    <2>. QED BY <1>1, <2>1 DEF Range
  <1>6. ASSUME NEW i \in 1 .. Len(rest), NEW j \in 1 .. Len(rest), rest[i] = rest[j] PROVE i = j
    <2>1. PICK m \in 1 .. Len(tabs) : rest[i] = tabs[m] /\ m = IF i < k THEN i ELSE i + 1
      BY <1>2
    <2>2. PICK n \in 1 .. Len(tabs) : rest[j] = tabs[n] /\ n = IF j < k THEN j ELSE j + 1
      BY <1>2
    <2>3. m = n
      BY <1>6, <2>1, <2>2
    <2>. QED BY <2>1, <2>2, <2>3
  <1>. QED BY <1>1, <1>4, <1>5, <1>6 DEF rest

\* A passage to another tab.
LEMMA SwitchKept ==
    ASSUME NEW s, NEW p, NEW e, NEW r, NEW x,
           Sound(s, p, e, r, x),
           s.ready, s.reset = 0, s.creating = NotCreating,
           NEW t \in Shell, Differ(s, t, {"visible", "nextActivation", "handoff", "active", "tab", "permit"}),
           t.handoff.pending = [id |-> s.nextActivation, from |-> s.active, to |-> t.active],
           t.handoff.represented = t.active, t.handoff.content = Neutral, Gen(t) = Gen(s) + 1,
           t.nextActivation = s.nextActivation + 1, t.tab = t.active, ~t.visible,
           t.permit = TargetPermit(t.handoff, s.nextActivation, t.active),
           t.active \in Range(s.tabs) \cap s.materialized
    PROVE  Sound(t, p, e, r, x)
  <1>1. s \in Shell /\ ~s.down /\ Strip(s) /\ Chrome(s) /\ Exclusive(s) /\ Loading(s)
    BY DEF Sound, SoundButDrawn, SoundShell
  <1>2. /\ Pipes(p, e) /\ r \in Worker /\ Matched(s, p) /\ Alone(s, p, r)
        /\ InSession(s, p, e, r) /\ Frames(s, p, e, r, x) /\ Retiring(s, p, r)
        /\ Painted(s, x) /\ Views(s, p, e, r) /\ Local(s, p, r) /\ Ordered(p, e, r)
        /\ Stopped(p, e, r) /\ Owned(s, p, r) /\ Answered(s, p, e, r) /\ Drawn(s, p)
    BY DEF Sound, SoundButDrawn
  <1>3. /\ s.nextActivation \in Nat \ {0} /\ Gen(s) \in Nat
        /\ t.handoff.pending.id = s.nextActivation /\ t.handoff.pending.to = t.active
        /\ Switching(t) /\ t.permit # NoPermit /\ t.handoff.content = Neutral
        /\ s.initial = 0
    <2>1. s.nextActivation \in Nat \ {0} /\ Gen(s) \in Nat
      BY <1>1 DEF Shell, Handoff, Gen
    <2>2. s.initial = 0
      BY <1>1 DEF Loading
    <2>. QED BY <2>1, <2>2 DEF Switching, Activating, NoIntent, TargetPermit, NoPermit
  <1>4. /\ \A i \in 1 .. Len(p) : p[i].kind # "reset" /\ p[i].kind # "create"
        /\ \A i \in 1 .. Len(p) : p[i].kind = "render" => p[i].permit \in Permit
    BY <1>2, WaitedFor, CommandIs DEF Pipes
  <1>5. r.generation \in Nat /\ r.generation <= Gen(s)
    <2>1. r.generation \in Nat
      BY <1>2 DEF Worker
    <2>. QED BY <1>2, <1>3, <2>1 DEF Frames
  <1>6. \A permit \in Permit : permit.generation \in Nat
    BY DEF Permit
  <1>same. /\ t.tabs = s.tabs /\ t.nextTab = s.nextTab
           /\ t.nextNavigation = s.nextNavigation /\ t.loading = s.loading
           /\ t.remote = s.remote /\ t.initial = s.initial /\ t.restoring = s.restoring
           /\ t.materialized = s.materialized /\ t.down = s.down
           /\ t.session = s.session /\ t.ready = s.ready /\ t.init = s.init
           /\ t.frame = s.frame /\ t.surface = s.surface /\ t.reset = s.reset
           /\ t.creating = s.creating /\ t.closing = s.closing
           /\ t.cancelling = s.cancelling /\ t.targets = s.targets
           /\ t.recovery = s.recovery /\ t.seeking = s.seeking
           /\ t.unlocking = s.unlocking
    <2>1. /\ t.tabs = s.tabs /\ t.nextTab = s.nextTab
          /\ t.nextNavigation = s.nextNavigation /\ t.loading = s.loading
          /\ t.remote = s.remote /\ t.initial = s.initial
      BY DEF Differ, Fields
    <2>2. /\ t.restoring = s.restoring /\ t.materialized = s.materialized
          /\ t.down = s.down /\ t.session = s.session /\ t.ready = s.ready
          /\ t.init = s.init
      BY DEF Differ, Fields
    <2>3. /\ t.frame = s.frame /\ t.surface = s.surface /\ t.reset = s.reset
          /\ t.creating = s.creating /\ t.closing = s.closing
          /\ t.cancelling = s.cancelling
      BY DEF Differ, Fields
    <2>4. /\ t.targets = s.targets /\ t.recovery = s.recovery /\ t.seeking = s.seeking
          /\ t.unlocking = s.unlocking
      BY DEF Differ, Fields
    <2>. QED BY <2>1, <2>2, <2>3, <2>4
  <1>strip. Strip(t)
    BY <1>1, <1>same DEF Strip
  <1>chrome. Chrome(t)
    <2>1. s.nextActivation \in 1 .. t.nextActivation - 1
      BY <1>3
    <2>. QED BY <1>3, <2>1 DEF Chrome
  <1>exclusive. Exclusive(t)
    BY <1>1, <1>same DEF Exclusive
  <1>loading. Loading(t)
    BY <1>1, <1>3, <1>same DEF Loading
  <1>shell. SoundShell(t)
    BY <1>same, <1>1, <1>strip, <1>chrome, <1>exclusive, <1>loading DEF SoundShell
  <1>matched. Matched(t, p)
    <2>1. \A i \in 1 .. Len(p) : Awaited(t, p[i])
      BY <1>2, <1>4, <1>same DEF Matched, Awaited, Starting, Working
    <2>. QED BY <1>2, <1>3, <1>same, <2>1 DEF Matched
  <1>alone. Alone(t, p, r)
    BY <1>same DEF Alone
  <1>insession. InSession(t, p, e, r)
    BY <1>2, <1>4, <1>same DEF InSession
  <1>frames. Frames(t, p, e, r, x)
    <2>1. ASSUME NEW permit \in Permit, Fits(s, permit)
          PROVE  Fits(t, permit)
      <3>1. permit.generation \in Nat /\ permit.generation <= Gen(s) /\ permit.generation # Gen(t)
            /\ permit.generation <= Gen(t)
        BY <1>3, <1>6, <2>1 DEF Fits
      <3>2. permit.tab \in s.materialized
        BY <2>1 DEF Fits
      <3>3. permit.tab \notin Range(t.tabs) => ~ForTarget(permit)
        BY <1>1, <1>2, <1>3, <2>1, <1>same DEF Fits, ForTarget
      <3>. QED BY <1>3, <1>same, <3>1, <3>2, <3>3 DEF Fits
    <2>2. r.generation <= Gen(t) /\ r.generation # Gen(t)
      BY <1>3, <1>5
    <2>3. s.surface # 0 => /\ Fits(t, s.recovery)
                           /\ s.recovery.tab \in Range(t.tabs)
                           /\ r.generation = s.recovery.generation /\ r.tab = s.recovery.tab
      <3>1. s.surface # 0 => s.recovery \in Permit
        BY <1>1 DEF Exclusive, Shell
      <3>. QED BY <1>2, <1>same, <2>1, <3>1 DEF Frames
    <2>4. ASSUME NEW i \in 1 .. Len(p), p[i].kind = "render"
          PROVE  Fits(t, p[i].permit)
      BY <1>2, <1>4, <2>1, <2>4 DEF Frames
    <2>. QED BY <1>2, <1>3, <1>same, <2>2, <2>3, <2>4 DEF Frames
  <1>retiring. Retiring(t, p, r)
    <2>1. \A i \in 1 .. Len(p) : p[i].kind = "render" => p[i].permit.generation # Gen(t)
      <3>1. \A i \in 1 .. Len(p) : p[i].kind = "render" =>
              p[i].permit.generation <= Gen(s) /\ p[i].permit.generation \in Nat
        BY <1>2, <1>4, <1>6 DEF Frames, Fits
      <3>. QED BY <1>3, <3>1
    <2>2. s.surface # 0 => s.recovery.generation # Gen(t)
      <3>1. s.surface # 0 => s.recovery.generation = r.generation
        BY <1>2 DEF Frames
      <3>. QED BY <1>3, <1>5, <3>1
    <2>. QED BY <1>2, <1>same, <2>1, <2>2 DEF Retiring
  <1>painted. Painted(t, x)
    BY <1>3 DEF Painted
  <1>views. Views(t, p, e, r)
    BY <1>same, <1>2 DEF Views
  <1>local. Local(t, p, r)
    BY <1>same, <1>2 DEF Local
  <1>ordered. Ordered(p, e, r)
    BY <1>2
  <1>stopped. Stopped(p, e, r)
    BY <1>2
  <1>owned. Owned(t, p, r)
    BY <1>same, <1>2 DEF Owned, Own
  <1>answered. Answered(t, p, e, r)
    BY <1>2, <1>same DEF Answered
  <1>rest. SoundButDrawn(t, p, e, r, x)
    BY <1>2, <1>shell, <1>matched, <1>alone, <1>insession, <1>frames, <1>retiring,
       <1>painted, <1>views, <1>local, <1>ordered, <1>stopped, <1>owned, <1>answered DEF SoundButDrawn
  <1>drawn. Drawn(t, p)
    BY <1>3 DEF Drawn
  <1>. QED BY <1>rest, <1>drawn DEF Sound

\* The passage from a tab that is closed.
LEMMA SwitchClosed ==
    ASSUME NEW s, NEW p, NEW e, NEW r, NEW x,
           Sound(s, p, e, r, x),
           s.ready, s.reset = 0, s.creating = NotCreating, s.surface = 0, s.closing = NoTab, ~Switching(s),
           NEW t \in Shell, Differ(s, t, {"visible", "nextActivation", "handoff", "active", "tab", "permit", "tabs", "closing", "loading"}),
           t.handoff.pending = [id |-> s.nextActivation, from |-> s.active, to |-> t.active],
           t.handoff.represented = t.active, t.handoff.content = Neutral, Gen(t) = Gen(s) + 1,
           t.nextActivation = s.nextActivation + 1, t.tab = t.active, ~t.visible,
           t.permit = TargetPermit(t.handoff, s.nextActivation, t.active),
           Range(t.tabs) = Range(s.tabs) \ {s.active},
           \A i, j \in 1 .. Len(t.tabs) : t.tabs[i] = t.tabs[j] => i = j,
           t.closing = s.active, t.active \in s.materialized \ {s.active},
           t.loading = [s.loading EXCEPT ![s.active] = 0]
    PROVE  Sound(t, p, e, r, x)
  <1>1. s \in Shell /\ ~s.down /\ Strip(s) /\ Chrome(s) /\ Exclusive(s) /\ Loading(s)
    BY DEF Sound, SoundButDrawn, SoundShell
  <1>2. /\ Pipes(p, e) /\ r \in Worker /\ Matched(s, p) /\ Alone(s, p, r)
        /\ InSession(s, p, e, r) /\ Frames(s, p, e, r, x) /\ Retiring(s, p, r)
        /\ Painted(s, x) /\ Views(s, p, e, r) /\ Local(s, p, r) /\ Ordered(p, e, r)
        /\ Stopped(p, e, r) /\ Owned(s, p, r) /\ Answered(s, p, e, r) /\ Drawn(s, p)
    BY DEF Sound, SoundButDrawn
  <1>3. /\ s.nextActivation \in Nat \ {0} /\ Gen(s) \in Nat
        /\ t.handoff.pending.id = s.nextActivation /\ t.handoff.pending.to = t.active
        /\ Switching(t) /\ t.permit # NoPermit /\ t.handoff.content = Neutral
        /\ s.initial = 0
    <2>1. s.nextActivation \in Nat \ {0} /\ Gen(s) \in Nat
      BY <1>1 DEF Shell, Handoff, Gen
    <2>2. s.initial = 0
      BY <1>1 DEF Loading
    <2>. QED BY <2>1, <2>2 DEF Switching, Activating, NoIntent, TargetPermit, NoPermit
  <1>4. /\ \A i \in 1 .. Len(p) : p[i].kind # "reset" /\ p[i].kind # "create"
        /\ \A i \in 1 .. Len(p) : p[i].kind = "render" => p[i].permit \in Permit
    BY <1>2, WaitedFor, CommandIs DEF Pipes
  <1>5. r.generation \in Nat /\ r.generation <= Gen(s)
    <2>1. r.generation \in Nat
      BY <1>2 DEF Worker
    <2>. QED BY <1>2, <1>3, <2>1 DEF Frames
  <1>6. \A permit \in Permit : permit.generation \in Nat
    BY DEF Permit
  <1>7. /\ \A i \in 1 .. Len(p) : p[i].kind # "close"
        /\ s.active \in s.materialized \cap Range(s.tabs) /\ s.active \in Tab
    <2>1. \A i \in 1 .. Len(p) : p[i].kind # "close"
      BY <1>2, WaitedFor
    <2>. QED BY <1>1, <2>1, TabsAre
  <1>8. t.active \in Range(t.tabs) /\ t.active \in s.materialized
    <2>1. t.active \in Tab
      BY <1>1, TabsAre
    <2>. QED BY <1>1, <1>7, <2>1 DEF Strip, Tab, NoTab
  <1>9. \A u \in Range(t.tabs) : u \in Range(s.tabs) /\ t.loading[u] = s.loading[u]
    <2>1. Range(s.tabs) \subseteq Tab /\ s.loading \in [Tab -> Nat]
      BY <1>1, TabsAre DEF Shell
    <2>. QED BY <1>7, <2>1
  <1>same. /\ t.nextTab = s.nextTab /\ t.nextNavigation = s.nextNavigation
           /\ t.remote = s.remote /\ t.initial = s.initial /\ t.restoring = s.restoring
           /\ t.materialized = s.materialized /\ t.down = s.down
           /\ t.session = s.session /\ t.ready = s.ready /\ t.init = s.init
           /\ t.frame = s.frame /\ t.surface = s.surface /\ t.reset = s.reset
           /\ t.creating = s.creating /\ t.cancelling = s.cancelling
           /\ t.targets = s.targets /\ t.recovery = s.recovery /\ t.seeking = s.seeking
           /\ t.unlocking = s.unlocking
    <2>1. /\ t.nextTab = s.nextTab /\ t.nextNavigation = s.nextNavigation
          /\ t.remote = s.remote /\ t.initial = s.initial /\ t.restoring = s.restoring
          /\ t.materialized = s.materialized
      BY DEF Differ, Fields
    <2>2. /\ t.down = s.down /\ t.session = s.session /\ t.ready = s.ready
          /\ t.init = s.init /\ t.frame = s.frame /\ t.surface = s.surface
      BY DEF Differ, Fields
    <2>3. /\ t.reset = s.reset /\ t.creating = s.creating /\ t.cancelling = s.cancelling
          /\ t.targets = s.targets /\ t.recovery = s.recovery /\ t.seeking = s.seeking
      BY DEF Differ, Fields
    <2>4. /\ t.unlocking = s.unlocking
      BY DEF Differ, Fields
    <2>. QED BY <2>1, <2>2, <2>3, <2>4
  <1>strip. Strip(t)
    BY <1>1, <1>7, <1>8, <1>same DEF Strip, Tab, NoTab
  <1>chrome. Chrome(t)
    <2>1. s.nextActivation \in 1 .. t.nextActivation - 1
      BY <1>3
    <2>. QED BY <1>3, <2>1 DEF Chrome
  <1>exclusive. Exclusive(t)
    BY <1>1, <1>same DEF Exclusive
  <1>loading. Loading(t)
    BY <1>1, <1>3, <1>9, <1>same DEF Loading
  <1>shell. SoundShell(t)
    BY <1>same, <1>1, <1>strip, <1>chrome, <1>exclusive, <1>loading DEF SoundShell
  <1>matched. Matched(t, p)
    <2>1. \A i \in 1 .. Len(p) : Awaited(t, p[i])
      BY <1>2, <1>4, <1>same, <1>7 DEF Matched, Awaited, Starting, Working
    <2>. QED BY <1>2, <1>3, <1>same, <2>1 DEF Matched
  <1>alone. Alone(t, p, r)
    BY <1>same DEF Alone
  <1>insession. InSession(t, p, e, r)
    BY <1>2, <1>4, <1>same DEF InSession
  <1>frames. Frames(t, p, e, r, x)
    <2>1. ASSUME NEW permit \in Permit, Fits(s, permit)
          PROVE  Fits(t, permit)
      <3>1. permit.generation \in Nat /\ permit.generation <= Gen(s) /\ permit.generation # Gen(t)
            /\ permit.generation <= Gen(t)
        BY <1>3, <1>6, <2>1 DEF Fits
      <3>2. permit.tab \in s.materialized
        BY <2>1 DEF Fits
      <3>3. permit.tab \notin Range(t.tabs) => ~ForTarget(permit)
        BY <1>1, <1>2, <1>3, <2>1 DEF Fits, ForTarget
      <3>. QED BY <1>3, <1>same, <3>1, <3>2, <3>3 DEF Fits
    <2>2. r.generation <= Gen(t) /\ r.generation # Gen(t)
      BY <1>3, <1>5
    <2>3. s.surface # 0 => /\ Fits(t, s.recovery)
                           /\ s.recovery.tab \in Range(t.tabs)
                           /\ r.generation = s.recovery.generation /\ r.tab = s.recovery.tab
      OBVIOUS
    <2>4. ASSUME NEW i \in 1 .. Len(p), p[i].kind = "render"
          PROVE  Fits(t, p[i].permit)
      BY <1>2, <1>4, <2>1, <2>4 DEF Frames
    <2>. QED BY <1>2, <1>3, <1>same, <2>2, <2>3, <2>4 DEF Frames
  <1>retiring. Retiring(t, p, r)
    BY <1>7 DEF Retiring
  <1>painted. Painted(t, x)
    BY <1>3 DEF Painted
  <1>views. Views(t, p, e, r)
    BY <1>same, <1>2 DEF Views
  <1>local. Local(t, p, r)
    BY <1>same, <1>2 DEF Local
  <1>ordered. Ordered(p, e, r)
    BY <1>2
  <1>stopped. Stopped(p, e, r)
    BY <1>2
  <1>owned. Owned(t, p, r)
    BY <1>same, <1>2 DEF Owned, Own
  <1>answered. Answered(t, p, e, r)
    BY <1>2, <1>9, <1>same DEF Answered
  <1>rest. SoundButDrawn(t, p, e, r, x)
    BY <1>2, <1>shell, <1>matched, <1>alone, <1>insession, <1>frames, <1>retiring,
       <1>painted, <1>views, <1>local, <1>ordered, <1>stopped, <1>owned, <1>answered DEF SoundButDrawn
  <1>drawn. Drawn(t, p)
    BY <1>3 DEF Drawn
  <1>. QED BY <1>rest, <1>drawn DEF Sound

-----------------------------------------------------------------------------
(* A session that is installed.                                            *)

Installed ==
    {"tabs", "active", "tab", "nextTab", "nextActivation", "nextNavigation", "loading",
     "remote", "initial", "restoring", "handoff", "materialized"}

\* The fields of a shell in which the session was just installed.
AsInstalled(t) ==
    /\ t.tabs \in Seq(Tab) /\ Range(t.tabs) = 1 .. t.nextTab - 1
    /\ \A i, j \in 1 .. Len(t.tabs) : t.tabs[i] = t.tabs[j] => i = j
    /\ t.tab \in 1 .. t.nextTab - 1 /\ t.active = t.tab
    /\ t.nextTab \in 1 .. MaxTabs + 1 /\ t.nextActivation = 1
    /\ t.nextNavigation \in Nat \ {0} /\ t.initial \in Nat /\ t.initial < t.nextNavigation
    /\ t.loading \in [Tab -> Nat]
    /\ \A u \in Tab : t.loading[u] = IF u = t.tab THEN t.initial ELSE 0
    /\ t.remote \in [Tab -> BOOLEAN] /\ t.restoring \in BOOLEAN
    /\ t.initial # 0 => ~t.restoring
    /\ t.handoff = NewHandoff(t.tab) /\ t.materialized = {t.tab}

LEMMA Installing ==
    ASSUME NEW stored \in Stored, NEW s, DOMAIN s = Fields, NEW t, t = Install(s, stored)
    PROVE  /\ AsInstalled(t) /\ DOMAIN t = Fields
           /\ Differ(s, t, Installed)
  <1> DEFINE fresh == stored.tabs = 0
             n == IF fresh THEN 1 ELSE stored.tabs
             tab == IF fresh THEN 1 ELSE stored.active
  <1>1. /\ stored \in StoredSession
        /\ stored.tabs # 0 => stored.active \in 1 .. stored.tabs
        /\ MaxTabs \in Nat \ {0}
    BY ShellConstants, HandoffConstants
  <1>2. n \in 1 .. MaxTabs /\ tab \in 1 .. n
    <2>1. stored.tabs \in 0 .. MaxTabs
      BY <1>1 DEF StoredSession
    <2>2. CASE stored.tabs = 0
      BY <1>1, <2>2
    <2>3. CASE stored.tabs # 0
      BY <1>1, <2>1, <2>3
    <2>. QED BY <2>2, <2>3
  <1>3. /\ t.tabs = [i \in 1 .. n |-> i] /\ t.active = tab /\ t.tab = tab
        /\ t.nextTab = n + 1 /\ t.nextActivation = 1 /\ t.nextNavigation = n + 1
        /\ t.loading = [u \in Tab |-> IF fresh /\ u = 1 THEN 1 ELSE 0]
        /\ t.remote = [u \in Tab |-> u <= n /\ stored.remote]
    BY DEF Install, Fields
  <1>4. /\ t.initial = (IF fresh THEN 1 ELSE 0) /\ t.restoring = ~fresh
        /\ t.handoff = NewHandoff(tab) /\ t.materialized = {tab}
    BY DEF Install, Fields
  <1>5. DOMAIN t = Fields
    BY DEF Install
  <1>6. Differ(s, t, Installed)
    BY DEF Differ, Install, Installed
  <1> HIDE DEF n, tab
  <1>7. /\ t.tabs \in Seq(Tab) /\ Len(t.tabs) = n /\ DOMAIN t.tabs = 1 .. n
        /\ \A i \in 1 .. n : t.tabs[i] = i
    <2>1. n \in Nat /\ \A i \in 1 .. n : i \in Tab
      BY <1>1, <1>2 DEF Tab
    <2>2. t.tabs \in [1 .. n -> Tab]
      BY <1>3, <2>1
    <2>3. t.tabs \in Seq(Tab)
      BY <2>1, <2>2
    <2>. QED BY <1>3, <2>1, <2>3
  <1>8. Range(t.tabs) = 1 .. t.nextTab - 1
    BY <1>2, <1>3, <1>7 DEF Range
  <1>9. t.loading \in [Tab -> Nat] /\ \A u \in Tab : t.loading[u] = IF u = t.tab THEN t.initial ELSE 0
    BY <1>3, <1>4 DEF tab
  <1>10. t.remote \in [Tab -> BOOLEAN]
    BY <1>1, <1>3 DEF StoredSession
  <1>11. AsInstalled(t)
    <2>1. /\ n \in 1 .. MaxTabs /\ MaxTabs \in Nat /\ t.nextTab - 1 = n
          /\ t.nextTab \in 1 .. MaxTabs + 1
      BY <1>1, <1>2, <1>3
    <2>2. /\ t.nextNavigation \in Nat \ {0} /\ t.initial \in Nat /\ t.initial < t.nextNavigation
          /\ t.restoring \in BOOLEAN
          /\ t.initial # 0 => ~t.restoring
      <3>1. t.nextNavigation \in Nat \ {0} /\ 1 < t.nextNavigation
        BY <1>3, <2>1
      <3>2. t.restoring \in BOOLEAN /\ (fresh => ~t.restoring)
        BY <1>4, Zenon
      <3>3. CASE fresh
        BY <1>4, <3>1, <3>3, <3>2
      <3>4. CASE ~fresh
        BY <1>4, <3>1, <3>4, <3>2
      <3>. QED BY <3>3, <3>4
    <2>3. \A i, j \in 1 .. Len(t.tabs) : t.tabs[i] = t.tabs[j] => i = j
      BY <1>7
    <2>. QED BY <1>2, <1>3, <1>4, <1>7, <1>8, <1>9, <1>10, <2>1, <2>2, <2>3 DEF AsInstalled
  <1>. QED BY <1>5, <1>6, <1>11

\* A reset is asked of a worker that has nothing to do, but to start.
LEMMA ResetAsked ==
    ASSUME NEW s, NEW p, NEW e, NEW r, NEW x, Sound(s, p, e, r, x), s.seeking, Quiescent(s),
           NEW t \in Shell, AsInstalled(t), ~t.down, t.init = s.init,
           t.session = s.session + 1, ~t.seeking, ~t.visible, ~t.ready, t.reset # 0,
           t.permit = NoPermit, t.recovery = NoPermit, t.creating = NotCreating,
           t.closing = NoTab, t.cancelling = NoTarget, t.frame = 0, t.surface = 0,
           t.targets = [u \in Tab |-> NoTarget],
           NEW c \in Command, NEW q, Add(p, c, q), c.kind = "reset", c.id = t.reset,
           c.tab = t.tab, c.generation = Gen(t)
    PROVE  Sound(t, q, e, r, x)
  <1>1. /\ s \in Shell /\ ~s.down /\ Strip(s) /\ Exclusive(s)
        /\ Pipes(p, e) /\ r \in Worker /\ Matched(s, p) /\ InSession(s, p, e, r)
        /\ Owned(s, p, r) /\ Answered(s, p, e, r)
    BY DEF Sound, SoundButDrawn, SoundShell
  <1>2. /\ s.reset = 0 /\ s.creating = NotCreating /\ s.closing = NoTab
        /\ s.cancelling = NoTarget /\ s.frame = 0 /\ s.surface = 0
        /\ \A u \in Tab : s.targets[u] = NoTarget
        /\ s.session \in Nat \ {0}
    <2>1. s.session \in 1 .. MaxSessions
      BY <1>1 DEF Shell
    <2>2. s.session \in Nat \ {0}
      BY <2>1, ShellConstants
    <2>3. s.reset = 0
      BY <1>1 DEF Exclusive
    <2>. QED BY <2>2, <2>3 DEF Quiescent
  <1>3. /\ Len(p) \in Nat /\ Len(q) \in Nat /\ Len(e) \in Nat
        /\ Len(q) = Len(p) + 1 /\ Len(e) <= Len(p)
        /\ Len(q) \in 1 .. Len(q) /\ q[Len(q)] = c
        /\ \A i \in 1 .. Len(p) : i \in 1 .. Len(q) /\ q[i] = p[i] /\ i < Len(q)
        /\ \A i \in 1 .. Len(q) :
              \/ i \in 1 .. Len(p) /\ q[i] = p[i] /\ i < Len(q)
              \/ i = Len(q) /\ q[i] = c /\ ~(i <= Len(e)) /\ i > Len(e)
        /\ \A i \in 1 .. Len(e) : i \in 1 .. Len(p) /\ i \in 1 .. Len(q) /\ q[i] = p[i]
        /\ Pipes(q, e)
    BY <1>1, AddIs
  <1>4. Range(s.tabs) \subseteq Tab /\ s.materialized \subseteq Range(s.tabs)
    BY <1>1, <1>2, TabsAre DEF Strip, NoTab, Tab
  <1>5. \A i \in 1 .. Len(p) : p[i].kind \in Starting /\ p[i].id = s.init
    <2>1. ASSUME NEW i \in 1 .. Len(p), p[i].kind = "navigate" PROVE FALSE
      <3>1. p[i].target.tab \in Range(s.tabs)
        BY <1>1, <1>4, <2>1 DEF Owned
      <3>. QED BY <1>1, <1>2, <1>4, <2>1, <3>1 DEF Answered, NavigatesTab
    <2>. QED BY <1>1, <1>2, <2>1, WaitedFor DEF Kinds, Working
  <1>6. \A u \in Tab : r.pending[u] = NoTarget
    BY <1>1, <1>2, <1>4 DEF Owned, Answered
  <1>7. /\ \A i \in 1 .. Len(q) :
              \/ i \in 1 .. Len(p) /\ q[i] = p[i] /\ q[i].kind \in Starting /\ q[i].id = t.init
              \/ i = Len(q) /\ q[i] = c
        /\ \A i \in 1 .. Len(q) : q[i].kind \in Starting \cup {"reset"}
        /\ \A i \in 1 .. Len(e) : q[i].kind \in Starting
    BY <1>3, <1>5
  <1>8. /\ t.handoff.pending = NoIntent /\ t.handoff.represented = t.tab
        /\ t.handoff.content = t.tab /\ Gen(t) = 0 /\ ~Switching(t)
    BY DEF AsInstalled, NewHandoff, Switching, Activating, Gen
  <1>9. Strip(t)
    BY DEF Strip, AsInstalled
  <1>10. Chrome(t)
    BY <1>8 DEF Chrome, AsInstalled
  <1>11. Exclusive(t)
    BY <1>1, <1>2, <1>8 DEF Exclusive
  <1>12. Loading(t)
    <2>1. \A u \in Range(t.tabs) : u \in Tab /\ t.targets[u] = NoTarget
      BY <1>9, TabsAre
    <2>2. t.tab \in Range(t.tabs)
      BY <1>9, TabsAre
    <2>. QED BY <2>1, <2>2 DEF Loading, AsInstalled
  <1>13. Matched(t, q)
    <2>1. \A i \in 1 .. Len(q) : Awaited(t, q[i])
      BY <1>7 DEF Awaited, Starting, Working
    <2>2. \A i, j \in 1 .. Len(q) : Alike(q[i], q[j]) => i = j
      BY <1>1, <1>3, <1>7 DEF Matched, Alike, Starting, Working
    <2>3. Has(q, "reset")
      BY <1>3 DEF Has
    <2>. QED BY <2>1, <2>2, <2>3 DEF Matched
  <1>14. Alone(t, q, r)
    BY <1>6, <1>7 DEF Alone
  <1>15. InSession(t, q, e, r)
    <2>1. Has(q, "spawn") \/ Has(q, "attach") \/ t.init = 0 \/ ~r.attached
      BY <1>1, <1>3 DEF InSession, Has
    <2>2. r.session = s.session
      BY <1>1, <1>2 DEF InSession
    <2>3. Has(q, "reset") /\ ~Has(p, "reset")
      BY <1>3, <1>5 DEF Has, Starting
    <2>4. \A i \in 1 .. Len(p) : ~After(p, "reset", i)
      BY <2>3 DEF After, Has
    <2>5. \A i \in 1 .. Len(q) : q[i].kind = "spawn" =>
                /\ ~r.attached
                /\ i <= Len(e) + 1
                /\ i <= Len(e) => e[i].result # "refused"
      BY <1>1, <1>7 DEF InSession
    <2>6. \A i \in 1 .. Len(q) : q[i].kind = "attach" =>
                /\ i > Len(e) => ~r.attached
                /\ i > Len(e) => AsStarted(r, q[i])
                /\ i <= Len(e) => e[i].result # "refused"
      BY <1>1, <1>3, <1>7, <2>4 DEF InSession
    <2>7. \A i \in 1 .. Len(q) : q[i].kind = "reset" =>
                /\ ~(i <= Len(e)) /\ ~Renewed(e, i) /\ r.session + 1 = t.session
      BY <1>3, <1>7, <2>2 DEF Renewed, Starting
    <2>. QED BY <2>1, <2>3, <2>5, <2>6, <2>7 DEF InSession
  <1>16. Frames(t, q, e, r, x)
    BY <1>7, <1>8 DEF Frames, Starting
  <1>17. Retiring(t, q, r)
    BY <1>7 DEF Retiring, Starting
  <1>18. Painted(t, x)
    BY DEF Painted
  <1>19. Views(t, q, e, r)
    BY <1>7 DEF Views, Starting
  <1>20. Local(t, q, r)
    BY <1>6, <1>7 DEF Local, Starting
  <1>21. Ordered(q, e, r)
    <2>1. \A i \in 1 .. Len(q) : q[i].kind # "navigate" /\ q[i].kind # "close" /\ q[i].kind # "cancel"
      BY <1>7 DEF Starting
    <2>2. \A i \in 1 .. Len(e) : i \in 1 .. Len(q)
      BY <1>3
    <2>. QED BY <1>6, <2>1, <2>2 DEF Ordered, NavigatesTab
  <1>22. Stopped(q, e, r)
    BY <1>7 DEF Stopped, Starting
  <1>23. Owned(t, q, r)
    BY <1>6, <1>7 DEF Owned, Starting
  <1>24. Answered(t, q, e, r)
    <2>1. \A u \in Range(t.tabs) : u \in Tab /\ t.targets[u] = NoTarget
      BY <1>9, TabsAre
    <2>2. \A i \in 1 .. Len(q), u \in Tab : ~NavigatesTab(q[i], u)
      BY <1>7 DEF Starting, NavigatesTab
    <2>. QED BY <1>6, <2>1, <2>2 DEF Answered
  <1>25. Drawn(t, q)
    BY <1>8 DEF Drawn
  <1>. QED BY <1>1, <1>3, <1>9, <1>10, <1>11, <1>12, <1>13, <1>14, <1>15, <1>16, <1>17, <1>18,
              <1>19, <1>20, <1>21, <1>22, <1>23, <1>24, <1>25
       DEF Sound, SoundButDrawn, SoundShell

-----------------------------------------------------------------------------
(* Answers of the worker.                                                  *)

\* The replies f are e and the reply w to the next command of the pipe.
Push(p, e, w, f) ==
    /\ Len(e) < Len(p) /\ Len(f) = Len(e) + 1
    /\ f[Len(f)].of = p[Len(f)] /\ f[Len(f)].result = w
    /\ \A i \in 1 .. Len(e) : f[i] = e[i]

LEMMA PushIs ==
    ASSUME NEW p, NEW e, NEW w, NEW f, Pipes(p, e), Push(p, e, w, f),
           w \in Results(p[Len(f)].kind)
    PROVE  /\ Len(p) \in Nat /\ Len(e) \in Nat /\ Len(f) \in Nat
           /\ Len(f) = Len(e) + 1 /\ Len(f) \in 1 .. Len(p) /\ Len(f) \in 1 .. Len(f)
           /\ p[Len(f)] \in Command /\ f[Len(f)].result = w
           /\ Len(f) > Len(e) /\ ~(Len(f) <= Len(e))
           /\ \A i \in 1 .. Len(e) : i \in 1 .. Len(f) /\ f[i] = e[i] /\ i \in 1 .. Len(p) /\ i # Len(f)
           /\ \A i \in 1 .. Len(f) :
                 \/ i \in 1 .. Len(e) /\ f[i] = e[i]
                 \/ i = Len(f)
           /\ \A i \in 1 .. Len(p) :
                 /\ i <= Len(f) <=> (i <= Len(e) \/ i = Len(f))
                 /\ i > Len(f) <=> (i > Len(e) /\ i # Len(f))
                 /\ i <= Len(e) => f[i] = e[i]
           /\ Pipes(p, f)
  <1>1. /\ Len(p) \in Nat /\ Len(e) \in Nat /\ Len(f) = Len(e) + 1 /\ Len(e) < Len(p)
        /\ f[Len(f)].of = p[Len(f)] /\ f[Len(f)].result = w
        /\ \A i \in 1 .. Len(e) : f[i] = e[i]
        /\ \A i \in 1 .. Len(p) : p[i] \in Command
        /\ \A i \in 1 .. Len(e) : e[i].of = p[i] /\ e[i].result \in Results(p[i].kind)
    BY DEF Pipes, Push
  <1>2. \A i \in 1 .. Len(f) : \/ i \in 1 .. Len(e) /\ f[i] = e[i]
                               \/ i = Len(f)
    BY <1>1
  <1>3. \A i \in 1 .. Len(f) : f[i].of = p[i] /\ f[i].result \in Results(p[i].kind)
    BY <1>1, <1>2
  <1>4. Pipes(p, f)
    BY <1>1, <1>3 DEF Pipes
  <1>. QED BY <1>1, <1>2, <1>4

\* What a reply leaves alone that is not about its command, while the worker is the same.
LEMMA Pushed ==
    ASSUME NEW s, NEW p, NEW e, NEW r, NEW x, NEW w, NEW f, SoundButDrawn(s, p, e, r, x),
           Push(p, e, w, f), w \in Results(p[Len(f)].kind)
    PROVE  /\ SoundShell(s) /\ Pipes(p, f) /\ r \in Worker
           /\ Matched(s, p) /\ Alone(s, p, r) /\ Retiring(s, p, r) /\ Painted(s, x)
           /\ Local(s, p, r) /\ Owned(s, p, r) /\ Answered(s, p, f, r)
           /\ p[Len(f)].kind \notin Starting \cup {"reset"} => InSession(s, p, f, r)
           /\ p[Len(f)].kind # "render" => Frames(s, p, f, r, x)
           /\ p[Len(f)].kind \notin {"spawn", "create", "close", "replace"} => Views(s, p, f, r)
           /\ p[Len(f)].kind \notin {"navigate", "close"} => Ordered(p, f, r)
           /\ p[Len(f)].kind # "cancel" => Stopped(p, f, r)
  <1>1. /\ SoundShell(s) /\ Pipes(p, e) /\ r \in Worker
        /\ Matched(s, p) /\ Alone(s, p, r) /\ Retiring(s, p, r) /\ Painted(s, x)
        /\ Local(s, p, r) /\ Owned(s, p, r) /\ Answered(s, p, e, r)
        /\ InSession(s, p, e, r) /\ Frames(s, p, e, r, x) /\ Views(s, p, e, r)
        /\ Ordered(p, e, r) /\ Stopped(p, e, r)
    BY DEF SoundButDrawn
  <1> DEFINE d == Len(f)
  <1>2. /\ Len(p) \in Nat /\ Len(e) \in Nat /\ Len(f) \in Nat
        /\ d = Len(e) + 1 /\ d \in 1 .. Len(p) /\ d \in 1 .. d
        /\ p[d] \in Command /\ f[d].result = w
        /\ d > Len(e) /\ ~(d <= Len(e))
        /\ \A i \in 1 .. Len(e) : i \in 1 .. Len(f) /\ f[i] = e[i] /\ i \in 1 .. Len(p) /\ i # d
        /\ \A i \in 1 .. Len(f) : \/ i \in 1 .. Len(e) /\ f[i] = e[i]
                                  \/ i = d
        /\ \A i \in 1 .. Len(p) :
              /\ i <= Len(f) <=> (i <= Len(e) \/ i = d)
              /\ i > Len(f) <=> (i > Len(e) /\ i # d)
              /\ i <= Len(e) => f[i] = e[i]
        /\ Pipes(p, f)
    BY <1>1, PushIs
  <1> HIDE DEF d
  <1>3. \A i \in 1 .. Len(p) : i # d => /\ i <= Len(f) <=> i <= Len(e)
                                        /\ i > Len(f) <=> i > Len(e)
                                        /\ i <= Len(f) => f[i] = e[i]
    BY <1>2
  <1>4. Answered(s, p, f, r)
    <2>1. ASSUME NEW target, Carried(p, e, r, target) PROVE Carried(p, f, r, target)
      BY <1>2, <2>1 DEF Carried
    <2>. QED BY <1>1, <2>1 DEF Answered
  <1>5. ASSUME p[d].kind \notin Starting \cup {"reset"} PROVE InSession(s, p, f, r)
    <2>1. \A i \in 1 .. Len(p) : p[i].kind \in Starting \cup {"reset"} => i # d
      BY <1>5
    <2>2. \A i \in 1 .. Len(p) : p[i].kind = "spawn" =>
                /\ ~r.attached
                /\ i <= Len(f) + 1
                /\ Has(p, "reset") \/ AsStarted(r, p[i])
                /\ i <= Len(f) => f[i].result # "refused"
      BY <1>1, <1>2, <1>3, <2>1 DEF InSession, Starting
    <2>3. \A i \in 1 .. Len(p) : p[i].kind = "attach" =>
                /\ i > Len(f) => ~r.attached
                /\ i > Len(f) => After(p, "reset", i) \/ AsStarted(r, p[i])
                /\ i <= Len(f) /\ f[i].result = "refused" => After(p, "reset", i)
      BY <1>1, <1>3, <2>1 DEF InSession, Starting
    <2>4. \A i \in 1 .. Len(p) : p[i].kind = "reset" => (Renewed(f, i) <=> Renewed(e, i))
      BY <1>3, <2>1 DEF Renewed
    <2>5. \A i \in 1 .. Len(p) : p[i].kind = "reset" =>
                /\ i <= Len(f) => f[i].result # "refused"
                /\ i <= Len(f) /\ f[i].result = "ok" =>
                      /\ r.attached
                      /\ \A j \in 1 .. Len(p) : p[j].kind \in Starting => j < i
                /\ ~Renewed(f, i) => r.session + 1 = s.session
                /\ Renewed(f, i) =>
                      /\ r.session = s.session
                      /\ r.tab = s.tab /\ r.generation = Gen(s)
                      /\ r.views = {s.tab}
      BY <1>1, <1>3, <2>1, <2>4 DEF InSession
    <2>. QED BY <1>1, <2>2, <2>3, <2>5 DEF InSession
  <1>6. ASSUME p[d].kind # "render" PROVE Frames(s, p, f, r, x)
    <2>1. \A i \in 1 .. Len(p) : p[i].kind = "render" => i # d
      BY <1>6
    <2>. QED BY <1>1, <1>3, <2>1 DEF Frames
  <1>7. ASSUME p[d].kind \notin {"spawn", "create", "close", "replace"} PROVE Views(s, p, f, r)
    <2>1. /\ \A i \in 1 .. Len(p) : p[i].kind \in {"spawn", "create", "close", "replace"} => i # d
          /\ \A i \in 1 .. Len(f) : p[i].kind \in {"create", "close", "replace"} =>
                i \in 1 .. Len(e) /\ f[i] = e[i]
          /\ \A i \in 1 .. Len(e) : i \in 1 .. Len(f) /\ f[i] = e[i]
      BY <1>2, <1>7
    <2>2. \A i \in 1 .. Len(f) :
             p[i].kind \in {"create", "close", "replace"} => f[i].result # "refused"
      BY <1>1, <2>1 DEF Views
    <2>3. (\E i \in 1 .. Len(p) : p[i].kind = "spawn" /\ i > Len(e))
          => \E i \in 1 .. Len(p) : p[i].kind = "spawn" /\ i > Len(f)
      BY <1>3, <2>1
    <2>4. ASSUME NEW u \in Tab
          PROVE  /\ (\E i \in 1 .. Len(f) : p[i].kind = "close" /\ p[i].tab = u)
                    <=> (\E i \in 1 .. Len(e) : p[i].kind = "close" /\ p[i].tab = u)
                 /\ (\E i \in 1 .. Len(f) :
                        p[i].kind = "create" /\ p[i].tab = u /\ f[i].result = "ok")
                    <=> (\E i \in 1 .. Len(e) :
                        p[i].kind = "create" /\ p[i].tab = u /\ e[i].result = "ok")
      BY <2>1
    <2>. QED BY <1>1, <2>2, <2>3, <2>4 DEF Views
  <1>8. ASSUME p[d].kind \notin {"navigate", "close"} PROVE Ordered(p, f, r)
    <2>1. /\ \A i \in 1 .. Len(p), u \in Tab : NavigatesTab(p[i], u) => i # d
          /\ \A i \in 1 .. Len(f) : p[i].kind \in {"navigate", "close"} =>
                i \in 1 .. Len(e) /\ f[i] = e[i]
      BY <1>2, <1>8 DEF NavigatesTab
    <2>2. \A i \in 1 .. Len(p), u \in Tab :
              NavigatesTab(p[i], u) /\ r.pending[u] # NoTarget =>
              IF i <= Len(f) THEN p[i].target.navigation < r.pending[u].navigation
                             ELSE p[i].target.navigation > r.pending[u].navigation
      BY <1>1, <1>3, <2>1 DEF Ordered
    <2>3. /\ \A i \in 1 .. Len(f) : p[i].kind = "navigate" => f[i].result # "refused"
          /\ \A u \in Tab : r.pending[u] # NoTarget =>
                \A i \in 1 .. Len(f) : ~(p[i].kind = "close" /\ p[i].tab = u)
      BY <1>1, <2>1 DEF Ordered
    <2>4. /\ \A i, j \in 1 .. Len(p) :
                p[i].kind = "navigate" /\ NavigatesTab(p[j], p[i].target.tab) /\ i < j
                => p[i].target.navigation < p[j].target.navigation
          /\ \A i, j \in 1 .. Len(p) :
                p[j].kind = "close" /\ NavigatesTab(p[i], p[j].tab) => i < j
          /\ \A i, j \in 1 .. Len(p) :
                p[i].kind = "navigate" /\ p[j].kind = "cancel" /\ p[i].target = p[j].target
                => i < j
      BY <1>1 DEF Ordered
    <2>. QED BY <2>2, <2>3, <2>4 DEF Ordered
  <1>9. ASSUME p[d].kind # "cancel" PROVE Stopped(p, f, r)
    <2>1. \A i \in 1 .. Len(f) : p[i].kind = "cancel" => i \in 1 .. Len(e) /\ f[i] = e[i]
      BY <1>2, <1>9
    <2>. QED BY <1>1, <2>1 DEF Stopped
  <1>. QED BY <1>1, <1>2, <1>4, <1>5, <1>6, <1>7, <1>8, <1>9 DEF d

\* The worker has started: it has one view.
LEMMA StartAnswered ==
    ASSUME NEW s, NEW p, NEW e, NEW r, NEW x, Sound(s, p, e, r, x), NEW w, NEW f,
           Push(p, e, w, f), w \in Results(p[Len(f)].kind), p[Len(f)].kind = "spawn",
           w # "refused",
           NEW r2 \in Worker,
           r2.session = r.session, r2.tab = r.tab, r2.generation = r.generation,
           r2.attached = r.attached, r2.pending = r.pending,
           r2.views = {r.tab}
    PROVE  Sound(s, p, f, r2, x)
  <1>1. /\ SoundShell(s) /\ s \in Shell /\ Strip(s) /\ Chrome(s) /\ Exclusive(s)
        /\ Pipes(p, e) /\ r \in Worker
        /\ Matched(s, p) /\ Alone(s, p, r) /\ Retiring(s, p, r) /\ Painted(s, x)
        /\ Local(s, p, r) /\ Owned(s, p, r) /\ Answered(s, p, e, r)
        /\ InSession(s, p, e, r) /\ Frames(s, p, e, r, x) /\ Views(s, p, e, r)
        /\ Ordered(p, e, r) /\ Stopped(p, e, r) /\ Drawn(s, p)
        /\ SoundButDrawn(s, p, e, r, x)
    BY DEF Sound, SoundButDrawn, SoundShell
  <1> DEFINE d == Len(f)
  <1>2. /\ Len(p) \in Nat /\ Len(e) \in Nat /\ Len(f) \in Nat
        /\ d = Len(e) + 1 /\ d \in 1 .. Len(p) /\ d \in 1 .. Len(f)
        /\ p[d] \in Command /\ f[d].result = w
        /\ d > Len(e) /\ ~(d <= Len(e)) /\ d <= Len(f)
        /\ \A i \in 1 .. Len(e) : i \in 1 .. Len(f) /\ f[i] = e[i] /\ i \in 1 .. Len(p) /\ i # d
        /\ \A i \in 1 .. Len(f) : \/ i \in 1 .. Len(e) /\ f[i] = e[i]
                                  \/ i = d
        /\ \A i \in 1 .. Len(p) :
              /\ i <= Len(f) <=> (i <= Len(e) \/ i = d)
              /\ i > Len(f) <=> (i > Len(e) /\ i # d)
              /\ i <= Len(e) => f[i] = e[i]
        /\ Pipes(p, f)
    BY <1>1, PushIs
  <1>3. p[d].kind = "spawn" /\ w \in Results(p[d].kind)
    OBVIOUS
  <1>4. /\ SoundShell(s) /\ Pipes(p, f) /\ r \in Worker
        /\ Matched(s, p) /\ Alone(s, p, r) /\ Retiring(s, p, r) /\ Painted(s, x)
        /\ Local(s, p, r) /\ Owned(s, p, r) /\ Answered(s, p, f, r)
        /\ Frames(s, p, f, r, x)
        /\ Ordered(p, f, r)
        /\ Stopped(p, f, r)
    <2>1. /\ SoundShell(s) /\ Pipes(p, f) /\ r \in Worker
          /\ Matched(s, p) /\ Alone(s, p, r) /\ Retiring(s, p, r) /\ Painted(s, x)
          /\ Local(s, p, r) /\ Owned(s, p, r) /\ Answered(s, p, f, r)
          /\ p[Len(f)].kind \notin Starting \cup {"reset"} => InSession(s, p, f, r)
          /\ p[Len(f)].kind # "render" => Frames(s, p, f, r, x)
          /\ p[Len(f)].kind \notin {"spawn", "create", "close", "replace"} => Views(s, p, f, r)
          /\ p[Len(f)].kind \notin {"navigate", "close"} => Ordered(p, f, r)
          /\ p[Len(f)].kind # "cancel" => Stopped(p, f, r)
      BY <1>1, Pushed
    <2>. QED BY <2>1 DEF Starting
  <1> HIDE DEF d
  <1>5. \A i \in 1 .. Len(p) : i # d => /\ i <= Len(f) <=> i <= Len(e)
                                        /\ i > Len(f) <=> i > Len(e)
                                        /\ i <= Len(f) => f[i] = e[i]
    BY <1>2
  <1>6. s.init # 0 /\ ~s.ready /\ s.materialized = {s.tab} /\ ~Switching(s)
        /\ s.closing = NoTab /\ s.creating = NotCreating /\ s.surface = 0
    <2>1. s.init # 0
      BY <1>1, <1>2, <1>3, WaitedFor DEF Starting
    <2>. QED BY <1>1, <2>1 DEF Exclusive, Strip
  <1>7. \A i \in 1 .. Len(p) : p[i].kind \notin {"close", "create", "replace"}
    BY <1>1, <1>6, WaitedFor
  <1>8. Alone(s, p, r2) /\ Retiring(s, p, r2) /\ Local(s, p, r2) /\ Owned(s, p, r2)
    BY <1>4 DEF Alone, Retiring, Local, Owned
  <1>9. Answered(s, p, f, r2) /\ Ordered(p, f, r2) /\ Stopped(p, f, r2)
    BY <1>4 DEF Answered, Carried, Ordered, Stopped
  <1>10. Frames(s, p, f, r2, x)
    BY <1>4 DEF Frames
  <1>11. Views(s, p, f, r2)
    <2>1. ASSUME s.reset = 0, NEW u \in Tab PROVE u \in r2.views <=> u \in s.materialized
      BY <1>1, <1>6, <2>1 DEF Frames, Strip
    <2>2. \A i \in 1 .. Len(f) : i \in 1 .. Len(p)
      BY <1>2
    <2>. QED BY <1>7, <2>1, <2>2 DEF Views
  <1>12. InSession(s, p, f, r2)
    <2>1. \A i \in 1 .. Len(p) : p[i].kind = "spawn" => i = d
      BY <1>1, <1>2, <1>3 DEF Matched, Alike, Starting
    <2>2. \A i \in 1 .. Len(p) : p[i].kind # "attach"
      BY <1>1, <1>2, <1>3 DEF Matched, Alike, Starting
    <2>3. ~r.attached /\ (Has(p, "reset") \/ AsStarted(r2, p[d]))
      BY <1>1, <1>2, <1>3 DEF InSession, AsStarted
    <2>4. d <= Len(f) + 1 /\ f[d].result # "refused"
      BY <1>2
    <2>5. ASSUME NEW i \in 1 .. Len(p), p[i].kind = "reset"
          PROVE  /\ i <= Len(f) => f[i].result # "refused"
                 /\ i <= Len(f) /\ f[i].result = "ok" =>
                       /\ r2.attached
                       /\ \A j \in 1 .. Len(p) : p[j].kind \in Starting => j < i
                 /\ ~Renewed(f, i) => r2.session + 1 = s.session
                 /\ Renewed(f, i) =>
                       /\ r2.session = s.session
                       /\ r2.tab = s.tab /\ r2.generation = Gen(s)
                       /\ r2.views = {s.tab}
      <3>1. i # d
        BY <1>3, <2>5
      <3>2. Renewed(f, i) <=> Renewed(e, i)
        BY <1>5, <3>1 DEF Renewed
      <3>3. /\ i <= Len(e) => e[i].result # "refused"
            /\ i <= Len(e) /\ e[i].result = "ok" =>
                  /\ r.attached
                  /\ \A j \in 1 .. Len(p) : p[j].kind \in Starting => j < i
            /\ ~Renewed(e, i) => r.session + 1 = s.session
            /\ Renewed(e, i) => /\ r.session = s.session
                                /\ r.tab = s.tab /\ r.generation = Gen(s)
        BY <1>1, <2>5 DEF InSession
      <3>. QED BY <1>5, <3>1, <3>2, <3>3
    <2>6. s.reset = 0 => r2.session = s.session
      BY <1>1 DEF InSession
    <2>7. Has(p, "spawn")
      BY <1>2, <1>3 DEF Has
    <2>. QED BY <2>1, <2>2, <2>3, <2>4, <2>5, <2>6, <2>7 DEF InSession
  <1>. QED BY <1>1, <1>4, <1>8, <1>9, <1>10, <1>11, <1>12 DEF Sound, SoundButDrawn

\* The worker has its surface.
LEMMA SurfaceAttached ==
    ASSUME NEW s, NEW p, NEW e, NEW r, NEW x, Sound(s, p, e, r, x), NEW w, NEW f,
           Push(p, e, w, f), w \in Results(p[Len(f)].kind), p[Len(f)].kind = "attach",
           w = "ok",
           NEW r2 \in Worker,
           r2.session = r.session, r2.tab = r.tab, r2.generation = r.generation,
           r2.views = r.views, r2.pending = r.pending,
           r2.attached
    PROVE  Sound(s, p, f, r2, x)
  <1>1. /\ SoundShell(s) /\ s \in Shell /\ Strip(s) /\ Chrome(s) /\ Exclusive(s)
        /\ Pipes(p, e) /\ r \in Worker
        /\ Matched(s, p) /\ Alone(s, p, r) /\ Retiring(s, p, r) /\ Painted(s, x)
        /\ Local(s, p, r) /\ Owned(s, p, r) /\ Answered(s, p, e, r)
        /\ InSession(s, p, e, r) /\ Frames(s, p, e, r, x) /\ Views(s, p, e, r)
        /\ Ordered(p, e, r) /\ Stopped(p, e, r) /\ Drawn(s, p)
        /\ SoundButDrawn(s, p, e, r, x)
    BY DEF Sound, SoundButDrawn, SoundShell
  <1> DEFINE d == Len(f)
  <1>2. /\ Len(p) \in Nat /\ Len(e) \in Nat /\ Len(f) \in Nat
        /\ d = Len(e) + 1 /\ d \in 1 .. Len(p) /\ d \in 1 .. Len(f)
        /\ p[d] \in Command /\ f[d].result = w
        /\ d > Len(e) /\ ~(d <= Len(e)) /\ d <= Len(f)
        /\ \A i \in 1 .. Len(e) : i \in 1 .. Len(f) /\ f[i] = e[i] /\ i \in 1 .. Len(p) /\ i # d
        /\ \A i \in 1 .. Len(f) : \/ i \in 1 .. Len(e) /\ f[i] = e[i]
                                  \/ i = d
        /\ \A i \in 1 .. Len(p) :
              /\ i <= Len(f) <=> (i <= Len(e) \/ i = d)
              /\ i > Len(f) <=> (i > Len(e) /\ i # d)
              /\ i <= Len(e) => f[i] = e[i]
        /\ Pipes(p, f)
    BY <1>1, PushIs
  <1>3. p[d].kind = "attach" /\ w \in Results(p[d].kind)
    OBVIOUS
  <1>4. /\ SoundShell(s) /\ Pipes(p, f) /\ r \in Worker
        /\ Matched(s, p) /\ Alone(s, p, r) /\ Retiring(s, p, r) /\ Painted(s, x)
        /\ Local(s, p, r) /\ Owned(s, p, r) /\ Answered(s, p, f, r)
        /\ Frames(s, p, f, r, x)
        /\ Views(s, p, f, r)
        /\ Ordered(p, f, r)
        /\ Stopped(p, f, r)
    <2>1. /\ SoundShell(s) /\ Pipes(p, f) /\ r \in Worker
          /\ Matched(s, p) /\ Alone(s, p, r) /\ Retiring(s, p, r) /\ Painted(s, x)
          /\ Local(s, p, r) /\ Owned(s, p, r) /\ Answered(s, p, f, r)
          /\ p[Len(f)].kind \notin Starting \cup {"reset"} => InSession(s, p, f, r)
          /\ p[Len(f)].kind # "render" => Frames(s, p, f, r, x)
          /\ p[Len(f)].kind \notin {"spawn", "create", "close", "replace"} => Views(s, p, f, r)
          /\ p[Len(f)].kind \notin {"navigate", "close"} => Ordered(p, f, r)
          /\ p[Len(f)].kind # "cancel" => Stopped(p, f, r)
      BY <1>1, Pushed
    <2>. QED BY <2>1 DEF Starting
  <1> HIDE DEF d
  <1>5. \A i \in 1 .. Len(p) : i # d => /\ i <= Len(f) <=> i <= Len(e)
                                        /\ i > Len(f) <=> i > Len(e)
                                        /\ i <= Len(f) => f[i] = e[i]
    BY <1>2
  <1>6. \A i \in 1 .. Len(p) : p[i].kind \in Starting => i = d
    BY <1>1, <1>2, <1>3 DEF Matched, Alike, Starting
  <1>7. \A i \in 1 .. Len(p) : p[i].kind # "spawn"
    BY <1>3, <1>6 DEF Starting
  <1>8. Alone(s, p, r2) /\ Retiring(s, p, r2) /\ Local(s, p, r2) /\ Owned(s, p, r2)
    BY <1>4 DEF Alone, Retiring, Local, Owned
  <1>9. Answered(s, p, f, r2) /\ Ordered(p, f, r2) /\ Stopped(p, f, r2)
    BY <1>4 DEF Answered, Carried, Ordered, Stopped
  <1>10. Frames(s, p, f, r2, x) /\ Views(s, p, f, r2)
    BY <1>4 DEF Frames, Views
  <1>11. InSession(s, p, f, r2)
    <2>1. \A i \in 1 .. Len(p) : p[i].kind = "attach" => i = d
      BY <1>6 DEF Starting
    <2>2. d <= Len(f) /\ ~(d > Len(f)) /\ f[d].result # "refused"
      BY <1>2
    <2>3. ASSUME NEW i \in 1 .. Len(p), p[i].kind = "reset"
          PROVE  /\ i <= Len(f) => f[i].result # "refused"
                 /\ i <= Len(f) /\ f[i].result = "ok" =>
                       /\ r2.attached
                       /\ \A j \in 1 .. Len(p) : p[j].kind \in Starting => j < i
                 /\ ~Renewed(f, i) => r2.session + 1 = s.session
                 /\ Renewed(f, i) =>
                       /\ r2.session = s.session
                       /\ r2.tab = s.tab /\ r2.generation = Gen(s)
                       /\ r2.views = {s.tab}
      <3>1. i # d
        BY <1>3, <2>3
      <3>2. Renewed(f, i) <=> Renewed(e, i)
        BY <1>5, <3>1 DEF Renewed
      <3>3. /\ i <= Len(e) => e[i].result # "refused"
            /\ i <= Len(e) /\ e[i].result = "ok" =>
                  /\ r.attached
                  /\ \A j \in 1 .. Len(p) : p[j].kind \in Starting => j < i
            /\ ~Renewed(e, i) => r.session + 1 = s.session
            /\ Renewed(e, i) => /\ r.session = s.session
                                /\ r.tab = s.tab /\ r.generation = Gen(s)
                                /\ r.views = {s.tab}
        BY <1>1, <2>3 DEF InSession
      <3>. QED BY <1>5, <3>1, <3>2, <3>3
    <2>4. s.reset = 0 => r2.session = s.session
      BY <1>1 DEF InSession
    <2>5. Has(p, "attach")
      BY <1>2, <1>3 DEF Has
    <2>. QED BY <1>7, <2>1, <2>2, <2>3, <2>4, <2>5 DEF InSession
  <1>. QED BY <1>1, <1>4, <1>8, <1>9, <1>10, <1>11 DEF Sound, SoundButDrawn

\* A surface that comes after a reset is refused.
LEMMA SurfaceRefused ==
    ASSUME NEW s, NEW p, NEW e, NEW r, NEW x, Sound(s, p, e, r, x), NEW w, NEW f,
           Push(p, e, w, f), w \in Results(p[Len(f)].kind), p[Len(f)].kind = "attach",
           w = "refused",
           After(p, "reset", Len(f))
    PROVE  Sound(s, p, f, r, x)
  <1>1. /\ SoundShell(s) /\ s \in Shell /\ Strip(s) /\ Chrome(s) /\ Exclusive(s)
        /\ Pipes(p, e) /\ r \in Worker
        /\ Matched(s, p) /\ Alone(s, p, r) /\ Retiring(s, p, r) /\ Painted(s, x)
        /\ Local(s, p, r) /\ Owned(s, p, r) /\ Answered(s, p, e, r)
        /\ InSession(s, p, e, r) /\ Frames(s, p, e, r, x) /\ Views(s, p, e, r)
        /\ Ordered(p, e, r) /\ Stopped(p, e, r) /\ Drawn(s, p)
        /\ SoundButDrawn(s, p, e, r, x)
    BY DEF Sound, SoundButDrawn, SoundShell
  <1> DEFINE d == Len(f)
  <1>2. /\ Len(p) \in Nat /\ Len(e) \in Nat /\ Len(f) \in Nat
        /\ d = Len(e) + 1 /\ d \in 1 .. Len(p) /\ d \in 1 .. Len(f)
        /\ p[d] \in Command /\ f[d].result = w
        /\ d > Len(e) /\ ~(d <= Len(e)) /\ d <= Len(f)
        /\ \A i \in 1 .. Len(e) : i \in 1 .. Len(f) /\ f[i] = e[i] /\ i \in 1 .. Len(p) /\ i # d
        /\ \A i \in 1 .. Len(f) : \/ i \in 1 .. Len(e) /\ f[i] = e[i]
                                  \/ i = d
        /\ \A i \in 1 .. Len(p) :
              /\ i <= Len(f) <=> (i <= Len(e) \/ i = d)
              /\ i > Len(f) <=> (i > Len(e) /\ i # d)
              /\ i <= Len(e) => f[i] = e[i]
        /\ Pipes(p, f)
    BY <1>1, PushIs
  <1>3. p[d].kind = "attach" /\ w \in Results(p[d].kind)
    OBVIOUS
  <1>4. /\ SoundShell(s) /\ Pipes(p, f) /\ r \in Worker
        /\ Matched(s, p) /\ Alone(s, p, r) /\ Retiring(s, p, r) /\ Painted(s, x)
        /\ Local(s, p, r) /\ Owned(s, p, r) /\ Answered(s, p, f, r)
        /\ Frames(s, p, f, r, x)
        /\ Views(s, p, f, r)
        /\ Ordered(p, f, r)
        /\ Stopped(p, f, r)
    <2>1. /\ SoundShell(s) /\ Pipes(p, f) /\ r \in Worker
          /\ Matched(s, p) /\ Alone(s, p, r) /\ Retiring(s, p, r) /\ Painted(s, x)
          /\ Local(s, p, r) /\ Owned(s, p, r) /\ Answered(s, p, f, r)
          /\ p[Len(f)].kind \notin Starting \cup {"reset"} => InSession(s, p, f, r)
          /\ p[Len(f)].kind # "render" => Frames(s, p, f, r, x)
          /\ p[Len(f)].kind \notin {"spawn", "create", "close", "replace"} => Views(s, p, f, r)
          /\ p[Len(f)].kind \notin {"navigate", "close"} => Ordered(p, f, r)
          /\ p[Len(f)].kind # "cancel" => Stopped(p, f, r)
      BY <1>1, Pushed
    <2>. QED BY <2>1 DEF Starting
  <1> HIDE DEF d
  <1>5. \A i \in 1 .. Len(p) : i # d => /\ i <= Len(f) <=> i <= Len(e)
                                        /\ i > Len(f) <=> i > Len(e)
                                        /\ i <= Len(f) => f[i] = e[i]
    BY <1>2
  <1>6. \A i \in 1 .. Len(p) : p[i].kind \in Starting => i = d
    BY <1>1, <1>2, <1>3 DEF Matched, Alike, Starting
  <1>7. \A i \in 1 .. Len(p) : p[i].kind # "spawn"
    BY <1>3, <1>6 DEF Starting
  <1>8. InSession(s, p, f, r)
    <2>1. \A i \in 1 .. Len(p) : p[i].kind = "attach" => i = d
      BY <1>6 DEF Starting
    <2>2. d <= Len(f) /\ ~(d > Len(f)) /\ After(p, "reset", d)
      BY <1>2 DEF d
    <2>3. ASSUME NEW i \in 1 .. Len(p), p[i].kind = "reset"
          PROVE  /\ i <= Len(f) => f[i].result # "refused"
                 /\ i <= Len(f) /\ f[i].result = "ok" =>
                       /\ r.attached
                       /\ \A j \in 1 .. Len(p) : p[j].kind \in Starting => j < i
                 /\ ~Renewed(f, i) => r.session + 1 = s.session
                 /\ Renewed(f, i) =>
                       /\ r.session = s.session
                       /\ r.tab = s.tab /\ r.generation = Gen(s)
                       /\ r.views = {s.tab}
      <3>1. i # d
        BY <1>3, <2>3
      <3>2. Renewed(f, i) <=> Renewed(e, i)
        BY <1>5, <3>1 DEF Renewed
      <3>3. /\ i <= Len(e) => e[i].result # "refused"
            /\ i <= Len(e) /\ e[i].result = "ok" =>
                  /\ r.attached
                  /\ \A j \in 1 .. Len(p) : p[j].kind \in Starting => j < i
            /\ ~Renewed(e, i) => r.session + 1 = s.session
            /\ Renewed(e, i) => /\ r.session = s.session
                                /\ r.tab = s.tab /\ r.generation = Gen(s)
                                /\ r.views = {s.tab}
        BY <1>1, <2>3 DEF InSession
      <3>. QED BY <1>5, <3>1, <3>2, <3>3
    <2>4. s.reset = 0 => r.session = s.session
      BY <1>1 DEF InSession
    <2>5. Has(p, "attach")
      BY <1>2, <1>3 DEF Has
    <2>. QED BY <1>7, <2>1, <2>2, <2>3, <2>4, <2>5 DEF InSession
  <1>. QED BY <1>1, <1>4, <1>8 DEF Sound, SoundButDrawn

\* The view to be created is not there.
LEMMA ViewIsNew ==
    ASSUME NEW s, NEW p, NEW e, NEW r, NEW x, Sound(s, p, e, r, x), NEW w, NEW f,
           Push(p, e, w, f), w \in Results(p[Len(f)].kind), p[Len(f)].kind = "create"
    PROVE  p[Len(f)].tab \notin r.views
  <1>1. /\ SoundShell(s) /\ s \in Shell /\ Strip(s) /\ Chrome(s) /\ Exclusive(s)
        /\ Pipes(p, e) /\ r \in Worker
        /\ Matched(s, p) /\ Alone(s, p, r) /\ Retiring(s, p, r) /\ Painted(s, x)
        /\ Local(s, p, r) /\ Owned(s, p, r) /\ Answered(s, p, e, r)
        /\ InSession(s, p, e, r) /\ Frames(s, p, e, r, x) /\ Views(s, p, e, r)
        /\ Ordered(p, e, r) /\ Stopped(p, e, r) /\ Drawn(s, p)
        /\ SoundButDrawn(s, p, e, r, x)
    BY DEF Sound, SoundButDrawn, SoundShell
  <1> DEFINE d == Len(f)
  <1>2. /\ Len(p) \in Nat /\ Len(e) \in Nat /\ Len(f) \in Nat
        /\ d = Len(e) + 1 /\ d \in 1 .. Len(p) /\ d \in 1 .. Len(f)
        /\ p[d] \in Command /\ f[d].result = w
        /\ d > Len(e) /\ ~(d <= Len(e)) /\ d <= Len(f)
        /\ \A i \in 1 .. Len(e) : i \in 1 .. Len(f) /\ f[i] = e[i] /\ i \in 1 .. Len(p) /\ i # d
        /\ \A i \in 1 .. Len(f) : \/ i \in 1 .. Len(e) /\ f[i] = e[i]
                                  \/ i = d
        /\ \A i \in 1 .. Len(p) :
              /\ i <= Len(f) <=> (i <= Len(e) \/ i = d)
              /\ i > Len(f) <=> (i > Len(e) /\ i # d)
              /\ i <= Len(e) => f[i] = e[i]
        /\ Pipes(p, f)
    BY <1>1, PushIs
  <1>3. p[d].kind = "create" /\ w \in Results(p[d].kind)
    OBVIOUS
  <1>4. /\ SoundShell(s) /\ Pipes(p, f) /\ r \in Worker
        /\ Matched(s, p) /\ Alone(s, p, r) /\ Retiring(s, p, r) /\ Painted(s, x)
        /\ Local(s, p, r) /\ Owned(s, p, r) /\ Answered(s, p, f, r)
        /\ InSession(s, p, f, r)
        /\ Frames(s, p, f, r, x)
        /\ Ordered(p, f, r)
        /\ Stopped(p, f, r)
    <2>1. /\ SoundShell(s) /\ Pipes(p, f) /\ r \in Worker
          /\ Matched(s, p) /\ Alone(s, p, r) /\ Retiring(s, p, r) /\ Painted(s, x)
          /\ Local(s, p, r) /\ Owned(s, p, r) /\ Answered(s, p, f, r)
          /\ p[Len(f)].kind \notin Starting \cup {"reset"} => InSession(s, p, f, r)
          /\ p[Len(f)].kind # "render" => Frames(s, p, f, r, x)
          /\ p[Len(f)].kind \notin {"spawn", "create", "close", "replace"} => Views(s, p, f, r)
          /\ p[Len(f)].kind \notin {"navigate", "close"} => Ordered(p, f, r)
          /\ p[Len(f)].kind # "cancel" => Stopped(p, f, r)
      BY <1>1, Pushed
    <2>. QED BY <2>1 DEF Starting
  <1> HIDE DEF d
  <1>5. \A i \in 1 .. Len(p) : i # d => /\ i <= Len(f) <=> i <= Len(e)
                                        /\ i > Len(f) <=> i > Len(e)
                                        /\ i <= Len(f) => f[i] = e[i]
    BY <1>2
  <1>6. s.reset = 0 /\ s.ready /\ s.init = 0
    <2>1. s.creating # NotCreating /\ p[d].tab = s.creating.tab
      BY <1>1, <1>2, <1>3, WaitedFor
    <2>. QED BY <1>1, <2>1 DEF Exclusive
  <1>7. \A i \in 1 .. Len(p) : p[i].kind # "spawn" /\ p[i].kind # "attach" /\ p[i].kind # "reset"
    BY <1>1, <1>6, WaitedFor DEF Starting
  <1>8. s.closing # NoTab => s.closing # p[d].tab
    BY <1>1, <1>2, <1>3, WaitedFor DEF Strip
  <1>9. \A i \in 1 .. Len(p) : p[i].kind = "create" => i = d
    BY <1>1, <1>2, <1>3 DEF Matched, Alike, Working
  <1>10. p[d].tab \in Tab /\ p[d].tab \notin s.materialized
    <2>1. p[d].tab \in Tab
      BY <1>2, <1>3, CommandIs
    <2>. QED BY <1>1, <1>2, <1>3, <2>1, WaitedFor DEF Strip
  <1>11. p[d].tab \notin r.views
    BY <1>1, <1>2, <1>6, <1>7, <1>9, <1>10 DEF Views
  <1>. QED BY <1>11 DEF d

\* The view is created.
LEMMA ViewOpened ==
    ASSUME NEW s, NEW p, NEW e, NEW r, NEW x, Sound(s, p, e, r, x), NEW w, NEW f,
           Push(p, e, w, f), w \in Results(p[Len(f)].kind), p[Len(f)].kind = "create",
           w = "ok",
           NEW r2 \in Worker,
           r2.session = r.session, r2.tab = r.tab, r2.generation = r.generation,
           r2.attached = r.attached, r2.pending = r.pending,
           r2.views = r.views \cup {p[Len(f)].tab}
    PROVE  Sound(s, p, f, r2, x)
  <1>1. /\ SoundShell(s) /\ s \in Shell /\ Strip(s) /\ Chrome(s) /\ Exclusive(s)
        /\ Pipes(p, e) /\ r \in Worker
        /\ Matched(s, p) /\ Alone(s, p, r) /\ Retiring(s, p, r) /\ Painted(s, x)
        /\ Local(s, p, r) /\ Owned(s, p, r) /\ Answered(s, p, e, r)
        /\ InSession(s, p, e, r) /\ Frames(s, p, e, r, x) /\ Views(s, p, e, r)
        /\ Ordered(p, e, r) /\ Stopped(p, e, r) /\ Drawn(s, p)
        /\ SoundButDrawn(s, p, e, r, x)
    BY DEF Sound, SoundButDrawn, SoundShell
  <1> DEFINE d == Len(f)
  <1>2. /\ Len(p) \in Nat /\ Len(e) \in Nat /\ Len(f) \in Nat
        /\ d = Len(e) + 1 /\ d \in 1 .. Len(p) /\ d \in 1 .. Len(f)
        /\ p[d] \in Command /\ f[d].result = w
        /\ d > Len(e) /\ ~(d <= Len(e)) /\ d <= Len(f)
        /\ \A i \in 1 .. Len(e) : i \in 1 .. Len(f) /\ f[i] = e[i] /\ i \in 1 .. Len(p) /\ i # d
        /\ \A i \in 1 .. Len(f) : \/ i \in 1 .. Len(e) /\ f[i] = e[i]
                                  \/ i = d
        /\ \A i \in 1 .. Len(p) :
              /\ i <= Len(f) <=> (i <= Len(e) \/ i = d)
              /\ i > Len(f) <=> (i > Len(e) /\ i # d)
              /\ i <= Len(e) => f[i] = e[i]
        /\ Pipes(p, f)
    BY <1>1, PushIs
  <1>3. p[d].kind = "create" /\ w \in Results(p[d].kind)
    OBVIOUS
  <1>4. /\ SoundShell(s) /\ Pipes(p, f) /\ r \in Worker
        /\ Matched(s, p) /\ Alone(s, p, r) /\ Retiring(s, p, r) /\ Painted(s, x)
        /\ Local(s, p, r) /\ Owned(s, p, r) /\ Answered(s, p, f, r)
        /\ InSession(s, p, f, r)
        /\ Frames(s, p, f, r, x)
        /\ Ordered(p, f, r)
        /\ Stopped(p, f, r)
    <2>1. /\ SoundShell(s) /\ Pipes(p, f) /\ r \in Worker
          /\ Matched(s, p) /\ Alone(s, p, r) /\ Retiring(s, p, r) /\ Painted(s, x)
          /\ Local(s, p, r) /\ Owned(s, p, r) /\ Answered(s, p, f, r)
          /\ p[Len(f)].kind \notin Starting \cup {"reset"} => InSession(s, p, f, r)
          /\ p[Len(f)].kind # "render" => Frames(s, p, f, r, x)
          /\ p[Len(f)].kind \notin {"spawn", "create", "close", "replace"} => Views(s, p, f, r)
          /\ p[Len(f)].kind \notin {"navigate", "close"} => Ordered(p, f, r)
          /\ p[Len(f)].kind # "cancel" => Stopped(p, f, r)
      BY <1>1, Pushed
    <2>. QED BY <2>1 DEF Starting
  <1> HIDE DEF d
  <1>5. \A i \in 1 .. Len(p) : i # d => /\ i <= Len(f) <=> i <= Len(e)
                                        /\ i > Len(f) <=> i > Len(e)
                                        /\ i <= Len(f) => f[i] = e[i]
    BY <1>2
  <1>6. s.reset = 0 /\ s.ready /\ s.init = 0
    <2>1. s.creating # NotCreating /\ p[d].tab = s.creating.tab
      BY <1>1, <1>2, <1>3, WaitedFor
    <2>. QED BY <1>1, <2>1 DEF Exclusive
  <1>7. \A i \in 1 .. Len(p) : p[i].kind # "spawn" /\ p[i].kind # "attach" /\ p[i].kind # "reset"
    BY <1>1, <1>6, WaitedFor DEF Starting
  <1>8. s.closing # NoTab => s.closing # p[d].tab
    BY <1>1, <1>2, <1>3, WaitedFor DEF Strip
  <1>9. \A i \in 1 .. Len(p) : p[i].kind = "create" => i = d
    BY <1>1, <1>2, <1>3 DEF Matched, Alike, Working
  <1>10. p[d].tab \in Tab /\ p[d].tab \notin s.materialized
    <2>1. p[d].tab \in Tab
      BY <1>2, <1>3, CommandIs
    <2>. QED BY <1>1, <1>2, <1>3, <2>1, WaitedFor DEF Strip
  <1>11. p[d].tab \notin r.views
    BY <1>1, <1>2, <1>6, <1>7, <1>9, <1>10 DEF Views
  <1>12. Alone(s, p, r2) /\ Retiring(s, p, r2) /\ Local(s, p, r2) /\ Owned(s, p, r2)
    BY <1>4 DEF Alone, Retiring, Local, Owned
  <1>13. Answered(s, p, f, r2) /\ Ordered(p, f, r2) /\ Stopped(p, f, r2)
    BY <1>4 DEF Answered, Carried, Ordered, Stopped
  <1>14. Frames(s, p, f, r2, x) /\ InSession(s, p, f, r2)
    BY <1>4, <1>7 DEF Frames, InSession, AsStarted
  <1>15. Views(s, p, f, r2)
    <2>1. /\ \A i \in 1 .. Len(f) : p[i].kind = "close" => i \in 1 .. Len(e)
          /\ \A i \in 1 .. Len(f) : i # d => i \in 1 .. Len(e) /\ f[i] = e[i]
          /\ \A i \in 1 .. Len(e) : p[i].kind # "create" /\ i \in 1 .. Len(f)
          /\ f[d].result # "refused"
      BY <1>2, <1>3, <1>9
    <2>2. \A i \in 1 .. Len(f) :
             p[i].kind \in {"create", "close", "replace"} => f[i].result # "refused"
      BY <1>1, <2>1 DEF Views
    <2>3. r2.views = r.views \cup {p[d].tab}
      BY DEF d
    <2>4. ASSUME NEW u \in Tab
          PROVE  u \in r.views <=> /\ u \in s.materialized
                                   /\ ~\E i \in 1 .. Len(e) : p[i].kind = "close" /\ p[i].tab = u
      BY <1>1, <1>6, <1>7, <2>1 DEF Views
    <2>5. ASSUME NEW u \in Tab
          PROVE  u \in r2.views <=>
                    \/ /\ u \in s.materialized
                       /\ ~\E i \in 1 .. Len(f) : p[i].kind = "close" /\ p[i].tab = u
                    \/ \E i \in 1 .. Len(f) :
                          p[i].kind = "create" /\ p[i].tab = u /\ f[i].result = "ok"
      BY <1>2, <1>3, <2>1, <2>3, <2>4
    <2>. QED BY <2>2, <2>5 DEF Views
  <1>. QED BY <1>1, <1>4, <1>12, <1>13, <1>14, <1>15 DEF Sound, SoundButDrawn

\* The view is not created.
LEMMA ViewFailed ==
    ASSUME NEW s, NEW p, NEW e, NEW r, NEW x, Sound(s, p, e, r, x), NEW w, NEW f,
           Push(p, e, w, f), w \in Results(p[Len(f)].kind), p[Len(f)].kind = "create",
           w = "failed"
    PROVE  Sound(s, p, f, r, x)
  <1>1. /\ SoundShell(s) /\ s \in Shell /\ Strip(s) /\ Chrome(s) /\ Exclusive(s)
        /\ Pipes(p, e) /\ r \in Worker
        /\ Matched(s, p) /\ Alone(s, p, r) /\ Retiring(s, p, r) /\ Painted(s, x)
        /\ Local(s, p, r) /\ Owned(s, p, r) /\ Answered(s, p, e, r)
        /\ InSession(s, p, e, r) /\ Frames(s, p, e, r, x) /\ Views(s, p, e, r)
        /\ Ordered(p, e, r) /\ Stopped(p, e, r) /\ Drawn(s, p)
        /\ SoundButDrawn(s, p, e, r, x)
    BY DEF Sound, SoundButDrawn, SoundShell
  <1> DEFINE d == Len(f)
  <1>2. /\ Len(p) \in Nat /\ Len(e) \in Nat /\ Len(f) \in Nat
        /\ d = Len(e) + 1 /\ d \in 1 .. Len(p) /\ d \in 1 .. Len(f)
        /\ p[d] \in Command /\ f[d].result = w
        /\ d > Len(e) /\ ~(d <= Len(e)) /\ d <= Len(f)
        /\ \A i \in 1 .. Len(e) : i \in 1 .. Len(f) /\ f[i] = e[i] /\ i \in 1 .. Len(p) /\ i # d
        /\ \A i \in 1 .. Len(f) : \/ i \in 1 .. Len(e) /\ f[i] = e[i]
                                  \/ i = d
        /\ \A i \in 1 .. Len(p) :
              /\ i <= Len(f) <=> (i <= Len(e) \/ i = d)
              /\ i > Len(f) <=> (i > Len(e) /\ i # d)
              /\ i <= Len(e) => f[i] = e[i]
        /\ Pipes(p, f)
    BY <1>1, PushIs
  <1>3. p[d].kind = "create" /\ w \in Results(p[d].kind)
    OBVIOUS
  <1>4. /\ SoundShell(s) /\ Pipes(p, f) /\ r \in Worker
        /\ Matched(s, p) /\ Alone(s, p, r) /\ Retiring(s, p, r) /\ Painted(s, x)
        /\ Local(s, p, r) /\ Owned(s, p, r) /\ Answered(s, p, f, r)
        /\ InSession(s, p, f, r)
        /\ Frames(s, p, f, r, x)
        /\ Ordered(p, f, r)
        /\ Stopped(p, f, r)
    <2>1. /\ SoundShell(s) /\ Pipes(p, f) /\ r \in Worker
          /\ Matched(s, p) /\ Alone(s, p, r) /\ Retiring(s, p, r) /\ Painted(s, x)
          /\ Local(s, p, r) /\ Owned(s, p, r) /\ Answered(s, p, f, r)
          /\ p[Len(f)].kind \notin Starting \cup {"reset"} => InSession(s, p, f, r)
          /\ p[Len(f)].kind # "render" => Frames(s, p, f, r, x)
          /\ p[Len(f)].kind \notin {"spawn", "create", "close", "replace"} => Views(s, p, f, r)
          /\ p[Len(f)].kind \notin {"navigate", "close"} => Ordered(p, f, r)
          /\ p[Len(f)].kind # "cancel" => Stopped(p, f, r)
      BY <1>1, Pushed
    <2>. QED BY <2>1 DEF Starting
  <1> HIDE DEF d
  <1>5. \A i \in 1 .. Len(p) : i # d => /\ i <= Len(f) <=> i <= Len(e)
                                        /\ i > Len(f) <=> i > Len(e)
                                        /\ i <= Len(f) => f[i] = e[i]
    BY <1>2
  <1>6. Views(s, p, f, r)
    <2>1. /\ \A i \in 1 .. Len(f) : p[i].kind = "close" => i \in 1 .. Len(e)
          /\ \A i \in 1 .. Len(f) : i # d => i \in 1 .. Len(e) /\ f[i] = e[i]
          /\ \A i \in 1 .. Len(e) : i \in 1 .. Len(f) /\ f[i] = e[i]
          /\ f[d].result # "refused"
      BY <1>2, <1>3
    <2>2. \A i \in 1 .. Len(f) :
             p[i].kind \in {"create", "close", "replace"} => f[i].result # "refused"
      BY <1>1, <2>1 DEF Views
    <2>3. \A i \in 1 .. Len(p) : p[i].kind = "spawn" /\ i > Len(e) => i > Len(f)
      BY <1>2, <1>3
    <2>4. ASSUME NEW u \in Tab
          PROVE  /\ (\E i \in 1 .. Len(f) : p[i].kind = "close" /\ p[i].tab = u)
                    <=> (\E i \in 1 .. Len(e) : p[i].kind = "close" /\ p[i].tab = u)
                 /\ (\E i \in 1 .. Len(f) :
                        p[i].kind = "create" /\ p[i].tab = u /\ f[i].result = "ok")
                    <=> (\E i \in 1 .. Len(e) :
                        p[i].kind = "create" /\ p[i].tab = u /\ e[i].result = "ok")
      BY <1>2, <2>1
    <2>. QED BY <1>1, <2>2, <2>3, <2>4 DEF Views
  <1>. QED BY <1>1, <1>4, <1>6 DEF Sound, SoundButDrawn

\* The view to be retired is there, and is not the one presented.
LEMMA ViewIsThere ==
    ASSUME NEW s, NEW p, NEW e, NEW r, NEW x, Sound(s, p, e, r, x), NEW w, NEW f,
           Push(p, e, w, f), w \in Results(p[Len(f)].kind), p[Len(f)].kind = "close"
    PROVE  p[Len(f)].tab # r.tab /\ p[Len(f)].tab \in r.views
  <1>1. /\ SoundShell(s) /\ s \in Shell /\ Strip(s) /\ Chrome(s) /\ Exclusive(s)
        /\ Pipes(p, e) /\ r \in Worker
        /\ Matched(s, p) /\ Alone(s, p, r) /\ Retiring(s, p, r) /\ Painted(s, x)
        /\ Local(s, p, r) /\ Owned(s, p, r) /\ Answered(s, p, e, r)
        /\ InSession(s, p, e, r) /\ Frames(s, p, e, r, x) /\ Views(s, p, e, r)
        /\ Ordered(p, e, r) /\ Stopped(p, e, r) /\ Drawn(s, p)
        /\ SoundButDrawn(s, p, e, r, x)
    BY DEF Sound, SoundButDrawn, SoundShell
  <1> DEFINE d == Len(f)
  <1>2. /\ Len(p) \in Nat /\ Len(e) \in Nat /\ Len(f) \in Nat
        /\ d = Len(e) + 1 /\ d \in 1 .. Len(p) /\ d \in 1 .. Len(f)
        /\ p[d] \in Command /\ f[d].result = w
        /\ d > Len(e) /\ ~(d <= Len(e)) /\ d <= Len(f)
        /\ \A i \in 1 .. Len(e) : i \in 1 .. Len(f) /\ f[i] = e[i] /\ i \in 1 .. Len(p) /\ i # d
        /\ \A i \in 1 .. Len(f) : \/ i \in 1 .. Len(e) /\ f[i] = e[i]
                                  \/ i = d
        /\ \A i \in 1 .. Len(p) :
              /\ i <= Len(f) <=> (i <= Len(e) \/ i = d)
              /\ i > Len(f) <=> (i > Len(e) /\ i # d)
              /\ i <= Len(e) => f[i] = e[i]
        /\ Pipes(p, f)
    BY <1>1, PushIs
  <1>3. p[d].kind = "close" /\ w \in Results(p[d].kind)
    OBVIOUS
  <1>4. /\ SoundShell(s) /\ Pipes(p, f) /\ r \in Worker
        /\ Matched(s, p) /\ Alone(s, p, r) /\ Retiring(s, p, r) /\ Painted(s, x)
        /\ Local(s, p, r) /\ Owned(s, p, r) /\ Answered(s, p, f, r)
        /\ InSession(s, p, f, r)
        /\ Frames(s, p, f, r, x)
        /\ Stopped(p, f, r)
    <2>1. /\ SoundShell(s) /\ Pipes(p, f) /\ r \in Worker
          /\ Matched(s, p) /\ Alone(s, p, r) /\ Retiring(s, p, r) /\ Painted(s, x)
          /\ Local(s, p, r) /\ Owned(s, p, r) /\ Answered(s, p, f, r)
          /\ p[Len(f)].kind \notin Starting \cup {"reset"} => InSession(s, p, f, r)
          /\ p[Len(f)].kind # "render" => Frames(s, p, f, r, x)
          /\ p[Len(f)].kind \notin {"spawn", "create", "close", "replace"} => Views(s, p, f, r)
          /\ p[Len(f)].kind \notin {"navigate", "close"} => Ordered(p, f, r)
          /\ p[Len(f)].kind # "cancel" => Stopped(p, f, r)
      BY <1>1, Pushed
    <2>. QED BY <2>1 DEF Starting
  <1> HIDE DEF d
  <1>5. \A i \in 1 .. Len(p) : i # d => /\ i <= Len(f) <=> i <= Len(e)
                                        /\ i > Len(f) <=> i > Len(e)
                                        /\ i <= Len(f) => f[i] = e[i]
    BY <1>2
  <1>6. s.reset = 0 /\ s.ready /\ s.init = 0
    <2>1. s.closing # NoTab /\ p[d].tab = s.closing
      BY <1>1, <1>2, <1>3, WaitedFor
    <2>. QED BY <1>1, <2>1 DEF Exclusive
  <1>7. \A i \in 1 .. Len(p) : p[i].kind # "spawn" /\ p[i].kind # "attach" /\ p[i].kind # "reset"
    BY <1>1, <1>6, WaitedFor DEF Starting
  <1>8. /\ p[d].tab = s.closing /\ s.closing \in Tab
        /\ s.closing \in s.materialized /\ s.closing \notin Range(s.tabs)
    <2>1. p[d].tab = s.closing /\ s.closing # NoTab /\ p[d].tab \in Tab
      BY <1>1, <1>2, <1>3, WaitedFor, CommandIs
    <2>. QED BY <1>1, <2>1 DEF Strip
  <1>9. \A i \in 1 .. Len(p) : p[i].kind = "close" => i = d
    BY <1>1, <1>2, <1>3 DEF Matched, Alike
  <1>10. r.tab # s.closing
    BY <1>1, <1>2, <1>3 DEF Retiring
  <1>11. s.closing \in r.views
    BY <1>1, <1>2, <1>6, <1>7, <1>8, <1>9 DEF Views
  <1>. QED BY <1>8, <1>10, <1>11 DEF d

\* The view is retired, and what it was loading forgotten.
LEMMA ViewRetired ==
    ASSUME NEW s, NEW p, NEW e, NEW r, NEW x, Sound(s, p, e, r, x), NEW w, NEW f,
           Push(p, e, w, f), w \in Results(p[Len(f)].kind), p[Len(f)].kind = "close",
           w # "refused",
           NEW r2 \in Worker,
           r2.session = r.session, r2.tab = r.tab, r2.generation = r.generation,
           r2.attached = r.attached,
           r2.views = r.views \ {p[Len(f)].tab},
           r2.pending = [r.pending EXCEPT ![p[Len(f)].tab] = NoTarget]
    PROVE  Sound(s, p, f, r2, x)
  <1>1. /\ SoundShell(s) /\ s \in Shell /\ Strip(s) /\ Chrome(s) /\ Exclusive(s)
        /\ Pipes(p, e) /\ r \in Worker
        /\ Matched(s, p) /\ Alone(s, p, r) /\ Retiring(s, p, r) /\ Painted(s, x)
        /\ Local(s, p, r) /\ Owned(s, p, r) /\ Answered(s, p, e, r)
        /\ InSession(s, p, e, r) /\ Frames(s, p, e, r, x) /\ Views(s, p, e, r)
        /\ Ordered(p, e, r) /\ Stopped(p, e, r) /\ Drawn(s, p)
        /\ SoundButDrawn(s, p, e, r, x)
    BY DEF Sound, SoundButDrawn, SoundShell
  <1> DEFINE d == Len(f)
  <1>2. /\ Len(p) \in Nat /\ Len(e) \in Nat /\ Len(f) \in Nat
        /\ d = Len(e) + 1 /\ d \in 1 .. Len(p) /\ d \in 1 .. Len(f)
        /\ p[d] \in Command /\ f[d].result = w
        /\ d > Len(e) /\ ~(d <= Len(e)) /\ d <= Len(f)
        /\ \A i \in 1 .. Len(e) : i \in 1 .. Len(f) /\ f[i] = e[i] /\ i \in 1 .. Len(p) /\ i # d
        /\ \A i \in 1 .. Len(f) : \/ i \in 1 .. Len(e) /\ f[i] = e[i]
                                  \/ i = d
        /\ \A i \in 1 .. Len(p) :
              /\ i <= Len(f) <=> (i <= Len(e) \/ i = d)
              /\ i > Len(f) <=> (i > Len(e) /\ i # d)
              /\ i <= Len(e) => f[i] = e[i]
        /\ Pipes(p, f)
    BY <1>1, PushIs
  <1>3. p[d].kind = "close" /\ w \in Results(p[d].kind)
    OBVIOUS
  <1>4. /\ SoundShell(s) /\ Pipes(p, f) /\ r \in Worker
        /\ Matched(s, p) /\ Alone(s, p, r) /\ Retiring(s, p, r) /\ Painted(s, x)
        /\ Local(s, p, r) /\ Owned(s, p, r) /\ Answered(s, p, f, r)
        /\ InSession(s, p, f, r)
        /\ Frames(s, p, f, r, x)
        /\ Stopped(p, f, r)
    <2>1. /\ SoundShell(s) /\ Pipes(p, f) /\ r \in Worker
          /\ Matched(s, p) /\ Alone(s, p, r) /\ Retiring(s, p, r) /\ Painted(s, x)
          /\ Local(s, p, r) /\ Owned(s, p, r) /\ Answered(s, p, f, r)
          /\ p[Len(f)].kind \notin Starting \cup {"reset"} => InSession(s, p, f, r)
          /\ p[Len(f)].kind # "render" => Frames(s, p, f, r, x)
          /\ p[Len(f)].kind \notin {"spawn", "create", "close", "replace"} => Views(s, p, f, r)
          /\ p[Len(f)].kind \notin {"navigate", "close"} => Ordered(p, f, r)
          /\ p[Len(f)].kind # "cancel" => Stopped(p, f, r)
      BY <1>1, Pushed
    <2>. QED BY <2>1 DEF Starting
  <1> HIDE DEF d
  <1>5. \A i \in 1 .. Len(p) : i # d => /\ i <= Len(f) <=> i <= Len(e)
                                        /\ i > Len(f) <=> i > Len(e)
                                        /\ i <= Len(f) => f[i] = e[i]
    BY <1>2
  <1>6. s.reset = 0 /\ s.ready /\ s.init = 0
    <2>1. s.closing # NoTab /\ p[d].tab = s.closing
      BY <1>1, <1>2, <1>3, WaitedFor
    <2>. QED BY <1>1, <2>1 DEF Exclusive
  <1>7. \A i \in 1 .. Len(p) : p[i].kind # "spawn" /\ p[i].kind # "attach" /\ p[i].kind # "reset"
    BY <1>1, <1>6, WaitedFor DEF Starting
  <1>8. /\ p[d].tab = s.closing /\ s.closing \in Tab
        /\ s.closing \in s.materialized /\ s.closing \notin Range(s.tabs)
    <2>1. p[d].tab = s.closing /\ s.closing # NoTab /\ p[d].tab \in Tab
      BY <1>1, <1>2, <1>3, WaitedFor, CommandIs
    <2>. QED BY <1>1, <2>1 DEF Strip
  <1>9. \A i \in 1 .. Len(p) : p[i].kind = "close" => i = d
    BY <1>1, <1>2, <1>3 DEF Matched, Alike
  <1>10. r2.views = r.views \ {s.closing}
    BY <1>8 DEF d
  <1>11. /\ r2.pending[s.closing] = NoTarget
         /\ \A u \in Tab : u # s.closing => r2.pending[u] = r.pending[u]
         /\ \A u \in Tab : r2.pending[u] # NoTarget => r2.pending[u] = r.pending[u] /\ u # s.closing
    <2>1. r2.pending = [r.pending EXCEPT ![s.closing] = NoTarget]
      BY <1>8 DEF d
    <2>2. r.pending \in [Tab -> Target \cup {NoTarget}]
      BY <1>1 DEF Worker
    <2>. QED BY <1>8, <2>1, <2>2
  <1>12. Alone(s, p, r2) /\ Retiring(s, p, r2) /\ Local(s, p, r2) /\ Owned(s, p, r2)
    BY <1>4, <1>6, <1>11 DEF Alone, Retiring, Local, Owned
  <1>13. Answered(s, p, f, r2)
    <2>1. \A u \in Range(s.tabs) : u \in Tab /\ u # s.closing
      BY <1>1, <1>8, TabsAre
    <2>2. ASSUME NEW u \in Range(s.tabs), s.targets[u] # NoTarget, Carried(p, f, r, s.targets[u])
          PROVE  Carried(p, f, r2, s.targets[u])
      <3>1. s.targets[u].tab = u
        BY <1>1, <2>1, <2>2 DEF Owned
      <3>. QED BY <1>11, <2>1, <2>2, <3>1 DEF Carried
    <2>. QED BY <1>4, <1>11, <2>1, <2>2 DEF Answered
  <1>14. Frames(s, p, f, r2, x) /\ InSession(s, p, f, r2)
    BY <1>4, <1>7 DEF Frames, InSession
  <1>15. Ordered(p, f, r2)
    <2>1. \A i \in 1 .. Len(p), u \in Tab : NavigatesTab(p[i], u) => i # d
      BY <1>3 DEF NavigatesTab
    <2>2. \A i \in 1 .. Len(p), u \in Tab :
              NavigatesTab(p[i], u) /\ r2.pending[u] # NoTarget =>
              IF i <= Len(f) THEN p[i].target.navigation < r2.pending[u].navigation
                             ELSE p[i].target.navigation > r2.pending[u].navigation
      BY <1>1, <1>5, <1>11, <2>1 DEF Ordered
    <2>3. /\ \A i \in 1 .. Len(f) : p[i].kind = "navigate" => i \in 1 .. Len(e) /\ f[i] = e[i]
          /\ \A i \in 1 .. Len(f) : p[i].kind = "close" => i = d
      BY <1>2, <1>3, <1>9
    <2>4. \A i \in 1 .. Len(f) : p[i].kind = "navigate" => f[i].result # "refused"
      BY <1>1, <2>3 DEF Ordered
    <2>5. \A u \in Tab : r2.pending[u] # NoTarget =>
                \A i \in 1 .. Len(f) : ~(p[i].kind = "close" /\ p[i].tab = u)
      BY <1>8, <1>11, <2>3
    <2>. QED BY <1>1, <2>2, <2>4, <2>5 DEF Ordered
  <1>16. Stopped(p, f, r2)
    <2>1. \A i \in 1 .. Len(f) : p[i].kind = "cancel" => p[i].target \in Target
      <3>1. \A i \in 1 .. Len(f) : p[i] \in Command
        BY <1>2 DEF Pipes
      <3>. QED BY <3>1, CommandIs
    <2>2. \A target \in Target : target.tab \in Tab /\ target # NoTarget
      BY DEF Target, NoTarget, Tab, NoTab
    <2>. QED BY <1>4, <1>11, <2>1, <2>2 DEF Stopped
  <1>17. Views(s, p, f, r2)
    <2>1. /\ \A i \in 1 .. Len(f) : p[i].kind = "create" => i \in 1 .. Len(e) /\ f[i] = e[i]
          /\ \A i \in 1 .. Len(f) : i # d => i \in 1 .. Len(e) /\ f[i] = e[i]
          /\ \A i \in 1 .. Len(e) : p[i].kind # "close" /\ i \in 1 .. Len(f) /\ f[i] = e[i]
          /\ f[d].result # "refused"
      BY <1>2, <1>3, <1>9
    <2>2. \A i \in 1 .. Len(f) :
             p[i].kind \in {"create", "close", "replace"} => f[i].result # "refused"
      BY <1>1, <2>1 DEF Views
    <2>3. ASSUME NEW u \in Tab
          PROVE  u \in r.views <=> \/ u \in s.materialized
                                   \/ \E i \in 1 .. Len(e) :
                                         p[i].kind = "create" /\ p[i].tab = u /\ e[i].result = "ok"
      BY <1>1, <1>6, <1>7, <2>1 DEF Views
    <2>4. (\E i \in 1 .. Len(p) : p[i].kind = "create") => s.creating # NotCreating
      BY <1>1, WaitedFor
    <2>5. \A i \in 1 .. Len(e) : p[i].kind = "create" => p[i].tab # s.closing
      <3>1. \A i \in 1 .. Len(e) : p[i].kind = "create" => s.creating # NotCreating /\ p[i].tab = s.creating.tab
        BY <1>1, <1>2, WaitedFor
      <3>. QED BY <1>1, <1>8, <3>1 DEF Strip
    <2>6. \A i \in 1 .. Len(f) : p[i].kind = "close" <=> i = d
      BY <1>2, <1>3, <2>1
    <2>7. ASSUME NEW u \in Tab, u # s.closing
          PROVE  u \in r2.views <=>
                    \/ /\ u \in s.materialized
                       /\ ~\E i \in 1 .. Len(f) : p[i].kind = "close" /\ p[i].tab = u
                    \/ \E i \in 1 .. Len(f) :
                          p[i].kind = "create" /\ p[i].tab = u /\ f[i].result = "ok"
      BY <1>2, <1>8, <1>10, <2>1, <2>3, <2>6, <2>7
    <2>8. /\ s.closing \notin r2.views
          /\ \E i \in 1 .. Len(f) : p[i].kind = "close" /\ p[i].tab = s.closing
          /\ ~\E i \in 1 .. Len(f) :
                 p[i].kind = "create" /\ p[i].tab = s.closing /\ f[i].result = "ok"
      BY <1>2, <1>3, <1>8, <1>10, <2>1, <2>5
    <2>. QED BY <2>2, <2>7, <2>8 DEF Views
  <1>. QED BY <1>1, <1>4, <1>12, <1>13, <1>14, <1>15, <1>16, <1>17 DEF Sound, SoundButDrawn

\* The worker accepts the permit of a frame.
LEMMA FrameIsDue ==
    ASSUME NEW s, NEW p, NEW e, NEW r, NEW x, Sound(s, p, e, r, x), NEW w, NEW f,
           Push(p, e, w, f), w \in Results(p[Len(f)].kind), p[Len(f)].kind = "render"
    PROVE  LET permit == p[Len(f)].permit
           IN  /\ permit.generation = r.generation => permit.tab = r.tab
               /\ permit.generation # r.generation =>
                     /\ ForTarget(permit) /\ permit.generation > r.generation
                     /\ permit.tab \in r.views
  <1>1. /\ SoundShell(s) /\ s \in Shell /\ Strip(s) /\ Chrome(s) /\ Exclusive(s)
        /\ Pipes(p, e) /\ r \in Worker
        /\ Matched(s, p) /\ Alone(s, p, r) /\ Retiring(s, p, r) /\ Painted(s, x)
        /\ Local(s, p, r) /\ Owned(s, p, r) /\ Answered(s, p, e, r)
        /\ InSession(s, p, e, r) /\ Frames(s, p, e, r, x) /\ Views(s, p, e, r)
        /\ Ordered(p, e, r) /\ Stopped(p, e, r) /\ Drawn(s, p)
        /\ SoundButDrawn(s, p, e, r, x)
    BY DEF Sound, SoundButDrawn, SoundShell
  <1> DEFINE d == Len(f)
  <1>2. /\ Len(p) \in Nat /\ Len(e) \in Nat /\ Len(f) \in Nat
        /\ d = Len(e) + 1 /\ d \in 1 .. Len(p) /\ d \in 1 .. Len(f)
        /\ p[d] \in Command /\ f[d].result = w
        /\ d > Len(e) /\ ~(d <= Len(e)) /\ d <= Len(f)
        /\ \A i \in 1 .. Len(e) : i \in 1 .. Len(f) /\ f[i] = e[i] /\ i \in 1 .. Len(p) /\ i # d
        /\ \A i \in 1 .. Len(f) : \/ i \in 1 .. Len(e) /\ f[i] = e[i]
                                  \/ i = d
        /\ \A i \in 1 .. Len(p) :
              /\ i <= Len(f) <=> (i <= Len(e) \/ i = d)
              /\ i > Len(f) <=> (i > Len(e) /\ i # d)
              /\ i <= Len(e) => f[i] = e[i]
        /\ Pipes(p, f)
    BY <1>1, PushIs
  <1>3. p[d].kind = "render" /\ w \in Results(p[d].kind)
    OBVIOUS
  <1>4. /\ SoundShell(s) /\ Pipes(p, f) /\ r \in Worker
        /\ Matched(s, p) /\ Alone(s, p, r) /\ Retiring(s, p, r) /\ Painted(s, x)
        /\ Local(s, p, r) /\ Owned(s, p, r) /\ Answered(s, p, f, r)
        /\ InSession(s, p, f, r)
        /\ Views(s, p, f, r)
        /\ Ordered(p, f, r)
        /\ Stopped(p, f, r)
    <2>1. /\ SoundShell(s) /\ Pipes(p, f) /\ r \in Worker
          /\ Matched(s, p) /\ Alone(s, p, r) /\ Retiring(s, p, r) /\ Painted(s, x)
          /\ Local(s, p, r) /\ Owned(s, p, r) /\ Answered(s, p, f, r)
          /\ p[Len(f)].kind \notin Starting \cup {"reset"} => InSession(s, p, f, r)
          /\ p[Len(f)].kind # "render" => Frames(s, p, f, r, x)
          /\ p[Len(f)].kind \notin {"spawn", "create", "close", "replace"} => Views(s, p, f, r)
          /\ p[Len(f)].kind \notin {"navigate", "close"} => Ordered(p, f, r)
          /\ p[Len(f)].kind # "cancel" => Stopped(p, f, r)
      BY <1>1, Pushed
    <2>. QED BY <2>1 DEF Starting
  <1> HIDE DEF d
  <1>5. \A i \in 1 .. Len(p) : i # d => /\ i <= Len(f) <=> i <= Len(e)
                                        /\ i > Len(f) <=> i > Len(e)
                                        /\ i <= Len(f) => f[i] = e[i]
    BY <1>2
  <1>6. s.reset = 0 /\ s.ready /\ s.init = 0
    <2>1. s.frame # 0
      BY <1>1, <1>2, <1>3, WaitedFor
    <2>. QED BY <1>1, <2>1 DEF Exclusive
  <1>7. \A i \in 1 .. Len(p) : p[i].kind # "spawn" /\ p[i].kind # "attach" /\ p[i].kind # "reset"
    BY <1>1, <1>6, WaitedFor DEF Starting
  <1>8. /\ s.surface = 0 /\ s.frame # 0 /\ s.creating = NotCreating
        /\ \A i \in 1 .. Len(p) : p[i].kind = "render" => i = d
    <2>1. s.frame # 0
      BY <1>1, <1>2, <1>3, WaitedFor
    <2>. QED BY <1>1, <1>2, <1>3, <2>1 DEF Matched, Alike, Working, Exclusive
  <1> DEFINE permit == p[d].permit
  <1>9. /\ Fits(s, permit) /\ permit \in Permit
        /\ permit.generation = r.generation => permit.tab = r.tab
        /\ permit.generation # r.generation =>
              ForTarget(permit) /\ permit.generation > r.generation
    BY <1>1, <1>2, <1>3, CommandIs DEF Frames
  <1> HIDE DEF permit
  <1>10. permit.tab \in r.views
    <2>1. permit.tab \in s.materialized /\ permit.tab \in Tab
      BY <1>9 DEF Fits, Permit
    <2>2. ASSUME NEW i \in 1 .. Len(e), p[i].kind = "close" PROVE p[i].tab # permit.tab
      <3>1. i \in 1 .. Len(p) /\ permit.tab \in Range(s.tabs)
        BY <1>1, <1>2, <1>3, <2>2 DEF Retiring, permit
      <3>2. p[i].tab = s.closing /\ s.closing # NoTab
        BY <1>1, <2>2, <3>1, WaitedFor
      <3>. QED BY <1>1, <3>1, <3>2 DEF Strip
    <2>. QED BY <1>1, <1>6, <1>7, <2>1, <2>2 DEF Views
  <1>. QED BY <1>9, <1>10 DEF d, permit

\* The view is presented, and perhaps its frame.
LEMMA FrameDrawn ==
    ASSUME NEW s, NEW p, NEW e, NEW r, NEW x, Sound(s, p, e, r, x), NEW w, NEW f,
           Push(p, e, w, f), w \in Results(p[Len(f)].kind), p[Len(f)].kind = "render",
           w # "refused",
           NEW r2 \in Worker,
           r2.session = r.session, r2.attached = r.attached, r2.views = r.views,
           r2.pending = r.pending,
           r2.tab = p[Len(f)].permit.tab,
           r2.generation = p[Len(f)].permit.generation,
           NEW y,
           y = IF w = "ok" THEN [session |-> r.session, tab |-> p[Len(f)].permit.tab] ELSE x
    PROVE  Sound(s, p, f, r2, y)
  <1>1. /\ SoundShell(s) /\ s \in Shell /\ Strip(s) /\ Chrome(s) /\ Exclusive(s)
        /\ Pipes(p, e) /\ r \in Worker
        /\ Matched(s, p) /\ Alone(s, p, r) /\ Retiring(s, p, r) /\ Painted(s, x)
        /\ Local(s, p, r) /\ Owned(s, p, r) /\ Answered(s, p, e, r)
        /\ InSession(s, p, e, r) /\ Frames(s, p, e, r, x) /\ Views(s, p, e, r)
        /\ Ordered(p, e, r) /\ Stopped(p, e, r) /\ Drawn(s, p)
        /\ SoundButDrawn(s, p, e, r, x)
    BY DEF Sound, SoundButDrawn, SoundShell
  <1> DEFINE d == Len(f)
  <1>2. /\ Len(p) \in Nat /\ Len(e) \in Nat /\ Len(f) \in Nat
        /\ d = Len(e) + 1 /\ d \in 1 .. Len(p) /\ d \in 1 .. Len(f)
        /\ p[d] \in Command /\ f[d].result = w
        /\ d > Len(e) /\ ~(d <= Len(e)) /\ d <= Len(f)
        /\ \A i \in 1 .. Len(e) : i \in 1 .. Len(f) /\ f[i] = e[i] /\ i \in 1 .. Len(p) /\ i # d
        /\ \A i \in 1 .. Len(f) : \/ i \in 1 .. Len(e) /\ f[i] = e[i]
                                  \/ i = d
        /\ \A i \in 1 .. Len(p) :
              /\ i <= Len(f) <=> (i <= Len(e) \/ i = d)
              /\ i > Len(f) <=> (i > Len(e) /\ i # d)
              /\ i <= Len(e) => f[i] = e[i]
        /\ Pipes(p, f)
    BY <1>1, PushIs
  <1>3. p[d].kind = "render" /\ w \in Results(p[d].kind)
    OBVIOUS
  <1>4. /\ SoundShell(s) /\ Pipes(p, f) /\ r \in Worker
        /\ Matched(s, p) /\ Alone(s, p, r) /\ Retiring(s, p, r) /\ Painted(s, x)
        /\ Local(s, p, r) /\ Owned(s, p, r) /\ Answered(s, p, f, r)
        /\ InSession(s, p, f, r)
        /\ Views(s, p, f, r)
        /\ Ordered(p, f, r)
        /\ Stopped(p, f, r)
    <2>1. /\ SoundShell(s) /\ Pipes(p, f) /\ r \in Worker
          /\ Matched(s, p) /\ Alone(s, p, r) /\ Retiring(s, p, r) /\ Painted(s, x)
          /\ Local(s, p, r) /\ Owned(s, p, r) /\ Answered(s, p, f, r)
          /\ p[Len(f)].kind \notin Starting \cup {"reset"} => InSession(s, p, f, r)
          /\ p[Len(f)].kind # "render" => Frames(s, p, f, r, x)
          /\ p[Len(f)].kind \notin {"spawn", "create", "close", "replace"} => Views(s, p, f, r)
          /\ p[Len(f)].kind \notin {"navigate", "close"} => Ordered(p, f, r)
          /\ p[Len(f)].kind # "cancel" => Stopped(p, f, r)
      BY <1>1, Pushed
    <2>. QED BY <2>1 DEF Starting
  <1> HIDE DEF d
  <1>5. \A i \in 1 .. Len(p) : i # d => /\ i <= Len(f) <=> i <= Len(e)
                                        /\ i > Len(f) <=> i > Len(e)
                                        /\ i <= Len(f) => f[i] = e[i]
    BY <1>2
  <1>6. s.reset = 0 /\ s.ready /\ s.init = 0
    <2>1. s.frame # 0
      BY <1>1, <1>2, <1>3, WaitedFor
    <2>. QED BY <1>1, <2>1 DEF Exclusive
  <1>7. \A i \in 1 .. Len(p) : p[i].kind # "spawn" /\ p[i].kind # "attach" /\ p[i].kind # "reset"
    BY <1>1, <1>6, WaitedFor DEF Starting
  <1>8. /\ s.surface = 0 /\ s.frame # 0 /\ s.creating = NotCreating
        /\ \A i \in 1 .. Len(p) : p[i].kind = "render" => i = d
    <2>1. s.frame # 0
      BY <1>1, <1>2, <1>3, WaitedFor
    <2>. QED BY <1>1, <1>2, <1>3, <2>1 DEF Matched, Alike, Working, Exclusive
  <1> DEFINE permit == p[d].permit
  <1>9. /\ Fits(s, permit) /\ permit \in Permit
        /\ permit.generation = r.generation => permit.tab = r.tab
        /\ permit.generation # r.generation =>
              ForTarget(permit) /\ permit.generation > r.generation
    BY <1>1, <1>2, <1>3, CommandIs DEF Frames
  <1> HIDE DEF permit
  <1>10. /\ r2.tab = permit.tab /\ r2.generation = permit.generation
         /\ y = IF w = "ok" THEN [session |-> r.session, tab |-> permit.tab] ELSE x
    BY DEF d, permit
  <1>11. r.session = s.session
    BY <1>1, <1>6 DEF InSession
  <1>12. /\ ~Switching(s) => permit.generation = Gen(s) /\ permit.tab = s.active
         /\ permit.generation = Gen(s) => permit.tab = s.active
         /\ permit.generation <= Gen(s)
    BY <1>9 DEF Fits
  <1>13. Frames(s, p, f, r2, y)
    <2>1. /\ f[d].result # "refused" /\ d <= Len(f) /\ ~(d > Len(f))
          /\ f[d].result = "ok" => y = [session |-> s.session, tab |-> permit.tab]
      BY <1>2, <1>10, <1>11
    <2>2. \A i \in 1 .. Len(p) : p[i].kind = "render" => p[i].permit = permit /\ i = d
      BY <1>8 DEF permit
    <2>. QED BY <1>6, <1>8, <1>9, <1>10, <1>12, <2>1, <2>2 DEF Frames
  <1>14. Alone(s, p, r2) /\ Local(s, p, r2) /\ Owned(s, p, r2) /\ Views(s, p, f, r2)
    BY <1>4, <1>6 DEF Alone, Local, Owned, Views
  <1>15. Answered(s, p, f, r2) /\ Ordered(p, f, r2) /\ Stopped(p, f, r2)
    BY <1>4 DEF Answered, Carried, Ordered, Stopped
  <1>16. InSession(s, p, f, r2)
    BY <1>4, <1>6, <1>7 DEF InSession
  <1>17. Retiring(s, p, r2)
    <2>1. ASSUME NEW i \in 1 .. Len(p), p[i].kind = "close" PROVE permit.tab # s.closing
      <3>1. permit.tab \in Range(s.tabs)
        BY <1>1, <1>2, <1>3, <2>1 DEF Retiring, permit
      <3>2. s.closing # NoTab
        BY <1>1, <2>1, WaitedFor
      <3>. QED BY <1>1, <3>1, <3>2 DEF Strip
    <2>. QED BY <1>4, <1>10, <2>1 DEF Retiring
  <1>18. Painted(s, y)
    <2>1. s.visible => ~Switching(s)
      BY <1>1 DEF Chrome
    <2>. QED BY <1>4, <1>10, <1>11, <1>12, <2>1 DEF Painted, Seen
  <1>. QED BY <1>1, <1>4, <1>13, <1>14, <1>15, <1>16, <1>17, <1>18 DEF Sound, SoundButDrawn

\* The surface to be replaced is that of the view presented.
LEMMA SurfaceIsThere ==
    ASSUME NEW s, NEW p, NEW e, NEW r, NEW x, Sound(s, p, e, r, x), NEW w, NEW f,
           Push(p, e, w, f), w \in Results(p[Len(f)].kind), p[Len(f)].kind = "replace"
    PROVE  p[Len(f)].tab = r.tab
  <1>1. /\ SoundShell(s) /\ s \in Shell /\ Strip(s) /\ Chrome(s) /\ Exclusive(s)
        /\ Pipes(p, e) /\ r \in Worker
        /\ Matched(s, p) /\ Alone(s, p, r) /\ Retiring(s, p, r) /\ Painted(s, x)
        /\ Local(s, p, r) /\ Owned(s, p, r) /\ Answered(s, p, e, r)
        /\ InSession(s, p, e, r) /\ Frames(s, p, e, r, x) /\ Views(s, p, e, r)
        /\ Ordered(p, e, r) /\ Stopped(p, e, r) /\ Drawn(s, p)
        /\ SoundButDrawn(s, p, e, r, x)
    BY DEF Sound, SoundButDrawn, SoundShell
  <1> DEFINE d == Len(f)
  <1>2. /\ Len(p) \in Nat /\ Len(e) \in Nat /\ Len(f) \in Nat
        /\ d = Len(e) + 1 /\ d \in 1 .. Len(p) /\ d \in 1 .. Len(f)
        /\ p[d] \in Command /\ f[d].result = w
        /\ d > Len(e) /\ ~(d <= Len(e)) /\ d <= Len(f)
        /\ \A i \in 1 .. Len(e) : i \in 1 .. Len(f) /\ f[i] = e[i] /\ i \in 1 .. Len(p) /\ i # d
        /\ \A i \in 1 .. Len(f) : \/ i \in 1 .. Len(e) /\ f[i] = e[i]
                                  \/ i = d
        /\ \A i \in 1 .. Len(p) :
              /\ i <= Len(f) <=> (i <= Len(e) \/ i = d)
              /\ i > Len(f) <=> (i > Len(e) /\ i # d)
              /\ i <= Len(e) => f[i] = e[i]
        /\ Pipes(p, f)
    BY <1>1, PushIs
  <1>3. p[d].kind = "replace" /\ w \in Results(p[d].kind)
    OBVIOUS
  <1>4. /\ SoundShell(s) /\ Pipes(p, f) /\ r \in Worker
        /\ Matched(s, p) /\ Alone(s, p, r) /\ Retiring(s, p, r) /\ Painted(s, x)
        /\ Local(s, p, r) /\ Owned(s, p, r) /\ Answered(s, p, f, r)
        /\ InSession(s, p, f, r)
        /\ Frames(s, p, f, r, x)
        /\ Ordered(p, f, r)
        /\ Stopped(p, f, r)
    <2>1. /\ SoundShell(s) /\ Pipes(p, f) /\ r \in Worker
          /\ Matched(s, p) /\ Alone(s, p, r) /\ Retiring(s, p, r) /\ Painted(s, x)
          /\ Local(s, p, r) /\ Owned(s, p, r) /\ Answered(s, p, f, r)
          /\ p[Len(f)].kind \notin Starting \cup {"reset"} => InSession(s, p, f, r)
          /\ p[Len(f)].kind # "render" => Frames(s, p, f, r, x)
          /\ p[Len(f)].kind \notin {"spawn", "create", "close", "replace"} => Views(s, p, f, r)
          /\ p[Len(f)].kind \notin {"navigate", "close"} => Ordered(p, f, r)
          /\ p[Len(f)].kind # "cancel" => Stopped(p, f, r)
      BY <1>1, Pushed
    <2>. QED BY <2>1 DEF Starting
  <1> HIDE DEF d
  <1>5. \A i \in 1 .. Len(p) : i # d => /\ i <= Len(f) <=> i <= Len(e)
                                        /\ i > Len(f) <=> i > Len(e)
                                        /\ i <= Len(f) => f[i] = e[i]
    BY <1>2
  <1>6. s.reset = 0 /\ s.ready /\ s.init = 0
    <2>1. s.surface # 0
      BY <1>1, <1>2, <1>3, WaitedFor
    <2>. QED BY <1>1, <2>1 DEF Exclusive
  <1>7. \A i \in 1 .. Len(p) : p[i].kind # "spawn" /\ p[i].kind # "attach" /\ p[i].kind # "reset"
    BY <1>1, <1>6, WaitedFor DEF Starting
  <1>8. p[d].tab = s.recovery.tab /\ s.surface # 0
    BY <1>1, <1>2, <1>3, WaitedFor
  <1>9. p[d].tab = r.tab
    BY <1>1, <1>8 DEF Frames
  <1>. QED BY <1>9 DEF d

\* The surface is replaced.
LEMMA SurfaceChanged ==
    ASSUME NEW s, NEW p, NEW e, NEW r, NEW x, Sound(s, p, e, r, x), NEW w, NEW f,
           Push(p, e, w, f), w \in Results(p[Len(f)].kind), p[Len(f)].kind = "replace",
           w # "refused"
    PROVE  Sound(s, p, f, r, x)
  <1>1. /\ SoundShell(s) /\ s \in Shell /\ Strip(s) /\ Chrome(s) /\ Exclusive(s)
        /\ Pipes(p, e) /\ r \in Worker
        /\ Matched(s, p) /\ Alone(s, p, r) /\ Retiring(s, p, r) /\ Painted(s, x)
        /\ Local(s, p, r) /\ Owned(s, p, r) /\ Answered(s, p, e, r)
        /\ InSession(s, p, e, r) /\ Frames(s, p, e, r, x) /\ Views(s, p, e, r)
        /\ Ordered(p, e, r) /\ Stopped(p, e, r) /\ Drawn(s, p)
        /\ SoundButDrawn(s, p, e, r, x)
    BY DEF Sound, SoundButDrawn, SoundShell
  <1> DEFINE d == Len(f)
  <1>2. /\ Len(p) \in Nat /\ Len(e) \in Nat /\ Len(f) \in Nat
        /\ d = Len(e) + 1 /\ d \in 1 .. Len(p) /\ d \in 1 .. Len(f)
        /\ p[d] \in Command /\ f[d].result = w
        /\ d > Len(e) /\ ~(d <= Len(e)) /\ d <= Len(f)
        /\ \A i \in 1 .. Len(e) : i \in 1 .. Len(f) /\ f[i] = e[i] /\ i \in 1 .. Len(p) /\ i # d
        /\ \A i \in 1 .. Len(f) : \/ i \in 1 .. Len(e) /\ f[i] = e[i]
                                  \/ i = d
        /\ \A i \in 1 .. Len(p) :
              /\ i <= Len(f) <=> (i <= Len(e) \/ i = d)
              /\ i > Len(f) <=> (i > Len(e) /\ i # d)
              /\ i <= Len(e) => f[i] = e[i]
        /\ Pipes(p, f)
    BY <1>1, PushIs
  <1>3. p[d].kind = "replace" /\ w \in Results(p[d].kind)
    OBVIOUS
  <1>4. /\ SoundShell(s) /\ Pipes(p, f) /\ r \in Worker
        /\ Matched(s, p) /\ Alone(s, p, r) /\ Retiring(s, p, r) /\ Painted(s, x)
        /\ Local(s, p, r) /\ Owned(s, p, r) /\ Answered(s, p, f, r)
        /\ InSession(s, p, f, r)
        /\ Frames(s, p, f, r, x)
        /\ Ordered(p, f, r)
        /\ Stopped(p, f, r)
    <2>1. /\ SoundShell(s) /\ Pipes(p, f) /\ r \in Worker
          /\ Matched(s, p) /\ Alone(s, p, r) /\ Retiring(s, p, r) /\ Painted(s, x)
          /\ Local(s, p, r) /\ Owned(s, p, r) /\ Answered(s, p, f, r)
          /\ p[Len(f)].kind \notin Starting \cup {"reset"} => InSession(s, p, f, r)
          /\ p[Len(f)].kind # "render" => Frames(s, p, f, r, x)
          /\ p[Len(f)].kind \notin {"spawn", "create", "close", "replace"} => Views(s, p, f, r)
          /\ p[Len(f)].kind \notin {"navigate", "close"} => Ordered(p, f, r)
          /\ p[Len(f)].kind # "cancel" => Stopped(p, f, r)
      BY <1>1, Pushed
    <2>. QED BY <2>1 DEF Starting
  <1> HIDE DEF d
  <1>5. \A i \in 1 .. Len(p) : i # d => /\ i <= Len(f) <=> i <= Len(e)
                                        /\ i > Len(f) <=> i > Len(e)
                                        /\ i <= Len(f) => f[i] = e[i]
    BY <1>2
  <1>6. Views(s, p, f, r)
    <2>1. /\ \A i \in 1 .. Len(f) : i # d => i \in 1 .. Len(e) /\ f[i] = e[i]
          /\ \A i \in 1 .. Len(e) : i \in 1 .. Len(f) /\ f[i] = e[i]
          /\ f[d].result # "refused"
      BY <1>2
    <2>2. \A i \in 1 .. Len(f) :
             p[i].kind \in {"create", "close", "replace"} => f[i].result # "refused"
      BY <1>1, <2>1 DEF Views
    <2>3. \A i \in 1 .. Len(p) : p[i].kind = "spawn" /\ i > Len(e) => i > Len(f)
      BY <1>2, <1>3
    <2>4. ASSUME NEW u \in Tab
          PROVE  /\ (\E i \in 1 .. Len(f) : p[i].kind = "close" /\ p[i].tab = u)
                    <=> (\E i \in 1 .. Len(e) : p[i].kind = "close" /\ p[i].tab = u)
                 /\ (\E i \in 1 .. Len(f) :
                        p[i].kind = "create" /\ p[i].tab = u /\ f[i].result = "ok")
                    <=> (\E i \in 1 .. Len(e) :
                        p[i].kind = "create" /\ p[i].tab = u /\ e[i].result = "ok")
      BY <1>3, <2>1
    <2>. QED BY <1>1, <2>2, <2>3, <2>4 DEF Views
  <1>. QED BY <1>1, <1>4, <1>6 DEF Sound, SoundButDrawn

\* The stop comes too late.
LEMMA CancelIgnored ==
    ASSUME NEW s, NEW p, NEW e, NEW r, NEW x, Sound(s, p, e, r, x), NEW w, NEW f,
           Push(p, e, w, f), w \in Results(p[Len(f)].kind), p[Len(f)].kind = "cancel",
           w = "no",
           r.pending[p[Len(f)].target.tab] # p[Len(f)].target
    PROVE  Sound(s, p, f, r, x)
  <1>1. /\ SoundShell(s) /\ s \in Shell /\ Strip(s) /\ Chrome(s) /\ Exclusive(s)
        /\ Pipes(p, e) /\ r \in Worker
        /\ Matched(s, p) /\ Alone(s, p, r) /\ Retiring(s, p, r) /\ Painted(s, x)
        /\ Local(s, p, r) /\ Owned(s, p, r) /\ Answered(s, p, e, r)
        /\ InSession(s, p, e, r) /\ Frames(s, p, e, r, x) /\ Views(s, p, e, r)
        /\ Ordered(p, e, r) /\ Stopped(p, e, r) /\ Drawn(s, p)
        /\ SoundButDrawn(s, p, e, r, x)
    BY DEF Sound, SoundButDrawn, SoundShell
  <1> DEFINE d == Len(f)
  <1>2. /\ Len(p) \in Nat /\ Len(e) \in Nat /\ Len(f) \in Nat
        /\ d = Len(e) + 1 /\ d \in 1 .. Len(p) /\ d \in 1 .. Len(f)
        /\ p[d] \in Command /\ f[d].result = w
        /\ d > Len(e) /\ ~(d <= Len(e)) /\ d <= Len(f)
        /\ \A i \in 1 .. Len(e) : i \in 1 .. Len(f) /\ f[i] = e[i] /\ i \in 1 .. Len(p) /\ i # d
        /\ \A i \in 1 .. Len(f) : \/ i \in 1 .. Len(e) /\ f[i] = e[i]
                                  \/ i = d
        /\ \A i \in 1 .. Len(p) :
              /\ i <= Len(f) <=> (i <= Len(e) \/ i = d)
              /\ i > Len(f) <=> (i > Len(e) /\ i # d)
              /\ i <= Len(e) => f[i] = e[i]
        /\ Pipes(p, f)
    BY <1>1, PushIs
  <1>3. p[d].kind = "cancel" /\ w \in Results(p[d].kind)
    OBVIOUS
  <1>4. /\ SoundShell(s) /\ Pipes(p, f) /\ r \in Worker
        /\ Matched(s, p) /\ Alone(s, p, r) /\ Retiring(s, p, r) /\ Painted(s, x)
        /\ Local(s, p, r) /\ Owned(s, p, r) /\ Answered(s, p, f, r)
        /\ InSession(s, p, f, r)
        /\ Frames(s, p, f, r, x)
        /\ Views(s, p, f, r)
        /\ Ordered(p, f, r)
    <2>1. /\ SoundShell(s) /\ Pipes(p, f) /\ r \in Worker
          /\ Matched(s, p) /\ Alone(s, p, r) /\ Retiring(s, p, r) /\ Painted(s, x)
          /\ Local(s, p, r) /\ Owned(s, p, r) /\ Answered(s, p, f, r)
          /\ p[Len(f)].kind \notin Starting \cup {"reset"} => InSession(s, p, f, r)
          /\ p[Len(f)].kind # "render" => Frames(s, p, f, r, x)
          /\ p[Len(f)].kind \notin {"spawn", "create", "close", "replace"} => Views(s, p, f, r)
          /\ p[Len(f)].kind \notin {"navigate", "close"} => Ordered(p, f, r)
          /\ p[Len(f)].kind # "cancel" => Stopped(p, f, r)
      BY <1>1, Pushed
    <2>. QED BY <2>1 DEF Starting
  <1> HIDE DEF d
  <1>5. \A i \in 1 .. Len(p) : i # d => /\ i <= Len(f) <=> i <= Len(e)
                                        /\ i > Len(f) <=> i > Len(e)
                                        /\ i <= Len(f) => f[i] = e[i]
    BY <1>2
  <1>6. /\ p[d].target \in Target /\ p[d].target.tab \in Tab /\ p[d].target # NoTarget
        /\ \A i \in 1 .. Len(p) : p[i].kind = "cancel" => i = d
    <2>1. p[d].target \in Target
      BY <1>2, <1>3, CommandIs
    <2>2. \A i \in 1 .. Len(p) : p[i].kind = "cancel" => i = d
      BY <1>1, <1>2, <1>3 DEF Matched, Alike
    <2>. QED BY <2>1, <2>2 DEF Target, NoTarget, Tab, NoTab
  <1>7. Stopped(p, f, r)
    <2>1. /\ \A i \in 1 .. Len(f) : p[i].kind = "cancel" => i = d
          /\ f[d].result = "no" /\ r.pending[p[d].target.tab] # p[d].target
      BY <1>2, <1>6 DEF d
    <2>. QED BY <2>1 DEF Stopped
  <1>. QED BY <1>1, <1>4, <1>7 DEF Sound, SoundButDrawn

\* The navigation is stopped.
LEMMA CancelDone ==
    ASSUME NEW s, NEW p, NEW e, NEW r, NEW x, Sound(s, p, e, r, x), NEW w, NEW f,
           Push(p, e, w, f), w \in Results(p[Len(f)].kind), p[Len(f)].kind = "cancel",
           w \notin {"refused", "no"},
           r.pending[p[Len(f)].target.tab] = p[Len(f)].target,
           NEW r2 \in Worker,
           r2.session = r.session, r2.tab = r.tab, r2.generation = r.generation,
           r2.attached = r.attached, r2.views = r.views,
           r2.pending = [r.pending EXCEPT ![p[Len(f)].target.tab] = NoTarget]
    PROVE  Sound(s, p, f, r2, x)
  <1>1. /\ SoundShell(s) /\ s \in Shell /\ Strip(s) /\ Chrome(s) /\ Exclusive(s)
        /\ Pipes(p, e) /\ r \in Worker
        /\ Matched(s, p) /\ Alone(s, p, r) /\ Retiring(s, p, r) /\ Painted(s, x)
        /\ Local(s, p, r) /\ Owned(s, p, r) /\ Answered(s, p, e, r)
        /\ InSession(s, p, e, r) /\ Frames(s, p, e, r, x) /\ Views(s, p, e, r)
        /\ Ordered(p, e, r) /\ Stopped(p, e, r) /\ Drawn(s, p)
        /\ SoundButDrawn(s, p, e, r, x)
    BY DEF Sound, SoundButDrawn, SoundShell
  <1> DEFINE d == Len(f)
  <1>2. /\ Len(p) \in Nat /\ Len(e) \in Nat /\ Len(f) \in Nat
        /\ d = Len(e) + 1 /\ d \in 1 .. Len(p) /\ d \in 1 .. Len(f)
        /\ p[d] \in Command /\ f[d].result = w
        /\ d > Len(e) /\ ~(d <= Len(e)) /\ d <= Len(f)
        /\ \A i \in 1 .. Len(e) : i \in 1 .. Len(f) /\ f[i] = e[i] /\ i \in 1 .. Len(p) /\ i # d
        /\ \A i \in 1 .. Len(f) : \/ i \in 1 .. Len(e) /\ f[i] = e[i]
                                  \/ i = d
        /\ \A i \in 1 .. Len(p) :
              /\ i <= Len(f) <=> (i <= Len(e) \/ i = d)
              /\ i > Len(f) <=> (i > Len(e) /\ i # d)
              /\ i <= Len(e) => f[i] = e[i]
        /\ Pipes(p, f)
    BY <1>1, PushIs
  <1>3. p[d].kind = "cancel" /\ w \in Results(p[d].kind)
    OBVIOUS
  <1>4. /\ SoundShell(s) /\ Pipes(p, f) /\ r \in Worker
        /\ Matched(s, p) /\ Alone(s, p, r) /\ Retiring(s, p, r) /\ Painted(s, x)
        /\ Local(s, p, r) /\ Owned(s, p, r) /\ Answered(s, p, f, r)
        /\ InSession(s, p, f, r)
        /\ Frames(s, p, f, r, x)
        /\ Views(s, p, f, r)
        /\ Ordered(p, f, r)
    <2>1. /\ SoundShell(s) /\ Pipes(p, f) /\ r \in Worker
          /\ Matched(s, p) /\ Alone(s, p, r) /\ Retiring(s, p, r) /\ Painted(s, x)
          /\ Local(s, p, r) /\ Owned(s, p, r) /\ Answered(s, p, f, r)
          /\ p[Len(f)].kind \notin Starting \cup {"reset"} => InSession(s, p, f, r)
          /\ p[Len(f)].kind # "render" => Frames(s, p, f, r, x)
          /\ p[Len(f)].kind \notin {"spawn", "create", "close", "replace"} => Views(s, p, f, r)
          /\ p[Len(f)].kind \notin {"navigate", "close"} => Ordered(p, f, r)
          /\ p[Len(f)].kind # "cancel" => Stopped(p, f, r)
      BY <1>1, Pushed
    <2>. QED BY <2>1 DEF Starting
  <1> HIDE DEF d
  <1>5. \A i \in 1 .. Len(p) : i # d => /\ i <= Len(f) <=> i <= Len(e)
                                        /\ i > Len(f) <=> i > Len(e)
                                        /\ i <= Len(f) => f[i] = e[i]
    BY <1>2
  <1>6. /\ p[d].target \in Target /\ p[d].target.tab \in Tab /\ p[d].target # NoTarget
        /\ \A i \in 1 .. Len(p) : p[i].kind = "cancel" => i = d
    <2>1. p[d].target \in Target
      BY <1>2, <1>3, CommandIs
    <2>2. \A i \in 1 .. Len(p) : p[i].kind = "cancel" => i = d
      BY <1>1, <1>2, <1>3 DEF Matched, Alike
    <2>. QED BY <2>1, <2>2 DEF Target, NoTarget, Tab, NoTab
  <1>7. r.pending[p[d].target.tab] = p[d].target
    BY DEF d
  <1>8. /\ r2.pending[p[d].target.tab] = NoTarget
        /\ \A u \in Tab : u # p[d].target.tab => r2.pending[u] = r.pending[u]
    <2>1. r2.pending = [r.pending EXCEPT ![p[d].target.tab] = NoTarget]
      BY DEF d
    <2>2. r.pending \in [Tab -> Target \cup {NoTarget}]
      BY <1>1 DEF Worker
    <2>. QED BY <1>6, <2>1, <2>2
  <1>9. \A u \in Tab : r2.pending[u] # NoTarget => r2.pending[u] = r.pending[u] /\ u # p[d].target.tab
    BY <1>8
  <1>10. Alone(s, p, r2) /\ Retiring(s, p, r2) /\ Local(s, p, r2) /\ Owned(s, p, r2)
    <2>1. \A u \in Tab : r.pending[u] = NoTarget => r2.pending[u] = NoTarget
      BY <1>8
    <2>. QED BY <1>4, <1>9, <2>1 DEF Alone, Retiring, Local, Owned
  <1>11. Frames(s, p, f, r2, x) /\ InSession(s, p, f, r2) /\ Views(s, p, f, r2)
    BY <1>4 DEF Frames, InSession, AsStarted, Views
  <1>12. Ordered(p, f, r2)
    <2>1. \A i \in 1 .. Len(p), u \in Tab : NavigatesTab(p[i], u) => i # d
      BY <1>3 DEF NavigatesTab
    <2>2. \A i \in 1 .. Len(f) : p[i].kind \in {"navigate", "close"} => i \in 1 .. Len(e) /\ f[i] = e[i]
      BY <1>2, <1>3
    <2>. QED BY <1>4, <1>9, <2>1, <2>2 DEF Ordered
  <1>13. Stopped(p, f, r2)
    <2>1. \A i \in 1 .. Len(f) : p[i].kind = "cancel" => i = d
      BY <1>2, <1>6
    <2>2. ASSUME NEW j \in 1 .. Len(p), NavigatesTab(p[j], p[d].target.tab)
          PROVE  /\ j < d => p[j].target # p[d].target
                 /\ j > d => p[j].target.navigation > p[d].target.navigation
      <3>1. IF j <= Len(e) THEN p[j].target.navigation < p[d].target.navigation
                           ELSE p[j].target.navigation > p[d].target.navigation
        BY <1>1, <1>6, <1>7, <2>2 DEF Ordered
      <3>2. p[j].target.navigation \in Nat /\ p[d].target.navigation \in Nat
        <4>1. p[j] \in Command /\ p[j].kind = "navigate"
          BY <1>1, <2>2 DEF Pipes, NavigatesTab
        <4>2. p[j].target \in Target
          BY <4>1, CommandIs
        <4>. QED BY <1>6, <4>2 DEF Target
      <3>. QED BY <1>2, <3>1, <3>2
    <2>3. r2.pending[p[d].target.tab] = NoTarget /\ f[d].result # "refused"
      BY <1>2, <1>8
    <2>. QED BY <1>6, <2>1, <2>2, <2>3 DEF Stopped
  <1>14. Answered(s, p, f, r2)
    <2>1. w # "no"
      OBVIOUS
    <2>2. ASSUME NEW target, Carried(p, f, r, target), target.tab \in Tab
          PROVE  Carried(p, f, r2, target)
      <3>1. CASE target = p[d].target
        BY <1>2, <1>3, <2>1, <3>1 DEF Carried
      <3>2. CASE target # p[d].target
        <4>1. r.pending[target.tab] = target => r2.pending[target.tab] = target
          BY <1>7, <1>8, <2>2, <3>2
        <4>. QED BY <2>2, <4>1 DEF Carried
      <3>. QED BY <3>1, <3>2
    <2>3. \A u \in Range(s.tabs) : u \in Tab
      BY <1>1, TabsAre
    <2>4. \A u \in Tab : s.targets[u] # NoTarget => s.targets[u].tab = u /\ s.targets[u].navigation \in Nat
      <3>1. \A u \in Tab : s.targets[u] \in Target \cup {NoTarget}
        BY <1>1 DEF Shell
      <3>. QED BY <1>1, <3>1 DEF Owned, Target
    <2>5. \A u \in Tab : r2.pending[u] = r.pending[u] \/ r2.pending[u] = NoTarget
      BY <1>8
    <2>6. NoTarget.navigation = 0
      BY DEF NoTarget
    <2>. QED BY <1>4, <2>2, <2>3, <2>4, <2>5, <2>6 DEF Answered
  <1>. QED BY <1>1, <1>4, <1>10, <1>11, <1>12, <1>13, <1>14 DEF Sound, SoundButDrawn

\* Nothing is loading when the worker is reset.
LEMMA ResetIsDue ==
    ASSUME NEW s, NEW p, NEW e, NEW r, NEW x, Sound(s, p, e, r, x), NEW w, NEW f,
           Push(p, e, w, f), w \in Results(p[Len(f)].kind), p[Len(f)].kind = "reset"
    PROVE  \A u \in Tab : r.pending[u] = NoTarget
  <1>1. /\ SoundShell(s) /\ s \in Shell /\ Strip(s) /\ Chrome(s) /\ Exclusive(s)
        /\ Pipes(p, e) /\ r \in Worker
        /\ Matched(s, p) /\ Alone(s, p, r) /\ Retiring(s, p, r) /\ Painted(s, x)
        /\ Local(s, p, r) /\ Owned(s, p, r) /\ Answered(s, p, e, r)
        /\ InSession(s, p, e, r) /\ Frames(s, p, e, r, x) /\ Views(s, p, e, r)
        /\ Ordered(p, e, r) /\ Stopped(p, e, r) /\ Drawn(s, p)
        /\ SoundButDrawn(s, p, e, r, x)
    BY DEF Sound, SoundButDrawn, SoundShell
  <1> DEFINE d == Len(f)
  <1>2. /\ Len(p) \in Nat /\ Len(e) \in Nat /\ Len(f) \in Nat
        /\ d = Len(e) + 1 /\ d \in 1 .. Len(p) /\ d \in 1 .. Len(f)
        /\ p[d] \in Command /\ f[d].result = w
        /\ d > Len(e) /\ ~(d <= Len(e)) /\ d <= Len(f)
        /\ \A i \in 1 .. Len(e) : i \in 1 .. Len(f) /\ f[i] = e[i] /\ i \in 1 .. Len(p) /\ i # d
        /\ \A i \in 1 .. Len(f) : \/ i \in 1 .. Len(e) /\ f[i] = e[i]
                                  \/ i = d
        /\ \A i \in 1 .. Len(p) :
              /\ i <= Len(f) <=> (i <= Len(e) \/ i = d)
              /\ i > Len(f) <=> (i > Len(e) /\ i # d)
              /\ i <= Len(e) => f[i] = e[i]
        /\ Pipes(p, f)
    BY <1>1, PushIs
  <1>3. p[d].kind = "reset" /\ w \in Results(p[d].kind)
    OBVIOUS
  <1>4. /\ SoundShell(s) /\ Pipes(p, f) /\ r \in Worker
        /\ Matched(s, p) /\ Alone(s, p, r) /\ Retiring(s, p, r) /\ Painted(s, x)
        /\ Local(s, p, r) /\ Owned(s, p, r) /\ Answered(s, p, f, r)
        /\ Frames(s, p, f, r, x)
        /\ Views(s, p, f, r)
        /\ Ordered(p, f, r)
        /\ Stopped(p, f, r)
    <2>1. /\ SoundShell(s) /\ Pipes(p, f) /\ r \in Worker
          /\ Matched(s, p) /\ Alone(s, p, r) /\ Retiring(s, p, r) /\ Painted(s, x)
          /\ Local(s, p, r) /\ Owned(s, p, r) /\ Answered(s, p, f, r)
          /\ p[Len(f)].kind \notin Starting \cup {"reset"} => InSession(s, p, f, r)
          /\ p[Len(f)].kind # "render" => Frames(s, p, f, r, x)
          /\ p[Len(f)].kind \notin {"spawn", "create", "close", "replace"} => Views(s, p, f, r)
          /\ p[Len(f)].kind \notin {"navigate", "close"} => Ordered(p, f, r)
          /\ p[Len(f)].kind # "cancel" => Stopped(p, f, r)
      BY <1>1, Pushed
    <2>. QED BY <2>1 DEF Starting
  <1> HIDE DEF d
  <1>5. \A i \in 1 .. Len(p) : i # d => /\ i <= Len(f) <=> i <= Len(e)
                                        /\ i > Len(f) <=> i > Len(e)
                                        /\ i <= Len(f) => f[i] = e[i]
    BY <1>2
  <1>6. s.reset # 0 /\ p[d].tab = s.tab /\ p[d].generation = Gen(s)
    BY <1>1, <1>2, <1>3, WaitedFor
  <1>7. /\ \A u \in Tab : r.pending[u] = NoTarget
        /\ \A i \in 1 .. Len(p) : p[i].kind \in Starting \cup {"reset"}
        /\ \A i \in 1 .. Len(p) : p[i].kind = "reset" => i = d
    BY <1>1, <1>2, <1>3, <1>6 DEF Alone, Matched, Alike, Working
  <1>8. r.session + 1 = s.session
    BY <1>1, <1>2, <1>3 DEF InSession, Renewed
  <1>9. Has(p, "reset")
    BY <1>2, <1>3 DEF Has
  <1>. QED BY <1>7

\* The worker has a new session.
LEMMA SessionRenewed ==
    ASSUME NEW s, NEW p, NEW e, NEW r, NEW x, Sound(s, p, e, r, x), NEW w, NEW f,
           Push(p, e, w, f), w \in Results(p[Len(f)].kind), p[Len(f)].kind = "reset",
           w = IF r.attached THEN "ok" ELSE "surfaceless",
           NEW r2 \in Worker,
           r2.attached = r.attached, r2.pending = r.pending,
           r2.session = r.session + 1, r2.tab = p[Len(f)].tab,
           r2.generation = p[Len(f)].generation, r2.views = {p[Len(f)].tab}
    PROVE  Sound(s, p, f, r2, x)
  <1>1. /\ SoundShell(s) /\ s \in Shell /\ Strip(s) /\ Chrome(s) /\ Exclusive(s)
        /\ Pipes(p, e) /\ r \in Worker
        /\ Matched(s, p) /\ Alone(s, p, r) /\ Retiring(s, p, r) /\ Painted(s, x)
        /\ Local(s, p, r) /\ Owned(s, p, r) /\ Answered(s, p, e, r)
        /\ InSession(s, p, e, r) /\ Frames(s, p, e, r, x) /\ Views(s, p, e, r)
        /\ Ordered(p, e, r) /\ Stopped(p, e, r) /\ Drawn(s, p)
        /\ SoundButDrawn(s, p, e, r, x)
    BY DEF Sound, SoundButDrawn, SoundShell
  <1> DEFINE d == Len(f)
  <1>2. /\ Len(p) \in Nat /\ Len(e) \in Nat /\ Len(f) \in Nat
        /\ d = Len(e) + 1 /\ d \in 1 .. Len(p) /\ d \in 1 .. Len(f)
        /\ p[d] \in Command /\ f[d].result = w
        /\ d > Len(e) /\ ~(d <= Len(e)) /\ d <= Len(f)
        /\ \A i \in 1 .. Len(e) : i \in 1 .. Len(f) /\ f[i] = e[i] /\ i \in 1 .. Len(p) /\ i # d
        /\ \A i \in 1 .. Len(f) : \/ i \in 1 .. Len(e) /\ f[i] = e[i]
                                  \/ i = d
        /\ \A i \in 1 .. Len(p) :
              /\ i <= Len(f) <=> (i <= Len(e) \/ i = d)
              /\ i > Len(f) <=> (i > Len(e) /\ i # d)
              /\ i <= Len(e) => f[i] = e[i]
        /\ Pipes(p, f)
    BY <1>1, PushIs
  <1>3. p[d].kind = "reset" /\ w \in Results(p[d].kind)
    OBVIOUS
  <1>4. /\ SoundShell(s) /\ Pipes(p, f) /\ r \in Worker
        /\ Matched(s, p) /\ Alone(s, p, r) /\ Retiring(s, p, r) /\ Painted(s, x)
        /\ Local(s, p, r) /\ Owned(s, p, r) /\ Answered(s, p, f, r)
        /\ Frames(s, p, f, r, x)
        /\ Views(s, p, f, r)
        /\ Ordered(p, f, r)
        /\ Stopped(p, f, r)
    <2>1. /\ SoundShell(s) /\ Pipes(p, f) /\ r \in Worker
          /\ Matched(s, p) /\ Alone(s, p, r) /\ Retiring(s, p, r) /\ Painted(s, x)
          /\ Local(s, p, r) /\ Owned(s, p, r) /\ Answered(s, p, f, r)
          /\ p[Len(f)].kind \notin Starting \cup {"reset"} => InSession(s, p, f, r)
          /\ p[Len(f)].kind # "render" => Frames(s, p, f, r, x)
          /\ p[Len(f)].kind \notin {"spawn", "create", "close", "replace"} => Views(s, p, f, r)
          /\ p[Len(f)].kind \notin {"navigate", "close"} => Ordered(p, f, r)
          /\ p[Len(f)].kind # "cancel" => Stopped(p, f, r)
      BY <1>1, Pushed
    <2>. QED BY <2>1 DEF Starting
  <1> HIDE DEF d
  <1>5. \A i \in 1 .. Len(p) : i # d => /\ i <= Len(f) <=> i <= Len(e)
                                        /\ i > Len(f) <=> i > Len(e)
                                        /\ i <= Len(f) => f[i] = e[i]
    BY <1>2
  <1>6. s.reset # 0 /\ p[d].tab = s.tab /\ p[d].generation = Gen(s)
    BY <1>1, <1>2, <1>3, WaitedFor
  <1>7. /\ \A u \in Tab : r.pending[u] = NoTarget
        /\ \A i \in 1 .. Len(p) : p[i].kind \in Starting \cup {"reset"}
        /\ \A i \in 1 .. Len(p) : p[i].kind = "reset" => i = d
    BY <1>1, <1>2, <1>3, <1>6 DEF Alone, Matched, Alike, Working
  <1>8. r.session + 1 = s.session
    BY <1>1, <1>2, <1>3 DEF InSession, Renewed
  <1>9. Has(p, "reset")
    BY <1>2, <1>3 DEF Has
  <1>10. /\ r2.session = s.session /\ r2.tab = s.tab /\ r2.generation = Gen(s)
         /\ r2.views = {s.tab}
    BY <1>6, <1>8 DEF d
  <1>11. ~Switching(s) /\ s.surface = 0 /\ s.frame = 0
    BY <1>1, <1>6 DEF Exclusive
  <1>12. Alone(s, p, r2) /\ Local(s, p, r2) /\ Owned(s, p, r2)
    BY <1>4 DEF Alone, Local, Owned
  <1>13. Retiring(s, p, r2) /\ Frames(s, p, f, r2, x)
    BY <1>6, <1>7, <1>11 DEF Retiring, Frames, Starting
  <1>14. Views(s, p, f, r2)
    BY <1>4, <1>6 DEF Views
  <1>15. Answered(s, p, f, r2) /\ Ordered(p, f, r2) /\ Stopped(p, f, r2)
    BY <1>4 DEF Answered, Carried, Ordered, Stopped
  <1>16. InSession(s, p, f, r2)
    <2>1. ASSUME NEW i \in 1 .. Len(p), p[i].kind = "spawn"
          PROVE  /\ ~r.attached
                 /\ i <= Len(f) + 1
                 /\ i <= Len(f) => f[i].result # "refused"
      <3>1. i # d
        BY <1>3, <2>1
      <3>. QED BY <1>1, <1>2, <1>5, <2>1, <3>1 DEF InSession
    <2>2. ASSUME NEW i \in 1 .. Len(p), p[i].kind = "attach"
          PROVE  /\ i > Len(f) => ~r.attached
                 /\ i > Len(f) => After(p, "reset", i)
                 /\ i <= Len(f) /\ f[i].result = "refused" => After(p, "reset", i)
      <3>1. i # d
        BY <1>3, <2>2
      <3>2. i > Len(f) => i > d
        BY <1>2
      <3>. QED BY <1>1, <1>2, <1>3, <1>5, <2>2, <3>1, <3>2 DEF InSession, After
    <2>3. w = "ok" => \A j \in 1 .. Len(p) : p[j].kind \in Starting => j < d
      <3>1. ASSUME NEW j \in 1 .. Len(p), p[j].kind \in Starting, r.attached PROVE j < d
        <4>1. j # d
          BY <1>3, <3>1 DEF Starting
        <4>2. p[j].kind = "attach" /\ ~(j > Len(e))
          BY <1>1, <3>1 DEF InSession, Starting
        <4>. QED BY <1>2, <4>1, <4>2
      <3>. QED BY <3>1
    <2>4. Renewed(f, d) /\ f[d].result # "refused" /\ (f[d].result = "ok" => r2.attached /\ w = "ok")
      BY <1>2 DEF Renewed
    <2>5. s.init # 0 /\ ~Has(p, "spawn") /\ ~Has(p, "attach") => ~r2.attached
      BY <1>1 DEF InSession
    <2>. QED BY <1>6, <1>7, <1>9, <1>10, <2>1, <2>2, <2>3, <2>4, <2>5 DEF InSession
  <1>. QED BY <1>1, <1>4, <1>12, <1>13, <1>14, <1>15, <1>16 DEF Sound, SoundButDrawn

\* The worker is not reset.
LEMMA ResetFailed ==
    ASSUME NEW s, NEW p, NEW e, NEW r, NEW x, Sound(s, p, e, r, x), NEW w, NEW f,
           Push(p, e, w, f), w \in Results(p[Len(f)].kind), p[Len(f)].kind = "reset",
           w = "failed"
    PROVE  Sound(s, p, f, r, x)
  <1>1. /\ SoundShell(s) /\ s \in Shell /\ Strip(s) /\ Chrome(s) /\ Exclusive(s)
        /\ Pipes(p, e) /\ r \in Worker
        /\ Matched(s, p) /\ Alone(s, p, r) /\ Retiring(s, p, r) /\ Painted(s, x)
        /\ Local(s, p, r) /\ Owned(s, p, r) /\ Answered(s, p, e, r)
        /\ InSession(s, p, e, r) /\ Frames(s, p, e, r, x) /\ Views(s, p, e, r)
        /\ Ordered(p, e, r) /\ Stopped(p, e, r) /\ Drawn(s, p)
        /\ SoundButDrawn(s, p, e, r, x)
    BY DEF Sound, SoundButDrawn, SoundShell
  <1> DEFINE d == Len(f)
  <1>2. /\ Len(p) \in Nat /\ Len(e) \in Nat /\ Len(f) \in Nat
        /\ d = Len(e) + 1 /\ d \in 1 .. Len(p) /\ d \in 1 .. Len(f)
        /\ p[d] \in Command /\ f[d].result = w
        /\ d > Len(e) /\ ~(d <= Len(e)) /\ d <= Len(f)
        /\ \A i \in 1 .. Len(e) : i \in 1 .. Len(f) /\ f[i] = e[i] /\ i \in 1 .. Len(p) /\ i # d
        /\ \A i \in 1 .. Len(f) : \/ i \in 1 .. Len(e) /\ f[i] = e[i]
                                  \/ i = d
        /\ \A i \in 1 .. Len(p) :
              /\ i <= Len(f) <=> (i <= Len(e) \/ i = d)
              /\ i > Len(f) <=> (i > Len(e) /\ i # d)
              /\ i <= Len(e) => f[i] = e[i]
        /\ Pipes(p, f)
    BY <1>1, PushIs
  <1>3. p[d].kind = "reset" /\ w \in Results(p[d].kind)
    OBVIOUS
  <1>4. /\ SoundShell(s) /\ Pipes(p, f) /\ r \in Worker
        /\ Matched(s, p) /\ Alone(s, p, r) /\ Retiring(s, p, r) /\ Painted(s, x)
        /\ Local(s, p, r) /\ Owned(s, p, r) /\ Answered(s, p, f, r)
        /\ Frames(s, p, f, r, x)
        /\ Views(s, p, f, r)
        /\ Ordered(p, f, r)
        /\ Stopped(p, f, r)
    <2>1. /\ SoundShell(s) /\ Pipes(p, f) /\ r \in Worker
          /\ Matched(s, p) /\ Alone(s, p, r) /\ Retiring(s, p, r) /\ Painted(s, x)
          /\ Local(s, p, r) /\ Owned(s, p, r) /\ Answered(s, p, f, r)
          /\ p[Len(f)].kind \notin Starting \cup {"reset"} => InSession(s, p, f, r)
          /\ p[Len(f)].kind # "render" => Frames(s, p, f, r, x)
          /\ p[Len(f)].kind \notin {"spawn", "create", "close", "replace"} => Views(s, p, f, r)
          /\ p[Len(f)].kind \notin {"navigate", "close"} => Ordered(p, f, r)
          /\ p[Len(f)].kind # "cancel" => Stopped(p, f, r)
      BY <1>1, Pushed
    <2>. QED BY <2>1 DEF Starting
  <1> HIDE DEF d
  <1>5. \A i \in 1 .. Len(p) : i # d => /\ i <= Len(f) <=> i <= Len(e)
                                        /\ i > Len(f) <=> i > Len(e)
                                        /\ i <= Len(f) => f[i] = e[i]
    BY <1>2
  <1>6. s.reset # 0 /\ p[d].tab = s.tab /\ p[d].generation = Gen(s)
    BY <1>1, <1>2, <1>3, WaitedFor
  <1>7. /\ \A u \in Tab : r.pending[u] = NoTarget
        /\ \A i \in 1 .. Len(p) : p[i].kind \in Starting \cup {"reset"}
        /\ \A i \in 1 .. Len(p) : p[i].kind = "reset" => i = d
    BY <1>1, <1>2, <1>3, <1>6 DEF Alone, Matched, Alike, Working
  <1>8. r.session + 1 = s.session
    BY <1>1, <1>2, <1>3 DEF InSession, Renewed
  <1>9. Has(p, "reset")
    BY <1>2, <1>3 DEF Has
  <1>10. InSession(s, p, f, r)
    <2>1. ASSUME NEW i \in 1 .. Len(p), p[i].kind = "spawn"
          PROVE  /\ ~r.attached
                 /\ i <= Len(f) + 1
                 /\ i <= Len(f) => f[i].result # "refused"
      <3>1. i # d
        BY <1>3, <2>1
      <3>. QED BY <1>1, <1>2, <1>5, <2>1, <3>1 DEF InSession
    <2>2. ASSUME NEW i \in 1 .. Len(p), p[i].kind = "attach"
          PROVE  /\ i > Len(f) => ~r.attached
                 /\ i > Len(f) => After(p, "reset", i)
                 /\ i <= Len(f) /\ f[i].result = "refused" => After(p, "reset", i)
      <3>1. i # d
        BY <1>3, <2>2
      <3>2. i > Len(f) => i > d
        BY <1>2
      <3>. QED BY <1>1, <1>2, <1>3, <1>5, <2>2, <3>1, <3>2 DEF InSession, After
    <2>3. ~Renewed(f, d) /\ f[d].result # "refused" /\ f[d].result # "ok"
      BY <1>2 DEF Renewed
    <2>4. s.init # 0 /\ ~Has(p, "spawn") /\ ~Has(p, "attach") => ~r.attached
      BY <1>1 DEF InSession
    <2>. QED BY <1>6, <1>7, <1>8, <1>9, <2>1, <2>2, <2>3, <2>4 DEF InSession
  <1>. QED BY <1>1, <1>4, <1>10 DEF Sound, SoundButDrawn

-----------------------------------------------------------------------------
(* Navigations under way in the worker.                                    *)

\* The pipe q is p with c before the commands that are not answered.
Insert(p, e, c, q) ==
    /\ Len(q) = Len(p) + 1 /\ q[Len(e) + 1] = c
    /\ \A i \in 1 .. Len(p) : IF i <= Len(e) THEN q[i] = p[i] ELSE q[i + 1] = p[i]

\* Where a command of p is in q.
Moved(e, i) == IF i <= Len(e) THEN i ELSE i + 1

LEMMA InsertIs ==
    ASSUME NEW p, NEW e, NEW c, NEW q, Len(p) \in Nat, Len(e) \in Nat, Len(e) <= Len(p),
           Insert(p, e, c, q)
    PROVE  /\ Len(q) \in Nat /\ Len(e) <= Len(q)
           /\ Len(e) + 1 \in 1 .. Len(q) /\ q[Len(e) + 1] = c /\ ~(Len(e) + 1 <= Len(e))
           /\ \A i \in 1 .. Len(p) :
                 /\ Moved(e, i) \in 1 .. Len(q) /\ q[Moved(e, i)] = p[i]
                 /\ Moved(e, i) # Len(e) + 1
                 /\ Moved(e, i) <= Len(e) <=> i <= Len(e)
                 /\ Moved(e, i) > Len(e) <=> i > Len(e)
                 /\ i <= Len(e) => Moved(e, i) = i
                 /\ i <= Len(e) => Moved(e, i) < Len(e) + 1
                 /\ i > Len(e) => Len(e) + 1 < Moved(e, i)
                 /\ \A j \in 1 .. Len(p) :
                       /\ Moved(e, i) < Moved(e, j) <=> i < j
                       /\ Moved(e, i) > Moved(e, j) <=> i > j
                       /\ Moved(e, i) = Moved(e, j) <=> i = j
           /\ \A k \in 1 .. Len(q) : k # Len(e) + 1 =>
                 \E i \in 1 .. Len(p) : k = Moved(e, i)
           /\ \A i \in 1 .. Len(e) : i \in 1 .. Len(p) /\ i \in 1 .. Len(q) /\ q[i] = p[i]
                                     /\ i # Len(e) + 1 /\ i < Len(e) + 1 /\ Moved(e, i) = i
  <1>1. /\ Len(q) \in Nat /\ Len(e) <= Len(q)
        /\ Len(e) + 1 \in 1 .. Len(q) /\ q[Len(e) + 1] = c /\ ~(Len(e) + 1 <= Len(e))
    BY DEF Insert
  <1>2. ASSUME NEW i \in 1 .. Len(p)
        PROVE  /\ Moved(e, i) \in 1 .. Len(q) /\ q[Moved(e, i)] = p[i]
               /\ Moved(e, i) # Len(e) + 1
               /\ Moved(e, i) <= Len(e) <=> i <= Len(e)
               /\ Moved(e, i) > Len(e) <=> i > Len(e)
               /\ i <= Len(e) => Moved(e, i) = i
               /\ i <= Len(e) => Moved(e, i) < Len(e) + 1
               /\ i > Len(e) => Len(e) + 1 < Moved(e, i)
    BY DEF Insert, Moved
  <1>3. ASSUME NEW i \in 1 .. Len(p), NEW j \in 1 .. Len(p)
        PROVE  /\ Moved(e, i) < Moved(e, j) <=> i < j
               /\ Moved(e, i) > Moved(e, j) <=> i > j
               /\ Moved(e, i) = Moved(e, j) <=> i = j
    BY DEF Moved
  <1>4. ASSUME NEW k \in 1 .. Len(q), k # Len(e) + 1
        PROVE  \E i \in 1 .. Len(p) : k = Moved(e, i)
    <2>1. CASE k <= Len(e)
      <3>1. k \in 1 .. Len(p) /\ k = Moved(e, k)
        BY <2>1 DEF Moved
      <3>. QED BY <3>1
    <2>2. CASE k > Len(e) + 1
      <3>1. k - 1 \in 1 .. Len(p) /\ k = Moved(e, k - 1)
        BY <1>1, <2>2 DEF Moved, Insert
      <3>. QED BY <3>1
    <2>. QED BY <1>1, <1>4, <2>1, <2>2
  <1>5. \A i \in 1 .. Len(e) : i \in 1 .. Len(p) /\ i \in 1 .. Len(q) /\ q[i] = p[i]
                                /\ i # Len(e) + 1 /\ i < Len(e) + 1 /\ Moved(e, i) = i
    BY <1>1 DEF Insert, Moved
  <1>. QED BY <1>1, <1>2, <1>3, <1>4, <1>5

\* A navigation matters to its tab only.
LEMMA Inserted ==
    ASSUME NEW s, NEW p, NEW e, NEW c \in Command, NEW q, NEW r, NEW x,
           Len(p) \in Nat, Len(e) \in Nat, Len(e) <= Len(p),
           Insert(p, e, c, q), c.kind = "navigate",
           \A i \in 1 .. Len(p) : p[i].kind = "spawn" => i <= Len(e)
    PROVE  /\ Pipes(p, e) <=> Pipes(q, e)
           /\ Matched(s, p) <=> Matched(s, q)
           /\ InSession(s, p, e, r) <=> InSession(s, q, e, r)
           /\ Frames(s, p, e, r, x) <=> Frames(s, q, e, r, x)
           /\ Retiring(s, p, r) <=> Retiring(s, q, r)
           /\ Views(s, p, e, r) <=> Views(s, q, e, r)
           /\ Drawn(s, p) <=> Drawn(s, q)
  <1> DEFINE d == Len(e) + 1
             M(i) == Moved(e, i)
  <1>1. /\ Len(q) \in Nat /\ Len(e) <= Len(q)
        /\ d \in 1 .. Len(q) /\ q[d] = c /\ ~(d <= Len(e))
        /\ \A i \in 1 .. Len(p) :
              /\ M(i) \in 1 .. Len(q) /\ q[M(i)] = p[i]
              /\ M(i) # d
              /\ M(i) <= Len(e) <=> i <= Len(e)
              /\ M(i) > Len(e) <=> i > Len(e)
              /\ i <= Len(e) => M(i) = i
              /\ \A j \in 1 .. Len(p) :
                    /\ M(i) < M(j) <=> i < j
                    /\ M(i) = M(j) <=> i = j
        /\ \A k \in 1 .. Len(q) : k # d => \E i \in 1 .. Len(p) : k = M(i)
        /\ \A i \in 1 .. Len(e) : i \in 1 .. Len(p) /\ i \in 1 .. Len(q) /\ q[i] = p[i]
                                  /\ M(i) = i
    BY InsertIs
  <1> HIDE DEF d, M
  <1>2. \A k \in 1 .. Len(q) : q[k].kind # "navigate" => \E i \in 1 .. Len(p) : k = M(i) /\ q[k] = p[i]
    BY <1>1
  <1>3. ASSUME NEW kind, kind # "navigate"
        PROVE  /\ Has(p, kind) <=> Has(q, kind)
               /\ \A i \in 1 .. Len(p) : After(p, kind, i) <=> After(q, kind, M(i))
    <2>1. Has(p, kind) <=> Has(q, kind)
      BY <1>1, <1>2, <1>3 DEF Has
    <2>2. ASSUME NEW i \in 1 .. Len(p), After(p, kind, i) PROVE After(q, kind, M(i))
      <3>1. PICK j \in 1 .. Len(p) : p[j].kind = kind /\ j < i
        BY <2>2 DEF After
      <3>2. M(j) \in 1 .. Len(q) /\ q[M(j)] = p[j] /\ M(j) < M(i)
        BY <1>1, <3>1
      <3>. QED BY <3>1, <3>2 DEF After
    <2>3. ASSUME NEW i \in 1 .. Len(p), After(q, kind, M(i)) PROVE After(p, kind, i)
      <3>1. PICK k \in 1 .. Len(q) : q[k].kind = kind /\ k < M(i)
        BY <2>3 DEF After
      <3>2. PICK j \in 1 .. Len(p) : k = M(j) /\ q[k] = p[j]
        BY <1>2, <1>3, <3>1
      <3>3. j < i
        BY <1>1, <3>1, <3>2
      <3>. QED BY <3>1, <3>2, <3>3 DEF After
    <2>. QED BY <2>1, <2>2, <2>3
  <1>4. Pipes(p, e) <=> Pipes(q, e)
    <2>1. (\A i \in 1 .. Len(p) : p[i] \in Command) <=> (\A i \in 1 .. Len(q) : q[i] \in Command)
      <3>1. ASSUME \A i \in 1 .. Len(p) : p[i] \in Command, NEW k \in 1 .. Len(q)
            PROVE  q[k] \in Command
        <4>1. CASE k = d
          BY <1>1, <4>1
        <4>2. CASE k # d
          BY <1>1, <3>1, <4>2
        <4>. QED BY <4>1, <4>2
      <3>2. ASSUME \A i \in 1 .. Len(q) : q[i] \in Command, NEW i \in 1 .. Len(p)
            PROVE  p[i] \in Command
        BY <1>1, <3>2
      <3>. QED BY <3>1, <3>2
    <2>. QED BY <1>1, <2>1 DEF Pipes
  <1>5. Matched(s, p) <=> Matched(s, q)
    <2>1. (\A i \in 1 .. Len(p) : Awaited(s, p[i])) <=> (\A i \in 1 .. Len(q) : Awaited(s, q[i]))
      <3>1. Awaited(s, c)
        BY DEF Awaited, Starting
      <3>2. ASSUME \A i \in 1 .. Len(p) : Awaited(s, p[i]), NEW k \in 1 .. Len(q)
            PROVE  Awaited(s, q[k])
        <4>1. CASE k = d
          BY <1>1, <3>1, <4>1
        <4>2. CASE k # d
          <5>1. PICK i \in 1 .. Len(p) : k = M(i)
            BY <1>1, <4>2
          <5>2. q[k] = p[i]
            BY <1>1, <5>1
          <5>. QED BY <3>2, <5>2
        <4>. QED BY <4>1, <4>2
      <3>3. ASSUME \A i \in 1 .. Len(q) : Awaited(s, q[i]), NEW i \in 1 .. Len(p)
            PROVE  Awaited(s, p[i])
        <4>1. M(i) \in 1 .. Len(q) /\ q[M(i)] = p[i]
          BY <1>1
        <4>2. Awaited(s, q[M(i)])
          BY <3>3, <4>1
        <4>. QED BY <4>1, <4>2
      <3>. QED BY <3>2, <3>3
    <2>2. \A k, l \in 1 .. Len(q) : Alike(q[k], q[l]) => q[k].kind # "navigate" /\ q[l].kind # "navigate"
      BY DEF Alike, Starting, Working
    <2>3. (\A i, j \in 1 .. Len(p) : Alike(p[i], p[j]) => i = j)
          <=> (\A i, j \in 1 .. Len(q) : Alike(q[i], q[j]) => i = j)
      <3>1. ASSUME \A i, j \in 1 .. Len(p) : Alike(p[i], p[j]) => i = j,
                   NEW k \in 1 .. Len(q), NEW l \in 1 .. Len(q), Alike(q[k], q[l])
            PROVE  k = l
        <4>1. PICK i \in 1 .. Len(p) : k = M(i) /\ q[k] = p[i]
          BY <1>2, <2>2, <3>1
        <4>2. PICK j \in 1 .. Len(p) : l = M(j) /\ q[l] = p[j]
          BY <1>2, <2>2, <3>1
        <4>. QED BY <3>1, <4>1, <4>2
      <3>2. ASSUME \A i, j \in 1 .. Len(q) : Alike(q[i], q[j]) => i = j,
                   NEW i \in 1 .. Len(p), NEW j \in 1 .. Len(p), Alike(p[i], p[j])
            PROVE  i = j
        <4>1. /\ M(i) \in 1 .. Len(q) /\ q[M(i)] = p[i] /\ M(j) \in 1 .. Len(q) /\ q[M(j)] = p[j]
              /\ M(i) = M(j) <=> i = j
          BY <1>1
        <4>. QED BY <3>2, <4>1
      <3>. QED BY <3>1, <3>2
    <2>. QED BY <1>3, <2>1, <2>3 DEF Matched
  <1>6. Frames(s, p, e, r, x) <=> Frames(s, q, e, r, x)
    <2> DEFINE G(k, a) ==
          a.kind = "render" =>
             /\ Fits(s, a.permit)
             /\ k <= Len(e) =>
                   /\ e[k].result # "refused"
                   /\ r.generation = a.permit.generation /\ r.tab = a.permit.tab
                   /\ e[k].result = "ok" => x = [session |-> s.session, tab |-> a.permit.tab]
             /\ k > Len(e) =>
                   /\ a.permit.generation = r.generation => a.permit.tab = r.tab
                   /\ a.permit.generation # r.generation =>
                         ForTarget(a.permit) /\ a.permit.generation > r.generation
    <2>1. \A i \in 1 .. Len(p) : G(i, p[i]) <=> G(M(i), q[M(i)])
      BY <1>1
    <2>2. G(d, q[d])
      BY <1>1
    <2> HIDE DEF G
    <2>3. (\A i \in 1 .. Len(p) : G(i, p[i])) <=> (\A i \in 1 .. Len(q) : G(i, q[i]))
      <3>1. ASSUME \A i \in 1 .. Len(p) : G(i, p[i]), NEW k \in 1 .. Len(q), k # d
            PROVE  G(k, q[k])
        <4>1. PICK i \in 1 .. Len(p) : k = M(i)
          BY <1>1, <3>1
        <4>. QED BY <2>1, <3>1, <4>1
      <3>2. ASSUME \A i \in 1 .. Len(q) : G(i, q[i]), NEW i \in 1 .. Len(p)
            PROVE  G(i, p[i])
        <4>1. M(i) \in 1 .. Len(q)
          BY <1>1
        <4>. QED BY <2>1, <3>2, <4>1
      <3>. QED BY <2>2, <3>1, <3>2
    <2>. QED BY <2>3 DEF Frames, G
  <1>7. InSession(s, p, e, r) <=> InSession(s, q, e, r)
    <2> DEFINE G(k, a, o) ==
          /\ a.kind = "spawn" =>
                /\ ~r.attached
                /\ k <= Len(e) + 1
                /\ Has(o, "reset") \/ AsStarted(r, a)
                /\ k <= Len(e) => e[k].result # "refused"
          /\ a.kind = "attach" =>
                /\ k > Len(e) => ~r.attached
                /\ k > Len(e) => After(o, "reset", k) \/ AsStarted(r, a)
                /\ k <= Len(e) /\ e[k].result = "refused" => After(o, "reset", k)
          /\ a.kind = "reset" =>
                /\ k <= Len(e) => e[k].result # "refused"
                /\ k <= Len(e) /\ e[k].result = "ok" =>
                      /\ r.attached
                      /\ \A j \in 1 .. Len(o) : o[j].kind \in Starting => j < k
                /\ ~Renewed(e, k) => r.session + 1 = s.session
                /\ Renewed(e, k) =>
                      /\ r.session = s.session
                      /\ r.tab = s.tab /\ r.generation = Gen(s)
                      /\ r.views = {s.tab}
    <2>1. \A i \in 1 .. Len(p) : Renewed(e, i) <=> Renewed(e, M(i))
      BY <1>1 DEF Renewed
    <2>2. ASSUME NEW i \in 1 .. Len(p)
          PROVE  (\A j \in 1 .. Len(p) : p[j].kind \in Starting => j < i)
                 <=> (\A j \in 1 .. Len(q) : q[j].kind \in Starting => j < M(i))
      <3>1. ASSUME \A j \in 1 .. Len(p) : p[j].kind \in Starting => j < i,
                   NEW k \in 1 .. Len(q), q[k].kind \in Starting
            PROVE  k < M(i)
        <4>1. PICK j \in 1 .. Len(p) : k = M(j) /\ q[k] = p[j]
          BY <1>2, <3>1 DEF Starting
        <4>. QED BY <1>1, <3>1, <4>1
      <3>2. ASSUME \A j \in 1 .. Len(q) : q[j].kind \in Starting => j < M(i),
                   NEW j \in 1 .. Len(p), p[j].kind \in Starting
            PROVE  j < i
        BY <1>1, <3>2
      <3>. QED BY <3>1, <3>2
    <2>3. ASSUME NEW i \in 1 .. Len(p) PROVE G(i, p[i], p) <=> G(M(i), q[M(i)], q)
      <3>1. p[i].kind = "spawn" => i <= Len(e) /\ M(i) = i /\ i <= Len(e) + 1
        BY <1>1
      <3>2. Has(p, "reset") <=> Has(q, "reset")
        BY <1>3
      <3>3. After(p, "reset", i) <=> After(q, "reset", M(i))
        BY <1>3
      <3>4. /\ q[M(i)] = p[i]
            /\ M(i) <= Len(e) <=> i <= Len(e)
            /\ M(i) > Len(e) <=> i > Len(e)
            /\ i <= Len(e) => M(i) = i
        BY <1>1
      <3>5. Renewed(e, i) <=> Renewed(e, M(i))
        BY <2>1
      <3>6. CASE p[i].kind = "spawn"
        BY <3>1, <3>2, <3>4, <3>6
      <3>7. CASE p[i].kind = "attach"
        BY <3>3, <3>4, <3>7
      <3>8. CASE p[i].kind = "reset"
        BY <2>2, <3>4, <3>5, <3>8
      <3>9. CASE p[i].kind \notin {"spawn", "attach", "reset"}
        BY <3>4, <3>9
      <3>. QED BY <3>6, <3>7, <3>8, <3>9
    <2>4. G(d, q[d], q)
      BY <1>1
    <2> HIDE DEF G
    <2>5. (\A i \in 1 .. Len(p) : G(i, p[i], p)) <=> (\A i \in 1 .. Len(q) : G(i, q[i], q))
      BY SMTT(30), <1>1, <2>3, <2>4
    <2>6. /\ Has(p, "spawn") <=> Has(q, "spawn")
          /\ Has(p, "attach") <=> Has(q, "attach")
      BY <1>3
    <2>. QED BY <2>5, <2>6 DEF InSession, G
  <1>8. Retiring(s, p, r) <=> Retiring(s, q, r)
    <2>1. ASSUME Retiring(s, p, r), NEW k \in 1 .. Len(q), q[k].kind = "close"
          PROVE  /\ r.tab # s.closing
                 /\ \A l \in 1 .. Len(q) : q[l].kind = "render" =>
                       /\ q[l].permit.tab \in Range(s.tabs)
                       /\ Switching(s) /\ q[l].permit.generation = Gen(s) => k < l
                 /\ ~(s.surface # 0 /\ Switching(s) /\ s.recovery.generation = Gen(s))
      <3>1. PICK i \in 1 .. Len(p) : k = M(i) /\ q[k] = p[i]
        BY <1>2, <2>1
      <3>2. ASSUME NEW l \in 1 .. Len(q), q[l].kind = "render"
            PROVE  /\ q[l].permit.tab \in Range(s.tabs)
                   /\ Switching(s) /\ q[l].permit.generation = Gen(s) => k < l
        <4>1. PICK j \in 1 .. Len(p) : l = M(j) /\ q[l] = p[j]
          BY <1>2, <3>2
        <4>2. k < l <=> i < j
          BY <1>1, <3>1, <4>1
        <4>. QED BY <2>1, <3>1, <3>2, <4>1, <4>2 DEF Retiring
      <3>. QED BY <2>1, <3>1, <3>2 DEF Retiring
    <2>2. ASSUME Retiring(s, q, r), NEW i \in 1 .. Len(p), p[i].kind = "close"
          PROVE  /\ r.tab # s.closing
                 /\ \A j \in 1 .. Len(p) : p[j].kind = "render" =>
                       /\ p[j].permit.tab \in Range(s.tabs)
                       /\ Switching(s) /\ p[j].permit.generation = Gen(s) => i < j
                 /\ ~(s.surface # 0 /\ Switching(s) /\ s.recovery.generation = Gen(s))
      <3>1. M(i) \in 1 .. Len(q) /\ q[M(i)] = p[i]
        BY <1>1
      <3>2. ASSUME NEW j \in 1 .. Len(p), p[j].kind = "render"
            PROVE  /\ p[j].permit.tab \in Range(s.tabs)
                   /\ Switching(s) /\ p[j].permit.generation = Gen(s) => i < j
        <4>1. M(j) \in 1 .. Len(q) /\ q[M(j)] = p[j] /\ (M(i) < M(j) <=> i < j)
          BY <1>1
        <4>. QED BY <2>2, <3>1, <3>2, <4>1 DEF Retiring
      <3>. QED BY <2>2, <3>1, <3>2 DEF Retiring
    <2>. QED BY <2>1, <2>2 DEF Retiring
  <1>9. Views(s, p, e, r) <=> Views(s, q, e, r)
    <2>1. (\E i \in 1 .. Len(p) : p[i].kind = "spawn" /\ i > Len(e))
          <=> (\E i \in 1 .. Len(q) : q[i].kind = "spawn" /\ i > Len(e))
      <3>1. ASSUME NEW i \in 1 .. Len(p), p[i].kind = "spawn" /\ i > Len(e)
            PROVE  M(i) \in 1 .. Len(q) /\ q[M(i)].kind = "spawn" /\ M(i) > Len(e)
        BY <1>1, <3>1
      <3>2. ASSUME NEW k \in 1 .. Len(q), q[k].kind = "spawn" /\ k > Len(e)
            PROVE  \E i \in 1 .. Len(p) : p[i].kind = "spawn" /\ i > Len(e)
        <4>1. PICK i \in 1 .. Len(p) : k = M(i) /\ q[k] = p[i]
          BY <1>2, <3>2
        <4>2. i > Len(e)
          BY <1>1, <3>2, <4>1
        <4>. QED BY <3>2, <4>1, <4>2
      <3>. QED BY <3>1, <3>2
    <2>2. \A i \in 1 .. Len(e) : q[i] = p[i]
      BY <1>1
    <2>3. (\A i \in 1 .. Len(e) :
              p[i].kind \in {"create", "close", "replace"} => e[i].result # "refused")
          <=> (\A i \in 1 .. Len(e) :
              q[i].kind \in {"create", "close", "replace"} => e[i].result # "refused")
      BY <2>2
    <2>4. \A u : /\ (\E i \in 1 .. Len(e) : p[i].kind = "close" /\ p[i].tab = u)
                    <=> (\E i \in 1 .. Len(e) : q[i].kind = "close" /\ q[i].tab = u)
                 /\ (\E i \in 1 .. Len(e) :
                        p[i].kind = "create" /\ p[i].tab = u /\ e[i].result = "ok")
                    <=> (\E i \in 1 .. Len(e) :
                        q[i].kind = "create" /\ q[i].tab = u /\ e[i].result = "ok")
      BY <2>2
    <2> DEFINE V(u) == \/ /\ u \in s.materialized
                          /\ ~\E i \in 1 .. Len(e) : p[i].kind = "close" /\ p[i].tab = u
                       \/ \E i \in 1 .. Len(e) :
                             p[i].kind = "create" /\ p[i].tab = u /\ e[i].result = "ok"
               W(u) == \/ /\ u \in s.materialized
                          /\ ~\E i \in 1 .. Len(e) : q[i].kind = "close" /\ q[i].tab = u
                       \/ \E i \in 1 .. Len(e) :
                             q[i].kind = "create" /\ q[i].tab = u /\ e[i].result = "ok"
    <2>5. ASSUME NEW u PROVE V(u) <=> W(u)
      <3>1. (\E i \in 1 .. Len(e) : p[i].kind = "close" /\ p[i].tab = u)
            <=> (\E i \in 1 .. Len(e) : q[i].kind = "close" /\ q[i].tab = u)
        BY <2>4
      <3>2. (\E i \in 1 .. Len(e) : p[i].kind = "create" /\ p[i].tab = u /\ e[i].result = "ok")
            <=> (\E i \in 1 .. Len(e) :
                    q[i].kind = "create" /\ q[i].tab = u /\ e[i].result = "ok")
        BY SMTT(30), <2>4
      <3>. QED BY <3>1, <3>2
    <2> HIDE DEF V, W
    <2>6. (\A u \in Tab : u \in r.views <=> V(u)) <=> (\A u \in Tab : u \in r.views <=> W(u))
      BY <2>5
    <2>. QED BY <2>1, <2>3, <2>6 DEF Views, V, W
  <1>10. Drawn(s, p) <=> Drawn(s, q)
    <2>1. (\E i \in 1 .. Len(p) : p[i].kind = "render" /\ p[i].permit.generation = Gen(s))
          <=> (\E i \in 1 .. Len(q) : q[i].kind = "render" /\ q[i].permit.generation = Gen(s))
      <3>1. ASSUME NEW i \in 1 .. Len(p), p[i].kind = "render", p[i].permit.generation = Gen(s)
            PROVE  \E k \in 1 .. Len(q) : q[k].kind = "render" /\ q[k].permit.generation = Gen(s)
        <4>1. M(i) \in 1 .. Len(q) /\ q[M(i)] = p[i]
          BY <1>1
        <4>. QED BY <3>1, <4>1
      <3>2. ASSUME NEW k \in 1 .. Len(q), q[k].kind = "render", q[k].permit.generation = Gen(s)
            PROVE  \E i \in 1 .. Len(p) : p[i].kind = "render" /\ p[i].permit.generation = Gen(s)
        <4>1. PICK i \in 1 .. Len(p) : k = M(i) /\ q[k] = p[i]
          BY <1>2, <3>2
        <4>. QED BY <3>2, <4>1
      <3>. QED BY <3>1, <3>2
    <2>. QED BY <2>1 DEF Drawn
  <1>. QED BY <1>4, <1>5, <1>6, <1>7, <1>8, <1>9, <1>10

\* The view a navigation is for is there, and free for a local page.
LEMMA NavigationIsDue ==
    ASSUME NEW s, NEW p, NEW e, NEW r, NEW x, Sound(s, p, e, r, x), NEW w, NEW f,
           Push(p, e, w, f), w \in Results(p[Len(f)].kind), p[Len(f)].kind = "navigate"
    PROVE  /\ p[Len(f)].target.tab \in r.views
           /\ p[Len(f)].local => r.pending[p[Len(f)].target.tab] = NoTarget
  <1>1. /\ SoundShell(s) /\ s \in Shell /\ Strip(s) /\ Chrome(s) /\ Exclusive(s)
        /\ Pipes(p, e) /\ r \in Worker
        /\ Matched(s, p) /\ Alone(s, p, r) /\ Retiring(s, p, r) /\ Painted(s, x)
        /\ Local(s, p, r) /\ Owned(s, p, r) /\ Answered(s, p, e, r)
        /\ InSession(s, p, e, r) /\ Frames(s, p, e, r, x) /\ Views(s, p, e, r)
        /\ Ordered(p, e, r) /\ Stopped(p, e, r) /\ Drawn(s, p)
        /\ SoundButDrawn(s, p, e, r, x)
    BY DEF Sound, SoundButDrawn, SoundShell
  <1> DEFINE d == Len(f)
  <1>2. /\ Len(p) \in Nat /\ Len(e) \in Nat /\ Len(f) \in Nat
        /\ d = Len(e) + 1 /\ d \in 1 .. Len(p) /\ d \in 1 .. Len(f)
        /\ p[d] \in Command /\ f[d].result = w
        /\ d > Len(e) /\ ~(d <= Len(e)) /\ d <= Len(f)
        /\ \A i \in 1 .. Len(e) : i \in 1 .. Len(f) /\ f[i] = e[i] /\ i \in 1 .. Len(p) /\ i # d
        /\ \A i \in 1 .. Len(f) : \/ i \in 1 .. Len(e) /\ f[i] = e[i]
                                  \/ i = d
        /\ \A i \in 1 .. Len(p) :
              /\ i <= Len(f) <=> (i <= Len(e) \/ i = d)
              /\ i > Len(f) <=> (i > Len(e) /\ i # d)
              /\ i <= Len(e) => f[i] = e[i]
        /\ Pipes(p, f)
    BY <1>1, PushIs
  <1>3. p[d].kind = "navigate" /\ w \in Results(p[d].kind)
    OBVIOUS
  <1>4. /\ SoundShell(s) /\ Pipes(p, f) /\ r \in Worker
        /\ Matched(s, p) /\ Alone(s, p, r) /\ Retiring(s, p, r) /\ Painted(s, x)
        /\ Local(s, p, r) /\ Owned(s, p, r) /\ Answered(s, p, f, r)
        /\ InSession(s, p, f, r)
        /\ Frames(s, p, f, r, x)
        /\ Views(s, p, f, r)
        /\ Stopped(p, f, r)
    <2>1. /\ SoundShell(s) /\ Pipes(p, f) /\ r \in Worker
          /\ Matched(s, p) /\ Alone(s, p, r) /\ Retiring(s, p, r) /\ Painted(s, x)
          /\ Local(s, p, r) /\ Owned(s, p, r) /\ Answered(s, p, f, r)
          /\ p[Len(f)].kind \notin Starting \cup {"reset"} => InSession(s, p, f, r)
          /\ p[Len(f)].kind # "render" => Frames(s, p, f, r, x)
          /\ p[Len(f)].kind \notin {"spawn", "create", "close", "replace"} => Views(s, p, f, r)
          /\ p[Len(f)].kind \notin {"navigate", "close"} => Ordered(p, f, r)
          /\ p[Len(f)].kind # "cancel" => Stopped(p, f, r)
      BY <1>1, Pushed
    <2>. QED BY <2>1 DEF Starting
  <1> HIDE DEF d
  <1>5. \A i \in 1 .. Len(p) : i # d => /\ i <= Len(f) <=> i <= Len(e)
                                        /\ i > Len(f) <=> i > Len(e)
                                        /\ i <= Len(f) => f[i] = e[i]
    BY <1>2
  <1>6. /\ p[d].target \in Target /\ p[d].target.tab \in Tab
        /\ p[d].target.navigation \in Nat /\ NavigatesTab(p[d], p[d].target.tab)
    <2>1. p[d].target \in Target
      BY <1>2, <1>3, CommandIs
    <2>. QED BY <1>3, <2>1 DEF Target, NavigatesTab
  <1>7. s.reset = 0
    BY <1>1, <1>2, <1>3 DEF Alone, Starting
  <1>8. p[d].target.tab \in r.views \/ \E i \in 1 .. Len(p) : p[i].kind = "spawn" /\ i > Len(e)
    <2>1. p[d].target.tab \in s.materialized
      BY <1>1, <1>2, <1>3 DEF Owned
    <2>2. ASSUME NEW i \in 1 .. Len(e), p[i].kind = "close", p[i].tab = p[d].target.tab PROVE FALSE
      <3>1. d < i /\ i \in 1 .. Len(p) /\ i < d
        BY <1>1, <1>2, <1>6, <2>2 DEF Ordered
      <3>. QED BY <1>2, <3>1
    <2>. QED BY <1>1, <1>6, <1>7, <2>1, <2>2 DEF Views
  <1>9. \A i \in 1 .. Len(p) : p[i].kind = "spawn" => ~(i > Len(e))
    <2>1. ASSUME NEW i \in 1 .. Len(p), p[i].kind = "spawn", i > Len(e) PROVE FALSE
      <3>1. i <= Len(e) + 1
        BY <1>1, <2>1 DEF InSession
      <3>. QED BY <1>2, <1>3, <2>1, <3>1
    <2>. QED BY <2>1
  <1>10. p[d].local => r.pending[p[d].target.tab] = NoTarget
    <2>1. p[d].local = ~s.remote[p[d].target.tab]
      BY <1>1, <1>2, <1>3 DEF Local
    <2>2. s.remote \in [Tab -> BOOLEAN]
      BY <1>1 DEF Shell
    <2>3. p[d].local => ~s.remote[p[d].target.tab]
      BY <2>1
    <2>. QED BY <1>1, <1>6, <2>3 DEF Local
  <1>. QED BY <1>8, <1>9, <1>10 DEF d

\* The navigation under way is superseded by the next of its tab.
LEMMA NavigationSuperseded ==
    ASSUME NEW s, NEW p, NEW e, NEW r, NEW x, Sound(s, p, e, r, x), NEW w, NEW f,
           Push(p, e, w, f), w \in Results(p[Len(f)].kind), p[Len(f)].kind = "navigate",
           NEW r2 \in Worker,
           r2.session = r.session, r2.tab = r.tab, r2.generation = r.generation,
           r2.attached = r.attached, r2.views = r.views,
           r2.pending = [r.pending EXCEPT ![p[Len(f)].target.tab] = NoTarget]
    PROVE  Sound(s, p, e, r2, x)
  <1>1. /\ SoundShell(s) /\ s \in Shell /\ Strip(s) /\ Chrome(s) /\ Exclusive(s)
        /\ Pipes(p, e) /\ r \in Worker
        /\ Matched(s, p) /\ Alone(s, p, r) /\ Retiring(s, p, r) /\ Painted(s, x)
        /\ Local(s, p, r) /\ Owned(s, p, r) /\ Answered(s, p, e, r)
        /\ InSession(s, p, e, r) /\ Frames(s, p, e, r, x) /\ Views(s, p, e, r)
        /\ Ordered(p, e, r) /\ Stopped(p, e, r) /\ Drawn(s, p)
        /\ SoundButDrawn(s, p, e, r, x)
    BY DEF Sound, SoundButDrawn, SoundShell
  <1> DEFINE d == Len(f)
  <1>2. /\ Len(p) \in Nat /\ Len(e) \in Nat /\ Len(f) \in Nat
        /\ d = Len(e) + 1 /\ d \in 1 .. Len(p) /\ d \in 1 .. Len(f)
        /\ p[d] \in Command /\ f[d].result = w
        /\ d > Len(e) /\ ~(d <= Len(e)) /\ d <= Len(f)
        /\ \A i \in 1 .. Len(e) : i \in 1 .. Len(f) /\ f[i] = e[i] /\ i \in 1 .. Len(p) /\ i # d
        /\ \A i \in 1 .. Len(f) : \/ i \in 1 .. Len(e) /\ f[i] = e[i]
                                  \/ i = d
        /\ \A i \in 1 .. Len(p) :
              /\ i <= Len(f) <=> (i <= Len(e) \/ i = d)
              /\ i > Len(f) <=> (i > Len(e) /\ i # d)
              /\ i <= Len(e) => f[i] = e[i]
        /\ Pipes(p, f)
    BY <1>1, PushIs
  <1>3. p[d].kind = "navigate" /\ w \in Results(p[d].kind)
    OBVIOUS
  <1>4. /\ SoundShell(s) /\ Pipes(p, f) /\ r \in Worker
        /\ Matched(s, p) /\ Alone(s, p, r) /\ Retiring(s, p, r) /\ Painted(s, x)
        /\ Local(s, p, r) /\ Owned(s, p, r) /\ Answered(s, p, f, r)
        /\ InSession(s, p, f, r)
        /\ Frames(s, p, f, r, x)
        /\ Views(s, p, f, r)
        /\ Stopped(p, f, r)
    <2>1. /\ SoundShell(s) /\ Pipes(p, f) /\ r \in Worker
          /\ Matched(s, p) /\ Alone(s, p, r) /\ Retiring(s, p, r) /\ Painted(s, x)
          /\ Local(s, p, r) /\ Owned(s, p, r) /\ Answered(s, p, f, r)
          /\ p[Len(f)].kind \notin Starting \cup {"reset"} => InSession(s, p, f, r)
          /\ p[Len(f)].kind # "render" => Frames(s, p, f, r, x)
          /\ p[Len(f)].kind \notin {"spawn", "create", "close", "replace"} => Views(s, p, f, r)
          /\ p[Len(f)].kind \notin {"navigate", "close"} => Ordered(p, f, r)
          /\ p[Len(f)].kind # "cancel" => Stopped(p, f, r)
      BY <1>1, Pushed
    <2>. QED BY <2>1 DEF Starting
  <1> HIDE DEF d
  <1>5. \A i \in 1 .. Len(p) : i # d => /\ i <= Len(f) <=> i <= Len(e)
                                        /\ i > Len(f) <=> i > Len(e)
                                        /\ i <= Len(f) => f[i] = e[i]
    BY <1>2
  <1>6. /\ p[d].target \in Target /\ p[d].target.tab \in Tab
        /\ p[d].target.navigation \in Nat /\ NavigatesTab(p[d], p[d].target.tab)
    <2>1. p[d].target \in Target
      BY <1>2, <1>3, CommandIs
    <2>. QED BY <1>3, <2>1 DEF Target, NavigatesTab
  <1> DEFINE t == p[d].target.tab
  <1>7. /\ r2.pending[t] = NoTarget
        /\ \A u \in Tab : u # t => r2.pending[u] = r.pending[u]
    <2>1. r2.pending = [r.pending EXCEPT ![t] = NoTarget]
      BY DEF d
    <2>2. r.pending \in [Tab -> Target \cup {NoTarget}]
      BY <1>1 DEF Worker
    <2>. QED BY <1>6, <2>1, <2>2
  <1> HIDE DEF t
  <1>8. /\ \A u \in Tab : r2.pending[u] # NoTarget => r2.pending[u] = r.pending[u] /\ u # t
        /\ \A u \in Tab : r2.pending[u] = r.pending[u] \/ r2.pending[u] = NoTarget
        /\ \A u \in Tab : r.pending[u] = NoTarget => r2.pending[u] = NoTarget
        /\ t \in Tab
    BY <1>6, <1>7 DEF t
  <1>9. Alone(s, p, r2) /\ Retiring(s, p, r2) /\ Local(s, p, r2) /\ Owned(s, p, r2)
    BY <1>1, <1>8 DEF Alone, Retiring, Local, Owned
  <1>10. Frames(s, p, e, r2, x) /\ InSession(s, p, e, r2) /\ Views(s, p, e, r2)
    BY <1>1 DEF Frames, InSession, AsStarted, Views
  <1>11. Ordered(p, e, r2)
    BY <1>1, <1>8 DEF Ordered
  <1>12. Stopped(p, e, r2)
    <2>1. \A i \in 1 .. Len(e) : p[i].kind = "cancel" => p[i].target \in Target
      <3>1. \A i \in 1 .. Len(e) : p[i] \in Command
        BY <1>1, <1>2 DEF Pipes
      <3>. QED BY <3>1, CommandIs
    <2>2. \A target \in Target : target.tab \in Tab /\ target # NoTarget
      BY DEF Target, NoTarget, Tab, NoTab
    <2>. QED BY <1>1, <1>8, <2>1, <2>2 DEF Stopped
  <1>13. Answered(s, p, e, r2)
    <2>1. \A u \in Range(s.tabs) : u \in Tab
      BY <1>1, TabsAre
    <2>2. ASSUME NEW u \in Range(s.tabs), s.targets[u] # NoTarget
          PROVE  /\ s.targets[u].tab = u /\ s.targets[u] \in Target /\ s.targets[u].navigation \in Nat
                 /\ u = t => r.pending[u] # s.targets[u]
      <3>1. s.targets[u].tab = u /\ s.targets[u] \in Target
        BY <1>1, <2>1, <2>2 DEF Owned, Shell
      <3>2. s.targets[u].navigation \in Nat
        BY <3>1 DEF Target
      <3>3. ASSUME u = t, r.pending[u] = s.targets[u] PROVE FALSE
        <4>1. p[d].target.navigation <= s.targets[u].navigation
          BY <1>1, <1>2, <1>6, <2>2, <3>3 DEF Answered, t
        <4>2. p[d].target.navigation > s.targets[u].navigation
          BY <1>1, <1>2, <1>6, <2>1, <2>2, <3>3 DEF Ordered, t
        <4>. QED BY <1>6, <3>2, <4>1, <4>2
      <3>. QED BY <3>1, <3>2, <3>3
    <2>3. ASSUME NEW u \in Range(s.tabs), s.targets[u] # NoTarget, Carried(p, e, r, s.targets[u])
          PROVE  Carried(p, e, r2, s.targets[u])
      BY <1>7, <2>1, <2>2, <2>3 DEF Carried
    <2>4. NoTarget.navigation = 0
      BY DEF NoTarget
    <2>. QED BY <1>1, <1>8, <2>1, <2>2, <2>3, <2>4 DEF Answered
  <1>. QED BY <1>1, <1>9, <1>10, <1>11, <1>12, <1>13 DEF Sound, SoundButDrawn

\* A navigation ends at once.
LEMMA NavigationAnswered ==
    ASSUME NEW s, NEW p, NEW e, NEW r, NEW x, Sound(s, p, e, r, x), NEW w, NEW f,
           Push(p, e, w, f), w \in Results(p[Len(f)].kind), p[Len(f)].kind = "navigate",
           w # "refused",
           r.pending[p[Len(f)].target.tab] = NoTarget
    PROVE  Sound(s, p, f, r, x)
  <1>1. /\ SoundShell(s) /\ s \in Shell /\ Strip(s) /\ Chrome(s) /\ Exclusive(s)
        /\ Pipes(p, e) /\ r \in Worker
        /\ Matched(s, p) /\ Alone(s, p, r) /\ Retiring(s, p, r) /\ Painted(s, x)
        /\ Local(s, p, r) /\ Owned(s, p, r) /\ Answered(s, p, e, r)
        /\ InSession(s, p, e, r) /\ Frames(s, p, e, r, x) /\ Views(s, p, e, r)
        /\ Ordered(p, e, r) /\ Stopped(p, e, r) /\ Drawn(s, p)
        /\ SoundButDrawn(s, p, e, r, x)
    BY DEF Sound, SoundButDrawn, SoundShell
  <1> DEFINE d == Len(f)
  <1>2. /\ Len(p) \in Nat /\ Len(e) \in Nat /\ Len(f) \in Nat
        /\ d = Len(e) + 1 /\ d \in 1 .. Len(p) /\ d \in 1 .. Len(f)
        /\ p[d] \in Command /\ f[d].result = w
        /\ d > Len(e) /\ ~(d <= Len(e)) /\ d <= Len(f)
        /\ \A i \in 1 .. Len(e) : i \in 1 .. Len(f) /\ f[i] = e[i] /\ i \in 1 .. Len(p) /\ i # d
        /\ \A i \in 1 .. Len(f) : \/ i \in 1 .. Len(e) /\ f[i] = e[i]
                                  \/ i = d
        /\ \A i \in 1 .. Len(p) :
              /\ i <= Len(f) <=> (i <= Len(e) \/ i = d)
              /\ i > Len(f) <=> (i > Len(e) /\ i # d)
              /\ i <= Len(e) => f[i] = e[i]
        /\ Pipes(p, f)
    BY <1>1, PushIs
  <1>3. p[d].kind = "navigate" /\ w \in Results(p[d].kind)
    OBVIOUS
  <1>4. /\ SoundShell(s) /\ Pipes(p, f) /\ r \in Worker
        /\ Matched(s, p) /\ Alone(s, p, r) /\ Retiring(s, p, r) /\ Painted(s, x)
        /\ Local(s, p, r) /\ Owned(s, p, r) /\ Answered(s, p, f, r)
        /\ InSession(s, p, f, r)
        /\ Frames(s, p, f, r, x)
        /\ Views(s, p, f, r)
        /\ Stopped(p, f, r)
    <2>1. /\ SoundShell(s) /\ Pipes(p, f) /\ r \in Worker
          /\ Matched(s, p) /\ Alone(s, p, r) /\ Retiring(s, p, r) /\ Painted(s, x)
          /\ Local(s, p, r) /\ Owned(s, p, r) /\ Answered(s, p, f, r)
          /\ p[Len(f)].kind \notin Starting \cup {"reset"} => InSession(s, p, f, r)
          /\ p[Len(f)].kind # "render" => Frames(s, p, f, r, x)
          /\ p[Len(f)].kind \notin {"spawn", "create", "close", "replace"} => Views(s, p, f, r)
          /\ p[Len(f)].kind \notin {"navigate", "close"} => Ordered(p, f, r)
          /\ p[Len(f)].kind # "cancel" => Stopped(p, f, r)
      BY <1>1, Pushed
    <2>. QED BY <2>1 DEF Starting
  <1> HIDE DEF d
  <1>5. \A i \in 1 .. Len(p) : i # d => /\ i <= Len(f) <=> i <= Len(e)
                                        /\ i > Len(f) <=> i > Len(e)
                                        /\ i <= Len(f) => f[i] = e[i]
    BY <1>2
  <1>6. /\ p[d].target \in Target /\ p[d].target.tab \in Tab
        /\ p[d].target.navigation \in Nat /\ NavigatesTab(p[d], p[d].target.tab)
    <2>1. p[d].target \in Target
      BY <1>2, <1>3, CommandIs
    <2>. QED BY <1>3, <2>1 DEF Target, NavigatesTab
  <1>7. r.pending[p[d].target.tab] = NoTarget
    BY DEF d
  <1>8. Ordered(p, f, r)
    <2>1. \A i \in 1 .. Len(p), u \in Tab :
              NavigatesTab(p[i], u) /\ r.pending[u] # NoTarget =>
              IF i <= Len(f) THEN p[i].target.navigation < r.pending[u].navigation
                             ELSE p[i].target.navigation > r.pending[u].navigation
      <3>1. \A u \in Tab : NavigatesTab(p[d], u) => r.pending[u] = NoTarget
        BY <1>7 DEF NavigatesTab
      <3>. QED BY <1>1, <1>5, <3>1 DEF Ordered
    <2>2. /\ \A i \in 1 .. Len(f) : i # d => i \in 1 .. Len(e) /\ f[i] = e[i]
          /\ f[d].result # "refused" /\ p[d].kind # "close"
      BY <1>2, <1>3
    <2>3. \A i \in 1 .. Len(f) : p[i].kind = "navigate" => f[i].result # "refused"
      BY <1>1, <2>2 DEF Ordered
    <2>4. \A u \in Tab : r.pending[u] # NoTarget =>
                \A i \in 1 .. Len(f) : ~(p[i].kind = "close" /\ p[i].tab = u)
      BY <1>1, <2>2 DEF Ordered
    <2>. QED BY <1>1, <2>1, <2>3, <2>4 DEF Ordered
  <1>. QED BY <1>1, <1>4, <1>8 DEF Sound, SoundButDrawn

\* The worker takes a navigation in hand, which is then not in the pipe any more.
LEMMA NavigationBegun ==
    ASSUME NEW s, NEW q, NEW e, NEW r, NEW x, Sound(s, q, e, r, x), NEW p, NEW c,
           Len(p) \in Nat, Len(e) <= Len(p), Insert(p, e, c, q), c.kind = "navigate",
           NEW r2 \in Worker, r2.session = r.session, r2.tab = r.tab,
           r2.generation = r.generation, r2.attached = r.attached, r2.views = r.views,
           r2.pending = [r.pending EXCEPT ![c.target.tab] = c.target], ~c.local
    PROVE  Sound(s, p, e, r2, x)
  <1> DEFINE d == Len(e) + 1
             M(i) == Moved(e, i)
             t == c.target.tab
  <1>1. /\ SoundShell(s) /\ s \in Shell /\ Strip(s)
        /\ Pipes(q, e) /\ r \in Worker
        /\ Matched(s, q) /\ Alone(s, q, r) /\ Retiring(s, q, r) /\ Painted(s, x)
        /\ Local(s, q, r) /\ Owned(s, q, r) /\ Answered(s, q, e, r)
        /\ InSession(s, q, e, r) /\ Frames(s, q, e, r, x) /\ Views(s, q, e, r)
        /\ Ordered(q, e, r) /\ Stopped(q, e, r) /\ Drawn(s, q)
    BY DEF Sound, SoundButDrawn, SoundShell
  <1>2. Len(e) \in Nat
    BY <1>1 DEF Pipes
  <1>3. /\ Len(q) \in Nat /\ Len(e) <= Len(q)
        /\ d \in 1 .. Len(q) /\ q[d] = c /\ ~(d <= Len(e)) /\ d = Len(e) + 1
        /\ \A i \in 1 .. Len(p) :
              /\ M(i) \in 1 .. Len(q) /\ q[M(i)] = p[i]
              /\ M(i) # d
              /\ M(i) <= Len(e) <=> i <= Len(e)
              /\ M(i) > Len(e) <=> i > Len(e)
              /\ i <= Len(e) => M(i) = i /\ M(i) < d
              /\ i > Len(e) => d < M(i)
              /\ \A j \in 1 .. Len(p) :
                    /\ M(i) < M(j) <=> i < j
                    /\ M(i) > M(j) <=> i > j
        /\ \A k \in 1 .. Len(q) : k # d => \E i \in 1 .. Len(p) : k = M(i)
        /\ \A i \in 1 .. Len(e) : i \in 1 .. Len(p) /\ i \in 1 .. Len(q) /\ q[i] = p[i]
                                  /\ M(i) = i /\ i # d /\ i < d
    BY InsertIs
  <1> HIDE DEF d, M
  <1>4. /\ c \in Command /\ c.target \in Target /\ t \in Tab /\ c.target # NoTarget
        /\ NavigatesTab(q[d], t) /\ q[d].kind = "navigate" /\ q[d].target = c.target
        /\ c.target.navigation \in Nat
    <2>1. c \in Command
      BY <1>1, <1>3 DEF Pipes
    <2>2. c.target \in Target
      BY <2>1, CommandIs
    <2>. QED BY <1>3, <2>1, <2>2 DEF Target, NoTarget, NavigatesTab, Tab, NoTab
  <1>5. \A i \in 1 .. Len(p) : p[i].kind = "spawn" => i <= Len(e)
    <2>1. ASSUME NEW i \in 1 .. Len(p), p[i].kind = "spawn", i > Len(e) PROVE FALSE
      <3>1. M(i) <= d /\ d < M(i)
        BY <1>1, <1>3, <2>1 DEF InSession
      <3>. QED BY <1>2, <1>3, <3>1
    <2>. QED BY <1>2, <2>1
  <1>6. /\ c \in Command /\ Len(p) \in Nat /\ Len(e) \in Nat /\ Len(e) <= Len(p)
        /\ Insert(p, e, c, q) /\ c.kind = "navigate"
        /\ \A i \in 1 .. Len(p) : p[i].kind = "spawn" => i <= Len(e)
    BY <1>2, <1>4, <1>5
  <1>7. Pipes(p, e) /\ Matched(s, p) /\ Retiring(s, p, r) /\ InSession(s, p, e, r)
        /\ Frames(s, p, e, r, x) /\ Views(s, p, e, r) /\ Drawn(s, p)
    <2>1. /\ Pipes(p, e) <=> Pipes(q, e)
          /\ Matched(s, p) <=> Matched(s, q)
          /\ InSession(s, p, e, r) <=> InSession(s, q, e, r)
          /\ Frames(s, p, e, r, x) <=> Frames(s, q, e, r, x)
          /\ Retiring(s, p, r) <=> Retiring(s, q, r)
          /\ Views(s, p, e, r) <=> Views(s, q, e, r)
          /\ Drawn(s, p) <=> Drawn(s, q)
      BY <1>6, Inserted
    <2>. QED BY <1>1, <2>1
  <1>8. /\ Retiring(s, p, r2) /\ InSession(s, p, e, r2) /\ Frames(s, p, e, r2, x)
        /\ Views(s, p, e, r2)
    BY <1>7 DEF Retiring, InSession, AsStarted, Frames, Views
  <1>9. /\ r2.pending[t] = c.target
        /\ \A u \in Tab : u # t => r2.pending[u] = r.pending[u]
    <2>1. r2.pending = [r.pending EXCEPT ![t] = c.target]
      BY DEF t
    <2>2. r.pending \in [Tab -> Target \cup {NoTarget}]
      BY <1>1 DEF Worker
    <2>. QED BY <1>4, <2>1, <2>2
  <1>10. s.reset = 0
    BY <1>1, <1>3, <1>4 DEF Alone, Starting
  <1>11. Alone(s, p, r2)
    BY <1>10 DEF Alone
  <1>12. Local(s, p, r2)
    <2>1. c.local = ~s.remote[t]
      BY <1>1, <1>3, <1>4 DEF Local, t
    <2>2. s.remote[t] \in BOOLEAN
      BY <1>1, <1>4 DEF Shell
    <2>3. s.remote[t]
      BY <2>1, <2>2
    <2>4. \A u \in Tab : r2.pending[u] # NoTarget => s.remote[u] /\ r2.pending[u].tab = u
      <3>1. r2.pending[t].tab = t
        BY <1>9 DEF t
      <3>. QED BY <1>1, <1>9, <2>3, <3>1 DEF Local
    <2>5. \A i \in 1 .. Len(p) :
             p[i].kind = "navigate" => p[i].local = ~s.remote[p[i].target.tab]
      <3>1. ASSUME NEW i \in 1 .. Len(p), p[i].kind = "navigate"
            PROVE  p[i].local = ~s.remote[p[i].target.tab]
        <4>1. M(i) \in 1 .. Len(q) /\ q[M(i)] = p[i]
          BY <1>3
        <4>2. q[M(i)].local = ~s.remote[q[M(i)].target.tab]
          BY <1>1, <3>1, <4>1 DEF Local
        <4>. QED BY <4>1, <4>2
      <3>. QED BY <3>1
    <2>. QED BY <2>4, <2>5 DEF Local
  <1>13. Owned(s, p, r2)
    <2>1. Own(s, c.target) /\ t \in s.materialized
      BY <1>1, <1>3, <1>4 DEF Owned, t
    <2>2. \A i \in 1 .. Len(p) : p[i].kind = "navigate" =>
             Own(s, p[i].target) /\ p[i].target.tab \in s.materialized
      BY <1>1, <1>3 DEF Owned
    <2>3. \A u \in Tab : r2.pending[u] # NoTarget => Own(s, r2.pending[u]) /\ u \in s.materialized
      BY <1>1, <1>9, <2>1 DEF Owned
    <2>. QED BY <1>1, <2>2, <2>3 DEF Owned
  <1>14. Ordered(p, e, r2)
    <2>1. ASSUME NEW i \in 1 .. Len(p), NEW j \in 1 .. Len(p)
          PROVE  /\ p[i].kind = "navigate" /\ NavigatesTab(p[j], p[i].target.tab) /\ i < j
                       => p[i].target.navigation < p[j].target.navigation
                 /\ p[j].kind = "close" /\ NavigatesTab(p[i], p[j].tab) => i < j
                 /\ p[i].kind = "navigate" /\ p[j].kind = "cancel" /\ p[i].target = p[j].target
                       => i < j
      <3>1. /\ M(i) \in 1 .. Len(q) /\ M(j) \in 1 .. Len(q) /\ (M(i) < M(j) <=> i < j)
            /\ q[M(i)] = p[i] /\ q[M(j)] = p[j]
        BY <1>3
      <3>. QED BY <1>1, <3>1 DEF Ordered
    <2>2. ASSUME NEW i \in 1 .. Len(p), NEW u \in Tab, NavigatesTab(p[i], u), r2.pending[u] # NoTarget
          PROVE  IF i <= Len(e) THEN p[i].target.navigation < r2.pending[u].navigation
                                ELSE p[i].target.navigation > r2.pending[u].navigation
      <3>1. /\ M(i) \in 1 .. Len(q) /\ q[M(i)] = p[i] /\ (M(i) <= Len(e) <=> i <= Len(e))
            /\ i <= Len(e) => M(i) < d
            /\ ~(i <= Len(e)) => d < M(i)
        BY <1>2, <1>3
      <3>2. CASE u # t
        BY <1>1, <1>9, <2>2, <3>1, <3>2 DEF Ordered
      <3>3. CASE u = t
        <4>1. NavigatesTab(q[M(i)], q[d].target.tab) /\ q[M(i)].kind = "navigate"
              /\ NavigatesTab(q[d], q[M(i)].target.tab)
          BY <1>4, <2>2, <3>1, <3>3 DEF NavigatesTab, t
        <4>2. /\ M(i) < d => q[M(i)].target.navigation < q[d].target.navigation
              /\ d < M(i) => q[d].target.navigation < q[M(i)].target.navigation
          BY <1>1, <1>3, <1>4, <3>1, <4>1 DEF Ordered
        <4>3. q[M(i)].target.navigation \in Nat
          <5>1. q[M(i)] \in Command
            BY <1>1, <3>1 DEF Pipes
          <5>2. q[M(i)].target \in Target
            BY <4>1, <5>1, CommandIs
          <5>. QED BY <5>2 DEF Target
        <4>. QED BY <1>4, <1>9, <3>1, <3>3, <4>2, <4>3
      <3>. QED BY <3>2, <3>3
    <2>3. \A i \in 1 .. Len(e) : p[i].kind = "navigate" => e[i].result # "refused"
      BY <1>1, <1>3 DEF Ordered
    <2>4. ASSUME NEW u \in Tab, r2.pending[u] # NoTarget, NEW i \in 1 .. Len(e),
                 p[i].kind = "close", p[i].tab = u
          PROVE  FALSE
      <3>1. i \in 1 .. Len(q) /\ q[i] = p[i] /\ i < d
        BY <1>3
      <3>2. u = t
        BY <1>1, <1>9, <2>4, <3>1 DEF Ordered
      <3>3. d < i
        BY <1>1, <1>3, <1>4, <2>4, <3>1, <3>2 DEF Ordered
      <3>. QED BY <1>2, <1>3, <3>1, <3>3
    <2>. QED BY <2>1, <2>2, <2>3, <2>4 DEF Ordered
  <1>15. Stopped(p, e, r2)
    <2>1. ASSUME NEW i \in 1 .. Len(e), p[i].kind = "cancel"
          PROVE  /\ e[i].result # "refused"
                 /\ r2.pending[p[i].target.tab] # p[i].target
                 /\ e[i].result # "no" /\ r2.pending[p[i].target.tab] # NoTarget =>
                       r2.pending[p[i].target.tab].navigation > p[i].target.navigation
                 /\ e[i].result # "no" =>
                       \A j \in 1 .. Len(p) : NavigatesTab(p[j], p[i].target.tab) =>
                          /\ j < i => p[j].target # p[i].target
                          /\ j > i => p[j].target.navigation > p[i].target.navigation
      <3>1. i \in 1 .. Len(q) /\ q[i] = p[i] /\ i < d /\ M(i) = i /\ i \in 1 .. Len(p) /\ d > i /\ ~(d < i)
        BY <1>2, <1>3
      <3>2. p[i].target \in Target /\ p[i].target.tab \in Tab
        <4>1. q[i] \in Command
          BY <1>1, <3>1 DEF Pipes
        <4>2. p[i].target \in Target
          BY <2>1, <3>1, <4>1, CommandIs
        <4>. QED BY <4>2 DEF Target
      <3>3. c.target # p[i].target
        BY <1>1, <1>3, <1>4, <2>1, <3>1 DEF Ordered
      <3>4. /\ e[i].result # "refused"
            /\ r.pending[p[i].target.tab] # p[i].target
            /\ e[i].result # "no" /\ r.pending[p[i].target.tab] # NoTarget =>
                       r.pending[p[i].target.tab].navigation > p[i].target.navigation
        BY <1>1, <2>1, <3>1 DEF Stopped
      <3>5. e[i].result # "no" /\ p[i].target.tab = t => c.target.navigation > p[i].target.navigation
        <4>1. p[i].target.tab = t => NavigatesTab(q[d], q[i].target.tab)
          BY <1>4, <3>1
        <4>2. /\ q[i].kind = "cancel" /\ q[d].target.tab = t /\ d \in 1 .. Len(q) /\ d > i
              /\ q[d].target = c.target
          BY <1>3, <1>4, <2>1, <3>1
        <4>3. e[i].result # "no" /\ NavigatesTab(q[d], q[i].target.tab) =>
                 q[d].target.navigation > q[i].target.navigation
          BY <1>1, <4>2 DEF Stopped
        <4>. QED BY <3>1, <4>1, <4>2, <4>3
      <3>6. ASSUME e[i].result # "no", NEW j \in 1 .. Len(p), NavigatesTab(p[j], p[i].target.tab)
            PROVE  /\ j < i => p[j].target # p[i].target
                   /\ j > i => p[j].target.navigation > p[i].target.navigation
        <4>1. M(j) \in 1 .. Len(q) /\ q[M(j)] = p[j] /\ (M(j) < M(i) <=> j < i) /\ (M(j) > M(i) <=> j > i)
          BY <1>3, <3>1
        <4>. QED BY <1>1, <2>1, <3>1, <3>6, <4>1 DEF Stopped
      <3>7. CASE p[i].target.tab = t
        BY <1>9, <3>3, <3>4, <3>6, <3>7, <3>5
      <3>8. CASE p[i].target.tab # t
        BY <1>9, <3>2, <3>4, <3>6, <3>8
      <3>. QED BY <3>7, <3>8
    <2>. QED BY <2>1 DEF Stopped
  <1>16. Answered(s, p, e, r2)
    <2>1. \A u \in Range(s.tabs) : u \in Tab
      BY <1>1, TabsAre
    <2>2. ASSUME NEW u \in Range(s.tabs), s.targets[u] = NoTarget
          PROVE  r2.pending[u] = NoTarget /\ \A i \in 1 .. Len(p) : ~NavigatesTab(p[i], u)
      <3>1. r.pending[u] = NoTarget /\ \A i \in 1 .. Len(q) : ~NavigatesTab(q[i], u)
        BY <1>1, <2>2 DEF Answered
      <3>2. u # t
        BY <1>3, <1>4, <3>1
      <3>3. ASSUME NEW i \in 1 .. Len(p) PROVE ~NavigatesTab(p[i], u)
        <4>1. M(i) \in 1 .. Len(q) /\ q[M(i)] = p[i]
          BY <1>3
        <4>. QED BY <3>1, <4>1
      <3>4. r2.pending[u] = NoTarget
        BY <1>9, <2>1, <3>1, <3>2
      <3>. QED BY <3>3, <3>4
    <2>3. ASSUME NEW u \in Range(s.tabs), s.targets[u] # NoTarget
          PROVE  /\ r2.pending[u].navigation <= s.targets[u].navigation
                 /\ \A i \in 1 .. Len(p) : NavigatesTab(p[i], u) =>
                       p[i].target.navigation <= s.targets[u].navigation
                 /\ Carried(p, e, r2, s.targets[u])
      <3>1. /\ r.pending[u].navigation <= s.targets[u].navigation
            /\ \A i \in 1 .. Len(q) : NavigatesTab(q[i], u) =>
                  q[i].target.navigation <= s.targets[u].navigation
            /\ Carried(q, e, r, s.targets[u])
        BY <1>1, <2>3 DEF Answered
      <3>2. r2.pending[u].navigation <= s.targets[u].navigation
        BY <1>3, <1>4, <1>9, <2>1, <3>1
      <3>3. \A i \in 1 .. Len(p) : NavigatesTab(p[i], u) =>
                p[i].target.navigation <= s.targets[u].navigation
        <4>1. ASSUME NEW i \in 1 .. Len(p), NavigatesTab(p[i], u)
              PROVE  p[i].target.navigation <= s.targets[u].navigation
          <5>1. M(i) \in 1 .. Len(q) /\ q[M(i)] = p[i]
            BY <1>3
          <5>. QED BY <3>1, <4>1, <5>1
        <4>. QED BY <4>1
      <3>4. s.targets[u].tab = u /\ s.targets[u].navigation \in Nat
        <4>1. s.targets[u].tab = u /\ s.targets[u] \in Target
          BY <1>1, <2>1, <2>3 DEF Owned, Shell
        <4>. QED BY <4>1 DEF Target
      <3>5. Carried(p, e, r2, s.targets[u])
        <4>1. CASE \E i \in 1 .. Len(q) : q[i].kind = "navigate" /\ q[i].target = s.targets[u]
          <5>1. PICK k \in 1 .. Len(q) : q[k].kind = "navigate" /\ q[k].target = s.targets[u]
            BY <4>1
          <5>2. CASE k = d
            <6>1. c.target = s.targets[u]
              BY <1>3, <5>1, <5>2
            <6>2. s.targets[u].tab = t
              BY <6>1 DEF t
            <6>3. r2.pending[s.targets[u].tab] = s.targets[u]
              BY <1>9, <6>1, <6>2
            <6>. QED BY <6>3 DEF Carried
          <5>3. CASE k # d
            <6>1. PICK i \in 1 .. Len(p) : k = M(i)
              BY <1>3, <5>3
            <6>2. p[i].kind = "navigate" /\ p[i].target = s.targets[u]
              BY <1>3, <5>1, <6>1
            <6>. QED BY <6>2 DEF Carried
          <5>. QED BY <5>2, <5>3
        <4>2. CASE r.pending[u] = s.targets[u]
          <5>1. u # t
            <6>1. ASSUME u = t PROVE FALSE
              <7>1. c.target.navigation <= s.targets[u].navigation
                BY <1>3, <1>4, <3>1, <6>1
              <7>2. c.target.navigation > s.targets[u].navigation
                BY <1>1, <1>3, <1>4, <2>3, <4>2, <6>1 DEF Ordered
              <7>. QED BY <1>4, <3>4, <7>1, <7>2
            <6>. QED BY <6>1
          <5>2. r2.pending[u] = s.targets[u]
            BY <1>9, <2>1, <4>2, <5>1
          <5>. QED BY <3>4, <5>2 DEF Carried
        <4>3. CASE \E i \in 1 .. Len(e) :
                     q[i].kind = "cancel" /\ q[i].target = s.targets[u] /\ e[i].result # "no"
          <5>1. \E i \in 1 .. Len(e) :
                     p[i].kind = "cancel" /\ p[i].target = s.targets[u] /\ e[i].result # "no"
            BY <1>3, <4>3
          <5>. QED BY <5>1 DEF Carried
        <4>. QED BY <3>1, <3>4, <4>1, <4>2, <4>3 DEF Carried
      <3>. QED BY <3>2, <3>3, <3>5
    <2>. QED BY <2>2, <2>3 DEF Answered
  <1>. QED BY <1>1, <1>7, <1>8, <1>11, <1>12, <1>13, <1>14, <1>15, <1>16 DEF Sound, SoundButDrawn

\* A navigation that ends is in the pipe as if it had waited there.
LEMMA NavigationReturned ==
    ASSUME NEW s, NEW p, NEW e, NEW r, NEW x, Sound(s, p, e, r, x), NEW t \in Tab,
           r.pending[t] # NoTarget, NEW c \in Command, c.kind = "navigate",
           c.target = r.pending[t], ~c.local, NEW q,
           Insert(p, e, c, q), \A i \in 1 .. Len(p) : p[i].kind = "spawn" => i <= Len(e),
           NEW r2 \in Worker, r2.session = r.session, r2.tab = r.tab,
           r2.generation = r.generation, r2.attached = r.attached, r2.views = r.views,
           r2.pending = [r.pending EXCEPT ![t] = NoTarget]
    PROVE  Sound(s, q, e, r2, x)
  <1> DEFINE d == Len(e) + 1
             M(i) == Moved(e, i)
  <1>1. /\ SoundShell(s) /\ s \in Shell /\ Strip(s)
        /\ Pipes(p, e) /\ r \in Worker
        /\ Matched(s, p) /\ Alone(s, p, r) /\ Retiring(s, p, r) /\ Painted(s, x)
        /\ Local(s, p, r) /\ Owned(s, p, r) /\ Answered(s, p, e, r)
        /\ InSession(s, p, e, r) /\ Frames(s, p, e, r, x) /\ Views(s, p, e, r)
        /\ Ordered(p, e, r) /\ Stopped(p, e, r) /\ Drawn(s, p)
    BY DEF Sound, SoundButDrawn, SoundShell
  <1>2. Len(e) \in Nat /\ Len(p) \in Nat /\ Len(e) <= Len(p)
    BY <1>1 DEF Pipes
  <1>3. /\ Len(q) \in Nat /\ Len(e) <= Len(q)
        /\ d \in 1 .. Len(q) /\ q[d] = c /\ ~(d <= Len(e)) /\ d = Len(e) + 1
        /\ \A i \in 1 .. Len(p) :
              /\ M(i) \in 1 .. Len(q) /\ q[M(i)] = p[i]
              /\ M(i) # d
              /\ M(i) <= Len(e) <=> i <= Len(e)
              /\ M(i) > Len(e) <=> i > Len(e)
              /\ i <= Len(e) => M(i) = i /\ M(i) < d
              /\ i > Len(e) => d < M(i)
              /\ \A j \in 1 .. Len(p) :
                    /\ M(i) < M(j) <=> i < j
                    /\ M(i) > M(j) <=> i > j
        /\ \A k \in 1 .. Len(q) : k # d => \E i \in 1 .. Len(p) : k = M(i)
        /\ \A i \in 1 .. Len(e) : i \in 1 .. Len(p) /\ i \in 1 .. Len(q) /\ q[i] = p[i]
                                  /\ M(i) = i /\ i # d /\ i < d
    BY <1>2, InsertIs
  <1> HIDE DEF d, M
  <1>4. /\ c \in Command /\ c.kind = "navigate" /\ c.target = r.pending[t] /\ c.target \in Target
        /\ c.local = FALSE /\ c.target.tab = t /\ c.target.navigation \in Nat
        /\ NavigatesTab(c, t)
    <2>1. r.pending[t] \in Target
      BY <1>1 DEF Worker
    <2>2. r.pending[t].tab = t /\ r.pending[t].navigation \in Nat
      BY <1>1, <2>1 DEF Local, Target
    <2>. QED BY <2>1, <2>2 DEF NavigatesTab
  <1>5. /\ c \in Command /\ Len(p) \in Nat /\ Len(e) \in Nat /\ Len(e) <= Len(p)
        /\ Insert(p, e, c, q) /\ c.kind = "navigate"
        /\ \A i \in 1 .. Len(p) : p[i].kind = "spawn" => i <= Len(e)
    BY <1>2, <1>4
  <1>6. Pipes(q, e) /\ Matched(s, q) /\ Retiring(s, q, r) /\ InSession(s, q, e, r)
        /\ Frames(s, q, e, r, x) /\ Views(s, q, e, r) /\ Drawn(s, q)
    <2>1. /\ Pipes(p, e) <=> Pipes(q, e)
          /\ Matched(s, p) <=> Matched(s, q)
          /\ InSession(s, p, e, r) <=> InSession(s, q, e, r)
          /\ Frames(s, p, e, r, x) <=> Frames(s, q, e, r, x)
          /\ Retiring(s, p, r) <=> Retiring(s, q, r)
          /\ Views(s, p, e, r) <=> Views(s, q, e, r)
          /\ Drawn(s, p) <=> Drawn(s, q)
      BY <1>5, Inserted
    <2>. QED BY <1>1, <2>1
  <1>7. /\ Retiring(s, q, r2) /\ InSession(s, q, e, r2) /\ Frames(s, q, e, r2, x)
        /\ Views(s, q, e, r2)
    BY <1>6 DEF Retiring, InSession, AsStarted, Frames, Views
  <1>8. /\ r2.pending[t] = NoTarget
        /\ \A u \in Tab : u # t => r2.pending[u] = r.pending[u]
    <2>1. r.pending \in [Tab -> Target \cup {NoTarget}]
      BY <1>1 DEF Worker
    <2>. QED BY <2>1
  <1>9. \A u \in Tab : r2.pending[u] # NoTarget => r2.pending[u] = r.pending[u] /\ u # t
    BY <1>8
  <1>10. Alone(s, q, r2)
    BY <1>1 DEF Alone
  <1>11. Local(s, q, r2)
    <2>1. s.remote[t] /\ c.local = ~s.remote[c.target.tab]
      <3>1. s.remote[t]
        BY <1>1 DEF Local
      <3>. QED BY <1>4, <3>1
    <2>2. ASSUME NEW k \in 1 .. Len(q), q[k].kind = "navigate"
          PROVE  q[k].local = ~s.remote[q[k].target.tab]
      <3>1. CASE k = d
        BY <1>3, <2>1, <3>1
      <3>2. CASE k # d
        <4>1. PICK i \in 1 .. Len(p) : k = M(i)
          BY <1>3, <3>2
        <4>2. q[k] = p[i]
          BY <1>3, <4>1
        <4>. QED BY <1>1, <2>2, <4>2 DEF Local
      <3>. QED BY <3>1, <3>2
    <2>. QED BY <1>1, <1>9, <2>2 DEF Local
  <1>12. Owned(s, q, r2)
    <2>1. ASSUME NEW k \in 1 .. Len(q), q[k].kind = "navigate"
          PROVE  Own(s, q[k].target) /\ q[k].target.tab \in s.materialized
      <3>1. CASE k = d
        <4>1. Own(s, r.pending[t]) /\ t \in s.materialized
          BY <1>1 DEF Owned
        <4>2. q[k] = c
          BY <1>3, <3>1
        <4>. QED BY <1>4, <4>1, <4>2
      <3>2. CASE k # d
        <4>1. PICK i \in 1 .. Len(p) : k = M(i)
          BY <1>3, <3>2
        <4>2. q[k] = p[i]
          BY <1>3, <4>1
        <4>. QED BY <1>1, <2>1, <4>2 DEF Owned
      <3>. QED BY <3>1, <3>2
    <2>. QED BY <1>1, <1>9, <2>1 DEF Owned
  <1>13. Ordered(q, e, r2)
    <2>1. ASSUME NEW k \in 1 .. Len(q), NEW l \in 1 .. Len(q), q[k].kind = "navigate",
                 NavigatesTab(q[l], q[k].target.tab), k < l
          PROVE  q[k].target.navigation < q[l].target.navigation
      <3>1. CASE k = d
        <4>1. PICK j \in 1 .. Len(p) : l = M(j)
          BY <1>2, <1>3, <2>1, <3>1
        <4>2. /\ q[k] = c /\ q[l] = p[j] /\ NavigatesTab(p[j], t) /\ ~(j <= Len(e))
          <5>1. q[k] = c /\ q[l] = p[j]
            BY <1>3, <3>1, <4>1
          <5>2. ~(j <= Len(e))
            BY <1>2, <1>3, <2>1, <3>1, <4>1
          <5>3. q[k].target.tab = t
            BY <1>4, <5>1
          <5>. QED BY <2>1, <5>1, <5>2, <5>3
        <4>3. p[j].target.navigation > c.target.navigation
          BY <1>1, <1>4, <4>2 DEF Ordered
        <4>4. p[j].target.navigation \in Nat
          <5>1. p[j] \in Command /\ p[j].kind = "navigate"
            BY <1>1, <4>2 DEF Pipes, NavigatesTab
          <5>2. p[j].target \in Target
            BY <5>1, CommandIs
          <5>. QED BY <5>2 DEF Target
        <4>. QED BY <1>4, <4>2, <4>3, <4>4
      <3>2. CASE l = d
        <4>1. PICK i \in 1 .. Len(p) : k = M(i)
          BY <1>2, <1>3, <2>1, <3>2
        <4>2. /\ q[l] = c /\ q[k] = p[i] /\ i <= Len(e) /\ NavigatesTab(p[i], t)
          <5>1. q[l] = c /\ q[k] = p[i]
            BY <1>3, <3>2, <4>1
          <5>2. i <= Len(e)
            BY <1>2, <1>3, <2>1, <3>2, <4>1
          <5>3. q[k].target.tab = t
            BY <1>4, <2>1, <5>1 DEF NavigatesTab
          <5>. QED BY <2>1, <5>1, <5>2, <5>3 DEF NavigatesTab
        <4>. QED BY <1>1, <1>4, <4>2 DEF Ordered
      <3>3. CASE k # d /\ l # d
        <4>1. PICK i \in 1 .. Len(p) : k = M(i)
          BY <1>3, <3>3
        <4>2. PICK j \in 1 .. Len(p) : l = M(j)
          BY <1>3, <3>3
        <4>3. q[k] = p[i] /\ q[l] = p[j] /\ i < j
          BY <1>3, <2>1, <4>1, <4>2
        <4>. QED BY <1>1, <2>1, <4>3 DEF Ordered
      <3>. QED BY <3>1, <3>2, <3>3
    <2>2. ASSUME NEW k \in 1 .. Len(q), NEW u \in Tab, NavigatesTab(q[k], u), r2.pending[u] # NoTarget
          PROVE  IF k <= Len(e) THEN q[k].target.navigation < r2.pending[u].navigation
                                ELSE q[k].target.navigation > r2.pending[u].navigation
      <3>1. u # t /\ r2.pending[u] = r.pending[u]
        BY <1>9, <2>2
      <3>2. k # d
        BY <1>3, <1>4, <2>2, <3>1 DEF NavigatesTab
      <3>3. PICK i \in 1 .. Len(p) : k = M(i)
        BY <1>3, <3>2
      <3>4. q[k] = p[i] /\ (k <= Len(e) <=> i <= Len(e))
        BY <1>3, <3>3
      <3>. QED BY <1>1, <2>2, <3>1, <3>4 DEF Ordered
    <2>3. ASSUME NEW k \in 1 .. Len(q), NEW l \in 1 .. Len(q), q[l].kind = "close",
                 NavigatesTab(q[k], q[l].tab)
          PROVE  k < l
      <3>1. l # d
        BY <1>3, <1>4, <2>3
      <3>2. PICK j \in 1 .. Len(p) : l = M(j)
        BY <1>3, <3>1
      <3>3. q[l] = p[j]
        BY <1>3, <3>2
      <3>4. CASE k = d
        <4>1. p[j].tab = t
          BY <1>3, <1>4, <2>3, <3>3, <3>4 DEF NavigatesTab
        <4>2. ~(j <= Len(e))
          <5>1. \A i \in 1 .. Len(e) : ~(p[i].kind = "close" /\ p[i].tab = t)
            BY <1>1 DEF Ordered
          <5>. QED BY <1>2, <2>3, <3>3, <4>1, <5>1
        <4>. QED BY <1>2, <1>3, <3>2, <3>4, <4>2
      <3>5. CASE k # d
        <4>1. PICK i \in 1 .. Len(p) : k = M(i)
          BY <1>3, <3>5
        <4>2. q[k] = p[i] /\ (i < j <=> k < l)
          BY <1>3, <3>2, <4>1
        <4>. QED BY <1>1, <2>3, <3>3, <4>2 DEF Ordered
      <3>. QED BY <3>4, <3>5
    <2>4. ASSUME NEW k \in 1 .. Len(q), NEW l \in 1 .. Len(q), q[k].kind = "navigate",
                 q[l].kind = "cancel", q[k].target = q[l].target
          PROVE  k < l
      <3>1. l # d
        BY <1>3, <1>4, <2>4
      <3>2. PICK j \in 1 .. Len(p) : l = M(j)
        BY <1>3, <3>1
      <3>3. q[l] = p[j]
        BY <1>3, <3>2
      <3>4. CASE k = d
        <4>1. p[j].target = r.pending[t] /\ p[j].target.tab = t
          BY <1>3, <1>4, <2>4, <3>3, <3>4
        <4>2. ~(j <= Len(e))
          <5>1. \A i \in 1 .. Len(e) : p[i].kind = "cancel" => r.pending[p[i].target.tab] # p[i].target
            BY <1>1 DEF Stopped
          <5>. QED BY <1>2, <2>4, <3>3, <4>1, <5>1
        <4>. QED BY <1>2, <1>3, <3>2, <3>4, <4>2
      <3>5. CASE k # d
        <4>1. PICK i \in 1 .. Len(p) : k = M(i)
          BY <1>3, <3>5
        <4>2. q[k] = p[i] /\ (i < j <=> k < l)
          BY <1>3, <3>2, <4>1
        <4>. QED BY <1>1, <2>4, <3>3, <4>2 DEF Ordered
      <3>. QED BY <3>4, <3>5
    <2>5. \A i \in 1 .. Len(e) : q[i].kind = "navigate" => e[i].result # "refused"
      BY <1>1, <1>3 DEF Ordered
    <2>6. \A u \in Tab : r2.pending[u] # NoTarget =>
             \A i \in 1 .. Len(e) : ~(q[i].kind = "close" /\ q[i].tab = u)
      BY <1>1, <1>3, <1>9 DEF Ordered
    <2>. QED BY <2>1, <2>2, <2>3, <2>4, <2>5, <2>6 DEF Ordered
  <1>14. Stopped(q, e, r2)
    <2>1. ASSUME NEW i \in 1 .. Len(e), q[i].kind = "cancel"
          PROVE  /\ e[i].result # "refused"
                 /\ r2.pending[q[i].target.tab] # q[i].target
                 /\ e[i].result # "no" /\ r2.pending[q[i].target.tab] # NoTarget =>
                       r2.pending[q[i].target.tab].navigation > q[i].target.navigation
                 /\ e[i].result # "no" =>
                       \A j \in 1 .. Len(q) : NavigatesTab(q[j], q[i].target.tab) =>
                          /\ j < i => q[j].target # q[i].target
                          /\ j > i => q[j].target.navigation > q[i].target.navigation
      <3>1. i \in 1 .. Len(p) /\ q[i] = p[i] /\ i < d /\ M(i) = i /\ ~(d < i)
        BY <1>2, <1>3
      <3>2. q[i].target \in Target /\ q[i].target.tab \in Tab /\ q[i].target # NoTarget
        <4>1. p[i] \in Command
          BY <1>1, <3>1 DEF Pipes
        <4>2. q[i].target \in Target
          BY <2>1, <3>1, <4>1, CommandIs
        <4>. QED BY <4>2 DEF Target, NoTarget, Tab, NoTab
      <3>3. /\ e[i].result # "refused"
            /\ r.pending[q[i].target.tab] # q[i].target
            /\ e[i].result # "no" /\ r.pending[q[i].target.tab] # NoTarget =>
                       r.pending[q[i].target.tab].navigation > q[i].target.navigation
        BY <1>1, <2>1, <3>1 DEF Stopped
      <3>4. ASSUME e[i].result # "no", NEW j \in 1 .. Len(q), NavigatesTab(q[j], q[i].target.tab)
            PROVE  /\ j < i => q[j].target # q[i].target
                   /\ j > i => q[j].target.navigation > q[i].target.navigation
        <4>1. CASE j = d
          <5>1. q[i].target.tab = t /\ q[j].target = r.pending[t]
            BY <1>3, <1>4, <3>4, <4>1 DEF NavigatesTab
          <5>. QED BY <3>1, <3>3, <3>4, <4>1, <5>1
        <4>2. CASE j # d
          <5>1. PICK k \in 1 .. Len(p) : j = M(k)
            BY <1>3, <4>2
          <5>2. q[j] = p[k] /\ (j < i <=> k < i) /\ (j > i <=> k > i)
            BY <1>3, <3>1, <5>1
          <5>. QED BY <1>1, <2>1, <3>1, <3>4, <5>2 DEF Stopped
        <4>. QED BY <4>1, <4>2
      <3>5. CASE q[i].target.tab = t
        BY <1>8, <3>2, <3>3, <3>4, <3>5
      <3>6. CASE q[i].target.tab # t
        BY <1>8, <3>2, <3>3, <3>4, <3>6
      <3>. QED BY <3>5, <3>6
    <2>. QED BY <2>1 DEF Stopped
  <1>15. Answered(s, q, e, r2)
    <2>1. \A u \in Range(s.tabs) : u \in Tab
      BY <1>1, TabsAre
    <2>2. ASSUME NEW u \in Range(s.tabs), s.targets[u] = NoTarget
          PROVE  r2.pending[u] = NoTarget /\ \A k \in 1 .. Len(q) : ~NavigatesTab(q[k], u)
      <3>1. r.pending[u] = NoTarget /\ \A i \in 1 .. Len(p) : ~NavigatesTab(p[i], u)
        BY <1>1, <2>2 DEF Answered
      <3>2. u # t
        BY <3>1
      <3>3. ASSUME NEW k \in 1 .. Len(q) PROVE ~NavigatesTab(q[k], u)
        <4>1. CASE k = d
          BY <1>3, <1>4, <3>2, <4>1 DEF NavigatesTab
        <4>2. CASE k # d
          <5>1. PICK i \in 1 .. Len(p) : k = M(i)
            BY <1>3, <4>2
          <5>2. q[k] = p[i]
            BY <1>3, <5>1
          <5>. QED BY <3>1, <5>2
        <4>. QED BY <4>1, <4>2
      <3>4. r2.pending[u] = NoTarget
        BY <1>8, <2>1, <3>1, <3>2
      <3>. QED BY <3>3, <3>4
    <2>3. ASSUME NEW u \in Range(s.tabs), s.targets[u] # NoTarget
          PROVE  /\ r2.pending[u].navigation <= s.targets[u].navigation
                 /\ \A k \in 1 .. Len(q) : NavigatesTab(q[k], u) =>
                       q[k].target.navigation <= s.targets[u].navigation
                 /\ Carried(q, e, r2, s.targets[u])
      <3>1. /\ r.pending[u].navigation <= s.targets[u].navigation
            /\ \A i \in 1 .. Len(p) : NavigatesTab(p[i], u) =>
                  p[i].target.navigation <= s.targets[u].navigation
            /\ Carried(p, e, r, s.targets[u])
        BY <1>1, <2>3 DEF Answered
      <3>2. s.targets[u].tab = u /\ s.targets[u].navigation \in Nat
        <4>1. s.targets[u].tab = u /\ s.targets[u] \in Target
          BY <1>1, <2>1, <2>3 DEF Owned, Shell
        <4>. QED BY <4>1 DEF Target
      <3>3. r2.pending[u].navigation <= s.targets[u].navigation
        <4>1. NoTarget.navigation = 0
          BY DEF NoTarget
        <4>. QED BY <1>8, <2>1, <3>1, <3>2, <4>1
      <3>4. ASSUME NEW k \in 1 .. Len(q), NavigatesTab(q[k], u)
            PROVE  q[k].target.navigation <= s.targets[u].navigation
        <4>1. CASE k = d
          <5>1. q[k] = c /\ u = t
            BY <1>3, <1>4, <3>4, <4>1 DEF NavigatesTab
          <5>. QED BY <1>4, <3>1, <5>1
        <4>2. CASE k # d
          <5>1. PICK i \in 1 .. Len(p) : k = M(i)
            BY <1>3, <4>2
          <5>2. q[k] = p[i]
            BY <1>3, <5>1
          <5>. QED BY <3>1, <3>4, <5>2
        <4>. QED BY <4>1, <4>2
      <3>5. Carried(q, e, r2, s.targets[u])
        <4>1. CASE \E i \in 1 .. Len(p) : p[i].kind = "navigate" /\ p[i].target = s.targets[u]
          <5>1. PICK i \in 1 .. Len(p) : p[i].kind = "navigate" /\ p[i].target = s.targets[u]
            BY <4>1
          <5>2. M(i) \in 1 .. Len(q) /\ q[M(i)] = p[i]
            BY <1>3
          <5>. QED BY <5>1, <5>2 DEF Carried
        <4>2. CASE r.pending[u] = s.targets[u] /\ u = t
          <5>1. d \in 1 .. Len(q) /\ q[d].kind = "navigate" /\ q[d].target = s.targets[u]
            BY <1>3, <1>4, <4>2
          <5>. QED BY <5>1 DEF Carried
        <4>3. CASE r.pending[u] = s.targets[u] /\ u # t
          <5>1. r2.pending[u] = s.targets[u]
            BY <1>8, <2>1, <4>3
          <5>. QED BY <3>2, <5>1 DEF Carried
        <4>4. CASE \E i \in 1 .. Len(e) :
                     p[i].kind = "cancel" /\ p[i].target = s.targets[u] /\ e[i].result # "no"
          <5>1. \E i \in 1 .. Len(e) :
                     q[i].kind = "cancel" /\ q[i].target = s.targets[u] /\ e[i].result # "no"
            BY <1>3, <4>4
          <5>. QED BY <5>1 DEF Carried
        <4>. QED BY <3>1, <3>2, <4>1, <4>2, <4>3, <4>4 DEF Carried
      <3>. QED BY <3>3, <3>4, <3>5
    <2>. QED BY <2>2, <2>3 DEF Answered
  <1>. QED BY <1>1, <1>6, <1>7, <1>10, <1>11, <1>12, <1>13, <1>14, <1>15 DEF Sound, SoundButDrawn
=============================================================================
