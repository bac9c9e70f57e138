------------------------- MODULE PresentationHandoff -------------------------
(***************************************************************************)
(* TabPresentationHandoff (presentation_handoff.rs): which tab the chrome  *)
(* represents, whose page is presented, and the permits under which the    *)
(* render worker may draw.  A handoff h is a record; each operation has a  *)
(* condition, Can..., the disjunction of whose negations is its error, and *)
(* an effect.                                                              *)
(***************************************************************************)
EXTENDS Naturals

CONSTANT MaxTabs    \* bound: tabs created in one session

ASSUME HandoffConstants == MaxTabs \in Nat \ {0}

Tab == 1 .. MaxTabs
NoTab == 0
\* WebContentPresentation::Neutral: no page is presented.
Neutral == NoTab

Intent == [id : Nat \ {0}, from : Tab, to : Tab]
NoIntent == [id |-> 0, from |-> NoTab, to |-> NoTab]

\* A permit for the current tab names no activation.
Permit == [activation : Nat, tab : Tab, generation : Nat]
NoPermit == [activation |-> 0, tab |-> NoTab, generation |-> 0]
ForTarget(permit) == permit.activation # 0

Handoff == [represented : Tab, content : Tab \cup {Neutral},
            pending : Intent \cup {NoIntent}, generation : Nat]

NewHandoff(tab) ==
    [represented |-> tab, content |-> tab, pending |-> NoIntent, generation |-> 0]

Activating(h) == h.pending # NoIntent

\* current_intent
Current(h, activation) == Activating(h) /\ h.pending.id = activation

-----------------------------------------------------------------------------
(* Frames of the represented tab.                                          *)

\* The two errors after which the frame is put off.
FrameBlocked(h) == Activating(h) \/ h.content = Neutral

CanDrawCurrent(h, tab) ==
    ~Activating(h) /\ tab = h.represented /\ h.content = tab

CurrentPermit(h, tab) ==
    [activation |-> 0, tab |-> tab, generation |-> h.generation]

CanConfirmCurrentNeutral(h, tab) ==
    /\ tab = h.represented
    /\ ~Activating(h)
    /\ h.content \in {Neutral, h.represented}

ConfirmCurrentNeutral(h) ==
    [h EXCEPT !.content = Neutral, !.generation = @ + 1]

-----------------------------------------------------------------------------
(* From one tab to another.                                                *)

CanBeginActivation(h, intent) ==
    intent.from = h.represented /\ h.content \in {Neutral, h.represented}

\* Mutation of BeginActivation: the generation stays.
BeginActivationSameGeneration(h, intent) == [h EXCEPT !.pending = intent]

\* A newer activation replaces the pending one.
BeginActivation(h, intent) ==
    [h EXCEPT !.pending = intent, !.generation = @ + 1]

ConfirmNeutral(h) == [h EXCEPT !.content = Neutral]

CanAcknowledge(h, activation, committed) ==
    /\ Current(h, activation)
    /\ h.content = Neutral
    /\ committed = h.pending.to

AcknowledgeChrome(h, committed) == [h EXCEPT !.represented = committed]

CanDrawTarget(h, activation, tab) ==
    /\ Current(h, activation)
    /\ h.content = Neutral
    /\ h.represented = h.pending.to
    /\ tab = h.pending.to

TargetPermit(h, activation, tab) ==
    [activation |-> activation, tab |-> tab, generation |-> h.generation]

\* The two errors of present_target_frame a late frame may meet.
Stale(h, permit) ==
    ~Current(h, permit.activation) \/ permit.generation # h.generation

CanPresent(h, permit) ==
    /\ h.content = Neutral
    /\ h.represented = h.pending.to
    /\ permit.tab = h.pending.to

PresentTarget(h, permit) ==
    [h EXCEPT !.content = permit.tab, !.pending = NoIntent]
=============================================================================
