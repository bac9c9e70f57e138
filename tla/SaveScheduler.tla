--------------------------- MODULE SaveScheduler ---------------------------
(***************************************************************************)
(* The save scheduler of one profile store (ProfileHistorySaveScheduler    *)
(* and its three siblings, which differ in names only) with the part of    *)
(* the profile runtime it polls and the event loop that sleeps until its   *)
(* next deadline.  Time is a clock handed in by the caller, which may step *)
(* back.  The scheduler remembers when it first and last saw unsaved       *)
(* mutations, its dirty window.                                            *)
(***************************************************************************)
EXTENDS Integers

CONSTANTS Debounce, MaxDirty, Threshold, \* the policy
          MaxClock,     \* bound: the clock's last reading
          MaxStoreRevision, \* bound: mutations of a profile
          MaxProfile    \* bound: profiles used one after the other

\* ProfileHistorySavePolicy::new refuses every other policy.
ASSUME PolicyAssumption ==
    /\ Debounce \in Nat \ {0}
    /\ MaxDirty \in Nat \ {0}
    /\ Threshold \in Nat \ {0}
    /\ Debounce <= MaxDirty

ASSUME BoundsAssumption ==
    MaxClock \in Nat /\ MaxStoreRevision \in Nat /\ MaxProfile \in Nat \ {0}

\* No time, no pending save, ControlFlow::Wait; Awake is not a deadline.
None == -1
Awake == -2

VARIABLES
    profile,       \* the profile the scheduler tracks, 0 for none
    observed,      \* observed_mutation_revision
    firstDirty,    \* first_dirty_millis
    lastMutation,  \* last_mutation_millis
    lastNow,       \* last_now_millis
    activeProfile, \* the active profile's number
    storeRevision, \* its store's mutation revision
    storeDurable,  \* its store's durable revision
    pending,       \* the revision a pending save captured, or None
    clock,         \* what the clock shows
    alarm,         \* Awake, None (Wait) or the deadline (WaitUntil)
    others,        \* is another command of the shell with the worker?
    oldest         \* history: the first poll since which mutations that no
                   \* save covers have waited, in the scheduler's time

scheduler == <<profile, observed, firstDirty, lastMutation, lastNow, oldest>>
store == <<activeProfile, storeRevision, storeDurable, pending>>
schedulerVars == <<scheduler, store, clock, alarm, others>>

Millis == 0 .. MaxClock

SchedulerTypeOK ==
    /\ profile \in 0 .. MaxProfile
    /\ observed \in 0 .. MaxStoreRevision
    /\ firstDirty \in Millis \cup {None}
    /\ lastMutation \in Millis \cup {None}
    /\ lastNow \in Millis \cup {None}
    /\ oldest \in Millis \cup {None}
    /\ activeProfile \in 1 .. MaxProfile
    /\ storeRevision \in 0 .. MaxStoreRevision
    /\ storeDurable \in 0 .. MaxStoreRevision
    /\ pending \in 0 .. MaxStoreRevision \cup {None}
    /\ clock \in Millis
    /\ alarm \in Int
    /\ others \in BOOLEAN

Unsaved == storeRevision - storeDurable

\* Do mutations exist that neither the disk nor a pending save holds?
Uncovered == storeRevision > (IF pending = None THEN storeDurable ELSE pending)

SchedulerInit ==
    /\ profile = 0
    /\ observed = 0
    /\ firstDirty = None
    /\ lastMutation = None
    /\ lastNow = None
    /\ oldest = None
    /\ activeProfile = 1
    /\ storeRevision = 0
    /\ storeDurable = 0
    /\ pending = None
    /\ clock \in Millis
    /\ alarm = Awake
    /\ others = FALSE

-----------------------------------------------------------------------------
(* A poll.                                                                 *)

ProfileChanged == profile # activeProfile

TimeRegressed == ~ProfileChanged /\ lastNow # None /\ clock < lastNow

\* The scheduler's time does not step back while it tracks one profile.
Now == IF TimeRegressed THEN lastNow ELSE clock

\* The window's beginning once the poll has compared the revisions: opened by
\* a mutation not seen before, or by unsaved mutations no save is pending for.
SeenFirst ==
    CASE ProfileChanged -> IF Unsaved # 0 THEN Now ELSE None
      [] ~ProfileChanged /\ Unsaved # 0 /\ firstDirty = None
             /\ (storeRevision # observed \/ pending = None) -> Now
      [] OTHER -> firstDirty

\* The last mutation is the one just seen, the window's first if it has none.
SeenLast ==
    CASE ProfileChanged -> SeenFirst
      [] ~ProfileChanged /\ Unsaved # 0
             /\ (storeRevision # observed \/ SeenFirst # firstDirty) -> Now
      [] OTHER -> lastMutation

ShouldSave(flush) ==
    \/ flush
    \/ TimeRegressed
    \/ Unsaved >= Threshold
    \/ SeenLast # None /\ Now - SeenLast >= Debounce
    \/ SeenFirst # None /\ Now - SeenFirst >= MaxDirty

\* Mutation of NextDue: the later of the two deadlines.
NextDueLater(first, last) ==
    CASE first = None /\ last = None -> None
      [] first = None /\ last # None -> last + Debounce
      [] first # None /\ last = None -> first + MaxDirty
      [] OTHER -> IF last + Debounce < first + MaxDirty
                  THEN first + MaxDirty ELSE last + Debounce

\* next_save_due_millis: the earlier of the two deadlines.
NextDue(first, last) ==
    CASE first = None /\ last = None -> None
      [] first = None /\ last # None -> last + Debounce
      [] first # None /\ last = None -> first + MaxDirty
      [] OTHER -> IF last + Debounce < first + MaxDirty
                  THEN last + Debounce ELSE first + MaxDirty

\* What every poll notes first.
Observe ==
    /\ profile' = activeProfile
    /\ observed' = storeRevision
    /\ lastNow' = Now

\* The history variable follows what is covered, not what was observed.
Age(covered) ==
    oldest' = CASE covered -> None
                [] ~covered /\ oldest = None -> Now
                [] OTHER -> oldest

Window(first, last) ==
    firstDirty' = first /\ lastMutation' = last

\* Nothing is unsaved: the window closes.
PollClean ==
    /\ alarm = Awake
    /\ Unsaved = 0
    /\ Observe
    /\ Age(TRUE)
    /\ Window(None, None)
    /\ alarm' = IF pending # None THEN None ELSE NextDue(firstDirty', lastMutation')
    /\ UNCHANGED <<store, clock, others>>

\* A save is pending: newer mutations are noted, no second save begins, and
\* the loop sleeps until the completion wakes it.
PollPending ==
    /\ alarm = Awake
    /\ Unsaved # 0
    /\ pending # None
    /\ Observe
    /\ Age(~Uncovered)
    /\ Window(SeenFirst, SeenLast)
    /\ alarm' = None
    /\ UNCHANGED <<store, clock, others>>

\* Not due yet: the loop sleeps until it is.
PollEarly ==
    /\ alarm = Awake
    /\ Unsaved # 0
    /\ pending = None
    /\ ~ShouldSave(FALSE)
    /\ Observe
    /\ Age(FALSE)
    /\ Window(SeenFirst, SeenLast)
    /\ alarm' = NextDue(firstDirty', lastMutation')
    /\ UNCHANGED <<store, clock, others>>

\* Mutation of PollDue: the window of the save that begins stays open.
PollDueKeepsWindow(flush) ==
    /\ alarm = Awake
    /\ Unsaved # 0
    /\ pending = None
    /\ ShouldSave(flush)
    /\ Observe
    /\ Age(TRUE)
    /\ Window(SeenFirst, SeenLast)
    /\ pending' \in {storeRevision} \cup (IF others THEN {None} ELSE {})
    /\ alarm' = IF pending' # None THEN None ELSE NextDue(firstDirty', lastMutation')
    /\ UNCHANGED <<activeProfile, storeRevision, storeDurable, clock, others>>

\* The save begins, capturing the revision, and the window closes.  If the
\* worker's queue is full, which only another command explains, the shell
\* cancels the save; the mutations wait again from the next poll on.
PollDue(flush) ==
    /\ alarm = Awake
    /\ Unsaved # 0
    /\ pending = None
    /\ ShouldSave(flush)
    /\ Observe
    /\ Age(TRUE)
    /\ Window(None, None)
    /\ pending' \in {storeRevision} \cup (IF others THEN {None} ELSE {})
    /\ alarm' = IF pending' # None THEN None ELSE NextDue(firstDirty', lastMutation')
    /\ UNCHANGED <<activeProfile, storeRevision, storeDurable, clock, others>>

Poll == PollClean \/ PollPending \/ PollEarly \/ (\E flush \in BOOLEAN : PollDue(flush))

-----------------------------------------------------------------------------
(* Events that wake the loop.                                              *)

MutateStore ==
    /\ storeRevision < MaxStoreRevision
    /\ storeRevision' = storeRevision + 1
    /\ alarm' = Awake
    /\ UNCHANGED <<scheduler, activeProfile, storeDurable, pending, clock, others>>

SaveSucceeds ==
    /\ pending # None
    /\ storeDurable' = pending
    /\ pending' = None
    /\ alarm' = Awake
    /\ UNCHANGED <<scheduler, activeProfile, storeRevision, clock, others>>

\* A storage error leaves every mutation unsaved.
SaveFails ==
    /\ pending # None
    /\ pending' = None
    /\ alarm' = Awake
    /\ UNCHANGED <<scheduler, activeProfile, storeRevision, storeDurable, clock, others>>

\* commit_selection refuses while anything is pending or unsaved.
Replace ==
    /\ activeProfile < MaxProfile
    /\ pending = None
    /\ Unsaved = 0
    /\ activeProfile' = activeProfile + 1
    /\ storeRevision' = 0
    /\ storeDurable' = 0
    /\ alarm' = Awake
    /\ UNCHANGED <<scheduler, pending, clock, others>>

OtherSubmitted ==
    /\ alarm = Awake
    /\ ~others
    /\ others' = TRUE
    /\ UNCHANGED <<scheduler, store, clock, alarm>>

OtherCompletes ==
    /\ others
    /\ others' = FALSE
    /\ alarm' = Awake
    /\ UNCHANGED <<scheduler, store, clock>>

\* The deadline of ControlFlow::WaitUntil has come.
WakeUp ==
    /\ alarm \in Nat
    /\ clock >= alarm
    /\ alarm' = Awake
    /\ UNCHANGED <<scheduler, store, clock, others>>

Tick ==
    /\ clock < MaxClock
    /\ clock' = clock + 1
    /\ UNCHANGED <<scheduler, store, alarm, others>>

\* The scheduler does not rely on a monotonic clock.
StepBack ==
    /\ \E t \in Millis : t < clock /\ clock' = t
    /\ UNCHANGED <<scheduler, store, alarm, others>>

SchedulerNext ==
    \/ Poll
    \/ MutateStore
    \/ SaveSucceeds
    \/ SaveFails
    \/ Replace
    \/ OtherSubmitted
    \/ OtherCompletes
    \/ WakeUp
    \/ Tick
    \/ StepBack

SchedulerSpec == SchedulerInit /\ [][SchedulerNext]_schedulerVars

-----------------------------------------------------------------------------
(* Properties.                                                             *)

\* What the runtime subtracts without a check of its own (`checked_sub` and
\* `expect`): a store is never more durable than it is new, and a pending save
\* holds something the disk does not.
RevisionsOrdered ==
    /\ storeDurable <= storeRevision
    /\ pending # None => storeDurable < pending /\ pending <= storeRevision

\* The window the scheduler keeps from comparing revisions is the one it is
\* meant to be: it begins where mutations no save covers began to wait, and
\* there are such mutations whenever it is open.  A window left open would
\* wake the loop for nothing, or save under the next profile's name.
WindowTracksUncovered ==
    /\ firstDirty = oldest
    /\ firstDirty # None => Uncovered

\* The loop never sleeps on unsaved mutations without something to wake it: a
\* completion to come, or a deadline within the maximum dirty age, whatever
\* saves failed or were refused before.
DeadlineWhileUnsaved ==
    alarm # Awake /\ Unsaved # 0 /\ pending = None /\ ~others
        => oldest # None /\ alarm \in Nat /\ alarm <= oldest + MaxDirty

\* A poll that saves nothing never asks for a deadline that has already come:
\* the loop would run without sleeping.
NoDeadlineInThePast == alarm = Awake /\ alarm' \in Nat => clock < alarm'

\* The loop sleeps no longer than the policy allows, and does sleep.
SleepIsBounded == [][DeadlineWhileUnsaved' /\ NoDeadlineInThePast]_schedulerVars
=============================================================================
