----------------------------- MODULE ProfileShell -----------------------------
(***************************************************************************)
(* Profiles in the native shell (platform/windows.rs, with the state of    *)
(* profile_runtime.rs): selecting and replacing the active profile, saving *)
(* its stores through the worker, releasing locks, shutting down.  A       *)
(* handler runs on the event loop's thread; where it goes through the      *)
(* stores to save them, each store is a step of its own, because the       *)
(* worker may take a command from the queue in between.                    *)
(*                                                                         *)
(* A store is counted in mutations: content is what the runtime holds,     *)
(* durable what its last completed save captured.                          *)
(***************************************************************************)
EXTENDS ProfileWorker, FiniteSets

CONSTANTS
    NoProfile,
    SaveOrder,      \* the stores as drive_profile_saves visits them
    MaxCycles       \* bound: profile cycles the user starts

ASSUME ShellConstants ==
    /\ NoProfile \notin Profile
    /\ SaveOrder \in Seq(Store)
    /\ \A s \in Store : \E i \in DOMAIN SaveOrder : SaveOrder[i] = s
    /\ MaxCycles \in Nat

VARIABLES
    active,         \* the active profile
    selection,      \* the profile being selected
    content,        \* content[p][s]: mutations p's user has made to s
    durable,        \* durable[s]: of the active profile, mutations saved
    saving,         \* saving[s]: mutations the pending save captured
    discovery,      \* "none", "unsent" or "sent": profile catalog discovery
    unsent,         \* the selection waits for room in the worker's queue
    replacement,    \* prepared profile waiting for the active one
    rejected,       \* prepared profile whose lock shutdown releases
    replaced,       \* profile replaced, lock not yet released
    releasing,      \* the lock release sent, and its purpose
    resetting,      \* the render worker is resetting its session
    browsing,       \* tab or page work of the active profile is under way
    shutdown,       \* shutdown_requested
    windows,        \* stores in whose scheduler a deadline is set
    loop,           \* where the event loop is
    cycles          \* profile cycles started

runtime == <<active, selection, content, durable, saving>>
locks == <<replacement, rejected, replaced, releasing>>
session == <<discovery, unsent, resetting, browsing, shutdown>>
vars == <<worker, runtime, locks, session, windows, loop, cycles>>

NotSaving == MaxContent + 1
Purpose == {"none", "replaced", "rejected", "active"}
NotReleasing == [profile |-> NoProfile, purpose |-> "none"]

(* The loop waits for events, with a deadline ("timed") or without one     *)
(* ("waiting"), has handled some ("handling"), or is driving the stores in *)
(* todo: urgent is Flush, alarm the store whose deadline has passed, after *)
(* what the handler does next.                                             *)
At(phase) == [phase |-> phase, todo |-> {}, urgent |-> FALSE,
              after |-> "return", alarm |-> {}]

Driving(todo, urgent, after, alarm) ==
    [phase |-> "driving", todo |-> todo, urgent |-> urgent,
     after |-> after, alarm |-> alarm]

Awake == loop.phase \in {"waiting", "timed", "handling"}
Settling == loop.phase = "driving" /\ loop.todo = {}

Init ==
    /\ WorkerInit
    /\ active = NoProfile
    /\ selection \in Profile
    /\ content = [p \in Profile |-> [s \in Store |-> 0]]
    /\ durable = [s \in Store |-> 0]
    /\ saving = [s \in Store |-> NotSaving]
    /\ discovery = "none"
    /\ unsent = FALSE
    /\ replacement = NoProfile
    /\ rejected = NoProfile
    /\ replaced = NoProfile
    /\ releasing = NotReleasing
    /\ resetting = FALSE
    /\ browsing = FALSE
    /\ shutdown = FALSE
    /\ windows = {}
    /\ loop = At("starting")
    /\ cycles = 0

-----------------------------------------------------------------------------
(* Conditions the handlers share.                                          *)

Dirty(s) == active # NoProfile /\ content[active][s] # durable[s]

Pending(s) == saving[s] # NotSaving

\* profile_flush_complete.
Flushed == active = NoProfile \/ \A s \in Store : ~Dirty(s) /\ ~Pending(s)

\* profile_transition_in_progress: keyboard commands and new tabs are ignored.
InTransition ==
    \/ discovery # "none"
    \/ selection # NoProfile
    \/ resetting
    \/ replaced # NoProfile

\* A reload of the restored page starts as soon as no transition is in progress.
MayRestartAfter(transition) ==
    browsing' \in IF transition THEN {browsing} ELSE {browsing, TRUE}

\* The mutations one event makes to the active profile's stores in T.
MutateStores(T) ==
    /\ \A s \in T : content[active][s] < MaxContent
    /\ content' = [content EXCEPT ![active] =
                      [s \in Store |-> IF s \in T THEN @[s] + 1 ELSE @[s]]]

DriveTouched(T) == loop' = Driving(T, FALSE, "return", {})

\* Mutation of BeginShutdown: discovery is forgotten even when it was sent.
BeginShutdownForgets(discovering, selected, prepared, refused) ==
    /\ shutdown' = TRUE
    /\ discovery' = "none"
    /\ selection' = IF unsent \/ prepared # NoProfile THEN NoProfile ELSE selected
    /\ rejected' = IF prepared # NoProfile /\ refused = NoProfile THEN prepared
                                                                  ELSE refused
    /\ unsent' = FALSE
    /\ replacement' = NoProfile
    /\ resetting' = FALSE
    /\ browsing' = FALSE

\* begin_shutdown: what was never sent is dropped, a prepared profile is
\* kept for the release of its lock.
BeginShutdown(discovering, selected, prepared, refused) ==
    /\ shutdown' = TRUE
    /\ discovery' = IF discovering = "unsent" THEN "none" ELSE discovering
    /\ selection' = IF unsent \/ prepared # NoProfile THEN NoProfile ELSE selected
    /\ rejected' = IF prepared # NoProfile /\ refused = NoProfile THEN prepared
                                                                  ELSE refused
    /\ unsent' = FALSE
    /\ replacement' = NoProfile
    /\ resetting' = FALSE
    /\ browsing' = FALSE

\* shutdown, fail: then every store is flushed.
Shutdown(discovering, selected, prepared, refused, after) ==
    /\ BeginShutdown(discovering, selected, prepared, refused)
    /\ loop' = Driving(Store, TRUE, after, {})

ShutdownNow(after) == Shutdown(discovery, selection, replacement, rejected, after)

\* fail_with_rejected_profile: the selection of p is cancelled, its lock kept.
RejectProfile(p, after) ==
    Shutdown(discovery, NoProfile, NoProfile,
             IF rejected = NoProfile THEN p ELSE rejected, after)

\* commit_selection, install_active_profile_session_restore and, for a
\* replacement, reset_native_session_for_profile_switch up to its failures.
ActivateProfile(p) ==
    /\ active' = p
    /\ replaced' = active
    /\ content' = [content EXCEPT ![p] = stored[p]]
    /\ durable' = stored[p]

-----------------------------------------------------------------------------
(* Events of the user and of the render worker.                            *)

\* resumed: the initial profile is sent for preparation.
Resumed ==
    /\ loop.phase = "starting"
    /\ TrySend(Prepare(selection))
    /\ loop' = At("handling")
    /\ UNCHANGED <<busy, done, locked, stored, ioFailed,
                   runtime, locks, session, windows, cycles>>

CommandsAccepted == Awake /\ active # NoProfile /\ ~shutdown /\ ~InTransition

\* A keyboard command, finished at once (a bookmark, the colour scheme) or
\* starting tab or page work.
KeyboardCommand(T) ==
    /\ CommandsAccepted
    /\ MutateStores(T)
    /\ browsing' \in {browsing, TRUE}
    /\ DriveTouched(T)
    /\ UNCHANGED <<worker, active, selection, durable, saving, locks,
                   discovery, unsent, resetting, shutdown, windows, cycles>>

\* Tab or page work under way ends, transition or not.
FinishBrowsing(T) ==
    /\ Awake
    /\ browsing
    /\ ~resetting
    /\ MutateStores(T)
    /\ browsing' = FALSE
    /\ DriveTouched(T)
    /\ UNCHANGED <<worker, active, selection, durable, saving, locks,
                   discovery, unsent, resetting, shutdown, windows, cycles>>

\* begin_profile_cycle.
ProfileCycle ==
    /\ CommandsAccepted
    /\ cycles < MaxCycles
    /\ cycles' = cycles + 1
    /\ TrySend(Discover)
    /\ discovery' = IF QueueFull THEN "unsent" ELSE "sent"
    /\ loop' = At("handling")
    /\ UNCHANGED <<busy, done, locked, stored, ioFailed, runtime, locks,
                   unsent, resetting, browsing, shutdown, windows>>

\* WindowEvent::CloseRequested, and every event that ends in fail().
StopRequested ==
    /\ Awake
    /\ active # NoProfile
    /\ ~shutdown
    /\ ShutdownNow("settle")
    /\ UNCHANGED <<worker, active, content, durable, saving, replaced,
                   releasing, windows, cycles>>

\* ProfileSessionReset: the bootstrap navigation, if any, is committed.
SessionReset(T) ==
    /\ Awake
    /\ resetting
    /\ T # {} => browsing
    /\ MutateStores(T)
    /\ resetting' = FALSE
    /\ browsing' \in IF replaced = NoProfile THEN BOOLEAN ELSE {FALSE}
    /\ DriveTouched(T)
    /\ UNCHANGED <<worker, active, selection, durable, saving, locks,
                   discovery, unsent, shutdown, windows, cycles>>

-----------------------------------------------------------------------------
(* Driving the saves: drive_settings_save and its three siblings, each     *)
(* with its scheduler's poll.                                              *)

Position(s) == CHOOSE i \in DOMAIN SaveOrder : SaveOrder[i] = s

Drives(s) ==
    /\ loop.phase = "driving"
    /\ s \in loop.todo
    /\ \A t \in loop.todo : Position(s) <= Position(t)

Pass(s) == loop' = [loop EXCEPT !.todo = @ \ {s}]

\* Nothing to save: the dirty window is closed.
PollClean(s) ==
    /\ Drives(s)
    /\ ~Dirty(s)
    /\ windows' = windows \ {s}
    /\ Pass(s)
    /\ UNCHANGED <<worker, runtime, locks, session, cycles>>

\* A save of the store is pending.
PollPending(s) ==
    /\ Drives(s)
    /\ Dirty(s)
    /\ Pending(s)
    /\ Pass(s)
    /\ UNCHANGED <<worker, runtime, locks, session, windows, cycles>>

\* Mutation of PollEarly: no deadline is set.
PollEarlyForgets(s) ==
    /\ Drives(s)
    /\ Dirty(s)
    /\ ~Pending(s)
    /\ ~loop.urgent
    /\ s \notin loop.alarm
    /\ Pass(s)
    /\ UNCHANGED <<worker, runtime, locks, session, windows, cycles>>

\* Not yet due: a deadline is set.
PollEarly(s) ==
    /\ Drives(s)
    /\ Dirty(s)
    /\ ~Pending(s)
    /\ ~loop.urgent
    /\ s \notin loop.alarm
    /\ windows' = windows \cup {s}
    /\ Pass(s)
    /\ UNCHANGED <<worker, runtime, locks, session, cycles>>

\* Mutation of PollDue: a save the full queue refused stays pending.
PollDueForgets(s) ==
    /\ Drives(s)
    /\ Dirty(s)
    /\ ~Pending(s)
    /\ windows' = windows \ {s}
    /\ TrySend(Save(active, s, content[active][s]))
    /\ saving' = [saving EXCEPT ![s] = content[active][s]]
    /\ Pass(s)
    /\ UNCHANGED <<busy, done, locked, stored, ioFailed, active, selection,
                   content, durable, locks, session, cycles>>

\* Due (the clock decides) or flushed: the save begins and the window closes,
\* and when the queue is full the save is cancelled.
PollDue(s) ==
    /\ Drives(s)
    /\ Dirty(s)
    /\ ~Pending(s)
    /\ windows' = windows \ {s}
    /\ TrySend(Save(active, s, content[active][s]))
    /\ saving' = IF QueueFull THEN saving
                 ELSE [saving EXCEPT ![s] = content[active][s]]
    /\ Pass(s)
    /\ UNCHANGED <<busy, done, locked, stored, ioFailed, active, selection,
                   content, durable, locks, session, cycles>>

-----------------------------------------------------------------------------
(* After the drive: return to the loop, go on with the shutdown, or go on  *)
(* with the replacement.                                                   *)

\* about_to_wait ends in a wait, an event's handler in the next event.
Yield == loop' = At(IF loop.after = "wait" THEN "waiting" ELSE "handling")

ReleaseSent(p, purpose) ==
    /\ TrySend(Release(p))
    /\ releasing' = IF QueueFull THEN releasing
                    ELSE [profile |-> p, purpose |-> purpose]

WaitsForWorker ==
    \/ selection # NoProfile
    \/ discovery # "none"
    \/ releasing.purpose # "none"

\* ControlFlow::WaitUntil the first deadline, unless a save is pending.
WaitsForDeadline ==
    /\ loop.after = "wait"
    /\ ~shutdown
    /\ replacement = NoProfile
    /\ replaced = NoProfile
    /\ windows # {}
    /\ \A s \in Store : ~Pending(s)

NothingToSettle ==
    \/ loop.after = "return"
    \/ shutdown /\ (~Flushed \/ WaitsForWorker)
    \/ /\ ~shutdown
       /\ IF replacement # NoProfile
          THEN ~Flushed \/ browsing
          ELSE loop.after = "settle" \/ replaced = NoProfile
               \/ releasing.purpose = "replaced"

Rest ==
    /\ Settling
    /\ NothingToSettle
    /\ IF WaitsForDeadline THEN loop' = At("timed") ELSE Yield
    /\ UNCHANGED <<worker, runtime, locks, session, windows, cycles>>

ShutdownSettles ==
    Settling /\ loop.after # "return" /\ shutdown /\ Flushed /\ ~WaitsForWorker

(* continue_shutdown_after_profile_flush: the replaced lock, then the      *)
(* rejected one, then the active one.  Without a shutdown about_to_wait    *)
(* tries again to release the replaced lock.                               *)
ReleaseReplaced ==
    /\ replaced # NoProfile
    /\ IF shutdown
       THEN ShutdownSettles
       ELSE /\ Settling
            /\ loop.after = "wait"
            /\ replacement = NoProfile
            /\ releasing.purpose # "replaced"
    /\ ReleaseSent(replaced, "replaced")
    /\ Yield
    /\ UNCHANGED <<busy, done, locked, stored, ioFailed, runtime, replacement,
                   rejected, replaced, session, windows, cycles>>

ReleaseRejected ==
    /\ ShutdownSettles
    /\ replaced = NoProfile
    /\ rejected # NoProfile
    /\ ReleaseSent(rejected, "rejected")
    /\ rejected' = IF QueueFull THEN rejected ELSE NoProfile
    /\ Yield
    /\ UNCHANGED <<busy, done, locked, stored, ioFailed, runtime, replacement,
                   replaced, session, windows, cycles>>

\* Mutation of ReleaseActive: the rejected lock is not released first.
ReleaseActiveEarly ==
    /\ ShutdownSettles
    /\ replaced = NoProfile
    /\ active # NoProfile
    /\ ReleaseSent(active, "active")
    /\ Yield
    /\ UNCHANGED <<busy, done, locked, stored, ioFailed, runtime, replacement,
                   rejected, replaced, session, windows, cycles>>

ReleaseActive ==
    /\ ShutdownSettles
    /\ replaced = NoProfile
    /\ rejected = NoProfile
    /\ active # NoProfile
    /\ ReleaseSent(active, "active")
    /\ Yield
    /\ UNCHANGED <<busy, done, locked, stored, ioFailed, runtime, replacement,
                   rejected, replaced, session, windows, cycles>>

\* finish_shutdown.
ExitWithoutProfile ==
    /\ ShutdownSettles
    /\ replaced = NoProfile
    /\ rejected = NoProfile
    /\ active = NoProfile
    /\ loop' = At("exited")
    /\ UNCHANGED <<worker, runtime, locks, session, windows, cycles>>

\* continue_profile_replacement: nothing is left to save or to browse.
ReplacementSettles ==
    /\ Settling
    /\ loop.after # "return"
    /\ ~shutdown
    /\ replacement # NoProfile
    /\ Flushed
    /\ ~browsing

\* commit_prepared_profile of a replacement: the old lock's release is tried.
CommitReplacement(p) ==
    /\ ActivateProfile(p)
    /\ selection' = NoProfile
    /\ replacement' = NoProfile
    /\ ReleaseSent(active, "replaced")
    /\ resetting' = TRUE
    /\ browsing' \in BOOLEAN

ReplaceProfile ==
    /\ ReplacementSettles
    /\ CommitReplacement(replacement)
    /\ Yield
    /\ UNCHANGED <<busy, done, locked, stored, ioFailed, saving, rejected,
                   discovery, unsent, shutdown, windows, cycles>>

\* The native frame cannot be hidden, or the identity is the active one's.
ReplacementRejected ==
    /\ ReplacementSettles
    /\ RejectProfile(replacement, loop.after)
    /\ UNCHANGED <<worker, active, content, durable, saving, replaced,
                   releasing, windows, cycles>>

\* The profile is committed, and its session cannot be installed or reset.
ReplacementFails ==
    /\ ReplacementSettles
    /\ ActivateProfile(replacement)
    /\ Shutdown(discovery, NoProfile, NoProfile, rejected, loop.after)
    /\ UNCHANGED <<worker, saving, releasing, windows, cycles>>

-----------------------------------------------------------------------------
(* about_to_wait, run after every batch of events and when the deadline of *)
(* WaitUntil has passed.                                                   *)

SendUnsent ==
    /\ TrySend(IF discovery = "unsent" THEN Discover ELSE Prepare(selection))
    /\ discovery' = IF discovery = "unsent" /\ ~QueueFull THEN "sent" ELSE discovery
    /\ unsent' = (unsent /\ QueueFull)

AboutToWait(alarm) ==
    /\ IF ~shutdown /\ (discovery = "unsent" \/ unsent)
       THEN SendUnsent
       ELSE UNCHANGED <<queue, discovery, unsent>>
    /\ loop' = Driving(Store, shutdown \/ replacement # NoProfile,
                       "wait", alarm)
    /\ UNCHANGED <<busy, done, locked, stored, ioFailed, runtime, locks,
                   resetting, browsing, shutdown, windows, cycles>>

EventsHandled == loop.phase = "handling" /\ AboutToWait({})

DeadlinePasses ==
    /\ loop.phase = "timed"
    /\ \E s \in windows : AboutToWait({s})

-----------------------------------------------------------------------------
(* handle_profile_worker_completion.                                       *)

Completes(kind, ok) ==
    /\ Awake
    /\ done # <<>>
    /\ Head(done).command.kind = kind
    /\ Head(done).ok = ok
    /\ done' = Tail(done)
    /\ UNCHANGED <<busy, locked, stored, ioFailed>>

Answered == Head(done).command

\* Mutations of PreparedTooLate: the lock, or the selection, is forgotten.
PreparedTooLateLosesLock ==
    /\ Completes("prepare", TRUE)
    /\ shutdown
    /\ selection' = NoProfile
    /\ loop' = Driving({}, FALSE, "settle", {})
    /\ UNCHANGED <<queue, active, content, durable, saving, locks, session,
                   windows, cycles>>

\* Prepared, after shutdown was requested.
PreparedTooLate ==
    /\ Completes("prepare", TRUE)
    /\ shutdown
    /\ selection' = NoProfile
    /\ rejected' = IF rejected = NoProfile THEN Answered.profile ELSE rejected
    /\ loop' = Driving({}, FALSE, "settle", {})
    /\ UNCHANGED <<queue, active, content, durable, saving, replacement,
                   replaced, releasing, session, windows, cycles>>

\* Prepared: the initial profile is committed and the window created.
PreparedInitial ==
    /\ Completes("prepare", TRUE)
    /\ ~shutdown
    /\ active = NoProfile
    /\ ActivateProfile(Answered.profile)
    /\ selection' = NoProfile
    /\ browsing' \in BOOLEAN
    /\ loop' = At("handling")
    /\ UNCHANGED <<queue, saving, replacement, rejected, releasing, discovery,
                   unsent, resetting, shutdown, windows, cycles>>

\* The same, and the session or the window cannot be created.
PreparedInitialFails ==
    /\ Completes("prepare", TRUE)
    /\ ~shutdown
    /\ active = NoProfile
    /\ ActivateProfile(Answered.profile)
    /\ Shutdown(discovery, NoProfile, replacement, rejected, "settle")
    /\ UNCHANGED <<queue, saving, releasing, windows, cycles>>

\* Prepared: browser work of the active profile is under way.
PreparedWhileBrowsing ==
    /\ Completes("prepare", TRUE)
    /\ ~shutdown
    /\ active # NoProfile
    /\ browsing
    /\ replacement' = Answered.profile
    /\ loop' = At("handling")
    /\ UNCHANGED <<queue, runtime, rejected, replaced, releasing, session,
                   windows, cycles>>

PreparedQuietly ==
    /\ Completes("prepare", TRUE)
    /\ ~shutdown
    /\ active # NoProfile
    /\ ~browsing

\* ActiveProfileNotDurable: the active profile is flushed first.
PreparedWhileDirty ==
    /\ PreparedQuietly
    /\ ~Flushed
    /\ replacement' = Answered.profile
    /\ loop' = Driving(Store, TRUE, "settle", {})
    /\ UNCHANGED <<queue, runtime, rejected, replaced, releasing, session,
                   windows, cycles>>

PreparedReplaces ==
    /\ PreparedQuietly
    /\ Flushed
    /\ CommitReplacement(Answered.profile)
    /\ loop' = At("handling")
    /\ UNCHANGED <<saving, rejected, discovery, unsent, shutdown, windows,
                   cycles>>

PreparedRejected ==
    /\ PreparedQuietly
    /\ RejectProfile(Answered.profile, "settle")
    /\ UNCHANGED <<queue, active, content, durable, saving, replaced,
                   releasing, windows, cycles>>

PreparedReplacesAndFails ==
    /\ PreparedQuietly
    /\ Flushed
    /\ ActivateProfile(Answered.profile)
    /\ Shutdown(discovery, NoProfile, replacement, rejected, "settle")
    /\ UNCHANGED <<queue, saving, releasing, windows, cycles>>

\* The profile could not be prepared.
NotPrepared ==
    /\ Completes("prepare", FALSE)
    /\ Shutdown(discovery, NoProfile, replacement, rejected, "settle")
    /\ UNCHANGED <<queue, active, content, durable, saving, replaced,
                   releasing, windows, cycles>>

\* Mutation of Saved: mutations made since the save began count as saved.
SavedAsCurrent ==
    /\ Completes("save", TRUE)
    /\ durable' = [durable EXCEPT ![Answered.store] = content[active][Answered.store]]
    /\ saving' = [saving EXCEPT ![Answered.store] = NotSaving]
    /\ loop' = Driving(Store, shutdown \/ replacement # NoProfile,
                       "settle", {})
    /\ UNCHANGED <<queue, active, selection, content, locks, session, windows,
                   cycles>>

\* SettingsSaved, HistorySaved, BookmarksSaved, SessionRestoreSaved.
Saved ==
    /\ Completes("save", TRUE)
    /\ durable' = [durable EXCEPT ![Answered.store] = saving[Answered.store]]
    /\ saving' = [saving EXCEPT ![Answered.store] = NotSaving]
    /\ loop' = Driving(Store, shutdown \/ replacement # NoProfile,
                       "settle", {})
    /\ UNCHANGED <<queue, active, selection, content, locks, session, windows,
                   cycles>>

\* A failed save ends the program: no other store is saved, no lock released.
NotSaved ==
    /\ Completes("save", FALSE)
    /\ saving' = [saving EXCEPT ![Answered.store] = NotSaving]
    /\ BeginShutdown(discovery, selection, replacement, rejected)
    /\ loop' = At("exited")
    /\ UNCHANGED <<queue, active, content, durable, replaced, releasing,
                   windows, cycles>>

\* CatalogDiscovered, after shutdown was requested.
DiscoveredTooLate ==
    /\ \E ok \in BOOLEAN : Completes("discover", ok)
    /\ shutdown
    /\ discovery' = "none"
    /\ loop' = Driving({}, FALSE, "settle", {})
    /\ UNCHANGED <<queue, runtime, locks, unsent, resetting, browsing,
                   shutdown, windows, cycles>>

\* complete_profile_cycle: the next profile of the catalog, if another exists.
DiscoveredNext ==
    /\ Completes("discover", TRUE)
    /\ ~shutdown
    /\ discovery' = "none"
    /\ \E p \in Profile \ {active} :
        /\ selection' = p
        /\ TrySend(Prepare(p))
    /\ unsent' = QueueFull
    /\ loop' = At("handling")
    /\ UNCHANGED <<active, content, durable, saving, locks, resetting,
                   browsing, shutdown, windows, cycles>>

DiscoveredAlone ==
    /\ Completes("discover", TRUE)
    /\ ~shutdown
    /\ discovery' = "none"
    /\ loop' = At("handling")
    /\ UNCHANGED <<queue, runtime, locks, unsent, resetting, browsing,
                   shutdown, windows, cycles>>

NotDiscovered ==
    /\ Completes("discover", FALSE)
    /\ ~shutdown
    /\ Shutdown("none", selection, replacement, rejected, "settle")
    /\ UNCHANGED <<queue, active, content, durable, saving, replaced,
                   releasing, windows, cycles>>

\* LockReleased.
ReleaseCompletes(purpose, ok) ==
    /\ Completes("release", ok)
    /\ releasing.purpose = purpose
    /\ releasing' = NotReleasing
    /\ replaced' = IF purpose = "replaced" THEN NoProfile ELSE replaced

ReplacedReleased ==
    /\ ReleaseCompletes("replaced", TRUE)
    /\ IF shutdown
       THEN loop' = Driving({}, FALSE, "settle", {}) /\ UNCHANGED browsing
       ELSE loop' = At("handling") /\ MayRestartAfter(resetting)
    /\ UNCHANGED <<queue, runtime, replacement, rejected, discovery, unsent,
                   resetting, shutdown, windows, cycles>>

ReplacedNotReleased ==
    /\ ReleaseCompletes("replaced", FALSE)
    /\ ShutdownNow("settle")
    /\ UNCHANGED <<queue, active, content, durable, saving, windows, cycles>>

\* The shutdown goes on whether or not the rejected lock was released.
RejectedReleaseEnds ==
    /\ \E ok \in BOOLEAN : ReleaseCompletes("rejected", ok)
    /\ loop' = Driving({}, FALSE, "settle", {})
    /\ UNCHANGED <<queue, runtime, replacement, rejected, session, windows,
                   cycles>>

ActiveReleaseEnds ==
    /\ \E ok \in BOOLEAN : ReleaseCompletes("active", ok)
    /\ loop' = At("exited")
    /\ UNCHANGED <<queue, runtime, replacement, rejected, session, windows,
                   cycles>>

-----------------------------------------------------------------------------
Worker == Work /\ UNCHANGED <<runtime, locks, session, windows, loop, cycles>>

Drive ==
    \E s \in Store : PollClean(s) \/ PollPending(s) \/ PollEarly(s) \/ PollDue(s)

Settle ==
    \/ Rest
    \/ ReleaseReplaced
    \/ ReleaseRejected
    \/ ReleaseActive
    \/ ExitWithoutProfile
    \/ ReplaceProfile
    \/ ReplacementRejected
    \/ ReplacementFails

HandleCompletion ==
    \/ PreparedTooLate
    \/ PreparedInitial
    \/ PreparedInitialFails
    \/ PreparedWhileBrowsing
    \/ PreparedWhileDirty
    \/ PreparedReplaces
    \/ PreparedRejected
    \/ PreparedReplacesAndFails
    \/ NotPrepared
    \/ Saved
    \/ NotSaved
    \/ DiscoveredTooLate
    \/ DiscoveredNext
    \/ DiscoveredAlone
    \/ NotDiscovered
    \/ ReplacedReleased
    \/ ReplacedNotReleased
    \/ RejectedReleaseEnds
    \/ ActiveReleaseEnds

BrowsingEnds == \E T \in SUBSET Store : FinishBrowsing(T)
ResetEnds == \E T \in SUBSET Store : SessionReset(T)
UserActs ==
    \/ \E T \in SUBSET Store : KeyboardCommand(T)
    \/ ProfileCycle
    \/ StopRequested

Next ==
    \/ Worker
    \/ Resumed
    \/ UserActs
    \/ BrowsingEnds
    \/ ResetEnds
    \/ Drive
    \/ Settle
    \/ EventsHandled
    \/ DeadlinePasses
    \/ HandleCompletion

Spec == Init /\ [][Next]_vars

(* The worker's thread and the event loop's run on.  A batch of events is  *)
(* finite, so it comes to its end (about_to_wait) again and again; in it,  *)
(* events are handled in the order they came; a deadline is met however    *)
(* many events come before it; page work ends or times out.                *)
Fairness ==
    /\ WF_vars(Worker)
    /\ WF_vars(Resumed)
    /\ WF_vars(Drive \/ Settle)
    /\ SF_vars(EventsHandled)
    /\ SF_vars(HandleCompletion)
    /\ SF_vars(ResetEnds)
    /\ SF_vars(BrowsingEnds)
    /\ SF_vars(DeadlinePasses)

FairSpec == Spec /\ Fairness

-----------------------------------------------------------------------------
LoopType ==
    [phase : {"starting", "waiting", "timed", "handling", "driving", "exited"},
     todo : SUBSET Store, urgent : BOOLEAN,
     after : {"return", "settle", "wait"}, alarm : SUBSET Store]

\* Type invariant of the shell and of the worker it drives.
TypeOK ==
    /\ queue \in Seq(Command) /\ Len(queue) <= QueueCapacity
    /\ busy \in Seq(Command) /\ Len(busy) <= 1
    /\ done \in Seq(Completion)
    /\ locked \subseteq Profile
    /\ stored \in [Profile -> [Store -> 0 .. MaxContent]]
    /\ ioFailed \in BOOLEAN
    /\ active \in Profile \cup {NoProfile}
    /\ selection \in Profile \cup {NoProfile}
    /\ content \in [Profile -> [Store -> 0 .. MaxContent]]
    /\ durable \in [Store -> 0 .. MaxContent]
    /\ saving \in [Store -> 0 .. NotSaving]
    /\ discovery \in {"none", "unsent", "sent"}
    /\ replacement \in Profile \cup {NoProfile}
    /\ rejected \in Profile \cup {NoProfile}
    /\ replaced \in Profile \cup {NoProfile}
    /\ releasing \in [profile : Profile \cup {NoProfile}, purpose : Purpose]
    /\ {unsent, resetting, browsing, shutdown} \subseteq BOOLEAN
    /\ windows \subseteq Store
    /\ loop \in LoopType
    /\ cycles \in 0 .. MaxCycles

InFlight ==
    {queue[i] : i \in DOMAIN queue} \cup {busy[i] : i \in DOMAIN busy}

Answers == {done[i] : i \in DOMAIN done}

\* Who answers for a lock the process holds.
Custodians(p) ==
    {r \in {"active", "replacement", "rejected", "replaced", "releasing", "prepared"} :
        \/ r = "active" /\ active = p
        \/ r = "replacement" /\ replacement = p
        \/ r = "rejected" /\ rejected = p
        \/ r = "replaced" /\ replaced = p
        \/ r = "releasing" /\ releasing.purpose = "rejected" /\ releasing.profile = p
        \/ r = "prepared" /\ [command |-> Prepare(p), ok |-> TRUE] \in Answers}

\* Every lock the process holds has exactly one place in the shell from which
\* it will be released, whatever was replaced, rejected or prepared too late:
\* without an I/O failure, no lock is forgotten and none released twice.  And
\* none is given back under a save: the worker executes every save of a profile
\* while its lock is held and the profile is the active one.
LockCustody ==
    /\ TypeOK
    /\ ioFailed \/ \A p \in locked : Cardinality(Custodians(p)) = 1
    /\ \A c \in InFlight :
          c.kind = "save" => /\ c.profile \in locked
                             /\ c.profile = active
                             /\ releasing.profile # c.profile

\* A completion always finds the pending work it answers (the cases in which
\* handle_profile_worker_completion reports stale work never arise), and a
\* prepared profile never finds the lock of the profile before unreleased.
NoStaleCompletion ==
    \A d \in Answers :
        LET c == d.command IN
        CASE c.kind = "prepare" -> /\ selection = c.profile
                                   /\ ~unsent
                                   /\ replacement = NoProfile
                                   /\ rejected = NoProfile
                                   /\ replaced = NoProfile
          [] c.kind = "save" -> active = c.profile /\ saving[c.store] = c.content
          [] c.kind = "release" -> releasing.profile = c.profile
          [] c.kind = "discover" -> discovery = "sent"

\* A profile that is not active is on disk as its user left it: replacing it
\* lost no mutation.
NoLostMutation ==
    \A p \in Profile : p # active => stored[p] = content[p]

\* A loop that waits without a deadline, with anything left to do, is going to
\* be woken: the worker has a command or a completion of it is on its way, or
\* page work or a session reset is.
NoLostWakeup ==
    loop.phase = "waiting" /\ ( \/ shutdown
                                \/ discovery # "none"
                                \/ selection # NoProfile
                                \/ replaced # NoProfile
                                \/ \E s \in Store : Dirty(s) ) =>
        \/ InFlight # {}
        \/ done # <<>>
        \/ browsing
        \/ resetting

\* Unless an I/O operation fails, a shutdown leaves nothing behind: when the
\* program exits everything is saved and every lock is released, and the active
\* profile's lock is the last one given back.
ShutdownIsOrderly ==
    [][ /\ loop'.phase = "exited" /\ ~ioFailed' =>
              locked' = {} /\ stored' = content'
        /\ active \in locked /\ active \notin locked' =>
              ioFailed \/ (locked' = {} /\ shutdown) ]_vars

\* A shutdown ends, whatever was in flight when it was requested.
ShutdownEnds == shutdown ~> loop.phase = "exited"

\* What the user did to a profile is saved, or the program exits.
MutationsSaved ==
    \A p \in Profile, s \in Store :
        content[p][s] = MaxContent ~>
            stored[p][s] = MaxContent \/ loop.phase = "exited"

\* A profile the user asked for becomes active, or the program shuts down: the
\* wait for saves, for page work and for the queue comes to an end.
SelectionEnds == \A p \in Profile : selection = p ~> active = p \/ shutdown

\* What the shell has taken on it brings to its end: shutdowns, selections, and
\* the saving of every mutation.
UndertakingsEnd == ShutdownEnds /\ SelectionEnds /\ MutationsSaved
=============================================================================
