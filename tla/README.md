# A TLA+ development of Zorya

Zorya is a browser shell written in Rust: one native event loop, a profile
worker thread that owns every file access of the profiles, a render worker
thread that owns the engine.  This directory models the parts in which steps of
several actors, crashes, late answers or a full queue decide whether user data
survives and authority stays with the page it was given to, checks them with TLC,
and proves what matters most with TLAPS for every number of processes, sessions
and tabs.

## 1. Inventory

Sources are under `src/src/`; about half of their 36 thousand lines are tests.

| Component | State it keeps | Operations | What makes it correct |
|---|---|---|---|
| Profile lock (`profile_lock.rs`) | a directory with one owner record per profile root; a process-wide owner counter | `acquire`, `verify`, `release`, `recover_abandoned` | one process works on a profile; nobody's lock is removed by mistake; a crash never unlocks |
| Generation stores (`profile.rs`, `browsing_history.rs`, `bookmarks.rs`, `session_restore.rs`) | immutable numbered records, pending files | load, save (list, write, publish by hard link, clean up) | a save is atomic, never overwrites a newer one, leaves enough to load after a crash or damage |
| Profile metadata and catalog (`profile_metadata.rs`, `profile_catalog.rs`, `profile_path.rs`) | identity and name records, the `Profiles` directory | discover, create, rename | a half-made profile is never listed; identities are unique and stable |
| Profile worker (`profile_worker.rs`) | a queue of one command | prepare, four kinds of save, discover, create, rename, release | commands run in order, each answered once; a full queue gives the command back |
| Profile runtime (`profile_runtime.rs`, `profile_runtime/`) | active profile, pending selection, per store a mutation revision, a durable revision and a pending save | begin, cancel and commit a selection; mutate; begin, cancel and complete a save | a mutation made during a save is not taken for saved; only the exact pending work completes |
| Save schedulers (`profile_*_scheduler.rs`) | first and last mutation time, last time seen | `poll` | dirty data is saved by its maximum age however often it changes and whatever the clock does |
| Native shell (`platform/windows.rs`, `async_lifecycle.rs`) | all of the above, the locks of replaced and rejected profiles, requests to the render worker | winit callbacks, completions of both workers | nothing is lost at a replacement or a shutdown; stale completions change nothing |
| Tab presentation (`presentation_handoff.rs`, `tab_activation.rs`, `tab_close.rs`) | represented tab, visible content, pending activation, generation | begin, confirm neutral, commit, present, cancel | page pixels never appear under another tab's chrome |
| Render worker (`platform/windows.rs`, `RenderWorker`) | the engine's views, the surface, tab and generation presented, pending navigations | start, attach, create, close, draw, replace the surface, navigate, cancel, reset, poll | it draws only what a current permit allows; every navigation is answered once |
| Browser model (`app.rs`, `navigation.rs`, `tab_strip.rs`, `chrome.rs`, `commands.rs`) | windows, tabs, per-tab history and pending navigation | create, close, activate, navigate, commit, fail | a superseded navigation never commits; the current entry exists |
| Session restore sync (`session_restore_sync.rs`, `session_restore.rs`) | bindings from tabs to stored tabs; the stored session | restore, synchronise, save | a refused change leaves snapshot and bindings as they were; a restart shows what was saved; stored numbers are not used twice |
| Engine (`engine.rs`, `engine_authority.rs`) | a view per tab: pending navigation, committed context, internal page; contexts and capabilities at the external host control plane | create, close, load, begin, poll and cancel a navigation; grant, prepare and revoke | authority follows the committed document; whatever way a navigation ends, nothing is left behind |
| Privileged requests (`privileged_request.rs`) | a bounded tracker of requests with byte budgets | register, consume, ask, answer, authorise, prepare, revoke | each request is answered at most once; budgets are given back |
| HTTP transport (`http_transport.rs`) | requests active, answers ready, two bounded queues, one task per request | start, poll, cancel; take, respond, send | a request dropped is never answered; a full queue refuses |

Interactions.  The event loop calls the runtime and the schedulers directly; it
sends commands to the profile worker with `try_send` on a channel of capacity
one, and receives completions through the loop's unbounded proxy.  The render
worker is fed the same way.  Nothing is shared between the threads but those
queues, the disk and cancellation flags.  Processes meet only on disk, in the
lock directory of a profile root.

What is hard: crashes between any two file operations; several processes on one
profile; recovery of an abandoned lock against its former owner's late steps; a
queue that refuses commands; completions that arrive after a shutdown, a
replacement or a cancellation; the order in which locks are given back; a loop
that may go to sleep with work left; frames under way when tabs are switched or
closed, or when the surface is lost; identifiers that start again with every
profile session.  `PROJECT.json` lists each of these at its
line under `hazards`.

## 2. Modules

| Module | Models | Composed of |
|---|---|---|
| `ExclusiveOwnership` | abstract: an owner takes a resource, drops it or forfeits it | |
| `ProfileLock` | the lock directory, one action per file operation, for process lifetimes that may crash | implements `ExclusiveOwnership` |
| `SharedRegister` | abstract: one register, written by sessions | |
| `GenerationStore` | load and save of a store, one action per file operation | implements `SharedRegister` |
| `ProfileWorker` | the command queue and the worker thread; the disk as the two modules above establish it | |
| `ProfileShell` | the profile part of the native shell and the runtime state it drives | extends `ProfileWorker` |
| `ProfileRuntime` | the runtime with its identifiers, against a caller free in everything it may compile to | |
| `SaveScheduler` | `poll` of one scheduler, the clock and the sleeping event loop | |
| `PresentationHandoff` | `TabPresentationHandoff`: permits and generations, as operators on a record | |
| `RenderWorker` | the render worker's queue, its commands and the pixels on the surface | extends `PresentationHandoff` |
| `ShownTab` | abstract: the page the chrome names and the page whose pixels are seen | |
| `NativeTabs` | keys, window events and completions of the shell: tabs, frames, navigations, the native side of a profile switch | extends `RenderWorker`, implements `ShownTab` |
| `HttpTransport` | the transport's calls as operators on a record, and the steps of its thread | |
| `EngineHost` | views, navigations and documents, with contexts and capabilities | extends `HttpTransport` |
| `PrivilegedRequests` | the tracker, permission questions and network authorizations | extends `EngineHost` |
| `TabHistory` | the history of one tab, as operators | |
| `BrowserModel` | windows, tabs, activations, closes and navigations with their late answers | extends `TabHistory` |
| `SessionRestore` | the stored session, as operators | |
| `SessionSync` | synchronisation, saves, crashes and restarts | extends `BrowserModel`, `SessionRestore` |
| `ProfileCatalog` | profile directories and name records, one action per directory operation, for processes that crash | |
| `GenerationStoreProofs`, `ProfileShellProofs`, `PrivilegedRequestsProofs`, `ProfileCatalogProofs`, `SessionSyncProofs` | theorems | extend the module they are named after |
| `ProfileProofs` | theorems about one profile's guards | extends `ProfileRuntime`, `SaveScheduler` and `ProfileLock` |
| `NativeTabsSteps` | the invariant of shell and render worker, and what each kind of change keeps of it | extends `NativeTabs` |
| `NativeTabsProofs` | theorems about the tabs | extends `NativeTabsSteps` |
| `MC...` | instances for TLC | |

How state and actions correspond to the code is in the comment at each
definition and in `PROJECT.json` under `map`.  In short:

* **ProfileLock.**  `pc[l]` is where process lifetime `l` is in `acquire`,
  `remove_exact_owner` or at work; the disk is the directory and the set of
  records in it, each readable or not.  A lifetime is given a process id when it
  starts (`pid[l]`): one that no running process has, but an ended one may have
  had; the code tells owners apart by that id and their number (`Name`).  A crash
  is possible at every step.
* **GenerationStore.**  A session acquires the lock (abstractly: it is free or
  it is not), loads, saves any number of times and releases.  `save_settings` is
  nine steps; the three other stores run the same algorithm with their own
  constants.  A record's content is one of a few values, its encoding is
  abstracted to whether it decodes (`Damage` makes it not).
* **ProfileShell.**  `loop` says where the event loop is.  A handler is one
  action, except that the passage over the stores to save them
  (`drive_profile_saves`) is one step per store, because the worker may take a
  command from the queue in between; what the handler does after it is another
  step (`Settle`).  A store is counted in mutations: `content` is what the user
  did, `durable` what the last completed save captured, `saving` what the
  pending save captured.  Identifiers are left out, since at most one selection,
  one discovery, one release and one save per store are under way;
  `NoStaleCompletion` checks what the identifiers are there for.  Page and tab
  work is one flag, `browsing`, the negation of
  `profile_replacement_browser_quiescent`.
* **ProfileRuntime.**  The four stores differ in names only and are the elements
  of `Store`.  Intents, prepared profiles, saves and completions are values that
  Rust moves: the caller uses each once, or never, in any order.  So the module
  says what the runtime guarantees to any caller, where `ProfileShell` says what
  the native shell makes of it.  `Executable` is what `GenerationStore` and
  `ProfileLock` establish: a save is refused if its lock is gone or somebody
  saved since it was begun.
* **SaveScheduler.**  The variables are the fields of the scheduler.  `alarm`
  is what `about_to_wait` hands to winit.  `oldest` is a history variable: it
  follows which mutations no save covers, without looking at revisions observed
  or windows, and so says what the window ought to be.  One unit of time is any
  number of milliseconds; the proofs hold for every policy `new` accepts.

* **NativeTabs.**  `shell` is the record of `NativeShell`'s fields and of its
  `BrowserApp`'s: `tabs` and `active` are the strip, `loading[t]` the pending
  navigation of a tab, `targets[t]` the owner the shell dispatched it for,
  `handoff` the presentation, `init`, `frame`, `surface`, `reset` and `creating`
  the pending requests, `permit` and `recovery` the permits kept for later,
  `dirty` is `needs_redraw`, `redraw` a redraw winit owes, `visible` whether the
  window is shown.  A handler is a function from such a record to the next one
  and at most one command (`out`), as in the code, where a handler runs to its
  end on one thread; `Become` sends the command and turns a full queue into the
  failure it is.  `fatal` is the cause of `fatal_error`.  The browser's own
  pending activation is begun and resolved within one handler and so is not
  state.  `ProfileShell` sees the same shell from the other side: its `browsing`
  is the negation of `Quiescent` here, and its selection, flush and release are
  `seeking` and `unlocking` here.
* **RenderWorker.**  `busy` is the command in execution; a navigation that was
  begun is in `render.pending` until `NavigationEnds`.  `screen` is the page of
  the last frame presented, a page being a session and a tab.  Request numbers
  that nobody refers to any more are used again, so the worker's test that they
  grow is left out; tab, navigation and activation numbers are the code's.

* **HttpTransport and EngineHost.**  `network` is the engine's transport: the
  requests it knows (`active`, `ready`) and where each is on its way through the
  thread (`wire`).  `views[t]` holds the fields of a `HostedView` and what it
  shows; `host` holds the contexts and capabilities of the external control
  plane, numbered from 1 in every host, as `EngineHost` sees them.  Each call
  runs to its end on the render worker's thread, so it is one action; between
  calls the transport moves.
* **PrivilegedRequests.**  `tracker` has the fields of
  `EnginePrivilegedRequestTracker` and of the accounting its leases share;
  `authorizations` and `questions` are the values the caller was handed, which
  it uses once or drops.  A source is minted when a request is registered; it
  becomes stale afterwards by anything the engine does.
* **BrowserModel.**  `windows`, `pages` and `next` are `BrowserApp`'s windows,
  the navigations of their tabs and the counters; `answers` are navigations the
  engine has not answered and `closes` a close that waits for neutral content,
  both held by callers.  It covers the operations of the library, of which the
  shell uses some.
* **SessionSync.**  `session` and `bindings` are the runtime's snapshot and the
  maps of `ProfileSessionRestoreSync`; `disk` is the session last saved.  A
  synchronisation works on copies, step by step in the order of the code, and is
  published whole or not at all.  A restart may come at any time.
* **ProfileCatalog.**  `profiles[r]` is a directory: absent or there, with its
  identity records, its name records and its marker; `work[p]` is where process
  `p` is in a discovery, a creation, a rename or an opening.  The lock of a
  profile is `ExclusiveOwnership`, which `ProfileLock` implements; a crash leaves
  the directories as they are and frees the lock, as a careful recovery does.

Simplifications of the tabs: one window, as natively; pages are remote or the
start page and have no history to go back to, since the shell only reloads; the
close of a background tab has no key; the creation of a surface on the event
thread fails as the worker's commands do (`Faulty`); what is posted to a hidden
or closed window's worker is kept.

## 3. Runs

| Run | Instance | What it shows |
|---|---|---|
| `lock` | 3 process lifetimes, 2 acquisitions each, 3 process ids that may be used again | until an id is used again (`UniquePids`) one process at a time is at work and keeps its record, and the lock implements `ExclusiveOwnership`; a release never removes the record of another owner, whatever ids were used before |
| `store` | 3 sessions, 2 saves each, 5 numbers; limits of 6 directory entries and 3 generations; 2 damaged records | through crashes and recovery the store behaves as one register while nothing is damaged; what a save listed stays true until it publishes; the directory keeps to the entries a listing accepts and exceeds the generations it accepts by one at most; numbers grow; an acknowledged save stays covered, and damage leaves another record that decodes |
| `shell` | 2 profiles, 2 stores, 2 mutations per store, 1 profile cycle | no lost mutation, no save without its lock, no forgotten lock, no stale completion, no lost wake-up; a shutdown releases the active lock last and exits clean |
| `shell_live` | the same with 1 mutation | shutdowns end, selections end, mutations are saved or the program exits (`UndertakingsEnd`) |
| `scheduler` | debounce 2, maximum age 3, threshold 3; 8 instants, 4 mutations, 2 profiles | the window is exact, unsaved data has a deadline, no deadline lies in the past |
| `runtime` | 3 directories, two of them copies of one profile; 3 selections, 3 saves, 2 mutations | what counts as saved is on disk; late saves do no harm; the newest selection wins |
| `tabs` | 3 tabs, 2 surface losses in a row, failures of every command, 4 keys or window events, an empty and two stored sessions, one switch of profile | `ShownTab` is implemented: pixels and chrome agree; shell and worker never contradict each other; requests are accounted for and loading pages owned; nothing crosses the switch |
| `tabs_live` | 2 tabs, 1 loss, 3 inputs, one switch | the window is shown again; stops, closes and navigations end (`WorkEnds`) |
| `tabs_stop` | 2 tabs, 3 inputs | **violation**: a stop that crosses a change of tab ends the program (section 5) |
| `requests` | 2 tabs, 1 site, 2 hosts, 2 trackers, 2 tickets over a transport with one place, 2 requests | contexts, capabilities and transport requests are exactly those the views name; authority is that of the document shown; capabilities in use are for it; the tracker's accounts are exact; a request is taken once |
| `session_sync` | see `MCSessionSync`: four sets of limits on windows, tabs, activations, navigations and starts; histories of 2; 2 stored windows, 2 stored tabs | browser and history stay coherent; late answers change nothing; bindings and session stay one to one; every window is stored as it is shown; a restart shows what was saved |
| `catalog` | 2 processes, 2 names, 2 profiles besides the legacy one, 3 renames, 4 other works | no discovery breaks on what another process or a crash left; listed profiles stay; renames are kept; an open profile stays as it was opened |

Bounds.  Three lifetimes are what it takes for an abandoned lock, its recovery
and a third party that acquires in between, possibly with the id of the first;
two acquisitions for a stale token of one's own.  Two mutations of a store let one fall into a pending save.  Two
stores are enough for one save to hold the only place in the queue when the
other is due.  One profile cycle replaces a profile once, with discovery,
preparation, flush, commit, release and reset interleaved with everything else;
two cycles were checked as well, with the same result, but take longer than a
run should.  For the scheduler, eight instants let two windows of the maximum
age pass with a step back in between, and three mutations reach the threshold
with a fourth to come.  For the runtime, three saves of a store let one be
cancelled, executed late and compared with a newer one.  It has one store: the
stores touch only in `Replaceable` and in `Commit`, each of which treats every
store alike, and the proofs are for any number.  `MaxContent`, `MaxCycles`,
`MaxGen`, `MaxSaves`, `MaxDamage`, `MaxOwnerId`, `MaxSelection`, `MaxSave`,
`MaxRevision`, `MaxClock`, `MaxProfile`, `MaxTabs`, `MaxLosses`, `MaxInputs`,
`MaxSessions`, `MaxTickets`, `MaxHosts`, `MaxRequests`, `MaxTrackers`, `Limits`,
`MaxIdentities`, `MaxRenames` and `MaxWork` are the only bounds.  `MaxEntries`,
`MaxGenerations`, `Retained`, `MaxInFlight`, `MaxPending`, `BodyBudget`,
`TextBudget`, `MaxSessionWindows`, `MaxTabsPerWindow`, `MaxSessionTabs`,
`MaxProfiles` and `MaxRecords` are limits of the code, small enough here to be
met, but for `MaxPending`: two requests are what the run affords, and the
tracker's number of pending requests is refused by it only beyond two (the budgets
of bytes are met, and the theorem on the accounts is for any limits).

For the store, a save may find three generations, as many as a listing accepts,
and publish a fourth; its removals may fail, and then every save and load that
follows is refused.  Six entries leave room for a pending file of an interrupted
save beside them, so that either limit may be the one that refuses.  What a save
keeps in local variables is no part of a state once it has returned (`View`).

For the tabs, three tabs let the fallback of a close be neither the first tab
nor the last one made; two losses let the surface of a recovery be lost again.
Four inputs open a tab, leave it, close it or reload it while a frame is lost,
or let a reload, a stop and a change of tab precede or cross a switch of
profile.  Six inputs without switch and failures were checked as well, with the
same result.

For the requests, two tickets let a navigation supersede another or replace a
committed document, one place in the transport lets it be full, and a second host
and tracker start their numbers again while values of the first are held.  For
the session, histories of two entries meet the limit at the third page, and two
stored tabs meet the limits of the session, so that a synchronisation is refused
half-way.  Two stored windows are needed: the session keeps windows in the order
in which they came to have something to store, which with one window cannot be
told from the browser's order.  That a window, rather than a tab, is refused takes
a third one, and is left to the proofs, which are for any limits; so is a larger
number of tabs together with navigations and restarts, which `MCLimits` trades
against each other, since all at once do not end in a run's time; the
constraint `Narrow` leaves out the address bar where it is the session that is
tried, and has three tabs navigate one after the other (late answers across tabs
and windows come under the other limits).  For
the catalog, two processes, each with one work at a time, are what a rename
against an opening, a discovery or another rename takes; `MaxRecords` is 3, one more
than a rename ever leaves.

Deadlock is not checked where the system may stop for good: all processes have
ended, the event loop has exited, or a bound is reached (clock, mutations,
selections).  That it does not stop before is
`NoLostWakeup` and `UndertakingsEnd`.

Fairness (`ProfileShell!Fairness`).  Weak fairness of the worker thread, of
`resumed` and of the steps of a running handler: threads run.  Strong fairness
of `about_to_wait` and of the handling of completions: winit ends every batch of
events with `about_to_wait` and delivers events in the order they came, whatever
else arrives.  Strong fairness of the deadline: time passes however many events
come before it.  Strong fairness of the end of page work and of a session reset:
the render worker answers, and its transport has timeouts.  Nothing is assumed
of the user, and nothing of success: any file operation may fail.

Fairness (`NativeTabs!Fairness`).  Weak fairness of the render worker's thread, of
the delivery of its answers, of a redraw that was requested and of the profile
side of a switch, which `ProfileShell` shows to end.  Strong fairness of the end
of a fetch: the worker polls after every command and the transport has timeouts.
`LiveSpec` also has the user act only on a window that is shown, because a
hidden window has no focus; the safety runs do not assume it.

Every property of a passing run has a mutant, a plausible bug in one definition
(`PROJECT.json`, `mutants`) that TLC finds to violate it.

## 4. Proofs

The theorems hold for every set of processes, sessions, directories, profiles,
stores, tabs and sites, and every value of the limits and of the policy.

* **ProfileLock.**  The invariant says which records may be in the directory at
  each place of each process: a process past the creation of the directory and
  not yet past the removal of its record is the only one there, its record is
  the only one, and a process that recovers names an owner that is gone.
  Mutual exclusion by itself is not inductive, because the exclusion comes from
  who *created the directory*, not from who is at work.  From it follow
  `OneAtWork` and `HolderKeepsLock` (together `LockIsKept`), `OneRecord`, and the
  refinement of `ExclusiveOwnership`.  All this is for as long as no process id
  is used again (`UniquePids`, a premise about each state); once one is, it is
  so for good, which is why the premise carries over to earlier states.
  `ReleaseSparesOthers` needs neither that nor careful recoveries.  It has an
  invariant of its own (`NamesInv`): running processes have different ids, and
  from the creation of the directory to the removal of its record a process finds
  no record with its id in it but its own, for what earlier processes with the id
  left was gone when the directory could be created.
* **GenerationStore.**  `StableListing` needs, beside the lock, that what a save
  remembers of its listing is still what is on disk, through every other
  session's steps; `WithinScanLimit` needs a bound on the entries and generations
  each step of a save may still add, and facts on cardinalities; together they are
  `ListingHolds`.
  `AcknowledgedStaysCovered` follows from the same invariant.  `SurvivesDamage`
  is a matter of counting: the records that are damaged (`Damaged`), and the
  acknowledged ones that were removed and have too few newer ones left to outlast
  the damage still possible (`Gone`), together never outnumber the damage done
  (`LossInv`); for this a cleanup may remove only what is neither among the newest
  of its listing nor what it was based on, and `KeepInv` says what it knows of
  them while other sessions and damage go on.  The refinement of `SharedRegister` (`NoLostSave`)
  maps a load to the register's `Read`, the publication to `Replace`, the return of
  a save to `Acknowledge` and every other step to a stutter: in particular a cleanup,
  which never removes the newest record.
* **SaveScheduler.**  The invariant says what the window looks like (both ends
  or neither, the last mutation not before the first, nothing after the last
  reading of the clock, only for the profile tracked), that the revision
  observed never runs ahead, and that a pending save was begun by this scheduler,
  which has opened a window for every mutation it has seen since
  (`PendingObserved`).  Without the last part `WindowTracksUncovered` is not
  inductive: a poll during a save could swallow a mutation.
  `DeadlineWhileUnsaved` and the action property `NoDeadlineInThePast` follow
  with arithmetic on the policy; together they are `SleepIsBounded`.
* **ProfileRuntime.**  Two facts carry the proofs.  Locks are fresh: selection
  ids only grow, a lock is named after the selection it was taken for, and so no
  two holders share one.  And the disk is at most one save ahead of
  memory: it holds either what the runtime knows to be durable, or one later
  generation of the active profile, with no more than memory has.  A save still
  to be executed belongs to the active profile and starts from a generation it
  knows, or it is dead: its lock is gone, or the disk has moved past its base.
  From these follow `DurableIsOnDisk` and, with it, the three action properties.

* **ProfileShell.**  The invariant ties the shell to the worker by two facts, each
  the converse of the other: a command on its way, or answered and not handled,
  is one the shell remembers (`Remembered`), and what the shell waits for is on
  its way (`Underway`); and no two commands on their way ask for the same
  (`Distinct`), so that handling an answer leaves none for the same to come.
  Beside them it says how selection, replacement, release and shutdown exclude
  each other (`Selecting`, `Releasing`), what the disk holds of the active
  profile with a save answered or not (`OnDisk`), where every lock is and which
  must be held (`Custody`, `Locked`), and what is left of the work of a passage
  over the stores before the loop waits (`Waking`).  `LockCustody` by itself is
  not inductive: that a lock prepared too late finds its place free comes from
  `Selecting`, and that no save is under way when the active lock is given back
  from `Releasing` and `OnDisk`.  An action is shown to preserve the invariant
  conjunct by conjunct, those it cannot disturb in one step; the lemmas on
  answers (`PrepareEnds`, `SaveEnds`, `DiscoveryEnds`, `ReleaseEnds`) say, once
  for all handlers of a kind, what a completion finds.

* **PrivilegedRequests.**  Every action on a tab is shown to be of one of four
  kinds (it releases what the view had, begins a navigation, commits one, or
  leaves view and host alone), and each kind to preserve the engine's invariant:
  `NothingLeaks` and `AuthorityFollowsDocument`, and with them that numbers of
  contexts and capabilities are given out once, and that a view's pending and
  committed contexts differ.  `CapabilitiesAreCurrent` rests on a summary of any
  step of the engine (`Inherits`): a tab keeps its document or loses every
  capability for it, and new capabilities have new numbers; and on an old
  authorization being of an older host.  Revoking is harmless to a navigation
  because a capability an authorization holds is never the pending one, which
  again takes `CapabilitiesAreCurrent`: the three are one induction.
  `AnsweredOnce` follows from the order of the identities.  `AccountsAreExact`
  is a statement about sums over sets: lemmas on `Total` say what adding and
  taking out a request does to a sum, by induction over the finite subsets; each
  call of the tracker is then an addition, a removal or an exchange between
  `pending` and the questions, which belong to the tracker that asked them or to
  an older one.
* **ProfileCatalog.**  Two facts carry the proof.  A root only advances
  (`Advances`): its directory, identity and marker stay, its newest record only
  gets newer.  And its identity and records change in the hands of the process
  that holds its lock alone (`Changes`); from both it follows, once for all
  actions, that what any other process knows of a root stays true.  The
  invariant adds what a root may hold (`RootOK`: a marked one has identity and
  name; the records are none, one, or two in sequence, so that removing the
  older ones never removes the newest) and what each process may rely on at
  each step (`TaskOK`).  That no two roots share an identity needs to say that
  the legacy root's identity is the number of no generated root, which it is
  because both are allocated from one sequence.  The proof uses that
  `MAX_PROFILE_METADATA_DIRECTORY_ENTRIES` is at least 2.
* **SessionSync.**  The invariant `SyncInv` says that the browser is sound
  (`SoundBrowser`: each tab in one window, histories in order and of numbers given
  out; `Held`: what waits for an answer names such numbers), that session and disk
  are sound (`SoundSession`), that the bindings pair off the one with the other
  (`Cover`), and that the session is `Later` than the disk.  None of these is
  inductive alone: the bindings are exact only for tabs each listed once, and a
  refused synchronisation is harmless because it worked on copies, for which the
  same is shown after every step of every loop.  A synchronisation is five loops:
  over the windows closed, over those open, and in each of these over the tabs
  lost, the tabs to bind and their places.  Each loop is a fold, of which a lemma
  names the run, and the claim about the run is shown by induction over its
  length; so is what a restart makes of the windows and tabs of the disk.  `RestoreIsExact` adds to the invariant that a program
  that starts shows what it read (`FromDisk`); a synchronisation that finds each
  window as it is stored is then shown to leave every copy as it was, loop by
  loop.  For `StoredIsWhatIsShown` each loop is shown to leave the window it works
  on `Told` (its tabs in order, with their locations, and its active tab) and all
  others as they were (`Beside`), so that what one loop established is still true
  after the last.  The proofs use that a program is started at least once
  (`SyncConstants`).

* **NativeTabs.**  What the shell remembers and what the worker does are apart by
  everything that is on its way: the commands in the queue, the one in
  execution, the answers the event loop has not handled.  The proof puts them in
  one sequence, the pipe (`InHand`): answered commands first, each with its
  answer, then the one in execution, then the queue.  The worker only moves the
  border between answered and not; the shell takes from one end and adds at the
  other.  The invariant `Sound` relates the shell, the pipe, the worker and the
  screen.  Its parts say that each command in the pipe is one the shell waits for
  and each thing it waits for is in the pipe once (`Matched`); what may be under
  way together (`Exclusive`), a reset nothing but the start of the worker
  (`Alone`); in which session the worker is, by where the reset stands in the
  pipe (`InSession`); that a permit under way is of the handoff's generation, or
  of the one before it while a switch waits (`Fits`, `Frames`, `Drawn`); that a
  view is retired behind the frame that leaves it and ahead of the next switch
  (`Retiring`); which views there are (`Views`); and, for navigations, that those
  of a tab come in the order of their numbers, a stop behind what it stops
  (`Ordered`, `Stopped`), and that the end of the one the shell shows as loading
  is still to come, from the pipe or from the worker (`Carried`, `Answered`).
  None of the four properties is inductive: that the worker never finds a permit
  older than what it presented, for one, comes from the order in the pipe, and
  that order from what each handler waits for before it sends.
  `NativeTabsSteps` shows what each elementary change of shell or worker keeps of
  these parts.  A handler makes several such changes before its one command is
  sent, and passes through states that are not sound; `Good` says that it ends
  in one that is, once the command is sent, or in a shutdown, after which only
  `Safe` matters: answers still come, and none of them may be an error of the
  protocol.  `NoProtocolFault` follows at once, `NothingCrossesSwitch` from
  `Alone`, `InSession` and `Owned`, `RequestsInFlight` from `Matched`, `Loading`
  and `Answered` with the number of commands of each kind, for which it is
  counted how often the end of a navigation is in the pipe, with the worker or
  among the answers.  For `ImplementsShownTab` each handler is shown to keep the
  page the chrome names or to end hidden (`Shows`), and each frame to be the
  active page's when it is seen.  The proof uses of a stored session that its
  active tab is one of its tabs (`session_restore.rs:1038` rejects any other).

Assumptions, each named in its module: `PolicyAssumption` (what
`ProfileHistorySavePolicy::new` accepts) and
`CarefulRecovery` (whoever recovers an abandoned lock names an owner whose
process has ended, which the code leaves to its caller).  The constants' types
are `ASSUME`d where they are declared.

Induction.  A theorem that takes an operator as a parameter cannot be used in
these proofs, so `Induction` states the claim as the set of numbers it holds for,
and follows from the library's fact that the naturals are well-founded.  A fold is
reasoned about as the sequence of its intermediate results, and a sum over a set
by induction over its subsets.

Model-checked only: all liveness (`UndertakingsEnd`, `WorkEnds`), which is out of
the prover's reach.  Every other property of a passing run is a theorem.

## 5. Findings

`tabs_stop`: the second phase of a stop acts on the tab that is active when the
worker confirms, not on the tab whose navigation was cancelled.  If the user has
gone to another tab meanwhile, the program fails.

The model also shows the following.  TLC found each with a property of its own,
which is not kept as a run; the graver ones are in `hazards` at their lines.

* Owner numbers restart at 1 in every process (`profile_lock.rs:236`), so an
  owner is not unique once the system reuses a process id.  A recovery that named
  an owner when its process was gone, and is slow, may then remove the lock of a
  running process that has the same id and number (`profile_lock.rs:364`), where
  `docs/ARCHITECTURE.md:257` says that a stale token cannot delete a replacement
  owner's lock; after that two processes may be at work, and the directory may come
  to hold two records.  TLC finds this when `LockIsKept` and `OwnsOnce` are stated
  without their premise `UniquePids`, in the very instance of `lock`.  A release
  cannot do it: that is `ReleaseSparesOthers`.
* The reserve a save makes counts directory entries, not generations
  (`profile.rs:461`): with as many generations as a listing accepts, the save
  publishes one more; if its cleanup does not come through, every later load is
  refused although the save was acknowledged.  `ListingHolds` therefore bounds the
  generations by one more than a listing accepts, and not by what it accepts; the
  bound is met.
* One damaged record with a newer schema number stops a load (`UnsupportedSchema`)
  although older records decode: what `SurvivesDamage` promises is on disk, not
  that this build will load it by itself.
* Two processes that create profiles at once may both find room below
  `MAX_DISCOVERED_PROFILES` and exceed it together; every discovery fails from
  then on.  Roots a crash left half made are never removed and count against
  `MAX_PROFILE_CATALOG_DIRECTORY_ENTRIES` for good.
* A window whose tabs have all gone stays in the stored session as an empty one
  until it is closed (`session_restore_sync.rs:271`).

* Escape or Ctrl+R while an empty session starts is a fatal error: its initial
  navigation is known to the browser model only, and the stop finds no owner
  (`handle_reload_or_stop`, `platform/windows.rs:3259`).
* The switch of profile does not wait for the worker to be initialised when the
  session was restored (`profile_replacement_browser_quiescent`, line 1440), and
  then fails for want of a surface or of a place in the queue.
  `RequestsInFlight` excepts this case in its premise.
* `start_surface_recovery` (line 3398) counts nothing: repeated surface loss is
  recovered without limit, where `docs/ARCHITECTURE.md:227` says that repeated
  failure terminates the shell.
* A restored page is not reloaded if the worker becomes ready during a profile
  cycle that finds no other profile (lines 823 and 1328).
* Closing the window while the worker begins a navigation makes the navigation
  fail as cancelled, which is recorded as a failure of the program (line 3568).
* A window minimised just before a tab is created is hidden and cannot be
  restored until its frame is drawn, which needs an area.
* A redraw put off during a profile transition (line 2778) is not asked for
  again when the transition ends without a switch.
* After a switch to a restored session the window stays hidden until the page's
  reload has ended; a key posted before it was hidden can stop that reload.
* `docs/ARCHITECTURE.md:261` speaks of a fresh monotonic `TabId`; a restored
  session is a new `BrowserApp`, whose tab numbers start at 1 again, which is
  why `NothingCrossesSwitch` is needed.

## 6. Not modelled, and what could follow

Left out for good: encodings and checksums (a record decodes or does not),
chrome (projections without state), entry points, and what the engine does with
a page (frames, input, resources: calls into the external library, whose outcomes
the render worker's model takes as given).  Addresses are classified without
state, so `network_target_policy.rs` appears only as a refusal.  The checks of
`profile_path.rs` and `profile_catalog.rs` for symbolic links and redirected
directories are about what others do to the disk, which no model here has.  The
worker thread never ends before the shell (its loop has no panic but the
allocator's).  The shell creates and renames no profile in normal use, so
`ProfileShell` has neither command; `ProfileCatalog` models what they do to the
disk.  What a visit or a bookmark is, is not modelled; their stores are.

What could follow is the data of the history and bookmark stores: eviction, order,
identities.
