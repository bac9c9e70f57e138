---------------------------- MODULE ProfileWorker ----------------------------
(***************************************************************************)
(* The profile worker (profile_worker.rs): one thread that does all file   *)
(* access of the profiles, fed through a queue of one command by try_send, *)
(* answering through the event loop's unbounded proxy in the order of      *)
(* execution.  The disk is seen through what ProfileLock and               *)
(* GenerationStore establish: a root is locked by this process or not, and *)
(* each store of a profile holds the content of the newest save.           *)
(***************************************************************************)
EXTENDS Naturals, Sequences

CONSTANTS
    Profile,        \* profile roots
    Store,          \* settings, browsing history, bookmarks, session restore
    MaxContent      \* bound: mutations of one store

ASSUME WorkerConstants == MaxContent \in Nat

VARIABLES
    queue,      \* commands sent and not received, at most one
    busy,       \* the command being executed, as a sequence of at most one
    done,       \* completions the event loop has not handled
    locked,     \* roots whose lock directory names this process
    stored,     \* stored[p][s]: the content saved last
    ioFailed    \* a save or a release has failed

worker == <<queue, busy, done, locked, stored, ioFailed>>

Prepare(p) == [kind |-> "prepare", profile |-> p]
Discover == [kind |-> "discover"]
Release(p) == [kind |-> "release", profile |-> p]
Save(p, s, c) == [kind |-> "save", profile |-> p, store |-> s, content |-> c]

Command ==
    {Discover} \cup [kind : {"prepare", "release"}, profile : Profile]
               \cup [kind : {"save"}, profile : Profile, store : Store,
                     content : 0 .. MaxContent]

Completion == [command : Command, ok : BOOLEAN]

\* PROFILE_WORKER_COMMAND_QUEUE_CAPACITY.
QueueCapacity == 1

WorkerInit ==
    /\ queue = <<>>
    /\ busy = <<>>
    /\ done = <<>>
    /\ locked = {}
    /\ stored = [p \in Profile |-> [s \in Store |-> 0]]
    /\ ioFailed = FALSE

-----------------------------------------------------------------------------
(* The sender's side.                                                      *)

QueueFull == Len(queue) >= QueueCapacity

\* try_send: a full queue returns the command to the caller, who still owns it.
TrySend(command) == queue' = IF QueueFull THEN queue ELSE Append(queue, command)

Sent == ~QueueFull

-----------------------------------------------------------------------------
(* The thread.                                                             *)

Receive ==
    /\ busy = <<>>
    /\ queue # <<>>
    /\ busy' = <<Head(queue)>>
    /\ queue' = Tail(queue)
    /\ UNCHANGED <<done, locked, stored, ioFailed>>

Answer(ok) ==
    /\ busy' = <<>>
    /\ done' = Append(done, [command |-> busy[1], ok |-> ok])
    /\ UNCHANGED queue

Executing(kind) == busy # <<>> /\ busy[1].kind = kind

\* PreparedProfile::load: the lock first, then everything that is read.
PrepareOk ==
    /\ Executing("prepare")
    /\ busy[1].profile \notin locked
    /\ locked' = locked \cup {busy[1].profile}
    /\ Answer(TRUE)
    /\ UNCHANGED <<stored, ioFailed>>

\* Somebody holds the root, or something cannot be read and the lock is released.
PrepareFails ==
    /\ Executing("prepare")
    /\ Answer(FALSE)
    /\ UNCHANGED <<locked, stored, ioFailed>>

\* Something cannot be read and then the lock cannot be released.
PrepareLeaksLock ==
    /\ Executing("prepare")
    /\ busy[1].profile \notin locked
    /\ locked' = locked \cup {busy[1].profile}
    /\ ioFailed' = TRUE
    /\ Answer(FALSE)
    /\ UNCHANGED stored

\* The store verifies the lock before it writes and before it publishes.
SaveOk ==
    /\ Executing("save")
    /\ busy[1].profile \in locked
    /\ stored' = [stored EXCEPT ![busy[1].profile][busy[1].store] = busy[1].content]
    /\ Answer(TRUE)
    /\ UNCHANGED <<locked, ioFailed>>

SaveFails ==
    /\ Executing("save")
    /\ ioFailed' = TRUE
    /\ Answer(FALSE)
    /\ UNCHANGED <<locked, stored>>

\* discover_profiles reads, and changes nothing.
DiscoverEnds ==
    /\ Executing("discover")
    /\ \E ok \in BOOLEAN : Answer(ok)
    /\ UNCHANGED <<locked, stored, ioFailed>>

ReleaseOk ==
    /\ Executing("release")
    /\ busy[1].profile \in locked
    /\ locked' = locked \ {busy[1].profile}
    /\ Answer(TRUE)
    /\ UNCHANGED <<stored, ioFailed>>

ReleaseFails ==
    /\ Executing("release")
    /\ ioFailed' = TRUE
    /\ Answer(FALSE)
    /\ UNCHANGED <<locked, stored>>

Work ==
    \/ Receive
    \/ PrepareOk \/ PrepareFails \/ PrepareLeaksLock
    \/ SaveOk \/ SaveFails
    \/ DiscoverEnds
    \/ ReleaseOk \/ ReleaseFails
=============================================================================
