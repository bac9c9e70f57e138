----------------------------- MODULE ProfileLock -----------------------------
(***************************************************************************)
(* The profile-root lock of profile_lock.rs, at the grain of one file      *)
(* system call per step: the ".zorya-profile.lock" directory, whose        *)
(* creation is the atomic exclusion point, and the owner record inside it. *)
(* Several operating-system processes acquire, release and recover the     *)
(* same root; any of them may crash between two calls.                     *)
(*                                                                         *)
(* A process LIFETIME, not a process id, is the actor: the system gives a  *)
(* lifetime an id when it starts, and may give it one that an ended        *)
(* lifetime had.  The code tells owners apart by Name(o) only.             *)
(*                                                                         *)
(* Abstracted: the path checks (prepare/verify_profile_storage_paths) can  *)
(* only fail, as any call here can; reading the directory and its record   *)
(* is one step; the record's text is present or absent as a whole, because *)
(* any other content is read as Corrupt.                                   *)
(***************************************************************************)
EXTENDS Naturals

CONSTANTS
    Life,               \* operating-system process lifetimes
    ProcessId,
    NoPid,
    MaxOwnerId,         \* largest owner id next_owner returns (u64::MAX - 1)
    NoOwner,
    CarefulRecovery     \* TRUE: recover_abandoned is called for dead processes only

Owner == [life : Life, id : 1 .. MaxOwnerId]

ASSUME LockConstants ==
    /\ MaxOwnerId \in Nat
    /\ NoOwner \notin Owner
    /\ NoPid \notin ProcessId
    /\ CarefulRecovery \in BOOLEAN

VARIABLES
    pid,        \* the process id of each lifetime
    dir,        \* the lock directory exists
    files,      \* owner records in it, whatever they contain
    written,    \* owner records whose text is complete
    pc,         \* where each lifetime stands
    mine,       \* the owner a lifetime is acquiring as, or holds a token of
    target,     \* the owner a lifetime is removing
    nextId,     \* NEXT_PROFILE_LOCK_OWNER of each lifetime
    noted       \* owners some Held error has reported

onDisk == <<dir, files, written>>
lockVars == <<onDisk, pid, pc, mine, target, nextId, noted>>

\* Mutant: owners are named by the counter of their process alone.
NameWithoutProcess(o) == <<o.id>>

\* The (process_id, owner_id) pair: the record's text and its file name.
Name(o) == <<pid[o.life], o.id>>

LockInit ==
    /\ dir = FALSE
    /\ files = {}
    /\ written = {}
    /\ pid = [l \in Life |-> NoPid]
    /\ pc = [l \in Life |-> "unborn"]
    /\ mine = [l \in Life |-> NoOwner]
    /\ target = [l \in Life |-> NoOwner]
    /\ nextId = [l \in Life |-> 1]
    /\ noted = {}

Alive(l) == pc[l] \notin {"unborn", "dead"}

\* read_owner_if_present finds exactly one complete record, that of o.
Readable(o) == dir /\ files = {o} /\ o \in written

Goto(l, place) == pc' = [pc EXCEPT ![l] = place]

\* The call returns an error: the process keeps nothing of it.
Fail(l) ==
    /\ Goto(l, "idle")
    /\ mine' = [mine EXCEPT ![l] = NoOwner]
    /\ target' = [target EXCEPT ![l] = NoOwner]
    /\ UNCHANGED <<pid, onDisk, nextId, noted>>

-----------------------------------------------------------------------------
(* Processes.                                                              *)

\* The system gives the process an id that no running process has.
Start(l) ==
    /\ pc[l] = "unborn"
    /\ \E id \in ProcessId :
         /\ \A k \in Life : Alive(k) => pid[k] # id
         /\ pid' = [pid EXCEPT ![l] = id]
    /\ Goto(l, "idle")
    /\ UNCHANGED <<onDisk, mine, target, nextId, noted>>

\* The process ends between two calls; what is on disk stays there.
Crash(l) ==
    /\ Alive(l)
    /\ Goto(l, "dead")
    /\ mine' = [mine EXCEPT ![l] = NoOwner]
    /\ target' = [target EXCEPT ![l] = NoOwner]
    /\ UNCHANGED <<pid, onDisk, nextId, noted>>

-----------------------------------------------------------------------------
(* acquire.                                                                *)

\* next_owner, both for acquire and for the acquire recover_abandoned ends in.
AllocateOwner(l) ==
    /\ pc[l] \in {"idle", "reacquire"}
    /\ nextId[l] \in 1 .. MaxOwnerId
    /\ mine' = [mine EXCEPT ![l] = [life |-> l, id |-> nextId[l]]]
    /\ nextId' = [nextId EXCEPT ![l] = @ + 1]
    /\ Goto(l, "mkdir")
    /\ UNCHANGED <<pid, onDisk, target, noted>>

OwnerIdExhausted(l) ==
    /\ pc[l] = "reacquire"
    /\ nextId[l] \notin 1 .. MaxOwnerId
    /\ Fail(l)

\* Mutant: create_dir_all, which accepts a directory that exists.
CreateDirectoryAll(l) ==
    /\ pc[l] = "mkdir"
    /\ dir' = TRUE
    /\ Goto(l, "create")
    /\ UNCHANGED <<pid, files, written, mine, target, nextId, noted>>

\* create_dir: the atomic exclusion point.
CreateDirectory(l) ==
    /\ pc[l] = "mkdir"
    /\ ~dir
    /\ dir' = TRUE
    /\ Goto(l, "create")
    /\ UNCHANGED <<pid, files, written, mine, target, nextId, noted>>

DirectoryExists(l) ==
    /\ pc[l] = "mkdir"
    /\ dir
    /\ Goto(l, "inspect")
    /\ UNCHANGED <<pid, onDisk, mine, target, nextId, noted>>

\* The directory existed: Held reports the record it holds by now, Corrupt that
\* it holds none that is complete (or is gone again).
Inspect(l) ==
    /\ pc[l] = "inspect"
    /\ noted' = noted \cup {o \in files : Readable(o)}
    /\ Goto(l, "idle")
    /\ mine' = [mine EXCEPT ![l] = NoOwner]
    /\ UNCHANGED <<pid, onDisk, target, nextId>>

\* create_new of the owner record.
CreateRecord(l) ==
    /\ pc[l] = "create"
    /\ dir
    /\ \A f \in files : Name(f) # Name(mine[l])
    /\ files' = files \cup {mine[l]}
    /\ Goto(l, "write")
    /\ UNCHANGED <<pid, dir, written, mine, target, nextId, noted>>

CreateRecordFails(l) ==
    /\ pc[l] = "create"
    /\ Goto(l, "undoDir")
    /\ UNCHANGED <<pid, onDisk, mine, target, nextId, noted>>

\* write_all: the open file may have lost its name in the meantime.
WriteRecord(l) ==
    /\ pc[l] = "write"
    /\ written' = written \cup ({mine[l]} \cap files)
    /\ Goto(l, "sync")
    /\ UNCHANGED <<pid, dir, files, mine, target, nextId, noted>>

SyncRecord(l) ==
    /\ pc[l] = "sync"
    /\ Goto(l, "held")
    /\ UNCHANGED <<pid, onDisk, mine, target, nextId, noted>>

WriteOrSyncFails(l) ==
    /\ pc[l] \in {"write", "sync"}
    /\ Goto(l, "undoFile")
    /\ UNCHANGED <<pid, onDisk, mine, target, nextId, noted>>

\* The errors of the two removals are ignored; "kept" is one that failed.
UndoRecord(l) ==
    /\ pc[l] = "undoFile"
    /\ \E kept \in SUBSET ({mine[l]} \cap files) :
         /\ files' = files \ ({mine[l]} \ kept)
         /\ written' = written \ ({mine[l]} \ kept)
    /\ Goto(l, "undoDir")
    /\ UNCHANGED <<pid, dir, mine, target, nextId, noted>>

UndoDirectory(l) ==
    /\ pc[l] = "undoDir"
    /\ dir' \in {dir, dir /\ files # {}}
    /\ Goto(l, "idle")
    /\ mine' = [mine EXCEPT ![l] = NoOwner]
    /\ UNCHANGED <<pid, files, written, target, nextId, noted>>

-----------------------------------------------------------------------------
(* release and recover_abandoned: both are remove_exact_owner.             *)

BeginRelease(l) ==
    /\ pc[l] = "held"
    /\ target' = [target EXCEPT ![l] = mine[l]]
    /\ Goto(l, "check")
    /\ UNCHANGED <<pid, onDisk, mine, nextId, noted>>

\* Called by hand with an owner some Held error has named.  A careful caller
\* has made sure that no running process has that process id.
BeginRecovery(l) ==
    /\ pc[l] = "idle"
    /\ \E o \in noted :
         /\ CarefulRecovery => \A k \in Life : Alive(k) => pid[k] # pid[o.life]
         /\ target' = [target EXCEPT ![l] = o]
    /\ Goto(l, "check")
    /\ UNCHANGED <<pid, onDisk, mine, nextId, noted>>

Recovering(l) == mine[l] = NoOwner

CheckOwner(l) ==
    /\ pc[l] = "check"
    /\ \E o \in files : Readable(o) /\ Name(o) = Name(target[l])
    /\ Goto(l, "unlink")
    /\ UNCHANGED <<pid, onDisk, mine, target, nextId, noted>>

OwnerMismatch(l) ==
    /\ pc[l] = "check"
    /\ ~ \E o \in files : Readable(o) /\ Name(o) = Name(target[l])
    /\ Fail(l)

\* Mutant: the removal takes whatever record it finds.
RemoveAnyRecord(l) ==
    /\ pc[l] = "unlink"
    /\ \E o \in files :
         /\ files' = files \ {o}
         /\ written' = written \ {o}
    /\ Goto(l, "rmdir")
    /\ UNCHANGED <<pid, dir, mine, target, nextId, noted>>

\* remove_file of the exact owner path.
RemoveRecord(l) ==
    /\ pc[l] = "unlink"
    /\ \E o \in files :
         /\ Name(o) = Name(target[l])
         /\ files' = files \ {o}
         /\ written' = written \ {o}
    /\ Goto(l, "rmdir")
    /\ UNCHANGED <<pid, dir, mine, target, nextId, noted>>

\* NotFound, or any other error of the removal.
RemoveRecordFails(l) ==
    /\ pc[l] = "unlink"
    /\ Fail(l)

\* remove_dir succeeds on an empty directory only.
RemoveDirectory(l) ==
    /\ pc[l] = "rmdir"
    /\ dir
    /\ files = {}
    /\ dir' = FALSE
    /\ Goto(l, IF Recovering(l) THEN "reacquire" ELSE "idle")
    /\ mine' = [mine EXCEPT ![l] = NoOwner]
    /\ target' = [target EXCEPT ![l] = NoOwner]
    /\ UNCHANGED <<pid, files, written, nextId, noted>>

RemoveDirectoryFails(l) ==
    /\ pc[l] = "rmdir"
    /\ Fail(l)

-----------------------------------------------------------------------------
Acquire(l) ==
    \/ AllocateOwner(l) \/ OwnerIdExhausted(l)
    \/ CreateDirectory(l) \/ DirectoryExists(l) \/ Inspect(l)
    \/ CreateRecord(l) \/ CreateRecordFails(l)
    \/ WriteRecord(l) \/ SyncRecord(l) \/ WriteOrSyncFails(l)
    \/ UndoRecord(l) \/ UndoDirectory(l)

RemoveExactOwner(l) ==
    \/ BeginRelease(l) \/ BeginRecovery(l)
    \/ CheckOwner(l) \/ OwnerMismatch(l)
    \/ RemoveRecord(l) \/ RemoveRecordFails(l)
    \/ RemoveDirectory(l) \/ RemoveDirectoryFails(l)

LockNext == \E l \in Life : Start(l) \/ Crash(l) \/ Acquire(l) \/ RemoveExactOwner(l)

LockSpec == LockInit /\ [][LockNext]_lockVars

-----------------------------------------------------------------------------
(* Properties.                                                             *)

Place == {"unborn", "idle", "mkdir", "inspect", "create", "write", "sync",
          "undoFile", "undoDir", "held", "check", "unlink", "rmdir",
          "reacquire", "dead"}

\* Types; NEXT_PROFILE_LOCK_OWNER never wraps to hand out an owner outside Owner.
LockTypeOK ==
    /\ dir \in BOOLEAN
    /\ files \in SUBSET Owner
    /\ written \in SUBSET Owner
    /\ pid \in [Life -> ProcessId \cup {NoPid}]
    /\ pc \in [Life -> Place]
    /\ mine \in [Life -> Owner \cup {NoOwner}]
    /\ target \in [Life -> Owner \cup {NoOwner}]
    /\ nextId \in [Life -> 1 .. MaxOwnerId + 1]
    /\ noted \in SUBSET Owner

\* No process has been given the id of an earlier one.
UniquePids == \A l, k \in Life : pc[l] # "unborn" /\ pid[l] = pid[k] => l = k

\* Processes that build the directory (acquire after create_dir) or take it
\* apart (remove_exact_owner after remove_file).
AtWork == {l \in Life :
             pc[l] \in {"create", "write", "sync", "undoFile", "undoDir", "rmdir"}}

\* No two processes ever build or dismantle the lock directory together, and a
\* directory is never removed under the process at work on it: a late
\* remove_dir of a release or a recovery cannot hit the (still empty) directory
\* of the next acquirer.
OneAtWork ==
    /\ \A l, k \in AtWork : l = k
    /\ AtWork # {} => dir

\* As long as the caller of recover_abandoned names dead processes only, a
\* running process that holds a token owns the root on disk: its verify() in a
\* save cannot fail because of what other processes do.
HolderKeepsLock == \A l \in Life : pc[l] = "held" => Readable(mine[l])

\* The lock protects who has it and who builds it, at every step of the others,
\* until a process id is used again: owner ids start from 1 in every process, so
\* a recovery may then find a running owner by the name of a dead one.
LockIsKept == UniquePids => OneAtWork /\ HolderKeepsLock

\* The directory never comes to hold the records of two owners, which every
\* reader would report as Corrupt for ever.
OneRecord == \A o, p \in files : o = p

\* A release removes the record of the process's own owner and no other, even if
\* that owner has lost the root to a recovery and another holds it by now, and
\* whatever process ids were used before.  Of a recovery this is not true.
ReleaseSparesOthers ==
    [][\A l \in Life : pc[l] = "unlink" /\ ~Recovering(l) /\ pc'[l] = "rmdir"
                            => files \ files' = {mine[l]}]_lockVars

\* What the lock promises to its users (see ExclusiveOwnership).  The root is
\* owned by the owner whose record a reader would find; an owner is spent when
\* it has been allocated and is neither on its way to a complete record nor the
\* owner of one.
Owning == {o \in files : Readable(o)}

Promising(l) == pc[l] \in {"mkdir", "create", "write"}

Spent == {o \in Owner : /\ o.id < nextId[o.life]
                        /\ o \notin Owning
                        /\ ~(Promising(o.life) /\ mine[o.life] = o)}

Ownership == INSTANCE ExclusiveOwnership WITH owning <- Owning, spent <- Spent

\* Ownership of the root passes from one owner to the next only through a free
\* root, and an owner that has lost it never has it back, until a process id is
\* used again.
OwnsOnce ==
    /\ Ownership!Init
    /\ [][UniquePids' => Ownership!Next]_<<Owning, Spent>>
=============================================================================
