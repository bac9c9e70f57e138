--------------------------- MODULE GenerationStore ---------------------------
(***************************************************************************)
(* One generation directory of a profile, as ProfileStore (profile.rs)     *)
(* reads and writes it for the settings; BrowsingHistoryStore,             *)
(* BookmarksStore and SessionRestoreStore repeat the same algorithm.  A    *)
(* record is never updated in place: a save writes a pending file, links   *)
(* it under the next generation number and removes generations it no       *)
(* longer keeps.                                                           *)
(*                                                                         *)
(* The actors are sessions, each one tenure of the profile-root lock, seen *)
(* here through ExclusiveOwnership (which ProfileLock implements).  Every  *)
(* file-system call of a save is a step; any of them may fail or be the    *)
(* last one of its process, and a crashed session leaves its lock and its  *)
(* pending file behind.                                                    *)
(*                                                                         *)
(* Abstracted: the content of a record is the save that wrote it; decoding *)
(* yields that save, Corrupt, or Foreign (a schema this build does not     *)
(* support).  Size and count limits of one record (validate_snapshot,      *)
(* encode) only add reasons for a save to fail before it touches the disk. *)
(***************************************************************************)
EXTENDS Naturals, FiniteSets

CONSTANTS
    Session,
    MaxGen,             \* largest generation number (u64::MAX)
    MaxSaves,           \* bound: saves one session starts
    MaxEntries,         \* MAX_SETTINGS_DIRECTORY_ENTRIES (128)
    MaxGenerations,     \* MAX_DISCOVERED_GENERATIONS (64)
    Retained,           \* SETTINGS_RETAINED_GENERATIONS (3)
    MaxDamage,          \* bound: records damaged on disk
    Damages,            \* what damage makes of a record: {Corrupt, Foreign}
    Absent, Corrupt, Foreign,
    CarefulRecovery     \* TRUE: only sessions that ended lose their lock to others

Value == Session \X (1 .. MaxSaves)

Gen == 1 .. MaxGen

ASSUME StoreConstants ==
    /\ MaxGen \in Nat /\ MaxSaves \in Nat /\ MaxEntries \in Nat \ {0, 1}
    /\ MaxGenerations \in Nat /\ MaxDamage \in Nat
    /\ Retained \in Nat \ {0, 1}
    /\ Damages \subseteq {Corrupt, Foreign}
    /\ {Absent, Corrupt, Foreign} \cap Value = {}
    /\ Absent # Corrupt /\ Absent # Foreign /\ Corrupt # Foreign
    /\ CarefulRecovery \in BOOLEAN

VARIABLES
    record,     \* record[g]: what the file of generation g decodes to
    pending,    \* pending files, named by the save that created them
    damage,     \* how many records have been damaged
    owning, spent,      \* the profile-root lock
    pc,         \* where each session stands
    base,       \* the generation of the snapshot a session works on
    saves,      \* how many saves a session has started
    listing,    \* the generations its current save found
    next,       \* the generation its current save writes
    doomed,     \* the generations it still has to remove
    acked       \* the generations whose save returned Ok

lock == <<owning, spent>>
disk == <<record, pending, damage>>
saving == <<base, saves, listing, next, doomed>>
vars == <<disk, lock, pc, saving, acked>>

Lock == INSTANCE ExclusiveOwnership WITH Owner <- Session

-----------------------------------------------------------------------------
(* Reading the directory.                                                  *)

Published == {g \in Gen : record[g] # Absent}

Entries == Cardinality(Published) + Cardinality(pending)

\* discover_generations_with_reserve: too many entries, or too many of them
\* generations, fail the call.
Discoverable(reserve) ==
    /\ Entries > 0 => Entries + reserve <= MaxEntries
    /\ Cardinality(Published) <= MaxGenerations

\* load_settings: newest first, corrupt records are skipped, one of an
\* unsupported schema stops the search, none left is an error.
Loads(g) ==
    /\ Discoverable(0)
    /\ \/ Published = {} /\ g = 0
       \/ g \in Published /\ record[g] \in Value
    /\ \A h \in Published : h > g => record[h] = Corrupt

\* unexpected_generation: newer than the loaded one and not skipped as corrupt.
Unexpected(g) == {h \in Published : h > g /\ record[h] # Corrupt}

\* Mutant: the window is one generation too short.
KeepsTooFew(found, g) ==
    LET older == {h \in found : h < g}
    IN  {g} \cup {h \in older : Cardinality({i \in older : i > h}) + 1 < Retained - 2}

\* cleanup_generations keeps the generation saved on top of, and the
\* Retained - 2 newest ones below it.
Keeps(found, g) ==
    LET older == {h \in found : h < g}
    IN  {g} \cup {h \in older : Cardinality({i \in older : i > h}) < Retained - 2}

-----------------------------------------------------------------------------
Init ==
    /\ record = [g \in Gen |-> Absent]
    /\ pending = {}
    /\ damage = 0
    /\ Lock!Init
    /\ pc = [s \in Session |-> "new"]
    /\ base = [s \in Session |-> 0]
    /\ saves = [s \in Session |-> 0]
    /\ listing = [s \in Session |-> {}]
    /\ next = [s \in Session |-> 0]
    /\ doomed = [s \in Session |-> {}]
    /\ acked = {}

Goto(s, place) == pc' = [pc EXCEPT ![s] = place]

Running(s) == pc[s] \notin {"new", "closed", "crashed"}

Current(s) == <<s, saves[s]>>

-----------------------------------------------------------------------------
(* The session: acquire, load, release, crash, recover.                    *)

Acquire(s) ==
    /\ pc[s] = "new"
    /\ Lock!Take(s)
    /\ Goto(s, "open")
    /\ UNCHANGED <<disk, saving, acked>>

Load(s) ==
    /\ pc[s] = "open"
    /\ \E g \in Gen \cup {0} : Loads(g) /\ base' = [base EXCEPT ![s] = g]
    /\ Goto(s, "ready")
    /\ UNCHANGED <<disk, lock, saves, listing, next, doomed, acked>>

\* Mutant: the token is released while the worker still saves.
ReleaseWhileSaving(s) ==
    /\ Running(s)
    /\ Lock!Drop(s)
    /\ Goto(s, IF pc[s] \in {"open", "ready"} THEN "closed" ELSE pc[s])
    /\ UNCHANGED <<disk, saving, acked>>

\* After the last save, or because loading failed.
Release(s) ==
    /\ pc[s] \in {"open", "ready"}
    /\ Lock!Drop(s)
    /\ Goto(s, "closed")
    /\ UNCHANGED <<disk, saving, acked>>

\* The lock was lost to a recovery, or its directory cannot be removed: the
\* session ends and leaves what lock there is.
ReleaseFails(s) ==
    /\ pc[s] \in {"open", "ready"}
    /\ Goto(s, "closed")
    /\ UNCHANGED <<disk, lock, saving, acked>>

Crash(s) ==
    /\ Running(s)
    /\ Goto(s, "crashed")
    /\ UNCHANGED <<disk, lock, saving, acked>>

\* The first half of recover_abandoned; the recovering session acquires next.
RecoverAbandoned(s) ==
    /\ CarefulRecovery => ~Running(s)
    /\ Lock!Drop(s)
    /\ UNCHANGED <<disk, pc, saving, acked>>

\* Something damages a record while nobody looks.
Damage ==
    /\ damage < MaxDamage
    /\ \E g \in Published, d \in Damages :
         record[g] \in Value /\ record' = [record EXCEPT ![g] = d]
    /\ damage' = damage + 1
    /\ UNCHANGED <<pending, lock, pc, saving, acked>>

-----------------------------------------------------------------------------
(* save_settings, call by call.                                            *)

Verified(s) == owning = {s}

\* lock.verify_for_root and validate_snapshot.
BeginSave(s) ==
    /\ pc[s] = "ready"
    /\ saves[s] < MaxSaves
    /\ Verified(s)
    /\ saves' = [saves EXCEPT ![s] = @ + 1]
    /\ Goto(s, "load")
    /\ UNCHANGED <<disk, lock, base, listing, next, doomed, acked>>

\* load_settings finds the generation the snapshot was made from.
LoadCurrent(s) ==
    /\ pc[s] = "load"
    /\ Loads(base[s])
    /\ Goto(s, "list")
    /\ UNCHANGED <<disk, lock, saving, acked>>

\* Mutant: a save takes a free number, any one.
ListGenerationsAnyFree(s) ==
    /\ pc[s] = "list"
    /\ Discoverable(2)
    /\ Unexpected(base[s]) = {}
    /\ \E g \in Gen \ Published : next' = [next EXCEPT ![s] = g]
    /\ listing' = [listing EXCEPT ![s] = Published]
    /\ Goto(s, "create")
    /\ UNCHANGED <<disk, lock, base, saves, doomed, acked>>

\* discover_generations_with_reserve(2) and the choice of the next number.
ListGenerations(s) ==
    /\ pc[s] = "list"
    /\ Discoverable(2)
    /\ Unexpected(base[s]) = {}
    /\ \E top \in Published \cup {0} :
         /\ \A g \in Published : g <= top
         /\ top + 1 \in Gen
         /\ next' = [next EXCEPT ![s] = top + 1]
    /\ listing' = [listing EXCEPT ![s] = Published]
    /\ Goto(s, "create")
    /\ UNCHANGED <<disk, lock, base, saves, doomed, acked>>

CreatePending(s) ==
    /\ pc[s] = "create"
    /\ pending' = pending \cup {Current(s)}
    /\ Goto(s, "write")
    /\ UNCHANGED <<record, damage, lock, saving, acked>>

\* write_all and sync_all.
WritePending(s) ==
    /\ pc[s] = "write"
    /\ Goto(s, "reverify")
    /\ UNCHANGED <<disk, lock, saving, acked>>

VerifyAgain(s) ==
    /\ pc[s] = "reverify"
    /\ Verified(s)
    /\ Goto(s, "link")
    /\ UNCHANGED <<disk, lock, saving, acked>>

\* hard_link of the complete file; never over an existing generation.
Publish(s) ==
    /\ pc[s] = "link"
    /\ record[next[s]] = Absent
    /\ record' = [record EXCEPT ![next[s]] = Current(s)]
    /\ Goto(s, "unlink")
    /\ UNCHANGED <<pending, damage, lock, saving, acked>>

\* Mutant: cleanup works from a listing taken after publication.
RemovePendingRelist(s) ==
    /\ pc[s] = "unlink"
    /\ pending' \in {pending, pending \ {Current(s)}}
    /\ doomed' = [doomed EXCEPT ![s] = Published \ Keeps(Published, base[s])]
    /\ Goto(s, "clean")
    /\ UNCHANGED <<record, damage, lock, base, saves, listing, next, acked>>

\* remove_file of the pending name; a failure is only reported.
RemovePending(s) ==
    /\ pc[s] = "unlink"
    /\ pending' \in {pending, pending \ {Current(s)}}
    /\ doomed' = [doomed EXCEPT ![s] = listing[s] \ Keeps(listing[s], base[s])]
    /\ Goto(s, "clean")
    /\ UNCHANGED <<record, damage, lock, base, saves, listing, next, acked>>

\* cleanup_generations, one file at a time; failures are only reported.
RemoveGeneration(s) ==
    /\ pc[s] = "clean"
    /\ \E g \in doomed[s] :
         /\ record' \in {record, [record EXCEPT ![g] = Absent]}
         /\ doomed' = [doomed EXCEPT ![s] = @ \ {g}]
    /\ UNCHANGED <<pending, damage, lock, pc, base, saves, listing, next, acked>>

\* Ok(SettingsSave): the owner of the snapshot advances its generation.
ReturnOk(s) ==
    /\ pc[s] = "clean"
    /\ doomed[s] = {}
    /\ base' = [base EXCEPT ![s] = next[s]]
    /\ acked' = acked \cup {next[s]}
    /\ Goto(s, "ready")
    /\ UNCHANGED <<disk, lock, saves, listing, next, doomed>>

\* Err before the pending file exists: Lock, Stale, Concurrent, a directory
\* limit, no valid generation, or an I/O error.
FailEarly(s) ==
    /\ pc[s] \in {"load", "list", "create"}
    /\ Goto(s, "ready")
    /\ UNCHANGED <<disk, lock, saving, acked>>

\* Err before publication: the pending file is removed, if that works.
FailLate(s) ==
    /\ pc[s] \in {"write", "reverify", "link"}
    /\ pending' \in {pending, pending \ {Current(s)}}
    /\ Goto(s, "ready")
    /\ UNCHANGED <<record, damage, lock, saving, acked>>

-----------------------------------------------------------------------------
Save(s) ==
    \/ BeginSave(s) \/ LoadCurrent(s) \/ ListGenerations(s)
    \/ CreatePending(s) \/ WritePending(s) \/ VerifyAgain(s)
    \/ Publish(s) \/ RemovePending(s) \/ RemoveGeneration(s) \/ ReturnOk(s)
    \/ FailEarly(s) \/ FailLate(s)

Next ==
    \/ Damage
    \/ \E s \in Session :
         \/ Acquire(s) \/ Load(s) \/ Release(s) \/ ReleaseFails(s)
         \/ Crash(s) \/ RecoverAbandoned(s)
         \/ Save(s)

Spec == Init /\ [][Next]_vars

-----------------------------------------------------------------------------
(* Properties.                                                             *)

Place == {"new", "open", "ready", "load", "list", "create", "write", "reverify",
          "link", "unlink", "clean", "closed", "crashed"}

TypeOK ==
    /\ record \in [Gen -> Value \cup {Absent, Corrupt, Foreign}]
    /\ pending \in SUBSET Value
    /\ damage \in 0 .. MaxDamage
    /\ owning \in SUBSET Session
    /\ spent \in SUBSET Session
    /\ pc \in [Session -> Place]
    /\ base \in [Session -> Gen \cup {0}]
    /\ saves \in [Session -> 0 .. MaxSaves]
    /\ listing \in [Session -> SUBSET Gen]
    /\ next \in [Session -> Gen \cup {0}]
    /\ doomed \in [Session -> SUBSET Gen]
    /\ acked \in SUBSET Gen

\* A session that is past its first verify, and has not returned.
Saving(s) == pc[s] \in {"load", "list", "create", "write", "reverify", "link",
                        "unlink", "clean"}

\* From its listing to its publication a save sees the directory as it is:
\* nobody else publishes or removes a generation, so neither the number nor
\* what cleanup will keep is computed from a stale listing.
StableListing ==
    \A s \in Session :
        pc[s] \in {"create", "write", "reverify", "link"} => Published = listing[s]

\* A generation that was acknowledged stays covered: unless records have been
\* damaged, a record at least as new can be decoded, whoever saves, crashes or
\* recovers, and wherever cleanup was interrupted.
AckedCovered ==
    damage = 0 => \A g \in acked : \E h \in Published : h >= g /\ record[h] \in Value

\* Every number is larger than all that exist when it is published, and than all
\* that were ever acknowledged: no number stands for two contents.
NumbersGrow ==
    [][\A g \in Gen : record[g] = Absent /\ record'[g] # Absent
                        => /\ \A h \in Published : h < g
                           /\ \A h \in acked : h < g]_vars

\* Interrupted saves leave pending files nobody removes.  The two entries a save
\* reserves keep the directory within what a load is willing to scan, however
\* many saves were interrupted.  Nothing is reserved for the generation a save
\* publishes: one more than a listing accepts may be there, and is all.
WithinScanLimit ==
    /\ Entries <= MaxEntries
    /\ Cardinality(Published) <= MaxGenerations + 1

\* What a save has listed it can rely on until it publishes.  The directory stays
\* within the entries the next listing accepts, and exceeds by one at most the
\* generations it accepts: one removal that comes through makes up for it.
ListingHolds == StableListing /\ WithinScanLimit

\* The retained generations make up for damage: MaxDamage damaged records cost
\* at most the MaxDamage newest acknowledged saves, in spite of the saves that
\* were made (and the generations removed) before and after the damage.  This is
\* about what is on disk: a load takes the newest such record if what is newer is
\* Corrupt, and stops at what is newer and Foreign.
SurvivesDamage ==
    \A kept \in SUBSET acked :
        Cardinality(kept) > MaxDamage =>
            \E g \in Published : record[g] \in Value /\ \E a \in kept : g >= a

-----------------------------------------------------------------------------
(* What the store promises to the sessions (see SharedRegister).           *)

Newest == CHOOSE g \in Published \cup {0} : \A h \in Published : h <= g

Register == INSTANCE SharedRegister WITH
    Default <- Absent,
    current <- Newest,
    value <- IF Newest = 0 THEN Absent ELSE record[Newest],
    seen <- base

\* The store is the register, as long as nothing damages its records.
NoLostSave ==
    /\ Register!Init
    /\ [][damage' = 0 => Register!Next]_<<Register!register, damage>>
=============================================================================
