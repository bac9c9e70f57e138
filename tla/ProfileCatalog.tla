---------------------------- MODULE ProfileCatalog ----------------------------
(***************************************************************************)
(* The catalog of profiles on disk (profile_catalog.rs) and the metadata   *)
(* of each (profile_metadata.rs).  A profile is a directory: it holds the  *)
(* profile's identity, records of its display name by generation, and, if  *)
(* its root was generated for it, a marker made last of all.  All are made *)
(* and removed one directory at a time.  Processes discover, create,       *)
(* rename and open profiles at once, and each may stop between any two     *)
(* steps: it crashes, or an operation of the file system fails and the     *)
(* error ends the work.                                                    *)
(*                                                                         *)
(* Roots are numbered by the identity they are generated for; Default is   *)
(* the legacy root, whose name says nothing.  Identities, made of the      *)
(* time, the process and a sequence, do not repeat.  Locks are exclusive   *)
(* and are left behind by nobody (ExclusiveOwnership), so that a holder's  *)
(* verify succeeds.  Nothing but Zorya writes in the catalog.              *)
(***************************************************************************)
EXTENDS FiniteSets, Integers

CONSTANTS
    Proc,           \* processes, with one piece of work at a time
    NoProc,         \* nobody
    Name,           \* display names
    MaxProfiles,    \* MAX_DISCOVERED_PROFILES
    MaxEntries,     \* MAX_PROFILE_CATALOG_DIRECTORY_ENTRIES
    MaxRecords,     \* MAX_PROFILE_METADATA_DIRECTORY_ENTRIES
    MaxIdentities,  \* bound: identities allocated
    MaxRenames,     \* bound: renames begun
    MaxWork         \* bound: discoveries, creations and openings begun

ASSUME CatalogConstants ==
    /\ {MaxProfiles, MaxEntries, MaxRecords} \subseteq Nat \ {0}
    /\ {MaxIdentities, MaxRenames, MaxWork} \subseteq Nat
    /\ MaxRecords >= 2
    /\ NoProc \notin Proc

VARIABLES
    profiles,       \* what each root holds
    lock,           \* the process that holds each root's lock
    nextIdentity,   \* NEXT_PROFILE_STORAGE_ID, with the time and the process
    work,           \* what each process is doing
    seen,           \* the entries each process has from its last discovery
    renamed,        \* renames that succeeded: what they built on, what they made
    budget          \* works and renames left

vars == <<profiles, lock, nextIdentity, work, seen, renamed, budget>>

Default == 0
Root == 0 .. MaxIdentities

Absent == [dir |-> FALSE, identity |-> {}, records |-> {}, ready |-> FALSE]

Idle == [step |-> "idle"]

At(p, step) == work[p].step = step
Goes(p, next) == work' = [work EXCEPT ![p] = next]
GoesTo(p, step) == Goes(p, [work[p] EXCEPT !.step = step])

-----------------------------------------------------------------------------
(* What is read from a root.                                               *)

\* load_profile_metadata: the record of the highest generation, if there is one.
Latest(r) ==
    CHOOSE m \in profiles[r].records :
        \A n \in profiles[r].records : n.generation <= m.generation

HasIdentity(r) == profiles[r].identity # {}
HasMetadata(r) == profiles[r].records # {}
IdentityOf(r) == CHOOSE i \in profiles[r].identity : TRUE

\* More than one identity, or more records than there may be, is an error.
Readable(r) ==
    /\ Cardinality(profiles[r].identity) <= 1
    /\ Cardinality(profiles[r].records) <= MaxRecords

Entry(r) ==
    [root |-> r,
     identity |-> IF HasIdentity(r) THEN IdentityOf(r) ELSE 0,
     generation |-> IF HasMetadata(r) THEN Latest(r).generation ELSE 0]

-----------------------------------------------------------------------------
(* Discovery: the directory is listed, then each root is looked at: its    *)
(* marker, its identity and its metadata, one after the other.  Over a     *)
(* limit it ends with an error.                                            *)

\* DirectoryEntryLimitExceeded, of half-made roots too
Discovering(then, name) ==
    LET roots == {r \in Root : profiles[r].dir}
    IN  IF Cardinality(roots) > MaxEntries THEN Idle
        ELSE [step |-> "visit", todo |-> roots, found |-> {}, then |-> then, name |-> name]

\* discover, for its own sake or as the beginning of create_profile
Discover(p) ==
    /\ At(p, "idle")
    /\ budget.work > 0
    /\ \/ Goes(p, Discovering("list", 0))
       \/ \E name \in Name : Goes(p, Discovering("create", name))
    /\ budget' = [budget EXCEPT !.work = @ - 1]
    /\ UNCHANGED <<profiles, lock, nextIdentity, seen, renamed>>

\* Mutation of Hidden: a root without its marker is listed all the same.
NothingHidden(r) == FALSE

\* A generated root without its marker is not there yet.
Hidden(r) == r # Default /\ ~profiles[r].ready

\* profile_publication_ready, ProfileLimitExceeded
Visit(p) ==
    /\ At(p, "visit")
    /\ \E r \in work[p].todo :
          LET left == [work[p] EXCEPT !.todo = @ \ {r}]
          IN  Goes(p, CASE Hidden(r) -> left
                        [] ~Hidden(r) /\ Cardinality(left.found) = MaxProfiles -> Idle
                        [] OTHER -> [step |-> "identity", root |-> r, todo |-> left.todo,
                                     found |-> left.found, then |-> left.then,
                                     name |-> left.name])
    /\ UNCHANGED <<profiles, lock, nextIdentity, seen, renamed, budget>>

\* MissingIdentity, RootIdentityMismatch
IdentityFits(r) ==
    /\ Readable(r)
    /\ r # Default => profiles[r].identity = {r}

VisitIdentity(p) ==
    /\ At(p, "identity")
    /\ LET r == work[p].root
       IN  IF IdentityFits(r)
           THEN Goes(p, [step |-> "metadata", root |-> r, identity |-> HasIdentity(r),
                         todo |-> work[p].todo, found |-> work[p].found,
                         then |-> work[p].then, name |-> work[p].name])
           ELSE GoesTo(p, "broken")
    /\ UNCHANGED <<profiles, lock, nextIdentity, seen, renamed, budget>>

\* MissingMetadata, DuplicateIdentity
MetadataFits(p, r) ==
    /\ Readable(r)
    /\ r = Default \/ HasMetadata(r)
    /\ \A e \in work[p].found : e.identity \notin profiles[r].identity

VisitMetadata(p) ==
    /\ At(p, "metadata")
    /\ LET r == work[p].root
           entry == IF work[p].identity THEN Entry(r)
                    ELSE [root |-> r, identity |-> 0, generation |-> 0]
       IN  IF MetadataFits(p, r)
           THEN Goes(p, [step |-> "visit", todo |-> work[p].todo, then |-> work[p].then,
                         name |-> work[p].name, found |-> work[p].found \cup {entry}])
           ELSE GoesTo(p, "broken")
    /\ UNCHANGED <<profiles, lock, nextIdentity, seen, renamed, budget>>

\* The listing is complete, and given to who asked for it.
Listed(p) ==
    /\ At(p, "visit")
    /\ work[p].todo = {}
    /\ work[p].then = "list"
    /\ seen' = [seen EXCEPT ![p] = work[p].found]
    /\ Goes(p, Idle)
    /\ UNCHANGED <<profiles, lock, nextIdentity, renamed, budget>>

-----------------------------------------------------------------------------
(* What is written to a root.                                              *)

Locks(p, r) == lock' = [lock EXCEPT ![r] = p]
Unlocks(r) == lock' = [lock EXCEPT ![r] = NoProc]

Record(generation, name) == [generation |-> generation, name |-> name]

\* A root whose lock is held by another process is refused.
MayLock(r) == lock[r] = NoProc

\* publish_profile_storage_id, and load_or_create_profile_storage_id before it
WriteIdentity(p, next) ==
    /\ At(p, "bind")
    /\ LET r == work[p].root
       IN  IF HasIdentity(r)
           THEN UNCHANGED <<profiles, nextIdentity>>
           ELSE IF work[p].identity # 0
           THEN /\ profiles' = [profiles EXCEPT ![r].identity = @ \cup {work[p].identity}]
                /\ UNCHANGED nextIdentity
           ELSE /\ nextIdentity <= MaxIdentities
                /\ profiles' = [profiles EXCEPT ![r].identity = @ \cup {nextIdentity}]
                /\ nextIdentity' = nextIdentity + 1
    /\ GoesTo(p, next)
    /\ UNCHANGED <<lock, seen, renamed, budget>>

\* load_or_create_profile_metadata
WriteMetadata(p) ==
    /\ At(p, "name")
    /\ LET r == work[p].root
       IN  IF HasMetadata(r)
           THEN UNCHANGED profiles
           ELSE profiles' = [profiles EXCEPT ![r].records = {Record(1, work[p].name)}]
    /\ GoesTo(p, work[p].then)
    /\ UNCHANGED <<lock, nextIdentity, seen, renamed, budget>>

-----------------------------------------------------------------------------
(* Creation.                                                               *)

\* create_profile, from the allocation of an identity to that of its root
CreateRoot(p) ==
    /\ At(p, "visit")
    /\ work[p].todo = {}
    /\ work[p].then = "create"
    /\ Cardinality(work[p].found) < MaxProfiles
    /\ nextIdentity <= MaxIdentities
    /\ nextIdentity' = nextIdentity + 1
    /\ profiles' = [profiles EXCEPT ![nextIdentity].dir = TRUE]
    /\ Goes(p, [step |-> "lock", root |-> nextIdentity, identity |-> nextIdentity,
                name |-> work[p].name, then |-> "unlock"])
    /\ UNCHANGED <<lock, seen, renamed, budget>>

\* ProfileLock::acquire, in create_profile and in PreparedProfile::load, which
\* makes the root if it is not there
Lock(p) ==
    /\ At(p, "lock")
    /\ LET r == work[p].root
       IN  IF MayLock(r)
           THEN /\ Locks(p, r)
                /\ profiles' = [profiles EXCEPT ![r].dir = TRUE]
                /\ GoesTo(p, "bind")
           ELSE /\ Goes(p, Idle)
                /\ UNCHANGED <<lock, profiles>>
    /\ UNCHANGED <<nextIdentity, seen, renamed, budget>>

Unlock(p) ==
    /\ At(p, "unlock")
    /\ Unlocks(work[p].root)
    /\ GoesTo(p, "publish")
    /\ UNCHANGED <<profiles, nextIdentity, seen, renamed, budget>>

\* The marker: from here on the profile is there.
Publish(p) ==
    /\ At(p, "publish")
    /\ profiles' = [profiles EXCEPT ![work[p].root].ready = TRUE]
    /\ Goes(p, Idle)
    /\ UNCHANGED <<lock, nextIdentity, seen, renamed, budget>>

-----------------------------------------------------------------------------
(* Renaming an entry of a listing, which may be old.                       *)

\* rename_profile: an entry without an identity cannot be named in an intent.
BeginRename(p) ==
    /\ At(p, "idle")
    /\ budget.renames > 0
    /\ budget' = [budget EXCEPT !.renames = @ - 1]
    /\ \E e \in seen[p], name \in Name :
          /\ e.identity # 0
          /\ Goes(p, [step |-> "acquire", root |-> e.root, identity |-> e.identity,
                      from |-> e.generation, name |-> name])
    /\ UNCHANGED <<profiles, lock, nextIdentity, seen, renamed>>

\* Mutation of MayRename: the lock of the profile is not looked at.
IgnoresLock(r) == TRUE

MayRename(r) == MayLock(r)

AcquireToRename(p) ==
    /\ At(p, "acquire")
    /\ LET r == work[p].root
       IN  IF MayRename(r)
           THEN Locks(p, r) /\ GoesTo(p, "check")
           ELSE Goes(p, Idle) /\ UNCHANGED lock
    /\ UNCHANGED <<profiles, nextIdentity, seen, renamed, budget>>

\* Mutation of IsCurrent: any metadata will do.
AnyGeneration(p, r) == HasMetadata(r)

\* Missing, StaleGeneration
IsCurrent(p, r) == HasMetadata(r) /\ Latest(r).generation = work[p].from

\* save_profile_metadata: verify_storage_identity and the checks on the records
CheckRename(p) ==
    /\ At(p, "check")
    /\ LET r == work[p].root
       IN  IF profiles[r].identity = {work[p].identity} /\ Readable(r) /\ IsCurrent(p, r)
           THEN GoesTo(p, "prune") /\ UNCHANGED lock
           ELSE Goes(p, Idle) /\ Unlocks(r)
    /\ UNCHANGED <<profiles, nextIdentity, seen, renamed, budget>>

\* Mutation of Older: the current record is removed with them.
OlderOrCurrent(r) == profiles[r].records

Older(r) == profiles[r].records \ {Latest(r)}

\* The older records are removed first, one by one, the oldest first.
Prune(p) ==
    /\ At(p, "prune")
    /\ LET r == work[p].root
       IN  IF Older(r) # {}
           THEN /\ profiles' = [profiles EXCEPT ![r].records =
                        @ \ {CHOOSE m \in Older(r) :
                                \A n \in Older(r) : m.generation <= n.generation}]
                /\ UNCHANGED work
           ELSE /\ GoesTo(p, "record")
                /\ UNCHANGED profiles
    /\ UNCHANGED <<lock, nextIdentity, seen, renamed, budget>>

\* publish_metadata_record
WriteRecord(p) ==
    /\ At(p, "record")
    /\ LET r == work[p].root
           made == Record(Latest(r).generation + 1, work[p].name)
       IN  /\ profiles' = [profiles EXCEPT ![r].records = @ \cup {made}]
           /\ Goes(p, [step |-> "finish", root |-> r, from |-> work[p].from, made |-> made])
    /\ UNCHANGED <<lock, nextIdentity, seen, renamed, budget>>

FinishRename(p) ==
    /\ At(p, "finish")
    /\ Unlocks(work[p].root)
    /\ renamed' = renamed \cup {[root |-> work[p].root, from |-> work[p].from,
                                 made |-> work[p].made]}
    /\ Goes(p, Idle)
    /\ UNCHANGED <<profiles, nextIdentity, seen, budget>>

-----------------------------------------------------------------------------
(* Opening: PreparedProfile::load keeps the lock, the identity and the     *)
(* metadata it has read for as long as the profile is active.              *)

Open(p) ==
    /\ At(p, "idle")
    /\ budget.work > 0
    /\ budget' = [budget EXCEPT !.work = @ - 1]
    /\ \E r \in {e.root : e \in seen[p]} \cup {Default}, name \in Name :
          Goes(p, [step |-> "lock", root |-> r, identity |-> 0, name |-> name,
                   then |-> "load"])
    /\ UNCHANGED <<profiles, lock, nextIdentity, seen, renamed>>

Load(p) ==
    /\ At(p, "load")
    /\ LET r == work[p].root
       IN  Goes(p, [step |-> "active", root |-> r, entry |-> Entry(r)])
    /\ UNCHANGED <<profiles, lock, nextIdentity, seen, renamed, budget>>

Close(p) ==
    /\ At(p, "active")
    /\ Unlocks(work[p].root)
    /\ Goes(p, Idle)
    /\ UNCHANGED <<profiles, nextIdentity, seen, renamed, budget>>

-----------------------------------------------------------------------------

\* The process crashes, or meets an error and releases what it holds.
Stop(p) ==
    /\ ~At(p, "idle") /\ ~At(p, "broken")
    /\ lock' = [r \in Root |-> IF lock[r] = p THEN NoProc ELSE lock[r]]
    /\ Goes(p, Idle)
    /\ UNCHANGED <<profiles, nextIdentity, seen, renamed, budget>>

Init ==
    /\ profiles = [r \in Root |-> Absent]
    /\ lock = [r \in Root |-> NoProc]
    /\ nextIdentity = 1
    /\ work = [p \in Proc |-> Idle]
    /\ seen = [p \in Proc |-> {}]
    /\ renamed = {}
    /\ budget = [work |-> MaxWork, renames |-> MaxRenames]

Next ==
    \E p \in Proc :
        \/ Discover(p) \/ Visit(p) \/ VisitIdentity(p) \/ VisitMetadata(p) \/ Listed(p)
        \/ CreateRoot(p) \/ Lock(p) \/ WriteIdentity(p, "name") \/ WriteMetadata(p)
        \/ Unlock(p) \/ Publish(p)
        \/ BeginRename(p) \/ AcquireToRename(p) \/ CheckRename(p) \/ Prune(p)
        \/ WriteRecord(p) \/ FinishRename(p)
        \/ Open(p) \/ Load(p) \/ Close(p) \/ Stop(p)

Spec == Init /\ [][Next]_vars

-----------------------------------------------------------------------------
(* Properties.                                                             *)

TypeOK ==
    /\ nextIdentity \in 1 .. MaxIdentities + 1
    /\ lock \in [Root -> Proc \cup {NoProc}]
    /\ \A r \in Root :
          /\ profiles[r].identity \subseteq 1 .. MaxIdentities
          /\ \A m \in profiles[r].records : m.generation \in Nat /\ m.name \in Name
    /\ budget.work \in 0 .. MaxWork /\ budget.renames \in 0 .. MaxRenames

\* A discovery never fails on what the catalog's own work leaves behind: not on
\* a root half made, nor on a profile that is renamed, opened for the first
\* time or crashed upon while the discovery looks at it (discover).
DiscoveryNeverBreaks == \A p \in Proc : ~At(p, "broken")

\* A profile that was listed stays: it keeps its identity, no other root has
\* it, and it always has a name, at every step of every rename, crash or no; and the
\* state keeps its types.
ProfilesStay ==
    /\ TypeOK
    /\ \A p \in Proc, e \in UNION {seen[q] : q \in Proc} :
          e.identity # 0 => profiles[e.root].identity = {e.identity}
    /\ \A e \in UNION {seen[q] : q \in Proc} :
          e.generation # 0 =>
              HasMetadata(e.root) /\ Latest(e.root).generation >= e.generation
    /\ \A r, s \in Root : r # s => profiles[r].identity \cap profiles[s].identity = {}

\* A rename that succeeded replaced the name its caller had seen, no other did
\* so from the same one, and it stays until another follows it.
RenamesAreKept ==
    \A a \in renamed :
        /\ a.made.generation = a.from + 1
        /\ Latest(a.root).generation >= a.made.generation
        /\ Latest(a.root).generation = a.made.generation => Latest(a.root) = a.made
        /\ \A b \in renamed : a.root = b.root /\ a.from = b.from => a = b

\* Nobody renames a profile while it is open: the identity and the generation
\* it was opened with stay those on disk, which is what the next rename of it
\* will be compared with (rename_profile, PreparedProfile::load).
OpenProfileIsCurrent ==
    \A p \in Proc : At(p, "active") => work[p].entry = Entry(work[p].root)
=============================================================================
