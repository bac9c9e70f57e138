--------------------------- MODULE ProfileRuntime ---------------------------
(***************************************************************************)
(* The profile runtime with its identifiers: selections, the active        *)
(* profile, and for each store a mutation revision, a durable revision and *)
(* one save under way.  Its caller is any program that compiles: it holds  *)
(* the intents, prepared profiles and completions the runtime hands out,   *)
(* each of which can be used once, in any order and however late.  That    *)
(* includes to execute a save after it was cancelled, which the native     *)
(* shell never does.                                                       *)
(* The disk is what the locked stores make of it: a save that finds        *)
(* another generation than it started from, or another lock, fails.        *)
(***************************************************************************)
EXTENDS Integers

CONSTANTS Root,         \* profile directories
          Store,        \* the stores of a profile
          Storage,      \* the storage identity kept in each directory
          MaxSelection, \* bound: selections begun
          MaxSave,      \* bound: saves begun of each store
          MaxRevision   \* bound: mutations of each store

ASSUME StorageAssumption == \A r, q \in Root : r = q => Storage[r] = Storage[q]
ASSUME RuntimeBounds == MaxSelection \in Nat /\ MaxSave \in Nat /\ MaxRevision \in Nat

VARIABLES
    nextProfile, nextSelection, nextSave, \* the counters of identifiers
    active,       \* the active profile
    generation,   \* of its stores, as last loaded or saved
    revision,     \* of its stores: mutations
    durable,      \* of its stores: mutations known to be on disk
    selection,    \* the pending selection
    saving,       \* the pending save of each store
    intents,      \* with the caller: selections to prepare
    prepared,     \* with the caller: profiles to commit
    saves,        \* with the caller: saves to execute
    completions,  \* with the caller: executed saves
    disk,         \* the newest generation of each store and what it holds
    locked,       \* the lock on each directory: the selection it was taken for
    withdrawn     \* history: selections that were cancelled

runtime == <<nextProfile, nextSelection, nextSave, active, generation, revision,
             durable, selection, saving>>
caller == <<intents, prepared, saves, completions>>
vars == <<runtime, caller, disk, locked, withdrawn>>

Selection == 1 .. MaxSelection
Revision == 0 .. MaxRevision

NoActive == [id |-> 0]
NoSelection == [id |-> 0]
NoSave == [id |-> 0]
Unlocked == 0

ActiveProfile == [id : Selection, root : Root, lock : Selection]
SelectionIntent == [id : Selection, root : Root]
PendingSave == [id : 1 .. MaxSave, profile : Selection, base : Nat, revision : Revision]

\* A save intent names its target and holds the lock and a snapshot, of which
\* only the revision matters.
SaveIntent == [id : 1 .. MaxSave, store : Store, profile : Selection, root : Root,
               lock : Selection, base : Nat, revision : Revision]

PreparedProfile == [id : Selection, root : Root, generation : [Store -> Nat]]

\* The newest generation of a store: whose it is and what it holds.
Stored == [generation : Nat, profile : 0 .. MaxSelection, revision : Revision]

TypeOK ==
    /\ nextProfile \in 1 .. MaxSelection + 1
    /\ nextSelection \in 1 .. MaxSelection + 1
    /\ nextSave \in [Store -> 1 .. MaxSave + 1]
    /\ active \in ActiveProfile \cup {NoActive}
    /\ generation \in [Store -> Nat]
    /\ revision \in [Store -> Revision]
    /\ durable \in [Store -> Revision]
    /\ selection \in SelectionIntent \cup {NoSelection}
    /\ saving \in [Store -> PendingSave \cup {NoSave}]
    /\ intents \subseteq SelectionIntent
    /\ prepared \subseteq PreparedProfile
    /\ saves \subseteq SaveIntent
    /\ completions \subseteq [intent : SaveIntent, ok : BOOLEAN]
    /\ disk \in [Root -> [Store -> Stored]]
    /\ locked \in [Root -> Selection \cup {Unlocked}]
    /\ withdrawn \subseteq Selection

Init ==
    /\ nextProfile = 1
    /\ nextSelection = 1
    /\ nextSave = [s \in Store |-> 1]
    /\ active = NoActive
    /\ generation = [s \in Store |-> 0]
    /\ revision = [s \in Store |-> 0]
    /\ durable = [s \in Store |-> 0]
    /\ selection = NoSelection
    /\ saving = [s \in Store |-> NoSave]
    /\ intents = {}
    /\ prepared = {}
    /\ saves = {}
    /\ completions = {}
    /\ disk = [r \in Root |-> [s \in Store |->
                 [generation |-> 0, profile |-> 0, revision |-> 0]]]
    /\ locked = [r \in Root |-> Unlocked]
    /\ withdrawn = {}

-----------------------------------------------------------------------------
(* Selections.                                                             *)

\* Mutation of BeginSelection: the selection under way stays pending.
BeginSelectionKeepsFirst(r) ==
    /\ nextSelection <= MaxSelection
    /\ LET new == [id |-> nextSelection, root |-> r]
       IN  /\ selection' = IF selection = NoSelection THEN new ELSE selection
           /\ intents' = intents \cup {new}
    /\ nextSelection' = nextSelection + 1
    /\ UNCHANGED <<nextProfile, nextSave, active, generation, revision, durable,
                   saving, prepared, saves, completions, disk, locked, withdrawn>>

\* A new selection supersedes the one that is pending.
BeginSelection(r) ==
    /\ nextSelection <= MaxSelection
    /\ LET new == [id |-> nextSelection, root |-> r]
       IN  /\ selection' = new
           /\ intents' = intents \cup {new}
    /\ nextSelection' = nextSelection + 1
    /\ UNCHANGED <<nextProfile, nextSave, active, generation, revision, durable,
                   saving, prepared, saves, completions, disk, locked, withdrawn>>

\* Refused for every other identifier.
CancelSelection(id) ==
    /\ selection.id = id
    /\ selection' = NoSelection
    /\ withdrawn' = withdrawn \cup {id}
    /\ UNCHANGED <<nextProfile, nextSelection, nextSave, active, generation, revision,
                   durable, saving, caller, disk, locked>>

\* PreparedProfile::load takes the lock and reads every store.
Prepare(i) ==
    /\ locked[i.root] = Unlocked
    /\ locked' = [locked EXCEPT ![i.root] = i.id]
    /\ intents' = intents \ {i}
    /\ prepared' = prepared \cup
         {[id |-> i.id, root |-> i.root,
           generation |-> [s \in Store |-> disk[i.root][s].generation]]}
    /\ UNCHANGED <<runtime, saves, completions, disk, withdrawn>>

\* It fails, having given back the lock if it had it.
PrepareFails(i) ==
    /\ intents' = intents \ {i}
    /\ UNCHANGED <<runtime, prepared, saves, completions, disk, locked, withdrawn>>

Dirty(s) == revision[s] # durable[s]

Matches(p) == selection.id = p.id /\ selection.root = p.root

\* Mutation of Replaceable: only saves under way count.
ReplaceableWhenIdle(p) ==
    /\ Storage[active.root] # Storage[p.root]
    /\ \A s \in Store : saving[s] = NoSave

\* The active profile gives way to another directory's, and only when nothing
\* of it is left to save.
Replaceable(p) ==
    /\ Storage[active.root] # Storage[p.root]
    /\ \A s \in Store : saving[s] = NoSave /\ ~Dirty(s)

Acceptable(p) == Matches(p) /\ (active # NoActive => Replaceable(p))

\* commit_selection: the replaced profile goes to the caller, with its lock.
Commit(p) ==
    /\ Acceptable(p)
    /\ active' = [id |-> nextProfile, root |-> p.root, lock |-> p.id]
    /\ nextProfile' = nextProfile + 1
    /\ selection' = NoSelection
    /\ generation' = p.generation
    /\ revision' = [s \in Store |-> 0]
    /\ durable' = [s \in Store |-> 0]
    /\ prepared' = prepared \ {p}
    /\ UNCHANGED <<nextSelection, nextSave, saving, intents, saves, completions,
                   disk, locked, withdrawn>>

\* The prepared profile goes back to the caller, with its lock.
CommitRefused(p) ==
    /\ ~Acceptable(p)
    /\ prepared' = prepared \ {p}
    /\ UNCHANGED <<runtime, intents, saves, completions, disk, locked, withdrawn>>

\* The caller releases a lock that came back to it.
ReleaseLock(r) ==
    /\ locked[r] # Unlocked
    /\ active # NoActive => active.lock # locked[r]
    /\ \A p \in prepared : p.id # locked[r]
    /\ locked' = [locked EXCEPT ![r] = Unlocked]
    /\ UNCHANGED <<runtime, caller, disk, withdrawn>>

-----------------------------------------------------------------------------
(* Saves.                                                                  *)

Mutate(s) ==
    /\ active # NoActive
    /\ revision[s] < MaxRevision
    /\ revision' = [revision EXCEPT ![s] = @ + 1]
    /\ UNCHANGED <<nextProfile, nextSelection, nextSave, active, generation, durable,
                   selection, saving, caller, disk, locked, withdrawn>>

\* begin_..._save_if_dirty: one save per store at a time.
BeginSave(s) ==
    /\ active # NoActive
    /\ Dirty(s)
    /\ saving[s] = NoSave
    /\ nextSave[s] <= MaxSave
    /\ nextSave' = [nextSave EXCEPT ![s] = @ + 1]
    /\ saving' = [saving EXCEPT ![s] =
                    [id |-> nextSave[s], profile |-> active.id,
                     base |-> generation[s], revision |-> revision[s]]]
    /\ saves' = saves \cup
         {[id |-> nextSave[s], store |-> s, profile |-> active.id, root |-> active.root,
           lock |-> active.lock, base |-> generation[s], revision |-> revision[s]]}
    /\ UNCHANGED <<nextProfile, nextSelection, active, generation, revision, durable,
                   selection, intents, prepared, completions, disk, locked, withdrawn>>

\* Refused for every other identifier.  The caller may still have the intent.
CancelSave(s, id) ==
    /\ saving[s].id = id
    /\ saving' = [saving EXCEPT ![s] = NoSave]
    /\ UNCHANGED <<nextProfile, nextSelection, nextSave, active, generation, revision,
                   durable, selection, caller, disk, locked, withdrawn>>

\* Mutation of Executable: what is on disk is not compared with what the save
\* started from.
ExecutableUncompared(i) == locked[i.root] = i.lock

\* The lock is held and nobody saved in between.
Executable(i) ==
    /\ locked[i.root] = i.lock
    /\ disk[i.root][i.store].generation = i.base

\* execute writes the captured snapshot as the next generation.
Execute(i) ==
    /\ Executable(i)
    /\ disk' = [disk EXCEPT ![i.root][i.store] =
                  [generation |-> i.base + 1, profile |-> i.profile, revision |-> i.revision]]
    /\ saves' = saves \ {i}
    /\ completions' = completions \cup {[intent |-> i, ok |-> TRUE]}
    /\ UNCHANGED <<runtime, intents, prepared, locked, withdrawn>>

\* Any file operation may fail.
ExecuteFails(i) ==
    /\ saves' = saves \ {i}
    /\ completions' = completions \cup {[intent |-> i, ok |-> FALSE]}
    /\ UNCHANGED <<runtime, intents, prepared, disk, locked, withdrawn>>

\* Is this the completion of the save under way, for the active profile?
Expected(c) ==
    LET i == c.intent  pending == saving[i.store]
    IN  /\ pending # NoSave
        /\ pending.id = i.id
        /\ active # NoActive
        /\ pending.profile = i.profile
        /\ pending.base = i.base
        /\ pending.revision = i.revision
        /\ active.id = i.profile
        /\ active.root = i.root

\* advance_generation_after_save
Advances(i) == generation[i.store] = i.base

\* Mutation of Complete: the save counts for all that is in memory now.
CompleteForAll(c) ==
    LET i == c.intent IN
    /\ Expected(c)
    /\ completions' = completions \ {c}
    /\ saving' = [saving EXCEPT ![i.store] = NoSave]
    /\ IF c.ok /\ Advances(i)
       THEN /\ generation' = [generation EXCEPT ![i.store] = i.base + 1]
            /\ durable' = [durable EXCEPT ![i.store] = revision[i.store]]
       ELSE UNCHANGED <<generation, durable>>
    /\ UNCHANGED <<nextProfile, nextSelection, nextSave, active, revision, selection,
                   intents, prepared, saves, disk, locked, withdrawn>>

\* complete_..._save: what the save captured is durable, newer mutations stay
\* unsaved, and so does everything if it failed.
Complete(c) ==
    LET i == c.intent IN
    /\ Expected(c)
    /\ completions' = completions \ {c}
    /\ saving' = [saving EXCEPT ![i.store] = NoSave]
    /\ IF c.ok /\ Advances(i)
       THEN /\ generation' = [generation EXCEPT ![i.store] = i.base + 1]
            /\ durable' = [durable EXCEPT ![i.store] = i.revision]
       ELSE UNCHANGED <<generation, durable>>
    /\ UNCHANGED <<nextProfile, nextSelection, nextSave, active, revision, selection,
                   intents, prepared, saves, disk, locked, withdrawn>>

\* A stale completion changes nothing.
CompleteRefused(c) ==
    /\ ~Expected(c)
    /\ completions' = completions \ {c}
    /\ UNCHANGED <<runtime, intents, prepared, saves, disk, locked, withdrawn>>

Next ==
    \/ \E r \in Root : BeginSelection(r) \/ ReleaseLock(r)
    \/ \E id \in Selection : CancelSelection(id)
    \/ \E i \in intents : Prepare(i) \/ PrepareFails(i)
    \/ \E p \in prepared : Commit(p) \/ CommitRefused(p)
    \/ \E s \in Store : Mutate(s) \/ BeginSave(s)
    \/ \E s \in Store, id \in 1 .. MaxSave : CancelSave(s, id)
    \/ \E i \in saves : Execute(i) \/ ExecuteFails(i)
    \/ \E c \in completions : Complete(c) \/ CompleteRefused(c)

Spec == Init /\ [][Next]_vars

-----------------------------------------------------------------------------
(* Properties.                                                             *)

\* What the runtime takes for saved is on disk, written by the active profile
\* and not overwritten since, whichever cancelled saves still run.
DurableIsOnDisk ==
    active # NoActive =>
        \A s \in Store :
            durable[s] # 0 =>
                /\ disk[active.root][s].profile = active.id
                /\ disk[active.root][s].revision >= durable[s]

\* A profile that is replaced leaves nothing behind in memory: the disk holds
\* every one of its mutations.
ReplacedIsSaved ==
    [][active # NoActive /\ active' # active =>
         \A s \in Store :
             revision[s] # 0 =>
                 /\ disk[active.root][s].profile = active.id
                 /\ disk[active.root][s].revision = revision[s]]_vars

\* A late save never replaces newer content: what is on disk changes only to a
\* later profile's, or to the same profile's later content.
DiskMovesForward ==
    [][\A r \in Root, s \in Store :
         LET old == disk[r][s]  new == disk'[r][s]
         IN  \/ new = old
             \/ new.profile > old.profile
             \/ new.profile = old.profile /\ new.revision > old.revision]_vars

\* A profile becomes active only for the newest selection, and never for one
\* that was cancelled.
NewestSelectionWins ==
    [][active' # active =>
         active'.lock = nextSelection - 1 /\ active'.lock \notin withdrawn]_vars
=============================================================================
