---------------------------- MODULE ProfileProofs ----------------------------
(***************************************************************************)
(* Theorems about what guards the data of one profile: the runtime that    *)
(* selects profiles and carries their saves, the scheduler that decides    *)
(* when a store is saved, and the lock that keeps a root to one process.   *)
(* Each part is proved for every value of its constants: any number of     *)
(* directories, stores, selections, saves and mutations; every policy,     *)
(* clock and series of profiles; any set of processes and owner ids.       *)
(***************************************************************************)
EXTENDS ProfileRuntime, SaveScheduler, ProfileLock, TLAPS

-----------------------------------------------------------------------------
(* The runtime, against every caller.                                      *)

HasActive == active # NoActive

\* Identifiers grow; what is pending is the newest selection, not withdrawn.
SelectionInv ==
    /\ nextProfile <= nextSelection
    /\ selection # NoSelection =>
           /\ nextProfile < nextSelection
           /\ selection.id = nextSelection - 1
           /\ selection.id \notin withdrawn
    /\ \A id \in withdrawn : id < nextSelection
    /\ \A r \in Root : locked[r] < nextSelection
    /\ HasActive => /\ active.id < nextProfile
                    /\ active.lock < nextSelection
                    /\ locked[active.root] = active.lock

\* A selection with the caller that was not prepared yet has left no trace.
IntentInv ==
    \A j \in intents :
        /\ j.id < nextSelection
        /\ HasActive => active.lock # j.id
        /\ \A r \in Root : locked[r] # j.id
        /\ \A p \in prepared : p.id # j.id
        /\ \A i \in saves : i.lock # j.id
        /\ \A k \in intents : j.id = k.id => j = k

\* A prepared profile holds its lock, and so what it read is still true.
PreparedInv ==
    \A p \in prepared :
        /\ p.id < nextSelection
        /\ locked[p.root] = p.id
        /\ \A s \in Store : p.generation[s] = disk[p.root][s].generation
        /\ HasActive => active.lock # p.id
        /\ \A i \in saves : i.lock # p.id
        /\ \A q \in prepared : p.id = q.id => p = q

\* What the active profile knows of the disk: it knows all but, possibly, one
\* save whose completion it has not seen or refused.
ActiveInv ==
    HasActive =>
        \A s \in Store :
            LET d == disk[active.root][s]
            IN  /\ durable[s] <= revision[s]
                /\ \/ /\ d.generation = generation[s]
                      /\ durable[s] = 0 => d.profile < active.id
                      /\ durable[s] # 0 => d.profile = active.id /\ d.revision = durable[s]
                   \/ /\ d.generation = generation[s] + 1
                      /\ d.profile = active.id
                      /\ durable[s] < d.revision
                      /\ d.revision <= revision[s]

\* The pending save started from what is in memory.
SavingInv ==
    \A s \in Store :
        saving[s] # NoSave =>
            /\ HasActive
            /\ saving[s].profile = active.id
            /\ saving[s].base = generation[s]

\* A save that will find another lock or another generation.
Dead(i) == locked[i.root] # i.lock \/ disk[i.root][i.store].generation > i.base

\* A save that may still be executed with effect.
Current(i) ==
    /\ i.lock = active.lock
    /\ i.root = active.root
    /\ i.base <= generation[i.store]
    /\ i.revision <= revision[i.store]
    /\ i.base = generation[i.store] => durable[i.store] < i.revision

SavesInv ==
    \A i \in saves :
        /\ i.profile < nextProfile
        /\ i.lock < nextSelection
        /\ HasActive /\ i.profile = active.id => Current(i)
        /\ ~(HasActive /\ i.profile = active.id) => Dead(i)

\* The completion of a successful save of the active profile's present
\* generation tells what is on disk.
CompletionInv ==
    \A c \in completions :
        /\ c.intent.profile < nextProfile
        /\ HasActive /\ c.intent.profile = active.id =>
               c.intent.base <= generation[c.intent.store] /\ c.intent.root = active.root
        /\ c.ok /\ HasActive /\ c.intent.profile = active.id
           /\ c.intent.base = generation[c.intent.store] =>
               /\ disk[active.root][c.intent.store].generation = c.intent.base + 1
               /\ disk[active.root][c.intent.store].revision = c.intent.revision

\* What was written was written by a profile that became active before.
DiskInv ==
    \A r \in Root, s \in Store : disk[r][s].profile < nextProfile

\* The inductive invariant.
IInv ==
    /\ TypeOK
    /\ SelectionInv
    /\ IntentInv
    /\ PreparedInv
    /\ ActiveInv
    /\ SavingInv
    /\ SavesInv
    /\ CompletionInv
    /\ DiskInv

-----------------------------------------------------------------------------
(* Facts about the records.                                                *)

LEMMA ActiveType == TypeOK /\ HasActive => active \in ActiveProfile
BY DEF TypeOK, HasActive

LEMMA SelectionType == TypeOK /\ selection # NoSelection => selection \in SelectionIntent
BY DEF TypeOK

LEMMA NewActive ==
    ASSUME NEW n \in Nat \ {0}, NEW r, NEW l
    PROVE  [id |-> n, root |-> r, lock |-> l] # NoActive
<1>1. [id |-> n, root |-> r, lock |-> l].id = n /\ NoActive.id = 0
  BY DEF NoActive
<1> QED BY <1>1

\* The selection a prepared profile matches is pending.
LEMMA MatchingIsPending ==
    ASSUME TypeOK, NEW p \in prepared, Matches(p)
    PROVE  selection # NoSelection /\ p.id = selection.id /\ p.root = selection.root
<1>1. p.id \in Nat \ {0}
  BY RuntimeBounds DEF TypeOK, PreparedProfile, Selection, RuntimeBounds
<1>2. NoSelection.id = 0
  BY DEF NoSelection
<1> QED BY <1>1, <1>2 DEF Matches

-----------------------------------------------------------------------------
LEMMA InitInductive == Init => IInv
<1> SUFFICES ASSUME Init PROVE IInv
  OBVIOUS
<1>1. TypeOK
  <2>1. 1 \in 1 .. MaxSelection + 1 /\ 1 \in 1 .. MaxSave + 1 /\ 0 \in Revision /\ 0 \in 0 .. MaxSelection
    BY RuntimeBounds DEF RuntimeBounds, Revision
  <2>2. [generation |-> 0, profile |-> 0, revision |-> 0] \in Stored
    BY <2>1 DEF Stored
  <2>3. disk \in [Root -> [Store -> Stored]]
    BY <2>2 DEF Init
  <2>4. locked \in [Root -> Selection \cup {Unlocked}]
    BY DEF Init
  <2> QED BY <2>1, <2>3, <2>4 DEF Init, TypeOK
<1>2. ~HasActive /\ selection = NoSelection
  BY DEF Init, HasActive
<1>3. SelectionInv /\ IntentInv /\ PreparedInv /\ ActiveInv /\ SavingInv /\ SavesInv /\ CompletionInv
  BY <1>2 DEF Init, SelectionInv, IntentInv, PreparedInv, ActiveInv, SavingInv, SavesInv,
     CompletionInv, Unlocked
<1>4. DiskInv
  BY DEF Init, DiskInv
<1> QED BY <1>1, <1>3, <1>4 DEF IInv

-----------------------------------------------------------------------------
(* Selections.                                                             *)

LEMMA BeginSelectionPreserves ==
    ASSUME IInv, NEW r \in Root, BeginSelection(r) PROVE IInv'
<1> DEFINE new == [id |-> nextSelection, root |-> r]
<1>1. /\ nextSelection \in Selection /\ nextSelection \in Nat /\ nextProfile \in Nat
      /\ nextSelection' = nextSelection + 1 /\ nextSelection' \in 1 .. MaxSelection + 1
  BY RuntimeBounds DEF BeginSelection, IInv, TypeOK, Selection, RuntimeBounds
<1>2. new \in SelectionIntent /\ new.id = nextSelection
  BY <1>1 DEF SelectionIntent
<1>3. selection' = new /\ intents' = intents \cup {new}
  BY DEF BeginSelection
<1>4. UNCHANGED <<nextProfile, nextSave, active, generation, revision, durable,
                  saving, prepared, saves, completions, disk, locked, withdrawn>>
  BY DEF BeginSelection
<1> HIDE DEF new
<1>5. TypeOK'
  BY <1>1, <1>2, <1>3, <1>4 DEF IInv, TypeOK
<1>6. HasActive' <=> HasActive
  BY <1>4 DEF HasActive
<1>7. SelectionInv'
  <2>1. \A id \in withdrawn : id \in Nat /\ id < nextSelection
    BY RuntimeBounds DEF IInv, TypeOK, SelectionInv, Selection, RuntimeBounds
  <2>2. \A q \in Root : locked[q] \in Nat /\ locked[q] < nextSelection
    BY RuntimeBounds DEF IInv, TypeOK, SelectionInv, Selection, RuntimeBounds, Unlocked
  <2>3. nextProfile' <= nextSelection' /\ nextProfile' < nextSelection'
    BY <1>1, <1>4 DEF IInv, SelectionInv
  <2>4. selection'.id = nextSelection' - 1 /\ selection'.id \notin withdrawn'
    BY <1>1, <1>2, <1>3, <1>4, <2>1
  <2>5. HasActive' => /\ active'.id < nextProfile' /\ active'.lock < nextSelection'
                      /\ locked'[active'.root] = active'.lock
    BY <1>1, <1>4, <1>6, ActiveType, RuntimeBounds
       DEF IInv, SelectionInv, ActiveProfile, Selection, RuntimeBounds
  <2> QED BY <1>1, <1>4, <2>1, <2>2, <2>3, <2>4, <2>5 DEF SelectionInv
<1>8. IntentInv'
  <2> SUFFICES ASSUME NEW j \in intents'
               PROVE  /\ j.id < nextSelection'
                      /\ HasActive => active.lock # j.id
                      /\ \A q \in Root : locked[q] # j.id
                      /\ \A p \in prepared : p.id # j.id
                      /\ \A i \in saves : i.lock # j.id
                      /\ \A k \in intents' : j.id = k.id => j = k
    BY <1>4, <1>6 DEF IntentInv
  <2>1. \A k \in intents : k.id \in Nat /\ k.id < nextSelection
    BY RuntimeBounds DEF IInv, TypeOK, IntentInv, SelectionIntent, Selection, RuntimeBounds
  <2>2. CASE j \in intents
    BY <1>1, <1>2, <1>3, <2>1, <2>2 DEF IInv, IntentInv
  <2>3. CASE j = new
    <3>1. HasActive => active.lock # nextSelection
      BY <1>1, ActiveType, RuntimeBounds DEF IInv, SelectionInv, ActiveProfile, Selection, RuntimeBounds
    <3>2. \A q \in Root : locked[q] # nextSelection
      BY <1>1 DEF IInv, SelectionInv
    <3>3. \A p \in prepared : p.id # nextSelection
      BY <1>1 DEF IInv, PreparedInv
    <3>4. \A i \in saves : i.lock # nextSelection
      BY <1>1 DEF IInv, SavesInv
    <3> QED BY <1>1, <1>2, <1>3, <2>1, <2>3, <3>1, <3>2, <3>3, <3>4
  <2> QED BY <1>3, <2>2, <2>3
<1>9. PreparedInv'
  BY <1>1, <1>4, <1>6, RuntimeBounds
     DEF IInv, PreparedInv, TypeOK, PreparedProfile, Selection, RuntimeBounds
<1>10. ActiveInv' /\ SavingInv' /\ CompletionInv' /\ DiskInv'
  BY <1>4, <1>6 DEF IInv, ActiveInv, SavingInv, CompletionInv, DiskInv
<1>11. SavesInv'
  <2>1. \A i \in saves : i.lock \in Nat
    BY RuntimeBounds DEF IInv, TypeOK, SaveIntent, Selection, RuntimeBounds
  <2> QED BY <1>1, <1>4, <1>6, <2>1 DEF IInv, SavesInv, Current, Dead
<1> QED BY <1>5, <1>7, <1>8, <1>9, <1>10, <1>11 DEF IInv

LEMMA CancelSelectionPreserves ==
    ASSUME IInv, NEW id \in Selection, CancelSelection(id) PROVE IInv'
<1>1. /\ selection' = NoSelection /\ withdrawn' = withdrawn \cup {id}
      /\ UNCHANGED <<nextProfile, nextSelection, nextSave, active, generation, revision,
                     durable, saving, intents, prepared, saves, completions, disk, locked>>
  BY DEF CancelSelection, caller
<1>2. TypeOK'
  BY <1>1 DEF IInv, TypeOK
<1>3. HasActive' <=> HasActive
  BY <1>1 DEF HasActive
<1>4. id < nextSelection
  <2>1. id \in Nat /\ id # 0 /\ NoSelection.id = 0
    BY RuntimeBounds DEF Selection, NoSelection, RuntimeBounds
  <2>2. selection # NoSelection
    BY <2>1 DEF CancelSelection
  <2> QED BY <2>1, <2>2 DEF CancelSelection, IInv, SelectionInv, TypeOK
<1>5. SelectionInv'
  BY <1>1, <1>3, <1>4 DEF IInv, SelectionInv
<1>6. IntentInv' /\ PreparedInv' /\ ActiveInv' /\ SavingInv' /\ CompletionInv' /\ DiskInv'
  BY <1>1, <1>3 DEF IInv, IntentInv, PreparedInv, ActiveInv, SavingInv, CompletionInv, DiskInv
<1>7. SavesInv'
  BY <1>1, <1>3 DEF IInv, SavesInv, Current, Dead
<1> QED BY <1>2, <1>5, <1>6, <1>7 DEF IInv

LEMMA PreparePreserves ==
    ASSUME IInv, NEW j \in intents, Prepare(j) PROVE IInv'
<1> DEFINE new == [id |-> j.id, root |-> j.root,
                   generation |-> [s \in Store |-> disk[j.root][s].generation]]
<1>1. /\ locked[j.root] = Unlocked
      /\ locked' = [locked EXCEPT ![j.root] = j.id]
      /\ intents' = intents \ {j} /\ prepared' = prepared \cup {new}
      /\ UNCHANGED <<runtime, saves, completions, disk, withdrawn>>
  BY DEF Prepare
<1>2. /\ j \in SelectionIntent /\ j.id \in Selection /\ j.root \in Root
      /\ j.id \in Nat \ {0} /\ j.id < nextSelection
  BY RuntimeBounds DEF IInv, TypeOK, IntentInv, SelectionIntent, Selection, RuntimeBounds
<1>3. /\ new \in PreparedProfile /\ new.id = j.id /\ new.root = j.root
      /\ \A s \in Store : new.generation[s] = disk[j.root][s].generation
  <2>1. \A s \in Store : disk[j.root][s].generation \in Nat
    BY <1>2 DEF IInv, TypeOK, Stored
  <2> QED BY <1>2, <2>1 DEF PreparedProfile
<1> HIDE DEF new
<1>4. /\ locked \in [Root -> Selection \cup {Unlocked}]
      /\ locked'[j.root] = j.id
      /\ \A r \in Root \ {j.root} : locked'[r] = locked[r]
  BY <1>1, <1>2 DEF IInv, TypeOK
<1>5. TypeOK'
  <2>1. locked' \in [Root -> Selection \cup {Unlocked}]
    BY <1>1, <1>2, <1>4
  <2> QED BY <1>1, <1>3, <2>1 DEF IInv, TypeOK, runtime
<1>6. HasActive' <=> HasActive
  BY <1>1 DEF HasActive, runtime
<1>7. HasActive => active.root \in Root /\ active.lock \in Selection /\ active.root # j.root
  <2> SUFFICES ASSUME HasActive PROVE active.root # j.root /\ active.root \in Root /\ active.lock \in Selection
    OBVIOUS
  <2>1. active.root \in Root /\ active.lock \in Selection /\ locked[active.root] = active.lock
    BY ActiveType DEF IInv, SelectionInv, ActiveProfile
  <2>2. active.lock # Unlocked
    BY <2>1, RuntimeBounds DEF Selection, Unlocked, RuntimeBounds
  <2> QED BY <1>1, <2>1, <2>2
<1>8. SelectionInv'
  BY <1>1, <1>2, <1>4, <1>6, <1>7 DEF IInv, SelectionInv, runtime
<1>9. IntentInv'
  <2> SUFFICES ASSUME NEW k \in intents, k # j
               PROVE  /\ k.id < nextSelection
                      /\ HasActive => active.lock # k.id
                      /\ \A r \in Root : locked'[r] # k.id
                      /\ \A p \in prepared' : p.id # k.id
                      /\ \A i \in saves : i.lock # k.id
                      /\ \A l \in intents' : k.id = l.id => k = l
    BY <1>1, <1>6 DEF IntentInv, runtime
  <2>1. k.id # j.id
    BY DEF IInv, IntentInv
  <2> QED BY <1>1, <1>3, <1>4, <2>1 DEF IInv, IntentInv
<1>10. PreparedInv'
  <2> SUFFICES ASSUME NEW p \in prepared'
               PROVE  /\ p.id < nextSelection
                      /\ locked'[p.root] = p.id
                      /\ \A s \in Store : p.generation[s] = disk[p.root][s].generation
                      /\ HasActive => active.lock # p.id
                      /\ \A i \in saves : i.lock # p.id
                      /\ \A q \in prepared' : p.id = q.id => p = q
    BY <1>1, <1>6 DEF PreparedInv, runtime
  <2>1. \A q \in prepared : q.id # j.id
    BY DEF IInv, IntentInv
  <2>2. CASE p \in prepared
    <3>1. p.root \in Root /\ p.root # j.root
      <4>1. p.id \in Selection /\ p.root \in Root /\ locked[p.root] = p.id
        BY <2>2 DEF IInv, TypeOK, PreparedInv, PreparedProfile
      <4>2. p.id # Unlocked
        BY <4>1, RuntimeBounds DEF Selection, Unlocked, RuntimeBounds
      <4> QED BY <1>1, <4>1, <4>2
    <3> QED BY <1>1, <1>3, <1>4, <2>1, <2>2, <3>1 DEF IInv, PreparedInv
  <2>3. CASE p = new
    BY <1>1, <1>2, <1>3, <1>4, <2>1, <2>3 DEF IInv, IntentInv
  <2> QED BY <1>1, <2>2, <2>3
<1>11. ActiveInv' /\ SavingInv' /\ CompletionInv' /\ DiskInv'
  BY <1>1, <1>6 DEF IInv, ActiveInv, SavingInv, CompletionInv, DiskInv, runtime
<1>12. SavesInv'
  <2>1. \A i \in saves : i.root \in Root /\ i.lock # j.id
    BY DEF IInv, IntentInv, TypeOK, SaveIntent
  <2>2. \A i \in saves : Dead(i) => Dead(i)'
    BY <1>1, <1>4, <2>1 DEF Dead
  <2>3. \A i \in saves : Current(i) => Current(i)'
    BY <1>1 DEF Current, runtime
  <2> QED BY <1>1, <1>6, <2>2, <2>3 DEF IInv, SavesInv, runtime
<1> QED BY <1>5, <1>8, <1>9, <1>10, <1>11, <1>12 DEF IInv

\* Selections and prepared profiles that are dropped leave the invariant alone.
LEMMA DroppedPreserves ==
    ASSUME IInv,
           \/ \E j \in intents : PrepareFails(j)
           \/ \E p \in prepared : CommitRefused(p)
           \/ \E i \in saves : ExecuteFails(i)
           \/ \E c \in completions : CompleteRefused(c)
    PROVE  IInv'
<1>1. /\ intents' \subseteq intents /\ prepared' \subseteq prepared /\ saves' \subseteq saves
      /\ \A c \in completions' :
            c \in completions \/ (c.ok = FALSE /\ c.intent \in saves /\
                                  c = [intent |-> c.intent, ok |-> FALSE])
      /\ UNCHANGED <<runtime, disk, locked, withdrawn>>
  BY DEF PrepareFails, CommitRefused, ExecuteFails, CompleteRefused
<1>2. TypeOK'
  <2>1. completions' \subseteq [intent : SaveIntent, ok : BOOLEAN]
    <3> SUFFICES ASSUME NEW c \in completions'
                 PROVE  c \in [intent : SaveIntent, ok : BOOLEAN]
      OBVIOUS
    <3>1. CASE c \in completions
      BY <3>1 DEF IInv, TypeOK
    <3>2. CASE c \notin completions
      <4>1. c.intent \in SaveIntent /\ c = [intent |-> c.intent, ok |-> FALSE]
        BY <1>1, <3>2 DEF IInv, TypeOK
      <4>2. [intent |-> c.intent, ok |-> FALSE] \in [intent : SaveIntent, ok : BOOLEAN]
        BY <4>1
      <4> QED BY <4>1, <4>2
    <3> QED BY <3>1, <3>2
  <2> QED BY <1>1, <2>1 DEF IInv, TypeOK, runtime
<1>3. HasActive' <=> HasActive
  BY <1>1 DEF HasActive, runtime
<1>4. SelectionInv' /\ ActiveInv' /\ SavingInv' /\ DiskInv'
  BY <1>1, <1>3 DEF IInv, SelectionInv, ActiveInv, SavingInv, DiskInv, runtime
<1>5. IntentInv' /\ PreparedInv'
  BY <1>1, <1>3 DEF IInv, IntentInv, PreparedInv, runtime
<1>6. SavesInv'
  BY <1>1, <1>3 DEF IInv, SavesInv, Current, Dead, runtime
<1>7. CompletionInv'
  BY <1>1, <1>3 DEF IInv, SavesInv, Current, CompletionInv, runtime
<1> QED BY <1>2, <1>4, <1>5, <1>6, <1>7 DEF IInv

LEMMA ReleaseLockPreserves ==
    ASSUME IInv, NEW r \in Root, ReleaseLock(r) PROVE IInv'
<1>1. /\ locked' = [locked EXCEPT ![r] = Unlocked]
      /\ HasActive => active.lock # locked[r]
      /\ \A p \in prepared : p.id # locked[r]
      /\ UNCHANGED <<runtime, intents, prepared, saves, completions, disk, withdrawn>>
  BY DEF ReleaseLock, HasActive, caller
<1>2. /\ locked \in [Root -> Selection \cup {Unlocked}]
      /\ locked'[r] = Unlocked
      /\ \A q \in Root \ {r} : locked'[q] = locked[q]
  BY <1>1 DEF IInv, TypeOK
<1>3. TypeOK'
  BY <1>1, <1>2 DEF IInv, TypeOK, runtime
<1>4. HasActive' <=> HasActive
  BY <1>1 DEF HasActive, runtime
<1>5. HasActive => active.root \in Root /\ active.root # r
  BY <1>1, ActiveType DEF IInv, SelectionInv, ActiveProfile
<1>6. SelectionInv'
  <2>1. Unlocked < nextSelection
    BY RuntimeBounds DEF IInv, TypeOK, Unlocked, RuntimeBounds
  <2> QED BY <1>1, <1>2, <1>4, <1>5, <2>1 DEF IInv, SelectionInv, runtime
<1>7. IntentInv'
  <2>1. \A j \in intents : j.id # Unlocked
    BY RuntimeBounds DEF IInv, TypeOK, SelectionIntent, Selection, Unlocked, RuntimeBounds
  <2> QED BY <1>1, <1>2, <1>4, <2>1 DEF IInv, IntentInv, runtime
<1>8. PreparedInv'
  <2>1. \A p \in prepared : p.root \in Root /\ p.root # r
    BY <1>1 DEF IInv, TypeOK, PreparedProfile, PreparedInv
  <2> QED BY <1>1, <1>2, <1>4, <2>1 DEF IInv, PreparedInv, runtime
<1>9. ActiveInv' /\ SavingInv' /\ CompletionInv' /\ DiskInv'
  BY <1>1, <1>4 DEF IInv, ActiveInv, SavingInv, CompletionInv, DiskInv, runtime
<1>10. SavesInv'
  <2>1. \A i \in saves : i.root \in Root /\ i.lock # Unlocked
    BY RuntimeBounds DEF IInv, TypeOK, SaveIntent, Selection, Unlocked, RuntimeBounds
  <2>2. \A i \in saves : Dead(i) => Dead(i)'
    BY <1>1, <1>2, <2>1 DEF Dead
  <2>3. \A i \in saves : Current(i) => Current(i)'
    BY <1>1 DEF Current, runtime
  <2> QED BY <1>1, <1>4, <2>2, <2>3 DEF IInv, SavesInv, runtime
<1> QED BY <1>3, <1>6, <1>7, <1>8, <1>9, <1>10 DEF IInv

\* When everything is saved, what is still to be executed cannot take effect.
LEMMA OldSavesDead ==
    ASSUME IInv, HasActive, \A s \in Store : ~Dirty(s),
           NEW i \in saves, i.profile = active.id
    PROVE  Dead(i)
<1>1. /\ i.store \in Store /\ i.root = active.root /\ i.base \in Nat /\ i.revision \in Nat
      /\ active.root \in Root
  BY RuntimeBounds, ActiveType
     DEF IInv, TypeOK, SaveIntent, Revision, SavesInv, Current, ActiveProfile, RuntimeBounds
<1> DEFINE s == i.store
<1>2. /\ generation[s] \in Nat /\ revision[s] \in Nat /\ durable[s] \in Nat
      /\ disk[active.root][s].generation \in Nat
  BY <1>1, RuntimeBounds DEF IInv, TypeOK, Stored, Revision, RuntimeBounds
<1>3. i.base < generation[s]
  BY <1>1, <1>2 DEF IInv, SavesInv, Current, Dirty
<1>4. generation[s] <= disk[active.root][s].generation
  BY <1>1, <1>2 DEF IInv, ActiveInv
<1> QED BY <1>1, <1>2, <1>3, <1>4 DEF Dead

LEMMA CommitPreserves ==
    ASSUME IInv, NEW p \in prepared, Commit(p) PROVE IInv'
<1> DEFINE new == [id |-> nextProfile, root |-> p.root, lock |-> p.id]
<1>1. /\ active' = new /\ nextProfile' = nextProfile + 1 /\ selection' = NoSelection
      /\ generation' = p.generation
      /\ revision' = [s \in Store |-> 0] /\ durable' = [s \in Store |-> 0]
      /\ prepared' = prepared \ {p}
      /\ UNCHANGED <<nextSelection, nextSave, saving, intents, saves, completions,
                     disk, locked, withdrawn>>
  BY DEF Commit
<1>2. selection # NoSelection /\ p.id = selection.id
  BY MatchingIsPending DEF Commit, Acceptable, IInv
<1>3. /\ nextProfile \in Nat \ {0} /\ nextSelection \in Nat /\ nextProfile < nextSelection
      /\ nextProfile \in Selection /\ nextProfile' \in 1 .. MaxSelection + 1
  BY <1>1, <1>2, RuntimeBounds DEF IInv, TypeOK, SelectionInv, Selection, RuntimeBounds
<1>4. p.id \in Selection /\ p.root \in Root /\ p.generation \in [Store -> Nat]
      /\ p.id < nextSelection /\ locked[p.root] = p.id
  BY DEF IInv, TypeOK, PreparedProfile, PreparedInv
<1>5. /\ new \in ActiveProfile /\ new # NoActive
      /\ new.id = nextProfile /\ new.root = p.root /\ new.lock = p.id
  BY <1>3, <1>4, NewActive DEF ActiveProfile
<1> HIDE DEF new
<1>6. HasActive'
  BY <1>1, <1>5 DEF HasActive
<1>7. TypeOK'
  <2>1. 0 \in Revision
    BY RuntimeBounds DEF Revision, RuntimeBounds
  <2> QED BY <1>1, <1>3, <1>4, <1>5, <2>1 DEF IInv, TypeOK
<1>8. SelectionInv'
  BY <1>1, <1>3, <1>4, <1>5 DEF IInv, SelectionInv
<1>9. IntentInv'
  BY <1>1, <1>5 DEF IInv, IntentInv
<1>10. PreparedInv'
  BY <1>1, <1>5 DEF IInv, PreparedInv
<1>11. ActiveInv'
  <2> SUFFICES ASSUME NEW s \in Store
               PROVE  /\ durable'[s] <= revision'[s]
                      /\ disk[p.root][s].generation = generation'[s]
                      /\ durable'[s] = 0
                      /\ disk[p.root][s].profile < nextProfile
    BY <1>1, <1>5 DEF ActiveInv
  <2>1. disk[p.root][s].generation = p.generation[s]
    BY DEF IInv, PreparedInv
  <2>2. disk[p.root][s].profile < nextProfile
    BY <1>4 DEF IInv, DiskInv
  <2> QED BY <1>1, <2>1, <2>2
<1>12. \A s \in Store : saving[s] = NoSave /\ (HasActive => ~Dirty(s))
  BY DEF Commit, Acceptable, Replaceable, HasActive, IInv, SavingInv
<1>13. SavingInv'
  BY <1>1, <1>12 DEF SavingInv
<1>14. SavesInv'
  <2> SUFFICES ASSUME NEW i \in saves
               PROVE  /\ i.profile < nextProfile'
                      /\ i.lock < nextSelection
                      /\ i.profile # new.id
                      /\ Dead(i)'
    BY <1>1, <1>6 DEF SavesInv
  <2>1. i.profile \in Nat /\ i.profile < nextProfile /\ i.lock < nextSelection
    BY RuntimeBounds DEF IInv, SavesInv, TypeOK, SaveIntent, Selection, RuntimeBounds
  <2>2. Dead(i)
    BY <1>12, OldSavesDead DEF IInv, SavesInv
  <2>3. Dead(i)'
    BY <1>1, <2>2 DEF Dead
  <2> QED BY <1>1, <1>3, <1>5, <2>1, <2>3
<1>15. CompletionInv'
  <2>1. \A c \in completions : c.intent.profile \in Nat /\ c.intent.profile < nextProfile
    BY RuntimeBounds DEF IInv, CompletionInv, TypeOK, SaveIntent, Selection, RuntimeBounds
  <2> QED BY <1>1, <1>3, <1>5, <2>1 DEF CompletionInv
<1>16. DiskInv'
  <2>1. \A r \in Root, s \in Store : disk[r][s].profile \in Nat /\ disk[r][s].profile < nextProfile
    BY RuntimeBounds DEF IInv, DiskInv, TypeOK, Stored, RuntimeBounds
  <2> QED BY <1>1, <1>3, <2>1 DEF DiskInv
<1> QED BY <1>7, <1>8, <1>9, <1>10, <1>11, <1>13, <1>14, <1>15, <1>16 DEF IInv

-----------------------------------------------------------------------------
(* Saves.                                                                  *)

LEMMA MutatePreserves ==
    ASSUME IInv, NEW s \in Store, Mutate(s) PROVE IInv'
<1>1. /\ HasActive
      /\ revision' = [revision EXCEPT ![s] = @ + 1]
      /\ UNCHANGED <<nextProfile, nextSelection, nextSave, active, generation, durable,
                     selection, saving, intents, prepared, saves, completions, disk, locked,
                     withdrawn>>
  BY DEF Mutate, HasActive, caller
<1>2. HasActive' <=> HasActive
  BY <1>1 DEF HasActive
<1>3. revision \in [Store -> Revision] /\ revision' \in [Store -> Revision]
  BY <1>1, RuntimeBounds DEF IInv, TypeOK, Mutate, Revision, RuntimeBounds
<1>4. \A t \in Store : revision[t] \in Nat /\ revision'[t] \in Nat /\ revision[t] <= revision'[t]
  BY <1>1, <1>3, RuntimeBounds DEF Revision, RuntimeBounds
<1>5. TypeOK'
  BY <1>1, <1>3 DEF IInv, TypeOK
<1>6. SelectionInv' /\ IntentInv' /\ PreparedInv' /\ SavingInv' /\ CompletionInv' /\ DiskInv'
  BY <1>1, <1>2 DEF IInv, SelectionInv, IntentInv, PreparedInv, SavingInv, CompletionInv, DiskInv
<1>7. ActiveInv'
  <2> SUFFICES ASSUME NEW t \in Store
               PROVE  LET d == disk[active.root][t]
                      IN  /\ durable[t] <= revision'[t]
                          /\ \/ /\ d.generation = generation[t]
                                /\ durable[t] = 0 => d.profile < active.id
                                /\ durable[t] # 0 => d.profile = active.id /\ d.revision = durable[t]
                             \/ /\ d.generation = generation[t] + 1
                                /\ d.profile = active.id
                                /\ durable[t] < d.revision
                                /\ d.revision <= revision'[t]
    BY <1>1 DEF ActiveInv
  <2>1. active.root \in Root
    BY <1>1, ActiveType DEF IInv, ActiveProfile
  <2>2. durable[t] \in Nat /\ disk[active.root][t].revision \in Nat
    BY <2>1, RuntimeBounds DEF IInv, TypeOK, Stored, Revision, RuntimeBounds
  <2> QED BY <1>1, <1>4, <2>2 DEF IInv, ActiveInv
<1>8. SavesInv'
  <2>1. \A i \in saves : Current(i) => Current(i)'
    <3> SUFFICES ASSUME NEW i \in saves, Current(i) PROVE Current(i)'
      OBVIOUS
    <3>1. i.store \in Store /\ i.revision \in Nat
      BY RuntimeBounds DEF IInv, TypeOK, SaveIntent, Revision, RuntimeBounds
    <3> QED BY <1>1, <1>4, <3>1 DEF Current
  <2>2. \A i \in saves : Dead(i) => Dead(i)'
    BY <1>1 DEF Dead
  <2> QED BY <1>1, <1>2, <2>1, <2>2 DEF IInv, SavesInv
<1> QED BY <1>5, <1>6, <1>7, <1>8 DEF IInv

LEMMA BeginSavePreserves ==
    ASSUME IInv, NEW s \in Store, BeginSave(s) PROVE IInv'
<1> DEFINE begun == [id |-> nextSave[s], profile |-> active.id,
                       base |-> generation[s], revision |-> revision[s]]
           new == [id |-> nextSave[s], store |-> s, profile |-> active.id,
                   root |-> active.root, lock |-> active.lock,
                   base |-> generation[s], revision |-> revision[s]]
<1>1. /\ HasActive /\ Dirty(s) /\ nextSave[s] <= MaxSave
      /\ nextSave' = [nextSave EXCEPT ![s] = @ + 1]
      /\ saving' = [saving EXCEPT ![s] = begun]
      /\ saves' = saves \cup {new}
      /\ UNCHANGED <<nextProfile, nextSelection, active, generation, revision, durable,
                     selection, intents, prepared, completions, disk, locked, withdrawn>>
  BY DEF BeginSave, HasActive
<1>2. active \in ActiveProfile
  BY <1>1, ActiveType DEF IInv
<1>3. nextSave[s] \in 1 .. MaxSave /\ nextSave' \in [Store -> 1 .. MaxSave + 1]
  BY <1>1, RuntimeBounds DEF IInv, TypeOK, RuntimeBounds
<1>4. begun \in PendingSave /\ new \in SaveIntent
  BY <1>2, <1>3 DEF IInv, TypeOK, PendingSave, SaveIntent, ActiveProfile
<1>5. /\ begun.profile = active.id /\ begun.base = generation[s]
      /\ new.store = s /\ new.profile = active.id /\ new.root = active.root
      /\ new.lock = active.lock /\ new.base = generation[s] /\ new.revision = revision[s]
  OBVIOUS
<1> HIDE DEF begun, new
<1>6. TypeOK'
  BY <1>1, <1>3, <1>4 DEF IInv, TypeOK
<1>7. HasActive' <=> HasActive
  BY <1>1 DEF HasActive
<1>8. SelectionInv' /\ ActiveInv' /\ CompletionInv' /\ DiskInv'
  BY <1>1, <1>7 DEF IInv, SelectionInv, ActiveInv, CompletionInv, DiskInv
<1>9. IntentInv'
  BY <1>1, <1>5, <1>7 DEF IInv, IntentInv
<1>10. PreparedInv'
  BY <1>1, <1>5, <1>7 DEF IInv, PreparedInv
<1>11. SavingInv'
  BY <1>1, <1>5, <1>7 DEF IInv, SavingInv, TypeOK
<1>12. SavesInv'
  <2>1. durable[s] < revision[s] /\ generation[s] <= generation[s] /\ revision[s] <= revision[s]
    <3>1. durable[s] \in Nat /\ revision[s] \in Nat /\ generation[s] \in Nat
      BY RuntimeBounds DEF IInv, TypeOK, Revision, RuntimeBounds
    <3> QED BY <1>1, <3>1 DEF IInv, ActiveInv, Dirty
  <2>2. Current(new)
    BY <1>5, <2>1 DEF Current
  <2>3. \A i \in saves' : Current(i) => Current(i)'
    BY <1>1 DEF Current
  <2>4. \A i \in saves : Dead(i) => Dead(i)'
    BY <1>1 DEF Dead
  <2>5. new.profile < nextProfile /\ new.lock < nextSelection
    BY <1>1, <1>5 DEF IInv, SelectionInv
  <2> QED BY <1>1, <1>5, <1>7, <2>2, <2>3, <2>4, <2>5 DEF IInv, SavesInv
<1> QED BY <1>6, <1>8, <1>9, <1>10, <1>11, <1>12 DEF IInv

LEMMA CancelSavePreserves ==
    ASSUME IInv, NEW s \in Store, NEW id \in 1 .. MaxSave, CancelSave(s, id) PROVE IInv'
<1>1. /\ saving' = [saving EXCEPT ![s] = NoSave]
      /\ UNCHANGED <<nextProfile, nextSelection, nextSave, active, generation, revision,
                     durable, selection, intents, prepared, saves, completions, disk, locked,
                     withdrawn>>
  BY DEF CancelSave, caller
<1>2. HasActive' <=> HasActive
  BY <1>1 DEF HasActive
<1>3. TypeOK' /\ SavingInv'
  BY <1>1, <1>2 DEF IInv, TypeOK, SavingInv
<1>4. SelectionInv' /\ IntentInv' /\ PreparedInv' /\ ActiveInv' /\ CompletionInv' /\ DiskInv'
  BY <1>1, <1>2 DEF IInv, SelectionInv, IntentInv, PreparedInv, ActiveInv, CompletionInv, DiskInv
<1>5. SavesInv'
  BY <1>1, <1>2 DEF IInv, SavesInv, Current, Dead
<1> QED BY <1>3, <1>4, <1>5 DEF IInv

\* Only a save of the active profile that started from the present generation
\* can be executed, and it brings something new.
LEMMA ExecutableIsCurrent ==
    ASSUME IInv, NEW i \in saves, Executable(i)
    PROVE  /\ HasActive /\ i.profile = active.id
           /\ i.lock = active.lock /\ i.root = active.root
           /\ i.base = generation[i.store]
           /\ durable[i.store] < i.revision /\ i.revision <= revision[i.store]
           /\ disk[active.root][i.store].generation = generation[i.store]
           /\ durable[i.store] = 0 => disk[active.root][i.store].profile < active.id
           /\ durable[i.store] # 0 => /\ disk[active.root][i.store].profile = active.id
                                      /\ disk[active.root][i.store].revision = durable[i.store]
<1>1. i.store \in Store /\ i.root \in Root /\ i.base \in Nat
  BY DEF IInv, TypeOK, SaveIntent
<1>2. ~Dead(i)
  BY <1>1 DEF Executable, Dead, IInv, TypeOK
<1>3. HasActive /\ i.profile = active.id /\ Current(i)
  BY <1>2 DEF IInv, SavesInv
<1>4. generation[i.store] \in Nat
  BY <1>1 DEF IInv, TypeOK
<1>5. i.base <= generation[i.store] /\ disk[active.root][i.store].generation = i.base
  BY <1>3 DEF Current, Executable
<1>6. i.base = generation[i.store]
  BY <1>1, <1>3, <1>4, <1>5 DEF IInv, ActiveInv
<1>7. disk[active.root][i.store].generation # generation[i.store] + 1
  BY <1>4, <1>5, <1>6
<1> QED BY <1>1, <1>3, <1>5, <1>6, <1>7 DEF Current, IInv, ActiveInv

LEMMA ExecutePreserves ==
    ASSUME IInv, NEW i \in saves, Execute(i) PROVE IInv'
<1> DEFINE new == [generation |-> i.base + 1, profile |-> i.profile, revision |-> i.revision]
           done == [intent |-> i, ok |-> TRUE]
<1>1. /\ Executable(i)
      /\ disk' = [disk EXCEPT ![i.root][i.store] = new]
      /\ saves' = saves \ {i}
      /\ completions' = completions \cup {done}
      /\ UNCHANGED <<runtime, intents, prepared, locked, withdrawn>>
  BY DEF Execute
<1>2. /\ i \in SaveIntent /\ i.store \in Store /\ i.root \in Root /\ i.base \in Nat
      /\ i.profile \in Selection /\ i.revision \in Revision /\ i.lock \in Selection
      /\ i.profile < nextProfile
  BY DEF IInv, TypeOK, SaveIntent, SavesInv
<1>3. /\ HasActive /\ i.profile = active.id
      /\ i.lock = active.lock /\ i.root = active.root
      /\ i.base = generation[i.store]
      /\ durable[i.store] < i.revision /\ i.revision <= revision[i.store]
      /\ disk[active.root][i.store].generation = generation[i.store]
  BY <1>1, ExecutableIsCurrent
<1>4. /\ new \in Stored /\ new.generation = i.base + 1 /\ new.profile = i.profile
      /\ new.revision = i.revision
      /\ done \in [intent : SaveIntent, ok : BOOLEAN] /\ done.intent = i /\ done.ok
  <2>1. i.profile \in 0 .. MaxSelection
    BY <1>2, RuntimeBounds DEF Selection, RuntimeBounds
  <2> QED BY <1>2, <2>1 DEF Stored
<1> HIDE DEF new, done
<1>5. /\ disk \in [Root -> [Store -> Stored]]
      /\ disk' \in [Root -> [Store -> Stored]]
      /\ disk'[i.root][i.store] = new
      /\ \A r \in Root, s \in Store :
            r # i.root \/ s # i.store => disk'[r][s] = disk[r][s]
  BY <1>1, <1>2, <1>4 DEF IInv, TypeOK
<1>6. TypeOK'
  BY <1>1, <1>4, <1>5 DEF IInv, TypeOK, runtime
<1>7. HasActive' <=> HasActive
  BY <1>1 DEF HasActive, runtime
<1>8. SelectionInv' /\ IntentInv' /\ SavingInv'
  BY <1>1, <1>7 DEF IInv, SelectionInv, IntentInv, SavingInv, runtime
<1>9. PreparedInv'
  <2>1. \A p \in prepared : p.root \in Root /\ p.root # i.root
    BY <1>1, <1>2 DEF Executable, IInv, PreparedInv, TypeOK, PreparedProfile
  <2> QED BY <1>1, <1>5, <1>7, <2>1 DEF IInv, PreparedInv, runtime
<1>10. ActiveInv'
  <2> SUFFICES ASSUME NEW s \in Store
               PROVE  LET d == disk'[active.root][s]
                      IN  /\ durable[s] <= revision[s]
                          /\ \/ /\ d.generation = generation[s]
                                /\ durable[s] = 0 => d.profile < active.id
                                /\ durable[s] # 0 => d.profile = active.id /\ d.revision = durable[s]
                             \/ /\ d.generation = generation[s] + 1
                                /\ d.profile = active.id
                                /\ durable[s] < d.revision
                                /\ d.revision <= revision[s]
    BY <1>1 DEF ActiveInv, runtime
  <2>1. CASE s = i.store
    BY <1>3, <1>4, <1>5, <2>1 DEF IInv, ActiveInv
  <2>2. CASE s # i.store
    BY <1>2, <1>3, <1>5, <2>2 DEF IInv, ActiveInv
  <2> QED BY <2>1, <2>2
<1>11. SavesInv'
  <2>1. \A k \in saves : Current(k) => Current(k)'
    BY <1>1 DEF Current, runtime
  <2>2. \A k \in saves : Dead(k) => Dead(k)'
    <3> SUFFICES ASSUME NEW k \in saves, Dead(k) PROVE Dead(k)'
      OBVIOUS
    <3>1. k.root \in Root /\ k.store \in Store /\ k.base \in Nat
      BY DEF IInv, TypeOK, SaveIntent
    <3>2. CASE k.root = i.root /\ k.store = i.store
      BY <1>1, <1>2, <1>3, <1>4, <1>5, <3>1, <3>2 DEF Dead
    <3>3. CASE ~(k.root = i.root /\ k.store = i.store)
      BY <1>1, <1>5, <3>1, <3>3 DEF Dead
    <3> QED BY <3>2, <3>3
  <2> QED BY <1>1, <1>7, <2>1, <2>2 DEF IInv, SavesInv, runtime
<1>12. CompletionInv'
  <2> SUFFICES ASSUME NEW c \in completions'
               PROVE  /\ c.intent.profile < nextProfile
                      /\ c.intent.profile = active.id =>
                           c.intent.base <= generation[c.intent.store] /\ c.intent.root = active.root
                      /\ c.ok /\ c.intent.profile = active.id
                         /\ c.intent.base = generation[c.intent.store] =>
                             /\ disk'[active.root][c.intent.store].generation = c.intent.base + 1
                             /\ disk'[active.root][c.intent.store].revision = c.intent.revision
    BY <1>1 DEF CompletionInv, runtime
  <2>1. CASE c \in completions
    <3>1. /\ c.intent.store \in Store /\ c.intent.base \in Nat
      BY <2>1 DEF IInv, TypeOK, SaveIntent
    <3>2. c.ok /\ c.intent.profile = active.id /\ c.intent.base = generation[c.intent.store]
            => c.intent.store # i.store
      BY <1>2, <1>3, <2>1, <3>1 DEF IInv, CompletionInv
    <3> QED BY <1>2, <1>3, <1>5, <2>1, <3>1, <3>2 DEF IInv, CompletionInv
  <2>2. CASE c = done
    BY <1>2, <1>3, <1>4, <1>5, <2>2
  <2> QED BY <1>1, <2>1, <2>2
<1>13. DiskInv'
  BY <1>1, <1>2, <1>4, <1>5 DEF IInv, DiskInv, runtime
<1> QED BY <1>6, <1>8, <1>9, <1>10, <1>11, <1>12, <1>13 DEF IInv

LEMMA CompletePreserves ==
    ASSUME IInv, NEW c \in completions, Complete(c) PROVE IInv'
<1> DEFINE i == c.intent
           s == i.store
<1>1. /\ Expected(c)
      /\ completions' = completions \ {c}
      /\ saving' = [saving EXCEPT ![s] = NoSave]
      /\ IF c.ok /\ Advances(i)
         THEN /\ generation' = [generation EXCEPT ![s] = i.base + 1]
              /\ durable' = [durable EXCEPT ![s] = i.revision]
         ELSE UNCHANGED <<generation, durable>>
      /\ UNCHANGED <<nextProfile, nextSelection, nextSave, active, revision, selection,
                     intents, prepared, saves, disk, locked, withdrawn>>
  BY DEF Complete
<1>2. /\ i \in SaveIntent /\ s \in Store /\ i.base \in Nat /\ i.revision \in Revision
      /\ i.revision \in Nat /\ generation[s] \in Nat /\ durable[s] \in Nat
  BY RuntimeBounds DEF IInv, TypeOK, SaveIntent, Revision, RuntimeBounds
<1>3. HasActive /\ i.profile = active.id /\ i.root = active.root /\ active.root \in Root
  BY <1>1, ActiveType DEF Expected, HasActive, IInv, ActiveProfile
<1>4. TypeOK'
  BY <1>1, <1>2 DEF IInv, TypeOK
<1>5. HasActive' <=> HasActive
  BY <1>1 DEF HasActive
<1>6. SelectionInv' /\ IntentInv' /\ PreparedInv' /\ DiskInv'
  BY <1>1, <1>5 DEF IInv, SelectionInv, IntentInv, PreparedInv, DiskInv
<1>7. CASE c.ok /\ Advances(i)
  <2>1. /\ generation[s] = i.base
        /\ generation'[s] = i.base + 1 /\ durable'[s] = i.revision
        /\ \A t \in Store \ {s} : generation'[t] = generation[t] /\ durable'[t] = durable[t]
        /\ disk[active.root][s].generation = i.base + 1
        /\ disk[active.root][s].revision = i.revision
    BY <1>1, <1>2, <1>3, <1>7 DEF Advances, IInv, TypeOK, CompletionInv
  <2>2. /\ disk[active.root][s].profile = active.id
        /\ durable[s] < i.revision /\ i.revision <= revision[s]
    BY <1>2, <1>3, <2>1 DEF IInv, ActiveInv
  <2>3. ActiveInv'
    <3> SUFFICES ASSUME NEW t \in Store
                 PROVE  LET d == disk[active.root][t]
                        IN  /\ durable'[t] <= revision[t]
                            /\ \/ /\ d.generation = generation'[t]
                                  /\ durable'[t] = 0 => d.profile < active.id
                                  /\ durable'[t] # 0 =>
                                       d.profile = active.id /\ d.revision = durable'[t]
                               \/ /\ d.generation = generation'[t] + 1
                                  /\ d.profile = active.id
                                  /\ durable'[t] < d.revision
                                  /\ d.revision <= revision[t]
      BY <1>1 DEF ActiveInv
    <3>1. CASE t = s
      BY <1>2, <2>1, <2>2, <3>1
    <3>2. CASE t # s
      BY <1>3, <2>1, <3>2 DEF IInv, ActiveInv
    <3> QED BY <3>1, <3>2
  <2>4. SavingInv'
    BY <1>1, <1>5, <2>1 DEF IInv, SavingInv, TypeOK
  <2>5. SavesInv'
    <3>1. \A k \in saves : Current(k) => Current(k)'
      <4> SUFFICES ASSUME NEW k \in saves, Current(k)
                   PROVE  /\ k.base <= generation'[k.store]
                          /\ k.base = generation'[k.store] => durable'[k.store] < k.revision
        BY <1>1 DEF Current
      <4>1. k.store \in Store /\ k.base \in Nat
        BY DEF IInv, TypeOK, SaveIntent
      <4> QED BY <1>2, <2>1, <4>1 DEF Current
    <3>2. \A k \in saves : Dead(k) => Dead(k)'
      BY <1>1 DEF Dead
    <3> QED BY <1>1, <1>5, <3>1, <3>2 DEF IInv, SavesInv
  <2>6. CompletionInv'
    <3> SUFFICES ASSUME NEW k \in completions
                 PROVE  /\ k.intent.profile < nextProfile
                        /\ k.intent.profile = active.id =>
                             /\ k.intent.base <= generation'[k.intent.store]
                             /\ k.intent.root = active.root
                        /\ k.ok /\ k.intent.profile = active.id
                           /\ k.intent.base = generation'[k.intent.store] =>
                               /\ disk[active.root][k.intent.store].generation = k.intent.base + 1
                               /\ disk[active.root][k.intent.store].revision = k.intent.revision
      BY <1>1 DEF CompletionInv
    <3>1. k.intent.store \in Store /\ k.intent.base \in Nat
      BY DEF IInv, TypeOK, SaveIntent
    <3>2. k.intent.profile = active.id => k.intent.base <= generation[k.intent.store]
      BY <1>3 DEF IInv, CompletionInv
    <3>3. CASE k.intent.store = s
      BY <1>2, <1>3, <2>1, <3>1, <3>2, <3>3 DEF IInv, CompletionInv
    <3>4. CASE k.intent.store # s
      BY <1>3, <2>1, <3>1, <3>4 DEF IInv, CompletionInv
    <3> QED BY <3>3, <3>4
  <2> QED BY <1>4, <1>6, <2>3, <2>4, <2>5, <2>6 DEF IInv
<1>8. CASE ~(c.ok /\ Advances(i))
  <2>1. UNCHANGED <<generation, durable>>
    BY <1>1, <1>8
  <2>2. ActiveInv'
    BY <1>1, <1>5, <2>1 DEF IInv, ActiveInv
  <2>3. SavingInv'
    BY <1>1, <1>5, <2>1 DEF IInv, SavingInv, TypeOK
  <2>4. SavesInv'
    BY <1>1, <1>5, <2>1 DEF IInv, SavesInv, Current, Dead
  <2>5. CompletionInv'
    BY <1>1, <1>5, <2>1 DEF IInv, CompletionInv
  <2> QED BY <1>4, <1>6, <2>2, <2>3, <2>4, <2>5 DEF IInv
<1> QED BY <1>7, <1>8

LEMMA NextInductive == IInv /\ [Next]_vars => IInv'
<1>1. IInv /\ UNCHANGED vars => IInv'
  <2> SUFFICES ASSUME IInv, UNCHANGED vars PROVE IInv'
    OBVIOUS
  <2> USE DEF vars, runtime, caller
  <2>1. TypeOK'
    BY DEF IInv, TypeOK
  <2>2. SelectionInv' /\ IntentInv' /\ PreparedInv'
    BY DEF IInv, SelectionInv, IntentInv, PreparedInv, HasActive
  <2>3. ActiveInv' /\ SavingInv' /\ CompletionInv' /\ DiskInv'
    BY DEF IInv, ActiveInv, SavingInv, CompletionInv, DiskInv, HasActive
  <2>4. SavesInv'
    BY DEF IInv, SavesInv, Current, Dead, HasActive
  <2> QED BY <2>1, <2>2, <2>3, <2>4 DEF IInv
<1>2. ASSUME IInv, Next PROVE IInv'
  BY <1>2, BeginSelectionPreserves, CancelSelectionPreserves, PreparePreserves,
     DroppedPreserves, ReleaseLockPreserves, CommitPreserves, MutatePreserves,
     BeginSavePreserves, CancelSavePreserves, ExecutePreserves, CompletePreserves
     DEF Next
<1> QED BY <1>1, <1>2

-----------------------------------------------------------------------------
(* The theorems.                                                           *)

\* Every reachable state of the runtime satisfies its inductive invariant.
THEOREM Invariance == Spec => []IInv
BY InitInductive, NextInductive, PTL DEF Spec

\* Every variable keeps its type, identifiers included.
THEOREM TypeCorrect == Spec => []TypeOK
BY Invariance, PTL DEF IInv

\* What the runtime takes for saved is on disk and belongs to the active profile.
THEOREM DurableSaved == Spec => []DurableIsOnDisk
<1>1. IInv => DurableIsOnDisk
  <2> SUFFICES ASSUME IInv, HasActive, NEW s \in Store, durable[s] # 0
               PROVE  /\ disk[active.root][s].profile = active.id
                      /\ disk[active.root][s].revision >= durable[s]
    BY DEF DurableIsOnDisk, HasActive
  <2>1. active.root \in Root
    BY ActiveType DEF IInv, ActiveProfile
  <2>2. durable[s] \in Nat /\ disk[active.root][s].revision \in Nat
    BY <2>1, RuntimeBounds DEF IInv, TypeOK, Stored, Revision, RuntimeBounds
  <2> QED BY <2>2 DEF IInv, ActiveInv
<1> QED BY <1>1, Invariance, PTL

\* A replaced profile has every one of its mutations on disk.
THEOREM ReplacementSaves == Spec => ReplacedIsSaved
<1>1. IInv /\ [Next]_vars =>
        [active # NoActive /\ active' # active =>
           \A s \in Store :
               revision[s] # 0 =>
                   /\ disk[active.root][s].profile = active.id
                   /\ disk[active.root][s].revision = revision[s]]_vars
  <2> SUFFICES ASSUME IInv, Next, HasActive, active' # active, NEW s \in Store, revision[s] # 0
               PROVE  /\ disk[active.root][s].profile = active.id
                      /\ disk[active.root][s].revision = revision[s]
    BY DEF HasActive, vars, runtime
  <2>1. PICK p \in prepared : Commit(p)
    BY DEF Next, BeginSelection, ReleaseLock, CancelSelection, Prepare, PrepareFails,
           CommitRefused, Mutate, BeginSave, CancelSave, Execute, ExecuteFails, Complete,
           CompleteRefused, runtime
  <2>2. durable[s] = revision[s]
    BY <2>1 DEF Commit, Acceptable, Replaceable, Dirty, HasActive
  <2>3. active.root \in Root
    BY ActiveType DEF IInv, ActiveProfile
  <2>4. revision[s] \in Nat /\ disk[active.root][s].revision \in Nat
    BY <2>3, RuntimeBounds DEF IInv, TypeOK, Stored, Revision, RuntimeBounds
  <2> QED BY <2>2, <2>4 DEF IInv, ActiveInv
<1> QED BY <1>1, Invariance, PTL DEF Spec, ReplacedIsSaved

\* No save, however late, replaces newer content on disk.
THEOREM LateSavesHarmless == Spec => DiskMovesForward
<1>1. IInv /\ [Next]_vars =>
        [\A r \in Root, s \in Store :
           LET old == disk[r][s]  new == disk'[r][s]
           IN  \/ new = old
               \/ new.profile > old.profile
               \/ new.profile = old.profile /\ new.revision > old.revision]_vars
  <2> SUFFICES ASSUME IInv, Next, NEW r \in Root, NEW s \in Store, disk'[r][s] # disk[r][s]
               PROVE  \/ disk'[r][s].profile > disk[r][s].profile
                      \/ /\ disk'[r][s].profile = disk[r][s].profile
                         /\ disk'[r][s].revision > disk[r][s].revision
    OBVIOUS
  <2>1. PICK i \in saves : Execute(i)
    BY DEF Next, BeginSelection, ReleaseLock, CancelSelection, Prepare, PrepareFails, Commit,
           CommitRefused, Mutate, BeginSave, CancelSave, ExecuteFails, Complete, CompleteRefused
  <2>2. i.root \in Root /\ i.store \in Store /\ i.profile \in Nat /\ i.revision \in Nat
    BY RuntimeBounds DEF IInv, TypeOK, SaveIntent, Selection, Revision, RuntimeBounds
  <2>3. r = i.root /\ s = i.store
    BY <2>1, <2>2 DEF Execute, IInv, TypeOK
  <2>4. disk'[r][s].profile = i.profile /\ disk'[r][s].revision = i.revision
    BY <2>1, <2>2, <2>3 DEF Execute, IInv, TypeOK
  <2>5. /\ i.profile = active.id /\ r = active.root /\ durable[s] < i.revision
        /\ durable[s] = 0 => disk[r][s].profile < active.id
        /\ durable[s] # 0 => disk[r][s].profile = active.id /\ disk[r][s].revision = durable[s]
    BY <2>1, <2>3, ExecutableIsCurrent DEF Execute
  <2>6. durable[s] \in Nat /\ disk[r][s].profile \in Nat /\ disk[r][s].revision \in Nat
    BY RuntimeBounds DEF IInv, TypeOK, Stored, Revision, RuntimeBounds
  <2> QED BY <2>2, <2>4, <2>5, <2>6
<1> QED BY <1>1, Invariance, PTL DEF Spec, DiskMovesForward

\* A superseded or cancelled selection never becomes the active profile.
THEOREM NewestWins == Spec => NewestSelectionWins
<1>1. IInv /\ [Next]_vars =>
        [active' # active =>
           active'.lock = nextSelection - 1 /\ active'.lock \notin withdrawn]_vars
  <2> SUFFICES ASSUME IInv, Next, active' # active
               PROVE  active'.lock = nextSelection - 1 /\ active'.lock \notin withdrawn
    BY DEF vars, runtime
  <2>1. PICK p \in prepared : Commit(p)
    BY DEF Next, BeginSelection, ReleaseLock, CancelSelection, Prepare, PrepareFails,
           CommitRefused, Mutate, BeginSave, CancelSave, Execute, ExecuteFails, Complete,
           CompleteRefused, runtime
  <2>2. selection # NoSelection /\ p.id = selection.id
    BY <2>1, MatchingIsPending DEF Commit, Acceptable, IInv
  <2>3. active'.lock = p.id
    BY <2>1 DEF Commit
  <2> QED BY <2>2, <2>3 DEF IInv, SelectionInv
<1> QED BY <1>1, Invariance, PTL DEF Spec, NewestSelectionWins

-----------------------------------------------------------------------------
(* The scheduler.                                                          *)

\* What a window looks like: both ends or neither, in the scheduler's time,
\* and only for the profile it tracks.
WindowShape ==
    /\ firstDirty = None <=> lastMutation = None
    /\ firstDirty # None =>
           /\ profile = activeProfile
           /\ lastNow # None
           /\ firstDirty <= lastMutation
           /\ lastMutation <= lastNow

\* What the scheduler remembers of the profile it tracks.
Tracking ==
    /\ profile <= activeProfile
    /\ profile = activeProfile => lastNow # None /\ observed <= storeRevision

\* A pending save is one this scheduler began; the mutations it has seen since
\* have opened a window.
PendingObserved ==
    pending # None =>
        /\ profile = activeProfile
        /\ pending <= observed
        /\ storeRevision = observed /\ pending < storeRevision => firstDirty # None

\* The inductive invariant.
SchedulerInv ==
    /\ SchedulerTypeOK
    /\ RevisionsOrdered
    /\ WindowTracksUncovered
    /\ WindowShape
    /\ Tracking
    /\ PendingObserved

-----------------------------------------------------------------------------
(* The deadline, by cases of the window.                                   *)

LEMMA NoneIsNoTime == None = -1 /\ Awake = -2 /\ None \notin Millis /\ Millis \subseteq Nat
BY BoundsAssumption DEF None, Awake, Millis, BoundsAssumption

\* The deadline of an open window lies within the maximum dirty age, and after
\* every reading of the scheduler's time at which no save was due.
LEMMA DueOfOpenWindow ==
    ASSUME NEW f \in Nat, NEW l \in Nat, NEW n \in Nat,
           n - l < Debounce, n - f < MaxDirty
    PROVE  /\ NextDue(f, l) \in Nat
           /\ NextDue(f, l) <= f + MaxDirty
           /\ n < NextDue(f, l)
BY PolicyAssumption DEF PolicyAssumption, NextDue, None

\* The deadline of a closed window.
LEMMA DueOfClosedWindow == NextDue(None, None) = None
BY DEF NextDue, None

-----------------------------------------------------------------------------
LEMMA SchedulerInitInductive == SchedulerInit => SchedulerInv
<1> SUFFICES ASSUME SchedulerInit PROVE SchedulerInv
  OBVIOUS
<1>1. SchedulerTypeOK
  <2>1. others \in BOOLEAN
    BY DEF SchedulerInit
  <2>2. alarm \in Int
    BY DEF SchedulerInit, Awake
  <2>3. /\ 0 \in 0 .. MaxProfile /\ 0 \in 0 .. MaxStoreRevision /\ 1 \in 1 .. MaxProfile
    BY BoundsAssumption DEF BoundsAssumption
  <2> QED BY <2>1, <2>2, <2>3 DEF SchedulerInit, SchedulerTypeOK
<1>2. RevisionsOrdered /\ WindowTracksUncovered /\ WindowShape
  BY DEF SchedulerInit, RevisionsOrdered, WindowTracksUncovered, WindowShape
<1>3. Tracking /\ PendingObserved
  BY DEF SchedulerInit, Tracking, PendingObserved
<1> QED BY <1>1, <1>2, <1>3 DEF SchedulerInv

\* What a poll has seen before it decides, in every state of the invariant.
LEMMA SeenWindow ==
    ASSUME SchedulerInv, Unsaved # 0
    PROVE  /\ Now \in Millis
           /\ lastNow # None /\ profile = activeProfile => lastNow <= Now
           /\ SeenFirst \in Millis \cup {None}
           /\ SeenLast \in Millis \cup {None}
           /\ SeenFirst = None <=> SeenLast = None
           /\ SeenFirst # None => SeenFirst <= SeenLast /\ SeenLast <= Now
           /\ pending = None => SeenFirst # None
           /\ pending = None => SeenFirst = IF oldest = None THEN Now ELSE oldest
           /\ pending # None =>
                SeenFirst = IF ~Uncovered THEN None
                            ELSE IF oldest = None THEN Now ELSE oldest
<1>1. Now \in Millis /\ (lastNow # None /\ profile = activeProfile => lastNow <= Now)
  BY NoneIsNoTime DEF SchedulerInv, SchedulerTypeOK, Now, TimeRegressed, ProfileChanged, Millis
<1>2. CASE ProfileChanged
  <2>1. pending = None /\ firstDirty = None /\ oldest = None
    BY <1>2 DEF ProfileChanged, SchedulerInv, PendingObserved, WindowShape, WindowTracksUncovered
  <2>2. SeenFirst = Now /\ SeenLast = Now
    BY <1>2 DEF SeenFirst, SeenLast
  <2> QED BY <1>1, <2>1, <2>2, NoneIsNoTime
<1>3. CASE ~ProfileChanged /\ pending = None
  <2>1. firstDirty = oldest /\ firstDirty \in Millis \cup {None}
        /\ lastMutation \in Millis \cup {None}
    BY DEF SchedulerInv, WindowTracksUncovered, SchedulerTypeOK
  <2>2. SeenFirst = IF firstDirty = None THEN Now ELSE firstDirty
    BY <1>3 DEF SeenFirst
  <2>3. SeenLast = Now \/ (SeenLast = lastMutation /\ firstDirty # None)
    BY <1>3, <2>2, <1>1, NoneIsNoTime DEF SeenLast
  <2>4. firstDirty # None => firstDirty <= lastMutation /\ lastMutation <= Now /\ lastMutation # None
    BY <1>1, <2>1, NoneIsNoTime DEF SchedulerInv, WindowShape, Millis, SchedulerTypeOK
  <2> QED BY <1>1, <1>3, <2>1, <2>2, <2>3, <2>4, NoneIsNoTime DEF Millis
<1>4. CASE ~ProfileChanged /\ pending # None
  <2>1. firstDirty = oldest /\ firstDirty \in Millis \cup {None}
        /\ lastMutation \in Millis \cup {None}
    BY DEF SchedulerInv, WindowTracksUncovered, SchedulerTypeOK
  <2>2. firstDirty # None => firstDirty <= lastMutation /\ lastMutation <= Now /\ lastMutation # None
    BY <1>1, <2>1, NoneIsNoTime DEF SchedulerInv, WindowShape, Millis, SchedulerTypeOK
  <2>3. /\ firstDirty = None => lastMutation = None
        /\ firstDirty # None => Uncovered
        /\ Uncovered <=> pending < storeRevision
        /\ pending <= observed /\ observed <= storeRevision
        /\ pending \in Nat /\ observed \in Nat /\ storeRevision \in Nat
    BY <1>4 DEF SchedulerInv, WindowShape, WindowTracksUncovered, PendingObserved, Tracking, Uncovered,
                SchedulerTypeOK, ProfileChanged
  <2>9. storeRevision = observed /\ pending < storeRevision => firstDirty # None
    BY <1>4 DEF SchedulerInv, PendingObserved
  <2>4. Uncovered <=> (firstDirty # None \/ storeRevision # observed)
    BY <2>3, <2>9
  <2>5. SeenFirst = IF firstDirty = None /\ storeRevision # observed THEN Now ELSE firstDirty
    BY <1>4 DEF SeenFirst
  <2>6. SeenLast = IF storeRevision # observed \/ SeenFirst # firstDirty THEN Now ELSE lastMutation
    BY <1>4 DEF SeenLast
  <2>7. CASE storeRevision # observed
    <3>1. SeenLast = Now /\ Uncovered /\ SeenFirst = IF firstDirty = None THEN Now ELSE firstDirty
      BY <2>4, <2>5, <2>6, <2>7
    <3> QED BY <1>1, <1>4, <2>1, <2>2, <3>1, NoneIsNoTime DEF Millis
  <2>8. CASE storeRevision = observed
    <3>1. SeenLast = lastMutation /\ SeenFirst = firstDirty
      BY <2>5, <2>6, <2>8
    <3>2. Uncovered <=> firstDirty # None
      BY <2>4, <2>8
    <3> QED BY <1>1, <1>4, <2>1, <2>2, <2>3, <3>1, <3>2, NoneIsNoTime DEF Millis
  <2> QED BY <2>7, <2>8
<1> QED BY <1>2, <1>3, <1>4

-----------------------------------------------------------------------------
(* The steps that leave the scheduler alone.                               *)

LEMMA MutateStorePreserves == SchedulerInv /\ MutateStore => SchedulerInv'
<1> SUFFICES ASSUME SchedulerInv, MutateStore PROVE SchedulerInv'
  OBVIOUS
<1> USE DEF SchedulerInv, MutateStore, scheduler
<1>1. SchedulerTypeOK'
  BY BoundsAssumption DEF SchedulerTypeOK, BoundsAssumption, Awake, Millis
<1>2. RevisionsOrdered'
  BY DEF RevisionsOrdered, SchedulerTypeOK
<1>3. Uncovered => Uncovered'
  BY DEF Uncovered, SchedulerTypeOK, RevisionsOrdered, None
<1>4. WindowTracksUncovered'
  BY <1>3 DEF WindowTracksUncovered
<1>5. WindowShape'
  BY DEF WindowShape
<1>6. Tracking'
  BY DEF Tracking, SchedulerTypeOK
<1>7. PendingObserved'
  BY DEF PendingObserved, Tracking, SchedulerTypeOK
<1> QED BY <1>1, <1>2, <1>4, <1>5, <1>6, <1>7

LEMMA SaveEndsPreserves == SchedulerInv /\ (SaveSucceeds \/ SaveFails) => SchedulerInv'
<1> SUFFICES ASSUME SchedulerInv, SaveSucceeds \/ SaveFails PROVE SchedulerInv'
  OBVIOUS
<1> USE DEF SchedulerInv, SaveSucceeds, SaveFails, scheduler
<1>1. SchedulerTypeOK'
  <2>1. alarm' \in Int /\ pending' = None /\ storeDurable' \in 0 .. MaxStoreRevision
    BY DEF SchedulerTypeOK, Awake
  <2> QED BY <2>1 DEF SchedulerTypeOK, Millis
<1>2. RevisionsOrdered'
  BY DEF RevisionsOrdered, SchedulerTypeOK
<1>3. Uncovered => Uncovered'
  BY DEF Uncovered, SchedulerTypeOK, RevisionsOrdered
<1>4. WindowTracksUncovered'
  BY <1>3 DEF WindowTracksUncovered
<1>5. WindowShape'
  BY DEF WindowShape
<1>6. Tracking'
  BY DEF Tracking, SchedulerTypeOK
<1>7. PendingObserved'
  BY DEF PendingObserved
<1> QED BY <1>1, <1>2, <1>4, <1>5, <1>6, <1>7

\* A profile is replaced when all is saved, and then no window is open.
LEMMA ReplacePreserves == SchedulerInv /\ Replace => SchedulerInv'
<1> SUFFICES ASSUME SchedulerInv, Replace PROVE SchedulerInv'
  OBVIOUS
<1> USE DEF SchedulerInv, Replace, scheduler
<1>1. SchedulerTypeOK'
  BY BoundsAssumption DEF SchedulerTypeOK, BoundsAssumption, Awake, Millis
<1>2. RevisionsOrdered' /\ PendingObserved'
  BY DEF RevisionsOrdered, PendingObserved
<1>3. firstDirty = None
  BY DEF WindowTracksUncovered, Uncovered, Unsaved, SchedulerTypeOK
<1>4. WindowTracksUncovered' /\ WindowShape'
  BY <1>3 DEF WindowTracksUncovered, WindowShape
<1>5. Tracking'
  BY DEF Tracking, SchedulerTypeOK
<1> QED BY <1>1, <1>2, <1>4, <1>5

\* Time, sleep and the other commands do not enter the invariant.
LEMMA WaitingPreserves ==
    SchedulerInv /\ (OtherSubmitted \/ OtherCompletes \/ WakeUp \/ Tick \/ StepBack \/ UNCHANGED schedulerVars)
        => SchedulerInv'
<1> SUFFICES ASSUME SchedulerInv,
                    OtherSubmitted \/ OtherCompletes \/ WakeUp \/ Tick \/ StepBack
                        \/ UNCHANGED schedulerVars
             PROVE  SchedulerInv'
  OBVIOUS
<1> USE DEF SchedulerInv, OtherSubmitted, OtherCompletes, WakeUp, Tick, StepBack, scheduler, store, schedulerVars
<1>1. UNCHANGED <<scheduler, store>>
  OBVIOUS
<1>2. clock' \in Millis
  BY BoundsAssumption DEF SchedulerTypeOK, Millis, BoundsAssumption
<1>3. alarm' \in Int
  BY DEF SchedulerTypeOK, Awake
<1>8. others' \in BOOLEAN
  BY DEF SchedulerTypeOK
<1>4. SchedulerTypeOK'
  BY <1>1, <1>2, <1>3, <1>8 DEF SchedulerTypeOK, Millis
<1>5. RevisionsOrdered' /\ Tracking' /\ WindowShape'
  BY <1>1 DEF RevisionsOrdered, Tracking, WindowShape
<1>6. WindowTracksUncovered' /\ PendingObserved'
  BY <1>1 DEF WindowTracksUncovered, PendingObserved, Uncovered
<1> QED BY <1>4, <1>5, <1>6

-----------------------------------------------------------------------------
(* The polls.                                                              *)

\* What every poll leaves behind.
LEMMA ObservePreserves ==
    ASSUME SchedulerInv, Observe, UNCHANGED <<activeProfile, storeRevision, storeDurable, clock, others>>,
           pending' = pending \/ pending' = storeRevision \/ pending' = None,
           alarm' \in Int,
           Window(firstDirty', lastMutation'),
           firstDirty' \in Millis \cup {None}, lastMutation' \in Millis \cup {None},
           oldest' \in Millis \cup {None}
    PROVE  SchedulerTypeOK' /\ Tracking'
<1>1. Now \in Millis
  BY DEF SchedulerInv, SchedulerTypeOK, Now, TimeRegressed, Millis
<1>2. SchedulerTypeOK'
  BY <1>1 DEF SchedulerInv, SchedulerTypeOK, Observe, Millis
<1>3. Tracking'
  BY <1>1, NoneIsNoTime DEF Tracking, Observe, SchedulerInv, SchedulerTypeOK
<1> QED BY <1>2, <1>3

LEMMA PollCleanPreserves == SchedulerInv /\ PollClean => SchedulerInv'
<1> SUFFICES ASSUME SchedulerInv, PollClean PROVE SchedulerInv'
  OBVIOUS
<1> USE DEF PollClean, Window, Age, store
<1>1. firstDirty' = None /\ lastMutation' = None /\ oldest' = None /\ alarm' = None
  BY DueOfClosedWindow
<1>2. SchedulerTypeOK' /\ Tracking'
  BY <1>1, ObservePreserves DEF None
<1>3. pending = None
  BY DEF SchedulerInv, RevisionsOrdered, SchedulerTypeOK, Unsaved
<1>4. RevisionsOrdered' /\ WindowTracksUncovered' /\ WindowShape' /\ PendingObserved'
  BY <1>1, <1>3 DEF SchedulerInv, RevisionsOrdered, WindowTracksUncovered, WindowShape, PendingObserved
<1> QED BY <1>2, <1>4 DEF SchedulerInv

\* The window a poll keeps is in order, and tracks what is uncovered.
LEMMA SeenPreserves ==
    ASSUME SchedulerInv, Observe, Unsaved # 0, Window(SeenFirst, SeenLast), Age(~Uncovered),
           UNCHANGED <<store, clock, others>>, alarm' \in Int
    PROVE  SchedulerInv'
<1> USE DEF Window, store
<1>1. /\ SeenFirst \in Millis \cup {None} /\ SeenLast \in Millis \cup {None}
      /\ SeenFirst = None <=> SeenLast = None
      /\ SeenFirst # None => SeenFirst <= SeenLast /\ SeenLast <= Now
      /\ Now \in Millis
  BY SeenWindow
<1>2. SeenFirst = IF ~Uncovered THEN None ELSE IF oldest = None THEN Now ELSE oldest
  <2>1. pending = None => Uncovered
    BY DEF Uncovered, Unsaved, SchedulerInv, RevisionsOrdered, SchedulerTypeOK
  <2> QED BY <2>1, SeenWindow
<1>3. oldest' = IF ~Uncovered THEN None ELSE IF oldest = None THEN Now ELSE oldest
  BY DEF Age
<1>4. SchedulerTypeOK' /\ Tracking'
  BY <1>1, <1>2, <1>3, ObservePreserves
<1>5. Uncovered' <=> Uncovered
  BY DEF Uncovered
<1>6. WindowTracksUncovered'
  BY <1>2, <1>3, <1>5 DEF WindowTracksUncovered
<1>7. WindowShape'
  BY <1>1, NoneIsNoTime DEF WindowShape, Observe
<1>8. RevisionsOrdered'
  BY DEF RevisionsOrdered, SchedulerInv
<1>9. PendingObserved'
  <2>1. SUFFICES ASSUME pending # None
                 PROVE  /\ pending <= storeRevision
                        /\ pending < storeRevision => SeenFirst # None
    BY DEF PendingObserved, Observe
  <2>2. Uncovered <=> pending < storeRevision
    BY <2>1 DEF Uncovered, SchedulerInv, SchedulerTypeOK
  <2> QED BY <1>1, <1>2, <2>1, <2>2, NoneIsNoTime DEF SchedulerInv, RevisionsOrdered, WindowTracksUncovered, SchedulerTypeOK
<1> QED BY <1>4, <1>6, <1>7, <1>8, <1>9 DEF SchedulerInv

LEMMA PollPendingPreserves == SchedulerInv /\ PollPending => SchedulerInv'
BY SeenPreserves DEF PollPending, None

\* While nothing is due, the window's deadline is still to come.
LEMMA PollEarlyDeadline ==
    ASSUME SchedulerInv, PollEarly
    PROVE  /\ firstDirty' # None
           /\ alarm' \in Nat /\ alarm' <= firstDirty' + MaxDirty
           /\ Now < alarm'
<1> USE DEF PollEarly
<1>1. SeenFirst # None /\ SeenLast # None /\ SeenFirst \in Nat /\ SeenLast \in Nat /\ Now \in Nat
  BY SeenWindow, NoneIsNoTime
<1>2. Now - SeenLast < Debounce /\ Now - SeenFirst < MaxDirty
  BY <1>1, PolicyAssumption DEF ShouldSave, PolicyAssumption
<1>3. alarm' = NextDue(SeenFirst, SeenLast) /\ firstDirty' = SeenFirst
  BY DEF Window
<1> QED BY <1>1, <1>2, <1>3, DueOfOpenWindow

LEMMA PollEarlyPreserves == SchedulerInv /\ PollEarly => SchedulerInv'
<1> SUFFICES ASSUME SchedulerInv, PollEarly PROVE SchedulerInv'
  OBVIOUS
<1>1. Uncovered
  BY DEF PollEarly, Uncovered, Unsaved, SchedulerInv, RevisionsOrdered, SchedulerTypeOK
<1>2. Age(~Uncovered) /\ alarm' \in Int
  BY <1>1, PollEarlyDeadline DEF PollEarly, Age
<1> QED BY <1>2, SeenPreserves DEF PollEarly

LEMMA PollDuePreserves == SchedulerInv /\ (\E flush \in BOOLEAN : PollDue(flush)) => SchedulerInv'
<1> SUFFICES ASSUME SchedulerInv, NEW flush \in BOOLEAN, PollDue(flush) PROVE SchedulerInv'
  OBVIOUS
<1> USE DEF PollDue, Window, Age
<1>1. firstDirty' = None /\ lastMutation' = None /\ oldest' = None
  OBVIOUS
<1>2. alarm' = None
  BY <1>1, DueOfClosedWindow
<1>3. pending' = storeRevision \/ pending' = None
  OBVIOUS
<1>4. SchedulerTypeOK' /\ Tracking'
  BY <1>1, <1>2, <1>3, ObservePreserves DEF None
<1>5. WindowTracksUncovered' /\ WindowShape'
  BY <1>1 DEF WindowTracksUncovered, WindowShape
<1>6. storeDurable < storeRevision
  BY DEF Unsaved, SchedulerInv, RevisionsOrdered, SchedulerTypeOK
<1>7. RevisionsOrdered' /\ PendingObserved'
  BY <1>3, <1>6 DEF RevisionsOrdered, PendingObserved, Observe, SchedulerInv, SchedulerTypeOK
<1> QED BY <1>4, <1>5, <1>7 DEF SchedulerInv

LEMMA SchedulerNextInductive == SchedulerInv /\ [SchedulerNext]_schedulerVars => SchedulerInv'
BY MutateStorePreserves, SaveEndsPreserves, ReplacePreserves, WaitingPreserves,
   PollCleanPreserves, PollPendingPreserves, PollEarlyPreserves, PollDuePreserves
   DEF SchedulerNext, Poll

-----------------------------------------------------------------------------
(* The theorems.                                                           *)

\* Every reachable state of the scheduler satisfies its inductive invariant.
THEOREM SchedulerInvariance == SchedulerSpec => []SchedulerInv
BY SchedulerInitInductive, SchedulerNextInductive, PTL DEF SchedulerSpec

\* The runtime's subtraction of revisions never fails, and every pending save
\* holds something new.
THEOREM Ordered == SchedulerSpec => []RevisionsOrdered
BY SchedulerInvariance, PTL DEF SchedulerInv

\* The dirty window begins exactly where mutations that no save covers began to
\* wait, and closes when there are none.
THEOREM WindowIsExact == SchedulerSpec => []WindowTracksUncovered
BY SchedulerInvariance, PTL DEF SchedulerInv

\* The loop never goes to sleep for good, nor past the maximum dirty age, while
\* unsaved mutations wait and no completion is to come.
THEOREM DeadlineHolds == SchedulerSpec => []DeadlineWhileUnsaved
<1>1. SchedulerInit => DeadlineWhileUnsaved
  BY DEF SchedulerInit, DeadlineWhileUnsaved
<1>2. SchedulerInv /\ SchedulerInv' /\ DeadlineWhileUnsaved /\ [SchedulerNext]_schedulerVars => DeadlineWhileUnsaved'
  <2> SUFFICES ASSUME SchedulerInv, SchedulerInv', DeadlineWhileUnsaved, [SchedulerNext]_schedulerVars,
                      alarm' # Awake, Unsaved' # 0, pending' = None, ~others'
               PROVE  oldest' # None /\ alarm' \in Nat /\ alarm' <= oldest' + MaxDirty
    BY DEF DeadlineWhileUnsaved
  <2>1. CASE PollEarly
    BY <2>1, PollEarlyDeadline DEF SchedulerInv, WindowTracksUncovered
  <2>2. CASE PollClean
    BY <2>2 DEF PollClean, store, Unsaved
  <2>3. CASE PollPending
    BY <2>3 DEF PollPending, store
  <2>4. CASE \E flush \in BOOLEAN : PollDue(flush)
    BY <2>4 DEF PollDue, SchedulerInv, SchedulerTypeOK, None
  <2>5. CASE OtherSubmitted \/ OtherCompletes \/ Tick \/ StepBack \/ UNCHANGED schedulerVars
    BY <2>5 DEF OtherSubmitted, OtherCompletes, Tick, StepBack, schedulerVars, scheduler, store,
         DeadlineWhileUnsaved, Unsaved
  <2>6. CASE MutateStore \/ SaveSucceeds \/ SaveFails \/ Replace \/ WakeUp
    BY <2>6 DEF MutateStore, SaveSucceeds, SaveFails, Replace, WakeUp
  <2> QED BY <2>1, <2>2, <2>3, <2>4, <2>5, <2>6 DEF SchedulerNext, Poll
<1> QED BY <1>1, <1>2, SchedulerInvariance, PTL DEF SchedulerSpec

\* A poll never leaves a deadline behind that has already come, so the loop
\* does not run without sleeping.
THEOREM NoSpin == SchedulerSpec => [][NoDeadlineInThePast]_schedulerVars
<1>1. SchedulerInv /\ [SchedulerNext]_schedulerVars => [NoDeadlineInThePast]_schedulerVars
  <2> SUFFICES ASSUME SchedulerInv, [SchedulerNext]_schedulerVars, alarm = Awake, alarm' \in Nat
               PROVE  clock < alarm'
    BY DEF NoDeadlineInThePast
  <2>1. CASE PollEarly
    <3>1. clock <= Now /\ Now \in Nat /\ clock \in Nat
      BY <2>1, NoneIsNoTime DEF Now, TimeRegressed, SchedulerInv, SchedulerTypeOK
    <3> QED BY <2>1, <3>1, PollEarlyDeadline
  <2>2. CASE PollClean \/ PollPending \/ \E flush \in BOOLEAN : PollDue(flush)
    <3>1. alarm' = None
      BY <2>2, DueOfClosedWindow DEF PollClean, PollPending, PollDue, Window
    <3> QED BY <3>1 DEF None
  <2>3. CASE UNCHANGED alarm \/ alarm' = Awake
    BY <2>3 DEF Awake
  <2>4. [SchedulerNext]_schedulerVars => Poll \/ UNCHANGED alarm \/ alarm' = Awake
    BY DEF SchedulerNext, MutateStore, SaveSucceeds, SaveFails, Replace, OtherSubmitted, OtherCompletes,
         WakeUp, Tick, StepBack, schedulerVars
  <2> QED BY <2>1, <2>2, <2>3, <2>4 DEF Poll
<1> QED BY <1>1, SchedulerInvariance, PTL DEF SchedulerSpec

\* With unsaved data the loop sleeps, and wakes in time.
THEOREM SleepBounded == SchedulerSpec => SleepIsBounded
BY DeadlineHolds, NoSpin, PTL DEF SleepIsBounded

-----------------------------------------------------------------------------
(* The lock.  What needs process ids that are not used again holds as long *)
(* as none is (UniquePids); theorems say so where they need a recovery     *)
(* that names dead processes only (CarefulRecovery).                       *)

\* From the creation of its record to the removal of it.
HasRecord(l) ==
    \/ pc[l] \in {"write", "sync", "held", "undoFile"}
    \/ pc[l] \in {"check", "unlink"} /\ mine[l] # NoOwner

\* What process l makes of names: no record but its own has its process id.
LifeNames(l) ==
    /\ pc[l] \in {"unborn", "idle"} => mine[l] = NoOwner
    /\ pc[l] \in {"mkdir", "inspect", "create"} \/ HasRecord(l)
          => mine[l] \in Owner /\ mine[l].life = l
    /\ pc[l] \in {"check", "unlink"} /\ mine[l] # NoOwner => target[l] = mine[l]
    /\ pc[l] = "create" => \A o \in files : pid[o.life] # pid[l]
    /\ HasRecord(l) => \A o \in files : pid[o.life] = pid[l] => o = mine[l]

\* Process ids are told apart among the running, and those only.
NamesInv ==
    /\ LockTypeOK
    /\ files # {} => dir
    /\ \A o \in files : pc[o.life] # "unborn"
    /\ \A l \in Life : pc[l] = "unborn" <=> pid[l] = NoPid
    /\ \A l, k \in Life : Alive(l) /\ Alive(k) /\ pid[l] = pid[k] => l = k
    /\ \A l \in Life : LifeNames(l)

\* What is on disk, and whom a record can belong to.
RecordInv ==
    /\ OneRecord
    /\ written \subseteq files
    /\ files # {} => dir
    /\ \A o \in files \cup noted : pc[o.life] # "unborn"
    /\ \A o \in files : o.id < nextId[o.life]

\* What a process that stands at pc[l] can rely on.
LifeInv(l) ==
    /\ mine[l] # NoOwner => mine[l].life = l /\ mine[l].id < nextId[l]
    /\ pc[l] \in {"mkdir", "inspect", "create", "write", "sync", "undoFile",
                  "undoDir", "held"} => mine[l] \in Owner
    /\ pc[l] \in {"unborn", "idle", "reacquire"} => mine[l] = NoOwner
    /\ pc[l] = "mkdir" => mine[l] \notin files
    /\ pc[l] \in {"create", "rmdir"} => files = {}
    /\ pc[l] \in {"write", "sync"} => files = {mine[l]}
    /\ pc[l] = "write" => written = {}
    /\ pc[l] = "sync" => mine[l] \in written
    /\ pc[l] \in {"undoFile", "undoDir"} => files \subseteq {mine[l]}
    /\ pc[l] = "held" => Readable(mine[l])
    /\ pc[l] \in {"check", "unlink"} =>
          /\ target[l] \in Owner
          /\ mine[l] # NoOwner => target[l] = mine[l] /\ Readable(mine[l])
          /\ mine[l] = NoOwner => pc[target[l].life] = "dead"

LockInv == LockTypeOK /\ OneAtWork /\ RecordInv /\ \A l \in Life : LifeInv(l)

-----------------------------------------------------------------------------
\* Within NamesInv a step keeps the types: the only one that needs more than types
\* is CreateRecord, whose process must be acquiring as somebody.
LEMMA TypeStep == NamesInv /\ [LockNext]_lockVars => LockTypeOK'
<1> SUFFICES ASSUME NamesInv, [LockNext]_lockVars PROVE LockTypeOK'
  OBVIOUS
<1> USE LockConstants DEF LockTypeOK, Place, Owner, NamesInv
<1>1. CASE UNCHANGED lockVars
  BY <1>1 DEF lockVars, onDisk
<1>2. ASSUME NEW l \in Life, Start(l) \/ Crash(l) PROVE LockTypeOK'
  BY <1>2 DEF Start, Crash, Goto, onDisk
<1>3. ASSUME NEW l \in Life, Acquire(l) PROVE LockTypeOK'
  <2>1. CASE AllocateOwner(l)
    BY <2>1 DEF AllocateOwner, Goto, onDisk
  <2>2. CASE OwnerIdExhausted(l)
    BY <2>2 DEF OwnerIdExhausted, Fail, Goto, onDisk
  <2>3. CASE CreateDirectory(l) \/ DirectoryExists(l) \/ CreateRecordFails(l)
             \/ SyncRecord(l) \/ WriteOrSyncFails(l)
    BY <2>3 DEF CreateDirectory, DirectoryExists, CreateRecordFails, SyncRecord,
                WriteOrSyncFails, Goto, onDisk
  <2>4. CASE Inspect(l)
    BY <2>4 DEF Inspect, Goto, onDisk
  <2>5. CASE CreateRecord(l)
    BY <2>5 DEF CreateRecord, LifeNames, Goto, onDisk
  <2>6. CASE WriteRecord(l)
    BY <2>6 DEF WriteRecord, Goto, onDisk
  <2>7. CASE UndoRecord(l)
    BY <2>7 DEF UndoRecord, Goto, onDisk
  <2>8. CASE UndoDirectory(l)
    BY <2>8 DEF UndoDirectory, Goto, onDisk
  <2> QED BY <1>3, <2>1, <2>2, <2>3, <2>4, <2>5, <2>6, <2>7, <2>8 DEF Acquire
<1>4. ASSUME NEW l \in Life, RemoveExactOwner(l) PROVE LockTypeOK'
  <2>1. CASE BeginRelease(l) \/ BeginRecovery(l) \/ CheckOwner(l)
    BY <2>1 DEF BeginRelease, BeginRecovery, CheckOwner, Goto, onDisk
  <2>2. CASE OwnerMismatch(l) \/ RemoveRecordFails(l) \/ RemoveDirectoryFails(l)
    BY <2>2 DEF OwnerMismatch, RemoveRecordFails, RemoveDirectoryFails, Fail, Goto, onDisk
  <2>3. CASE RemoveRecord(l)
    BY <2>3 DEF RemoveRecord, Goto, onDisk
  <2>4. CASE RemoveDirectory(l)
    BY <2>4 DEF RemoveDirectory, Goto, onDisk
  <2> QED BY <1>4, <2>1, <2>2, <2>3, <2>4 DEF RemoveExactOwner
<1> QED BY <1>1, <1>2, <1>3, <1>4 DEF LockNext

\* When process ids are not reused, a name belongs to one owner.
LEMMA NameIsUnique ==
  ASSUME UniquePids, NEW o \in Owner, pc[o.life] # "unborn", NEW p \in Owner, Name(o) = Name(p)
  PROVE  o = p
BY DEF UniquePids, Owner, Name

LEMMA LockInitTypes == LockInit => LockTypeOK
<1> SUFFICES ASSUME LockInit PROVE LockTypeOK
  OBVIOUS
<1>1. 1 \in 1 .. MaxOwnerId + 1
  BY LockConstants DEF LockConstants
<1>2. dir \in BOOLEAN /\ files \in SUBSET Owner /\ written \in SUBSET Owner
      /\ noted \in SUBSET Owner
  BY DEF LockInit
<1>3. pc \in [Life -> Place] /\ pid \in [Life -> ProcessId \cup {NoPid}]
  BY DEF LockInit, Place
<1>4. mine \in [Life -> Owner \cup {NoOwner}] /\ target \in [Life -> Owner \cup {NoOwner}]
  BY DEF LockInit
<1>5. nextId \in [Life -> 1 .. MaxOwnerId + 1]
  BY <1>1 DEF LockInit
<1> QED BY <1>2, <1>3, <1>4, <1>5 DEF LockTypeOK

\* A step of a running process keeps NamesInv: the one record it may add is its
\* own, and no other running process has its id.
LEMMA NamesOfRunning ==
  ASSUME NamesInv, LockTypeOK', NEW l \in Life, Crash(l) \/ Acquire(l) \/ RemoveExactOwner(l)
  PROVE  NamesInv'
<1> USE LockConstants DEF LockConstants, NamesInv, LockTypeOK, onDisk, Goto, Fail, Alive, HasRecord
<1>1. /\ pid' = pid /\ Alive(l) /\ pc'[l] # "unborn"
      /\ \A k \in Life \ {l} : pc'[k] = pc[k] /\ mine'[k] = mine[k] /\ target'[k] = target[k]
  BY DEF Crash, Acquire, AllocateOwner, OwnerIdExhausted, CreateDirectory, DirectoryExists,
       Inspect, CreateRecord, CreateRecordFails, WriteRecord, SyncRecord, WriteOrSyncFails,
       UndoRecord, UndoDirectory, RemoveExactOwner, BeginRelease, BeginRecovery, CheckOwner,
       OwnerMismatch, RemoveRecord, RemoveRecordFails, RemoveDirectory, RemoveDirectoryFails
<1>2. \/ files' \subseteq files
      \/ CreateRecord(l)
  BY DEF Crash, Acquire, AllocateOwner, OwnerIdExhausted, CreateDirectory, DirectoryExists,
       Inspect, CreateRecordFails, WriteRecord, SyncRecord, WriteOrSyncFails,
       UndoRecord, UndoDirectory, RemoveExactOwner, BeginRelease, BeginRecovery, CheckOwner,
       OwnerMismatch, RemoveRecord, RemoveRecordFails, RemoveDirectory, RemoveDirectoryFails
<1>3. files' # {} => dir'
  BY DEF Crash, Acquire, AllocateOwner, OwnerIdExhausted, CreateDirectory, DirectoryExists,
       Inspect, CreateRecord, CreateRecordFails, WriteRecord, SyncRecord, WriteOrSyncFails,
       UndoRecord, UndoDirectory, RemoveExactOwner, BeginRelease, BeginRecovery, CheckOwner,
       OwnerMismatch, RemoveRecord, RemoveRecordFails, RemoveDirectory, RemoveDirectoryFails
<1>4. \A o \in files' : o \in files \/ (o = mine[l] /\ o.life = l)
  BY <1>2 DEF CreateRecord, LifeNames
<1>5. \A o \in files' : o.life \in Life /\ pc'[o.life] # "unborn"
  BY <1>1, <1>4 DEF Owner
<1>6. /\ \A k \in Life : pc'[k] = "unborn" <=> pid'[k] = NoPid
      /\ \A j, k \in Life : Alive(j)' /\ Alive(k)' /\ pid'[j] = pid'[k] => j = k
  BY <1>1
<1>7. ASSUME NEW k \in Life, k # l PROVE LifeNames(k)'
  <2>1. /\ Alive(k) => \A o \in files' : o \in files \/ pid[o.life] # pid[k]
        /\ LifeNames(k)
    BY <1>1, <1>4, <1>7
  <2> QED BY <1>1, <1>7, <2>1 DEF LifeNames
<1>8. LifeNames(l)'
  <2> USE <1>1 DEF LifeNames
  <2>1. CASE Crash(l)
    BY <2>1 DEF Crash
  <2>2. CASE AllocateOwner(l) \/ OwnerIdExhausted(l) \/ DirectoryExists(l) \/ Inspect(l)
    BY <2>2 DEF AllocateOwner, OwnerIdExhausted, DirectoryExists, Inspect, Owner
  <2>3. CASE CreateDirectory(l)
    BY <2>3 DEF CreateDirectory
  <2>4. CASE CreateRecord(l)
    BY <2>4 DEF CreateRecord
  <2>5. CASE CreateRecordFails(l) \/ WriteRecord(l) \/ SyncRecord(l) \/ WriteOrSyncFails(l)
    BY <2>5 DEF CreateRecordFails, WriteRecord, SyncRecord, WriteOrSyncFails
  <2>6. CASE UndoRecord(l) \/ UndoDirectory(l)
    BY <2>6 DEF UndoRecord, UndoDirectory
  <2>7. CASE BeginRelease(l) \/ BeginRecovery(l) \/ CheckOwner(l) \/ OwnerMismatch(l)
    BY <2>7 DEF BeginRelease, BeginRecovery, CheckOwner, OwnerMismatch
  <2>8. CASE RemoveRecord(l) \/ RemoveRecordFails(l)
    BY <2>8 DEF RemoveRecord, RemoveRecordFails
  <2>9. CASE RemoveDirectory(l) \/ RemoveDirectoryFails(l)
    BY <2>9 DEF RemoveDirectory, RemoveDirectoryFails
  <2> QED BY <2>1, <2>2, <2>3, <2>4, <2>5, <2>6, <2>7, <2>8, <2>9 DEF Acquire, RemoveExactOwner
<1> QED BY <1>3, <1>5, <1>6, <1>7, <1>8

LEMMA NamesInvariance == LockSpec => []NamesInv
<1>1. LockInit => NamesInv
  <2> SUFFICES ASSUME LockInit PROVE NamesInv
    OBVIOUS
  <2>1. LockTypeOK
    BY LockInitTypes
  <2> QED BY <2>1 DEF LockInit, NamesInv, LifeNames, HasRecord, Alive
<1>2. NamesInv /\ [LockNext]_lockVars => NamesInv'
  <2> SUFFICES ASSUME NamesInv, [LockNext]_lockVars PROVE NamesInv'
    OBVIOUS
  <2>1. LockTypeOK'
    BY TypeStep
  <2>2. CASE UNCHANGED lockVars
    BY <2>1, <2>2 DEF lockVars, onDisk, NamesInv, LifeNames, HasRecord, Alive
  <2>3. ASSUME NEW l \in Life, Start(l) PROVE NamesInv'
    <3> USE LockConstants DEF LockConstants, NamesInv, LockTypeOK, Goto, Alive
    <3>1. PICK id \in ProcessId : /\ \A k \in Life : Alive(k) => pid[k] # id
                                  /\ pid' = [pid EXCEPT ![l] = id]
      BY <2>3 DEF Start
    <3>2. /\ pc[l] = "unborn" /\ pc' = [pc EXCEPT ![l] = "idle"]
          /\ mine' = mine /\ target' = target /\ dir' = dir /\ files' = files
      BY <2>3 DEF Start, onDisk
    <3>3. \A o \in files : o.life \in Life \ {l} /\ pid'[o.life] = pid[o.life]
      BY <3>1, <3>2 DEF Owner
    <3>4. ASSUME NEW k \in Life PROVE LifeNames(k)'
      <4>1. k # l => pid'[k] = pid[k] /\ pc'[k] = pc[k]
        BY <3>1, <3>2
      <4>2. \A o \in files' : o \in files /\ pid'[o.life] = pid[o.life]
        BY <3>2, <3>3
      <4>3. LifeNames(k) /\ mine'[k] = mine[k] /\ target'[k] = target[k]
        BY <3>2
      <4>4. k = l => pc[k] = "unborn" /\ pc'[k] = "idle"
        BY <3>2
      <4>5. mine[l] = NoOwner
        BY <3>2 DEF LifeNames
      <4> HIDE DEF NamesInv, LockTypeOK, Alive, Goto
      <4> QED BY <4>1, <4>2, <4>3, <4>4, <4>5 DEF LifeNames, HasRecord
    <3> QED BY <2>1, <3>1, <3>2, <3>3, <3>4
  <2> QED BY <2>1, <2>2, <2>3, NamesOfRunning DEF LockNext
<1> QED BY <1>1, <1>2, PTL DEF LockSpec

\* The types hold in every reachable state.
THEOREM LockTypeCorrect == LockSpec => []LockTypeOK
<1>1. NamesInv => LockTypeOK
  BY DEF NamesInv
<1> QED BY <1>1, NamesInvariance, PTL

\* Whatever process ids are used again, and whomever recoveries name: a release
\* that removes a record removes the one of its own owner.
THEOREM ReleaseIsExact == LockSpec => ReleaseSparesOthers
<1>1. ASSUME NamesInv, [LockNext]_lockVars, NEW l \in Life,
             pc[l] = "unlink", ~Recovering(l), pc'[l] = "rmdir"
      PROVE  files \ files' = {mine[l]}
  <2> USE DEF NamesInv, LockTypeOK, Goto, Fail
  <2>1. RemoveRecord(l)
    <3>1. ASSUME NEW k \in Life, Start(k) \/ Crash(k) PROVE FALSE
      BY <1>1, <3>1 DEF Start, Crash
    <3>2. ASSUME NEW k \in Life, Acquire(k) PROVE FALSE
      BY <1>1, <3>2 DEF Acquire, AllocateOwner, OwnerIdExhausted, CreateDirectory,
           DirectoryExists, Inspect, CreateRecord, CreateRecordFails, WriteRecord,
           SyncRecord, WriteOrSyncFails, UndoRecord, UndoDirectory
    <3>3. ASSUME NEW k \in Life, RemoveExactOwner(k), ~RemoveRecord(l) PROVE FALSE
      BY <1>1, <3>3 DEF RemoveExactOwner, BeginRelease, BeginRecovery, CheckOwner,
           OwnerMismatch, RemoveRecord, RemoveRecordFails, RemoveDirectory,
           RemoveDirectoryFails
    <3> QED BY <1>1, <3>1, <3>2, <3>3 DEF LockNext, lockVars
  <2>2. PICK o \in files : Name(o) = Name(target[l]) /\ files' = files \ {o}
    BY <2>1 DEF RemoveRecord
  <2>3. mine[l].life = l /\ target[l] = mine[l]
        /\ \A p \in files : pid[p.life] = pid[l] => p = mine[l]
    BY <1>1 DEF LifeNames, HasRecord, Recovering
  <2>4. o = mine[l]
    BY <2>2, <2>3 DEF Name
  <2> QED BY <2>2, <2>4
<1>2. NamesInv /\ [LockNext]_lockVars
        => [\A l \in Life : pc[l] = "unlink" /\ ~Recovering(l) /\ pc'[l] = "rmdir"
                              => files \ files' = {mine[l]}]_lockVars
  BY <1>1
<1> QED BY <1>2, NamesInvariance, PTL DEF LockSpec, ReleaseSparesOthers

-----------------------------------------------------------------------------
(* What holds as long as no process id is used again.                      *)

LEMMA LockInitInductive == LockInit => LockInv
<1> SUFFICES ASSUME LockInit PROVE LockInv
  OBVIOUS
<1>1. LockTypeOK
  BY LockInitTypes
<1>2. OneAtWork /\ RecordInv
  BY DEF LockInit, OneAtWork, AtWork, RecordInv, OneRecord
<1>3. ASSUME NEW l \in Life PROVE LifeInv(l)
  BY <1>3 DEF LockInit, LifeInv, Readable
<1> QED BY <1>1, <1>2, <1>3 DEF LockInv

-----------------------------------------------------------------------------
\* The steps that leave the disk alone.
LEMMA QuietSteps ==
  ASSUME LockInv, UniquePids, CarefulRecovery, LockTypeOK', NEW l \in Life,
         \/ Start(l) \/ Crash(l) \/ AllocateOwner(l) \/ OwnerIdExhausted(l)
         \/ DirectoryExists(l) \/ Inspect(l) \/ CreateRecordFails(l)
         \/ SyncRecord(l) \/ WriteOrSyncFails(l) \/ BeginRelease(l)
         \/ BeginRecovery(l) \/ CheckOwner(l) \/ OwnerMismatch(l)
         \/ RemoveRecordFails(l) \/ RemoveDirectoryFails(l)
  PROVE  LockInv'
<1> USE LockConstants DEF LockConstants, LockInv, LockTypeOK, onDisk, Goto, Fail, Readable
<1> DEFINE Others == \A k \in Life \ {l} : pc'[k] = pc[k] /\ mine'[k] = mine[k]
                                            /\ target'[k] = target[k]
                                            /\ nextId'[k] = nextId[k]
<1>1. Others /\ UNCHANGED onDisk
  BY DEF Start, Crash, AllocateOwner, OwnerIdExhausted, DirectoryExists, Inspect,
         CreateRecordFails, SyncRecord, WriteOrSyncFails, BeginRelease, BeginRecovery,
         CheckOwner, OwnerMismatch, RemoveRecordFails, RemoveDirectoryFails
<1>2. l \in AtWork' => l \in AtWork
  BY DEF Start, Crash, AllocateOwner, OwnerIdExhausted, DirectoryExists, Inspect,
         CreateRecordFails, SyncRecord, WriteOrSyncFails, BeginRelease, BeginRecovery,
         CheckOwner, OwnerMismatch, RemoveRecordFails, RemoveDirectoryFails, AtWork
<1>3. OneAtWork'
  BY <1>1, <1>2 DEF OneAtWork, AtWork
<1>4. pc[l] = "dead" => pc'[l] = "dead"
  BY DEF Start, Crash, AllocateOwner, OwnerIdExhausted, DirectoryExists, Inspect,
         CreateRecordFails, SyncRecord, WriteOrSyncFails, BeginRelease, BeginRecovery,
         CheckOwner, OwnerMismatch, RemoveRecordFails, RemoveDirectoryFails, Alive
<1>5. pc'[l] # "unborn"
  BY DEF Start, Crash, AllocateOwner, OwnerIdExhausted, DirectoryExists, Inspect,
         CreateRecordFails, SyncRecord, WriteOrSyncFails, BeginRelease, BeginRecovery,
         CheckOwner, OwnerMismatch, RemoveRecordFails, RemoveDirectoryFails, Alive
<1>6. noted' \subseteq noted \cup files
  BY DEF Start, Crash, AllocateOwner, OwnerIdExhausted, DirectoryExists, Inspect,
         CreateRecordFails, SyncRecord, WriteOrSyncFails, BeginRelease, BeginRecovery,
         CheckOwner, OwnerMismatch, RemoveRecordFails, RemoveDirectoryFails
<1>a. nextId[l] <= nextId'[l]
  BY DEF Start, Crash, AllocateOwner, OwnerIdExhausted, DirectoryExists, Inspect,
         CreateRecordFails, SyncRecord, WriteOrSyncFails, BeginRelease, BeginRecovery,
         CheckOwner, OwnerMismatch, RemoveRecordFails, RemoveDirectoryFails
<1>b. \A o \in files : o.id < nextId'[o.life]
  <2> SUFFICES ASSUME NEW o \in files PROVE o.id < nextId'[o.life]
    OBVIOUS
  <2>1. o.life \in Life /\ o.id \in Nat /\ o.id < nextId[o.life]
    BY DEF RecordInv, Owner
  <2>2. nextId[o.life] \in Nat /\ nextId'[o.life] \in Nat /\ nextId[o.life] <= nextId'[o.life]
    BY <1>1, <1>a, <2>1
  <2> QED BY <2>1, <2>2
<1>7. RecordInv'
  BY <1>1, <1>5, <1>6, <1>b DEF RecordInv, OneRecord, Owner
<1>8. ASSUME NEW k \in Life, k # l PROVE LifeInv(k)'
  BY <1>1, <1>4, <1>8 DEF LifeInv, Owner
<1>9. LifeInv(l)'
  <2>1. CASE Start(l) \/ Crash(l) \/ OwnerIdExhausted(l) \/ Inspect(l)
    BY <2>1 DEF Start, Crash, OwnerIdExhausted, Inspect, LifeInv, Owner
  <2>2. CASE AllocateOwner(l)
    <3>1. /\ mine'[l] = [life |-> l, id |-> nextId[l]]
          /\ nextId'[l] = nextId[l] + 1
          /\ nextId[l] \in Nat
          /\ pc'[l] = "mkdir"
          /\ mine'[l] \in Owner
      BY <2>2 DEF AllocateOwner, Owner
    <3>2. mine'[l] \notin files'
      BY <1>1, <3>1 DEF RecordInv
    <3> QED BY <3>1, <3>2 DEF LifeInv
  <2>3. CASE DirectoryExists(l) \/ CreateRecordFails(l) \/ SyncRecord(l) \/ WriteOrSyncFails(l)
    BY <2>3 DEF DirectoryExists, CreateRecordFails, SyncRecord, WriteOrSyncFails, LifeInv,
                OneAtWork, AtWork, RecordInv
  <2>4. CASE BeginRelease(l)
    BY <2>4 DEF BeginRelease, LifeInv
  <2>5. CASE BeginRecovery(l)
    <3>1. PICK o \in noted : /\ \A k \in Life : Alive(k) => pid[k] # pid[o.life]
                             /\ target' = [target EXCEPT ![l] = o]
      BY <2>5 DEF BeginRecovery
    <3>2. o \in Owner /\ o.life \in Life /\ pc[o.life] # "unborn"
      BY DEF RecordInv, Owner
    <3>3. pc[o.life] = "dead"
      BY <3>1, <3>2 DEF Alive
    <3>4. pc'[o.life] = "dead"
      BY <2>5, <3>3, <3>2 DEF BeginRecovery
    <3> QED BY <2>5, <3>1, <3>2, <3>4 DEF BeginRecovery, LifeInv
  <2>6. CASE CheckOwner(l)
    <3>1. /\ pc[l] = "check" /\ pc'[l] = "unlink"
          /\ UNCHANGED <<dir, files, written, mine, target, nextId>>
      BY <2>6 DEF CheckOwner
    <3>2. mine[l] = NoOwner => pc'[target[l].life] = "dead"
      BY <2>6, <3>1 DEF CheckOwner, LifeInv, Owner
    <3> QED BY <3>1, <3>2 DEF LifeInv
  <2>7. CASE OwnerMismatch(l) \/ RemoveRecordFails(l) \/ RemoveDirectoryFails(l)
    BY <2>7 DEF OwnerMismatch, RemoveRecordFails, RemoveDirectoryFails, LifeInv
  <2> QED BY <2>1, <2>2, <2>3, <2>4, <2>5, <2>6, <2>7
<1> QED BY <1>3, <1>7, <1>8, <1>9

\* A process at work has the directory to itself: nobody holds the lock.
LEMMA WorkExcludesHolder ==
  ASSUME LockInv, NEW l \in AtWork, NEW k \in Life, k # l
  PROVE  /\ k \notin AtWork
         /\ pc[k] # "held"
         /\ pc[k] \in {"check", "unlink"} => mine[k] = NoOwner
<1> USE DEF LockInv
<1>1. k \notin AtWork
  BY DEF OneAtWork
<1>2. (files \subseteq {mine[l]} /\ mine[l] # mine[k]) \/ files = {} \/ mine[k] = NoOwner
  BY DEF LifeInv, AtWork
<1>3. ~Readable(mine[k]) \/ mine[k] = NoOwner
  BY <1>2 DEF Readable
<1> QED BY <1>1, <1>3, LockConstants DEF LockConstants, LifeInv

\* What a process that neither works on the directory nor holds the lock relies
\* on survives the step of another process.
LEMMA Bystander ==
  ASSUME NEW k \in Life, LifeInv(k), LockTypeOK,
         pc'[k] = pc[k], mine'[k] = mine[k], target'[k] = target[k], nextId'[k] = nextId[k],
         \A m \in Life : pc[m] = "dead" => pc'[m] = "dead",
         k \notin AtWork, pc[k] # "held",
         pc[k] \in {"check", "unlink"} => mine[k] = NoOwner,
         pc[k] = "mkdir" => mine[k] \notin files'
  PROVE  LifeInv(k)'
BY DEF LifeInv, AtWork, LockTypeOK, Owner

\* The steps that build the lock directory.
LEMMA BuildingSteps ==
  ASSUME LockInv, UniquePids, CarefulRecovery, LockTypeOK', NEW l \in Life,
         \/ CreateDirectory(l) \/ CreateRecord(l) \/ WriteRecord(l)
         \/ UndoRecord(l) \/ UndoDirectory(l)
  PROVE  LockInv'
<1> USE LockConstants DEF LockConstants, LockInv, LockTypeOK, onDisk, Goto, Readable
<1>1. /\ \A k \in Life \ {l} : pc'[k] = pc[k] /\ mine'[k] = mine[k]
      /\ UNCHANGED <<target, noted, nextId>>
      /\ pc[l] # "dead" /\ pc'[l] \notin {"unborn", "dead"}
  BY DEF CreateDirectory, CreateRecord, WriteRecord, UndoRecord, UndoDirectory
<1>2. CASE CreateDirectory(l)
  <2>1. AtWork = {} /\ files = {}
    BY <1>2 DEF CreateDirectory, OneAtWork, RecordInv
  <2>2. OneAtWork' /\ RecordInv'
    BY <1>1, <1>2, <2>1 DEF CreateDirectory, OneAtWork, AtWork, RecordInv, OneRecord
  <2>3. ASSUME NEW k \in Life PROVE LifeInv(k)'
    BY <1>1, <1>2, <2>1 DEF CreateDirectory, LifeInv, Owner
  <2> QED BY <2>2, <2>3
<1>3. CASE CreateRecord(l)
  <2>1. /\ l \in AtWork /\ files = {} /\ written = {} /\ files' = {mine[l]}
        /\ mine[l] \in Owner /\ mine[l].life = l
        /\ mine[l].id < nextId[l] /\ nextId' = nextId /\ noted' = noted
    BY <1>3 DEF CreateRecord, AtWork, LifeInv, RecordInv
  <2>2. OneAtWork' /\ RecordInv'
    BY <1>1, <1>3, <2>1 DEF CreateRecord, OneAtWork, AtWork, RecordInv, OneRecord, Owner
  <2>3. ASSUME NEW k \in Life, k # l PROVE LifeInv(k)'
    BY <1>1, <1>3, <2>1, <2>3, WorkExcludesHolder, Bystander DEF CreateRecord, LifeInv
  <2>4. LifeInv(l)'
    BY <1>3, <2>1 DEF CreateRecord, LifeInv
  <2> QED BY <2>2, <2>3, <2>4
<1>4. CASE WriteRecord(l)
  <2>1. l \in AtWork /\ files = {mine[l]} /\ files' = files
    BY <1>4 DEF WriteRecord, AtWork, LifeInv
  <2>2. OneAtWork' /\ RecordInv'
    BY <1>1, <1>4, <2>1 DEF WriteRecord, OneAtWork, AtWork, RecordInv, OneRecord, Owner
  <2>3. ASSUME NEW k \in Life, k # l PROVE LifeInv(k)'
    <3>1. /\ k \notin AtWork /\ pc[k] # "held"
          /\ pc[k] \in {"check", "unlink"} => mine[k] = NoOwner
      BY <2>1, <2>3, WorkExcludesHolder
    <3>2. pc[k] = "mkdir" => mine[k] \notin files'
      BY <2>1 DEF LifeInv
    <3> QED BY <1>1, <2>3, <3>1, <3>2, Bystander
  <2>4. LifeInv(l)'
    BY <1>4, <2>1 DEF WriteRecord, LifeInv
  <2> QED BY <2>2, <2>3, <2>4
<1>5. CASE UndoRecord(l)
  <2>1. l \in AtWork /\ files \subseteq {mine[l]} /\ files' \subseteq files
    BY <1>5 DEF UndoRecord, AtWork, LifeInv, RecordInv
  <2>a. PICK kept \in SUBSET ({mine[l]} \cap files) :
          /\ files' = files \ ({mine[l]} \ kept)
          /\ written' = written \ ({mine[l]} \ kept)
    BY <1>5 DEF UndoRecord
  <2>2. OneAtWork' /\ RecordInv'
    BY <1>1, <1>5, <2>1, <2>a DEF UndoRecord, OneAtWork, AtWork, RecordInv, OneRecord, Owner
  <2>3. ASSUME NEW k \in Life, k # l PROVE LifeInv(k)'
    BY <1>1, <1>5, <2>1, <2>3, WorkExcludesHolder, Bystander DEF UndoRecord, LifeInv
  <2>4. LifeInv(l)'
    BY <1>5, <2>1 DEF UndoRecord, LifeInv
  <2> QED BY <2>2, <2>3, <2>4
<1>6. CASE UndoDirectory(l)
  <2>1. l \in AtWork /\ dir
    BY <1>6 DEF UndoDirectory, AtWork, OneAtWork
  <2>2. AtWork' = {} /\ (files # {} => dir')
    <3>1. AtWork' = {}
      BY <1>1, <1>6, <2>1 DEF UndoDirectory, AtWork, OneAtWork
    <3>2. CASE dir' = dir
      BY <2>1, <3>1, <3>2
    <3>3. CASE dir' = (dir /\ files # {})
      BY <2>1, <3>1, <3>3
    <3> QED BY <1>6, <3>2, <3>3 DEF UndoDirectory
  <2>3. OneAtWork' /\ RecordInv'
    BY <1>1, <1>6, <2>2 DEF UndoDirectory, OneAtWork, RecordInv, OneRecord, Owner
  <2>4. ASSUME NEW k \in Life, k # l PROVE LifeInv(k)'
    BY <1>1, <1>6, <2>1, <2>4, WorkExcludesHolder, Bystander DEF UndoDirectory, LifeInv
  <2>5. LifeInv(l)'
    BY <1>6 DEF UndoDirectory, LifeInv
  <2> QED BY <2>3, <2>4, <2>5
<1> QED BY <1>2, <1>3, <1>4, <1>5, <1>6

\* The steps that take the lock directory apart.
LEMMA RemovingSteps ==
  ASSUME LockInv, UniquePids, CarefulRecovery, LockTypeOK', NEW l \in Life,
         RemoveRecord(l) \/ RemoveDirectory(l)
  PROVE  LockInv'
<1> USE LockConstants DEF LockConstants, LockInv, LockTypeOK, onDisk, Goto, Readable
<1>1. CASE RemoveRecord(l)
  <2>1. PICK o \in files : /\ Name(o) = Name(target[l])
                           /\ files' = files \ {o}
                           /\ written' = written \ {o}
    BY <1>1 DEF RemoveRecord
  <2>2. o = target[l] /\ o \in Owner
    BY <1>1, <2>1, NameIsUnique DEF RemoveRecord, LifeInv, RecordInv
  <2>3. files = {o} /\ files' = {} /\ written' = {} /\ dir /\ dir' = dir
    BY <1>1, <2>1 DEF RemoveRecord, RecordInv, OneRecord
  <2>4. o.life = l \/ pc[o.life] = "dead"
    BY <1>1, <2>2 DEF RemoveRecord, LifeInv
  <2>5. ASSUME NEW k \in Life, k # l
        PROVE  /\ k \notin AtWork /\ pc[k] # "held"
               /\ pc[k] \in {"check", "unlink"} => mine[k] = NoOwner
    <3>1. k # o.life \/ pc[k] = "dead"
      BY <2>4, <2>5
    <3>2. mine[k] # NoOwner => mine[k].life = k
      BY DEF LifeInv
    <3>3. pc[k] # "dead" /\ mine[k] \in Owner => files # {mine[k]}
      BY <2>3, <3>1, <3>2
    <3>4. LifeInv(k)
      OBVIOUS
    <3> QED BY <2>3, <3>3, <3>4 DEF LifeInv, AtWork
  <2>6. OneAtWork' /\ RecordInv'
    BY <1>1, <2>3, <2>5 DEF RemoveRecord, OneAtWork, AtWork, RecordInv, OneRecord, Owner
  <2>7. ASSUME NEW k \in Life, k # l PROVE LifeInv(k)'
    BY <1>1, <2>3, <2>5, <2>7, Bystander DEF RemoveRecord
  <2>8. LifeInv(l)'
    BY <1>1, <2>3 DEF RemoveRecord, LifeInv
  <2> QED BY <2>6, <2>7, <2>8
<1>2. CASE RemoveDirectory(l)
  <2>1. l \in AtWork /\ files = {}
    BY <1>2 DEF RemoveDirectory, AtWork
  <2>2. AtWork' = {}
    BY <1>2, <2>1, WorkExcludesHolder DEF RemoveDirectory, AtWork, OneAtWork
  <2>3. OneAtWork' /\ RecordInv'
    BY <1>2, <2>2 DEF RemoveDirectory, OneAtWork, RecordInv, OneRecord, Owner
  <2>4. ASSUME NEW k \in Life, k # l PROVE LifeInv(k)'
    BY <1>2, <2>1, <2>4, WorkExcludesHolder, Bystander DEF RemoveDirectory, LifeInv
  <2>5. LifeInv(l)'
    BY <1>2 DEF RemoveDirectory, LifeInv
  <2> QED BY <2>3, <2>4, <2>5
<1> QED BY <1>1, <1>2

-----------------------------------------------------------------------------
\* An id that is used again was given out for good.
LEMMA UniqueBefore ==
  ASSUME NamesInv, [LockNext]_lockVars, UniquePids' PROVE UniquePids
<1>1. ASSUME NEW l \in Life
      PROVE  pc[l] # "unborn" => pc'[l] # "unborn" /\ pid'[l] = pid[l]
  BY DEF NamesInv, LockTypeOK, LockNext, lockVars, Goto, Fail, Alive, Start, Crash, Acquire,
       AllocateOwner, OwnerIdExhausted, CreateDirectory, DirectoryExists, Inspect, CreateRecord,
       CreateRecordFails, WriteRecord, SyncRecord, WriteOrSyncFails, UndoRecord, UndoDirectory,
       RemoveExactOwner, BeginRelease, BeginRecovery, CheckOwner, OwnerMismatch, RemoveRecord,
       RemoveRecordFails, RemoveDirectory, RemoveDirectoryFails
<1>2. ASSUME NEW l \in Life, NEW k \in Life, pc[l] # "unborn", pid[l] = pid[k] PROVE l = k
  <2>1. pid[k] # NoPid /\ pc'[l] # "unborn" /\ pid'[l] = pid[l]
    BY <1>1, <1>2 DEF NamesInv
  <2>2. pc[k] # "unborn"
    BY <2>1 DEF NamesInv
  <2> QED BY <1>1, <1>2, <2>1, <2>2 DEF UniquePids
<1> QED BY <1>2 DEF UniquePids

LEMMA LockInvariance ==
  ASSUME CarefulRecovery
  PROVE  LockSpec => [](UniquePids => LockInv)
<1>1. NamesInv /\ (UniquePids => LockInv) /\ [LockNext]_lockVars => (UniquePids => LockInv)'
  <2> SUFFICES ASSUME NamesInv, LockInv, UniquePids, [LockNext]_lockVars PROVE LockInv'
    BY UniqueBefore
  <2>1. LockTypeOK'
    BY TypeStep
  <2>2. CASE UNCHANGED lockVars
    BY <2>2 DEF lockVars, onDisk, LockInv, LockTypeOK, OneAtWork, AtWork, RecordInv, OneRecord, LifeInv,
                Readable
  <2>3. ASSUME NEW l \in Life,
               Start(l) \/ Crash(l) \/ Acquire(l) \/ RemoveExactOwner(l)
        PROVE  LockInv'
    BY <2>1, <2>3, QuietSteps, BuildingSteps, RemovingSteps DEF Acquire, RemoveExactOwner
  <2> QED BY <2>2, <2>3 DEF LockNext
<1> QED BY <1>1, LockInitInductive, NamesInvariance, PTL DEF LockSpec

\* However many processes acquire, release, crash and recover at any step, at
\* most one of them is between create_dir and the complete record, or between
\* remove_file and remove_dir, and the directory stays until it is done; so long as
\* no process id is used again.
THEOREM ExclusiveWork ==
  ASSUME CarefulRecovery
  PROVE  LockSpec => [](UniquePids => OneAtWork)
<1>1. LockInv => OneAtWork
  BY DEF LockInv
<1> QED BY <1>1, LockInvariance, PTL

\* Until a process id is used again the directory never holds the records of two
\* owners.
THEOREM SingleRecord ==
  ASSUME CarefulRecovery
  PROVE  LockSpec => [](UniquePids => OneRecord)
<1>1. LockInv => OneRecord
  BY DEF LockInv, RecordInv, OneRecord
<1> QED BY <1>1, LockInvariance, PTL

\* A running process with a token owns the root on disk, until a process id is
\* used again.
THEOREM HolderOwnsRoot ==
  ASSUME CarefulRecovery
  PROVE  LockSpec => [](UniquePids => HolderKeepsLock)
<1>1. LockInv => HolderKeepsLock
  BY DEF LockInv, HolderKeepsLock, LifeInv
<1> QED BY <1>1, LockInvariance, PTL

\* The lock protects who holds it and who is at work on it, for any number of
\* processes and wherever they crash, until a process id is used again.
THEOREM LockKept ==
  ASSUME CarefulRecovery
  PROVE  LockSpec => []LockIsKept
BY ExclusiveWork, HolderOwnsRoot, PTL DEF LockIsKept

-----------------------------------------------------------------------------
(* ProfileLock implements ExclusiveOwnership.                              *)

\* Steps that change neither the record on disk nor anybody's promise.
LEMMA StutteringSteps ==
  ASSUME LockInv, LockInv', NEW l \in Life,
         Owning' = Owning,
         \A k \in Life \ {l} : pc'[k] = pc[k] /\ mine'[k] = mine[k] /\ nextId'[k] = nextId[k],
         nextId'[l] = nextId[l],
         Promising(l)' = Promising(l),
         Promising(l) => mine'[l] = mine[l]
  PROVE  Spent' = Spent
<1>1. \A o \in Owner : o.life \in Life
  BY DEF Owner
<1>2. \A o \in Owner : (Promising(o.life) /\ mine[o.life] = o)
                        = (Promising(o.life)' /\ mine'[o.life] = o)
  BY <1>1 DEF Promising
<1>3. \A o \in Owner : nextId'[o.life] = nextId[o.life]
  BY <1>1
<1> QED BY <1>2, <1>3 DEF Spent

\* Steps after which an owner that was on its way no longer is.
LEMMA ForfeitingSteps ==
  ASSUME LockInv, LockInv', NEW l \in Life,
         Promising(l), mine[l] \notin Owning, Owning' = Owning,
         \A k \in Life \ {l} : pc'[k] = pc[k] /\ mine'[k] = mine[k],
         nextId' = nextId,
         ~Promising(l)'
  PROVE  Ownership!Forfeit(mine[l])
<1>1. /\ mine[l] \in Owner /\ mine[l].life = l /\ mine[l].id < nextId[l]
  BY LockConstants DEF LockConstants, LockInv, LifeInv, Promising
<1>2. \A o \in Owner : o.life \in Life /\ (o.life = l /\ mine[l] = o <=> o = mine[l])
  BY <1>1 DEF Owner
<1>3. mine[l] \notin Spent
  BY <1>1 DEF Spent
<1>4. \A o \in Owner \ {mine[l]} : (Promising(o.life) /\ mine[o.life] = o)
                                     = (Promising(o.life)' /\ mine'[o.life] = o)
  BY <1>1, <1>2 DEF Promising
<1>5. Spent' = Spent \cup {mine[l]}
  BY <1>1, <1>2, <1>4 DEF Spent
<1> QED BY <1>3, <1>5 DEF Ownership!Forfeit

\* A step that removes the owner's record.
LEMMA DroppingSteps ==
  ASSUME LockInv, LockInv', NEW o \in Owner, files = {o}, files' = {}, UNCHANGED <<mine, nextId>>,
         \A k \in Life : Promising(k)' = Promising(k), ~Promising(o.life)
  PROVE  Ownership!Drop(o) \/ UNCHANGED <<Owning, Spent>>
<1>1. \A p \in Owner : p.life \in Life
  BY DEF Owner
<1>2. \A p \in Owner : (Promising(p.life) /\ mine[p.life] = p)
                        = (Promising(p.life)' /\ mine'[p.life] = p)
  BY <1>1
<1>3. Owning' = {} /\ o.id < nextId[o.life]
  BY DEF Owning, LockInv, RecordInv
<1>4. Spent' = Spent \cup {o}
  BY <1>2, <1>3 DEF Spent, Owning
<1>5. CASE Owning = {}
  <2>1. o \in Spent
    BY <1>3, <1>5 DEF Spent
  <2> QED BY <1>3, <1>4, <1>5, <2>1
<1>6. CASE Owning # {}
  <2>1. Owning = {o}
    BY <1>6 DEF Owning
  <2> QED BY <1>3, <1>4, <2>1 DEF Ownership!Drop
<1> QED BY <1>5, <1>6

LEMMA OwnershipStep ==
  ASSUME UniquePids, LockInv, LockInv', [LockNext]_lockVars
  PROVE  [Ownership!Next]_<<Owning, Spent>>
<1> USE DEF LockInv, LockTypeOK, Goto, Fail, onDisk, Readable
<1>1. CASE UNCHANGED lockVars
  BY <1>1 DEF lockVars, Owning, Spent, Promising
<1>2. SUFFICES ASSUME NEW l \in Life,
                      Start(l) \/ Crash(l) \/ Acquire(l) \/ RemoveExactOwner(l)
               PROVE  [Ownership!Next]_<<Owning, Spent>>
  BY <1>1 DEF LockNext
<1>3. \A k \in Life : Promising(k) => mine[k] \in Owner /\ mine[k] \notin Owning
  BY DEF LifeInv, Promising, Owning
<1>4. CASE \/ Start(l) \/ OwnerIdExhausted(l) \/ Inspect(l) \/ SyncRecord(l)
           \/ BeginRelease(l) \/ BeginRecovery(l) \/ CheckOwner(l) \/ OwnerMismatch(l)
           \/ RemoveRecordFails(l) \/ RemoveDirectoryFails(l)
  <2>1. Owning' = Owning
    BY <1>4 DEF Start, OwnerIdExhausted, Inspect, SyncRecord, BeginRelease, BeginRecovery,
         CheckOwner, OwnerMismatch, RemoveRecordFails, RemoveDirectoryFails, Owning
  <2>2. Promising(l) = FALSE /\ Promising(l)' = FALSE /\ nextId' = nextId
    BY <1>4 DEF Start, OwnerIdExhausted, Inspect, SyncRecord, BeginRelease, BeginRecovery,
         CheckOwner, OwnerMismatch, RemoveRecordFails, RemoveDirectoryFails, Promising
  <2>3. \A k \in Life \ {l} : pc'[k] = pc[k] /\ mine'[k] = mine[k]
    BY <1>4 DEF Start, OwnerIdExhausted, Inspect, SyncRecord, BeginRelease, BeginRecovery,
         CheckOwner, OwnerMismatch, RemoveRecordFails, RemoveDirectoryFails
  <2> QED BY <2>1, <2>2, <2>3, StutteringSteps
<1>5. CASE CreateDirectory(l) \/ CreateRecord(l) \/ UndoDirectory(l) \/ RemoveDirectory(l)
  <2>1. (Owning = {} /\ Owning' = {}) \/ Owning' = Owning
    BY <1>5 DEF CreateDirectory, CreateRecord, UndoDirectory, RemoveDirectory, Owning,
         RecordInv, LifeInv
  <2>2. /\ Promising(l)' = Promising(l) /\ nextId' = nextId
        /\ Promising(l) => mine'[l] = mine[l]
    BY <1>5 DEF CreateDirectory, CreateRecord, UndoDirectory, RemoveDirectory, Promising
  <2>3. \A k \in Life \ {l} : pc'[k] = pc[k] /\ mine'[k] = mine[k]
    BY <1>5 DEF CreateDirectory, CreateRecord, UndoDirectory, RemoveDirectory
  <2> QED BY <2>1, <2>2, <2>3, StutteringSteps
<1>6. CASE AllocateOwner(l)
  <2>1. Owning' = Owning /\ ~Promising(l) /\ Promising(l)' /\ nextId[l] \in Nat
        /\ nextId'[l] = nextId[l] + 1 /\ mine'[l] = [life |-> l, id |-> nextId[l]]
    BY <1>6 DEF AllocateOwner, Owning, Promising
  <2>2. \A k \in Life \ {l} : pc'[k] = pc[k] /\ mine'[k] = mine[k] /\ nextId'[k] = nextId[k]
    BY <1>6 DEF AllocateOwner
  <2>3. ASSUME NEW o \in Owner PROVE o \in Spent' <=> o \in Spent
    <3>1. o.life \in Life /\ o.id \in Nat /\ o = [life |-> o.life, id |-> o.id]
      BY DEF Owner
    <3>2. CASE o.life # l
      BY <2>1, <2>2, <3>1, <3>2 DEF Spent, Promising
    <3>3. CASE o.life = l /\ o.id = nextId[l]
      BY <2>1, <3>1, <3>3 DEF Spent
    <3>4. CASE o.life = l /\ o.id # nextId[l]
      BY <2>1, <3>1, <3>4 DEF Spent
    <3> QED BY <3>2, <3>3, <3>4
  <2>4. Spent' = Spent
    BY <2>3 DEF Spent
  <2> QED BY <2>1, <2>4
<1>7. CASE (DirectoryExists(l) \/ CreateRecordFails(l) \/ WriteOrSyncFails(l) \/ Crash(l))
           /\ Promising(l)
  <2>1. /\ Owning' = Owning /\ nextId' = nextId /\ ~Promising(l)'
        /\ \A k \in Life \ {l} : pc'[k] = pc[k] /\ mine'[k] = mine[k]
    BY <1>7 DEF DirectoryExists, CreateRecordFails, WriteOrSyncFails, Crash, Promising, Owning
  <2> QED BY <1>3, <1>7, <2>1, ForfeitingSteps DEF Ownership!Next
<1>8. CASE (DirectoryExists(l) \/ CreateRecordFails(l) \/ WriteOrSyncFails(l) \/ Crash(l))
           /\ ~Promising(l)
  <2>1. /\ Owning' = Owning /\ nextId' = nextId /\ Promising(l)' = FALSE /\ Promising(l) = FALSE
        /\ \A k \in Life \ {l} : pc'[k] = pc[k] /\ mine'[k] = mine[k]
    BY <1>8 DEF DirectoryExists, CreateRecordFails, WriteOrSyncFails, Crash, Promising, Owning
  <2> QED BY <1>8, <2>1, StutteringSteps
<1>9. CASE WriteRecord(l)
  <2>1. /\ files = {mine[l]} /\ files' = files /\ dir /\ dir' = dir /\ written = {}
        /\ written' = {mine[l]} /\ mine[l] \in Owner /\ mine[l].life = l
        /\ UNCHANGED <<mine, nextId>> /\ Promising(l) /\ ~Promising(l)'
        /\ \A k \in Life \ {l} : pc'[k] = pc[k]
    BY <1>9, LockConstants DEF LockConstants, WriteRecord, LifeInv, RecordInv, Promising
  <2>2. Owning = {} /\ Owning' = {mine[l]}
    BY <2>1 DEF Owning
  <2>3. ASSUME NEW o \in Owner PROVE o \in Spent' <=> o \in Spent
    <3>1. o.life \in Life
      BY DEF Owner
    <3>2. CASE o.life # l
      BY <2>1, <2>2, <3>1, <3>2 DEF Spent, Promising
    <3>3. CASE o.life = l
      BY <2>1, <2>2, <3>3 DEF Spent
    <3> QED BY <3>2, <3>3
  <2>4. Spent' = Spent /\ mine[l] \notin Spent
    BY <2>1, <2>3 DEF Spent
  <2> QED BY <2>1, <2>2, <2>4 DEF Ownership!Next, Ownership!Take
<1>10. CASE UndoRecord(l)
  <2>1. files \subseteq {mine[l]} /\ mine[l] \in Owner /\ mine[l].life = l
    BY <1>10, LockConstants DEF LockConstants, UndoRecord, LifeInv
  <2>2. /\ UNCHANGED <<dir, mine, nextId>>
        /\ ~Promising(l) /\ \A k \in Life : Promising(k)' = Promising(k)
        /\ (files' = files /\ written' = written) \/ files' = {}
        /\ \A k \in Life \ {l} : pc'[k] = pc[k]
    BY <1>10, <2>1 DEF UndoRecord, Promising, RecordInv
  <2>a. ASSUME Owning' = Owning PROVE Spent' = Spent
    BY <2>2, <2>a, StutteringSteps
  <2>3. CASE files' = files /\ written' = written
    BY <2>2, <2>3, <2>a DEF Owning
  <2>4. CASE files' = {} /\ files # {}
    BY <2>1, <2>2, <2>4, DroppingSteps DEF Ownership!Next
  <2>5. CASE files' = {} /\ files = {}
    BY <2>2, <2>5, <2>a DEF Owning
  <2> QED BY <2>2, <2>3, <2>4, <2>5
<1>11. CASE RemoveRecord(l)
  <2>1. PICK o \in files : Name(o) = Name(target[l]) /\ files' = files \ {o}
    BY <1>11 DEF RemoveRecord
  <2>2. o = target[l] /\ o \in Owner /\ files = {o} /\ files' = {}
    BY <1>11, <2>1, NameIsUnique DEF RemoveRecord, LifeInv, RecordInv, OneRecord
  <2>3. o.life = l \/ pc[o.life] = "dead"
    BY <1>11, <2>2 DEF RemoveRecord, LifeInv
  <2>4. /\ UNCHANGED <<mine, nextId>> /\ ~Promising(o.life)
        /\ \A k \in Life : Promising(k)' = Promising(k)
    BY <1>11, <2>3 DEF RemoveRecord, Promising
  <2> QED BY <2>2, <2>4, DroppingSteps DEF Ownership!Next
<1> QED BY <1>2, <1>4, <1>5, <1>6, <1>7, <1>8, <1>9, <1>10, <1>11
        DEF Acquire, RemoveExactOwner

\* The steps of the lock are steps of an exclusive ownership: an owner comes to
\* own a free root only, at most once, and everything else stutters, until a process
\* id is used again.
THEOREM ImplementsOwnership ==
  ASSUME CarefulRecovery
  PROVE  LockSpec => OwnsOnce
<1>1. LockInit => Ownership!Init
  BY DEF LockInit, Ownership!Init, Owning, Spent, Owner
<1>2. NamesInv /\ (UniquePids => LockInv) /\ (UniquePids => LockInv)' /\ [LockNext]_lockVars
        => [UniquePids' => Ownership!Next]_<<Owning, Spent>>
  BY UniqueBefore, OwnershipStep
<1> QED BY <1>1, <1>2, LockInvariance, NamesInvariance, PTL DEF LockSpec, OwnsOnce
=============================================================================
