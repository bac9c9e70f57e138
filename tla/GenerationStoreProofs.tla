------------------------ MODULE GenerationStoreProofs ------------------------
(***************************************************************************)
(* Proofs about GenerationStore for any number of sessions, generations    *)
(* and saves, with crashes at every step, under CarefulRecovery: only the  *)
(* lock of a session that has ended is recovered.                          *)
(* Damage is met by counting: of the newest records a cleanup keeps, those *)
(* lost are no more than those damaged.  The refinement of SharedRegister  *)
(* maps each step, from the same invariant and that one.                   *)
(***************************************************************************)
EXTENDS GenerationStore, FiniteSetTheorems, TLAPS

\* Only the session that owns the root has a running save (or runs at all).
OwnerRuns == \A s \in Session : Running(s) => owning = {s}

\* What the save of a session knows of the directory, step by step.
SaveInv(s) ==
    /\ Saving(s) => saves[s] # 0
    /\ pc[s] \in {"create", "write", "reverify", "link"} =>
          /\ Published = listing[s]
          /\ Cardinality(Published) <= MaxGenerations
          /\ next[s] \in Gen
          /\ \A g \in Published : g < next[s]
    /\ pc[s] \in {"unlink", "clean"} =>
          /\ next[s] \in Published
          /\ \A g \in listing[s] : g < next[s]
          /\ doomed[s] \subseteq listing[s] \/ pc[s] = "unlink"
    /\ pc[s] = "create" => Entries + 2 <= MaxEntries
    /\ pc[s] \in {"write", "reverify", "link"} => Entries + 1 <= MaxEntries

\* Every acknowledged number is covered by one that exists, and what exists can
\* be decoded unless it has been damaged.
AckedInv ==
    /\ \A g \in acked : \E h \in Published : h >= g
    /\ damage = 0 => \A g \in Published : record[g] \in Value

IInv ==
    /\ TypeOK
    /\ IsFiniteSet(pending)
    /\ WithinScanLimit
    /\ OwnerRuns
    /\ \A s \in Session : SaveInv(s)
    /\ AckedInv

-----------------------------------------------------------------------------
LEMMA TypeStep == IInv /\ [Next]_vars => TypeOK'
<1> SUFFICES ASSUME IInv, [Next]_vars PROVE TypeOK'
  OBVIOUS
<1> USE StoreConstants DEF StoreConstants, IInv, TypeOK, Place, disk, lock, saving, Goto
<1>0. \A s \in Session : Saving(s) => Current(s) \in Value
  BY DEF SaveInv, Current, Value
<1>1. CASE UNCHANGED vars
  BY <1>1 DEF vars
<1>2. CASE Damage
  <2>1. PICK g \in Gen, d \in Damages : record' = [record EXCEPT ![g] = d]
    BY <1>2 DEF Damage, Published
  <2>2. d \in {Corrupt, Foreign}
    OBVIOUS
  <2>3. record' \in [Gen -> Value \cup {Absent, Corrupt, Foreign}]
    BY <2>1, <2>2
  <2> QED BY <1>2, <2>3 DEF Damage
<1>3. ASSUME NEW s \in Session,
             \/ Acquire(s) \/ Release(s) \/ ReleaseFails(s) \/ Crash(s) \/ RecoverAbandoned(s)
      PROVE  TypeOK'
  BY <1>3 DEF Acquire, Release, ReleaseFails, Crash, RecoverAbandoned, Lock!Take, Lock!Drop
<1>4. ASSUME NEW s \in Session,
             \/ Load(s) \/ LoadCurrent(s) \/ WritePending(s) \/ VerifyAgain(s) \/ FailEarly(s)
      PROVE  TypeOK'
  BY <1>4 DEF Load, LoadCurrent, WritePending, VerifyAgain, FailEarly
<1>5. ASSUME NEW s \in Session, BeginSave(s) PROVE TypeOK'
  BY <1>5 DEF BeginSave
<1>6. ASSUME NEW s \in Session, ListGenerations(s) PROVE TypeOK'
  BY <1>6 DEF ListGenerations, Published, Gen
<1>7. ASSUME NEW s \in Session,
             CreatePending(s) \/ FailLate(s) \/ RemovePending(s) \/ ReturnOk(s)
      PROVE  TypeOK'
  <2>1. CASE CreatePending(s)
    BY <1>0, <2>1 DEF CreatePending, Saving
  <2>2. CASE FailLate(s) \/ RemovePending(s)
    BY <2>2 DEF FailLate, RemovePending
  <2>3. CASE ReturnOk(s)
    BY <2>3 DEF ReturnOk, SaveInv, Published
  <2> QED BY <1>7, <2>1, <2>2, <2>3
<1>8. ASSUME NEW s \in Session, Publish(s) \/ RemoveGeneration(s) PROVE TypeOK'
  BY <1>0, <1>8 DEF Publish, RemoveGeneration, Saving
<1> QED BY <1>1, <1>2, <1>3, <1>4, <1>5, <1>6, <1>7, <1>8 DEF Next, Save

-----------------------------------------------------------------------------
LEMMA Sole ==
  ASSUME IInv, NEW s \in Session, Running(s), NEW k \in Session, k # s
  PROVE  ~Running(k)
BY DEF IInv, OwnerRuns

\* The directory is finite, so its entries can be counted.
LEMMA Counted ==
  ASSUME IInv
  PROVE  /\ IsFiniteSet(Published) /\ Cardinality(Published) \in Nat
         /\ IsFiniteSet(pending) /\ Cardinality(pending) \in Nat
         /\ Entries \in Nat
<1>1. IsFiniteSet(Gen)
  BY StoreConstants, FS_Interval DEF StoreConstants, Gen
<1>2. IsFiniteSet(Published)
  BY <1>1, FS_Subset DEF Published
<1> QED BY <1>2, FS_CardinalityType DEF IInv, Entries

\* Only one session runs, before a step as after it.
LEMMA OwnerStep ==
  ASSUME IInv, CarefulRecovery, [Next]_vars
  PROVE  OwnerRuns'
<1> USE DEF IInv, TypeOK, OwnerRuns, Running, Goto
<1>1. CASE UNCHANGED vars
  BY <1>1 DEF vars, lock
<1>2. CASE Damage
  BY <1>2 DEF Damage, lock
<1>3. ASSUME NEW s \in Session, Acquire(s) PROVE OwnerRuns'
  BY <1>3 DEF Acquire, Lock!Take
<1>4. ASSUME NEW s \in Session, Release(s) \/ RecoverAbandoned(s) PROVE OwnerRuns'
  BY <1>4 DEF Release, RecoverAbandoned, Lock!Drop
<1>5. ASSUME NEW s \in Session, Load(s) \/ ReleaseFails(s) \/ Crash(s) \/ Save(s)
      PROVE OwnerRuns'
  BY <1>5 DEF Load, ReleaseFails, Crash, Save, BeginSave, LoadCurrent, ListGenerations,
       CreatePending, WritePending, VerifyAgain, Publish, RemovePending, RemoveGeneration,
       ReturnOk, FailEarly, FailLate, lock
<1> QED BY <1>1, <1>2, <1>3, <1>4, <1>5 DEF Next

\* Steps that leave the directory alone.
LEMMA QuietSteps ==
  ASSUME IInv, TypeOK', OwnerRuns', NEW s \in Session,
         \/ Acquire(s) \/ Load(s) \/ Release(s) \/ ReleaseFails(s) \/ Crash(s)
         \/ RecoverAbandoned(s) \/ BeginSave(s) \/ LoadCurrent(s) \/ ListGenerations(s)
         \/ WritePending(s) \/ VerifyAgain(s) \/ ReturnOk(s) \/ FailEarly(s)
  PROVE  IInv'
<1> USE DEF IInv, TypeOK, Goto, disk, lock, saving
<1>1. /\ UNCHANGED <<record, pending, damage>>
      /\ \A k \in Session \ {s} : /\ pc'[k] = pc[k] /\ saves'[k] = saves[k]
                                   /\ listing'[k] = listing[k] /\ next'[k] = next[k]
                                   /\ doomed'[k] = doomed[k]
  BY DEF Acquire, Load, Release, ReleaseFails, Crash, RecoverAbandoned, BeginSave,
       LoadCurrent, ListGenerations, WritePending, VerifyAgain, ReturnOk, FailEarly
<1>2. Published' = Published /\ Entries' = Entries
  BY <1>1 DEF Published, Entries
<1>3. IsFiniteSet(pending)' /\ WithinScanLimit'
  BY <1>1, <1>2 DEF WithinScanLimit
<1>4. ASSUME NEW k \in Session, k # s PROVE SaveInv(k)'
  BY <1>1, <1>2, <1>4 DEF SaveInv, Saving
<1>5. SaveInv(s)'
  <2>1. CASE \/ Acquire(s) \/ Load(s) \/ Release(s) \/ ReleaseFails(s) \/ Crash(s)
             \/ FailEarly(s) \/ ReturnOk(s)
    BY <2>1 DEF Acquire, Load, Release, ReleaseFails, Crash, FailEarly, ReturnOk, SaveInv,
         Saving
  <2>2. CASE RecoverAbandoned(s)
    BY <1>2, <2>2 DEF RecoverAbandoned, SaveInv, Saving
  <2>3. CASE BeginSave(s)
    BY <2>3 DEF BeginSave, SaveInv, Saving
  <2>4. CASE LoadCurrent(s) \/ WritePending(s) \/ VerifyAgain(s)
    BY <1>2, <2>4 DEF LoadCurrent, WritePending, VerifyAgain, SaveInv, Saving
  <2>5. CASE ListGenerations(s)
    <3>1. PICK top \in Published \cup {0} : /\ \A g \in Published : g <= top
                                            /\ top + 1 \in Gen
                                            /\ next' = [next EXCEPT ![s] = top + 1]
      BY <2>5 DEF ListGenerations
    <3>2. Entries + 2 <= MaxEntries /\ Cardinality(Published) <= MaxGenerations
      BY <2>5, Counted, StoreConstants DEF StoreConstants, ListGenerations, Discoverable
    <3>3. \A g \in Published : g \in Nat /\ top \in Nat
      BY DEF Published, Gen
    <3>4. /\ pc'[s] = "create" /\ listing'[s] = Published /\ next'[s] = top + 1
          /\ pc[s] = "list" /\ saves' = saves
      BY <2>5, <3>1 DEF ListGenerations
    <3> QED BY <1>2, <3>1, <3>2, <3>3, <3>4 DEF SaveInv, Saving
  <2> QED BY <2>1, <2>2, <2>3, <2>4, <2>5
<1>6. AckedInv'
  <2>1. CASE ReturnOk(s)
    <3>1. pc[s] = "clean" /\ acked' = acked \cup {next[s]}
      BY <2>1 DEF ReturnOk
    <3>2. next[s] \in Published
      BY <3>1 DEF SaveInv
    <3>3. next[s] \in Nat
      BY <3>2 DEF Published, Gen
    <3> QED BY <1>1, <1>2, <3>1, <3>2, <3>3 DEF AckedInv
  <2>2. CASE ~ReturnOk(s)
    <3>1. acked' = acked
      BY <2>2 DEF Acquire, Load, Release, ReleaseFails, Crash, RecoverAbandoned, BeginSave,
           LoadCurrent, ListGenerations, WritePending, VerifyAgain, FailEarly
    <3> QED BY <1>1, <1>2, <3>1 DEF AckedInv
  <2> QED BY <2>1, <2>2
<1> QED BY <1>3, <1>4, <1>5, <1>6

\* Damage changes what records decode to, not which exist.
LEMMA DamageStep ==
  ASSUME IInv, TypeOK', OwnerRuns', Damage
  PROVE  IInv'
<1> USE StoreConstants DEF StoreConstants, IInv, TypeOK, Damage, lock, saving
<1>1. PICK g \in Published, d \in Damages : record' = [record EXCEPT ![g] = d]
  OBVIOUS
<1>2. Published' = Published
  BY <1>1 DEF Published
<1>3. Entries' = Entries
  BY <1>2 DEF Entries
<1>4. damage' # 0
  OBVIOUS
<1>5. \A s \in Session : SaveInv(s)'
  BY <1>2, <1>3 DEF SaveInv, Saving
<1>6. AckedInv' /\ WithinScanLimit'
  BY <1>2, <1>3, <1>4 DEF AckedInv, WithinScanLimit
<1> QED BY <1>5, <1>6

\* One more element adds at most one to the cardinality.
LEMMA OneMore ==
  ASSUME NEW S, NEW x, IsFiniteSet(S)
  PROVE  /\ IsFiniteSet(S \cup {x})
         /\ Cardinality(S \cup {x}) \in Nat
         /\ Cardinality(S \cup {x}) <= Cardinality(S) + 1
<1>1. IsFiniteSet(S \cup {x}) /\ Cardinality(S) \in Nat
  BY FS_AddElement, FS_CardinalityType
<1>2. Cardinality(S \cup {x}) \in Nat
  BY <1>1, FS_CardinalityType
<1>3. Cardinality(S \cup {x}) = IF x \in S THEN Cardinality(S) ELSE Cardinality(S) + 1
  BY FS_AddElement
<1> QED BY <1>1, <1>2, <1>3

\* Steps that change the pending files only.
LEMMA PendingSteps ==
  ASSUME IInv, TypeOK', OwnerRuns', NEW s \in Session,
         CreatePending(s) \/ FailLate(s) \/ RemovePending(s)
  PROVE  IInv'
<1> USE DEF IInv, TypeOK, Goto, lock, saving
<1>1. /\ UNCHANGED <<record, damage, acked, saves, listing, next>>
      /\ \A k \in Session \ {s} : pc'[k] = pc[k] /\ doomed'[k] = doomed[k]
      /\ Running(s)
  BY DEF CreatePending, FailLate, RemovePending, Running
<1>2. Published' = Published
  BY <1>1 DEF Published
<1>3. AckedInv'
  BY <1>1, <1>2 DEF AckedInv
<1>4. ASSUME NEW k \in Session, k # s PROVE SaveInv(k)'
  <2>1. ~Running(k)
    BY <1>1, <1>4, Sole
  <2> QED BY <1>1, <1>4, <2>1 DEF SaveInv, Saving, Running
<1>5. CASE CreatePending(s)
  <2>1. pending' = pending \cup {Current(s)} /\ pc[s] = "create" /\ pc'[s] = "write"
    BY <1>5 DEF CreatePending
  <2>2. IsFiniteSet(pending') /\ Cardinality(pending') \in Nat
        /\ Cardinality(pending') <= Cardinality(pending) + 1
    BY <2>1, OneMore, Counted
  <2>3. Entries' \in Nat /\ Entries' <= Entries + 1
    BY <1>2, <2>2, Counted DEF Entries
  <2>4. Entries' + 1 <= MaxEntries /\ WithinScanLimit'
    <3>1. Entries + 2 <= MaxEntries
      BY <2>1 DEF SaveInv, Saving
    <3>2. Entries \in Nat /\ MaxEntries \in Nat
      BY Counted, StoreConstants DEF StoreConstants
    <3>3. \A m, n, limit \in Nat : m <= n + 1 /\ n + 2 <= limit => m + 1 <= limit /\ m <= limit
      OBVIOUS
    <3>4. Entries' + 1 <= MaxEntries /\ Entries' <= MaxEntries
      BY <2>3, <3>1, <3>2, <3>3
    <3> QED BY <1>2, <3>4 DEF WithinScanLimit
  <2>5. SaveInv(s)'
    BY <1>1, <1>2, <2>1, <2>4 DEF SaveInv, Saving
  <2> QED BY <1>3, <1>4, <2>2, <2>4, <2>5
<1>6. CASE FailLate(s) \/ RemovePending(s)
  <2>1. pending' \subseteq pending
    BY <1>6 DEF FailLate, RemovePending
  <2>2. IsFiniteSet(pending') /\ Cardinality(pending') <= Cardinality(pending)
        /\ Cardinality(pending') \in Nat
    BY <2>1, FS_Subset, FS_CardinalityType, Counted
  <2>3. WithinScanLimit'
    BY <1>2, <2>2, Counted, StoreConstants DEF StoreConstants, Entries, WithinScanLimit
  <2>4. SaveInv(s)'
    BY <1>1, <1>2, <1>6 DEF FailLate, RemovePending, SaveInv, Saving
  <2> QED BY <1>3, <1>4, <2>2, <2>3, <2>4
<1> QED BY <1>5, <1>6

\* Publication: the new number exceeds all that exist.
LEMMA PublishStep ==
  ASSUME IInv, TypeOK', OwnerRuns', NEW s \in Session, Publish(s)
  PROVE  IInv'
<1> USE DEF IInv, TypeOK, Goto, lock, saving, Publish
<1>1. /\ pc[s] = "link" /\ pc'[s] = "unlink" /\ next[s] \in Gen /\ Current(s) \in Value
      /\ record' = [record EXCEPT ![next[s]] = Current(s)]
      /\ UNCHANGED <<pending, damage, acked, saves, listing, next, doomed>>
      /\ \A k \in Session \ {s} : pc'[k] = pc[k]
  BY DEF SaveInv, Saving, Current, Value
<1>2. Published' = Published \cup {next[s]}
  BY <1>1, StoreConstants DEF StoreConstants, Published
<1>3. /\ Entries' \in Nat /\ Entries' <= Entries + 1
      /\ Cardinality(Published') \in Nat
      /\ Cardinality(Published') <= Cardinality(Published) + 1
  <2>1. /\ IsFiniteSet(Published') /\ Cardinality(Published') \in Nat
        /\ Cardinality(Published') <= Cardinality(Published) + 1
    BY <1>2, OneMore, Counted
  <2> QED BY <1>1, <2>1, Counted DEF Entries
<1>4. WithinScanLimit'
  BY <1>1, <1>3, Counted, StoreConstants DEF StoreConstants, SaveInv, WithinScanLimit
<1>5. ASSUME NEW k \in Session, k # s PROVE SaveInv(k)'
  <2>1. ~Running(k)
    BY <1>1, <1>5, Sole DEF Running
  <2> QED BY <1>1, <1>5, <2>1 DEF SaveInv, Saving, Running
<1>6. SaveInv(s)'
  BY <1>1, <1>2 DEF SaveInv, Saving
<1>7. AckedInv'
  <2>1. \A g \in acked' : \E h \in Published' : h >= g
    BY <1>1, <1>2 DEF AckedInv
  <2>2. damage' = 0 => \A g \in Published' : record'[g] \in Value
    BY <1>1, <1>2 DEF AckedInv, Published
  <2> QED BY <2>1, <2>2 DEF AckedInv
<1> QED BY <1>1, <1>4, <1>5, <1>6, <1>7

\* Cleanup removes only what is older than the generation just published.
LEMMA CleanupStep ==
  ASSUME IInv, TypeOK', OwnerRuns', NEW s \in Session, RemoveGeneration(s)
  PROVE  IInv'
<1> USE DEF IInv, TypeOK, lock, saving
<1>1. PICK g \in doomed[s] : /\ record' \in {record, [record EXCEPT ![g] = Absent]}
                             /\ doomed' = [doomed EXCEPT ![s] = @ \ {g}]
  BY DEF RemoveGeneration
<1>2. /\ pc[s] = "clean" /\ UNCHANGED <<pending, damage, acked, saves, listing, next, pc>>
      /\ g \in Gen /\ g < next[s] /\ next[s] \in Published /\ next[s] \in Gen
      /\ \A h \in listing[s] : h < next[s]
      /\ doomed[s] \subseteq listing[s]
  BY <1>1 DEF RemoveGeneration, SaveInv, Published
<1>3. Published \ {g} \subseteq Published' /\ Published' \subseteq Published
  BY <1>1, <1>2 DEF Published
<1>4. \A h \in Published' : record'[h] = record[h]
  BY <1>1, <1>2 DEF Published
<1>5. WithinScanLimit'
  <2>1. Cardinality(Published') <= Cardinality(Published) /\ Cardinality(Published') \in Nat
    BY <1>3, FS_Subset, FS_CardinalityType, Counted
  <2> QED BY <1>2, <2>1, Counted, StoreConstants
          DEF StoreConstants, Entries, WithinScanLimit
<1>6. ASSUME NEW k \in Session, k # s PROVE SaveInv(k)'
  <2>1. ~Running(k)
    BY <1>2, <1>6, Sole DEF Running
  <2> QED BY <1>2, <1>6, <2>1 DEF SaveInv, Saving, Running
<1>7. SaveInv(s)'
  <2>1. next[s] \in Published' /\ doomed'[s] \subseteq listing[s]
    BY <1>1, <1>2, <1>3 DEF Gen
  <2> QED BY <1>2, <2>1 DEF SaveInv, Saving
<1>8. AckedInv'
  <2>1. ASSUME NEW a \in acked PROVE \E h \in Published' : h >= a
    <3>1. PICK h \in Published : h >= a
      BY DEF AckedInv
    <3>2. CASE h = g
      BY <1>2, <1>3, <3>1, <3>2 DEF Gen
    <3>3. CASE h # g
      BY <1>3, <3>1, <3>3
    <3> QED BY <3>2, <3>3
  <2>2. damage' = 0 => \A h \in Published' : record'[h] \in Value
    BY <1>2, <1>3, <1>4 DEF AckedInv
  <2> QED BY <1>2, <2>1, <2>2 DEF AckedInv
<1> QED BY <1>2, <1>5, <1>6, <1>7, <1>8

-----------------------------------------------------------------------------
LEMMA InitIInv == Init => IInv
<1> SUFFICES ASSUME Init PROVE IInv
  OBVIOUS
<1> USE StoreConstants DEF StoreConstants, Init
<1>1. TypeOK
  BY DEF TypeOK, Place, Lock!Init
<1>2. Published = {}
  BY DEF Published
<1>3. Entries = 0 /\ IsFiniteSet(pending)
  BY <1>2, FS_EmptySet DEF Entries
<1>4. OwnerRuns /\ WithinScanLimit /\ AckedInv
  BY <1>2, <1>3, FS_EmptySet DEF OwnerRuns, Running, WithinScanLimit, AckedInv
<1>5. \A s \in Session : SaveInv(s)
  BY DEF SaveInv, Saving
<1> QED BY <1>1, <1>3, <1>4, <1>5 DEF IInv

LEMMA StepIInv ==
  ASSUME CarefulRecovery, IInv, [Next]_vars
  PROVE  IInv'
<1>1. TypeOK' /\ OwnerRuns'
  BY TypeStep, OwnerStep
<1>2. CASE UNCHANGED vars
  <2>1. Published' = Published /\ Entries' = Entries
    BY <1>2 DEF vars, disk, Published, Entries
  <2> QED BY <1>1, <1>2, <2>1 DEF vars, disk, lock, saving, IInv, WithinScanLimit, SaveInv,
             Saving, AckedInv
<1>3. CASE Next
  BY <1>1, <1>3, QuietSteps, DamageStep, PendingSteps, PublishStep, CleanupStep DEF Next, Save
<1> QED BY <1>2, <1>3

LEMMA Invariance ==
  ASSUME CarefulRecovery
  PROVE  Spec => []IInv
<1>1. IInv /\ [Next]_vars => IInv'
  BY StepIInv
<1> QED BY <1>1, InitIInv, PTL DEF Spec

\* The types hold in every reachable state.
THEOREM TypeCorrect ==
  ASSUME CarefulRecovery
  PROVE  Spec => []TypeOK
<1>1. IInv => TypeOK
  BY DEF IInv
<1> QED BY <1>1, Invariance, PTL

\* A save publishes into the very directory it has listed, whatever other
\* sessions do and wherever they crash.
THEOREM ListingIsStable ==
  ASSUME CarefulRecovery
  PROVE  Spec => []StableListing
<1>1. IInv => StableListing
  BY DEF IInv, SaveInv, StableListing
<1> QED BY <1>1, Invariance, PTL

\* No sequence of interrupted saves fills the directory beyond the entries a
\* listing accepts, or beyond one generation more than it accepts.
THEOREM ScanLimitKept ==
  ASSUME CarefulRecovery
  PROVE  Spec => []WithinScanLimit
<1>1. IInv => WithinScanLimit
  BY DEF IInv
<1> QED BY <1>1, Invariance, PTL

\* A save can rely on its listing until it publishes; it leaves no more entries
\* than the next listing accepts, and one generation too many at most.
THEOREM ListingHeld ==
  ASSUME CarefulRecovery
  PROVE  Spec => []ListingHolds
BY ListingIsStable, ScanLimitKept, PTL DEF ListingHolds

\* Without damage every acknowledged save stays covered by one that decodes.
THEOREM AcknowledgedStaysCovered ==
  ASSUME CarefulRecovery
  PROVE  Spec => []AckedCovered
<1>1. IInv => AckedCovered
  BY DEF IInv, AckedInv, AckedCovered
<1> QED BY <1>1, Invariance, PTL

LEMMA NumbersStep ==
  ASSUME IInv, Next, NEW g \in Gen, record[g] = Absent, record'[g] # Absent
  PROVE  /\ \A h \in Published : h < g
         /\ \A h \in acked : h < g
<1> USE DEF IInv, TypeOK, disk
<1>1. PICK s \in Session : Publish(s)
  <2>1. ~Damage
    BY DEF Damage, Published
  <2>2. PICK s \in Session : /\ record' # record
                             /\ \/ Acquire(s) \/ Load(s) \/ Release(s) \/ ReleaseFails(s)
                                \/ Crash(s) \/ RecoverAbandoned(s) \/ Save(s)
    BY <2>1 DEF Next
  <2>3. ~RemoveGeneration(s)
    BY DEF RemoveGeneration
  <2> QED BY <2>2, <2>3 DEF Save, Acquire, Load, Release, ReleaseFails, Crash,
            RecoverAbandoned, BeginSave, LoadCurrent, ListGenerations, CreatePending,
            WritePending, VerifyAgain, RemovePending, ReturnOk, FailEarly, FailLate
<1>2. g = next[s] /\ \A h \in Published : h < next[s]
  BY <1>1 DEF Publish, SaveInv
<1>3. \A h \in acked : \E i \in Published : i >= h
  BY DEF AckedInv
<1>4. \A h, i \in Gen : i >= h /\ i < g => h < g
  BY DEF Gen
<1>5. Published \subseteq Gen
  BY DEF Published
<1> QED BY <1>2, <1>3, <1>4, <1>5

\* A save never publishes a number that exists, or that was ever acknowledged.
THEOREM NumbersOnlyGrow ==
  ASSUME CarefulRecovery
  PROVE  Spec => NumbersGrow
<1>1. IInv /\ [Next]_vars =>
        [\A g \in Gen : record[g] = Absent /\ record'[g] # Absent
                           => /\ \A h \in Published : h < g
                              /\ \A h \in acked : h < g]_vars
  BY NumbersStep
<1> QED BY <1>1, Invariance, PTL DEF Spec, NumbersGrow

-----------------------------------------------------------------------------
(* What makes up for damage: counting the acknowledged saves that are gone. *)

\* Induction over the finite sets below one, with the claim given as the set of
\* the sets it holds for.
LEMMA SetInduction ==
  ASSUME NEW S, IsFiniteSet(S), NEW Holds,
         {} \in Holds,
         \A T \in SUBSET S : \A x \in S \ T : T \in Holds => T \cup {x} \in Holds
  PROVE  S \in Holds
<1> SUFFICES ASSUME S \notin Holds PROVE FALSE
  OBVIOUS
<1> DEFINE Bad == {T \in SUBSET S : T \notin Holds}
<1>1. FiniteSubsetsOf(S) = SUBSET S
  BY FS_FiniteSubsetsOfFinite
<1>2. IsWellFoundedOn(StrictSubsetOrdering(S), SUBSET S)
  BY <1>1, FS_StrictSubsetOrderingWellFounded
<1>3. Bad \subseteq SUBSET S /\ Bad # {}
  OBVIOUS
<1>4. PICK T \in Bad : \A U \in Bad : ~(<<U, T>> \in StrictSubsetOrdering(S))
  <2> HIDE DEF Bad
  <2> QED BY <1>2, <1>3, WFMin
<1>5. T # {}
  OBVIOUS
<1>6. PICK x \in T : TRUE
  BY <1>5
<1>7. T \ {x} \in SUBSET S /\ T \ {x} # T
  BY <1>6
<1>8. T \ {x} \in Holds
  BY <1>4, <1>7 DEF StrictSubsetOrdering
<1>9. (T \ {x}) \cup {x} = T
  BY <1>6
<1>10. T \in Holds
  BY <1>6, <1>7, <1>8, <1>9
<1> QED BY <1>10

\* A bounded set of naturals has a largest element.
LEMMA Largest ==
  ASSUME NEW n \in Nat, NEW S \in SUBSET (0 .. n), S # {}
  PROVE  \E m \in S : \A x \in S : x <= m
<1> DEFINE Holds == {T \in SUBSET S : T = {} \/ \E m \in T : \A x \in T : x <= m}
<1>1. IsFiniteSet(S)
  <2>1. IsFiniteSet(0 .. n)
    BY FS_Interval
  <2> QED BY <2>1, FS_Subset
<1>2. {} \in Holds
  OBVIOUS
<1>3. ASSUME NEW T \in SUBSET S, NEW x \in S \ T, T \in Holds PROVE T \cup {x} \in Holds
  <2>1. CASE T = {}
    BY <2>1
  <2>2. CASE T # {}
    <3>1. PICK m \in T : \A y \in T : y <= m
      BY <1>3, <2>2
    <3>2. \A y \in T \cup {x} : y \in Int
      OBVIOUS
    <3>3. CASE x <= m
      BY <3>1, <3>3
    <3>4. CASE ~(x <= m)
      <4>1. \A y \in T \cup {x} : y <= x
        BY <3>1, <3>2, <3>4
      <4> QED BY <4>1
    <3> QED BY <3>3, <3>4
  <2> QED BY <2>1, <2>2
<1>4. S \in Holds
  <2> HIDE DEF Holds
  <2> QED BY <1>1, <1>2, <1>3, SetInduction
<1> QED BY <1>4


Above(S, d) == {i \in S : i > d}

LargestOf(S, k) == {h \in S : Cardinality(Above(S, h)) < k}

\* Where a set of numbers has k elements above d, its k largest are all above d.
LEMMA LargestOnes ==
  ASSUME NEW n \in Nat, NEW S \in SUBSET (0 .. n), NEW k \in Nat, NEW d \in S,
         Cardinality(Above(S, d)) >= k
  PROVE  /\ \A h \in LargestOf(S, k) : h > d
         /\ Cardinality(LargestOf(S, k)) >= k
<1> DEFINE top == LargestOf(S, k)
<1> USE DEF Above, LargestOf
<1>1. IsFiniteSet(S) /\ IsFiniteSet(top)
      /\ \A h : IsFiniteSet(Above(S, h)) /\ Cardinality(Above(S, h)) \in Nat
  <2>1. IsFiniteSet(0 .. n)
    BY FS_Interval
  <2>2. IsFiniteSet(S)
    BY <2>1, FS_Subset
  <2> QED BY <2>2, FS_Subset, FS_CardinalityType
<1>0. /\ \A i \in S : i \in Nat
      /\ Cardinality(Above(S, d)) >= k
  OBVIOUS
<1>2. ASSUME NEW h \in top PROVE h > d
  <2> SUFFICES ASSUME h <= d PROVE FALSE
    BY <1>0
  <2>0. Cardinality(Above(S, h)) < k
    OBVIOUS
  <2>1. Above(S, d) \subseteq Above(S, h)
    <3>1. \A i, j, l \in Nat : i > j /\ l <= j => i > l
      OBVIOUS
    <3> QED BY <1>0, <3>1
  <2>2. Cardinality(Above(S, d)) <= Cardinality(Above(S, h))
    BY <1>1, <2>1, FS_Subset
  <2> HIDE DEF top, Above, LargestOf
  <2> QED BY <1>0, <1>1, <2>0, <2>2
<1>3. Cardinality(top) >= k
  <2>0. Cardinality(top) \in Nat
    <3> HIDE DEF top, LargestOf
    <3> QED BY <1>1, FS_CardinalityType
  <2> SUFFICES ASSUME Cardinality(top) < k PROVE FALSE
    BY <2>0
  <2>1. d \in S \ top
    BY <1>2
  <2>2. PICK m \in S \ top : \A x \in S \ top : x <= m
    <3> DEFINE rest == S \ top
    <3>1. rest \in SUBSET (0 .. n) /\ rest # {}
      BY <2>1
    <3> HIDE DEF rest
    <3>2. \E m \in rest : \A x \in rest : x <= m
      BY <3>1, Largest
    <3> QED BY <3>2 DEF rest
  <2>3. Above(S, m) \subseteq top
    <3>1. \A i, j \in Nat : ~(i > j /\ i <= j)
      OBVIOUS
    <3>2. m \in Nat
      BY <1>0
    <3> HIDE DEF top, LargestOf
    <3> QED BY <1>0, <2>2, <3>1, <3>2
  <2>4. Cardinality(Above(S, m)) <= Cardinality(top)
    BY <1>1, <2>3, FS_Subset
  <2>5. Cardinality(Above(S, m)) < k
    BY <1>1, <2>0, <2>4
  <2> QED BY <2>2, <2>5
<1> QED BY <1>2, <1>3

\* What the save of a session relies on when it removes generations.
KeepInv(s) ==
    /\ pc[s] \in {"list", "create", "write", "reverify", "link"} =>
          base[s] \in Published \cup {0}
    /\ pc[s] \in {"create", "write", "reverify", "link"} =>
          \A h \in listing[s] : h > base[s] => record[h] = Corrupt
    /\ pc[s] \in {"unlink", "clean"} =>
          /\ base[s] \in listing[s] \cup {0}
          /\ \A h \in listing[s] : h > base[s] => record[h] \in {Corrupt, Absent}
          /\ \A h \in Published : h <= next[s]
          /\ \A a \in acked : a < next[s]
    /\ pc[s] = "unlink" => listing[s] \subseteq Published
    /\ pc[s] = "clean" =>
          /\ doomed[s] \subseteq listing[s] \ Keeps(listing[s], base[s])
          /\ Keeps(listing[s], base[s]) \cap listing[s] \subseteq Published

\* Enough generations above a can be decoded to outlast the damage still to come.
Damaged == {g \in Published : record[g] \notin Value}
Readable(a) == {g \in Published : g > a /\ record[g] \in Value}
Backed(a) == Cardinality(Readable(a)) + damage >= Retained

\* The acknowledged saves that damage has cost, or may yet cost.
Gone == {a \in acked \ Published : ~Backed(a)}

LossInv == Cardinality(Damaged) + Cardinality(Gone) <= damage

KeepIInv ==
    /\ IInv
    /\ \A s \in Session : KeepInv(s)
    /\ LossInv

LEMMA KeepStep ==
  ASSUME IInv, \A s \in Session : KeepInv(s), [Next]_vars
  PROVE  \A s \in Session : KeepInv(s)'
<1> USE DEF TypeOK, Goto, disk, lock, saving
<1>0. TypeOK /\ Published \subseteq Gen
  BY DEF IInv, Published
<1>1. CASE UNCHANGED vars
  <2>1. Published' = Published
    BY <1>1 DEF vars, Published
  <2> QED BY <1>1, <2>1 DEF vars, KeepInv
<1>2. CASE Damage
  <2>1. PICK g \in Published, d \in Damages :
           record[g] \in Value /\ record' = [record EXCEPT ![g] = d]
    BY <1>2 DEF Damage
  <2>2. Published' = Published
    BY <1>0, <2>1, StoreConstants DEF StoreConstants, Published
  <2>3. \A h \in Gen : record[h] \in {Corrupt, Absent} => record'[h] = record[h]
    BY <1>0, <2>1, StoreConstants DEF StoreConstants
  <2>4. UNCHANGED <<pc, base, listing, next, doomed, acked>>
    BY <1>2 DEF Damage
  <2> SUFFICES ASSUME NEW s \in Session PROVE KeepInv(s)'
    OBVIOUS
  <2>5. KeepInv(s) /\ listing[s] \subseteq Gen
    BY <1>0
  <2> QED BY <2>2, <2>3, <2>4, <2>5 DEF KeepInv
<1>3. ASSUME NEW s \in Session, Acquire(s) \/ RecoverAbandoned(s)
      PROVE  \A k \in Session : KeepInv(k)'
  <2>1. UNCHANGED <<record, base, listing, next, doomed, acked>>
    BY <1>3 DEF Acquire, RecoverAbandoned
  <2>2. Published' = Published
    BY <2>1 DEF Published
  <2>3. \A k \in Session : pc'[k] = pc[k] \/ pc'[k] = "open"
    BY <1>0, <1>3 DEF Acquire, RecoverAbandoned
  <2> QED BY <2>1, <2>2, <2>3 DEF KeepInv
<1>4. ASSUME NEW s \in Session,
             \/ Load(s) \/ Release(s) \/ ReleaseFails(s) \/ Crash(s) \/ Save(s)
      PROVE  \A k \in Session : KeepInv(k)'
  <2>1. Running(s) /\ \A k \in Session \ {s} : pc'[k] = pc[k]
    BY <1>0, <1>4 DEF Running, Load, Release, ReleaseFails, Crash, Save, BeginSave, LoadCurrent,
         ListGenerations, CreatePending, WritePending, VerifyAgain, Publish, RemovePending,
         RemoveGeneration, ReturnOk, FailEarly, FailLate
  <2>2. \A k \in Session \ {s} : KeepInv(k)'
    BY <2>1, Sole DEF KeepInv, Running
  <2>3. KeepInv(s) /\ SaveInv(s) /\ Running(s)
    BY <2>1 DEF IInv
  <2>4. CASE \/ Load(s) \/ Release(s) \/ ReleaseFails(s) \/ Crash(s) \/ BeginSave(s)
             \/ ReturnOk(s) \/ FailEarly(s) \/ FailLate(s)
    <3>1. pc'[s] \in {"open", "ready", "load", "closed", "crashed"}
      BY <1>0, <2>4 DEF Load, Release, ReleaseFails, Crash, BeginSave, ReturnOk, FailEarly,
           FailLate
    <3>2. KeepInv(s)'
      BY <3>1 DEF KeepInv
    <3> QED BY <2>2, <3>2
  <2>5. CASE LoadCurrent(s)
    <3>1. pc'[s] = "list" /\ UNCHANGED <<record, base>> /\ base[s] \in Published \cup {0}
      BY <1>0, <2>5 DEF LoadCurrent, Loads
    <3>2. KeepInv(s)'
      BY <3>1 DEF KeepInv, Published
    <3> QED BY <2>2, <3>2
  <2>6. CASE ListGenerations(s)
    <3>1. /\ pc'[s] = "create" /\ UNCHANGED <<record, base>> /\ listing'[s] = Published
          /\ Unexpected(base[s]) = {} /\ base[s] \in Published \cup {0}
      BY <1>0, <2>3, <2>6 DEF ListGenerations, KeepInv
    <3>2. \A h \in Published : h > base[s] => record[h] = Corrupt
      BY <3>1 DEF Unexpected
    <3>3. Published' = Published
      BY <3>1 DEF Published
    <3>4. KeepInv(s)'
      BY <3>1, <3>2, <3>3 DEF KeepInv
    <3> QED BY <2>2, <3>4
  <2>7. CASE CreatePending(s) \/ WritePending(s) \/ VerifyAgain(s)
    <3>1. /\ pc[s] \in {"create", "write", "reverify"}
          /\ pc'[s] \in {"write", "reverify", "link"}
          /\ UNCHANGED <<record, base, listing>>
      BY <1>0, <2>7 DEF CreatePending, WritePending, VerifyAgain
    <3>2. Published' = Published
      BY <3>1 DEF Published
    <3>3. KeepInv(s)'
      BY <2>3, <3>1, <3>2 DEF KeepInv
    <3> QED BY <2>2, <3>3
  <2>8. CASE Publish(s)
    <3>1. /\ pc[s] = "link" /\ pc'[s] = "unlink" /\ next[s] \in Gen
          /\ record' = [record EXCEPT ![next[s]] = Current(s)]
          /\ UNCHANGED <<base, listing, next, acked>>
          /\ Current(s) \in Value
          /\ \A g \in Published : g < next[s]
          /\ Published = listing[s]
      BY <1>0, <2>3, <2>8 DEF Publish, SaveInv, Saving, Current, Value
    <3>2. Published' = Published \cup {next[s]}
      BY <1>0, <3>1, StoreConstants DEF StoreConstants, Published
    <3>3. \A h \in Published' : h <= next[s]
      BY <1>0, <3>1, <3>2 DEF Gen
    <3>4. \A a \in acked : a < next[s]
      <4>1. \A a \in acked : \E h \in Published : h >= a
        BY DEF IInv, AckedInv
      <4>2. \A h, i \in Gen : i >= h /\ i < next[s] => h < next[s]
        BY <3>1 DEF Gen
      <4> QED BY <1>0, <3>1, <4>1, <4>2
    <3>5. \A h \in listing[s] : h > base[s] => record'[h] \in {Corrupt, Absent}
      <4>1. \A h \in listing[s] : h # next[s] /\ h \in Gen
        BY <1>0, <3>1 DEF Gen
      <4>2. \A h \in listing[s] : record'[h] = record[h]
        BY <1>0, <3>1, <4>1
      <4> QED BY <2>3, <3>1, <4>2 DEF KeepInv
    <3>6. base[s] \in listing[s] \cup {0}
      BY <2>3, <3>1 DEF KeepInv
    <3>7. KeepInv(s)'
      BY <3>1, <3>2, <3>3, <3>4, <3>5, <3>6 DEF KeepInv
    <3> QED BY <2>2, <3>7
  <2>9. CASE RemovePending(s)
    <3>1. /\ pc[s] = "unlink" /\ pc'[s] = "clean" /\ UNCHANGED <<record, base, listing, next, acked>>
          /\ doomed'[s] = listing[s] \ Keeps(listing[s], base[s])
      BY <1>0, <2>9 DEF RemovePending
    <3>2. Published' = Published /\ listing[s] \subseteq Published
      BY <2>3, <3>1 DEF Published, KeepInv
    <3> HIDE DEF TypeOK
    <3>3. /\ doomed'[s] \subseteq listing'[s] \ Keeps(listing'[s], base'[s])
          /\ Keeps(listing'[s], base'[s]) \cap listing'[s] \subseteq Published'
      BY <3>1, <3>2 DEF Keeps
    <3>4. KeepInv(s)'
      BY <2>3, <3>1, <3>2, <3>3 DEF KeepInv
    <3> QED BY <2>2, <3>4
  <2>10. CASE RemoveGeneration(s)
    <3>1. /\ pc[s] = "clean" /\ UNCHANGED <<pc, base, listing, next, acked>>
          /\ \E g \in doomed[s] : /\ record' \in {record, [record EXCEPT ![g] = Absent]}
                                  /\ doomed' = [doomed EXCEPT ![s] = @ \ {g}]
      BY <2>10 DEF RemoveGeneration
    <3>2. PICK g \in doomed[s] : /\ record' \in {record, [record EXCEPT ![g] = Absent]}
                                 /\ doomed' = [doomed EXCEPT ![s] = @ \ {g}]
      BY <3>1
    <3>3. /\ doomed'[s] \subseteq doomed[s]
          /\ doomed[s] \subseteq listing[s] \ Keeps(listing[s], base[s])
          /\ Keeps(listing[s], base[s]) \cap listing[s] \subseteq Published
      BY <1>0, <2>3, <3>1, <3>2 DEF KeepInv
    <3>4. /\ Published \ {g} \subseteq Published' /\ Published' \subseteq Published
          /\ \A h \in Gen : record'[h] = record[h] \/ record'[h] = Absent
      BY <1>0, <3>2 DEF Published
    <3>5. Keeps(listing[s], base[s]) \cap listing[s] \subseteq Published'
      BY <3>2, <3>3, <3>4
    <3>6. \A h \in listing[s] : h > base[s] => record'[h] \in {Corrupt, Absent}
      BY <1>0, <2>3, <3>1, <3>4 DEF KeepInv
    <3>7. KeepInv(s)'
      BY <2>3, <3>1, <3>3, <3>4, <3>5, <3>6 DEF KeepInv
    <3> QED BY <2>2, <3>7
  <2> QED BY <1>4, <2>4, <2>5, <2>6, <2>7, <2>8, <2>9, <2>10 DEF Save
<1> QED BY <1>1, <1>2, <1>3, <1>4 DEF Next

\* What is counted is finite.
LEMMA LossCounted ==
  ASSUME TypeOK
  PROVE  /\ IsFiniteSet(Published) /\ IsFiniteSet(Damaged) /\ IsFiniteSet(Gone)
         /\ Cardinality(Damaged) \in Nat /\ Cardinality(Gone) \in Nat
         /\ \A a : IsFiniteSet(Readable(a)) /\ Cardinality(Readable(a)) \in Nat
         /\ damage \in Nat
<1>1. IsFiniteSet(Gen)
  BY StoreConstants, FS_Interval DEF StoreConstants, Gen
<1>2. IsFiniteSet(Published) /\ Published \subseteq Gen /\ Gone \subseteq Gen
  BY <1>1, FS_Subset DEF Published, Gone, TypeOK
<1>3. Damaged \subseteq Published /\ \A a : Readable(a) \subseteq Published
  BY DEF Damaged, Readable
<1>4. IsFiniteSet(Damaged) /\ IsFiniteSet(Gone) /\ \A a : IsFiniteSet(Readable(a))
  BY <1>1, <1>2, <1>3, FS_Subset
<1> QED BY <1>2, <1>4, FS_CardinalityType, StoreConstants DEF StoreConstants, TypeOK

\* A number stays backed while as many generations above it can be decoded; the
\* more stay backed, the fewer are gone.
LEMMA GoneShrinks ==
  ASSUME TypeOK, TypeOK', LossInv, damage' = damage,
         Cardinality(Damaged') <= Cardinality(Damaged), Gone' \subseteq Gone
  PROVE  LossInv'
<1>1. Cardinality(Gone') <= Cardinality(Gone) /\ Cardinality(Gone') \in Nat
  BY LossCounted, FS_Subset, FS_CardinalityType
<1>2. IsFiniteSet(Damaged') /\ Cardinality(Damaged') \in Nat
  <2>1. IsFiniteSet(Gen)
    BY StoreConstants, FS_Interval DEF StoreConstants, Gen
  <2>2. Damaged' \subseteq Gen
    BY DEF Damaged, Published
  <2> QED BY <2>1, <2>2, FS_Subset, FS_CardinalityType
<1> QED BY <1>1, <1>2, LossCounted DEF LossInv

LEMMA LossQuiet ==
  ASSUME KeepIInv, TypeOK', UNCHANGED <<record, damage>>, acked' \ acked \subseteq Published
  PROVE  LossInv'
<1>1. Published' = Published
  BY DEF Published
<1>2. Damaged' = Damaged /\ \A a : Readable(a)' = Readable(a)
  BY <1>1 DEF Damaged, Readable
<1>3. Gone' \subseteq Gone
  BY <1>1, <1>2 DEF Gone, Backed
<1> QED BY <1>2, <1>3, GoneShrinks, LossCounted DEF KeepIInv, IInv

\* One more record cannot be decoded, and damage has counted it.
LEMMA LossDamage ==
  ASSUME KeepIInv, TypeOK', Damage
  PROVE  LossInv'
<1> USE DEF KeepIInv, IInv
<1>1. PICK g \in Published, d \in Damages :
         record[g] \in Value /\ record' = [record EXCEPT ![g] = d]
  BY DEF Damage
<1>2. g \in Gen /\ d \notin Value /\ d # Absent /\ damage' = damage + 1 /\ acked' = acked
  BY StoreConstants DEF StoreConstants, Damage, Published
<1>3. Published' = Published
  BY <1>1, <1>2 DEF Published, TypeOK
<1>4. Damaged' = Damaged \cup {g} /\ \A a : Readable(a) \subseteq Readable(a)' \cup {g}
  BY <1>1, <1>2, <1>3 DEF Damaged, Readable, Published, TypeOK
<1>5. /\ Cardinality(Damaged') \in Nat
      /\ Cardinality(Damaged') <= Cardinality(Damaged) + 1
  BY <1>4, OneMore, LossCounted
<1>6. ASSUME NEW a PROVE Backed(a) => Backed(a)'
  <2>1. IsFiniteSet(Readable(a)') /\ Cardinality(Readable(a)') \in Nat
    <3>1. Readable(a)' \subseteq Published
      BY <1>3 DEF Readable
    <3> QED BY <3>1, LossCounted, FS_Subset, FS_CardinalityType
  <2>2. /\ IsFiniteSet(Readable(a)' \cup {g})
        /\ Cardinality(Readable(a)' \cup {g}) \in Nat
        /\ Cardinality(Readable(a)' \cup {g}) <= Cardinality(Readable(a)') + 1
    BY <2>1, OneMore
  <2>3. Cardinality(Readable(a)) <= Cardinality(Readable(a)' \cup {g})
    BY <1>4, <2>2, FS_Subset
  <2> QED BY <1>2, <2>1, <2>2, <2>3, LossCounted, StoreConstants DEF StoreConstants, Backed
<1>7. Gone' \subseteq Gone
  BY <1>2, <1>3, <1>6 DEF Gone
<1>8. Cardinality(Gone') <= Cardinality(Gone) /\ Cardinality(Gone') \in Nat
  BY <1>7, LossCounted, FS_Subset, FS_CardinalityType
<1> QED BY <1>2, <1>5, <1>8, LossCounted DEF LossInv

\* A new generation costs nothing.
LEMMA LossPublish ==
  ASSUME KeepIInv, TypeOK', NEW s \in Session, Publish(s)
  PROVE  LossInv'
<1> USE DEF KeepIInv, IInv
<1>1. /\ next[s] \in Gen /\ record[next[s]] = Absent /\ Current(s) \in Value
      /\ record' = [record EXCEPT ![next[s]] = Current(s)]
      /\ UNCHANGED <<damage, acked>>
  BY DEF Publish, disk, SaveInv, Saving, Current, Value, TypeOK
<1>2. Published' = Published \cup {next[s]}
  BY <1>1, StoreConstants DEF StoreConstants, Published, TypeOK
<1>3. \A g \in Published : record'[g] = record[g]
  BY <1>1 DEF Published, TypeOK
<1>4. record'[next[s]] \in Value
  BY <1>1 DEF TypeOK
<1>5. Damaged' = Damaged /\ \A a : Readable(a) \subseteq Readable(a)'
  BY <1>2, <1>3, <1>4 DEF Damaged, Readable
<1>6. ASSUME NEW a PROVE Backed(a) => Backed(a)'
  <2>1. Readable(a)' \subseteq Published \cup {next[s]}
    BY <1>2 DEF Readable
  <2>2. IsFiniteSet(Published \cup {next[s]})
    BY LossCounted, FS_AddElement
  <2>3. IsFiniteSet(Readable(a)')
    BY <2>1, <2>2, FS_Subset
  <2>4. Cardinality(Readable(a)) <= Cardinality(Readable(a)') /\ Cardinality(Readable(a)') \in Nat
    BY <1>5, <2>3, FS_Subset, FS_CardinalityType
  <2> QED BY <1>1, <2>4, LossCounted, StoreConstants DEF StoreConstants, Backed
<1>7. Gone' \subseteq Gone
  BY <1>1, <1>2, <1>6 DEF Gone
<1> QED BY <1>1, <1>5, <1>7, GoneShrinks, LossCounted

\* Where a generation is removed that was older than the one saved on top of, what
\* cleanup keeps above it backs it and all below it.
LEMMA RemovedIsBacked ==
  ASSUME KeepIInv, TypeOK', NEW s \in Session, pc[s] = "clean",
         UNCHANGED <<damage, acked>>,
         NEW g \in doomed[s], g < base[s], record' = [record EXCEPT ![g] = Absent],
         NEW a \in Nat, a <= g
  PROVE  Backed(a)'
<1> DEFINE older == {h \in listing[s] : h < base[s]}
           top == LargestOf(older, Retained - 2)
           held == (top \cup {base[s]}) \cup {next[s]}
<1> USE DEF KeepIInv, IInv
<1>1. /\ listing[s] \subseteq Gen /\ g \in Gen /\ base[s] \in Gen /\ next[s] \in Gen
      /\ base[s] \in listing[s] /\ g \in older /\ g \notin top
      /\ base[s] < next[s] /\ next[s] \in Published /\ next[s] \notin listing[s]
      /\ Keeps(listing[s], base[s]) \cap listing[s] \subseteq Published
  <2>1. /\ doomed[s] \subseteq listing[s] \ Keeps(listing[s], base[s])
        /\ base[s] \in listing[s] \cup {0}
        /\ Keeps(listing[s], base[s]) \cap listing[s] \subseteq Published
    BY DEF KeepInv
  <2>2. next[s] \in Published /\ \A h \in listing[s] : h < next[s]
    BY DEF SaveInv
  <2>3. listing[s] \subseteq Gen /\ next[s] \in Gen
    BY <2>2 DEF TypeOK, Published
  <2>4. g \in Gen /\ base[s] # 0 /\ base[s] \in listing[s]
    BY <2>1, <2>3 DEF Gen
  <2>5. g \notin top
    BY <2>1 DEF Keeps, LargestOf, Above
  <2>6. next[s] \notin listing[s]
    BY <2>2, <2>3 DEF Gen
  <2> HIDE DEF top
  <2> QED BY <2>1, <2>2, <2>3, <2>4, <2>5, <2>6
<1>2. Retained \in Nat /\ Retained - 2 \in Nat /\ MaxGen \in Nat
  BY StoreConstants DEF StoreConstants
<1>3. /\ \A h \in top : h > g
      /\ Cardinality(top) >= Retained - 2
  <2>1. older \in SUBSET (0 .. MaxGen)
    BY <1>1, <1>2 DEF Gen
  <2>2. IsFiniteSet(0 .. MaxGen)
    BY <1>2, FS_Interval
  <2>3. Above(older, g) \subseteq 0 .. MaxGen
    BY <2>1 DEF Above
  <2>4. Cardinality(Above(older, g)) \in Nat
    BY <2>2, <2>3, FS_Subset, FS_CardinalityType
  <2>5. Cardinality(Above(older, g)) >= Retained - 2
    <3>1. ~(Cardinality(Above(older, g)) < Retained - 2)
      BY <1>1 DEF LargestOf
    <3> HIDE DEF older
    <3> QED BY <1>2, <2>4, <3>1
  <2> HIDE DEF older
  <2> QED BY <1>1, <1>2, <2>1, <2>5, LargestOnes
<1>4. /\ top \subseteq Published /\ base[s] \in Published
      /\ top \subseteq listing[s] /\ \A h \in top : h < base[s]
  BY <1>1 DEF Keeps, LargestOf, Above
<1>5. \A h \in held : h \in Published' /\ h > g
  <2>1. held \subseteq Published /\ \A h \in held : h \in Gen /\ h > g
    <3> HIDE DEF top
    <3>1. \A h \in held : h \in top \/ h = base[s] \/ h = next[s]
      OBVIOUS
    <3>2. next[s] > g /\ base[s] > g
      BY <1>1 DEF Gen
    <3> QED BY <1>1, <1>3, <1>4, <3>1, <3>2
  <2>2. \A h \in Gen : h > g => h # g
    BY <1>1 DEF Gen
  <2>3. \A h \in held : record'[h] = record[h]
    BY <2>1, <2>2 DEF TypeOK
  <2> HIDE DEF held
  <2> QED BY <2>1, <2>3 DEF Published
<1>6. IsFiniteSet(held) /\ Cardinality(held) \in Nat /\ Cardinality(held) >= Retained
  <2>1. IsFiniteSet(top) /\ Cardinality(top) \in Nat
    BY <1>4, LossCounted, FS_Subset, FS_CardinalityType
  <2>2. base[s] \notin top /\ next[s] \notin top \cup {base[s]}
    BY <1>1, <1>4 DEF Gen
  <2> HIDE DEF top
  <2>3. IsFiniteSet(top \cup {base[s]}) /\ Cardinality(top \cup {base[s]}) = Cardinality(top) + 1
    BY <2>1, <2>2, FS_AddElement
  <2>4. /\ IsFiniteSet(held)
        /\ Cardinality(held) = Cardinality(top \cup {base[s]}) + 1
    BY <2>2, <2>3, FS_AddElement
  <2> QED BY <1>2, <1>3, <2>1, <2>3, <2>4
<1> HIDE DEF held, top, older
<1>7. /\ Published' \subseteq Published /\ Damaged' \subseteq Damaged
      /\ IsFiniteSet(Damaged') /\ Cardinality(Damaged') \in Nat
      /\ Cardinality(Damaged') <= damage
  <2>1. Published' \subseteq Published /\ \A h \in Published' : record'[h] = record[h]
    BY <1>1 DEF Published, TypeOK
  <2>2. Damaged' \subseteq Damaged
    BY <2>1 DEF Damaged
  <2>3. /\ IsFiniteSet(Damaged') /\ Cardinality(Damaged') <= Cardinality(Damaged)
        /\ Cardinality(Damaged') \in Nat
    BY <2>2, LossCounted, FS_Subset, FS_CardinalityType
  <2> QED BY <2>1, <2>2, <2>3, LossCounted DEF LossInv
<1>8. held \subseteq Readable(a)' \cup Damaged'
  <2>1. \A h \in held : h > a
    BY <1>1, <1>5 DEF Published, Gen
  <2> QED BY <1>5, <2>1 DEF Readable, Damaged
<1>9. IsFiniteSet(Readable(a)') /\ Cardinality(Readable(a)') \in Nat
  <2>1. Readable(a)' \subseteq Published
    BY <1>7 DEF Readable
  <2> QED BY <2>1, LossCounted, FS_Subset, FS_CardinalityType
<1>10. Cardinality(held) <= Cardinality(Readable(a)') + Cardinality(Damaged')
  <2> DEFINE both == Readable(a)' \cup Damaged'
             common == Readable(a)' \cap Damaged'
  <2>1. /\ IsFiniteSet(both)
        /\ Cardinality(both) = Cardinality(Readable(a)') + Cardinality(Damaged')
                                 - Cardinality(common)
    BY <1>7, <1>9, FS_Union
  <2>2. IsFiniteSet(common) /\ Cardinality(common) \in Nat
    BY <1>9, FS_Intersection, FS_CardinalityType
  <2> HIDE DEF both, common
  <2>3. Cardinality(held) <= Cardinality(both) /\ Cardinality(both) \in Nat
    BY <1>8, <2>1, FS_Subset, FS_CardinalityType DEF both
  <2> QED BY <1>6, <1>7, <1>9, <2>1, <2>2, <2>3
<1> QED BY <1>6, <1>7, <1>9, <1>10, LossCounted, StoreConstants DEF StoreConstants, Backed

\* A generation cleanup removes was backed, or had been damaged already: it moves
\* from the damaged ones to the gone ones.
LEMMA LossCleanup ==
  ASSUME KeepIInv, TypeOK', NEW s \in Session, RemoveGeneration(s)
  PROVE  LossInv'
<1> USE DEF KeepIInv, IInv
<1>1. PICK g \in doomed[s] : record' \in {record, [record EXCEPT ![g] = Absent]}
  BY DEF RemoveGeneration
<1>2. /\ pc[s] = "clean" /\ UNCHANGED <<damage, acked>>
      /\ g \in listing[s] /\ g \in Gen /\ g # base[s] /\ base[s] \in Gen \cup {0}
  <2>1. pc[s] = "clean" /\ UNCHANGED <<damage, acked>> /\ base[s] \in Gen \cup {0}
    BY DEF RemoveGeneration, saving, TypeOK
  <2>2. g \in listing[s] /\ g \notin Keeps(listing[s], base[s])
    BY <2>1 DEF KeepInv
  <2>3. g # base[s]
    BY <2>2 DEF Keeps
  <2> QED BY <2>1, <2>2, <2>3 DEF TypeOK
<1>3. CASE record' = record
  BY <1>2, <1>3, LossQuiet
<1>4. CASE record' # record
  <2>1. record' = [record EXCEPT ![g] = Absent]
    BY <1>1, <1>4
  <2>2. /\ Published' = Published \ {g}
        /\ \A h \in Gen \ {g} : record'[h] = record[h]
    BY <1>2, <2>1 DEF TypeOK, Published
  <2>3. CASE g < base[s]
    <3>1. \A a \in acked' \ Published' : ~Backed(a)' => a \in acked /\ a \in Gen /\ a > g
      <4>1. acked \subseteq Gen /\ g \in Nat /\ \A a \in Gen : a \in Nat /\ (a <= g \/ a > g)
        BY <1>2 DEF TypeOK, Gen
      <4>2. \A a \in Nat : a <= g => Backed(a)'
        BY <1>2, <2>1, <2>3, RemovedIsBacked
      <4> QED BY <1>2, <4>1, <4>2
    <3>2. ASSUME NEW a \in Gen, a > g PROVE Readable(a)' = Readable(a) /\ a # g
      <4>1. \A h \in Gen : h > a => h # g
        BY <1>2, <3>2 DEF Gen
      <4>2. a # g
        BY <1>2, <3>2 DEF Gen
      <4> QED BY <2>2, <4>1, <4>2 DEF Readable, Published
    <3>3. Gone' \subseteq Gone
      BY <1>2, <2>2, <3>1, <3>2 DEF Gone, Backed
    <3>4. Damaged' \subseteq Damaged
      BY <2>2 DEF Damaged, Published
    <3>5. Cardinality(Damaged') <= Cardinality(Damaged)
      BY <3>4, LossCounted, FS_Subset
    <3> QED BY <1>2, <3>3, <3>5, GoneShrinks
  <2>4. CASE ~(g < base[s])
    <3>1. g > base[s]
      BY <1>2, <2>4 DEF Gen
    <3>2. record[g] = Corrupt
      <4>1. record[g] \in {Corrupt, Absent}
        BY <1>2, <3>1 DEF KeepInv
      <4>2. record[g] # Absent
        BY <1>2, <1>4, <2>1 DEF TypeOK
      <4> QED BY <4>1, <4>2
    <3>3. g \in Damaged /\ Damaged' = Damaged \ {g}
      BY <1>2, <2>2, <3>2, StoreConstants DEF StoreConstants, Damaged, Published
    <3>4. \A a : Readable(a)' = Readable(a)
      BY <1>2, <2>2, <3>2, StoreConstants DEF StoreConstants, Readable, Published
    <3>5. Gone' \subseteq Gone \cup {g}
      BY <1>2, <2>2, <3>4 DEF Gone, Backed
    <3>6. Cardinality(Damaged') = Cardinality(Damaged) - 1
      BY <3>3, LossCounted, FS_RemoveElement
    <3>7. Cardinality(Gone') <= Cardinality(Gone) + 1 /\ Cardinality(Gone') \in Nat
      <4>1. /\ IsFiniteSet(Gone \cup {g}) /\ Cardinality(Gone \cup {g}) \in Nat
            /\ Cardinality(Gone \cup {g}) <= Cardinality(Gone) + 1
        BY LossCounted, OneMore
      <4>2. Cardinality(Gone') <= Cardinality(Gone \cup {g}) /\ Cardinality(Gone') \in Nat
        BY <3>5, <4>1, FS_Subset, FS_CardinalityType
      <4> QED BY <4>1, <4>2, LossCounted
    <3> QED BY <1>2, <3>6, <3>7, LossCounted DEF LossInv
  <2> QED BY <2>3, <2>4
<1> QED BY <1>3, <1>4

LEMMA LossStep ==
  ASSUME KeepIInv, TypeOK', [Next]_vars
  PROVE  LossInv'
<1>1. CASE UNCHANGED vars
  BY <1>1, LossQuiet DEF vars, disk
<1>2. ASSUME NEW s \in Session,
             \/ Acquire(s) \/ Load(s) \/ Release(s) \/ ReleaseFails(s) \/ Crash(s)
             \/ RecoverAbandoned(s) \/ BeginSave(s) \/ LoadCurrent(s) \/ ListGenerations(s)
             \/ CreatePending(s) \/ WritePending(s) \/ VerifyAgain(s) \/ RemovePending(s)
             \/ FailEarly(s) \/ FailLate(s)
      PROVE  LossInv'
  <2>1. UNCHANGED <<record, damage, acked>>
    BY <1>2 DEF Acquire, Load, Release, ReleaseFails, Crash, RecoverAbandoned, BeginSave,
         LoadCurrent, ListGenerations, CreatePending, WritePending, VerifyAgain, RemovePending,
         FailEarly, FailLate, disk, lock, saving
  <2> QED BY <2>1, LossQuiet
<1>3. ASSUME NEW s \in Session, ReturnOk(s) PROVE LossInv'
  <2>1. UNCHANGED <<record, damage>> /\ acked' = acked \cup {next[s]} /\ next[s] \in Published
    BY <1>3 DEF ReturnOk, disk, KeepIInv, IInv, SaveInv
  <2> QED BY <2>1, LossQuiet
<1> QED BY <1>1, <1>2, <1>3, LossDamage, LossPublish, LossCleanup DEF Next, Save

LEMMA KeepInvariance ==
  ASSUME CarefulRecovery
  PROVE  Spec => []KeepIInv
<1>1. Init => KeepIInv
  <2> SUFFICES ASSUME Init PROVE KeepIInv
    OBVIOUS
  <2>1. IInv
    BY InitIInv
  <2>2. \A s \in Session : KeepInv(s)
    BY DEF Init, KeepInv
  <2>3. Damaged = {} /\ Gone = {} /\ damage = 0
    BY DEF Init, Damaged, Gone, Published
  <2>4. LossInv
    BY <2>3, FS_EmptySet DEF LossInv
  <2> QED BY <2>1, <2>2, <2>4 DEF KeepIInv
<1>2. KeepIInv /\ [Next]_vars => KeepIInv'
  <2> SUFFICES ASSUME KeepIInv, [Next]_vars PROVE KeepIInv'
    OBVIOUS
  <2>1. IInv'
    BY StepIInv DEF KeepIInv
  <2>2. \A s \in Session : KeepInv(s)'
    BY KeepStep DEF KeepIInv
  <2>3. LossInv'
    BY <2>1, LossStep DEF IInv
  <2> QED BY <2>1, <2>2, <2>3 DEF KeepIInv
<1> QED BY <1>1, <1>2, PTL DEF Spec

\* Fewer damaged records than a save retains cost at most as many of the newest
\* acknowledged saves, whatever was saved and removed before and after: a record
\* that covers the others is on disk and decodes.
THEOREM DamageIsSurvived ==
  ASSUME CarefulRecovery, MaxDamage < Retained
  PROVE  Spec => []SurvivesDamage
<1>1. ASSUME KeepIInv, NEW kept \in SUBSET acked, Cardinality(kept) > MaxDamage
      PROVE  \E g \in Published : record[g] \in Value /\ \E a \in kept : g >= a
  <2> SUFFICES ASSUME \A g \in Published : record[g] \in Value => \A a \in kept : ~(g >= a)
               PROVE  FALSE
    OBVIOUS
  <2>0. TypeOK /\ kept \subseteq Gen /\ damage <= MaxDamage
    BY <1>1, StoreConstants DEF StoreConstants, KeepIInv, IInv, TypeOK
  <2>1. ASSUME NEW a \in kept PROVE a \in Damaged \cup Gone
    <3>1. a \in Gen /\ a >= a
      BY <2>0 DEF Gen
    <3>2. CASE a \in Published
      BY <3>1, <3>2 DEF Damaged
    <3>3. CASE a \notin Published
      <4>1. Readable(a) = {}
        <5>1. \A g \in Gen : g > a => g >= a
          BY <3>1 DEF Gen
        <5> QED BY <5>1 DEF Readable, Published
      <4>2. Cardinality(Readable(a)) = 0
        BY <4>1, FS_EmptySet
      <4>3. ~Backed(a)
        BY <2>0, <4>2, LossCounted, StoreConstants DEF StoreConstants, Backed
      <4> QED BY <3>3, <4>3 DEF Gone
    <3> QED BY <3>2, <3>3
  <2> DEFINE both == Damaged \cup Gone
             common == Damaged \cap Gone
  <2>2. /\ IsFiniteSet(both)
        /\ Cardinality(both) = Cardinality(Damaged) + Cardinality(Gone) - Cardinality(common)
    BY <2>0, LossCounted, FS_Union
  <2>3. IsFiniteSet(common) /\ Cardinality(common) \in Nat
    BY <2>0, LossCounted, FS_Intersection, FS_CardinalityType
  <2>4. kept \subseteq both
    BY <2>1
  <2> HIDE DEF both, common
  <2>5. Cardinality(kept) <= Cardinality(both) /\ Cardinality(kept) \in Nat
    BY <2>2, <2>4, FS_Subset, FS_CardinalityType
  <2> QED BY <1>1, <2>0, <2>2, <2>3, <2>5, LossCounted, StoreConstants
          DEF StoreConstants, KeepIInv, LossInv
<1>2. KeepIInv => SurvivesDamage
  BY <1>1 DEF SurvivesDamage
<1> QED BY <1>2, KeepInvariance, PTL

-----------------------------------------------------------------------------
(* The store implements the register, as long as no record is damaged.     *)

\* The newest generation is the one all others are older than, 0 if there is none.
LEMMA NewestIs ==
  ASSUME NEW g \in Published \cup {0}, \A h \in Published : h <= g
  PROVE  Newest = g
<1>1. Newest \in Published \cup {0} /\ \A h \in Published : h <= Newest
  BY DEF Newest
<1>2. \A i, j \in Gen \cup {0} : i <= j /\ j <= i => i = j
  BY DEF Gen
<1>3. \A h \in Gen : ~(h <= 0)
  BY DEF Gen
<1>4. Published \subseteq Gen
  BY DEF Published
<1> QED BY <1>1, <1>2, <1>3, <1>4

LEMMA NewestExists ==
  /\ Newest \in Published \cup {0}
  /\ \A h \in Published : h <= Newest
<1>1. MaxGen \in Nat
  BY StoreConstants DEF StoreConstants
<1>2. Published \cup {0} \in SUBSET (0 .. MaxGen)
  BY <1>1 DEF Published, Gen
<1>3. \E g \in Published \cup {0} : \A h \in Published \cup {0} : h <= g
  <2> DEFINE all == Published \cup {0}
  <2>1. all \in SUBSET (0 .. MaxGen) /\ all # {}
    BY <1>2
  <2> HIDE DEF all
  <2>2. \E g \in all : \A h \in all : h <= g
    BY <1>1, <2>1, Largest
  <2> QED BY <2>2 DEF all
<1> QED BY <1>3 DEF Newest

\* Without damage only the newest generation loads, and the save of a session works
\* on the newest one until it publishes, and is the newest one from then on.
LEMMA WorksOnNewest ==
  ASSUME KeepIInv, damage = 0
  PROVE  /\ \A g : Loads(g) => g = Newest
         /\ \A s \in Session : pc[s] = "link" => base[s] = Newest
         /\ \A s \in Session : pc[s] = "clean" => next[s] = Newest /\ next[s] \notin acked
<1>1. \A g \in Published : record[g] # Corrupt
  BY StoreConstants DEF StoreConstants, KeepIInv, IInv, AckedInv
<1>2. Published \subseteq Gen
  BY DEF Published
<1>3. \A g, h \in Gen \cup {0} : h > g \/ h <= g
  BY DEF Gen
<1>4. ASSUME NEW g, Loads(g) PROVE g = Newest
  <2>1. g \in Published \cup {0} /\ \A h \in Published : h > g => record[h] = Corrupt
    BY <1>4 DEF Loads
  <2>2. \A h \in Published : h <= g
    BY <1>1, <1>2, <1>3, <2>1
  <2> QED BY <2>1, <2>2, NewestIs
<1>5. ASSUME NEW s \in Session, pc[s] = "link" PROVE base[s] = Newest
  <2>1. /\ base[s] \in Published \cup {0} /\ listing[s] = Published
        /\ \A h \in listing[s] : h > base[s] => record[h] = Corrupt
    BY <1>5 DEF KeepIInv, IInv, KeepInv, SaveInv
  <2>2. \A h \in Published : h <= base[s]
    BY <1>1, <1>2, <1>3, <2>1
  <2> QED BY <2>1, <2>2, NewestIs
<1>6. ASSUME NEW s \in Session, pc[s] = "clean" PROVE next[s] = Newest /\ next[s] \notin acked
  <2>1. /\ next[s] \in Published /\ \A h \in Published : h <= next[s]
        /\ \A a \in acked : a < next[s]
    BY <1>6 DEF KeepIInv, IInv, KeepInv, SaveInv
  <2>2. ~(next[s] < next[s])
    <3>1. \A g \in Gen : ~(g < g)
      BY DEF Gen
    <3> QED BY <1>2, <2>1, <3>1
  <2> QED BY <2>1, <2>2, NewestIs
<1> QED BY <1>4, <1>5, <1>6

RegisterStep == Register!Next \/ UNCHANGED <<Register!register, damage>>

\* Steps that leave what the register shows alone.
LEMMA RegisterQuiet ==
  ASSUME UNCHANGED <<record, base, acked, damage>>
  PROVE  RegisterStep
<1>1. Published' = Published
  BY DEF Published
<1>2. Newest' = Newest
  BY <1>1 DEF Newest
<1> QED BY <1>2 DEF RegisterStep, Register!register

\* Publishing replaces the record the session has seen.
LEMMA RegisterPublish ==
  ASSUME KeepIInv, damage = 0, NEW s \in Session, Publish(s)
  PROVE  RegisterStep
<1> USE DEF KeepIInv, IInv, TypeOK, disk, lock, saving
<1>1. /\ next[s] \in Gen /\ Current(s) \in Value
      /\ record' = [record EXCEPT ![next[s]] = Current(s)]
      /\ UNCHANGED <<base, acked>>
      /\ \A g \in Published : g < next[s]
      /\ base[s] = Newest
  <2>1. pc[s] = "link" /\ base[s] = Newest
    BY WorksOnNewest DEF Publish
  <2> QED BY <2>1 DEF Publish, SaveInv, Saving, Current, Value
<1>2. Published' = Published \cup {next[s]}
  BY <1>1, StoreConstants DEF StoreConstants, Published
<1>3. Newest' = next[s]
  <2>1. \A h \in Published' : h <= next[s]
    BY <1>1, <1>2 DEF Gen, Published
  <2>2. Newest' \in Published' \cup {0} /\ \A h \in Published' : h <= Newest'
    BY <1>2, <2>1 DEF Newest
  <2>3. next[s] <= Newest' /\ (Newest' <= next[s] \/ Newest' = 0)
    BY <1>2, <2>1, <2>2
  <2>4. Newest' \in Gen \cup {0}
    BY <1>1, <1>2, <2>2 DEF Published
  <2> QED BY <1>1, <2>3, <2>4 DEF Gen
<1>4. Newest < next[s] /\ next[s] \in Nat /\ next[s] # 0
  BY <1>1, NewestExists DEF Gen
<1>5. record'[next[s]] = Current(s)
  BY <1>1
<1>6. Register!Replace(s, Current(s))
  BY <1>1, <1>3, <1>4, <1>5 DEF Register!Replace
<1> QED BY <1>1, <1>6 DEF RegisterStep, Register!Next

\* Cleanup leaves the newest generation alone.
LEMMA RegisterCleanup ==
  ASSUME KeepIInv, NEW s \in Session, RemoveGeneration(s)
  PROVE  RegisterStep
<1> USE DEF KeepIInv, IInv, TypeOK, disk, lock, saving
<1>1. PICK g \in doomed[s] : record' \in {record, [record EXCEPT ![g] = Absent]}
  BY DEF RemoveGeneration
<1>2. /\ UNCHANGED <<base, acked, damage>> /\ next[s] \in Published /\ g \in Gen /\ g < next[s]
      /\ \A h \in Published : h <= next[s]
  <2>1. pc[s] = "clean" /\ UNCHANGED <<base, acked, damage>>
    BY DEF RemoveGeneration
  <2>2. /\ next[s] \in Published /\ \A h \in listing[s] : h < next[s]
        /\ doomed[s] \subseteq listing[s]
    BY <2>1 DEF SaveInv
  <2>3. \A h \in Published : h <= next[s]
    BY <2>1 DEF KeepInv
  <2> QED BY <2>1, <2>2, <2>3
<1>3. Newest = next[s]
  BY <1>2, NewestIs
<1>4. Published \ {g} \subseteq Published' /\ Published' \subseteq Published
  BY <1>1, <1>2 DEF Published
<1>5. g # next[s] /\ next[s] \in Published'
  BY <1>2, <1>4 DEF Published, Gen
<1>6. Newest' = next[s]
  <2>1. Newest' \in Published' \cup {0} /\ \A h \in Published' : h <= Newest'
    BY <1>2, <1>4, <1>5 DEF Newest
  <2>2. next[s] <= Newest' /\ (Newest' <= next[s] \/ Newest' = 0) /\ Newest' \in Gen \cup {0}
    BY <1>2, <1>4, <1>5, <2>1 DEF Published
  <2> QED BY <1>2, <2>2 DEF Gen, Published
<1>7. record'[next[s]] = record[next[s]]
  BY <1>1, <1>2, <1>5 DEF Published
<1> QED BY <1>2, <1>3, <1>6, <1>7 DEF RegisterStep, Register!register

LEMMA RegisterSteps ==
  ASSUME KeepIInv, [Next]_vars, damage' = 0
  PROVE  RegisterStep
<1> USE DEF disk, lock, saving
<1>0. damage = 0
  <2>1. damage \in Nat /\ (damage' = damage \/ damage' = damage + 1)
    BY StoreConstants DEF StoreConstants, KeepIInv, IInv, TypeOK, vars, Next, Save, Damage, Acquire, Load,
         Release, ReleaseFails, Crash, RecoverAbandoned, BeginSave, LoadCurrent,
         ListGenerations, CreatePending, WritePending, VerifyAgain, Publish, RemovePending,
         RemoveGeneration, ReturnOk, FailEarly, FailLate
  <2> QED BY <2>1
<1>1. CASE UNCHANGED vars
  BY <1>1, RegisterQuiet DEF vars
<1>2. CASE Damage
  BY <1>0, <1>2 DEF Damage
<1>3. ASSUME NEW s \in Session,
             \/ Acquire(s) \/ Release(s) \/ ReleaseFails(s) \/ Crash(s) \/ RecoverAbandoned(s)
             \/ BeginSave(s) \/ LoadCurrent(s) \/ ListGenerations(s) \/ CreatePending(s)
             \/ WritePending(s) \/ VerifyAgain(s) \/ RemovePending(s)
             \/ FailEarly(s) \/ FailLate(s)
      PROVE  RegisterStep
  <2>1. UNCHANGED <<record, base, acked, damage>>
    BY <1>3 DEF Acquire, Release, ReleaseFails, Crash, RecoverAbandoned, BeginSave,
         LoadCurrent, ListGenerations, CreatePending, WritePending, VerifyAgain, RemovePending,
         FailEarly, FailLate
  <2> QED BY <2>1, RegisterQuiet
<1>4. ASSUME NEW s \in Session, Load(s) PROVE RegisterStep
  <2>1. base' = [base EXCEPT ![s] = Newest] /\ UNCHANGED <<record, damage, acked>>
    BY <1>0, <1>4, WorksOnNewest DEF Load
  <2>2. Published' = Published
    BY <2>1 DEF Published
  <2>3. Newest' = Newest
    BY <2>2 DEF Newest
  <2>4. Register!Read(s)
    BY <2>1, <2>3 DEF Register!Read
  <2> QED BY <2>4 DEF RegisterStep, Register!Next
<1>5. ASSUME NEW s \in Session, ReturnOk(s) PROVE RegisterStep
  <2>1. /\ next[s] = Newest /\ Newest \notin acked
        /\ base' = [base EXCEPT ![s] = Newest] /\ acked' = acked \cup {Newest}
        /\ UNCHANGED <<record, damage>>
    BY <1>0, <1>5, WorksOnNewest DEF ReturnOk
  <2>2. Published' = Published
    BY <2>1 DEF Published
  <2>3. Newest' = Newest
    BY <2>2 DEF Newest
  <2>4. Register!Acknowledge(s)
    BY <2>1, <2>3 DEF Register!Acknowledge
  <2> QED BY <2>4 DEF RegisterStep, Register!Next
<1> QED BY <1>0, <1>1, <1>2, <1>3, <1>4, <1>5, RegisterPublish, RegisterCleanup DEF Next, Save

\* As long as nothing damages its records, the store is one register whose content
\* a session replaces only if it has seen the newest one, and whose saves are
\* acknowledged only while they are the newest: no acknowledged save is lost.
THEOREM StoreImplementsRegister ==
  ASSUME CarefulRecovery
  PROVE  Spec => NoLostSave
<1>1. Init => Register!Init
  <2> SUFFICES ASSUME Init PROVE Register!Init
    OBVIOUS
  <2>1. Published = {}
    BY DEF Init, Published
  <2>2. Newest = 0
    BY <2>1, NewestIs
  <2> QED BY <2>2 DEF Init, Register!Init
<1>2. KeepIInv /\ [Next]_vars => [damage' = 0 => Register!Next]_<<Register!register, damage>>
  BY RegisterSteps DEF RegisterStep
<1> QED BY <1>1, <1>2, KeepInvariance, PTL DEF Spec, NoLostSave
=============================================================================
