------------------------ MODULE ProfileCatalogProofs ------------------------
(***************************************************************************)
(* What the catalog of profiles keeps true for any number of processes,    *)
(* profiles, renames and crashes: a discovery never meets a broken profile *)
(* (DiscoveryNeverBreaks), a listed profile stays (ProfilesStay), a rename *)
(* that succeeded is kept (RenamesAreKept) and an open profile is as it    *)
(* was opened (OpenProfileIsCurrent).                                      *)
(*                                                                         *)
(* Two facts carry the proof.  A root only ever advances (Advances), and   *)
(* its identity and its records change in the hands of the process that    *)
(* holds its lock alone (Changes); from these follows, once for all        *)
(* actions, what a step leaves true of every other process.  And a root's  *)
(* records are none, one, or two in sequence, so that the newest is known. *)
(***************************************************************************)
EXTENDS ProfileCatalog, FiniteSetTheorems, TLAPS

RecordType == [generation : Nat \ {0}, name : Name]
RootType == [dir : BOOLEAN, identity : SUBSET (1 .. MaxIdentities),
             records : SUBSET RecordType, ready : BOOLEAN]
EntryType == [root : Root, identity : 0 .. MaxIdentities, generation : Nat]
RenamedType == [root : Root, from : Nat, made : RecordType]

\* What a process may be doing; it is never "broken".
Making == {"lock", "bind", "name", "unlock", "publish", "load"}
Renaming == {"acquire", "check", "prune", "record"}

VisitTask ==
    [step : {"visit"}, todo : SUBSET Root, found : SUBSET EntryType,
     then : {"list", "create"}, name : Name \cup {0}]
LookTask ==
    [step : {"identity"}, root : Root, todo : SUBSET Root, found : SUBSET EntryType,
     then : {"list", "create"}, name : Name \cup {0}]
ReadTask ==
    [step : {"metadata"}, root : Root, identity : BOOLEAN, todo : SUBSET Root,
     found : SUBSET EntryType, then : {"list", "create"}, name : Name \cup {0}]
MakeTask ==
    [step : Making, root : Root, identity : 0 .. MaxIdentities, name : Name,
     then : {"unlock", "load"}]
RenameTask ==
    [step : Renaming, root : Root, identity : 0 .. MaxIdentities, from : Nat,
     name : Name]
FinishTask == [step : {"finish"}, root : Root, from : Nat, made : RecordType]
ActiveTask == [step : {"active"}, root : Root, entry : EntryType]
Task ==
    {Idle} \cup VisitTask \cup LookTask \cup ReadTask \cup MakeTask \cup RenameTask
        \cup FinishTask \cup ActiveTask

Typed ==
    /\ nextIdentity \in 1 .. MaxIdentities + 1
    /\ lock \in [Root -> Proc \cup {NoProc}]
    /\ profiles \in [Root -> RootType]
    /\ work \in [Proc -> Task]
    /\ seen \in [Proc -> SUBSET EntryType]
    /\ renamed \subseteq RenamedType
    /\ budget \in [work : 0 .. MaxWork, renames : 0 .. MaxRenames]

-----------------------------------------------------------------------------
(* Records.                                                                *)

InSequence(S) ==
    \/ S = {}
    \/ \E m \in RecordType : S = {m}
    \/ \E m, n \in RecordType : S = {m, n} /\ n.generation = m.generation + 1

Newest(S) == CHOOSE m \in S : \A n \in S : n.generation <= m.generation

LEMMA NewestIs ==
    ASSUME NEW S, InSequence(S), S # {}
    PROVE /\ Newest(S) \in S /\ Newest(S) \in RecordType
          /\ \A n \in S : n.generation <= Newest(S).generation
          /\ \A n \in S : n.generation = Newest(S).generation => n = Newest(S)
  <1>1. \E m \in S : \A n \in S : n.generation <= m.generation
    BY DEF InSequence, RecordType
  <1>2. Newest(S) \in S /\ \A n \in S : n.generation <= Newest(S).generation
    BY <1>1 DEF Newest
  <1>3. \A m, n \in S : m.generation = n.generation => m = n
    BY DEF InSequence, RecordType
  <1>4. S \subseteq RecordType
    BY DEF InSequence
  <1>. QED BY <1>2, <1>3, <1>4

LEMMA LatestIsNewest == \A r : Latest(r) = Newest(profiles[r].records)
  BY DEF Latest, Newest

LEMMA OneRecord == ASSUME NEW m PROVE Newest({m}) = m
  BY DEF Newest

LEMMA TwoRecords ==
    ASSUME NEW m \in RecordType, NEW n \in RecordType, n.generation = m.generation + 1
    PROVE Newest({m, n}) = n /\ InSequence({m, n}) /\ m # n
  <1>1. InSequence({m, n}) /\ m # n
    BY DEF InSequence, RecordType
  <1>2. Newest({m, n}) \in {m, n}
        /\ \A x \in {m, n} : x.generation <= Newest({m, n}).generation
    BY <1>1, NewestIs
  <1>3. n.generation <= Newest({m, n}).generation /\ ~(n.generation <= m.generation)
    BY <1>2 DEF RecordType
  <1>. QED BY <1>1, <1>2, <1>3

-----------------------------------------------------------------------------
(* The invariant.                                                          *)

HasNumber(r) == \E i \in 1 .. MaxIdentities : profiles[r].identity = {i}

\* What may be found in a root.
RootOK(r) ==
    /\ InSequence(profiles[r].records)
    /\ HasIdentity(r) => HasNumber(r)
    /\ r # Default =>
          /\ profiles[r].identity \subseteq {r}
          /\ HasIdentity(r) => profiles[r].dir
          /\ profiles[r].dir => r < nextIdentity
          /\ profiles[r].ready => HasIdentity(r) /\ HasMetadata(r)

Roots ==
    /\ \A r \in Root : RootOK(r)
    /\ \A i \in profiles[Default].identity : i < nextIdentity /\ ~profiles[i].dir

EntryOK(e) ==
    /\ e.identity # 0 => profiles[e.root].identity = {e.identity}
    /\ e.root # Default => e.identity # 0
    /\ e.generation # 0 =>
          HasMetadata(e.root) /\ Latest(e.root).generation >= e.generation

Entries == \A p \in Proc : \A e \in seen[p] : EntryOK(e)

\* A discovery has found profiles it does not look at again.
FoundOK(t, others) == \A e \in t.found : EntryOK(e) /\ e.root \notin others

MakeOK(t) ==
    /\ t.identity = 0 =>
          /\ t.then = "load" /\ t.step \notin {"unlock", "publish"}
          /\ t.root = Default \/ HasIdentity(t.root)
    /\ t.identity # 0 =>
          /\ t.then = "unlock" /\ t.step # "load"
          /\ t.identity = t.root /\ profiles[t.root].dir
    /\ t.step \in {"name", "unlock", "publish", "load"} => HasIdentity(t.root)
    /\ t.step \in {"unlock", "publish", "load"} => HasMetadata(t.root)

TaskOK(t) ==
    /\ t.step \in {"visit", "identity", "metadata"} =>
          (t.then = "create" => t.name \in Name)
    /\ t.step = "visit" => FoundOK(t, t.todo)
    /\ t.step \in {"identity", "metadata"} =>
          /\ FoundOK(t, t.todo \cup {t.root})
          /\ t.root \notin t.todo
          /\ t.root # Default => profiles[t.root].ready
    /\ t.step = "metadata" =>
          /\ t.identity => HasIdentity(t.root)
          /\ t.root # Default => t.identity
    /\ t.step \in Making => MakeOK(t)
    /\ t.step \in {"prune", "record"} =>
          HasMetadata(t.root) /\ Latest(t.root).generation = t.from
    /\ t.step = "record" => profiles[t.root].records = {Latest(t.root)}
    /\ t.step = "finish" =>
          /\ HasMetadata(t.root) /\ Latest(t.root) = t.made
          /\ t.made.generation = t.from + 1
          /\ \A a \in renamed : a.root = t.root => a.from < t.from
    /\ t.step = "active" => t.entry = Entry(t.root)

Holding == {"bind", "name", "unlock", "load", "active", "check", "prune", "record", "finish"}

Holds(p, t) == t.step \in Holding => lock[t.root] = p

\* (Stated of each task there may be, so that it can be primed.)
Tasks ==
    \A p \in Proc : \A t \in Task : work[p] = t => TaskOK(t) /\ Holds(p, t)

Kept ==
    \A a \in renamed :
        /\ HasMetadata(a.root)
        /\ a.made.generation = a.from + 1
        /\ Latest(a.root).generation >= a.made.generation
        /\ Latest(a.root).generation = a.made.generation => Latest(a.root) = a.made
        /\ \A b \in renamed : a.root = b.root /\ a.from = b.from => a = b

IInv == Typed /\ Roots /\ Entries /\ Tasks /\ Kept

-----------------------------------------------------------------------------
LEMMA Bounds ==
    /\ MaxIdentities \in Nat /\ Default \in Root /\ Default = 0
    /\ Root \subseteq Nat /\ 1 .. MaxIdentities \subseteq Root
    /\ NoProc \notin Proc /\ MaxRecords \in Nat /\ MaxRecords >= 2
    /\ MaxWork \in Nat /\ MaxRenames \in Nat
  BY CatalogConstants DEF CatalogConstants, Default, Root

\* Which task a process has tells what it keeps.
LEMMA TaskIs ==
    ASSUME NEW t \in Task
    PROVE /\ t.step = "visit" => t \in VisitTask
          /\ t.step = "identity" => t \in LookTask
          /\ t.step = "metadata" => t \in ReadTask
          /\ t.step \in Making => t \in MakeTask
          /\ t.step \in Renaming => t \in RenameTask
          /\ t.step = "finish" => t \in FinishTask
          /\ t.step = "active" => t \in ActiveTask
          /\ t.step # "broken"
          /\ t.step \in Holding => t.root \in Root
  BY DEF Task, Idle, VisitTask, LookTask, ReadTask, MakeTask, RenameTask, FinishTask,
         ActiveTask, Making, Renaming, Holding

LEMMA Root1 ==
    ASSUME Typed, NEW r \in Root
    PROVE /\ profiles[r] \in RootType
          /\ profiles[r].identity \subseteq 1 .. MaxIdentities
          /\ profiles[r].records \subseteq RecordType
          /\ profiles[r].dir \in BOOLEAN /\ profiles[r].ready \in BOOLEAN
  BY DEF Typed, RootType

\* What is read from a root whose records and identity are in order.
LEMMA Reads ==
    ASSUME Typed, NEW r \in Root, RootOK(r)
    PROVE /\ HasMetadata(r) =>
                /\ Latest(r) \in profiles[r].records /\ Latest(r) \in RecordType
                /\ \A n \in profiles[r].records : n.generation <= Latest(r).generation
          /\ HasIdentity(r) =>
                /\ profiles[r].identity = {IdentityOf(r)}
                /\ IdentityOf(r) \in 1 .. MaxIdentities
          /\ Entry(r) \in EntryType
  <1>1. HasMetadata(r) =>
            /\ Latest(r) \in profiles[r].records /\ Latest(r) \in RecordType
            /\ \A n \in profiles[r].records : n.generation <= Latest(r).generation
    BY NewestIs, LatestIsNewest DEF RootOK, HasMetadata
  <1>2. HasIdentity(r) =>
            /\ profiles[r].identity = {IdentityOf(r)}
            /\ IdentityOf(r) \in 1 .. MaxIdentities
    BY DEF RootOK, HasNumber, HasIdentity, IdentityOf
  <1>3. (IF HasIdentity(r) THEN IdentityOf(r) ELSE 0) \in 0 .. MaxIdentities
    BY <1>2, Bounds
  <1>4. (IF HasMetadata(r) THEN Latest(r).generation ELSE 0) \in Nat
    BY <1>1 DEF RecordType
  <1>5. Entry(r) \in EntryType
    BY <1>3, <1>4 DEF Entry, EntryType
  <1>. QED BY <1>1, <1>2, <1>5

LEMMA AtMostTwo ==
    ASSUME NEW a, NEW b
    PROVE Cardinality({a, b}) \in 1 .. 2
  <1>1. IsFiniteSet({a}) /\ Cardinality({a}) = 1
    BY FS_Singleton
  <1>2. CASE b = a
    <2>1. {a, b} = {a}
      BY <1>2
    <2>. QED BY <1>1, <2>1
  <1>3. CASE b # a
    <2>1. {a, b} = {a} \cup {b} /\ b \notin {a}
      BY <1>3
    <2>2. Cardinality({a} \cup {b}) = Cardinality({a}) + 1
      BY <1>1, <2>1, FS_AddElement
    <2>. QED BY <1>1, <2>1, <2>2
  <1>. QED BY <1>2, <1>3

\* Nothing found in a root is over the limits.
LEMMA IsReadable ==
    ASSUME Typed, NEW r \in Root, RootOK(r)
    PROVE Readable(r)
  <1>1. Cardinality(profiles[r].identity) <= 1
    <2>1. CASE ~HasIdentity(r)
      BY <2>1, FS_EmptySet DEF HasIdentity
    <2>2. CASE HasIdentity(r)
      BY <2>2, FS_Singleton DEF RootOK, HasNumber
    <2>. QED BY <2>1, <2>2
  <1>2. Cardinality(profiles[r].records) <= MaxRecords
    <2>1. CASE profiles[r].records = {}
      BY <2>1, FS_EmptySet, Bounds
    <2>2. CASE \E m \in RecordType : profiles[r].records = {m}
      <3>1. PICK m \in RecordType : profiles[r].records = {m}
        BY <2>2
      <3>2. Cardinality({m}) = 1
        BY FS_Singleton
      <3>. QED BY <3>1, <3>2, Bounds
    <2>3. CASE \E m, n \in RecordType :
                   profiles[r].records = {m, n} /\ n.generation = m.generation + 1
      <3>1. PICK m, n \in RecordType : profiles[r].records = {m, n}
        BY <2>3
      <3>2. Cardinality(profiles[r].records) \in 1 .. 2
        BY <3>1, AtMostTwo
      <3>. QED BY <3>2, Bounds
    <2>4. InSequence(profiles[r].records)
      BY DEF RootOK
    <2>. QED BY <2>1, <2>2, <2>3, <2>4 DEF InSequence
  <1>. QED BY <1>1, <1>2 DEF Readable

\* No two roots hold the same identity.
LEMMA Disjoint ==
    ASSUME Typed, Roots, NEW r \in Root, NEW s \in Root, r # s
    PROVE profiles[r].identity \cap profiles[s].identity = {}
  <1>1. ASSUME NEW a \in Root, NEW b \in Root, a # Default, b # a,
               NEW i \in profiles[a].identity, i \in profiles[b].identity
        PROVE FALSE
    <2>1. i = a /\ profiles[a].dir
      BY <1>1 DEF Roots, RootOK, HasIdentity
    <2>2. CASE b = Default
      BY <1>1, <2>1, <2>2 DEF Roots
    <2>3. CASE b # Default
      BY <1>1, <2>1, <2>3 DEF Roots, RootOK
    <2>. QED BY <2>2, <2>3
  <1>. QED BY <1>1

-----------------------------------------------------------------------------
(* What a step may do to a root, and what it leaves true.                  *)

Advances(s) ==
    /\ profiles[s].identity # {} => profiles'[s].identity = profiles[s].identity
    /\ profiles[s].dir => profiles'[s].dir
    /\ profiles[s].ready => profiles'[s].ready
    /\ profiles[s].records # {} =>
          /\ profiles'[s].records # {}
          /\ Newest(profiles'[s].records).generation
                >= Newest(profiles[s].records).generation
          /\ Newest(profiles'[s].records).generation
                = Newest(profiles[s].records).generation =>
                    Newest(profiles'[s].records) = Newest(profiles[s].records)

Changes(p) ==
    /\ \A s \in Root : Advances(s)
    /\ \A s \in Root : lock[s] # p =>
          /\ profiles'[s].identity = profiles[s].identity
          /\ profiles'[s].records = profiles[s].records
          /\ lock[s] # NoProc => lock'[s] = lock[s]
    /\ renamed \subseteq renamed'
    /\ \A a \in renamed' \ renamed : lock[a.root] = p

LEMMA LatestIsNewestNext == \A r : Latest(r)' = Newest(profiles'[r].records)
  BY DEF Latest, Newest

LEMMA EntryStays ==
    ASSUME NEW e \in EntryType, EntryOK(e), \A s \in Root : Advances(s),
           Typed, Typed', Roots, Roots'
    PROVE EntryOK(e)'
  <1>1. e.root \in Root /\ e.generation \in Nat /\ Advances(e.root)
    BY DEF EntryType
  <1>2. (e.identity # 0 => profiles[e.root].identity = {e.identity})'
    BY <1>1 DEF EntryOK, Advances
  <1>3. ASSUME e.generation # 0
        PROVE profiles'[e.root].records # {}
              /\ Newest(profiles'[e.root].records).generation >= e.generation
    <2>1. profiles[e.root].records # {}
          /\ Newest(profiles[e.root].records).generation >= e.generation
      BY <1>3, LatestIsNewest DEF EntryOK, HasMetadata
    <2>2. Newest(profiles[e.root].records) \in RecordType
          /\ (profiles'[e.root].records # {} => Newest(profiles'[e.root].records) \in RecordType)
      BY <1>1, <2>1, NewestIs DEF Roots, RootOK
    <2>. QED BY <1>1, <2>1, <2>2 DEF Advances, RecordType
  <1>4. (e.generation # 0 => HasMetadata(e.root) /\ Latest(e.root).generation >= e.generation)'
    BY <1>3, LatestIsNewestNext DEF HasMetadata
  <1>5. (e.root # Default => e.identity # 0)'
    BY DEF EntryOK
  <1>. QED BY <1>2, <1>4, <1>5 DEF EntryOK

\* What a process was told of a root goes on being true while others work.
LEMMA TaskStays ==
    ASSUME Typed, Typed', Roots, Roots', NEW p \in Proc, NEW q \in Proc, q # p,
           Changes(p), NEW t \in Task, TaskOK(t), Holds(q, t)
    PROVE TaskOK(t)' /\ Holds(q, t)'
  <1>1. \A s \in Root : Advances(s)
    BY DEF Changes
  <1>2. t.step \in Holding =>
            /\ t.root \in Root /\ lock[t.root] = q
            /\ profiles'[t.root].identity = profiles[t.root].identity
            /\ profiles'[t.root].records = profiles[t.root].records
            /\ lock'[t.root] = q
    <2>1. SUFFICES ASSUME t.step \in Holding
                   PROVE /\ t.root \in Root /\ lock[t.root] = q
                         /\ profiles'[t.root].identity = profiles[t.root].identity
                         /\ profiles'[t.root].records = profiles[t.root].records
                         /\ lock'[t.root] = q
      OBVIOUS
    <2>2. t.root \in Root /\ lock[t.root] = q
      BY <2>1, TaskIs DEF Holds
    <2>3. lock[t.root] # p /\ lock[t.root] # NoProc
      BY <2>2, Bounds
    <2>. QED BY <2>2, <2>3 DEF Changes
  <1>3. \A s \in Root : (HasIdentity(s) => HasIdentity(s)') /\ (HasMetadata(s) => HasMetadata(s)')
    BY <1>1 DEF Advances, HasIdentity, HasMetadata
  <1>4. t.step \in {"visit", "identity", "metadata"} =>
            /\ \A e \in t.found : EntryOK(e) => EntryOK(e)'
    <2>1. SUFFICES ASSUME t.step \in {"visit", "identity", "metadata"},
                          NEW e \in t.found, EntryOK(e)
                   PROVE EntryOK(e)'
      OBVIOUS
    <2>2. e \in EntryType
      BY <2>1, TaskIs DEF VisitTask, LookTask, ReadTask
    <2>. QED BY <1>1, <2>1, <2>2, EntryStays
  <1>5. (t.step = "visit" => FoundOK(t, t.todo))'
    BY <1>4 DEF TaskOK, FoundOK
  <1>6. (t.step \in {"identity", "metadata"} =>
            /\ FoundOK(t, t.todo \cup {t.root})
            /\ t.root \notin t.todo
            /\ t.root # Default => profiles[t.root].ready)'
    <2>1. SUFFICES ASSUME t.step \in {"identity", "metadata"}
                   PROVE (/\ FoundOK(t, t.todo \cup {t.root})
                          /\ t.root \notin t.todo
                          /\ t.root # Default => profiles[t.root].ready)'
      OBVIOUS
    <2>2. t.root \in Root
      BY <2>1, TaskIs DEF LookTask, ReadTask
    <2>. QED BY <1>1, <1>4, <2>1, <2>2 DEF TaskOK, FoundOK, Advances
  <1>7. (t.step = "metadata" =>
            /\ t.identity => HasIdentity(t.root)
            /\ t.root # Default => t.identity)'
    BY <1>3, TaskIs DEF TaskOK, ReadTask
  <1>8. (t.step \in Making => MakeOK(t))'
    <2>1. SUFFICES ASSUME t.step \in Making
                   PROVE MakeOK(t)'
      OBVIOUS
    <2>2. t.root \in Root /\ MakeOK(t)
      BY <2>1, TaskIs DEF MakeTask, TaskOK
    <2>. QED BY <1>1, <1>3, <2>2 DEF MakeOK, Advances
  <1>9. (t.step \in {"prune", "record"} =>
            HasMetadata(t.root) /\ Latest(t.root).generation = t.from)'
    BY <1>2, LatestIsNewest, LatestIsNewestNext DEF TaskOK, HasMetadata, Holding
  <1>10. (t.step = "record" => profiles[t.root].records = {Latest(t.root)})'
    BY <1>2, LatestIsNewest, LatestIsNewestNext DEF TaskOK, Holding
  <1>11. (t.step = "finish" =>
             /\ HasMetadata(t.root) /\ Latest(t.root) = t.made
             /\ t.made.generation = t.from + 1
             /\ \A a \in renamed : a.root = t.root => a.from < t.from)'
    <2>1. SUFFICES ASSUME t.step = "finish"
                   PROVE (/\ HasMetadata(t.root) /\ Latest(t.root) = t.made
                          /\ t.made.generation = t.from + 1
                          /\ \A a \in renamed : a.root = t.root => a.from < t.from)'
      OBVIOUS
    <2>2. \A a \in renamed' : a.root = t.root => a \in renamed
      BY <1>2, <2>1 DEF Changes, Holding
    <2>. QED BY <1>2, <2>1, <2>2, LatestIsNewest, LatestIsNewestNext
             DEF TaskOK, HasMetadata, Holding
  <1>12. (t.step = "active" => t.entry = Entry(t.root))'
    <2>1. SUFFICES ASSUME t.step = "active"
                   PROVE (t.entry = Entry(t.root))'
      OBVIOUS
    <2>2. t.entry = Entry(t.root)
      BY <2>1 DEF TaskOK
    <2>3. Entry(t.root)' = Entry(t.root)
      BY <1>2, <2>1, LatestIsNewest, LatestIsNewestNext
         DEF Entry, HasIdentity, HasMetadata, IdentityOf, Holding
    <2>. QED BY <2>2, <2>3
  <1>13. (t.step \in {"visit", "identity", "metadata"} =>
             (t.then = "create" => t.name \in Name))'
    BY DEF TaskOK
  <1>14. TaskOK(t)'
    BY <1>5, <1>6, <1>7, <1>8, <1>9, <1>10, <1>11, <1>12, <1>13 DEF TaskOK
  <1>15. Holds(q, t)'
    BY <1>2 DEF Holds
  <1>. QED BY <1>14, <1>15

\* Renames that succeeded stay as they are while no other succeeds.
LEMMA KeptStays ==
    ASSUME Typed, Typed', Roots, Roots', Kept, \A s \in Root : Advances(s),
           renamed' = renamed
    PROVE Kept'
  <1>1. SUFFICES ASSUME NEW a \in renamed
                 PROVE (/\ HasMetadata(a.root)
                        /\ a.made.generation = a.from + 1
                        /\ Latest(a.root).generation >= a.made.generation
                        /\ Latest(a.root).generation = a.made.generation =>
                                Latest(a.root) = a.made
                        /\ \A b \in renamed : a.root = b.root /\ a.from = b.from => a = b)'
    BY DEF Kept
  <1>2. a.root \in Root /\ a.made.generation \in Nat
    BY DEF Typed, RenamedType, RecordType
  <1>3. /\ profiles[a.root].records # {}
        /\ Newest(profiles[a.root].records).generation >= a.made.generation
        /\ Newest(profiles[a.root].records).generation = a.made.generation =>
                Newest(profiles[a.root].records) = a.made
    BY LatestIsNewest DEF Kept, HasMetadata
  <1>4. /\ profiles'[a.root].records # {}
        /\ Newest(profiles'[a.root].records).generation
              >= Newest(profiles[a.root].records).generation
        /\ Newest(profiles'[a.root].records).generation
              = Newest(profiles[a.root].records).generation =>
                  Newest(profiles'[a.root].records) = Newest(profiles[a.root].records)
    BY <1>2, <1>3 DEF Advances
  <1>5. Newest(profiles[a.root].records) \in RecordType
        /\ Newest(profiles'[a.root].records) \in RecordType
    BY <1>2, <1>3, <1>4, NewestIs DEF Roots, RootOK
  <1>6. Newest(profiles[a.root].records).generation \in Nat
        /\ Newest(profiles'[a.root].records).generation \in Nat
    BY <1>5 DEF RecordType
  <1>7. /\ Newest(profiles'[a.root].records).generation >= a.made.generation
        /\ Newest(profiles'[a.root].records).generation = a.made.generation =>
                Newest(profiles'[a.root].records) = a.made
    BY <1>2, <1>3, <1>4, <1>6
  <1>8. a.made.generation = a.from + 1
        /\ \A b \in renamed : a.root = b.root /\ a.from = b.from => a = b
    BY DEF Kept
  <1>. QED BY <1>4, <1>7, <1>8, LatestIsNewestNext DEF HasMetadata

\* What is left to show of a step: types, roots, the process's own task, new
\* entries and new renames.
LEMMA Assembles ==
    ASSUME IInv, Typed', Roots', Kept', NEW p \in Proc, NEW w \in Task, Changes(p),
           work' = [work EXCEPT ![p] = w], TaskOK(w)', Holds(p, w)',
           \A q \in Proc : \A e \in seen'[q] : e \in seen[q] \/ EntryOK(e)'
    PROVE IInv'
  <1>1. Typed /\ Roots /\ Entries /\ Tasks
    BY DEF IInv
  <1>2. \A s \in Root : Advances(s)
    BY DEF Changes
  <1>3. Entries'
    <2>1. SUFFICES ASSUME NEW q \in Proc, NEW e \in seen'[q], e \in seen[q]
                   PROVE EntryOK(e)'
      BY DEF Entries
    <2>2. e \in EntryType /\ EntryOK(e)
      BY <1>1, <2>1 DEF Typed, Entries
    <2>. QED BY <1>1, <1>2, <2>2, EntryStays
  <1>4. Tasks'
    <2>1. SUFFICES ASSUME NEW q \in Proc, NEW t \in Task, work'[q] = t
                   PROVE TaskOK(t)' /\ Holds(q, t)'
      BY DEF Tasks
    <2>2. CASE q = p
      <3>1. t = w
        BY <2>1, <2>2 DEF Typed, IInv
      <3>. QED BY <2>2, <3>1
    <2>3. CASE q # p
      <3>1. work[q] = t
        BY <2>1, <2>3 DEF Typed, IInv
      <3>2. TaskOK(t) /\ Holds(q, t)
        BY <1>1, <3>1 DEF Tasks
      <3>. QED BY <1>1, <2>3, <3>2, TaskStays
    <2>. QED BY <2>2, <2>3
  <1>. QED BY <1>3, <1>4 DEF IInv

\* A step that writes nothing in the catalog.
LEMMA ReadStep ==
    ASSUME IInv, NEW p \in Proc, NEW w \in Task, work' = [work EXCEPT ![p] = w],
           UNCHANGED <<profiles, nextIdentity, renamed>>,
           lock' \in [Root -> Proc \cup {NoProc}],
           \A s \in Root : lock[s] \notin {p, NoProc} => lock'[s] = lock[s],
           seen' \in [Proc -> SUBSET EntryType],
           \A q \in Proc : \A e \in seen'[q] : e \in seen[q] \/ EntryOK(e),
           budget' \in [work : 0 .. MaxWork, renames : 0 .. MaxRenames],
           TaskOK(w), w.step \in Holding => lock'[w.root] = p
    PROVE IInv'
  <1>1. Typed /\ Roots /\ Kept
    BY DEF IInv
  <1>2. Typed'
    BY <1>1 DEF Typed
  <1>3. \A r : (Latest(r)' = Latest(r)) /\ (HasIdentity(r)' <=> HasIdentity(r))
               /\ (HasMetadata(r)' <=> HasMetadata(r)) /\ Entry(r)' = Entry(r)
    BY DEF Latest, HasIdentity, HasMetadata, Entry, IdentityOf
  <1>4. Roots'
    BY <1>1, <1>3 DEF Roots, RootOK, HasNumber
  <1>5. \A e : EntryOK(e)' <=> EntryOK(e)
    BY <1>3 DEF EntryOK
  <1>6. Kept'
    BY <1>1, <1>3 DEF Kept
  <1>7. \A s \in Root : Advances(s)
    <2>1. SUFFICES ASSUME NEW s \in Root, profiles[s].records # {}
                   PROVE Newest(profiles[s].records).generation
                             >= Newest(profiles[s].records).generation
      BY DEF Advances
    <2>2. Newest(profiles[s].records) \in RecordType
      BY <1>1, <2>1, NewestIs DEF Roots, RootOK
    <2>. QED BY <2>2 DEF RecordType
  <1>8. Changes(p)
    BY <1>7 DEF Changes
  <1>9. TaskOK(w)'
    <2>1. FoundOK(w, w.todo)' <=> FoundOK(w, w.todo)
      BY <1>5 DEF FoundOK
    <2>2. FoundOK(w, w.todo \cup {w.root})' <=> FoundOK(w, w.todo \cup {w.root})
      BY <1>5 DEF FoundOK
    <2>3. MakeOK(w)' <=> MakeOK(w)
      BY <1>3 DEF MakeOK
    <2>. QED BY <1>3, <2>1, <2>2, <2>3 DEF TaskOK
  <1>10. Holds(p, w)'
    BY DEF Holds
  <1>. QED BY <1>2, <1>4, <1>5, <1>6, <1>8, <1>9, <1>10, Assembles

LEMMA Begins ==
    ASSUME IInv, NEW p \in Proc
    PROVE \E t \in Task : work[p] = t /\ TaskOK(t) /\ Holds(p, t)
  BY DEF IInv, Typed, Tasks

\* A process that has nothing to do promises nothing.
LEMMA IdleIs == Idle \in Task /\ TaskOK(Idle) /\ Idle.step \notin Holding
  BY DEF Idle, Task, TaskOK, Holding, Making

-----------------------------------------------------------------------------
(* Discovery.                                                              *)

\* What a read step needs when it changes neither locks, listings nor budget.
LEMMA LookStep ==
    ASSUME IInv, NEW p \in Proc, NEW t \in Task, work[p] = t, TaskOK(t), Holds(p, t),
           NEW w \in Task, work' = [work EXCEPT ![p] = w], TaskOK(w),
           w.step \in Holding => t.step \in Holding /\ w.root = t.root,
           UNCHANGED <<profiles, lock, nextIdentity, seen, renamed, budget>>
    PROVE IInv'
  <1>1. Typed
    BY DEF IInv
  <1>2. w.step \in Holding => lock'[w.root] = p
    BY DEF Holds
  <1>. QED BY <1>1, <1>2, ReadStep DEF Typed

LEMMA DiscoverStep ==
    ASSUME IInv, NEW p \in Proc, Discover(p)
    PROVE IInv'
  <1>1. Typed
    BY DEF IInv
  <1>2. PICK w : /\ work' = [work EXCEPT ![p] = w]
                 /\ \/ w = Discovering("list", 0)
                    \/ \E name \in Name : w = Discovering("create", name)
    BY DEF Discover, Goes
  <1>3. w \in Task /\ TaskOK(w) /\ w.step \notin Holding
    <2>1. CASE w = Idle
      BY <2>1, IdleIs
    <2>2. CASE w # Idle
      <3>1. PICK then \in {"list", "create"}, name \in Name \cup {0}, todo \in SUBSET Root :
                /\ w = [step |-> "visit", todo |-> todo, found |-> {}, then |-> then,
                        name |-> name]
                /\ then = "create" => name \in Name
        BY <1>2, <2>2 DEF Discovering
      <3>2. w \in VisitTask
        BY <3>1 DEF VisitTask
      <3>. QED BY <3>1, <3>2 DEF Task, TaskOK, FoundOK, Making, Holding
    <2>. QED BY <2>1, <2>2
  <1>4. budget' \in [work : 0 .. MaxWork, renames : 0 .. MaxRenames]
    <2>1. budget.work \in 0 .. MaxWork /\ budget.work > 0
      BY <1>1 DEF Typed, Discover
    <2>2. budget.work - 1 \in 0 .. MaxWork
      BY <2>1, Bounds
    <2>. QED BY <1>1, <2>2 DEF Typed, Discover
  <1>5. UNCHANGED <<profiles, lock, nextIdentity, seen, renamed>>
    BY DEF Discover
  <1>. QED BY <1>1, <1>2, <1>3, <1>4, <1>5, ReadStep DEF Typed

LEMMA VisitStep ==
    ASSUME IInv, NEW p \in Proc, Visit(p)
    PROVE IInv'
  <1>1. PICK t \in Task : work[p] = t /\ TaskOK(t) /\ Holds(p, t)
    BY Begins
  <1>2. t.step = "visit" /\ t \in VisitTask /\ FoundOK(t, t.todo)
    BY <1>1, TaskIs DEF Visit, At, TaskOK
  <1>3. PICK r, w : /\ r \in t.todo /\ work' = [work EXCEPT ![p] = w]
                    /\ \/ Hidden(r) /\ w = [t EXCEPT !.todo = @ \ {r}]
                       \/ w = Idle
                       \/ /\ ~Hidden(r)
                          /\ w = [step |-> "identity", root |-> r, todo |-> t.todo \ {r},
                                  found |-> t.found, then |-> t.then, name |-> t.name]
    <2>1. PICK r \in t.todo :
              Goes(p, CASE Hidden(r) -> [t EXCEPT !.todo = @ \ {r}]
                        [] /\ ~Hidden(r)
                           /\ Cardinality([t EXCEPT !.todo = @ \ {r}].found) = MaxProfiles -> Idle
                        [] OTHER -> [step |-> "identity", root |-> r,
                                     todo |-> [t EXCEPT !.todo = @ \ {r}].todo,
                                     found |-> [t EXCEPT !.todo = @ \ {r}].found,
                                     then |-> [t EXCEPT !.todo = @ \ {r}].then,
                                     name |-> [t EXCEPT !.todo = @ \ {r}].name])
      BY <1>1 DEF Visit
    <2>2. /\ [t EXCEPT !.todo = @ \ {r}].todo = t.todo \ {r}
          /\ [t EXCEPT !.todo = @ \ {r}].found = t.found
          /\ [t EXCEPT !.todo = @ \ {r}].then = t.then
          /\ [t EXCEPT !.todo = @ \ {r}].name = t.name
      BY <1>2 DEF VisitTask
    <2>3. CASE Hidden(r)
      BY <2>1, <2>3 DEF Goes
    <2>4. CASE ~Hidden(r) /\ Cardinality([t EXCEPT !.todo = @ \ {r}].found) = MaxProfiles
      BY <2>1, <2>4 DEF Goes
    <2>5. CASE ~Hidden(r) /\ Cardinality([t EXCEPT !.todo = @ \ {r}].found) # MaxProfiles
      BY <2>1, <2>2, <2>5 DEF Goes
    <2>. QED BY <2>3, <2>4, <2>5
  <1>4. w \in Task /\ TaskOK(w) /\ w.step \notin Holding
    <2>1. CASE w = Idle
      BY <2>1, IdleIs
    <2>2. CASE w = [t EXCEPT !.todo = @ \ {r}]
      <3>1. w \in VisitTask /\ w.found = t.found /\ w.todo \subseteq t.todo
            /\ w.then = t.then /\ w.name = t.name
        BY <1>2, <2>2 DEF VisitTask
      <3>2. w.step = "visit"
        BY <3>1 DEF VisitTask
      <3>3. FoundOK(w, w.todo)
        BY <1>2, <3>1 DEF FoundOK
      <3>. QED BY <1>1, <1>2, <3>1, <3>2, <3>3 DEF Task, TaskOK, Making, Holding
    <2>3. CASE /\ ~Hidden(r)
               /\ w = [step |-> "identity", root |-> r, todo |-> t.todo \ {r},
                       found |-> t.found, then |-> t.then, name |-> t.name]
      <3>1. w \in LookTask
        BY <1>3, <1>2, <2>3 DEF VisitTask, LookTask
      <3>2. FoundOK(w, w.todo \cup {w.root})
        BY <1>3, <1>2, <2>3 DEF FoundOK
      <3>3. w.root # Default => profiles[w.root].ready
        BY <2>3 DEF Hidden
      <3>4. w.then = "create" => w.name \in Name
        BY <1>1, <1>2, <2>3 DEF TaskOK
      <3>5. w.step = "identity" /\ w.root \notin w.todo
        BY <2>3
      <3>. QED BY <3>1, <3>2, <3>3, <3>4, <3>5 DEF Task, TaskOK, Making, Holding
    <2>. QED BY <1>3, <2>1, <2>2, <2>3
  <1>5. UNCHANGED <<profiles, lock, nextIdentity, seen, renamed, budget>>
    BY DEF Visit
  <1>. QED BY <1>1, <1>3, <1>4, <1>5, LookStep

\* The identity of a published root is its own, and can be read.
LEMMA VisitIdentityStep ==
    ASSUME IInv, NEW p \in Proc, VisitIdentity(p)
    PROVE IInv'
  <1>1. PICK t \in Task : work[p] = t /\ TaskOK(t) /\ Holds(p, t)
    BY Begins
  <1>2. t.step = "identity" /\ t \in LookTask
    BY <1>1, TaskIs DEF VisitIdentity, At
  <1>3. t.root \in Root /\ Typed /\ RootOK(t.root)
        /\ (t.root # Default => profiles[t.root].ready)
    BY <1>1, <1>2 DEF IInv, Roots, TaskOK, LookTask
  <1>4. IdentityFits(t.root) /\ (t.root # Default => HasIdentity(t.root))
    <2>1. Readable(t.root)
      BY <1>3, IsReadable
    <2>2. t.root # Default => HasIdentity(t.root) /\ profiles[t.root].identity = {t.root}
      BY <1>3 DEF RootOK, HasIdentity
    <2>. QED BY <2>1, <2>2 DEF IdentityFits
  <1>5. PICK w : /\ work' = [work EXCEPT ![p] = w]
                 /\ w = [step |-> "metadata", root |-> t.root,
                         identity |-> HasIdentity(t.root), todo |-> t.todo,
                         found |-> t.found, then |-> t.then, name |-> t.name]
    BY <1>1, <1>4 DEF VisitIdentity, Goes
  <1>6. w \in ReadTask
    BY <1>2, <1>5 DEF LookTask, ReadTask, HasIdentity
  <1>7. FoundOK(w, w.todo \cup {w.root})
    <2>1. FoundOK(t, t.todo \cup {t.root})
      BY <1>1, <1>2 DEF TaskOK
    <2>. QED BY <1>5, <2>1 DEF FoundOK
  <1>8. /\ w.root \notin w.todo /\ (w.then = "create" => w.name \in Name)
        /\ w.root # Default => profiles[w.root].ready
    BY <1>1, <1>2, <1>5 DEF TaskOK
  <1>9. (w.identity => HasIdentity(w.root)) /\ (w.root # Default => w.identity)
    BY <1>4, <1>5
  <1>10. w.step = "metadata"
    BY <1>5
  <1>11. w \in Task /\ TaskOK(w) /\ w.step \notin Holding
    BY <1>6, <1>7, <1>8, <1>9, <1>10 DEF Task, TaskOK, Making, Holding
  <1>12. UNCHANGED <<profiles, lock, nextIdentity, seen, renamed, budget>>
    BY DEF VisitIdentity
  <1>. QED BY <1>1, <1>5, <1>11, <1>12, LookStep

\* The metadata of a published root can be read, and its identity is new.
LEMMA VisitMetadataStep ==
    ASSUME IInv, NEW p \in Proc, VisitMetadata(p)
    PROVE IInv'
  <1>1. PICK t \in Task : work[p] = t /\ TaskOK(t) /\ Holds(p, t)
    BY Begins
  <1>2. t.step = "metadata" /\ t \in ReadTask
    BY <1>1, TaskIs DEF VisitMetadata, At
  <1>3. /\ t.root \in Root /\ Typed /\ Roots /\ RootOK(t.root)
        /\ t.root # Default => profiles[t.root].ready /\ t.identity
        /\ FoundOK(t, t.todo \cup {t.root}) /\ t.root \notin t.todo
        /\ t.identity => HasIdentity(t.root)
        /\ t.then = "create" => t.name \in Name
    BY <1>1, <1>2 DEF IInv, Roots, TaskOK, ReadTask
  <1>4. MetadataFits(p, t.root)
    <2>1. Readable(t.root)
      BY <1>3, IsReadable
    <2>2. t.root = Default \/ HasMetadata(t.root)
      BY <1>3 DEF RootOK
    <2>3. ASSUME NEW e \in t.found
          PROVE e.identity \notin profiles[t.root].identity
      <3>1. e \in EntryType /\ EntryOK(e) /\ e.root # t.root
        BY <1>2, <1>3, <2>3 DEF FoundOK, ReadTask
      <3>2. e.root \in Root /\ 0 \notin profiles[t.root].identity
        <4>1. profiles[t.root].identity \subseteq 1 .. MaxIdentities
          BY <1>3, Root1
        <4>2. e.root \in Root
          BY <3>1 DEF EntryType
        <4>3. 0 \notin 1 .. MaxIdentities
          OBVIOUS
        <4>. QED BY <4>1, <4>2, <4>3
      <3>3. CASE e.identity = 0
        BY <3>2, <3>3
      <3>4. CASE e.identity # 0
        BY <1>3, <3>1, <3>2, <3>4, Disjoint DEF EntryOK
      <3>. QED BY <3>3, <3>4
    <2>. QED BY <1>1, <2>1, <2>2, <2>3 DEF MetadataFits
  <1>5. PICK e, w : /\ e = IF t.identity THEN Entry(t.root)
                           ELSE [root |-> t.root, identity |-> 0, generation |-> 0]
                    /\ work' = [work EXCEPT ![p] = w]
                    /\ w = [step |-> "visit", todo |-> t.todo, then |-> t.then,
                            name |-> t.name, found |-> t.found \cup {e}]
    BY <1>1, <1>4 DEF VisitMetadata, Goes
  <1>6. e \in EntryType /\ EntryOK(e) /\ e.root = t.root
    <2>1. CASE ~t.identity
      BY <1>3, <1>5, <2>1, Bounds DEF EntryType, EntryOK
    <2>2. CASE t.identity
      <3>1. HasIdentity(t.root) /\ e = Entry(t.root) /\ e \in EntryType
        BY <1>3, <1>5, <2>2, Reads
      <3>2. /\ e.root = t.root /\ e.identity = IdentityOf(t.root)
            /\ e.generation = IF HasMetadata(t.root) THEN Latest(t.root).generation ELSE 0
        BY <3>1 DEF Entry
      <3>3. profiles[t.root].identity = {e.identity} /\ e.identity # 0
        <4>1. profiles[t.root].identity = {IdentityOf(t.root)}
              /\ IdentityOf(t.root) \in 1 .. MaxIdentities
          BY <1>3, <3>1, Reads
        <4>2. 0 \notin 1 .. MaxIdentities
          OBVIOUS
        <4>. QED BY <3>2, <4>1, <4>2
      <3>4. e.generation # 0 => HasMetadata(t.root) /\ Latest(t.root).generation >= e.generation
        BY <3>1, <3>2 DEF EntryType
      <3>. QED BY <3>1, <3>2, <3>3, <3>4 DEF EntryOK
    <2>. QED BY <2>1, <2>2
  <1>7. w \in VisitTask
    BY <1>2, <1>5, <1>6 DEF VisitTask, ReadTask
  <1>8. FoundOK(w, w.todo)
    BY <1>3, <1>5, <1>6 DEF FoundOK
  <1>9. w.step = "visit" /\ (w.then = "create" => w.name \in Name)
    BY <1>3, <1>5
  <1>10. w \in Task /\ TaskOK(w) /\ w.step \notin Holding
    BY <1>7, <1>8, <1>9 DEF Task, TaskOK, Making, Holding
  <1>11. UNCHANGED <<profiles, lock, nextIdentity, seen, renamed, budget>>
    BY DEF VisitMetadata
  <1>. QED BY <1>1, <1>5, <1>10, <1>11, LookStep

LEMMA ListedStep ==
    ASSUME IInv, NEW p \in Proc, Listed(p)
    PROVE IInv'
  <1>1. PICK t \in Task : work[p] = t /\ TaskOK(t) /\ Holds(p, t)
    BY Begins
  <1>2. t \in VisitTask /\ FoundOK(t, t.todo)
    BY <1>1, TaskIs DEF Listed, At, TaskOK
  <1>3. /\ work' = [work EXCEPT ![p] = Idle]
        /\ seen' = [seen EXCEPT ![p] = t.found]
        /\ UNCHANGED <<profiles, lock, nextIdentity, renamed, budget>>
    BY <1>1 DEF Listed, Goes
  <1>4. Typed
    BY DEF IInv
  <1>5. seen' \in [Proc -> SUBSET EntryType]
    BY <1>2, <1>3, <1>4 DEF Typed, VisitTask
  <1>6. \A q \in Proc : \A e \in seen'[q] : e \in seen[q] \/ EntryOK(e)
    BY <1>2, <1>3, <1>4 DEF Typed, FoundOK
  <1>. QED BY <1>3, <1>4, <1>5, <1>6, IdleIs, ReadStep DEF Typed

-----------------------------------------------------------------------------
(* Steps on locks.                                                         *)

\* A step that takes a free lock, gives back its own, or leaves the locks.
LEMMA LockStep ==
    ASSUME IInv, NEW p \in Proc, NEW r \in Root, NEW owner \in {p, NoProc},
           lock[r] \in {p, NoProc}, lock' = [lock EXCEPT ![r] = owner],
           NEW w \in Task, work' = [work EXCEPT ![p] = w], TaskOK(w),
           w.step \in Holding => w.root = r /\ owner = p,
           UNCHANGED <<profiles, nextIdentity, seen, renamed, budget>>
    PROVE IInv'
  <1>1. Typed
    BY DEF IInv
  <1>2. lock' \in [Root -> Proc \cup {NoProc}]
        /\ \A s \in Root : lock[s] \notin {p, NoProc} => lock'[s] = lock[s]
    BY <1>1 DEF Typed
  <1>3. w.step \in Holding => lock'[w.root] = p
    BY <1>1 DEF Typed
  <1>. QED BY <1>1, <1>2, <1>3, ReadStep DEF Typed

LEMMA UnlockStep ==
    ASSUME IInv, NEW p \in Proc, Unlock(p)
    PROVE IInv'
  <1>1. PICK t \in Task : work[p] = t /\ TaskOK(t) /\ Holds(p, t)
    BY Begins
  <1>2. t.step = "unlock" /\ t \in MakeTask /\ MakeOK(t) /\ lock[t.root] = p
    BY <1>1, TaskIs DEF Unlock, At, Making, Holding, Holds, TaskOK
  <1>3. PICK w : /\ w = [t EXCEPT !.step = "publish"]
                 /\ work' = [work EXCEPT ![p] = w]
                 /\ lock' = [lock EXCEPT ![t.root] = NoProc]
    BY <1>1 DEF Unlock, Unlocks, GoesTo, Goes
  <1>4. /\ w \in MakeTask /\ w.step = "publish" /\ w.root = t.root
        /\ w.identity = t.identity /\ w.then = t.then /\ t.root \in Root
    BY <1>2, <1>3 DEF MakeTask, Making
  <1>5. MakeOK(w)
    BY <1>2, <1>4 DEF MakeOK
  <1>6. w \in Task /\ TaskOK(w) /\ w.step \notin Holding
    BY <1>4, <1>5 DEF Task, TaskOK, Holding
  <1>7. UNCHANGED <<profiles, nextIdentity, seen, renamed, budget>>
    BY DEF Unlock
  <1>. QED BY <1>2, <1>3, <1>4, <1>6, <1>7, LockStep

LEMMA BeginRenameStep ==
    ASSUME IInv, NEW p \in Proc, BeginRename(p)
    PROVE IInv'
  <1>1. Typed
    BY DEF IInv
  <1>2. PICK e, name, w :
            /\ e \in seen[p] /\ name \in Name
            /\ w = [step |-> "acquire", root |-> e.root, identity |-> e.identity,
                    from |-> e.generation, name |-> name]
            /\ work' = [work EXCEPT ![p] = w]
    BY DEF BeginRename, Goes
  <1>3. e \in EntryType
    BY <1>1, <1>2 DEF Typed
  <1>4. w \in RenameTask
    BY <1>2, <1>3 DEF EntryType, RenameTask, Renaming
  <1>5. w \in Task /\ TaskOK(w) /\ w.step \notin Holding
    BY <1>2, <1>4 DEF Task, TaskOK, Making, Holding
  <1>6. budget' \in [work : 0 .. MaxWork, renames : 0 .. MaxRenames]
    <2>1. budget.renames \in 0 .. MaxRenames /\ budget.renames > 0
      BY <1>1 DEF Typed, BeginRename
    <2>2. budget.renames - 1 \in 0 .. MaxRenames
      BY <2>1, Bounds
    <2>. QED BY <1>1, <2>2 DEF Typed, BeginRename
  <1>7. UNCHANGED <<profiles, lock, nextIdentity, seen, renamed>>
    BY DEF BeginRename
  <1>. QED BY <1>1, <1>2, <1>5, <1>6, <1>7, ReadStep DEF Typed

LEMMA AcquireToRenameStep ==
    ASSUME IInv, NEW p \in Proc, AcquireToRename(p)
    PROVE IInv'
  <1>1. PICK t \in Task : work[p] = t /\ TaskOK(t) /\ Holds(p, t)
    BY Begins
  <1>2. t.step = "acquire" /\ t \in RenameTask /\ t.root \in Root
    BY <1>1, TaskIs DEF AcquireToRename, At, Renaming, RenameTask
  <1>3. UNCHANGED <<profiles, nextIdentity, seen, renamed, budget>>
    BY DEF AcquireToRename
  <1>4. CASE MayRename(t.root)
    <2>1. PICK w : /\ w = [t EXCEPT !.step = "check"]
                   /\ work' = [work EXCEPT ![p] = w]
                   /\ lock' = [lock EXCEPT ![t.root] = p]
      BY <1>1, <1>4 DEF AcquireToRename, Locks, GoesTo, Goes
    <2>2. w \in RenameTask /\ w.step = "check" /\ w.root = t.root
      BY <1>2, <2>1 DEF RenameTask, Renaming
    <2>3. w \in Task /\ TaskOK(w)
      BY <2>2 DEF Task, TaskOK, Making
    <2>4. lock[t.root] = NoProc
      BY <1>4 DEF MayRename, MayLock
    <2>. QED BY <1>2, <1>3, <2>1, <2>2, <2>3, <2>4, LockStep
  <1>5. CASE ~MayRename(t.root)
    <2>1. work' = [work EXCEPT ![p] = Idle] /\ lock' = lock
      BY <1>1, <1>5 DEF AcquireToRename, Goes
    <2>. QED BY <1>1, <1>3, <2>1, IdleIs, LookStep
  <1>. QED BY <1>4, <1>5

LEMMA CheckRenameStep ==
    ASSUME IInv, NEW p \in Proc, CheckRename(p)
    PROVE IInv'
  <1>1. PICK t \in Task : work[p] = t /\ TaskOK(t) /\ Holds(p, t)
    BY Begins
  <1>2. t.step = "check" /\ t \in RenameTask /\ t.root \in Root /\ lock[t.root] = p
    BY <1>1, TaskIs DEF CheckRename, At, Renaming, RenameTask, Holding, Holds
  <1>3. UNCHANGED <<profiles, nextIdentity, seen, renamed, budget>>
    BY DEF CheckRename
  <1>4. CASE profiles[t.root].identity = {t.identity} /\ Readable(t.root) /\ IsCurrent(p, t.root)
    <2>1. PICK w : /\ w = [t EXCEPT !.step = "prune"]
                   /\ work' = [work EXCEPT ![p] = w]
      BY <1>1, <1>4 DEF CheckRename, GoesTo, Goes
    <2>2. lock' = lock
      BY <1>1, <1>4 DEF CheckRename
    <2>3. w \in RenameTask /\ w.step = "prune" /\ w.root = t.root /\ w.from = t.from
      BY <1>2, <2>1 DEF RenameTask, Renaming
    <2>4. HasMetadata(t.root) /\ Latest(t.root).generation = t.from
      BY <1>1, <1>4 DEF IsCurrent
    <2>5. w \in Task /\ TaskOK(w)
      BY <2>3, <2>4 DEF Task, TaskOK, Making
    <2>. QED BY <1>1, <1>2, <1>3, <2>1, <2>2, <2>3, <2>5, LookStep DEF Holding
  <1>5. CASE ~(profiles[t.root].identity = {t.identity} /\ Readable(t.root) /\ IsCurrent(p, t.root))
    <2>1. work' = [work EXCEPT ![p] = Idle] /\ lock' = [lock EXCEPT ![t.root] = NoProc]
      BY <1>1, <1>5 DEF CheckRename, Goes, Unlocks
    <2>. QED BY <1>2, <1>3, <2>1, IdleIs, LockStep
  <1>. QED BY <1>4, <1>5

LEMMA OpenStep ==
    ASSUME IInv, NEW p \in Proc, Open(p)
    PROVE IInv'
  <1>1. Typed /\ Entries
    BY DEF IInv
  <1>2. PICK r, name, w :
            /\ r \in {e.root : e \in seen[p]} \cup {Default} /\ name \in Name
            /\ w = [step |-> "lock", root |-> r, identity |-> 0, name |-> name,
                    then |-> "load"]
            /\ work' = [work EXCEPT ![p] = w]
    BY DEF Open, Goes
  <1>3. r \in Root /\ (r = Default \/ HasIdentity(r))
    <2>1. CASE r = Default
      BY <2>1, Bounds
    <2>2. CASE r # Default
      <3>1. PICK e \in seen[p] : e.root = r
        BY <1>2, <2>2
      <3>2. e \in EntryType /\ EntryOK(e)
        BY <1>1, <3>1 DEF Typed, Entries
      <3>. QED BY <2>2, <3>1, <3>2 DEF EntryOK, EntryType, HasIdentity
    <2>. QED BY <2>1, <2>2
  <1>4. w \in MakeTask
    BY <1>2, <1>3, Bounds DEF MakeTask, Making
  <1>5. MakeOK(w)
    BY <1>2, <1>3 DEF MakeOK
  <1>6. w \in Task /\ TaskOK(w) /\ w.step \notin Holding
    BY <1>2, <1>4, <1>5 DEF Task, TaskOK, Holding
  <1>7. budget' \in [work : 0 .. MaxWork, renames : 0 .. MaxRenames]
    <2>1. budget.work \in 0 .. MaxWork /\ budget.work > 0
      BY <1>1 DEF Typed, Open
    <2>2. budget.work - 1 \in 0 .. MaxWork
      BY <2>1, Bounds
    <2>. QED BY <1>1, <2>2 DEF Typed, Open
  <1>8. UNCHANGED <<profiles, lock, nextIdentity, seen, renamed>>
    BY DEF Open
  <1>. QED BY <1>1, <1>2, <1>6, <1>7, <1>8, ReadStep DEF Typed

\* What the process keeps of the profile is what it has just read under the lock.
LEMMA LoadStep ==
    ASSUME IInv, NEW p \in Proc, Load(p)
    PROVE IInv'
  <1>1. PICK t \in Task : work[p] = t /\ TaskOK(t) /\ Holds(p, t)
    BY Begins
  <1>2. t.step = "load" /\ t \in MakeTask /\ t.root \in Root /\ t.step \in Holding
    BY <1>1, TaskIs DEF Load, At, Making, MakeTask, Holding
  <1>3. PICK w : /\ w = [step |-> "active", root |-> t.root, entry |-> Entry(t.root)]
                 /\ work' = [work EXCEPT ![p] = w]
    BY <1>1 DEF Load, Goes
  <1>4. Entry(t.root) \in EntryType
    BY <1>2, Reads DEF IInv, Roots
  <1>5. w \in ActiveTask
    BY <1>2, <1>3, <1>4 DEF ActiveTask
  <1>6. w \in Task /\ TaskOK(w) /\ w.root = t.root
    BY <1>3, <1>5 DEF Task, TaskOK, Making
  <1>7. UNCHANGED <<profiles, lock, nextIdentity, seen, renamed, budget>>
    BY DEF Load
  <1>. QED BY <1>1, <1>2, <1>3, <1>6, <1>7, LookStep

LEMMA CloseStep ==
    ASSUME IInv, NEW p \in Proc, Close(p)
    PROVE IInv'
  <1>1. PICK t \in Task : work[p] = t /\ TaskOK(t) /\ Holds(p, t)
    BY Begins
  <1>2. t \in ActiveTask /\ t.root \in Root /\ lock[t.root] = p
    BY <1>1, TaskIs DEF Close, At, ActiveTask, Holding, Holds
  <1>3. work' = [work EXCEPT ![p] = Idle] /\ lock' = [lock EXCEPT ![t.root] = NoProc]
    BY <1>1 DEF Close, Goes, Unlocks
  <1>4. UNCHANGED <<profiles, nextIdentity, seen, renamed, budget>>
    BY DEF Close
  <1>. QED BY <1>2, <1>3, <1>4, IdleIs, LockStep

LEMMA StopStep ==
    ASSUME IInv, NEW p \in Proc, Stop(p)
    PROVE IInv'
  <1>1. Typed
    BY DEF IInv
  <1>2. /\ lock' = [r \in Root |-> IF lock[r] = p THEN NoProc ELSE lock[r]]
        /\ work' = [work EXCEPT ![p] = Idle]
        /\ UNCHANGED <<profiles, nextIdentity, seen, renamed, budget>>
    BY DEF Stop, Goes
  <1>3. lock' \in [Root -> Proc \cup {NoProc}]
        /\ \A s \in Root : lock[s] \notin {p, NoProc} => lock'[s] = lock[s]
    BY <1>1, <1>2 DEF Typed
  <1>. QED BY <1>1, <1>2, <1>3, IdleIs, ReadStep DEF Typed

-----------------------------------------------------------------------------
(* Steps on the disk.                                                      *)

LEMMA NewestStays ==
    ASSUME Typed, Roots, NEW s \in Root, profiles'[s].records = profiles[s].records,
           profiles[s].records # {}
    PROVE Newest(profiles'[s].records).generation >= Newest(profiles[s].records).generation
  <1>1. Newest(profiles[s].records) \in RecordType
    BY NewestIs DEF Roots, RootOK
  <1>. QED BY <1>1 DEF RecordType

\* A step that writes in one root, whose lock it holds if it touches the
\* identity or the records.
LEMMA WriteStep ==
    ASSUME IInv, NEW p \in Proc, NEW r \in Root, NEW new \in RootType,
           profiles' = [profiles EXCEPT ![r] = new],
           \/ lock[r] = p
           \/ new.identity = profiles[r].identity /\ new.records = profiles[r].records,
           Advances(r), RootOK(r)',
           \A i \in profiles'[Default].identity : i < nextIdentity' /\ ~profiles'[i].dir,
           nextIdentity' \in 1 .. MaxIdentities + 1, nextIdentity' >= nextIdentity,
           lock' \in [Root -> Proc \cup {NoProc}],
           \A s \in Root : lock[s] \notin {p, NoProc} => lock'[s] = lock[s],
           UNCHANGED <<seen, renamed, budget>>,
           NEW w \in Task, work' = [work EXCEPT ![p] = w], TaskOK(w)', Holds(p, w)'
    PROVE IInv'
  <1>1. Typed /\ Roots /\ Kept
    BY DEF IInv
  <1>2. Typed'
    BY <1>1 DEF Typed
  <1>3. \A s \in Root : s # r => profiles'[s] = profiles[s]
    BY <1>1 DEF Typed
  <1>4. profiles'[r] = new
    BY <1>1 DEF Typed
  <1>5. \A s \in Root : Advances(s)
    <2>1. SUFFICES ASSUME NEW s \in Root, s # r
                   PROVE Advances(s)
      OBVIOUS
    <2>. QED BY <1>1, <1>3, <2>1, NewestStays DEF Advances
  <1>6. Roots'
    <2>1. SUFFICES ASSUME NEW s \in Root, s # r
                   PROVE RootOK(s)'
      BY DEF Roots
    <2>2. RootOK(s) /\ profiles'[s] = profiles[s] /\ s \in Nat
      BY <1>1, <1>3, <2>1, Bounds DEF Roots
    <2>3. (InSequence(profiles[s].records) /\ (HasIdentity(s) => HasNumber(s)))'
      BY <2>2 DEF RootOK, HasIdentity, HasNumber
    <2>4. nextIdentity \in Nat /\ nextIdentity' \in Nat
      BY <1>1 DEF Typed
    <2>5. s < nextIdentity => s < nextIdentity'
      BY <2>2, <2>4
    <2>6. (s # Default =>
             /\ profiles[s].identity \subseteq {s}
             /\ HasIdentity(s) => profiles[s].dir
             /\ profiles[s].dir => s < nextIdentity
             /\ profiles[s].ready => HasIdentity(s) /\ HasMetadata(s))'
      BY <2>2, <2>5 DEF RootOK, HasIdentity, HasMetadata
    <2>. QED BY <2>3, <2>6 DEF RootOK
  <1>7. Changes(p)
    <2>1. SUFFICES ASSUME NEW s \in Root, lock[s] # p
                   PROVE /\ profiles'[s].identity = profiles[s].identity
                         /\ profiles'[s].records = profiles[s].records
                         /\ lock[s] # NoProc => lock'[s] = lock[s]
      BY <1>5 DEF Changes
    <2>. QED BY <1>3, <1>4, <2>1
  <1>8. Kept'
    BY <1>1, <1>2, <1>5, <1>6, KeptStays
  <1>9. \A q \in Proc : \A e \in seen'[q] : e \in seen[q]
    OBVIOUS
  <1>. QED BY <1>2, <1>6, <1>7, <1>8, <1>9, Assembles

\* What stays readable of a root none of whose parts but one is written.
LEMMA RootParts ==
    ASSUME Typed, Typed', NEW r \in Root
    PROVE /\ HasIdentity(r) <=> profiles[r].identity # {}
          /\ HasMetadata(r) <=> profiles[r].records # {}
          /\ HasIdentity(r)' <=> profiles'[r].identity # {}
          /\ HasMetadata(r)' <=> profiles'[r].records # {}
  BY DEF HasIdentity, HasMetadata

LEMMA CreateRootStep ==
    ASSUME IInv, NEW p \in Proc, CreateRoot(p)
    PROVE IInv'
  <1>1. PICK t \in Task : work[p] = t /\ TaskOK(t) /\ Holds(p, t)
    BY Begins
  <1>2. t \in VisitTask /\ t.then = "create" /\ t.name \in Name
    BY <1>1, TaskIs DEF CreateRoot, At, TaskOK
  <1>3. Typed /\ Roots /\ nextIdentity <= MaxIdentities
    BY DEF IInv, CreateRoot
  <1>4. nextIdentity \in 1 .. MaxIdentities /\ nextIdentity \in Root
        /\ nextIdentity # Default /\ nextIdentity + 1 \in 1 .. MaxIdentities + 1
    BY <1>3, Bounds DEF Typed
  <1>5. PICK r, w, new :
            /\ r = nextIdentity /\ r \in Root
            /\ new = [profiles[r] EXCEPT !.dir = TRUE]
            /\ w = [step |-> "lock", root |-> r, identity |-> r, name |-> t.name,
                    then |-> "unlock"]
    BY <1>4
  <1>6. /\ work' = [work EXCEPT ![p] = w] /\ nextIdentity' = r + 1
        /\ profiles' = [profiles EXCEPT ![r] = new]
        /\ UNCHANGED <<lock, seen, renamed, budget>>
    BY <1>1, <1>5 DEF CreateRoot, Goes
  <1>7. /\ new \in RootType /\ new.identity = profiles[r].identity
        /\ new.records = profiles[r].records /\ new.dir = TRUE
        /\ new.ready = profiles[r].ready /\ profiles'[r] = new
    BY <1>3, <1>5, <1>6 DEF Typed, RootType
  <1>8. Advances(r)
    BY <1>5, <1>3, <1>7, NewestStays DEF Advances
  <1>9. RootOK(r) /\ r # Default /\ r \in Nat
    BY <1>3, <1>4, <1>5, Bounds DEF Roots
  <1>10. RootOK(r)'
    BY <1>6, <1>7, <1>9 DEF RootOK, HasIdentity, HasMetadata, HasNumber
  <1>11. \A i \in profiles'[Default].identity : i < nextIdentity' /\ ~profiles'[i].dir
    <2>1. SUFFICES ASSUME NEW i \in profiles'[Default].identity
                   PROVE i < nextIdentity' /\ ~profiles'[i].dir
      OBVIOUS
    <2>2. profiles'[Default] = profiles[Default]
      BY <1>3, <1>6, <1>9, Bounds DEF Typed
    <2>3. i < nextIdentity /\ ~profiles[i].dir /\ i \in 1 .. MaxIdentities /\ i \in Root
      BY <1>3, <2>1, <2>2, Root1, Bounds DEF Roots
    <2>4. i # r /\ i < r + 1
      BY <1>5, <1>9, <2>3
    <2>5. profiles'[i] = profiles[i]
      BY <1>3, <1>6, <2>3, <2>4 DEF Typed
    <2>. QED BY <1>6, <2>3, <2>4, <2>5
  <1>12. w \in MakeTask
    BY <1>2, <1>4, <1>5 DEF MakeTask, Making
  <1>13. (t.step = "visit") /\ MakeOK(w)'
    <2>1. /\ w.identity = r /\ w.root = r /\ w.then = "unlock" /\ w.step = "lock"
          /\ profiles'[r].dir /\ r # 0
      BY <1>5, <1>7, <1>9, Bounds
    <2>. QED BY <1>2, <2>1 DEF MakeOK, VisitTask
  <1>14. w \in Task /\ TaskOK(w)' /\ Holds(p, w)'
    BY <1>5, <1>12, <1>13 DEF Task, TaskOK, Holds, Holding
  <1>15. nextIdentity' \in 1 .. MaxIdentities + 1 /\ nextIdentity' >= nextIdentity
    BY <1>4, <1>5, <1>6
  <1>. QED BY <1>5, <1>3, <1>6, <1>7, <1>8, <1>10, <1>11, <1>14, <1>15, WriteStep DEF Typed

\* A lock is taken for a root that is there, or for the legacy one.
LEMMA LockingStep ==
    ASSUME IInv, NEW p \in Proc, Lock(p)
    PROVE IInv'
  <1>1. PICK t \in Task : work[p] = t /\ TaskOK(t) /\ Holds(p, t)
    BY Begins
  <1>2. t.step = "lock" /\ t \in MakeTask /\ MakeOK(t) /\ t.root \in Root
    BY <1>1, TaskIs DEF Lock, At, Making, MakeTask, TaskOK
  <1>3. Typed /\ Roots /\ UNCHANGED <<nextIdentity, seen, renamed, budget>>
    BY DEF IInv, Lock
  <1>4. CASE ~MayLock(t.root)
    <2>1. work' = [work EXCEPT ![p] = Idle] /\ UNCHANGED <<lock, profiles>>
      BY <1>1, <1>4 DEF Lock, Goes
    <2>. QED BY <1>1, <1>3, <2>1, IdleIs, LookStep
  <1>5. CASE MayLock(t.root)
    <2>1. PICK r, w, new :
              /\ r = t.root /\ r \in Root
              /\ new = [profiles[r] EXCEPT !.dir = TRUE]
              /\ w = [t EXCEPT !.step = "bind"]
      BY <1>2
    <2>2. /\ work' = [work EXCEPT ![p] = w]
          /\ profiles' = [profiles EXCEPT ![r] = new]
          /\ lock' = [lock EXCEPT ![r] = p]
      BY <1>1, <1>5, <2>1 DEF Lock, Locks, GoesTo, Goes
    <2>3. /\ new \in RootType /\ new.identity = profiles[r].identity
          /\ new.records = profiles[r].records /\ new.dir = TRUE
          /\ new.ready = profiles[r].ready /\ profiles'[r] = new
      BY <1>3, <2>1, <2>2 DEF Typed, RootType
    <2>4. Advances(r)
      BY <2>1, <1>3, <2>3, NewestStays DEF Advances
    <2>5. RootOK(r) /\ (r # Default => profiles[r].dir)
      BY <1>2, <1>3, <2>1 DEF Roots, RootOK, MakeOK
    <2>6. RootOK(r)'
      BY <1>3, <2>3, <2>5 DEF RootOK, HasIdentity, HasMetadata, HasNumber
    <2>7. \A i \in profiles'[Default].identity : i < nextIdentity' /\ ~profiles'[i].dir
      <3>1. SUFFICES ASSUME NEW i \in profiles'[Default].identity
                     PROVE i < nextIdentity' /\ ~profiles'[i].dir
        OBVIOUS
      <3>2. i \in profiles[Default].identity
        BY <1>3, <2>2, <2>3, <3>1, Bounds DEF Typed
      <3>3. i < nextIdentity /\ ~profiles[i].dir /\ i \in 1 .. MaxIdentities
        BY <1>3, <3>2, Root1, Bounds DEF Roots
      <3>4. i # Default /\ i \in Root
        BY <3>3, Bounds
      <3>5. CASE i = r
        BY <2>5, <3>3, <3>4, <3>5
      <3>6. CASE i # r
        <4>1. profiles'[i] = profiles[i]
          BY <1>3, <2>2, <3>4, <3>6 DEF Typed
        <4>. QED BY <1>3, <3>3, <4>1
      <3>. QED BY <3>5, <3>6
    <2>8. /\ w \in MakeTask /\ w.step = "bind" /\ w.root = r
          /\ w.identity = t.identity /\ w.then = t.then
      BY <1>2, <2>1 DEF MakeTask, Making
    <2>9. MakeOK(w)'
      <3>1. t.identity = 0 => t.then = "load" /\ (r = Default \/ HasIdentity(r))
        BY <1>2, <2>1 DEF MakeOK
      <3>2. t.identity # 0 => t.then = "unlock" /\ t.identity = r
        BY <1>2, <2>1 DEF MakeOK
      <3>3. HasIdentity(r) => HasIdentity(r)'
        BY <2>3 DEF HasIdentity
      <3>. QED BY <2>3, <2>8, <3>1, <3>2, <3>3 DEF MakeOK
    <2>10. lock'[r] = p
      BY <2>1, <1>3, <2>2 DEF Typed
    <2>11. w \in Task /\ TaskOK(w)' /\ Holds(p, w)'
      BY <2>8, <2>9, <2>10 DEF Task, TaskOK, Holds
    <2>12. lock' \in [Root -> Proc \cup {NoProc}]
           /\ \A s \in Root : lock[s] \notin {p, NoProc} => lock'[s] = lock[s]
      BY <1>3, <1>5, <2>1, <2>2 DEF Typed, MayLock
    <2>13. nextIdentity' \in 1 .. MaxIdentities + 1 /\ nextIdentity' >= nextIdentity
      BY <1>3 DEF Typed
    <2>. QED BY <2>1, <1>3, <2>2, <2>3, <2>4, <2>6, <2>7, <2>11, <2>12, <2>13, WriteStep
  <1>. QED BY <1>4, <1>5

\* An identity is written once: the root's own, or a new one for the legacy root.
LEMMA WriteIdentityStep ==
    ASSUME IInv, NEW p \in Proc, WriteIdentity(p, "name")
    PROVE IInv'
  <1>1. PICK t \in Task : work[p] = t /\ TaskOK(t) /\ Holds(p, t)
    BY Begins
  <1>2. t.step = "bind" /\ t \in MakeTask /\ MakeOK(t) /\ t.root \in Root /\ lock[t.root] = p
    BY <1>1, TaskIs DEF WriteIdentity, At, Making, MakeTask, TaskOK, Holding, Holds
  <1>3. Typed /\ Roots /\ RootOK(t.root) /\ UNCHANGED <<lock, seen, renamed, budget>>
    BY <1>2 DEF IInv, Roots, WriteIdentity
  <1>4. PICK r, w : /\ r = t.root /\ r \in Root
                    /\ w = [t EXCEPT !.step = "name"]
                    /\ work' = [work EXCEPT ![p] = w]
    BY <1>1, <1>2 DEF WriteIdentity, GoesTo, Goes
  <1>5. /\ w \in MakeTask /\ w.step = "name" /\ w.root = r
        /\ w.identity = t.identity /\ w.then = t.then /\ w.identity \in 0 .. MaxIdentities
    BY <1>2, <1>4 DEF MakeTask, Making
  <1>6. \/ w.identity = 0 /\ w.then = "load" /\ (r = Default \/ HasIdentity(r))
        \/ w.identity # 0 /\ w.then = "unlock" /\ w.identity = r /\ profiles[r].dir
    BY <1>2, <1>4, <1>5 DEF MakeOK
  <1>7. \E ids \in SUBSET (1 .. MaxIdentities) :
            /\ profiles' = [profiles EXCEPT ![r].identity = ids] /\ ids # {}
            /\ \/ ids = profiles[r].identity /\ nextIdentity' = nextIdentity
               \/ /\ profiles[r].identity = {} /\ ids = {r} /\ r # Default
                  /\ profiles[r].dir /\ nextIdentity' = nextIdentity
               \/ /\ profiles[r].identity = {} /\ r = Default
                  /\ nextIdentity \in 1 .. MaxIdentities
                  /\ ids = {nextIdentity} /\ nextIdentity' = nextIdentity + 1
    <2>1. profiles[r].identity \subseteq 1 .. MaxIdentities
      BY <1>4, <1>3, Root1
    <2>2. CASE HasIdentity(r)
      <3>1. profiles' = profiles /\ nextIdentity' = nextIdentity
        BY <1>1, <1>4, <2>2 DEF WriteIdentity
      <3>2. profiles = [profiles EXCEPT ![r].identity = profiles[r].identity]
        BY <1>3 DEF Typed, RootType
      <3>. QED BY <2>1, <2>2, <3>1, <3>2 DEF HasIdentity
    <2>3. CASE ~HasIdentity(r) /\ t.identity # 0
      <3>1. /\ profiles' = [profiles EXCEPT ![r].identity = @ \cup {t.identity}]
            /\ nextIdentity' = nextIdentity
        BY <1>1, <1>4, <2>3 DEF WriteIdentity
      <3>2. profiles[r].identity = {} /\ t.identity = r /\ r # Default /\ profiles[r].dir
            /\ r \in 1 .. MaxIdentities
        BY <1>5, <1>6, <2>3, Bounds DEF HasIdentity
      <3>3. profiles[r].identity \cup {t.identity} = {r}
        BY <3>2
      <3>4. profiles' = [profiles EXCEPT ![r].identity = {r}]
        BY <3>1, <3>3
      <3>. QED BY <3>1, <3>2, <3>4
    <2>4. CASE ~HasIdentity(r) /\ t.identity = 0
      <3>1. /\ profiles' = [profiles EXCEPT ![r].identity = @ \cup {nextIdentity}]
            /\ nextIdentity' = nextIdentity + 1 /\ nextIdentity <= MaxIdentities
        BY <1>1, <1>4, <2>4 DEF WriteIdentity
      <3>2. profiles[r].identity = {} /\ r = Default
        BY <1>5, <1>6, <2>4 DEF HasIdentity
      <3>3. nextIdentity \in 1 .. MaxIdentities
        BY <1>3, <3>1, Bounds DEF Typed
      <3>4. profiles[r].identity \cup {nextIdentity} = {nextIdentity}
        BY <3>2
      <3>5. profiles' = [profiles EXCEPT ![r].identity = {nextIdentity}]
        BY <3>1, <3>4
      <3>6. {nextIdentity} \in SUBSET (1 .. MaxIdentities) /\ {nextIdentity} # {}
        BY <3>3
      <3>. QED BY <3>1, <3>2, <3>3, <3>5, <3>6
    <2>. QED BY <2>2, <2>3, <2>4
  <1>8. PICK ids, new :
            /\ ids \in SUBSET (1 .. MaxIdentities)
            /\ profiles' = [profiles EXCEPT ![r].identity = ids] /\ ids # {}
            /\ \/ ids = profiles[r].identity /\ nextIdentity' = nextIdentity
               \/ /\ profiles[r].identity = {} /\ ids = {r} /\ r # Default
                  /\ profiles[r].dir /\ nextIdentity' = nextIdentity
               \/ /\ profiles[r].identity = {} /\ r = Default
                  /\ nextIdentity \in 1 .. MaxIdentities
                  /\ ids = {nextIdentity} /\ nextIdentity' = nextIdentity + 1
            /\ new = [profiles[r] EXCEPT !.identity = ids]
    BY <1>7
  <1>9. /\ profiles' = [profiles EXCEPT ![r] = new] /\ new \in RootType
        /\ new.identity = ids /\ new.records = profiles[r].records
        /\ new.dir = profiles[r].dir /\ new.ready = profiles[r].ready
        /\ profiles'[r] = new
    BY <1>4, <1>3, <1>8 DEF Typed, RootType
  <1>10. Advances(r)
    BY <1>4, <1>3, <1>8, <1>9, NewestStays DEF Advances
  <1>11. nextIdentity' \in 1 .. MaxIdentities + 1 /\ nextIdentity' >= nextIdentity
         /\ nextIdentity \in Nat
    <2>1. nextIdentity \in 1 .. MaxIdentities + 1
      BY <1>3 DEF Typed
    <2>2. nextIdentity \in 1 .. MaxIdentities => nextIdentity + 1 \in 1 .. MaxIdentities + 1
      BY Bounds
    <2>. QED BY <1>8, <2>1, <2>2
  <1>12. RootOK(r)'
    <2>1. InSequence(new.records) /\ r \in Nat
      BY <1>3, <1>4, <1>9, Bounds DEF RootOK
    <2>2. \E i \in 1 .. MaxIdentities : ids = {i}
      BY <1>3, <1>4, <1>8 DEF RootOK, HasIdentity, HasNumber
    <2>3. ASSUME r # Default
          PROVE /\ ids \subseteq {r} /\ new.dir /\ r < nextIdentity'
                /\ new.ready => new.records # {}
      <3>1. ids \subseteq {r} /\ profiles[r].dir
        BY <1>3, <1>4, <1>8, <2>3 DEF RootOK, HasIdentity
      <3>2. nextIdentity' = nextIdentity
        BY <1>8, <2>3
      <3>. QED BY <1>3, <1>4, <1>9, <2>3, <3>1, <3>2 DEF RootOK, HasMetadata
    <2>. QED BY <1>8, <1>9, <2>1, <2>2, <2>3 DEF RootOK, HasIdentity, HasMetadata, HasNumber
  <1>13. \A i \in profiles'[Default].identity : i < nextIdentity' /\ ~profiles'[i].dir
    <2>1. SUFFICES ASSUME NEW i \in profiles'[Default].identity
                   PROVE i < nextIdentity' /\ ~profiles'[i].dir
      OBVIOUS
    <2>2. \A s \in Root : profiles'[s].dir = profiles[s].dir
      BY <1>3, <1>9 DEF Typed
    <2>3. CASE i \in profiles[Default].identity
      <3>1. i < nextIdentity /\ ~profiles[i].dir /\ i \in 1 .. MaxIdentities /\ i \in Root
        BY <1>3, <2>3, Root1, Bounds DEF Roots
      <3>2. i < nextIdentity'
        BY <1>11, <3>1
      <3>. QED BY <2>2, <3>1, <3>2
    <2>4. CASE i \notin profiles[Default].identity
      <3>1. r = Default
        BY <1>3, <1>9, <2>1, <2>4, Bounds DEF Typed
      <3>2. i = nextIdentity /\ nextIdentity' = i + 1 /\ i \in 1 .. MaxIdentities
        BY <1>8, <1>9, <2>1, <2>4, <3>1
      <3>3. i \in Root /\ i # Default
        BY <3>2, Bounds
      <3>4. ~profiles[i].dir
        BY <1>3, <3>2, <3>3 DEF Roots, RootOK
      <3>. QED BY <2>2, <3>2, <3>3, <3>4
    <2>. QED BY <2>3, <2>4
  <1>14. MakeOK(w)'
    <2>1. HasIdentity(r)' /\ (profiles[r].dir => profiles'[r].dir)
      BY <1>8, <1>9 DEF HasIdentity
    <2>. QED BY <1>5, <1>6, <2>1 DEF MakeOK
  <1>15. w \in Task /\ TaskOK(w)' /\ Holds(p, w)'
    BY <1>2, <1>3, <1>4, <1>5, <1>14 DEF Task, TaskOK, Holds
  <1>16. lock[r] = p
    BY <1>2, <1>4
  <1>. QED BY <1>3, <1>4, <1>9, <1>10, <1>11, <1>12, <1>13, <1>15, <1>16, WriteStep
           DEF Typed

\* A step that writes the records of a root, under its lock.
LEMMA RecordsStep ==
    ASSUME IInv, NEW p \in Proc, NEW r \in Root, NEW new \in SUBSET RecordType,
           profiles' = [profiles EXCEPT ![r].records = new],
           lock[r] = p, new # {}, InSequence(new),
           profiles[r].records # {} =>
              /\ Newest(new).generation >= Newest(profiles[r].records).generation
              /\ Newest(new).generation = Newest(profiles[r].records).generation =>
                    Newest(new) = Newest(profiles[r].records),
           UNCHANGED <<lock, nextIdentity, seen, renamed, budget>>,
           NEW w \in Task, work' = [work EXCEPT ![p] = w], TaskOK(w)', Holds(p, w)'
    PROVE IInv'
  <1>1. Typed /\ Roots /\ RootOK(r)
    BY DEF IInv, Roots
  <1>2. PICK rec : rec = [profiles[r] EXCEPT !.records = new]
    OBVIOUS
  <1>3. /\ profiles' = [profiles EXCEPT ![r] = rec] /\ rec \in RootType
        /\ rec.records = new /\ rec.identity = profiles[r].identity
        /\ rec.dir = profiles[r].dir /\ rec.ready = profiles[r].ready
        /\ profiles'[r] = rec
    BY <1>1, <1>2 DEF Typed, RootType
  <1>4. Advances(r)
    BY <1>3 DEF Advances
  <1>5. RootOK(r)'
    BY <1>1, <1>3 DEF RootOK, HasIdentity, HasMetadata, HasNumber
  <1>6. \A i \in profiles'[Default].identity : i < nextIdentity' /\ ~profiles'[i].dir
    <2>1. SUFFICES ASSUME NEW i \in profiles'[Default].identity
                   PROVE i < nextIdentity' /\ ~profiles'[i].dir
      OBVIOUS
    <2>2. \A s \in Root : profiles'[s].dir = profiles[s].dir
                          /\ profiles'[s].identity = profiles[s].identity
      BY <1>1, <1>3 DEF Typed
    <2>3. i \in profiles[Default].identity
      BY <2>1, <2>2, Bounds
    <2>4. i < nextIdentity /\ ~profiles[i].dir /\ i \in 1 .. MaxIdentities /\ i \in Root
      BY <1>1, <2>3, Root1, Bounds DEF Roots
    <2>. QED BY <2>2, <2>4
  <1>7. nextIdentity' \in 1 .. MaxIdentities + 1 /\ nextIdentity' >= nextIdentity
    BY <1>1 DEF Typed
  <1>. QED BY <1>1, <1>3, <1>4, <1>5, <1>6, <1>7, WriteStep DEF Typed

LEMMA WriteMetadataStep ==
    ASSUME IInv, NEW p \in Proc, WriteMetadata(p)
    PROVE IInv'
  <1>1. PICK t \in Task : work[p] = t /\ TaskOK(t) /\ Holds(p, t)
    BY Begins
  <1>2. t.step = "name" /\ t \in MakeTask /\ MakeOK(t) /\ t.root \in Root /\ lock[t.root] = p
        /\ t.step \in Holding
    BY <1>1, TaskIs DEF WriteMetadata, At, Making, MakeTask, TaskOK, Holding, Holds
  <1>3. Typed /\ Roots /\ UNCHANGED <<lock, nextIdentity, seen, renamed, budget>>
    BY DEF IInv, WriteMetadata
  <1>4. PICK r, w : /\ r = t.root /\ r \in Root
                    /\ w = [t EXCEPT !.step = t.then]
                    /\ work' = [work EXCEPT ![p] = w]
    BY <1>1, <1>2 DEF WriteMetadata, GoesTo, Goes
  <1>5. /\ w \in MakeTask /\ w.step = t.then /\ w.root = r /\ w.step \in {"unlock", "load"}
        /\ w.identity = t.identity /\ w.then = t.then
    BY <1>2, <1>4 DEF MakeTask, Making
  <1>6. /\ w.identity = 0 => w.then = "load" /\ (r = Default \/ HasIdentity(r))
        /\ w.identity # 0 => w.then = "unlock" /\ w.identity = r /\ profiles[r].dir
        /\ HasIdentity(r)
    BY <1>2, <1>4, <1>5 DEF MakeOK
  <1>7. w \in Task /\ w.step \in Making /\ w.step \in Holding
    BY <1>5 DEF Task, Making, Holding
  <1>8. CASE HasMetadata(r)
    <2>1. profiles' = profiles
      BY <1>1, <1>4, <1>8 DEF WriteMetadata
    <2>2. MakeOK(w)
      BY <1>5, <1>6, <1>8 DEF MakeOK
    <2>3. TaskOK(w)
      BY <1>5, <2>2 DEF TaskOK
    <2>. QED BY <1>1, <1>2, <1>3, <1>4, <1>5, <1>7, <2>1, <2>3, LookStep
  <1>9. CASE ~HasMetadata(r)
    <2>1. PICK m : m = Record(1, t.name)
      OBVIOUS
    <2>2. m \in RecordType
      BY <1>2, <2>1 DEF Record, RecordType, MakeTask
    <2>3. profiles' = [profiles EXCEPT ![r].records = {m}]
      BY <1>1, <1>4, <1>9, <2>1 DEF WriteMetadata
    <2>4. profiles'[r].records = {m} /\ profiles'[r].identity = profiles[r].identity
          /\ profiles'[r].dir = profiles[r].dir
      BY <1>4, <1>3, <2>3 DEF Typed, RootType
    <2>5. MakeOK(w)'
      <3>1. HasMetadata(r)' /\ HasIdentity(r)'
        BY <1>6, <2>4 DEF HasIdentity, HasMetadata
      <3>. QED BY <1>5, <1>6, <2>4, <3>1 DEF MakeOK
    <2>6. TaskOK(w)' /\ Holds(p, w)'
      BY <1>2, <1>3, <1>4, <1>5, <2>5 DEF TaskOK, Holds
    <2>7. {m} \in SUBSET RecordType /\ {m} # {} /\ InSequence({m})
      BY <2>2 DEF InSequence
    <2>8. profiles[r].records = {} /\ lock[r] = p
      BY <1>2, <1>4, <1>9 DEF HasMetadata
    <2>. QED BY <1>3, <1>4, <1>7, <2>3, <2>6, <2>7, <2>8, RecordsStep
  <1>. QED BY <1>8, <1>9

\* The marker is made when the identity and the first record are there.
LEMMA PublishStep ==
    ASSUME IInv, NEW p \in Proc, Publish(p)
    PROVE IInv'
  <1>1. PICK t \in Task : work[p] = t /\ TaskOK(t) /\ Holds(p, t)
    BY Begins
  <1>2. t.step = "publish" /\ MakeOK(t) /\ t.root \in Root
    BY <1>1, TaskIs DEF Publish, At, Making, MakeTask, TaskOK
  <1>3. Typed /\ Roots /\ UNCHANGED <<lock, nextIdentity, seen, renamed, budget>>
    BY DEF IInv, Publish
  <1>4. PICK r, new : r = t.root /\ r \in Root /\ new = [profiles[r] EXCEPT !.ready = TRUE]
    BY <1>2
  <1>5. /\ work' = [work EXCEPT ![p] = Idle]
        /\ profiles' = [profiles EXCEPT ![r] = new]
    BY <1>1, <1>4 DEF Publish, Goes
  <1>6. /\ new \in RootType /\ new.identity = profiles[r].identity
        /\ new.records = profiles[r].records /\ new.dir = profiles[r].dir
        /\ new.ready = TRUE /\ profiles'[r] = new
    BY <1>3, <1>4, <1>5 DEF Typed, RootType
  <1>7. Advances(r)
    BY <1>4, <1>3, <1>6, NewestStays DEF Advances
  <1>8. RootOK(r) /\ HasIdentity(r) /\ HasMetadata(r)
    BY <1>2, <1>3, <1>4 DEF Roots, MakeOK
  <1>9. RootOK(r)'
    BY <1>3, <1>6, <1>8 DEF RootOK, HasIdentity, HasMetadata, HasNumber
  <1>10. \A i \in profiles'[Default].identity : i < nextIdentity' /\ ~profiles'[i].dir
    <2>1. SUFFICES ASSUME NEW i \in profiles'[Default].identity
                   PROVE i < nextIdentity' /\ ~profiles'[i].dir
      OBVIOUS
    <2>2. \A s \in Root : profiles'[s].dir = profiles[s].dir
                          /\ profiles'[s].identity = profiles[s].identity
      BY <1>3, <1>5, <1>6 DEF Typed
    <2>3. i \in profiles[Default].identity
      BY <2>1, <2>2, Bounds
    <2>4. i < nextIdentity /\ ~profiles[i].dir /\ i \in 1 .. MaxIdentities /\ i \in Root
      BY <1>3, <2>3, Root1, Bounds DEF Roots
    <2>. QED BY <1>3, <2>2, <2>4
  <1>11. nextIdentity' \in 1 .. MaxIdentities + 1 /\ nextIdentity' >= nextIdentity
    BY <1>3 DEF Typed
  <1>12. Idle \in Task /\ TaskOK(Idle)' /\ Holds(p, Idle)'
    BY DEF Idle, Task, TaskOK, Holds, Holding, Making
  <1>. QED BY <1>4, <1>3, <1>5, <1>6, <1>7, <1>9, <1>10, <1>11, <1>12, WriteStep DEF Typed

\* Of two records in sequence the older goes, and the newest is still known.
LEMMA PruneStep ==
    ASSUME IInv, NEW p \in Proc, Prune(p)
    PROVE IInv'
  <1>1. PICK t \in Task : work[p] = t /\ TaskOK(t) /\ Holds(p, t)
    BY Begins
  <1>2. /\ t.step = "prune" /\ t \in RenameTask /\ t.root \in Root /\ lock[t.root] = p
        /\ HasMetadata(t.root) /\ Latest(t.root).generation = t.from /\ t.step \in Holding
    BY <1>1, TaskIs DEF Prune, At, Renaming, RenameTask, TaskOK, Holding, Holds
  <1>3. Typed /\ Roots /\ UNCHANGED <<lock, nextIdentity, seen, renamed, budget>>
    BY DEF IInv, Prune
  <1>4. PICK r \in Root, S \in SUBSET RecordType :
            r = t.root /\ S = profiles[r].records /\ S # {} /\ InSequence(S)
            /\ Older(r) = S \ {Newest(S)} /\ Newest(S).generation = t.from
    <2>1. profiles[t.root].records \subseteq RecordType
          /\ profiles[t.root].records # {} /\ InSequence(profiles[t.root].records)
      BY <1>2, <1>3, Root1 DEF Roots, RootOK, HasMetadata
    <2>2. Older(t.root) = profiles[t.root].records \ {Newest(profiles[t.root].records)}
          /\ Newest(profiles[t.root].records).generation = t.from
      BY <1>2, LatestIsNewest DEF Older
    <2>. QED BY <1>2, <2>1, <2>2
  <1>5. CASE Older(r) # {}
    <2>1. PICK m \in RecordType, n \in RecordType :
              S = {m, n} /\ n.generation = m.generation + 1
      BY <1>4, <1>5, OneRecord DEF InSequence
    <2>2. Newest(S) = n /\ m # n
      BY <2>1, TwoRecords
    <2>3. Older(r) = {m} /\ S \ {m} = {n}
      BY <1>4, <2>1, <2>2
    <2>4. m.generation <= m.generation
      BY DEF RecordType
    <2>5. (CHOOSE x \in Older(r) : \A y \in Older(r) : x.generation <= y.generation) = m
      BY <2>3, <2>4
    <2>6. profiles' = [profiles EXCEPT ![r].records = {n}] /\ work' = work
      <3>1. /\ profiles' = [profiles EXCEPT ![r].records = @ \ {CHOOSE x \in Older(r) :
                                \A y \in Older(r) : x.generation <= y.generation}]
            /\ work' = work
        BY <1>1, <1>4, <1>5 DEF Prune
      <3>2. profiles[r].records \ {m} = {n}
        BY <1>4, <2>3
      <3>. QED BY <2>5, <3>1, <3>2
    <2>7. work' = [work EXCEPT ![p] = t]
      BY <1>1, <1>3, <2>6 DEF Typed
    <2>8. {n} \in SUBSET RecordType /\ InSequence({n}) /\ Newest({n}) = n
      BY <2>1, OneRecord DEF InSequence
    <2>9. profiles'[r].records = {n}
      BY <1>3, <2>6 DEF Typed, RootType
    <2>10. (HasMetadata(r) /\ Latest(r).generation = t.from)'
      BY <1>4, <2>2, <2>8, <2>9, LatestIsNewestNext DEF HasMetadata
    <2>11. TaskOK(t)' /\ Holds(p, t)'
      BY <1>2, <1>3, <1>4, <2>10 DEF TaskOK, Holds, Making
    <2>12. n.generation >= n.generation
      BY DEF RecordType
    <2>. QED BY <1>2, <1>3, <1>4, <2>2, <2>6, <2>7, <2>8, <2>11, <2>12, RecordsStep
  <1>6. CASE Older(r) = {}
    <2>1. PICK w : w = [t EXCEPT !.step = "record"] /\ work' = [work EXCEPT ![p] = w]
                   /\ profiles' = profiles
      BY <1>1, <1>4, <1>6 DEF Prune, GoesTo, Goes
    <2>2. w \in RenameTask /\ w.step = "record" /\ w.root = r /\ w.from = t.from
      BY <1>2, <1>4, <2>1 DEF RenameTask, Renaming
    <2>3. profiles[r].records = {Latest(r)}
      BY <1>4, <1>6, NewestIs, LatestIsNewest
    <2>4. HasMetadata(r) /\ Latest(r).generation = t.from
      BY <1>2, <1>4
    <2>5. w \in Task /\ TaskOK(w)
      BY <2>2, <2>3, <2>4 DEF Task, TaskOK, Making
    <2>. QED BY <1>1, <1>2, <1>3, <1>4, <2>1, <2>2, <2>5, LookStep
  <1>. QED BY <1>5, <1>6

\* The new record follows the one the rename was asked to replace.
LEMMA WriteRecordStep ==
    ASSUME IInv, NEW p \in Proc, WriteRecord(p)
    PROVE IInv'
  <1>1. PICK t \in Task : work[p] = t /\ TaskOK(t) /\ Holds(p, t)
    BY Begins
  <1>2. /\ t.step = "record" /\ t \in RenameTask /\ t.root \in Root /\ lock[t.root] = p
        /\ HasMetadata(t.root) /\ Latest(t.root).generation = t.from
        /\ profiles[t.root].records = {Latest(t.root)} /\ t.step \in Holding
    BY <1>1, TaskIs DEF WriteRecord, At, Renaming, RenameTask, TaskOK, Holding, Holds
  <1>3. Typed /\ Roots /\ Kept /\ UNCHANGED <<lock, nextIdentity, seen, renamed, budget>>
    BY DEF IInv, WriteRecord
  <1>4. PICK r, n, made, w :
            /\ r = t.root /\ r \in Root /\ n = Latest(r)
            /\ made = Record(n.generation + 1, t.name)
            /\ w = [step |-> "finish", root |-> r, from |-> t.from, made |-> made]
    BY <1>2
  <1>5. /\ work' = [work EXCEPT ![p] = w]
        /\ profiles' = [profiles EXCEPT ![r].records = @ \cup {made}]
    BY <1>1, <1>4 DEF WriteRecord, Goes
  <1>6. n \in RecordType
    BY <1>2, <1>3, <1>4, Root1
  <1>7. /\ made \in RecordType /\ made.generation = n.generation + 1
        /\ n.generation = t.from /\ t.from \in Nat
    BY <1>2, <1>4, <1>6 DEF Record, RecordType, RenameTask
  <1>8. Newest({n, made}) = made /\ InSequence({n, made})
    BY <1>6, <1>7, TwoRecords
  <1>9. profiles[r].records = {n} /\ Newest({n}) = n
    BY <1>2, <1>4, OneRecord
  <1>10. profiles' = [profiles EXCEPT ![r].records = {n, made}]
    <2>1. profiles[r].records \cup {made} = {n, made}
      BY <1>9
    <2>. QED BY <1>5, <2>1
  <1>11. profiles'[r].records = {n, made}
    BY <1>4, <1>3, <1>10 DEF Typed, RootType
  <1>12. HasMetadata(r)' /\ Latest(r)' = made
    BY <1>8, <1>11, LatestIsNewestNext DEF HasMetadata
  <1>13. \A a \in renamed : a.root = r => a.from < t.from
    <2>1. SUFFICES ASSUME NEW a \in renamed, a.root = r
                   PROVE a.from < t.from
      OBVIOUS
    <2>2. a.from \in Nat /\ a.made.generation = a.from + 1
          /\ Latest(r).generation >= a.made.generation
      BY <1>3, <2>1 DEF Typed, RenamedType, Kept
    <2>3. t.from >= a.from + 1
      BY <1>4, <1>7, <2>2
    <2>. QED BY <1>7, <2>2, <2>3
  <1>14. w \in FinishTask
    BY <1>4, <1>7 DEF FinishTask
  <1>15. /\ w.step = "finish" /\ w.root = r /\ w.made = made /\ w.from = t.from
    BY <1>4
  <1>16. w \in Task /\ TaskOK(w)' /\ Holds(p, w)'
    <2>1. w \in Task
      BY <1>14 DEF Task
    <2>2. \A a \in renamed' : a.root = w.root => a.from < w.from
      BY <1>3, <1>13, <1>15
    <2>3. TaskOK(w)'
      BY <1>7, <1>12, <1>15, <2>2 DEF TaskOK, Making
    <2>4. Holds(p, w)'
      BY <1>2, <1>3, <1>4, <1>15 DEF Holds
    <2>. QED BY <2>1, <2>3, <2>4
  <1>17. {n, made} \in SUBSET RecordType /\ {n, made} # {}
    BY <1>6, <1>7
  <1>18. /\ Newest({n, made}).generation >= Newest(profiles[r].records).generation
         /\ Newest({n, made}).generation # Newest(profiles[r].records).generation
    BY <1>6, <1>7, <1>8, <1>9 DEF RecordType
  <1>. QED BY <1>2, <1>3, <1>4, <1>5, <1>8, <1>10, <1>16, <1>17, <1>18, RecordsStep

\* A rename that ends is newer than all that ended before it.
LEMMA FinishRenameStep ==
    ASSUME IInv, NEW p \in Proc, FinishRename(p)
    PROVE IInv'
  <1>1. PICK t \in Task : work[p] = t /\ TaskOK(t) /\ Holds(p, t)
    BY Begins
  <1>2. /\ t.step = "finish" /\ t \in FinishTask /\ t.root \in Root /\ lock[t.root] = p
        /\ HasMetadata(t.root) /\ Latest(t.root) = t.made
        /\ t.made.generation = t.from + 1
        /\ \A a \in renamed : a.root = t.root => a.from < t.from
    BY <1>1, TaskIs DEF FinishRename, At, FinishTask, TaskOK, Holding, Holds
  <1>3. PICK b : b = [root |-> t.root, from |-> t.from, made |-> t.made]
    OBVIOUS
  <1>4. /\ work' = [work EXCEPT ![p] = Idle] /\ renamed' = renamed \cup {b}
        /\ lock' = [lock EXCEPT ![t.root] = NoProc]
        /\ UNCHANGED <<profiles, nextIdentity, seen, budget>>
    BY <1>1, <1>3 DEF FinishRename, Unlocks, Goes
  <1>5. Typed /\ Roots /\ Kept
    BY DEF IInv
  <1>6. b \in RenamedType /\ b.root = t.root /\ b.from = t.from /\ b.made = t.made
    BY <1>2, <1>3 DEF FinishTask, RenamedType
  <1>7. Idle \in Task /\ TaskOK(Idle)' /\ Holds(p, Idle)'
    BY DEF Idle, Task, TaskOK, Holds, Holding, Making
  <1>8. Typed'
    <2>1. lock' \in [Root -> Proc \cup {NoProc}] /\ work' \in [Proc -> Task]
          /\ renamed' \subseteq RenamedType
      BY <1>4, <1>5, <1>6, <1>7 DEF Typed
    <2>. QED BY <1>4, <1>5, <2>1 DEF Typed
  <1>9. \A r : (Latest(r)' = Latest(r)) /\ (HasIdentity(r)' <=> HasIdentity(r))
               /\ (HasMetadata(r)' <=> HasMetadata(r))
    BY <1>4 DEF Latest, HasIdentity, HasMetadata
  <1>10. Roots'
    BY <1>4, <1>5, <1>9 DEF Roots, RootOK, HasNumber
  <1>11. Changes(p)
    <2>1. \A s \in Root : Advances(s)
      BY <1>4, <1>5, NewestStays DEF Advances
    <2>2. \A s \in Root : lock[s] # p => lock'[s] = lock[s]
      BY <1>2, <1>4, <1>5 DEF Typed
    <2>3. \A a \in renamed' \ renamed : lock[a.root] = p
      BY <1>2, <1>4, <1>6
    <2>. QED BY <1>4, <2>1, <2>2, <2>3 DEF Changes
  <1>12. Kept'
    <2>1. \A a \in renamed' :
              /\ HasMetadata(a.root)
              /\ a.made.generation = a.from + 1
              /\ Latest(a.root).generation >= a.made.generation
              /\ Latest(a.root).generation = a.made.generation => Latest(a.root) = a.made
      <3>1. t.made.generation >= t.made.generation
        BY <1>2 DEF FinishTask, RecordType
      <3>2. ASSUME NEW a \in renamed
            PROVE /\ HasMetadata(a.root)
                  /\ a.made.generation = a.from + 1
                  /\ Latest(a.root).generation >= a.made.generation
                  /\ Latest(a.root).generation = a.made.generation => Latest(a.root) = a.made
        BY <1>5 DEF Kept
      <3>3. /\ HasMetadata(b.root)
            /\ b.made.generation = b.from + 1
            /\ Latest(b.root).generation >= b.made.generation
            /\ Latest(b.root) = b.made
        BY <1>2, <1>6, <3>1
      <3>. QED BY <1>4, <3>2, <3>3
    <2>2. \A a, c \in renamed' : a.root = c.root /\ a.from = c.from => a = c
      <3>1. \A a \in renamed : a.root = t.root => a.from # t.from
        <4>1. SUFFICES ASSUME NEW a \in renamed, a.root = t.root, a.from = t.from
                       PROVE FALSE
          OBVIOUS
        <4>2. a.from < t.from /\ t.from \in Nat
          BY <1>2, <4>1 DEF FinishTask
        <4>. QED BY <4>1, <4>2
      <3>2. \A a, c \in renamed : a.root = c.root /\ a.from = c.from => a = c
        BY <1>5 DEF Kept
      <3>. QED BY <1>4, <1>6, <3>1, <3>2
    <2>. QED BY <1>9, <2>1, <2>2 DEF Kept
  <1>13. \A q \in Proc : \A e \in seen'[q] : e \in seen[q]
    BY <1>4
  <1>. QED BY <1>4, <1>7, <1>8, <1>10, <1>11, <1>12, <1>13, Assembles

-----------------------------------------------------------------------------
LEMMA InitIInv == Init => IInv
  <1>. SUFFICES ASSUME Init PROVE IInv
    OBVIOUS
  <1>1. Typed
    <2>1. Absent \in RootType
      BY DEF Absent, RootType
    <2>2. nextIdentity \in 1 .. MaxIdentities + 1
      BY Bounds DEF Init
    <2>3. MaxWork \in 0 .. MaxWork /\ MaxRenames \in 0 .. MaxRenames
      BY Bounds
    <2>. QED BY <2>1, <2>2, <2>3, IdleIs DEF Init, Typed
  <1>2. \A r \in Root : profiles[r] = Absent
    BY DEF Init
  <1>3. Roots
    BY <1>2, Bounds
       DEF Roots, RootOK, Absent, InSequence, HasIdentity, HasMetadata, HasNumber
  <1>4. Entries /\ Kept
    BY DEF Init, Entries, Kept
  <1>5. Tasks
    <2>1. SUFFICES ASSUME NEW p \in Proc, NEW t \in Task, work[p] = t
                   PROVE TaskOK(t) /\ Holds(p, t)
      BY DEF Tasks
    <2>2. t = Idle
      BY <2>1 DEF Init
    <2>. QED BY <2>2, IdleIs DEF Holds
  <1>. QED BY <1>1, <1>3, <1>4, <1>5 DEF IInv

LEMMA NextIInv == IInv /\ [Next]_vars => IInv'
  <1>. SUFFICES ASSUME IInv, [Next]_vars PROVE IInv'
    OBVIOUS
  <1>1. CASE UNCHANGED vars
    <2>1. \A r : (Latest(r)' = Latest(r)) /\ (HasIdentity(r)' <=> HasIdentity(r))
                 /\ (HasMetadata(r)' <=> HasMetadata(r)) /\ Entry(r)' = Entry(r)
      BY <1>1 DEF vars, Latest, HasIdentity, HasMetadata, Entry, IdentityOf
    <2>2. \A e : EntryOK(e)' <=> EntryOK(e)
      BY <1>1, <2>1 DEF vars, EntryOK
    <2>3. \A t : (TaskOK(t)' <=> TaskOK(t)) /\ \A p : Holds(p, t)' <=> Holds(p, t)
      <3>1. \A t, S : FoundOK(t, S)' <=> FoundOK(t, S)
        BY <2>2 DEF FoundOK
      <3>2. \A t : MakeOK(t)' <=> MakeOK(t)
        BY <1>1, <2>1 DEF vars, MakeOK
      <3>. QED BY <1>1, <2>1, <3>1, <3>2 DEF vars, TaskOK, Holds
    <2>4. Typed'
      BY <1>1 DEF IInv, Typed, vars
    <2>5. Roots'
      BY <1>1, <2>1 DEF IInv, Roots, RootOK, HasNumber, vars
    <2>6. Entries' /\ Tasks' /\ Kept'
      BY <1>1, <2>1, <2>2, <2>3 DEF IInv, Entries, Tasks, Kept, vars
    <2>. QED BY <2>4, <2>5, <2>6 DEF IInv
  <1>2. CASE Next
    <2>1. PICK p \in Proc :
              \/ Discover(p) \/ Visit(p) \/ VisitIdentity(p) \/ VisitMetadata(p) \/ Listed(p)
              \/ CreateRoot(p) \/ Lock(p) \/ WriteIdentity(p, "name") \/ WriteMetadata(p)
              \/ Unlock(p) \/ Publish(p)
              \/ BeginRename(p) \/ AcquireToRename(p) \/ CheckRename(p) \/ Prune(p)
              \/ WriteRecord(p) \/ FinishRename(p)
              \/ Open(p) \/ Load(p) \/ Close(p) \/ Stop(p)
      BY <1>2 DEF Next
    <2>2. CASE Discover(p) \/ Visit(p) \/ VisitIdentity(p) \/ VisitMetadata(p) \/ Listed(p)
      BY <2>2, DiscoverStep, VisitStep, VisitIdentityStep, VisitMetadataStep, ListedStep
    <2>3. CASE CreateRoot(p) \/ Lock(p) \/ WriteIdentity(p, "name") \/ WriteMetadata(p)
               \/ Unlock(p) \/ Publish(p)
      BY <2>3, CreateRootStep, LockingStep, WriteIdentityStep, WriteMetadataStep,
         UnlockStep, PublishStep
    <2>4. CASE BeginRename(p) \/ AcquireToRename(p) \/ CheckRename(p) \/ Prune(p)
               \/ WriteRecord(p) \/ FinishRename(p)
      BY <2>4, BeginRenameStep, AcquireToRenameStep, CheckRenameStep, PruneStep,
         WriteRecordStep, FinishRenameStep
    <2>5. CASE Open(p) \/ Load(p) \/ Close(p) \/ Stop(p)
      BY <2>5, OpenStep, LoadStep, CloseStep, StopStep
    <2>. QED BY <2>1, <2>2, <2>3, <2>4, <2>5
  <1>. QED BY <1>1, <1>2

\* The types, what may be found in a root, in a listing and in the hands of a
\* process, and the renames that succeeded: together these are inductive.
THEOREM Invariance == Spec => []IInv
  BY InitIInv, NextIInv, PTL DEF Spec

-----------------------------------------------------------------------------
\* A discovery never fails on a root another process is making, renaming or
\* opening, or crashed upon (discover).
THEOREM NeverBreaks == Spec => []DiscoveryNeverBreaks
  <1>1. IInv => DiscoveryNeverBreaks
    <2>. SUFFICES ASSUME IInv, NEW p \in Proc PROVE ~At(p, "broken")
      BY DEF DiscoveryNeverBreaks
    <2>1. work[p] \in Task
      BY DEF IInv, Typed
    <2>. QED BY <2>1, TaskIs DEF At
  <1>. QED BY <1>1, Invariance, PTL

\* A listed profile keeps its identity, which no other has, and a name that
\* only gets newer.
THEOREM ProfilesRemain == Spec => []ProfilesStay
  <1>1. IInv => ProfilesStay
    <2>. SUFFICES ASSUME IInv PROVE ProfilesStay
      OBVIOUS
    <2>1. Typed /\ Roots /\ Entries
      BY DEF IInv
    <2>2. TypeOK
      <3>1. ASSUME NEW r \in Root
            PROVE /\ profiles[r].identity \subseteq 1 .. MaxIdentities
                  /\ \A m \in profiles[r].records : m.generation \in Nat /\ m.name \in Name
        BY <2>1, Root1 DEF RecordType
      <3>. QED BY <2>1, <3>1 DEF Typed, TypeOK
    <2>3. ASSUME NEW e \in UNION {seen[q] : q \in Proc}
          PROVE EntryOK(e)
      BY <2>1 DEF Entries
    <2>4. \A r, s \in Root : r # s => profiles[r].identity \cap profiles[s].identity = {}
      BY <2>1, Disjoint
    <2>. QED BY <2>2, <2>3, <2>4 DEF ProfilesStay, EntryOK
  <1>. QED BY <1>1, Invariance, PTL

\* No rename that succeeded is lost to another that began from the same name.
THEOREM RenamesRemain == Spec => []RenamesAreKept
  <1>1. IInv => RenamesAreKept
    BY DEF IInv, Kept, RenamesAreKept
  <1>. QED BY <1>1, Invariance, PTL

\* What a process keeps of its open profile is what the disk holds.
THEOREM OpenIsCurrent == Spec => []OpenProfileIsCurrent
  <1>1. IInv => OpenProfileIsCurrent
    <2>. SUFFICES ASSUME IInv, NEW p \in Proc, At(p, "active")
                  PROVE work[p].entry = Entry(work[p].root)
      BY DEF OpenProfileIsCurrent
    <2>1. PICK t \in Task : work[p] = t /\ TaskOK(t)
      BY Begins
    <2>. QED BY <2>1 DEF TaskOK, At
  <1>. QED BY <1>1, Invariance, PTL

=============================================================================
