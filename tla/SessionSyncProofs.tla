-------------------------- MODULE SessionSyncProofs --------------------------
(***************************************************************************)
(* What holds of the synchronisation of a browser with its stored session, *)
(* for every bound on either side, and the proofs.                         *)
(*                                                                         *)
(* The invariant, SyncInv, has four parts: the browser is sound (each tab  *)
(* in one window, histories in order, numbers below the next ones), the    *)
(* session and the disk are sound sessions, the session is Later than the  *)
(* disk (a tab it has and the disk has not is numbered past the disk's     *)
(* bound), and the bindings pair off what the browser shows with what the  *)
(* session stores.  Each theorem but two follows from it.  The restored    *)
(* start is exact because a synchronisation with nothing to tell leaves    *)
(* the session alone (ExactInv), and the windows are stored as they are    *)
(* shown because every loop of the synchronisation leaves its window Told  *)
(* and what is Beside it as it was.                                        *)
(*                                                                         *)
(* The synchronisation is made of folds.  A lemma on a fold names a run of *)
(* it, h[0] to h[n], one step an element; a claim about the run is then    *)
(* proved by Induction, in which the claim is a set of naturals, so that   *)
(* no operator is ever a parameter.                                        *)
(***************************************************************************)
EXTENDS SessionSync, FiniteSetTheorems, SequenceTheorems,
        FunctionTheorems, TLAPS

-----------------------------------------------------------------------------
(* Numbers.                                                                *)

\* A set of naturals has a smallest element.
LEMMA Smallest ==
    ASSUME NEW S \in SUBSET Nat, S # {}
    PROVE  \E m \in S : \A x \in S : m <= x
  <1>1. IsWellFoundedOn(OpToRel(<, Nat), Nat)
    BY NatLessThanWellFounded
  <1>2. PICK m \in S : \A x \in S : ~(<<x, m>> \in OpToRel(<, Nat))
    BY <1>1, WFMin
  <1>3. \A x \in S : ~(x < m)
    BY <1>2 DEF OpToRel
  <1>. QED BY <1>3

LEMMA MinIs ==
    ASSUME NEW S \in SUBSET Nat, S # {}
    PROVE  Min(S) \in S /\ \A x \in S : Min(S) <= x
  BY Smallest DEF Min

\* Induction over the naturals, the claim given as the set of those it holds for.
LEMMA Induction ==
    ASSUME NEW Holds, NEW n \in Nat, 0 \in Holds,
           \A k \in 0 .. n - 1 : k \in Holds => k + 1 \in Holds
    PROVE  n \in Holds
  <1> SUFFICES ASSUME n \notin Holds PROVE FALSE
    OBVIOUS
  <1> DEFINE Fails == {k \in 0 .. n : k \notin Holds}
  <1>1. PICK m \in Fails : \A k \in Fails : m <= k
    <2>1. Fails \in SUBSET Nat /\ Fails # {}
      OBVIOUS
    <2> HIDE DEF Fails
    <2>. QED BY <2>1, Smallest
  <1>2. m # 0 /\ m - 1 \in 0 .. n - 1
    OBVIOUS
  <1>3. m - 1 \in Holds
    BY <1>1, <1>2
  <1>. QED BY <1>2, <1>3

LEMMA Largest ==
    ASSUME NEW n \in Nat, NEW S \in SUBSET (1 .. n), S # {}
    PROVE  \E m \in S : \A x \in S : x <= m
  <1> DEFINE Mirrored == {n - x : x \in S}
  <1>1. Mirrored \in SUBSET Nat /\ Mirrored # {}
    OBVIOUS
  <1>2. PICK y \in Mirrored : \A z \in Mirrored : y <= z
    <2> HIDE DEF Mirrored
    <2>. QED BY <1>1, Smallest
  <1>3. PICK m \in S : y = n - m
    OBVIOUS
  <1>4. ASSUME NEW x \in S PROVE x <= m
    <2>1. y <= n - x
      BY <1>2
    <2>. QED BY <1>3, <2>1
  <1>. QED BY <1>4

LEMMA MaxIs ==
    ASSUME NEW n \in Nat, NEW S \in SUBSET (1 .. n), S # {}
    PROVE  Max(S) \in S /\ \A x \in S : x <= Max(S)
  <1>1. PICK m \in S : \A x \in S : x <= m
    BY Largest
  <1>2. \E x \in S : \A y \in S : x >= y
    BY <1>1
  <1>. QED BY <1>2 DEF Max

\* The sets a fold over 1 .. n goes through.
LEMMA Downwards ==
    ASSUME NEW n \in Nat, NEW S \in SUBSET (1 .. n + 1), S # {}
    PROVE  Max(S) \in 1 .. n + 1 /\ S \ {Max(S)} \in SUBSET (1 .. n)
  <1>1. Max(S) \in S /\ \A x \in S : x <= Max(S)
    <2>1. n + 1 \in Nat
      OBVIOUS
    <2>. QED BY <2>1, MaxIs
  <1> DEFINE m == Max(S)
  <1>2. m \in 1 .. n + 1 /\ \A x \in S : x <= m
    BY <1>1
  <1> HIDE DEF m
  <1>3. \A x \in S : x # m => x \in 1 .. n
    BY <1>2
  <1>4. S \ {m} \in SUBSET (1 .. n)
    BY <1>3
  <1>. QED BY <1>2, <1>4 DEF m

LEMMA DownTo ==
    ASSUME NEW n \in Nat, NEW k \in 1 .. n
    PROVE  1 .. k # {} /\ Max(1 .. k) = k /\ (1 .. k) \ {k} = 1 .. k - 1
  <1>1. 1 .. k # {} /\ k \in Nat
    OBVIOUS
  <1>2. Max(1 .. k) \in 1 .. k /\ \A x \in 1 .. k : x <= Max(1 .. k)
    BY <1>1, MaxIs
  <1>3. (1 .. k) \ {k} = 1 .. k - 1
    OBVIOUS
  <1>. QED BY <1>1, <1>2, <1>3


-----------------------------------------------------------------------------
(* Folds.  Each is a run: a base, and a step for every element.  A fold is *)
(* recursive over the set of positions still to come, so that there is     *)
(* such a function is to be shown for each.                                *)

\* The tabs of window w that are committed.
LEMMA FilteredRuns ==
    ASSUME NEW w, NEW X, windows[w].tabs \in Seq(X)
    PROVE  \E h :
               /\ h[0] = <<>>
               /\ \A k \in 1 .. Len(windows[w].tabs) : h[k] = Filtered(h[k - 1], windows[w].tabs[k])
               /\ CommittedTabs(w) = h[Len(windows[w].tabs)]
  <1> DEFINE base == <<>>
             seq == windows[w].tabs
  <1> seq \in Seq(X)
    OBVIOUS
  <1> HIDE DEF base, seq
  <1> DEFINE n == Len(seq)
             Unfolds(f, m) ==
                 f = [S \in SUBSET (1 .. m) |->
                         IF S = {} THEN base
                         ELSE Filtered(f[S \ {Max(S)}], seq[Max(S)])]
             Holds == {m \in 0 .. n : \E f : Unfolds(f, m)}
             F == CHOOSE f : Unfolds(f, n)
             h == [k \in 0 .. n |-> F[1 .. k]]
  <1>1. n \in Nat /\ DOMAIN seq = 1 .. n
    BY LenProperties
  <1> HIDE DEF n
  <1>2. 0 \in Holds
    <2>1. Unfolds([S \in SUBSET (1 .. 0) |-> base], 0)
      OBVIOUS
    <2>. QED BY <1>1, <2>1
  <1>3. ASSUME NEW m \in 0 .. n - 1, m \in Holds PROVE m + 1 \in Holds
    <2>1. PICK f : Unfolds(f, m)
      BY <1>3
    <2> DEFINE g == [S \in SUBSET (1 .. m + 1) |->
                        IF S = {} THEN base
                        ELSE Filtered(f[S \ {Max(S)}], seq[Max(S)])]
    <2>2. \A S \in SUBSET (1 .. m) : g[S] = f[S]
      <3>1. \A S \in SUBSET (1 .. m) : S \in SUBSET (1 .. m + 1)
        BY <1>1
      <3>. QED BY <2>1, <3>1
    <2>3. \A S \in SUBSET (1 .. m + 1) :
            S # {} => S \ {Max(S)} \in SUBSET (1 .. m)
      BY <1>1, Downwards
    <2> HIDE DEF F, h
    <2>4. Unfolds(g, m + 1)
      <3>1. \A S \in SUBSET (1 .. m + 1) : S # {} => g[S \ {Max(S)}] = f[S \ {Max(S)}]
        <4> HIDE DEF g
        <4>. QED BY <2>2, <2>3
      <3>. QED BY <3>1
    <2> HIDE DEF g, Unfolds
    <2>. QED BY <1>1, <2>4
  <1>4. n \in Holds
    <2> HIDE DEF Holds
    <2>. QED BY <1>1, <1>2, <1>3, Induction
  <1>5. Unfolds(F, n)
    BY <1>4
  <1>6. CommittedTabs(w) = F[1 .. n]
    BY <1>1 DEF FoldLeft, MapThenFoldSet, CommittedTabs, base, seq
  <1> HIDE DEF F
  <1>7. F[1 .. 0] = base
    BY <1>1, <1>5
  <1>8. ASSUME NEW k \in 1 .. n
        PROVE  h[k] = Filtered(h[k - 1], seq[k])
    <2>1. 1 .. k # {} /\ Max(1 .. k) = k /\ (1 .. k) \ {k} = 1 .. k - 1
      BY <1>1, DownTo
    <2>2. 1 .. k \in SUBSET (1 .. n) /\ k - 1 \in 0 .. n /\ k \in 0 .. n
      BY <1>1
    <2>3. F[1 .. k] = Filtered(F[1 .. k - 1], seq[k])
      BY <1>5, <2>1, <2>2
    <2>. QED BY <2>2, <2>3
  <1>9. h[0] = base /\ h[n] = F[1 .. n]
    BY <1>1, <1>7
  <1> HIDE DEF h
  <1>. QED BY <1>6, <1>8, <1>9 DEF n, base, seq

\* Windows that are closed.
LEMMA DroppedRuns ==
    ASSUME NEW base, NEW X, NEW seq \in Seq(X)
    PROVE  \E h :
               /\ h[0] = base
               /\ \A k \in 1 .. Len(seq) : h[k] = WindowDropped(h[k - 1], seq[k])
               /\ Dropped(base, seq) = h[Len(seq)]
  <1> DEFINE n == Len(seq)
             Unfolds(f, m) ==
                 f = [S \in SUBSET (1 .. m) |->
                         IF S = {} THEN base
                         ELSE WindowDropped(f[S \ {Max(S)}], seq[Max(S)])]
             Holds == {m \in 0 .. n : \E f : Unfolds(f, m)}
             F == CHOOSE f : Unfolds(f, n)
             h == [k \in 0 .. n |-> F[1 .. k]]
  <1>1. n \in Nat /\ DOMAIN seq = 1 .. n
    BY LenProperties
  <1> HIDE DEF n
  <1>2. 0 \in Holds
    <2>1. Unfolds([S \in SUBSET (1 .. 0) |-> base], 0)
      OBVIOUS
    <2>. QED BY <1>1, <2>1
  <1>3. ASSUME NEW m \in 0 .. n - 1, m \in Holds PROVE m + 1 \in Holds
    <2>1. PICK f : Unfolds(f, m)
      BY <1>3
    <2> DEFINE g == [S \in SUBSET (1 .. m + 1) |->
                        IF S = {} THEN base
                        ELSE WindowDropped(f[S \ {Max(S)}], seq[Max(S)])]
    <2>2. \A S \in SUBSET (1 .. m) : g[S] = f[S]
      <3>1. \A S \in SUBSET (1 .. m) : S \in SUBSET (1 .. m + 1)
        BY <1>1
      <3>. QED BY <2>1, <3>1
    <2>3. \A S \in SUBSET (1 .. m + 1) :
            S # {} => S \ {Max(S)} \in SUBSET (1 .. m)
      BY <1>1, Downwards
    <2> HIDE DEF F, h
    <2>4. Unfolds(g, m + 1)
      <3>1. \A S \in SUBSET (1 .. m + 1) : S # {} => g[S \ {Max(S)}] = f[S \ {Max(S)}]
        <4> HIDE DEF g
        <4>. QED BY <2>2, <2>3
      <3>. QED BY <3>1
    <2> HIDE DEF g, Unfolds
    <2>. QED BY <1>1, <2>4
  <1>4. n \in Holds
    <2> HIDE DEF Holds
    <2>. QED BY <1>1, <1>2, <1>3, Induction
  <1>5. Unfolds(F, n)
    BY <1>4
  <1>6. Dropped(base, seq) = F[1 .. n]
    BY <1>1 DEF FoldLeft, MapThenFoldSet, Dropped
  <1> HIDE DEF F
  <1>7. F[1 .. 0] = base
    BY <1>1, <1>5
  <1>8. ASSUME NEW k \in 1 .. n
        PROVE  h[k] = WindowDropped(h[k - 1], seq[k])
    <2>1. 1 .. k # {} /\ Max(1 .. k) = k /\ (1 .. k) \ {k} = 1 .. k - 1
      BY <1>1, DownTo
    <2>2. 1 .. k \in SUBSET (1 .. n) /\ k - 1 \in 0 .. n /\ k \in 0 .. n
      BY <1>1
    <2>3. F[1 .. k] = WindowDropped(F[1 .. k - 1], seq[k])
      BY <1>5, <2>1, <2>2
    <2>. QED BY <2>2, <2>3
  <1>9. h[0] = base /\ h[n] = F[1 .. n]
    BY <1>1, <1>7
  <1> HIDE DEF h
  <1>. QED BY <1>6, <1>8, <1>9 DEF n

\* Tabs that are gone from window w.
LEMMA PrunedRuns ==
    ASSUME NEW w, NEW base, NEW X, Sorted(Lost(base, w)) \in Seq(X)
    PROVE  \E h :
               /\ h[0] = base
               /\ \A k \in 1 .. Len(Sorted(Lost(base, w))) : h[k] = TabDropped(h[k - 1], <<w, Sorted(Lost(base, w))[k]>>)
               /\ Pruned(base, w) = h[Len(Sorted(Lost(base, w)))]
  <1> DEFINE seq == Sorted(Lost(base, w))
  <1> seq \in Seq(X)
    OBVIOUS
  <1> HIDE DEF seq
  <1> DEFINE n == Len(seq)
             Unfolds(f, m) ==
                 f = [S \in SUBSET (1 .. m) |->
                         IF S = {} THEN base
                         ELSE TabDropped(f[S \ {Max(S)}], <<w, seq[Max(S)]>>)]
             Holds == {m \in 0 .. n : \E f : Unfolds(f, m)}
             F == CHOOSE f : Unfolds(f, n)
             h == [k \in 0 .. n |-> F[1 .. k]]
  <1>1. n \in Nat /\ DOMAIN seq = 1 .. n
    BY LenProperties
  <1> HIDE DEF n
  <1>2. 0 \in Holds
    <2>1. Unfolds([S \in SUBSET (1 .. 0) |-> base], 0)
      OBVIOUS
    <2>. QED BY <1>1, <2>1
  <1>3. ASSUME NEW m \in 0 .. n - 1, m \in Holds PROVE m + 1 \in Holds
    <2>1. PICK f : Unfolds(f, m)
      BY <1>3
    <2> DEFINE g == [S \in SUBSET (1 .. m + 1) |->
                        IF S = {} THEN base
                        ELSE TabDropped(f[S \ {Max(S)}], <<w, seq[Max(S)]>>)]
    <2>2. \A S \in SUBSET (1 .. m) : g[S] = f[S]
      <3>1. \A S \in SUBSET (1 .. m) : S \in SUBSET (1 .. m + 1)
        BY <1>1
      <3>. QED BY <2>1, <3>1
    <2>3. \A S \in SUBSET (1 .. m + 1) :
            S # {} => S \ {Max(S)} \in SUBSET (1 .. m)
      BY <1>1, Downwards
    <2> HIDE DEF F, h
    <2>4. Unfolds(g, m + 1)
      <3>1. \A S \in SUBSET (1 .. m + 1) : S # {} => g[S \ {Max(S)}] = f[S \ {Max(S)}]
        <4> HIDE DEF g
        <4>. QED BY <2>2, <2>3
      <3>. QED BY <3>1
    <2> HIDE DEF g, Unfolds
    <2>. QED BY <1>1, <2>4
  <1>4. n \in Holds
    <2> HIDE DEF Holds
    <2>. QED BY <1>1, <1>2, <1>3, Induction
  <1>5. Unfolds(F, n)
    BY <1>4
  <1>6. Pruned(base, w) = F[1 .. n]
    BY <1>1 DEF FoldLeft, MapThenFoldSet, Pruned, seq
  <1> HIDE DEF F
  <1>7. F[1 .. 0] = base
    BY <1>1, <1>5
  <1>8. ASSUME NEW k \in 1 .. n
        PROVE  h[k] = TabDropped(h[k - 1], <<w, seq[k]>>)
    <2>1. 1 .. k # {} /\ Max(1 .. k) = k /\ (1 .. k) \ {k} = 1 .. k - 1
      BY <1>1, DownTo
    <2>2. 1 .. k \in SUBSET (1 .. n) /\ k - 1 \in 0 .. n /\ k \in 0 .. n
      BY <1>1
    <2>3. F[1 .. k] = TabDropped(F[1 .. k - 1], <<w, seq[k]>>)
      BY <1>5, <2>1, <2>2
    <2>. QED BY <2>2, <2>3
  <1>9. h[0] = base /\ h[n] = F[1 .. n]
    BY <1>1, <1>7
  <1> HIDE DEF h
  <1>. QED BY <1>6, <1>8, <1>9 DEF n, seq

TabKept(work, w, t) == IF work.ok THEN TabBound(work, w, t) ELSE work

\* Tabs that are there.
LEMMA TabsRun ==
    ASSUME NEW w, NEW base, NEW X, NEW seq \in Seq(X)
    PROVE  \E h :
               /\ h[0] = base
               /\ \A k \in 1 .. Len(seq) : h[k] = TabKept(h[k - 1], w, seq[k])
               /\ WithTabs(base, w, seq) = h[Len(seq)]
  <1> DEFINE n == Len(seq)
             Unfolds(f, m) ==
                 f = [S \in SUBSET (1 .. m) |->
                         IF S = {} THEN base
                         ELSE TabKept(f[S \ {Max(S)}], w, seq[Max(S)])]
             Holds == {m \in 0 .. n : \E f : Unfolds(f, m)}
             F == CHOOSE f : Unfolds(f, n)
             h == [k \in 0 .. n |-> F[1 .. k]]
  <1>1. n \in Nat /\ DOMAIN seq = 1 .. n
    BY LenProperties
  <1> HIDE DEF n
  <1>2. 0 \in Holds
    <2>1. Unfolds([S \in SUBSET (1 .. 0) |-> base], 0)
      OBVIOUS
    <2>. QED BY <1>1, <2>1
  <1>3. ASSUME NEW m \in 0 .. n - 1, m \in Holds PROVE m + 1 \in Holds
    <2>1. PICK f : Unfolds(f, m)
      BY <1>3
    <2> DEFINE g == [S \in SUBSET (1 .. m + 1) |->
                        IF S = {} THEN base
                        ELSE TabKept(f[S \ {Max(S)}], w, seq[Max(S)])]
    <2>2. \A S \in SUBSET (1 .. m) : g[S] = f[S]
      <3>1. \A S \in SUBSET (1 .. m) : S \in SUBSET (1 .. m + 1)
        BY <1>1
      <3>. QED BY <2>1, <3>1
    <2>3. \A S \in SUBSET (1 .. m + 1) :
            S # {} => S \ {Max(S)} \in SUBSET (1 .. m)
      BY <1>1, Downwards
    <2> HIDE DEF F, h
    <2>4. Unfolds(g, m + 1)
      <3>1. \A S \in SUBSET (1 .. m + 1) : S # {} => g[S \ {Max(S)}] = f[S \ {Max(S)}]
        <4> HIDE DEF g
        <4>. QED BY <2>2, <2>3
      <3>. QED BY <3>1
    <2> HIDE DEF g, Unfolds
    <2>. QED BY <1>1, <2>4
  <1>4. n \in Holds
    <2> HIDE DEF Holds
    <2>. QED BY <1>1, <1>2, <1>3, Induction
  <1>5. Unfolds(F, n)
    BY <1>4
  <1>6. WithTabs(base, w, seq) = F[1 .. n]
    BY <1>1 DEF FoldLeft, MapThenFoldSet, WithTabs, TabKept
  <1> HIDE DEF F
  <1>7. F[1 .. 0] = base
    BY <1>1, <1>5
  <1>8. ASSUME NEW k \in 1 .. n
        PROVE  h[k] = TabKept(h[k - 1], w, seq[k])
    <2>1. 1 .. k # {} /\ Max(1 .. k) = k /\ (1 .. k) \ {k} = 1 .. k - 1
      BY <1>1, DownTo
    <2>2. 1 .. k \in SUBSET (1 .. n) /\ k - 1 \in 0 .. n /\ k \in 0 .. n
      BY <1>1
    <2>3. F[1 .. k] = TabKept(F[1 .. k - 1], w, seq[k])
      BY <1>5, <2>1, <2>2
    <2>. QED BY <2>2, <2>3
  <1>9. h[0] = base /\ h[n] = F[1 .. n]
    BY <1>1, <1>7
  <1> HIDE DEF h
  <1>. QED BY <1>6, <1>8, <1>9 DEF n

Positions(tabs) == [i \in DOMAIN tabs |-> i]

InPlace(work, w, tabs, i) == TabPlaced(work, w, i, tabs[i])

\* Tabs put in order.
LEMMA OrderRuns ==
    ASSUME NEW w, NEW tabs, NEW base, NEW X, Positions(tabs) \in Seq(X)
    PROVE  \E h :
               /\ h[0] = base
               /\ \A k \in 1 .. Len(Positions(tabs)) : h[k] = InPlace(h[k - 1], w, tabs, Positions(tabs)[k])
               /\ InOrder(base, w, tabs) = h[Len(Positions(tabs))]
  <1> DEFINE seq == Positions(tabs)
  <1> seq \in Seq(X)
    OBVIOUS
  <1> HIDE DEF seq
  <1> DEFINE n == Len(seq)
             Unfolds(f, m) ==
                 f = [S \in SUBSET (1 .. m) |->
                         IF S = {} THEN base
                         ELSE InPlace(f[S \ {Max(S)}], w, tabs, seq[Max(S)])]
             Holds == {m \in 0 .. n : \E f : Unfolds(f, m)}
             F == CHOOSE f : Unfolds(f, n)
             h == [k \in 0 .. n |-> F[1 .. k]]
  <1>1. n \in Nat /\ DOMAIN seq = 1 .. n
    BY LenProperties
  <1> HIDE DEF n
  <1>2. 0 \in Holds
    <2>1. Unfolds([S \in SUBSET (1 .. 0) |-> base], 0)
      OBVIOUS
    <2>. QED BY <1>1, <2>1
  <1>3. ASSUME NEW m \in 0 .. n - 1, m \in Holds PROVE m + 1 \in Holds
    <2>1. PICK f : Unfolds(f, m)
      BY <1>3
    <2> DEFINE g == [S \in SUBSET (1 .. m + 1) |->
                        IF S = {} THEN base
                        ELSE InPlace(f[S \ {Max(S)}], w, tabs, seq[Max(S)])]
    <2>2. \A S \in SUBSET (1 .. m) : g[S] = f[S]
      <3>1. \A S \in SUBSET (1 .. m) : S \in SUBSET (1 .. m + 1)
        BY <1>1
      <3>. QED BY <2>1, <3>1
    <2>3. \A S \in SUBSET (1 .. m + 1) :
            S # {} => S \ {Max(S)} \in SUBSET (1 .. m)
      BY <1>1, Downwards
    <2> HIDE DEF F, h
    <2>4. Unfolds(g, m + 1)
      <3>1. \A S \in SUBSET (1 .. m + 1) : S # {} => g[S \ {Max(S)}] = f[S \ {Max(S)}]
        <4> HIDE DEF g
        <4>. QED BY <2>2, <2>3
      <3>. QED BY <3>1
    <2> HIDE DEF g, Unfolds
    <2>. QED BY <1>1, <2>4
  <1>4. n \in Holds
    <2> HIDE DEF Holds
    <2>. QED BY <1>1, <1>2, <1>3, Induction
  <1>5. Unfolds(F, n)
    BY <1>4
  <1>6. InOrder(base, w, tabs) = F[1 .. n]
    BY <1>1 DEF FoldLeft, MapThenFoldSet, InOrder, Positions, InPlace, seq
  <1> HIDE DEF F
  <1>7. F[1 .. 0] = base
    BY <1>1, <1>5
  <1>8. ASSUME NEW k \in 1 .. n
        PROVE  h[k] = InPlace(h[k - 1], w, tabs, seq[k])
    <2>1. 1 .. k # {} /\ Max(1 .. k) = k /\ (1 .. k) \ {k} = 1 .. k - 1
      BY <1>1, DownTo
    <2>2. 1 .. k \in SUBSET (1 .. n) /\ k - 1 \in 0 .. n /\ k \in 0 .. n
      BY <1>1
    <2>3. F[1 .. k] = InPlace(F[1 .. k - 1], w, tabs, seq[k])
      BY <1>5, <2>1, <2>2
    <2>. QED BY <2>2, <2>3
  <1>9. h[0] = base /\ h[n] = F[1 .. n]
    BY <1>1, <1>7
  <1> HIDE DEF h
  <1>. QED BY <1>6, <1>8, <1>9 DEF n, seq

\* Windows that are open.
LEMMA WindowsRun ==
    ASSUME NEW base, NEW X, NEW seq \in Seq(X)
    PROVE  \E h :
               /\ h[0] = base
               /\ \A k \in 1 .. Len(seq) : h[k] = WindowSynced(h[k - 1], seq[k])
               /\ WindowsSynced(base, seq) = h[Len(seq)]
  <1> DEFINE n == Len(seq)
             Unfolds(f, m) ==
                 f = [S \in SUBSET (1 .. m) |->
                         IF S = {} THEN base
                         ELSE WindowSynced(f[S \ {Max(S)}], seq[Max(S)])]
             Holds == {m \in 0 .. n : \E f : Unfolds(f, m)}
             F == CHOOSE f : Unfolds(f, n)
             h == [k \in 0 .. n |-> F[1 .. k]]
  <1>1. n \in Nat /\ DOMAIN seq = 1 .. n
    BY LenProperties
  <1> HIDE DEF n
  <1>2. 0 \in Holds
    <2>1. Unfolds([S \in SUBSET (1 .. 0) |-> base], 0)
      OBVIOUS
    <2>. QED BY <1>1, <2>1
  <1>3. ASSUME NEW m \in 0 .. n - 1, m \in Holds PROVE m + 1 \in Holds
    <2>1. PICK f : Unfolds(f, m)
      BY <1>3
    <2> DEFINE g == [S \in SUBSET (1 .. m + 1) |->
                        IF S = {} THEN base
                        ELSE WindowSynced(f[S \ {Max(S)}], seq[Max(S)])]
    <2>2. \A S \in SUBSET (1 .. m) : g[S] = f[S]
      <3>1. \A S \in SUBSET (1 .. m) : S \in SUBSET (1 .. m + 1)
        BY <1>1
      <3>. QED BY <2>1, <3>1
    <2>3. \A S \in SUBSET (1 .. m + 1) :
            S # {} => S \ {Max(S)} \in SUBSET (1 .. m)
      BY <1>1, Downwards
    <2> HIDE DEF F, h
    <2>4. Unfolds(g, m + 1)
      <3>1. \A S \in SUBSET (1 .. m + 1) : S # {} => g[S \ {Max(S)}] = f[S \ {Max(S)}]
        <4> HIDE DEF g
        <4>. QED BY <2>2, <2>3
      <3>. QED BY <3>1
    <2> HIDE DEF g, Unfolds
    <2>. QED BY <1>1, <2>4
  <1>4. n \in Holds
    <2> HIDE DEF Holds
    <2>. QED BY <1>1, <1>2, <1>3, Induction
  <1>5. Unfolds(F, n)
    BY <1>4
  <1>6. WindowsSynced(base, seq) = F[1 .. n]
    BY <1>1 DEF FoldLeft, MapThenFoldSet, WindowsSynced
  <1> HIDE DEF F
  <1>7. F[1 .. 0] = base
    BY <1>1, <1>5
  <1>8. ASSUME NEW k \in 1 .. n
        PROVE  h[k] = WindowSynced(h[k - 1], seq[k])
    <2>1. 1 .. k # {} /\ Max(1 .. k) = k /\ (1 .. k) \ {k} = 1 .. k - 1
      BY <1>1, DownTo
    <2>2. 1 .. k \in SUBSET (1 .. n) /\ k - 1 \in 0 .. n /\ k \in 0 .. n
      BY <1>1
    <2>3. F[1 .. k] = WindowSynced(F[1 .. k - 1], seq[k])
      BY <1>5, <2>1, <2>2
    <2>. QED BY <2>2, <2>3
  <1>9. h[0] = base /\ h[n] = F[1 .. n]
    BY <1>1, <1>7
  <1> HIDE DEF h
  <1>. QED BY <1>6, <1>8, <1>9 DEF n

\* The tabs of a session, counted.
LEMMA TotalRuns ==
    ASSUME NEW s, NEW X, s.windows \in Seq(X)
    PROVE  \E h :
               /\ h[0] = 0
               /\ \A k \in 1 .. Len(s.windows) : h[k] = (h[k - 1] + Len(s.windows[k].tabs))
               /\ TotalTabs(s) = h[Len(s.windows)]
  <1> DEFINE base == 0
             seq == s.windows
  <1> seq \in Seq(X)
    OBVIOUS
  <1> HIDE DEF base, seq
  <1> DEFINE n == Len(seq)
             Unfolds(f, m) ==
                 f = [S \in SUBSET (1 .. m) |->
                         IF S = {} THEN base
                         ELSE (f[S \ {Max(S)}] + Len(seq[Max(S)].tabs))]
             Holds == {m \in 0 .. n : \E f : Unfolds(f, m)}
             F == CHOOSE f : Unfolds(f, n)
             h == [k \in 0 .. n |-> F[1 .. k]]
  <1>1. n \in Nat /\ DOMAIN seq = 1 .. n
    BY LenProperties
  <1> HIDE DEF n
  <1>2. 0 \in Holds
    <2>1. Unfolds([S \in SUBSET (1 .. 0) |-> base], 0)
      OBVIOUS
    <2>. QED BY <1>1, <2>1
  <1>3. ASSUME NEW m \in 0 .. n - 1, m \in Holds PROVE m + 1 \in Holds
    <2>1. PICK f : Unfolds(f, m)
      BY <1>3
    <2> DEFINE g == [S \in SUBSET (1 .. m + 1) |->
                        IF S = {} THEN base
                        ELSE (f[S \ {Max(S)}] + Len(seq[Max(S)].tabs))]
    <2>2. \A S \in SUBSET (1 .. m) : g[S] = f[S]
      <3>1. \A S \in SUBSET (1 .. m) : S \in SUBSET (1 .. m + 1)
        BY <1>1
      <3>. QED BY <2>1, <3>1
    <2>3. \A S \in SUBSET (1 .. m + 1) :
            S # {} => S \ {Max(S)} \in SUBSET (1 .. m)
      BY <1>1, Downwards
    <2> HIDE DEF F, h
    <2>4. Unfolds(g, m + 1)
      <3>1. \A S \in SUBSET (1 .. m + 1) : S # {} => g[S \ {Max(S)}] = f[S \ {Max(S)}]
        <4> HIDE DEF g
        <4>. QED BY <2>2, <2>3
      <3>. QED BY <3>1
    <2> HIDE DEF g, Unfolds
    <2>. QED BY <1>1, <2>4
  <1>4. n \in Holds
    <2> HIDE DEF Holds
    <2>. QED BY <1>1, <1>2, <1>3, Induction
  <1>5. Unfolds(F, n)
    BY <1>4
  <1>6. TotalTabs(s) = F[1 .. n]
    BY <1>1 DEF FoldLeft, MapThenFoldSet, TotalTabs, base, seq
  <1> HIDE DEF F
  <1>7. F[1 .. 0] = base
    BY <1>1, <1>5
  <1>8. ASSUME NEW k \in 1 .. n
        PROVE  h[k] = (h[k - 1] + Len(seq[k].tabs))
    <2>1. 1 .. k # {} /\ Max(1 .. k) = k /\ (1 .. k) \ {k} = 1 .. k - 1
      BY <1>1, DownTo
    <2>2. 1 .. k \in SUBSET (1 .. n) /\ k - 1 \in 0 .. n /\ k \in 0 .. n
      BY <1>1
    <2>3. F[1 .. k] = (F[1 .. k - 1] + Len(seq[k].tabs))
      BY <1>5, <2>1, <2>2
    <2>. QED BY <2>2, <2>3
  <1>9. h[0] = base /\ h[n] = F[1 .. n]
    BY <1>1, <1>7
  <1> HIDE DEF h
  <1>. QED BY <1>6, <1>8, <1>9 DEF n, base, seq

-----------------------------------------------------------------------------
(* Sequences.                                                              *)

LEMMA IndexOfIs ==
    ASSUME NEW X, NEW seq \in Seq(X), NEW id
    PROVE  /\ IndexOf(seq, id) \in 0 .. Len(seq)
           /\ id \in Ids(seq) => /\ IndexOf(seq, id) \in 1 .. Len(seq)
                                 /\ seq[IndexOf(seq, id)].id = id
           /\ id \notin Ids(seq) => IndexOf(seq, id) = 0
           /\ \A k \in 1 .. Len(seq) : seq[k].id = id => IndexOf(seq, id) <= k
  <1> DEFINE n == Len(seq)
             I == {i \in 1 .. n : seq[i].id = id}
  <1>1. n \in Nat /\ DOMAIN seq = 1 .. n
    BY LenProperties
  <1>2. IndexOf(seq, id) = IF I # {} THEN Min(I) ELSE 0
    BY DEF IndexOf, SelectInSeq
  <1>3. I # {} <=> id \in Ids(seq)
    BY <1>1 DEF Ids
  <1> HIDE DEF n
  <1>4. I \in SUBSET Nat
    BY <1>1
  <1>5. I # {} => Min(I) \in I /\ \A k \in I : Min(I) <= k
    <2> HIDE DEF I
    <2>. QED BY <1>4, MinIs
  <1>. QED BY <1>1, <1>2, <1>3, <1>5 DEF n

LEMMA RemoveAtIs ==
    ASSUME NEW X, NEW seq \in Seq(X), NEW p \in 1 .. Len(seq)
    PROVE  /\ RemoveAt(seq, p) \in Seq(X)
           /\ Len(RemoveAt(seq, p)) = Len(seq) - 1
           /\ \A k \in 1 .. Len(seq) - 1 :
                 RemoveAt(seq, p)[k] = IF k < p THEN seq[k] ELSE seq[k + 1]
  <1> DEFINE n == Len(seq)
             a == SubSeq(seq, 1, p - 1)
             b == SubSeq(seq, p + 1, n)
  <1>1. n \in Nat /\ p \in 1 .. n /\ \A i \in 1 .. n : seq[i] \in X
    BY LenProperties
  <1> HIDE DEF n
  <1>2. /\ a \in Seq(X) /\ Len(a) = p - 1
        /\ \A i \in 1 .. p - 1 : a[i] = seq[i]
    <2>1. \A i \in 1 .. p - 1 : seq[i] \in X
      BY <1>1
    <2>2. /\ a \in Seq(X)
          /\ Len(a) = IF 1 <= p - 1 THEN (p - 1) - 1 + 1 ELSE 0
          /\ \A i \in 1 .. (p - 1) - 1 + 1 : a[i] = seq[1 + i - 1]
      BY <1>1, <2>1, SubSeqProperties
    <2> HIDE DEF a
    <2>. QED BY <1>1, <2>2
  <1>3. /\ b \in Seq(X) /\ Len(b) = n - p
        /\ \A i \in 1 .. n - p : b[i] = seq[p + i]
    <2>1. \A i \in p + 1 .. n : seq[i] \in X
      BY <1>1
    <2>2. /\ b \in Seq(X)
          /\ Len(b) = IF p + 1 <= n THEN n - (p + 1) + 1 ELSE 0
          /\ \A i \in 1 .. n - (p + 1) + 1 : b[i] = seq[p + 1 + i - 1]
      BY <1>1, <2>1, SubSeqProperties
    <2> HIDE DEF b
    <2>. QED BY <1>1, <2>2
  <1>4. RemoveAt(seq, p) = a \o b
    BY DEF RemoveAt, n
  <1> HIDE DEF a, b
  <1>5. /\ a \o b \in Seq(X) /\ Len(a \o b) = n - 1
        /\ \A k \in 1 .. n - 1 :
              (a \o b)[k] = IF k <= p - 1 THEN a[k] ELSE b[k - (p - 1)]
    <2>1. Len(a) + Len(b) = n - 1
      BY <1>1, <1>2, <1>3
    <2>2. /\ a \o b \in Seq(X) /\ Len(a \o b) = Len(a) + Len(b)
          /\ \A k \in 1 .. Len(a) + Len(b) :
                (a \o b)[k] = IF k <= Len(a) THEN a[k] ELSE b[k - Len(a)]
      BY <1>2, <1>3, ConcatProperties
    <2>. QED BY <1>2, <2>1, <2>2
  <1>6. \A k \in 1 .. n - 1 : (a \o b)[k] = IF k < p THEN seq[k] ELSE seq[k + 1]
    <2> TAKE k \in 1 .. n - 1
    <2>1. CASE k < p
      <3>1. k <= p - 1 /\ k \in 1 .. p - 1
        BY <1>1, <2>1
      <3>. QED BY <1>2, <1>5, <2>1, <3>1
    <2>2. CASE ~(k < p)
      <3>1. ~(k <= p - 1) /\ k - (p - 1) \in 1 .. n - p /\ p + (k - (p - 1)) = k + 1
        BY <1>1, <2>2
      <3>. QED BY <1>3, <1>5, <2>2, <3>1
    <2>. QED BY <2>1, <2>2
  <1>. QED BY <1>4, <1>5, <1>6 DEF n

LEMMA InsertAtIs ==
    ASSUME NEW X, NEW seq \in Seq(X), NEW x \in X,
           NEW p \in Nat \ {0}, p <= Len(seq) + 1
    PROVE  /\ InsertAt(seq, p, x) \in Seq(X)
           /\ Len(InsertAt(seq, p, x)) = Len(seq) + 1
           /\ InsertAt(seq, p, x)[p] = x
           /\ \A k \in 1 .. Len(seq) + 1 :
                 /\ k < p => InsertAt(seq, p, x)[k] = seq[k]
                 /\ k > p => InsertAt(seq, p, x)[k] = seq[k - 1]
  <1> DEFINE n == Len(seq)
             a == SubSeq(seq, 1, p - 1)
             b == SubSeq(seq, p, n)
             c == a \o <<x>>
  <1>1. n \in Nat /\ p \in 1 .. n + 1 /\ \A i \in 1 .. n : seq[i] \in X
    BY LenProperties
  <1> HIDE DEF n
  <1>2. /\ a \in Seq(X) /\ Len(a) = p - 1
        /\ \A i \in 1 .. p - 1 : a[i] = seq[i]
    <2>1. \A i \in 1 .. p - 1 : seq[i] \in X
      BY <1>1
    <2>2. /\ a \in Seq(X)
          /\ Len(a) = IF 1 <= p - 1 THEN (p - 1) - 1 + 1 ELSE 0
          /\ \A i \in 1 .. (p - 1) - 1 + 1 : a[i] = seq[1 + i - 1]
      BY <1>1, <2>1, SubSeqProperties
    <2> HIDE DEF a
    <2>. QED BY <1>1, <2>2
  <1>3. /\ b \in Seq(X) /\ Len(b) = n - p + 1
        /\ \A i \in 1 .. n - p + 1 : b[i] = seq[p + i - 1]
    <2>1. \A i \in p .. n : seq[i] \in X
      BY <1>1
    <2>2. /\ b \in Seq(X)
          /\ Len(b) = IF p <= n THEN n - p + 1 ELSE 0
          /\ \A i \in 1 .. n - p + 1 : b[i] = seq[p + i - 1]
      BY <1>1, <2>1, SubSeqProperties
    <2> HIDE DEF b
    <2>. QED BY <1>1, <2>2
  <1>4. InsertAt(seq, p, x) = c \o b
    BY DEF InsertAt, n
  <1>5. <<x>> \in Seq(X) /\ Len(<<x>>) = 1 /\ <<x>>[1] = x
    OBVIOUS
  <1> DEFINE one == <<x>>
  <1> HIDE DEF a, b, one
  <1>6. /\ c \in Seq(X) /\ Len(c) = p
        /\ \A k \in 1 .. p : c[k] = IF k <= p - 1 THEN a[k] ELSE x
    <2>1. one \in Seq(X) /\ Len(one) = 1 /\ one[1] = x /\ c = a \o one
      BY <1>5 DEF one
    <2>2. /\ a \o one \in Seq(X) /\ Len(a \o one) = Len(a) + Len(one)
          /\ \A k \in 1 .. Len(a) + Len(one) :
                (a \o one)[k] = IF k <= Len(a) THEN a[k] ELSE one[k - Len(a)]
      BY <1>2, <2>1, ConcatProperties
    <2> HIDE DEF c
    <2>3. \A k \in 1 .. p : ~(k <= p - 1) => k - (p - 1) = 1
      BY <1>1
    <2>. QED BY <1>1, <1>2, <2>1, <2>2, <2>3
  <1> HIDE DEF c
  <1>7. /\ c \o b \in Seq(X) /\ Len(c \o b) = n + 1
        /\ \A k \in 1 .. n + 1 : (c \o b)[k] = IF k <= p THEN c[k] ELSE b[k - p]
    <2>1. Len(c) + Len(b) = n + 1
      BY <1>1, <1>3, <1>6
    <2>2. /\ c \o b \in Seq(X) /\ Len(c \o b) = Len(c) + Len(b)
          /\ \A k \in 1 .. Len(c) + Len(b) :
                (c \o b)[k] = IF k <= Len(c) THEN c[k] ELSE b[k - Len(c)]
      BY <1>3, <1>6, ConcatProperties
    <2>. QED BY <1>6, <2>1, <2>2
  <1>8. \A k \in 1 .. n + 1 :
          /\ k < p => (c \o b)[k] = seq[k]
          /\ k = p => (c \o b)[k] = x
          /\ k > p => (c \o b)[k] = seq[k - 1]
    <2> TAKE k \in 1 .. n + 1
    <2>1. CASE k < p
      <3>1. k <= p /\ k <= p - 1 /\ k \in 1 .. p - 1 /\ k \in 1 .. p
        BY <1>1, <2>1
      <3>. QED BY <1>2, <1>6, <1>7, <2>1, <3>1
    <2>2. CASE k = p
      <3>1. k <= p /\ ~(k <= p - 1) /\ k \in 1 .. p /\ ~(k < p)
        BY <1>1, <2>2
      <3>. QED BY <1>6, <1>7, <2>2, <3>1
    <2>3. CASE k > p
      <3>1. /\ ~(k <= p) /\ k - p \in 1 .. n - p + 1 /\ p + (k - p) - 1 = k - 1
            /\ ~(k < p) /\ k # p
        BY <1>1, <2>3
      <3>. QED BY <1>3, <1>7, <3>1
    <2>4. k < p \/ k = p \/ k > p
      BY <1>1
    <2>. QED BY <2>1, <2>2, <2>3, <2>4
  <1>. QED BY <1>1, <1>4, <1>7, <1>8 DEF n

\* A finite set of numbers can be put in order.
Increasing(s, S) ==
    /\ s \in [1 .. Cardinality(S) -> S]
    /\ \A i, j \in 1 .. Cardinality(S) : i < j => s[i] < s[j]

LEMMA SetInduction ==
    ASSUME NEW S, IsFiniteSet(S), NEW Holds,
           \A T \in SUBSET S :
               (\A U \in SUBSET T : U # T => U \in Holds) => T \in Holds
    PROVE  S \in Holds
  <1> SUFFICES ASSUME S \notin Holds PROVE FALSE
    OBVIOUS
  <1> DEFINE Fails == {T \in SUBSET S : T \notin Holds}
  <1>1. IsWellFoundedOn(StrictSubsetOrdering(S), FiniteSubsetsOf(S))
    BY FS_StrictSubsetOrderingWellFounded
  <1>2. Fails \subseteq FiniteSubsetsOf(S) /\ Fails # {}
    <2>1. FiniteSubsetsOf(S) = SUBSET S
      BY FS_FiniteSubsetsOfFinite
    <2>. QED BY <2>1
  <1>3. PICK T \in Fails : \A U \in Fails : ~(<<U, T>> \in StrictSubsetOrdering(S))
    <2> HIDE DEF Fails
    <2>. QED BY <1>1, <1>2, WFMin
  <1>4. \A U \in SUBSET T : U # T => U \in Holds
    BY <1>3 DEF StrictSubsetOrdering
  <1>. QED BY <1>3, <1>4

LEMMA IncreasingExists ==
    ASSUME NEW S \in SUBSET Nat, IsFiniteSet(S)
    PROVE  \E s : Increasing(s, S)
  <1> DEFINE Holds == {T \in SUBSET S : \E s : Increasing(s, T)}
  <1>1. ASSUME NEW T \in SUBSET S, \A U \in SUBSET T : U # T => U \in Holds
        PROVE  T \in Holds
    <2>1. CASE T = {}
      <3>1. Cardinality(T) = 0
        BY <2>1, FS_EmptySet
      <3>2. Increasing(<<>>, T)
        BY <2>1, <3>1 DEF Increasing
      <3>. QED BY <3>2
    <2>2. CASE T # {}
      <3>1. PICK m \in T : \A x \in T : m <= x
        <4>1. T \in SUBSET Nat
          OBVIOUS
        <4>. QED BY <2>2, <4>1, Smallest
      <3> DEFINE U == T \ {m}
                 c == Cardinality(U)
      <3>2. PICK s : Increasing(s, U)
        BY <1>1, <3>1
      <3>3. c \in Nat /\ Cardinality(T) = c + 1
        <4>1. IsFiniteSet(T)
          BY FS_Subset
        <4>2. IsFiniteSet(U) /\ Cardinality(U) = Cardinality(T) - 1
          BY <4>1, FS_RemoveElement
        <4>3. Cardinality(T) \in Nat /\ Cardinality(U) \in Nat
          BY <4>1, <4>2, FS_CardinalityType
        <4>. QED BY <4>2, <4>3
      <3> DEFINE t == [i \in 1 .. c + 1 |-> IF i = 1 THEN m ELSE s[i - 1]]
      <3>4. s \in [1 .. c -> U] /\ \A i, j \in 1 .. c : i < j => s[i] < s[j]
        BY <3>2 DEF Increasing
      <3> HIDE DEF c
      <3>5. \A i \in 1 .. c + 1 : i # 1 => i - 1 \in 1 .. c
        BY <3>3
      <3>6. t \in [1 .. c + 1 -> T]
        BY <3>4, <3>5
      <3>7. ASSUME NEW i \in 1 .. c + 1, NEW j \in 1 .. c + 1, i < j
            PROVE  t[i] < t[j]
        <4>1. j # 1 /\ j - 1 \in 1 .. c /\ t[j] = s[j - 1]
          BY <3>3, <3>5, <3>7
        <4>2. s[j - 1] \in Nat /\ m \in Nat /\ s[j - 1] # m /\ m <= s[j - 1]
          BY <3>1, <3>4, <4>1
        <4>3. CASE i = 1
          BY <4>1, <4>2, <4>3
        <4>4. CASE i # 1
          <5>1. i - 1 \in 1 .. c /\ i - 1 < j - 1
            BY <3>3, <3>5, <3>7, <4>4
          <5>. QED BY <3>4, <4>1, <4>4, <5>1
        <4>. QED BY <4>3, <4>4
      <3> HIDE DEF t
      <3>8. Increasing(t, T)
        BY <3>3, <3>6, <3>7 DEF Increasing
      <3>. QED BY <3>8
    <2>. QED BY <2>1, <2>2
  <1>2. S \in Holds
    <2> HIDE DEF Holds
    <2>. QED BY <1>1, SetInduction
  <1>. QED BY <1>2

LEMMA SortedIs ==
    ASSUME NEW S \in SUBSET Nat, IsFiniteSet(S)
    PROVE  /\ Sorted(S) \in Seq(S)
           /\ \A i, j \in 1 .. Len(Sorted(S)) : i < j => Sorted(S)[i] < Sorted(S)[j]
           /\ \A x \in S : \E i \in 1 .. Len(Sorted(S)) : Sorted(S)[i] = x
  <1> DEFINE s == Sorted(S)
             n == Cardinality(S)
  <1>1. n \in Nat
    BY FS_CardinalityType
  <1>2. s \in [1 .. n -> S] /\ \A i, j \in 1 .. n : i < j => s[i] < s[j]
    <2>1. \E t \in [1 .. n -> S] : \A i, j \in DOMAIN t : i < j => t[i] < t[j]
      <3>1. PICK t : Increasing(t, S)
        BY IncreasingExists
      <3>2. DOMAIN t = 1 .. n
        BY <3>1 DEF Increasing
      <3>. QED BY <3>1, <3>2 DEF Increasing
    <2>2. /\ s \in [1 .. n -> S]
          /\ \A i, j \in DOMAIN s : i < j => s[i] < s[j]
      BY <2>1 DEF Sorted
    <2>. QED BY <2>2
  <1> HIDE DEF s
  <1>3. s \in Seq(S) /\ Len(s) = n
    <2> HIDE DEF n
    <2>1. s \in Seq(S)
      BY <1>1, <1>2, SeqDef
    <2>2. DOMAIN s = 1 .. n /\ DOMAIN s = 1 .. Len(s) /\ Len(s) \in Nat
      BY <1>2, <2>1, LenProperties
    <2>. QED BY <1>1, <2>1, <2>2
  <1>4. \A x \in S : \E i \in 1 .. n : s[i] = x
    <2>1. \A i, j \in 1 .. n : s[i] = s[j] => i = j
      <3> HIDE DEF n
      <3>1. s \in [1 .. n -> S]
        BY <1>2
      <3>2. \A i \in 1 .. n : s[i] \in Nat
        BY <3>1
      <3>3. \A i, j \in 1 .. n : i < j \/ j < i \/ i = j
        BY <1>1
      <3>. QED BY <1>2, <3>2, <3>3
    <2>2. s \in Injection(1 .. n, S)
      BY <1>2, <2>1, Fun_IsInj
    <2>3. Cardinality(1 .. n) = n
      BY <1>1, FS_Interval
    <2>4. s \in Surjection(1 .. n, S)
      BY <2>2, <2>3, FS_Injection
    <2>. QED BY <2>4 DEF Surjection
  <1>. QED BY <1>2, <1>3, <1>4 DEF s


-----------------------------------------------------------------------------
(* Sequences of identified things: windows, and tabs of a window.          *)

DistinctIds(seq) == \A i, j \in DOMAIN seq : seq[i].id = seq[j].id => i = j

Lookup(seq, id) == seq[IndexOf(seq, id)]

LEMMA LookupIs ==
    ASSUME NEW X, NEW seq \in Seq(X), NEW id \in Ids(seq)
    PROVE  Lookup(seq, id) \in X /\ Lookup(seq, id).id = id
  <1>1. IndexOf(seq, id) \in 1 .. Len(seq) /\ seq[IndexOf(seq, id)].id = id
    BY IndexOfIs
  <1>. QED BY <1>1, LenProperties DEF Lookup

LEMMA FoundAt ==
    ASSUME NEW X, NEW seq \in Seq(X), DistinctIds(seq), NEW k \in 1 .. Len(seq)
    PROVE  /\ seq[k].id \in Ids(seq) /\ IndexOf(seq, seq[k].id) = k
           /\ Lookup(seq, seq[k].id) = seq[k]
  <1>1. DOMAIN seq = 1 .. Len(seq)
    BY LenProperties
  <1>2. seq[k].id \in Ids(seq)
    BY <1>1 DEF Ids
  <1>3. /\ IndexOf(seq, seq[k].id) \in 1 .. Len(seq)
        /\ seq[IndexOf(seq, seq[k].id)].id = seq[k].id
    BY <1>2, IndexOfIs
  <1>4. IndexOf(seq, seq[k].id) = k
    BY <1>1, <1>3 DEF DistinctIds
  <1>. QED BY <1>2, <1>4 DEF Lookup

LEMMA IdsCounted ==
    ASSUME NEW X, NEW seq \in Seq(X)
    PROVE  /\ IsFiniteSet(Ids(seq))
           /\ DistinctIds(seq) => Cardinality(Ids(seq)) = Len(seq)
  <1> DEFINE n == Len(seq)
             f == [i \in 1 .. n |-> seq[i].id]
  <1>1. n \in Nat /\ DOMAIN seq = 1 .. n
    BY LenProperties
  <1>2. IsFiniteSet(1 .. n) /\ Cardinality(1 .. n) = n
    BY <1>1, FS_Interval
  <1> HIDE DEF n
  <1>3. f \in Surjection(1 .. n, Ids(seq))
    BY <1>1 DEF Surjection, Ids
  <1>4. IsFiniteSet(Ids(seq))
    <2> HIDE DEF f
    <2>. QED BY <1>2, <1>3, FS_Surjection
  <1>5. ASSUME DistinctIds(seq) PROVE Cardinality(Ids(seq)) = n
    <2>1. f \in Bijection(1 .. n, Ids(seq))
      BY <1>1, <1>3, <1>5 DEF Bijection, Injection, IsInjective, Surjection, DistinctIds
    <2> HIDE DEF f
    <2>2. Cardinality(Ids(seq)) = Cardinality(1 .. n)
      BY <1>2, <2>1, FS_Bijection DEF ExistsBijection
    <2>. QED BY <1>2, <2>2
  <1>. QED BY <1>4, <1>5 DEF n

LEMMA AppendedIds ==
    ASSUME NEW X, NEW seq \in Seq(X), DistinctIds(seq), NEW x \in X,
           x.id \notin Ids(seq)
    PROVE  LET q == Append(seq, x)
           IN  /\ q \in Seq(X) /\ Len(q) = Len(seq) + 1
               /\ Ids(q) = Ids(seq) \cup {x.id} /\ DistinctIds(q)
               /\ Lookup(q, x.id) = x
               /\ \A id \in Ids(seq) : Lookup(q, id) = Lookup(seq, id)
  <1> DEFINE n == Len(seq)
             q == Append(seq, x)
  <1>1. n \in Nat /\ DOMAIN seq = 1 .. n
    BY LenProperties
  <1>2. /\ q \in Seq(X) /\ Len(q) = n + 1
        /\ \A i \in 1 .. n : q[i] = seq[i]
        /\ q[n + 1] = x
    BY AppendProperties
  <1>3. DOMAIN q = 1 .. n + 1 /\ Len(q) = n + 1
    BY <1>2, LenProperties
  <1> HIDE DEF n, q
  <1>4. Ids(q) = Ids(seq) \cup {x.id}
    BY <1>1, <1>2, <1>3 DEF Ids
  <1>5. DistinctIds(q)
    <2> SUFFICES ASSUME NEW i \in 1 .. n + 1, NEW j \in 1 .. n + 1, q[i].id = q[j].id
                 PROVE  i = j
      BY <1>3 DEF DistinctIds
    <2>1. \A k \in 1 .. n : q[k].id \in Ids(seq) /\ q[k].id # x.id
      BY <1>1, <1>2 DEF Ids
    <2>2. \A k \in 1 .. n + 1 : k \in 1 .. n \/ k = n + 1
      BY <1>1
    <2>. QED BY <1>1, <1>2, <2>1, <2>2 DEF DistinctIds
  <1>6. \A k \in 1 .. n + 1 : Lookup(q, q[k].id) = q[k]
    BY <1>2, <1>5, FoundAt
  <1>7. Lookup(q, x.id) = x
    BY <1>1, <1>2, <1>6
  <1>8. ASSUME NEW id \in Ids(seq) PROVE Lookup(q, id) = Lookup(seq, id)
    <2>1. PICK k \in 1 .. n : seq[k].id = id
      BY <1>1 DEF Ids
    <2>2. Lookup(seq, id) = seq[k]
      BY <2>1, FoundAt DEF n
    <2>3. k \in 1 .. n + 1 /\ q[k] = seq[k]
      BY <1>1, <1>2
    <2>. QED BY <1>6, <2>1, <2>2, <2>3
  <1>. QED BY <1>2, <1>4, <1>5, <1>7, <1>8 DEF n, q

LEMMA RemovedIds ==
    ASSUME NEW X, NEW seq \in Seq(X), DistinctIds(seq), NEW id \in Ids(seq)
    PROVE  LET q == RemoveAt(seq, IndexOf(seq, id))
           IN  /\ q \in Seq(X) /\ Len(q) = Len(seq) - 1
               /\ Ids(q) = Ids(seq) \ {id} /\ DistinctIds(q)
               /\ \A o \in Ids(seq) \ {id} : Lookup(q, o) = Lookup(seq, o)
  <1> DEFINE n == Len(seq)
             p == IndexOf(seq, id)
             q == RemoveAt(seq, p)
  <1>1. n \in Nat /\ DOMAIN seq = 1 .. n
    BY LenProperties
  <1>2. p \in 1 .. n /\ seq[p].id = id
    BY IndexOfIs
  <1> HIDE DEF p
  <1>3. /\ q \in Seq(X) /\ Len(q) = n - 1
        /\ \A k \in 1 .. n - 1 : q[k] = IF k < p THEN seq[k] ELSE seq[k + 1]
    BY <1>2, RemoveAtIs
  <1>4. DOMAIN q = 1 .. n - 1
    BY <1>3, LenProperties
  <1> HIDE DEF n, q
  <1>5. ASSUME NEW k \in 1 .. n - 1
        PROVE  \E m \in 1 .. n : /\ q[k] = seq[m] /\ m # p
                                 /\ m = IF k < p THEN k ELSE k + 1
    <2>1. CASE k < p
      BY <1>1, <1>2, <1>3, <2>1
    <2>2. CASE ~(k < p)
      BY <1>1, <1>2, <1>3, <2>2
    <2>. QED BY <2>1, <2>2
  <1>6. ASSUME NEW m \in 1 .. n, m # p
        PROVE  \E k \in 1 .. n - 1 : q[k] = seq[m]
    <2>1. CASE m < p
      <3>1. m \in 1 .. n - 1
        BY <1>1, <1>2, <2>1
      <3>. QED BY <1>3, <2>1, <3>1
    <2>2. CASE m > p
      <3>1. m - 1 \in 1 .. n - 1 /\ ~(m - 1 < p) /\ (m - 1) + 1 = m
        BY <1>1, <1>2, <2>2
      <3>. QED BY <1>3, <3>1
    <2>3. m < p \/ m > p
      BY <1>1, <1>2, <1>6
    <2>. QED BY <2>1, <2>2, <2>3
  <1>7. \A m \in 1 .. n : m # p => seq[m].id # id
    BY <1>1, <1>2 DEF DistinctIds
  <1>8. Ids(q) = Ids(seq) \ {id}
    <2>1. ASSUME NEW o \in Ids(q) PROVE o \in Ids(seq) \ {id}
      <3>1. PICK k \in 1 .. n - 1 : o = q[k].id
        BY <1>4 DEF Ids
      <3>2. PICK m \in 1 .. n : q[k] = seq[m] /\ m # p
        BY <1>5
      <3>. QED BY <1>1, <1>7, <3>1, <3>2 DEF Ids
    <2>2. ASSUME NEW o \in Ids(seq) \ {id} PROVE o \in Ids(q)
      <3>1. PICK m \in 1 .. n : o = seq[m].id
        BY <1>1 DEF Ids
      <3>2. PICK k \in 1 .. n - 1 : q[k] = seq[m]
        BY <1>2, <1>6, <2>2, <3>1
      <3>. QED BY <1>4, <3>1, <3>2 DEF Ids
    <2>. QED BY <2>1, <2>2
  <1>9. DistinctIds(q)
    <2> SUFFICES ASSUME NEW i \in 1 .. n - 1, NEW j \in 1 .. n - 1, q[i].id = q[j].id
                 PROVE  i = j
      BY <1>4 DEF DistinctIds
    <2>1. PICK a \in 1 .. n : q[i] = seq[a] /\ a # p /\ a = IF i < p THEN i ELSE i + 1
      BY <1>5
    <2>2. PICK b \in 1 .. n : q[j] = seq[b] /\ b # p /\ b = IF j < p THEN j ELSE j + 1
      BY <1>5
    <2>3. a = b
      BY <1>1, <2>1, <2>2 DEF DistinctIds
    <2>. QED BY <1>2, <2>1, <2>2, <2>3
  <1>10. ASSUME NEW o \in Ids(seq) \ {id} PROVE Lookup(q, o) = Lookup(seq, o)
    <2>1. PICK m \in 1 .. n : o = seq[m].id
      BY <1>1 DEF Ids
    <2>2. PICK k \in 1 .. n - 1 : q[k] = seq[m]
      BY <1>2, <1>6, <2>1
    <2>3. Lookup(seq, o) = seq[m]
      BY <2>1, FoundAt DEF n
    <2>4. Lookup(q, q[k].id) = q[k]
      BY <1>3, <1>9, FoundAt
    <2>. QED BY <2>1, <2>2, <2>3, <2>4
  <1>. QED BY <1>3, <1>8, <1>9, <1>10 DEF n, p, q

LEMMA InsertedIds ==
    ASSUME NEW X, NEW seq \in Seq(X), DistinctIds(seq), NEW x \in X,
           x.id \notin Ids(seq), NEW p \in 1 .. Len(seq) + 1
    PROVE  LET q == InsertAt(seq, p, x)
           IN  /\ q \in Seq(X) /\ Len(q) = Len(seq) + 1
               /\ Ids(q) = Ids(seq) \cup {x.id} /\ DistinctIds(q)
  <1> DEFINE n == Len(seq)
             q == InsertAt(seq, p, x)
  <1>1. n \in Nat /\ DOMAIN seq = 1 .. n
    BY LenProperties
  <1>2. /\ q \in Seq(X) /\ Len(q) = n + 1
        /\ q[p] = x
        /\ \A k \in 1 .. n + 1 :
              /\ k < p => q[k] = seq[k]
              /\ k > p => q[k] = seq[k - 1]
    <2>1. p \in Nat \ {0} /\ p <= Len(seq) + 1
      OBVIOUS
    <2>. QED BY <2>1, InsertAtIs
  <1>3. DOMAIN q = 1 .. n + 1
    BY <1>2, LenProperties
  <1>4. p \in 1 .. n + 1
    OBVIOUS
  <1> HIDE DEF n, q
  <1>5. q[p] = x
    BY <1>2
  <1>6. ASSUME NEW k \in 1 .. n + 1, k # p
        PROVE  \E m \in 1 .. n : q[k] = seq[m] /\ m = IF k < p THEN k ELSE k - 1
    <2>1. CASE k < p
      BY <1>1, <1>2, <1>4, <2>1
    <2>2. CASE k > p
      <3>1. k - 1 \in 1 .. n /\ ~(k < p)
        BY <1>1, <1>4, <2>2
      <3>. QED BY <1>2, <1>6, <3>1
    <2>3. k < p \/ k > p
      BY <1>1, <1>4, <1>6
    <2>. QED BY <2>1, <2>2, <2>3
  <1>7. ASSUME NEW m \in 1 .. n
        PROVE  \E k \in 1 .. n + 1 : q[k] = seq[m]
    <2>1. CASE m < p
      <3>1. m \in 1 .. n + 1
        BY <1>1
      <3>. QED BY <1>2, <2>1, <3>1
    <2>2. CASE ~(m < p)
      <3>1. m + 1 \in 1 .. n + 1 /\ ~(m + 1 < p) /\ m + 1 # p /\ (m + 1) - 1 = m
        BY <1>1, <1>4, <2>2
      <3>. QED BY <1>2, <3>1
    <2>. QED BY <2>1, <2>2
  <1>8. Ids(q) = Ids(seq) \cup {x.id}
    <2>1. ASSUME NEW o \in Ids(q) PROVE o \in Ids(seq) \cup {x.id}
      <3>1. PICK k \in 1 .. n + 1 : o = q[k].id
        BY <1>3 DEF Ids
      <3>2. CASE k = p
        BY <1>5, <3>1, <3>2
      <3>3. CASE k # p
        BY <1>1, <1>6, <3>1, <3>3 DEF Ids
      <3>. QED BY <3>2, <3>3
    <2>2. ASSUME NEW o \in Ids(seq) PROVE o \in Ids(q)
      <3>1. PICK m \in 1 .. n : o = seq[m].id
        BY <1>1 DEF Ids
      <3>2. PICK k \in 1 .. n + 1 : q[k] = seq[m]
        BY <1>7
      <3>. QED BY <1>3, <3>1, <3>2 DEF Ids
    <2>3. x.id \in Ids(q)
      BY <1>3, <1>4, <1>5 DEF Ids
    <2>. QED BY <2>1, <2>2, <2>3
  <1>9. DistinctIds(q)
    <2> SUFFICES ASSUME NEW i \in 1 .. n + 1, NEW j \in 1 .. n + 1, q[i].id = q[j].id
                 PROVE  i = j
      BY <1>3 DEF DistinctIds
    <2>1. \A k \in 1 .. n + 1 : k # p => q[k].id \in Ids(seq)
      BY <1>1, <1>6 DEF Ids
    <2>2. CASE i = p \/ j = p
      BY <1>5, <2>1, <2>2
    <2>3. CASE i # p /\ j # p
      <3>1. PICK a \in 1 .. n : q[i] = seq[a] /\ a = IF i < p THEN i ELSE i - 1
        BY <1>6, <2>3
      <3>2. PICK b \in 1 .. n : q[j] = seq[b] /\ b = IF j < p THEN j ELSE j - 1
        BY <1>6, <2>3
      <3>3. a = b
        BY <1>1, <3>1, <3>2 DEF DistinctIds
      <3>. QED BY <1>1, <1>4, <2>3, <3>1, <3>2, <3>3
    <2>. QED BY <2>2, <2>3
  <1>. QED BY <1>2, <1>8, <1>9 DEF n, q

LEMMA ReplacedIds ==
    ASSUME NEW X, NEW seq \in Seq(X), DistinctIds(seq), NEW id \in Ids(seq),
           NEW y \in X, y.id = id
    PROVE  LET q == [seq EXCEPT ![IndexOf(seq, id)] = y]
           IN  /\ q \in Seq(X) /\ Len(q) = Len(seq)
               /\ Ids(q) = Ids(seq) /\ DistinctIds(q)
               /\ Lookup(q, id) = y
               /\ \A o \in Ids(seq) \ {id} : Lookup(q, o) = Lookup(seq, o)
               /\ \A o \in Ids(seq) : IndexOf(q, o) = IndexOf(seq, o)
  <1> DEFINE n == Len(seq)
             p == IndexOf(seq, id)
             q == [seq EXCEPT ![p] = y]
  <1>1. n \in Nat /\ DOMAIN seq = 1 .. n /\ \A i \in 1 .. n : seq[i] \in X
    BY LenProperties
  <1>2. p \in 1 .. n /\ seq[p].id = id
    BY IndexOfIs
  <1> HIDE DEF p
  <1>3. q \in Seq(X)
    BY <1>2, ExceptSeq
  <1>4. DOMAIN q = 1 .. n /\ Len(q) = n
    <2>1. DOMAIN q = 1 .. n
      BY <1>1
    <2>2. DOMAIN q = 1 .. Len(q) /\ Len(q) \in Nat
      BY <1>3, LenProperties
    <2>. QED BY <1>1, <2>1, <2>2
  <1>5. q[p] = y /\ \A i \in 1 .. n : i # p => q[i] = seq[i]
    BY <1>1, <1>2
  <1> HIDE DEF n, q
  <1>6. \A i \in 1 .. n : q[i].id = seq[i].id
    BY <1>2, <1>5
  <1>7. Ids(q) = Ids(seq)
    BY <1>1, <1>4, <1>6 DEF Ids
  <1>8. DistinctIds(q)
    BY <1>1, <1>4, <1>6 DEF DistinctIds
  <1>9. \A k \in 1 .. n : Lookup(q, q[k].id) = q[k] /\ IndexOf(q, q[k].id) = k
    BY <1>3, <1>4, <1>8, FoundAt
  <1>10. \A k \in 1 .. n : Lookup(seq, seq[k].id) = seq[k] /\ IndexOf(seq, seq[k].id) = k
    BY FoundAt DEF n
  <1>11. \A o \in Ids(seq) : \E k \in 1 .. n : o = seq[k].id
    BY <1>1 DEF Ids
  <1>12. ASSUME NEW o \in Ids(seq)
         PROVE  /\ IndexOf(q, o) = IndexOf(seq, o)
                /\ o # id => Lookup(q, o) = Lookup(seq, o)
    <2>1. PICK k \in 1 .. n : o = seq[k].id
      BY <1>11
    <2>. QED BY <1>2, <1>5, <1>6, <1>9, <1>10, <2>1
  <1>13. Lookup(q, id) = y
    BY <1>2, <1>5, <1>6, <1>9
  <1>. QED BY <1>3, <1>4, <1>7, <1>8, <1>12, <1>13 DEF n, p, q

-----------------------------------------------------------------------------
(* The stored session.                                                     *)

StoredTab == [id : Nat, location : Location]
StoredWindow == [id : Nat, active : Nat, tabs : Seq(StoredTab)]
StoredSession == [windows : Seq(StoredWindow), nextWindow : Nat, nextTab : Nat]

TabsIn(s, w) == Ids(WindowOf(s, w).tabs)

SoundWindow(v, bound) ==
    /\ v \in StoredWindow
    /\ Len(v.tabs) <= MaxTabsPerWindow
    /\ DistinctIds(v.tabs)
    /\ Ids(v.tabs) \subseteq 1 .. bound - 1
    /\ IF v.tabs = <<>> THEN v.active = 0 ELSE v.active \in Ids(v.tabs)

\* What validate_snapshot asks for, told of windows by their identity.
SoundSession(s) ==
    /\ s \in StoredSession
    /\ Len(s.windows) <= MaxSessionWindows
    /\ DistinctIds(s.windows)
    /\ Ids(s.windows) \subseteq 1 .. s.nextWindow - 1
    /\ s.nextTab \in Nat \ {0} /\ s.nextWindow \in Nat \ {0}
    /\ \A w \in Ids(s.windows) : SoundWindow(WindowOf(s, w), s.nextTab)
    /\ \A v, w \in Ids(s.windows) : v # w => TabsIn(s, v) \cap TabsIn(s, w) = {}
    /\ Cardinality(TabIds(s)) <= MaxSessionTabs

LEMMA WindowOfIs ==
    ASSUME NEW s, NEW w
    PROVE  WindowOf(s, w) = Lookup(s.windows, w)
  BY DEF WindowOf, Lookup

\* A sound session's parts, by position.
LEMMA WindowAt ==
    ASSUME NEW s, SoundSession(s), NEW i \in 1 .. Len(s.windows)
    PROVE  /\ s.windows[i] \in StoredWindow
           /\ s.windows[i].id \in Ids(s.windows)
           /\ WindowOf(s, s.windows[i].id) = s.windows[i]
           /\ SoundWindow(s.windows[i], s.nextTab)
  <1>1. s.windows \in Seq(StoredWindow) /\ DistinctIds(s.windows)
    BY DEF SoundSession, StoredSession
  <1>2. s.windows[i] \in StoredWindow
    BY <1>1, LenProperties
  <1>3. s.windows[i].id \in Ids(s.windows) /\ WindowOf(s, s.windows[i].id) = s.windows[i]
    BY <1>1, FoundAt, WindowOfIs
  <1>4. SoundWindow(WindowOf(s, s.windows[i].id), s.nextTab)
    BY <1>3 DEF SoundSession
  <1>. QED BY <1>2, <1>3, <1>4

LEMMA TabIdsAre ==
    ASSUME NEW s, s.windows \in Seq(StoredWindow), DistinctIds(s.windows)
    PROVE  /\ \A x \in TabIds(s) : \E w \in Ids(s.windows) : x \in TabsIn(s, w)
           /\ \A w \in Ids(s.windows) : TabsIn(s, w) \subseteq TabIds(s)
           /\ IsFiniteSet(TabIds(s))
  <1> DEFINE n == Len(s.windows)
  <1>1. n \in Nat /\ DOMAIN s.windows = 1 .. n
    BY LenProperties
  <1>2. ASSUME NEW x \in TabIds(s) PROVE \E w \in Ids(s.windows) : x \in TabsIn(s, w)
    <2>1. PICK i \in 1 .. n : x \in Ids(s.windows[i].tabs)
      BY <1>1 DEF TabIds
    <2>2. s.windows[i].id \in Ids(s.windows) /\ WindowOf(s, s.windows[i].id) = s.windows[i]
      BY FoundAt, WindowOfIs
    <2>. QED BY <2>1, <2>2 DEF TabsIn
  <1>3. ASSUME NEW w \in Ids(s.windows) PROVE TabsIn(s, w) \subseteq TabIds(s)
    <2>1. PICK i \in 1 .. n : s.windows[i].id = w
      BY <1>1 DEF Ids
    <2>2. WindowOf(s, w) = s.windows[i]
      BY <2>1, FoundAt, WindowOfIs
    <2>. QED BY <1>1, <2>2 DEF TabIds, TabsIn
  <1>4. IsFiniteSet(TabIds(s))
    <2> DEFINE parts == {Ids(s.windows[i].tabs) : i \in 1 .. n}
               f == [i \in 1 .. n |-> Ids(s.windows[i].tabs)]
    <2>1. f \in Surjection(1 .. n, parts)
      BY DEF Surjection
    <2>2. IsFiniteSet(1 .. n)
      BY <1>1, FS_Interval
    <2>3. ASSUME NEW p \in parts PROVE IsFiniteSet(p)
      <3>1. PICK i \in 1 .. n : p = Ids(s.windows[i].tabs)
        OBVIOUS
      <3>2. s.windows[i] \in StoredWindow
        BY LenProperties
      <3>3. s.windows[i].tabs \in Seq(StoredTab)
        BY <3>2 DEF StoredWindow
      <3>. QED BY <3>1, <3>3, IdsCounted
    <2>4. TabIds(s) = UNION parts
      BY <1>1 DEF TabIds
    <2> HIDE DEF parts, f, n
    <2>5. IsFiniteSet(parts)
      BY <2>1, <2>2, FS_Surjection
    <2>. QED BY <2>3, <2>4, <2>5, FS_UNION
  <1>. QED BY <1>2, <1>3, <1>4

\* total_tabs counts the identities there are.
LEMMA TotalIs ==
    ASSUME NEW s, s.windows \in Seq(StoredWindow), DistinctIds(s.windows),
           \A i \in 1 .. Len(s.windows) : DistinctIds(s.windows[i].tabs),
           \A v, w \in Ids(s.windows) : v # w => TabsIn(s, v) \cap TabsIn(s, w) = {}
    PROVE  TotalTabs(s) = Cardinality(TabIds(s))
  <1> DEFINE n == Len(s.windows)
             Of(i) == Ids(s.windows[i].tabs)
             Upto(k) == UNION {Of(i) : i \in 1 .. k}
  <1>1. n \in Nat /\ DOMAIN s.windows = 1 .. n
    BY LenProperties
  <1>2. PICK h : /\ h[0] = 0
                 /\ \A k \in 1 .. n : h[k] = (h[k - 1] + Len(s.windows[k].tabs))
                 /\ TotalTabs(s) = h[n]
    BY TotalRuns
  <1> DEFINE Holds == {k \in 0 .. n : IsFiniteSet(Upto(k)) /\ h[k] = Cardinality(Upto(k))}
  <1>3. \A i, j \in 1 .. n : i # j => Of(i) \cap Of(j) = {}
    <2> TAKE i, j \in 1 .. n
    <2>1. /\ s.windows[i].id \in Ids(s.windows) /\ IndexOf(s.windows, s.windows[i].id) = i
          /\ Lookup(s.windows, s.windows[i].id) = s.windows[i]
      BY FoundAt
    <2>2. /\ s.windows[j].id \in Ids(s.windows) /\ IndexOf(s.windows, s.windows[j].id) = j
          /\ Lookup(s.windows, s.windows[j].id) = s.windows[j]
      BY FoundAt
    <2>. QED BY <2>1, <2>2, WindowOfIs DEF TabsIn
  <1>4. \A i \in 1 .. n : /\ IsFiniteSet(Of(i))
                          /\ Cardinality(Of(i)) = Len(s.windows[i].tabs)
    <2> TAKE i \in 1 .. n
    <2>1. s.windows[i] \in StoredWindow
      BY LenProperties
    <2>2. s.windows[i].tabs \in Seq(StoredTab)
      BY <2>1 DEF StoredWindow
    <2>. QED BY <2>2, IdsCounted
  <1>5. 0 \in Holds
    <2>1. Upto(0) = {}
      OBVIOUS
    <2>2. IsFiniteSet({}) /\ Cardinality({}) = 0
      BY FS_EmptySet
    <2>3. IsFiniteSet(Upto(0)) /\ h[0] = Cardinality(Upto(0))
      <3> HIDE DEF Upto
      <3>. QED BY <1>2, <2>1, <2>2
    <2> HIDE DEF Upto, n
    <2>. QED BY <1>1, <2>3
  <1>6. ASSUME NEW k \in 0 .. n - 1, k \in Holds PROVE k + 1 \in Holds
    <2>1. k + 1 \in 1 .. n /\ (k + 1) - 1 = k /\ k + 1 \in 0 .. n
      BY <1>1
    <2>2. Upto(k + 1) = Upto(k) \cup Of(k + 1)
      <3> HIDE DEF Of, n
      <3>1. \A i : i \in 1 .. k + 1 <=> i \in 1 .. k \/ i = k + 1
        BY <1>1
      <3>. QED BY <3>1
    <2>3. Upto(k) \cap Of(k + 1) = {}
      <3> HIDE DEF Of, n
      <3>1. \A i \in 1 .. k : i \in 1 .. n /\ i # k + 1
        BY <1>1
      <3>. QED BY <1>3, <2>1, <3>1
    <2> DEFINE a == Upto(k)
               b == Of(k + 1)
               c == Upto(k + 1)
    <2>4. /\ IsFiniteSet(a) /\ h[k] = Cardinality(a)
          /\ IsFiniteSet(b) /\ Cardinality(b) = Len(s.windows[k + 1].tabs)
          /\ h[k + 1] = h[k] + Len(s.windows[k + 1].tabs)
          /\ a \cap b = {} /\ c = a \cup b
      BY <1>2, <1>4, <1>6, <2>1, <2>2, <2>3
    <2> HIDE DEF a, b, c, Of, Upto, n
    <2>5. /\ IsFiniteSet(a \cup b)
          /\ Cardinality(a \cup b) = Cardinality(a) + Cardinality(b) - Cardinality(a \cap b)
      BY <2>4, FS_Union
    <2>6. Cardinality(a \cap b) = 0 /\ Cardinality(a) \in Nat /\ Cardinality(b) \in Nat
      BY <2>4, FS_EmptySet, FS_CardinalityType
    <2>7. IsFiniteSet(c) /\ h[k + 1] = Cardinality(c)
      BY <2>4, <2>5, <2>6
    <2>. QED BY <2>1, <2>7 DEF c
  <1>7. n \in Holds
    <2> HIDE DEF Holds, n
    <2>. QED BY <1>1, <1>5, <1>6, Induction
  <1>8. Upto(n) = TabIds(s)
    BY <1>1 DEF TabIds
  <1>. QED BY <1>2, <1>7, <1>8

\* validate_snapshot passes a sound session.
LEMMA SoundIsValid ==
    ASSUME NEW s, SoundSession(s)
    PROVE  Valid(s) /\ TotalTabs(s) = Cardinality(TabIds(s))
  <1> DEFINE n == Len(s.windows)
  <1>1. /\ s.windows \in Seq(StoredWindow) /\ DistinctIds(s.windows)
        /\ n <= MaxSessionWindows
        /\ Ids(s.windows) \subseteq 1 .. s.nextWindow - 1
        /\ Cardinality(TabIds(s)) <= MaxSessionTabs
        /\ \A v, w \in Ids(s.windows) : v # w => TabsIn(s, v) \cap TabsIn(s, w) = {}
    BY DEF SoundSession, StoredSession
  <1>2. n \in Nat /\ DOMAIN s.windows = 1 .. n
    BY <1>1, LenProperties
  <1>3. \A i \in 1 .. n : SoundWindow(s.windows[i], s.nextTab)
    BY WindowAt
  <1>4. TotalTabs(s) = Cardinality(TabIds(s))
    BY <1>1, <1>3, TotalIs DEF SoundWindow
  <1>5. Cardinality(Ids(s.windows)) = Len(s.windows)
    BY <1>1, IdsCounted
  <1>6. TabIds(s) \subseteq 1 .. s.nextTab - 1
    <2> SUFFICES ASSUME NEW x \in TabIds(s) PROVE x \in 1 .. s.nextTab - 1
      OBVIOUS
    <2>1. PICK i \in 1 .. n : x \in Ids(s.windows[i].tabs)
      BY <1>2 DEF TabIds
    <2>. QED BY <1>3, <2>1 DEF SoundWindow
  <1>7. \A i \in DOMAIN s.windows :
          LET w == s.windows[i]
          IN  /\ Len(w.tabs) <= MaxTabsPerWindow
              /\ IF w.tabs = <<>> THEN w.active = 0 ELSE w.active \in Ids(w.tabs)
    BY <1>2, <1>3 DEF SoundWindow
  <1>. QED BY <1>1, <1>4, <1>5, <1>6, <1>7 DEF Valid

-----------------------------------------------------------------------------
(* The operations of the stored session.                                   *)

\* What q has and s has not is numbered past all that was ever in s.
Later(s, q) ==
    /\ s.nextTab <= q.nextTab
    /\ \A x \in TabIds(q) \ TabIds(s) : s.nextTab <= x

\* The session with v in the place of window w.
WithWindow(s, w, v, bound) ==
    [windows |-> [s.windows EXCEPT ![IndexOf(s.windows, w)] = v],
     nextWindow |-> s.nextWindow, nextTab |-> bound]

Fits(s, w, v, bound) ==
    /\ bound \in Nat /\ s.nextTab <= bound
    /\ v.id = w /\ SoundWindow(v, bound)
    /\ \A x \in Ids(v.tabs) : x \in TabsIn(s, w) \/ s.nextTab <= x
    /\ Cardinality((TabIds(s) \ TabsIn(s, w)) \cup Ids(v.tabs)) <= MaxSessionTabs

\* q is s, but for the tabs of window w, which are ids.
Effect(s, q, w, ids) ==
    /\ SoundSession(q) /\ Later(s, q)
    /\ Ids(q.windows) = Ids(s.windows)
    /\ TabsIn(q, w) = ids
    /\ \A o \in Ids(s.windows) \ {w} : WindowOf(q, o) = WindowOf(s, o)

LEMMA WindowReplaced ==
    ASSUME NEW s, SoundSession(s), NEW w \in Ids(s.windows), NEW v, NEW bound,
           Fits(s, w, v, bound)
    PROVE  LET q == WithWindow(s, w, v, bound)
           IN  Effect(s, q, w, Ids(v.tabs)) /\ WindowOf(q, w) = v
  <1> DEFINE q == WithWindow(s, w, v, bound)
  <1>1. /\ s.windows \in Seq(StoredWindow) /\ DistinctIds(s.windows)
        /\ s.nextWindow \in Nat \ {0} /\ s.nextTab \in Nat \ {0}
        /\ Len(s.windows) <= MaxSessionWindows
        /\ Ids(s.windows) \subseteq 1 .. s.nextWindow - 1
        /\ \A o \in Ids(s.windows) : SoundWindow(WindowOf(s, o), s.nextTab)
        /\ \A a, b \in Ids(s.windows) : a # b => TabsIn(s, a) \cap TabsIn(s, b) = {}
    BY DEF SoundSession, StoredSession
  <1>2. v \in StoredWindow /\ v.id = w /\ SoundWindow(v, bound)
    BY DEF Fits, SoundWindow
  <1>3. /\ q.windows = [s.windows EXCEPT ![IndexOf(s.windows, w)] = v]
        /\ q.nextWindow = s.nextWindow /\ q.nextTab = bound
        /\ q = [windows |-> q.windows, nextWindow |-> q.nextWindow, nextTab |-> q.nextTab]
    BY DEF WithWindow
  <1> HIDE DEF q
  <1>4. /\ q.windows \in Seq(StoredWindow) /\ Len(q.windows) = Len(s.windows)
        /\ Ids(q.windows) = Ids(s.windows) /\ DistinctIds(q.windows)
        /\ WindowOf(q, w) = v
        /\ \A o \in Ids(s.windows) \ {w} : WindowOf(q, o) = WindowOf(s, o)
    BY <1>1, <1>2, <1>3, ReplacedIds, WindowOfIs
  <1>5. bound \in Nat /\ s.nextTab <= bound
    BY DEF Fits
  <1>6. q \in StoredSession
    BY <1>1, <1>3, <1>4, <1>5 DEF StoredSession
  <1>7. /\ TabsIn(q, w) = Ids(v.tabs)
        /\ \A o \in Ids(s.windows) \ {w} : TabsIn(q, o) = TabsIn(s, o)
    BY <1>4 DEF TabsIn
  <1>8. \A o \in Ids(q.windows) : SoundWindow(WindowOf(q, o), q.nextTab)
    <2> SUFFICES ASSUME NEW o \in Ids(s.windows) PROVE SoundWindow(WindowOf(q, o), bound)
      BY <1>3, <1>4
    <2>1. CASE o = w
      BY <1>2, <1>4, <2>1
    <2>2. CASE o # w
      <3>1. SoundWindow(WindowOf(s, o), s.nextTab) /\ WindowOf(q, o) = WindowOf(s, o)
        BY <1>1, <1>4, <2>2
      <3>2. 1 .. s.nextTab - 1 \subseteq 1 .. bound - 1
        BY <1>1, <1>5
      <3>. QED BY <3>1, <3>2 DEF SoundWindow
    <2>. QED BY <2>1, <2>2
  <1>9. \A o \in Ids(s.windows) \ {w} : TabsIn(s, o) \cap Ids(v.tabs) = {}
    <2> SUFFICES ASSUME NEW o \in Ids(s.windows) \ {w}, NEW x \in TabsIn(s, o),
                        x \in Ids(v.tabs)
                 PROVE  FALSE
      OBVIOUS
    <2>1. x \notin TabsIn(s, w)
      BY <1>1
    <2>2. s.nextTab <= x
      BY <2>1 DEF Fits
    <2>3. x \in 1 .. s.nextTab - 1
      BY <1>1 DEF SoundWindow, TabsIn
    <2>. QED BY <1>1, <2>2, <2>3
  <1>10. \A a, b \in Ids(q.windows) : a # b => TabsIn(q, a) \cap TabsIn(q, b) = {}
    <2> SUFFICES ASSUME NEW a \in Ids(s.windows), NEW b \in Ids(s.windows), a # b
                 PROVE  TabsIn(q, a) \cap TabsIn(q, b) = {}
      BY <1>4
    <2>1. CASE a = w
      <3>1. b \in Ids(s.windows) \ {w}
        BY <2>1
      <3>. QED BY <1>7, <1>9, <2>1, <3>1
    <2>2. CASE b = w
      <3>1. a \in Ids(s.windows) \ {w}
        BY <2>2
      <3>. QED BY <1>7, <1>9, <2>2, <3>1
    <2>3. CASE a # w /\ b # w
      BY <1>1, <1>7, <2>3
    <2>. QED BY <2>1, <2>2, <2>3
  <1>11. TabIds(q) = (TabIds(s) \ TabsIn(s, w)) \cup Ids(v.tabs)
    <2>1. /\ \A x \in TabIds(s) : \E o \in Ids(s.windows) : x \in TabsIn(s, o)
          /\ \A o \in Ids(s.windows) : TabsIn(s, o) \subseteq TabIds(s)
      BY <1>1, TabIdsAre
    <2>2. /\ \A x \in TabIds(q) : \E o \in Ids(q.windows) : x \in TabsIn(q, o)
          /\ \A o \in Ids(q.windows) : TabsIn(q, o) \subseteq TabIds(q)
      BY <1>4, TabIdsAre
    <2>3. ASSUME NEW x \in TabIds(q)
          PROVE  x \in (TabIds(s) \ TabsIn(s, w)) \cup Ids(v.tabs)
      <3>1. PICK o \in Ids(s.windows) : x \in TabsIn(q, o)
        BY <1>4, <2>2
      <3>2. CASE o = w
        BY <1>7, <3>1, <3>2
      <3>3. CASE o # w
        BY <1>1, <1>7, <2>1, <3>1, <3>3
      <3>. QED BY <3>2, <3>3
    <2>4. ASSUME NEW x \in TabIds(s) \ TabsIn(s, w)
          PROVE  x \in TabIds(q)
      <3>1. PICK o \in Ids(s.windows) : x \in TabsIn(s, o)
        BY <2>1
      <3>. QED BY <1>4, <1>7, <2>2, <2>4, <3>1
    <2>5. Ids(v.tabs) \subseteq TabIds(q)
      BY <1>4, <1>7, <2>2
    <2>. QED BY <2>3, <2>4, <2>5
  <1>12. SoundSession(q)
    <2>1. Cardinality(TabIds(q)) <= MaxSessionTabs
      BY <1>11 DEF Fits
    <2>2. q.nextTab \in Nat \ {0}
      BY <1>1, <1>3, <1>5
    <2>. QED BY <1>1, <1>3, <1>4, <1>6, <1>8, <1>10, <2>1, <2>2 DEF SoundSession
  <1>13. Later(s, q)
    <2>1. \A x \in TabIds(q) \ TabIds(s) : s.nextTab <= x
      <3> SUFFICES ASSUME NEW x \in Ids(v.tabs), x \notin TabIds(s) PROVE s.nextTab <= x
        BY <1>11
      <3>1. x \notin TabsIn(s, w)
        BY <1>1, TabIdsAre
      <3>. QED BY <3>1 DEF Fits
    <2>. QED BY <1>3, <1>5, <2>1 DEF Later
  <1>14. Effect(s, q, w, Ids(v.tabs))
    BY <1>4, <1>7, <1>12, <1>13 DEF Effect
  <1>. QED BY <1>4, <1>14 DEF q

\* A window that only loses tabs.
LEMMA WindowShrunk ==
    ASSUME NEW s, SoundSession(s), NEW w \in Ids(s.windows), NEW v,
           v.id = w, SoundWindow(v, s.nextTab), Ids(v.tabs) \subseteq TabsIn(s, w)
    PROVE  LET q == WithWindow(s, w, v, s.nextTab)
           IN  Effect(s, q, w, Ids(v.tabs)) /\ WindowOf(q, w) = v
  <1>1. s.nextTab \in Nat /\ MaxSessionTabs \in Nat
    BY SessionConstants DEF SoundSession
  <1>2. TabsIn(s, w) \subseteq TabIds(s) /\ IsFiniteSet(TabIds(s))
    BY TabIdsAre DEF SoundSession, StoredSession
  <1> DEFINE rest == (TabIds(s) \ TabsIn(s, w)) \cup Ids(v.tabs)
  <1>3. rest \subseteq TabIds(s)
    BY <1>2
  <1> HIDE DEF rest
  <1>4. IsFiniteSet(rest) /\ Cardinality(rest) <= Cardinality(TabIds(s))
    BY <1>2, <1>3, FS_Subset
  <1>5. Cardinality(rest) \in Nat /\ Cardinality(TabIds(s)) \in Nat
    BY <1>2, <1>4, FS_CardinalityType
  <1>6. Cardinality(TabIds(s)) <= MaxSessionTabs
    BY DEF SoundSession
  <1>7. Cardinality(rest) <= MaxSessionTabs
    BY <1>1, <1>4, <1>5, <1>6
  <1>8. Fits(s, w, v, s.nextTab)
    BY <1>1, <1>7 DEF Fits, rest
  <1>. QED BY <1>8, WindowReplaced

LEMMA InWindow ==
    ASSUME NEW s, SoundSession(s), NEW w \in Ids(s.windows)
    PROVE  /\ WindowOf(s, w) \in StoredWindow /\ WindowOf(s, w).id = w
           /\ WindowOf(s, w) = s.windows[IndexOf(s.windows, w)]
           /\ IndexOf(s.windows, w) \in 1 .. Len(s.windows)
           /\ DOMAIN s.windows = 1 .. Len(s.windows)
           /\ SoundWindow(WindowOf(s, w), s.nextTab)
           /\ WindowOf(s, w).tabs \in Seq(StoredTab) /\ DistinctIds(WindowOf(s, w).tabs)
           /\ TabsIn(s, w) \subseteq 1 .. s.nextTab - 1
           /\ s.nextTab \in Nat \ {0} /\ s.nextWindow \in Nat \ {0}
           /\ s = [windows |-> s.windows, nextWindow |-> s.nextWindow, nextTab |-> s.nextTab]
  <1>1. s.windows \in Seq(StoredWindow) /\ DistinctIds(s.windows)
    BY DEF SoundSession, StoredSession
  <1>2. WindowOf(s, w) \in StoredWindow /\ WindowOf(s, w).id = w
    BY <1>1, LookupIs, WindowOfIs
  <1>3. /\ IndexOf(s.windows, w) \in 1 .. Len(s.windows)
        /\ DOMAIN s.windows = 1 .. Len(s.windows)
    BY <1>1, IndexOfIs, LenProperties
  <1>4. SoundWindow(WindowOf(s, w), s.nextTab)
    BY DEF SoundSession
  <1>5. WindowOf(s, w).tabs \in Seq(StoredTab)
    BY <1>2 DEF StoredWindow
  <1>6. s = [windows |-> s.windows, nextWindow |-> s.nextWindow, nextTab |-> s.nextTab]
    BY DEF SoundSession, StoredSession
  <1>7. s.nextTab \in Nat \ {0} /\ s.nextWindow \in Nat \ {0}
    BY DEF SoundSession
  <1>. QED BY <1>2, <1>3, <1>4, <1>5, <1>6, <1>7 DEF WindowOf, SoundWindow, TabsIn

LEMMA AddTabIs ==
    ASSUME NEW s, SoundSession(s), NEW w \in Ids(s.windows),
           NEW location \in Location, CanAddTab(s, w)
    PROVE  LET q == AddTab(s, w, location)
           IN  /\ Effect(s, q, w, TabsIn(s, w) \cup {s.nextTab})
               /\ WindowOf(q, w).tabs =
                      Append(WindowOf(s, w).tabs, [id |-> s.nextTab, location |-> location])
  <1> DEFINE old == WindowOf(s, w)
             id == s.nextTab
             tab == [id |-> id, location |-> location]
             v == [id |-> w, active |-> IF old.active = 0 THEN id ELSE old.active,
                   tabs |-> Append(old.tabs, tab)]
             q == WithWindow(s, w, v, id + 1)
  <1>1. /\ old \in StoredWindow /\ old.id = w
        /\ old = s.windows[IndexOf(s.windows, w)]
        /\ IndexOf(s.windows, w) \in DOMAIN s.windows
        /\ old.tabs \in Seq(StoredTab) /\ DistinctIds(old.tabs)
        /\ Ids(old.tabs) \subseteq 1 .. id - 1
        /\ id \in Nat \ {0}
        /\ s = [windows |-> s.windows, nextWindow |-> s.nextWindow, nextTab |-> id]
    BY InWindow DEF TabsIn
  <1>2. AddTab(s, w, location) = q
    <2> DEFINE changed == [old EXCEPT !.tabs = Append(@, tab),
                                      !.active = IF @ = 0 THEN id ELSE @]
    <2>1. changed = v
      <3> DEFINE more == Append(old.tabs, tab)
                 active == IF old.active = 0 THEN id ELSE old.active
      <3>1. changed = [old EXCEPT !.tabs = more, !.active = active]
        OBVIOUS
      <3>2. v = [id |-> w, active |-> active, tabs |-> more]
        OBVIOUS
      <3> HIDE DEF tab, id, old, more, active, changed, v
      <3>3. old = [id |-> w, active |-> old.active, tabs |-> old.tabs]
        <4>1. old \in StoredWindow /\ old.id = w
          BY <1>1
        <4>. QED BY <4>1 DEF StoredWindow
      <3>4. PICK a, t : old = [id |-> w, active |-> a, tabs |-> t]
        BY <3>3
      <3>5. changed = [id |-> w, active |-> active, tabs |-> more]
        BY <3>1, <3>4
      <3>. QED BY <3>2, <3>5
    <2>2. AddTab(s, w, location) =
            [[s EXCEPT !.windows[IndexOf(s.windows, w)] = changed] EXCEPT !.nextTab = @ + 1]
      BY DEF AddTab, Changed, TabIdentity, WindowOf
    <2> HIDE DEF changed, v
    <2>. QED BY <1>1, <2>1, <2>2 DEF WithWindow
  <1>3. tab \in StoredTab /\ tab.id = id /\ id \notin Ids(old.tabs)
    BY <1>1 DEF StoredTab
  <1>4. /\ v.tabs \in Seq(StoredTab) /\ Len(v.tabs) = Len(old.tabs) + 1
        /\ Ids(v.tabs) = Ids(old.tabs) \cup {id} /\ DistinctIds(v.tabs)
    <2> HIDE DEF tab, id, old
    <2>. QED BY <1>1, <1>3, AppendedIds
  <1>5. SoundWindow(v, id + 1)
    <2>1. v \in StoredWindow
      BY <1>1, <1>4 DEF StoredWindow
    <2>2. Len(v.tabs) <= MaxTabsPerWindow
      <3>1. Len(old.tabs) \in Nat /\ MaxTabsPerWindow \in Nat /\ Len(old.tabs) < MaxTabsPerWindow
        BY <1>1, LenProperties, SessionConstants DEF CanAddTab
      <3>. QED BY <1>4, <3>1
    <2>3. Ids(v.tabs) \subseteq 1 .. (id + 1) - 1
      BY <1>1, <1>4
    <2>4. v.tabs # <<>> /\ v.active \in Ids(v.tabs)
      <3>1. old.active # 0 => old.active \in Ids(old.tabs)
        BY InWindow DEF SoundWindow
      <3>2. v.active \in Ids(v.tabs)
        BY <1>4, <3>1
      <3>3. v.tabs # <<>>
        <4>1. Len(v.tabs) # 0
          BY <1>1, <1>4, LenProperties
        <4> HIDE DEF v
        <4>. QED BY <4>1, EmptySeq
      <3>. QED BY <3>2, <3>3
    <2> HIDE DEF v, id, old
    <2>. QED BY <1>4, <2>1, <2>2, <2>3, <2>4 DEF SoundWindow
  <1>6. Fits(s, w, v, id + 1)
    <2> DEFINE all == (TabIds(s) \ TabsIn(s, w)) \cup Ids(v.tabs)
    <2>1. TabsIn(s, w) \subseteq TabIds(s) /\ IsFiniteSet(TabIds(s))
      BY TabIdsAre DEF SoundSession, StoredSession
    <2>2. Ids(v.tabs) = TabsIn(s, w) \cup {id}
      BY <1>4 DEF TabsIn
    <2>3. all = TabIds(s) \cup {id}
      BY <2>1, <2>2
    <2> HIDE DEF all, v, id, old
    <2>4. Cardinality(all) <= Cardinality(TabIds(s)) + 1
      <3>1. Cardinality(TabIds(s) \cup {id}) =
              IF id \in TabIds(s) THEN Cardinality(TabIds(s)) ELSE Cardinality(TabIds(s)) + 1
        BY <2>1, FS_AddElement
      <3>2. Cardinality(TabIds(s)) \in Nat
        BY <2>1, FS_CardinalityType
      <3>. QED BY <2>3, <3>1, <3>2
    <2>5. Cardinality(TabIds(s)) < MaxSessionTabs
      BY SoundIsValid DEF CanAddTab
    <2>6. /\ Cardinality(TabIds(s)) \in Nat /\ MaxSessionTabs \in Nat
          /\ Cardinality(all) \in Nat
      <3>1. IsFiniteSet(all)
        BY <2>1, <2>3, FS_AddElement
      <3>. QED BY <2>1, <3>1, FS_CardinalityType, SessionConstants
    <2>7. Cardinality(all) <= MaxSessionTabs
      BY <2>4, <2>5, <2>6
    <2>8. \A x \in Ids(v.tabs) : x \in TabsIn(s, w) \/ s.nextTab <= x
      BY <1>1, <2>2 DEF id
    <2>9. v.id = w
      BY DEF v
    <2>10. id + 1 \in Nat /\ s.nextTab <= id + 1
      BY <1>1 DEF id
    <2>. QED BY <1>5, <2>7, <2>8, <2>9, <2>10 DEF Fits, all
  <1> HIDE DEF v, q, id
  <1>7. Effect(s, q, w, Ids(v.tabs)) /\ WindowOf(q, w) = v
    BY <1>6, WindowReplaced DEF q
  <1>8. Ids(v.tabs) = TabsIn(s, w) \cup {s.nextTab}
    BY <1>4 DEF TabsIn, id
  <1>9. v.tabs = Append(WindowOf(s, w).tabs, [id |-> s.nextTab, location |-> location])
    BY DEF v, id
  <1>. QED BY <1>2, <1>7, <1>8, <1>9

LEMMA UpdateLocationIs ==
    ASSUME NEW s, SoundSession(s), NEW w \in Ids(s.windows),
           NEW tab \in TabsIn(s, w), NEW location \in Location
    PROVE  LET q == UpdateLocation(s, w, tab, location)
               i == IndexOf(WindowOf(s, w).tabs, tab)
           IN  /\ Effect(s, q, w, TabsIn(s, w)) /\ q.nextTab = s.nextTab
               /\ WindowOf(q, w) = [WindowOf(s, w) EXCEPT !.tabs[i].location = location]
  <1> DEFINE old == WindowOf(s, w)
             i == IndexOf(old.tabs, tab)
             new == [old.tabs[i] EXCEPT !.location = location]
             v == [old EXCEPT !.tabs[i].location = location]
             q == WithWindow(s, w, v, s.nextTab)
  <1>1. /\ old \in StoredWindow /\ old.id = w
        /\ old = s.windows[IndexOf(s.windows, w)]
        /\ IndexOf(s.windows, w) \in DOMAIN s.windows
        /\ old.tabs \in Seq(StoredTab) /\ DistinctIds(old.tabs)
        /\ SoundWindow(old, s.nextTab)
        /\ s.nextTab \in Nat \ {0}
        /\ s = [windows |-> s.windows, nextWindow |-> s.nextWindow, nextTab |-> s.nextTab]
    BY InWindow
  <1>2. tab \in Ids(old.tabs)
    BY DEF TabsIn
  <1>3. i \in 1 .. Len(old.tabs) /\ old.tabs[i].id = tab
    BY <1>1, <1>2, IndexOfIs
  <1>4. UpdateLocation(s, w, tab, location) = q
    <2>1. s = [windows |-> s.windows, nextWindow |-> s.nextWindow, nextTab |-> s.nextTab]
      BY <1>1
    <2>. QED BY <2>1 DEF UpdateLocation, Changed, WithWindow, WindowOf
  <1>5. old.tabs[i] \in StoredTab
    BY <1>1, <1>3, LenProperties
  <1>6. new \in StoredTab /\ new.id = tab
    BY <1>3, <1>5 DEF StoredTab
  <1>7. v = [old EXCEPT !.tabs = [old.tabs EXCEPT ![i] = new]]
    BY <1>1 DEF StoredWindow
  <1> DEFINE tabs == [old.tabs EXCEPT ![i] = new]
  <1>8. /\ tabs \in Seq(StoredTab) /\ Len(tabs) = Len(old.tabs)
        /\ Ids(tabs) = Ids(old.tabs) /\ DistinctIds(tabs)
    <2> HIDE DEF new, old
    <2>. QED BY <1>1, <1>2, <1>6, ReplacedIds
  <1> HIDE DEF tabs, new
  <1>9. /\ v.tabs = tabs /\ v.active = old.active /\ v.id = w
        /\ v \in StoredWindow
    BY <1>1, <1>7, <1>8 DEF StoredWindow, tabs
  <1> HIDE DEF v, q
  <1>10. SoundWindow(v, s.nextTab)
    <2>1. tabs = <<>> <=> old.tabs = <<>>
      <3>1. Len(tabs) = Len(old.tabs)
        BY <1>8
      <3> HIDE DEF old
      <3>. QED BY <1>1, <1>8, EmptySeq
    <2>. QED BY <1>1, <1>8, <1>9, <2>1 DEF SoundWindow
  <1>11. Ids(v.tabs) = TabsIn(s, w)
    BY <1>8, <1>9 DEF TabsIn
  <1>12. Effect(s, q, w, Ids(v.tabs)) /\ WindowOf(q, w) = v
    BY <1>9, <1>10, <1>11, WindowShrunk DEF q
  <1>13. q.nextTab = s.nextTab
    BY DEF q, WithWindow
  <1>. QED BY <1>4, <1>11, <1>12, <1>13 DEF v

LEMMA SetActiveIs ==
    ASSUME NEW s, SoundSession(s), NEW w \in Ids(s.windows), NEW tab \in TabsIn(s, w)
    PROVE  LET q == SetActive(s, w, tab)
           IN  /\ Effect(s, q, w, TabsIn(s, w)) /\ q.nextTab = s.nextTab
               /\ WindowOf(q, w) = [WindowOf(s, w) EXCEPT !.active = tab]
  <1> DEFINE old == WindowOf(s, w)
             v == [old EXCEPT !.active = tab]
             q == WithWindow(s, w, v, s.nextTab)
  <1>1. /\ old \in StoredWindow /\ old.id = w
        /\ old = s.windows[IndexOf(s.windows, w)]
        /\ IndexOf(s.windows, w) \in DOMAIN s.windows
        /\ old.tabs \in Seq(StoredTab) /\ DistinctIds(old.tabs)
        /\ SoundWindow(old, s.nextTab)
        /\ TabsIn(s, w) \subseteq 1 .. s.nextTab - 1
        /\ s.nextTab \in Nat \ {0}
        /\ s = [windows |-> s.windows, nextWindow |-> s.nextWindow, nextTab |-> s.nextTab]
    BY InWindow
  <1>2. tab \in Ids(old.tabs) /\ tab \in Nat
    BY <1>1 DEF TabsIn
  <1>3. SetActive(s, w, tab) = q
    BY <1>1 DEF SetActive, Changed, WithWindow
  <1>4. /\ v.tabs = old.tabs /\ v.active = tab /\ v.id = w
        /\ v \in StoredWindow
    BY <1>1, <1>2 DEF StoredWindow
  <1>5. old.tabs # <<>>
    <2>1. old.tabs = <<>> => Ids(old.tabs) = {}
      BY DEF Ids
    <2>. QED BY <1>2, <2>1
  <1> HIDE DEF v, q
  <1>6. SoundWindow(v, s.nextTab)
    BY <1>1, <1>2, <1>4, <1>5 DEF SoundWindow
  <1>7. Ids(v.tabs) = TabsIn(s, w)
    BY <1>4 DEF TabsIn
  <1>8. Effect(s, q, w, Ids(v.tabs)) /\ WindowOf(q, w) = v
    BY <1>4, <1>6, <1>7, WindowShrunk DEF q
  <1>9. q.nextTab = s.nextTab
    BY DEF q, WithWindow
  <1>. QED BY <1>3, <1>7, <1>8, <1>9 DEF v

LEMMA MoveBeforeIs ==
    ASSUME NEW s, SoundSession(s), NEW w \in Ids(s.windows),
           NEW tab \in TabsIn(s, w), NEW anchor \in TabsIn(s, w), tab # anchor
    PROVE  LET q == MoveBefore(s, w, tab, anchor)
               old == WindowOf(s, w)
               rest == RemoveAt(old.tabs, IndexOf(old.tabs, tab))
           IN  /\ Effect(s, q, w, TabsIn(s, w)) /\ q.nextTab = s.nextTab
               /\ WindowOf(q, w).active = old.active
               /\ WindowOf(q, w).tabs =
                      InsertAt(rest, IndexOf(rest, anchor), old.tabs[IndexOf(old.tabs, tab)])
  <1> DEFINE old == WindowOf(s, w)
             rest == RemoveAt(old.tabs, IndexOf(old.tabs, tab))
             p == IndexOf(rest, anchor)
             x == old.tabs[IndexOf(old.tabs, tab)]
             tabs == InsertAt(rest, p, x)
             v == [old EXCEPT !.tabs = tabs]
             q == WithWindow(s, w, v, s.nextTab)
  <1>1. /\ old \in StoredWindow /\ old.id = w
        /\ old = s.windows[IndexOf(s.windows, w)]
        /\ old.tabs \in Seq(StoredTab) /\ DistinctIds(old.tabs)
        /\ SoundWindow(old, s.nextTab)
        /\ s.nextTab \in Nat \ {0}
        /\ s = [windows |-> s.windows, nextWindow |-> s.nextWindow, nextTab |-> s.nextTab]
    BY InWindow
  <1>2. tab \in Ids(old.tabs) /\ anchor \in Ids(old.tabs)
    BY DEF TabsIn
  <1>3. MoveBefore(s, w, tab, anchor) = q
    <2>1. s = [windows |-> s.windows, nextWindow |-> s.nextWindow, nextTab |-> s.nextTab]
      BY <1>1
    <2>. QED BY <2>1 DEF MoveBefore, Changed, WithWindow, WindowOf
  <1> HIDE DEF old
  <1>4. x \in StoredTab /\ x.id = tab
    BY <1>1, <1>2, LookupIs DEF Lookup
  <1>5. /\ rest \in Seq(StoredTab) /\ Len(rest) = Len(old.tabs) - 1
        /\ Ids(rest) = Ids(old.tabs) \ {tab} /\ DistinctIds(rest)
    BY <1>1, <1>2, RemovedIds
  <1> HIDE DEF rest, x
  <1>6. p \in 1 .. Len(rest) /\ Len(rest) \in Nat
    BY <1>2, <1>5, IndexOfIs, LenProperties
  <1>7. p \in 1 .. Len(rest) + 1
    BY <1>6
  <1> HIDE DEF p
  <1>8. /\ tabs \in Seq(StoredTab) /\ Len(tabs) = Len(rest) + 1
        /\ Ids(tabs) = Ids(rest) \cup {x.id} /\ DistinctIds(tabs)
    BY <1>4, <1>5, <1>7, InsertedIds
  <1>9. Ids(tabs) = Ids(old.tabs) /\ Len(tabs) = Len(old.tabs)
    BY <1>1, <1>2, <1>4, <1>5, <1>8, LenProperties
  <1> HIDE DEF tabs
  <1>10. /\ v.tabs = tabs /\ v.active = old.active /\ v.id = w
         /\ v \in StoredWindow
    BY <1>1, <1>8 DEF StoredWindow
  <1> HIDE DEF v, q
  <1>11. SoundWindow(v, s.nextTab)
    <2>1. tabs = <<>> <=> old.tabs = <<>>
      BY <1>1, <1>8, <1>9, EmptySeq
    <2>. QED BY <1>1, <1>8, <1>9, <1>10, <2>1 DEF SoundWindow
  <1>12. Ids(v.tabs) = TabsIn(s, w)
    BY <1>9, <1>10 DEF TabsIn, old
  <1>13. Effect(s, q, w, Ids(v.tabs)) /\ WindowOf(q, w) = v
    BY <1>10, <1>11, <1>12, WindowShrunk DEF q
  <1>14. q.nextTab = s.nextTab
    BY DEF q, WithWindow
  <1>. QED BY <1>3, <1>10, <1>12, <1>13, <1>14 DEF v, tabs, p, rest, x, old

LEMMA RemoveTabIs ==
    ASSUME NEW s, SoundSession(s), NEW w \in Ids(s.windows), NEW tab \in TabsIn(s, w)
    PROVE  LET q == RemoveTab(s, w, tab)
               old == WindowOf(s, w)
           IN  /\ Effect(s, q, w, TabsIn(s, w) \ {tab}) /\ q.nextTab = s.nextTab
               /\ WindowOf(q, w).tabs = RemoveAt(old.tabs, IndexOf(old.tabs, tab))
  <1> DEFINE old == WindowOf(s, w)
             rest == RemoveAt(old.tabs, IndexOf(old.tabs, tab))
             active == CASE old.active # tab -> old.active
                         [] rest = <<>> -> 0
                         [] OTHER -> rest[1].id
             v == [old EXCEPT !.tabs = rest, !.active = active]
             q == WithWindow(s, w, v, s.nextTab)
  <1>1. /\ old \in StoredWindow /\ old.id = w
        /\ old = s.windows[IndexOf(s.windows, w)]
        /\ old.tabs \in Seq(StoredTab) /\ DistinctIds(old.tabs)
        /\ SoundWindow(old, s.nextTab)
        /\ s.nextTab \in Nat \ {0}
        /\ s = [windows |-> s.windows, nextWindow |-> s.nextWindow, nextTab |-> s.nextTab]
    BY InWindow
  <1>2. tab \in Ids(old.tabs)
    BY DEF TabsIn
  <1>3. RemoveTab(s, w, tab) = q
    <2>1. s = [windows |-> s.windows, nextWindow |-> s.nextWindow, nextTab |-> s.nextTab]
      BY <1>1
    <2>2. old.active = [old EXCEPT !.tabs = rest].active
      <3> HIDE DEF old, rest
      <3>. QED BY <1>1 DEF StoredWindow
    <2>3. RemoveTab(s, w, tab) = [s EXCEPT !.windows[IndexOf(s.windows, w)] = v]
      BY <2>2 DEF RemoveTab, Changed, WindowOf
    <2> HIDE DEF v
    <2>. QED BY <2>1, <2>3 DEF WithWindow
  <1> HIDE DEF old
  <1>4. /\ rest \in Seq(StoredTab) /\ Len(rest) = Len(old.tabs) - 1
        /\ Ids(rest) = Ids(old.tabs) \ {tab} /\ DistinctIds(rest)
    BY <1>1, <1>2, RemovedIds
  <1> HIDE DEF rest
  <1>5. /\ active \in Nat
        /\ IF rest = <<>> THEN active = 0 ELSE active \in Ids(rest)
    <2>1. old.tabs # <<>> /\ old.active \in Ids(old.tabs) /\ old.active \in Nat
      <3>1. old.tabs = <<>> => Ids(old.tabs) = {}
        BY DEF Ids
      <3>. QED BY <1>1, <1>2, <3>1 DEF SoundWindow, StoredWindow
    <2>2. rest = <<>> => Ids(rest) = {}
      BY DEF Ids
    <2>3. rest # <<>> => rest[1].id \in Ids(rest) /\ rest[1].id \in Nat
      <3> HAVE rest # <<>>
      <3>1. 1 \in DOMAIN rest /\ 1 \in 1 .. Len(rest)
        BY <1>4, EmptySeq, LenProperties
      <3>2. rest[1] \in StoredTab
        BY <1>4, <3>1, LenProperties
      <3>. QED BY <3>1, <3>2 DEF Ids, StoredTab
    <2>4. CASE old.active # tab
      BY <1>4, <2>1, <2>2, <2>4
    <2>5. CASE old.active = tab /\ rest = <<>>
      BY <2>5
    <2>6. CASE old.active = tab /\ rest # <<>>
      BY <2>3, <2>6
    <2>. QED BY <2>4, <2>5, <2>6
  <1> HIDE DEF active
  <1>6. /\ v.tabs = rest /\ v.active = active /\ v.id = w
        /\ v \in StoredWindow
    BY <1>1, <1>4, <1>5 DEF StoredWindow
  <1> HIDE DEF v, q
  <1>7. SoundWindow(v, s.nextTab)
    <2>1. Len(rest) <= MaxTabsPerWindow
      <3>1. Len(old.tabs) \in Nat /\ MaxTabsPerWindow \in Nat /\ Len(old.tabs) <= MaxTabsPerWindow
        BY <1>1, LenProperties, SessionConstants DEF SoundWindow
      <3>. QED BY <1>4, <3>1
    <2>. QED BY <1>1, <1>4, <1>5, <1>6, <2>1 DEF SoundWindow
  <1>8. Ids(v.tabs) = TabsIn(s, w) \ {tab}
    BY <1>4, <1>6 DEF TabsIn, old
  <1>9. Effect(s, q, w, Ids(v.tabs)) /\ WindowOf(q, w) = v
    BY <1>6, <1>7, <1>8, WindowShrunk DEF q
  <1>10. q.nextTab = s.nextTab
    BY DEF q, WithWindow
  <1>. QED BY <1>3, <1>6, <1>8, <1>9, <1>10 DEF rest, old

LEMMA RemoveWindowIs ==
    ASSUME NEW s, SoundSession(s), NEW w \in Ids(s.windows)
    PROVE  LET q == RemoveWindow(s, w)
           IN  /\ SoundSession(q) /\ Later(s, q) /\ q.nextTab = s.nextTab
               /\ Ids(q.windows) = Ids(s.windows) \ {w}
               /\ \A o \in Ids(q.windows) : WindowOf(q, o) = WindowOf(s, o)
  <1> DEFINE q == RemoveWindow(s, w)
  <1>1. /\ s.windows \in Seq(StoredWindow) /\ DistinctIds(s.windows)
        /\ s.nextWindow \in Nat \ {0} /\ s.nextTab \in Nat \ {0}
        /\ Len(s.windows) <= MaxSessionWindows
        /\ Ids(s.windows) \subseteq 1 .. s.nextWindow - 1
        /\ \A o \in Ids(s.windows) : SoundWindow(WindowOf(s, o), s.nextTab)
        /\ \A a, b \in Ids(s.windows) : a # b => TabsIn(s, a) \cap TabsIn(s, b) = {}
        /\ Cardinality(TabIds(s)) <= MaxSessionTabs
        /\ s = [windows |-> s.windows, nextWindow |-> s.nextWindow, nextTab |-> s.nextTab]
    BY InWindow DEF SoundSession, StoredSession
  <1>2. /\ q.windows = RemoveAt(s.windows, IndexOf(s.windows, w))
        /\ q.nextWindow = s.nextWindow /\ q.nextTab = s.nextTab
        /\ q = [windows |-> q.windows, nextWindow |-> q.nextWindow, nextTab |-> q.nextTab]
    BY <1>1 DEF RemoveWindow
  <1> HIDE DEF q
  <1>3. /\ q.windows \in Seq(StoredWindow) /\ Len(q.windows) = Len(s.windows) - 1
        /\ Ids(q.windows) = Ids(s.windows) \ {w} /\ DistinctIds(q.windows)
        /\ \A o \in Ids(s.windows) \ {w} : WindowOf(q, o) = WindowOf(s, o)
    BY <1>1, <1>2, RemovedIds, WindowOfIs
  <1>4. q \in StoredSession
    BY <1>1, <1>2, <1>3 DEF StoredSession
  <1>5. \A o \in Ids(q.windows) : /\ o \in Ids(s.windows) /\ WindowOf(q, o) = WindowOf(s, o)
                                  /\ TabsIn(q, o) = TabsIn(s, o)
    BY <1>3 DEF TabsIn
  <1>6. TabIds(q) \subseteq TabIds(s) /\ IsFiniteSet(TabIds(s))
    <2>1. \A x \in TabIds(q) : \E o \in Ids(q.windows) : x \in TabsIn(q, o)
      BY <1>3, TabIdsAre
    <2>2. \A o \in Ids(s.windows) : TabsIn(s, o) \subseteq TabIds(s)
      BY <1>1, TabIdsAre
    <2>3. IsFiniteSet(TabIds(s))
      BY <1>1, TabIdsAre
    <2>. QED BY <1>5, <2>1, <2>2, <2>3
  <1>7. Cardinality(TabIds(q)) <= MaxSessionTabs
    <2>1. IsFiniteSet(TabIds(q)) /\ Cardinality(TabIds(q)) <= Cardinality(TabIds(s))
      BY <1>6, FS_Subset
    <2>2. Cardinality(TabIds(q)) \in Nat /\ Cardinality(TabIds(s)) \in Nat
      BY <1>6, <2>1, FS_CardinalityType
    <2>. QED BY <1>1, <2>1, <2>2, SessionConstants
  <1>8. Len(q.windows) <= MaxSessionWindows
    <2>1. Len(s.windows) \in Nat /\ MaxSessionWindows \in Nat
      BY <1>1, LenProperties, SessionConstants
    <2>. QED BY <1>1, <1>3, <2>1
  <1>9. SoundSession(q)
    BY <1>1, <1>2, <1>3, <1>4, <1>5, <1>7, <1>8 DEF SoundSession
  <1>10. Later(s, q)
    BY <1>1, <1>2, <1>6 DEF Later
  <1>. QED BY <1>2, <1>3, <1>5, <1>9, <1>10 DEF q

LEMMA AddWindowIs ==
    ASSUME NEW s, SoundSession(s), CanAddWindow(s)
    PROVE  LET q == AddWindow(s)
           IN  /\ SoundSession(q) /\ Later(s, q) /\ q.nextTab = s.nextTab
               /\ s.nextWindow \notin Ids(s.windows)
               /\ Ids(q.windows) = Ids(s.windows) \cup {s.nextWindow}
               /\ TabsIn(q, s.nextWindow) = {}
               /\ WindowOf(q, s.nextWindow) = SessionWindow(s.nextWindow)
               /\ \A o \in Ids(s.windows) : WindowOf(q, o) = WindowOf(s, o)
  <1> DEFINE q == AddWindow(s)
             w == s.nextWindow
             v == SessionWindow(w)
  <1>1. /\ s.windows \in Seq(StoredWindow) /\ DistinctIds(s.windows)
        /\ s.nextWindow \in Nat \ {0} /\ s.nextTab \in Nat \ {0}
        /\ Ids(s.windows) \subseteq 1 .. s.nextWindow - 1
        /\ \A o \in Ids(s.windows) : SoundWindow(WindowOf(s, o), s.nextTab)
        /\ \A a, b \in Ids(s.windows) : a # b => TabsIn(s, a) \cap TabsIn(s, b) = {}
        /\ Cardinality(TabIds(s)) <= MaxSessionTabs
        /\ s = [windows |-> s.windows, nextWindow |-> s.nextWindow, nextTab |-> s.nextTab]
    BY DEF SoundSession, StoredSession
  <1>2. /\ q.windows = Append(s.windows, v)
        /\ q.nextWindow = w + 1 /\ q.nextTab = s.nextTab
        /\ q = [windows |-> q.windows, nextWindow |-> q.nextWindow, nextTab |-> q.nextTab]
    <2> HIDE DEF v
    <2>1. q = [s EXCEPT !.windows = Append(@, v), !.nextWindow = @ + 1]
      BY DEF AddWindow, v
    <2>2. PICK a, b, c : s = [windows |-> a, nextWindow |-> b, nextTab |-> c]
      BY <1>1
    <2>3. q = [windows |-> Append(a, v), nextWindow |-> b + 1, nextTab |-> c]
      BY <2>1, <2>2
    <2> HIDE DEF q
    <2>. QED BY <2>2, <2>3
  <1>3. /\ v \in StoredWindow /\ v.id = w /\ v.tabs = <<>> /\ v.active = 0
    BY <1>1 DEF SessionWindow, StoredWindow
  <1>4. w \notin Ids(s.windows)
    BY <1>1
  <1> HIDE DEF q, v, w
  <1>5. /\ q.windows \in Seq(StoredWindow) /\ Len(q.windows) = Len(s.windows) + 1
        /\ Ids(q.windows) = Ids(s.windows) \cup {w} /\ DistinctIds(q.windows)
        /\ WindowOf(q, w) = v
        /\ \A o \in Ids(s.windows) : WindowOf(q, o) = WindowOf(s, o)
    <2> DEFINE seq == Append(s.windows, v)
    <2>1. /\ seq \in Seq(StoredWindow) /\ Len(seq) = Len(s.windows) + 1
          /\ Ids(seq) = Ids(s.windows) \cup {w} /\ DistinctIds(seq)
          /\ Lookup(seq, w) = v
          /\ \A o \in Ids(s.windows) : Lookup(seq, o) = Lookup(s.windows, o)
      BY <1>1, <1>3, <1>4, AppendedIds
    <2> HIDE DEF seq
    <2>2. q.windows = seq
      BY <1>2 DEF seq
    <2>. QED BY <2>1, <2>2, WindowOfIs
  <1>6. q \in StoredSession
    <2>1. w + 1 \in Nat /\ s.nextTab \in Nat
      BY <1>1 DEF w
    <2>2. q.windows \in Seq(StoredWindow) /\ q.nextWindow \in Nat /\ q.nextTab \in Nat
      BY <1>2, <1>5, <2>1
    <2>3. q = [windows |-> q.windows, nextWindow |-> q.nextWindow, nextTab |-> q.nextTab]
      BY <1>2
    <2>. QED BY <2>2, <2>3 DEF StoredSession
  <1>7. Ids(<<>>) = {}
    BY DEF Ids
  <1>8. TabsIn(q, w) = {} /\ \A o \in Ids(s.windows) : TabsIn(q, o) = TabsIn(s, o)
    BY <1>3, <1>5, <1>7 DEF TabsIn
  <1>9. SoundWindow(v, s.nextTab)
    <2>1. DistinctIds(<<>>) /\ Len(<<>>) = 0
      BY DEF DistinctIds
    <2>2. 0 <= MaxTabsPerWindow
      BY SessionConstants
    <2>. QED BY <1>3, <1>7, <2>1, <2>2 DEF SoundWindow
  <1>10. TabIds(q) \subseteq TabIds(s) /\ IsFiniteSet(TabIds(s))
    <2>1. \A x \in TabIds(q) : \E o \in Ids(q.windows) : x \in TabsIn(q, o)
      BY <1>5, TabIdsAre
    <2>2. \A o \in Ids(s.windows) : TabsIn(s, o) \subseteq TabIds(s)
      BY <1>1, TabIdsAre
    <2>3. IsFiniteSet(TabIds(s))
      BY <1>1, TabIdsAre
    <2>. QED BY <1>5, <1>8, <2>1, <2>2, <2>3
  <1>11. Cardinality(TabIds(q)) <= MaxSessionTabs
    <2>1. IsFiniteSet(TabIds(q)) /\ Cardinality(TabIds(q)) <= Cardinality(TabIds(s))
      BY <1>10, FS_Subset
    <2>2. Cardinality(TabIds(q)) \in Nat /\ Cardinality(TabIds(s)) \in Nat
      BY <1>10, <2>1, FS_CardinalityType
    <2>. QED BY <1>1, <2>1, <2>2, SessionConstants
  <1>12. Len(q.windows) <= MaxSessionWindows
    <2>1. Len(s.windows) \in Nat /\ MaxSessionWindows \in Nat
      BY <1>1, LenProperties, SessionConstants
    <2>. QED BY <1>5, <2>1 DEF CanAddWindow
  <1>13. \A o \in Ids(q.windows) : SoundWindow(WindowOf(q, o), q.nextTab)
    BY <1>1, <1>2, <1>5, <1>9
  <1>14. \A a, b \in Ids(q.windows) : a # b => TabsIn(q, a) \cap TabsIn(q, b) = {}
    BY <1>1, <1>5, <1>8
  <1>15. SoundSession(q)
    <2>1. Ids(q.windows) \subseteq 1 .. q.nextWindow - 1 /\ q.nextWindow \in Nat \ {0}
      BY <1>1, <1>2, <1>5 DEF w
    <2>. QED BY <1>1, <1>2, <1>5, <1>6, <1>11, <1>12, <1>13, <1>14, <2>1 DEF SoundSession
  <1>16. Later(s, q)
    BY <1>1, <1>2, <1>10 DEF Later
  <1>. QED BY <1>2, <1>4, <1>5, <1>8, <1>15, <1>16 DEF q, w, v

-----------------------------------------------------------------------------
(* One synchronisation: what its copies keep to, at every step.            *)

LEMMA LaterSelf ==
    ASSUME NEW s, SoundSession(s)
    PROVE  Later(s, s)
  BY DEF Later, SoundSession

LEMMA LaterTrans ==
    ASSUME NEW a, NEW b, NEW c, SoundSession(a), SoundSession(b), SoundSession(c),
           Later(a, b), Later(b, c)
    PROVE  Later(a, c)
  <1>1. /\ a.nextTab \in Nat /\ b.nextTab \in Nat /\ c.nextTab \in Nat
        /\ a.nextTab <= b.nextTab /\ b.nextTab <= c.nextTab
    BY DEF SoundSession, Later
  <1>2. TabIds(c) \subseteq Nat
    BY SoundIsValid DEF Valid
  <1>. QED BY <1>1, <1>2 DEF Later

\* The windows and tabs bound are those of the session, one to one.
Covers(s, ws, ts) ==
    /\ \A v, w \in DOMAIN ws : ws[v] = ws[w] => v = w
    /\ \A a, b \in DOMAIN ts : ts[a] = ts[b] => a = b
    /\ \A w \in DOMAIN ws : ws[w] \in Ids(s.windows)
    /\ \A id \in Ids(s.windows) : \E w \in DOMAIN ws : ws[w] = id
    /\ \A b \in DOMAIN ts :
          b = <<b[1], b[2]>> /\ b[1] \in DOMAIN ws /\ ts[b] \in TabsIn(s, ws[b[1]])
    /\ \A w \in DOMAIN ws : \A x \in TabsIn(s, ws[w]) :
          \E b \in DOMAIN ts : b[1] = w /\ ts[b] = x

Matches(k) ==
    /\ k = [ok |-> k.ok, session |-> k.session, windows |-> k.windows, tabs |-> k.tabs]
    /\ k.ok \in BOOLEAN
    /\ SoundSession(k.session)
    /\ Covers(k.session, k.windows, k.tabs)

\* k became q, and the windows and tabs bound are now ws and bs.
Moved(k, q, ws, bs) ==
    /\ Matches(q) /\ Later(k.session, q.session)
    /\ DOMAIN q.windows = ws /\ DOMAIN q.tabs = bs

LEMMA CoversAfter ==
    ASSUME NEW s, NEW ws, NEW ts, Covers(s, ws, ts), NEW w \in DOMAIN ws,
           NEW q, NEW ids, Effect(s, q, ws[w], ids), NEW tn,
           \A b \in DOMAIN ts : b[1] # w => b \in DOMAIN tn /\ tn[b] = ts[b],
           \A b \in DOMAIN tn : b[1] # w => b \in DOMAIN ts,
           \A b \in DOMAIN tn : b = <<b[1], b[2]>> /\ (b[1] = w => tn[b] \in ids),
           \A a, b \in DOMAIN tn : a[1] = w /\ b[1] = w /\ tn[a] = tn[b] => a = b,
           \A x \in ids : \E b \in DOMAIN tn : b[1] = w /\ tn[b] = x
    PROVE  Covers(q, ws, tn)
  <1>1. /\ \A v, o \in DOMAIN ws : ws[v] = ws[o] => v = o
        /\ \A v \in DOMAIN ws : ws[v] \in Ids(s.windows)
        /\ \A id \in Ids(s.windows) : \E v \in DOMAIN ws : ws[v] = id
    BY DEF Covers
  <1>2. /\ Ids(q.windows) = Ids(s.windows)
        /\ TabsIn(q, ws[w]) = ids
        /\ \A o \in Ids(q.windows) \ {ws[w]} : TabsIn(q, o) = TabsIn(s, o)
        /\ \A a, b \in Ids(q.windows) : a # b => TabsIn(q, a) \cap TabsIn(q, b) = {}
    BY DEF Effect, SoundSession, TabsIn
  <1>3. \A v \in DOMAIN ws : v # w => TabsIn(q, ws[v]) = TabsIn(s, ws[v])
    BY <1>1, <1>2
  <1>4. \A b \in DOMAIN tn :
          b = <<b[1], b[2]>> /\ b[1] \in DOMAIN ws /\ tn[b] \in TabsIn(q, ws[b[1]])
    <2> TAKE b \in DOMAIN tn
    <2>1. CASE b[1] = w
      BY <1>2, <2>1
    <2>2. CASE b[1] # w
      <3>1. b \in DOMAIN ts /\ tn[b] = ts[b]
        BY <2>2
      <3>2. b[1] \in DOMAIN ws /\ ts[b] \in TabsIn(s, ws[b[1]])
        BY <3>1 DEF Covers
      <3>. QED BY <1>3, <2>2, <3>1, <3>2
    <2>. QED BY <2>1, <2>2
  <1>5. \A a, b \in DOMAIN tn : tn[a] = tn[b] => a = b
    <2> SUFFICES ASSUME NEW a \in DOMAIN tn, NEW b \in DOMAIN tn, tn[a] = tn[b]
                 PROVE  a = b
      OBVIOUS
    <2>1. a[1] = b[1]
      BY <1>1, <1>2, <1>4
    <2>2. CASE a[1] = w
      BY <2>1, <2>2
    <2>3. CASE a[1] # w
      <3>1. a \in DOMAIN ts /\ b \in DOMAIN ts /\ ts[a] = ts[b]
        BY <2>1, <2>3
      <3>. QED BY <3>1 DEF Covers
    <2>. QED BY <2>2, <2>3
  <1>6. ASSUME NEW v \in DOMAIN ws, NEW x \in TabsIn(q, ws[v])
        PROVE  \E b \in DOMAIN tn : b[1] = v /\ tn[b] = x
    <2>1. CASE v = w
      BY <1>2, <2>1
    <2>2. CASE v # w
      <3>1. x \in TabsIn(s, ws[v])
        BY <1>3, <2>2
      <3>2. PICK b \in DOMAIN ts : b[1] = v /\ ts[b] = x
        BY <3>1 DEF Covers
      <3>. QED BY <2>2, <3>2
    <2>. QED BY <2>1, <2>2
  <1>. QED BY <1>1, <1>2, <1>4, <1>5, <1>6 DEF Covers

LEMMA WindowDroppedIs ==
    ASSUME NEW k, Matches(k), NEW w \in DOMAIN k.windows
    PROVE  LET q == WindowDropped(k, w)
           IN  /\ q.ok = k.ok
               /\ Moved(k, q, DOMAIN k.windows \ {w}, {b \in DOMAIN k.tabs : b[1] # w})
               /\ \A o \in DOMAIN q.windows : q.windows[o] = k.windows[o]
               /\ \A b \in DOMAIN q.tabs : q.tabs[b] = k.tabs[b]
  <1> DEFINE q == WindowDropped(k, w)
             s == k.session
             r == RemoveWindow(s, k.windows[w])
             ws == Without(k.windows, {w})
             ts == Without(k.tabs, BoundIn(k, w))
  <1>1. SoundSession(s) /\ Covers(s, k.windows, k.tabs) /\ k.windows[w] \in Ids(s.windows)
    BY DEF Matches, Covers
  <1>2. /\ SoundSession(r) /\ Later(s, r)
        /\ Ids(r.windows) = Ids(s.windows) \ {k.windows[w]}
        /\ \A o \in Ids(r.windows) : WindowOf(r, o) = WindowOf(s, o)
    BY <1>1, RemoveWindowIs
  <1>3. q = [ok |-> k.ok, session |-> r, windows |-> ws, tabs |-> ts]
    <2>1. PICK a, b, c, d : k = [ok |-> a, session |-> b, windows |-> c, tabs |-> d]
      BY DEF Matches
    <2> HIDE DEF r, ws, ts
    <2>2. q = [k EXCEPT !.session = r, !.windows = ws, !.tabs = ts]
      BY <2>1 DEF WindowDropped, r, ws, ts
    <2>. QED BY <2>1, <2>2
  <1>4. /\ DOMAIN ws = DOMAIN k.windows \ {w}
        /\ DOMAIN ts = {b \in DOMAIN k.tabs : b[1] # w}
        /\ \A o \in DOMAIN ws : ws[o] = k.windows[o]
        /\ \A b \in DOMAIN ts : ts[b] = k.tabs[b]
    BY DEF Without, BoundIn
  <1>5. \A o \in Ids(r.windows) : TabsIn(r, o) = TabsIn(s, o)
    BY <1>2 DEF TabsIn
  <1> HIDE DEF q, r, ws, ts, s
  <1>6. \A o \in DOMAIN ws : ws[o] \in Ids(r.windows)
    BY <1>1, <1>2, <1>4 DEF Covers
  <1>7. Covers(r, ws, ts)
    <2>1. \A id \in Ids(r.windows) : \E o \in DOMAIN ws : ws[o] = id
      BY <1>1, <1>2, <1>4 DEF Covers
    <2>2. \A b \in DOMAIN ts :
            b = <<b[1], b[2]>> /\ b[1] \in DOMAIN ws /\ ts[b] \in TabsIn(r, ws[b[1]])
      BY <1>1, <1>4, <1>5, <1>6 DEF Covers
    <2>3. ASSUME NEW o \in DOMAIN ws, NEW x \in TabsIn(r, ws[o])
          PROVE  \E b \in DOMAIN ts : b[1] = o /\ ts[b] = x
      <3>1. o \in DOMAIN k.windows /\ o # w /\ x \in TabsIn(s, k.windows[o])
        BY <1>4, <1>5, <1>6
      <3>2. PICK b \in DOMAIN k.tabs : b[1] = o /\ k.tabs[b] = x
        BY <1>1, <3>1 DEF Covers
      <3>. QED BY <1>4, <3>1, <3>2
    <2>4. /\ \A v, o \in DOMAIN ws : ws[v] = ws[o] => v = o
          /\ \A a, b \in DOMAIN ts : ts[a] = ts[b] => a = b
      BY <1>1, <1>4 DEF Covers
    <2>. QED BY <1>6, <2>1, <2>2, <2>3, <2>4 DEF Covers
  <1>8. k.ok \in BOOLEAN
    BY DEF Matches
  <1>9. Matches(q)
    BY <1>2, <1>3, <1>7, <1>8 DEF Matches
  <1>. QED BY <1>2, <1>3, <1>4, <1>9 DEF Moved, q, s

LEMMA WindowBoundIs ==
    ASSUME NEW k, Matches(k), NEW w
    PROVE  LET q == WindowBound(k, w)
           IN  IF w \in DOMAIN k.windows \/ CanAddWindow(k.session)
               THEN /\ Moved(k, q, DOMAIN k.windows \cup {w}, DOMAIN k.tabs)
                    /\ q.ok = k.ok
                    /\ \A o \in DOMAIN k.windows : q.windows[o] = k.windows[o]
                    /\ q.tabs = k.tabs
               ELSE Moved(k, q, DOMAIN k.windows, DOMAIN k.tabs) /\ ~q.ok
  <1> DEFINE q == WindowBound(k, w)
             s == k.session
             r == AddWindow(s)
             new == s.nextWindow
             ws == With(k.windows, w, new)
  <1>1. SoundSession(s) /\ Covers(s, k.windows, k.tabs) /\ k.ok \in BOOLEAN
    BY DEF Matches
  <1>2. PICK a, b, c, d : k = [ok |-> a, session |-> b, windows |-> c, tabs |-> d]
    BY DEF Matches
  <1>3. CASE w \in DOMAIN k.windows
    <2>1. q = k
      BY <1>3 DEF WindowBound
    <2>2. Later(s, s)
      BY <1>1, LaterSelf
    <2> HIDE DEF q
    <2>3. Moved(k, q, DOMAIN k.windows \cup {w}, DOMAIN k.tabs)
      BY <1>3, <2>1, <2>2 DEF Moved
    <2>. QED BY <1>3, <2>1, <2>3 DEF q
  <1>4. CASE w \notin DOMAIN k.windows /\ ~CanAddWindow(s)
    <2>1. q = [k EXCEPT !.ok = FALSE]
      BY <1>4 DEF WindowBound
    <2>2. Later(s, s)
      BY <1>1, LaterSelf
    <2> HIDE DEF q
    <2>3. /\ q = [ok |-> FALSE, session |-> s, windows |-> k.windows, tabs |-> k.tabs]
      BY <1>2, <2>1
    <2> HIDE DEF s
    <2>4. Matches(q)
      BY <1>1, <2>3 DEF Matches
    <2>5. Moved(k, q, DOMAIN k.windows, DOMAIN k.tabs) /\ ~q.ok
      BY <2>2, <2>3, <2>4 DEF Moved, s
    <2>. QED BY <1>4, <2>5 DEF q, s
  <1>5. CASE w \notin DOMAIN k.windows /\ CanAddWindow(s)
    <2>1. /\ SoundSession(r) /\ Later(s, r)
          /\ new \notin Ids(s.windows)
          /\ Ids(r.windows) = Ids(s.windows) \cup {new}
          /\ TabsIn(r, new) = {}
          /\ \A o \in Ids(s.windows) : WindowOf(r, o) = WindowOf(s, o)
      BY <1>1, <1>5, AddWindowIs
    <2>2. q = [ok |-> k.ok, session |-> r, windows |-> ws, tabs |-> k.tabs]
      <3> HIDE DEF r, ws
      <3>1. q = [k EXCEPT !.session = r, !.windows = ws]
        BY <1>2, <1>5 DEF WindowBound, r, ws
      <3>. QED BY <1>2, <3>1
    <2>3. /\ DOMAIN ws = DOMAIN k.windows \cup {w} /\ ws[w] = new
          /\ \A o \in DOMAIN k.windows : ws[o] = k.windows[o] /\ o # w
      BY <1>5 DEF With
    <2>4. \A o \in Ids(s.windows) : TabsIn(r, o) = TabsIn(s, o)
      BY <2>1 DEF TabsIn
    <2> HIDE DEF q, r, ws, s, new
    <2>5. Covers(r, ws, k.tabs)
      <3>1. \A o \in DOMAIN k.windows : ws[o] \in Ids(s.windows)
        BY <1>1, <2>3 DEF Covers
      <3>2. \A v, o \in DOMAIN ws : ws[v] = ws[o] => v = o
        BY <1>1, <2>1, <2>3, <3>1 DEF Covers
      <3>3. \A o \in DOMAIN ws : ws[o] \in Ids(r.windows)
        BY <2>1, <2>3, <3>1
      <3>4. \A id \in Ids(r.windows) : \E o \in DOMAIN ws : ws[o] = id
        <4> TAKE id \in Ids(r.windows)
        <4>1. CASE id = new
          BY <2>3, <4>1
        <4>2. CASE id # new
          <5>1. PICK o \in DOMAIN k.windows : k.windows[o] = id
            BY <1>1, <2>1, <4>2 DEF Covers
          <5>. QED BY <2>3, <5>1
        <4>. QED BY <4>1, <4>2
      <3>5. \A x \in DOMAIN k.tabs :
              /\ x = <<x[1], x[2]>> /\ x[1] \in DOMAIN ws
              /\ k.tabs[x] \in TabsIn(r, ws[x[1]])
        BY <1>1, <2>3, <2>4, <3>1 DEF Covers
      <3>6. ASSUME NEW o \in DOMAIN ws, NEW x \in TabsIn(r, ws[o])
            PROVE  \E y \in DOMAIN k.tabs : y[1] = o /\ k.tabs[y] = x
        <4>1. o # w
          BY <2>1, <2>3
        <4>2. o \in DOMAIN k.windows /\ x \in TabsIn(s, k.windows[o])
          BY <2>3, <2>4, <3>1, <4>1
        <4>. QED BY <1>1, <4>2 DEF Covers
      <3>7. \A x, y \in DOMAIN k.tabs : k.tabs[x] = k.tabs[y] => x = y
        BY <1>1 DEF Covers
      <3>. QED BY <3>2, <3>3, <3>4, <3>5, <3>6, <3>7 DEF Covers
    <2>6. Matches(q)
      BY <1>1, <2>1, <2>2, <2>5 DEF Matches
    <2>7. Moved(k, q, DOMAIN k.windows \cup {w}, DOMAIN k.tabs)
      BY <2>1, <2>2, <2>3, <2>6 DEF Moved, s
    <2>. QED BY <1>5, <2>2, <2>3, <2>7 DEF q, s
  <1>. QED BY <1>3, <1>4, <1>5

\* A bound tab is one of the window its window is bound to.
LEMMA BoundTab ==
    ASSUME NEW k, Matches(k), NEW b \in DOMAIN k.tabs
    PROVE  /\ b = <<b[1], b[2]>> /\ b[1] \in DOMAIN k.windows
           /\ k.windows[b[1]] \in Ids(k.session.windows)
           /\ k.tabs[b] \in TabsIn(k.session, k.windows[b[1]])
  BY DEF Matches, Covers

LEMMA TabDroppedIs ==
    ASSUME NEW k, Matches(k), NEW b \in DOMAIN k.tabs
    PROVE  LET q == TabDropped(k, b)
           IN  /\ Moved(k, q, DOMAIN k.windows, DOMAIN k.tabs \ {b})
               /\ q.ok = k.ok /\ q.windows = k.windows
               /\ \A c \in DOMAIN q.tabs : q.tabs[c] = k.tabs[c]
  <1> DEFINE q == TabDropped(k, b)
             s == k.session
             w == b[1]
             id == k.windows[w]
             r == RemoveTab(s, id, k.tabs[b])
             ts == Without(k.tabs, {b})
  <1>1. SoundSession(s) /\ Covers(s, k.windows, k.tabs) /\ k.ok \in BOOLEAN
    BY DEF Matches
  <1>2. /\ b = <<b[1], b[2]>> /\ w \in DOMAIN k.windows
        /\ id \in Ids(s.windows) /\ k.tabs[b] \in TabsIn(s, id)
    BY BoundTab
  <1>3. Effect(s, r, id, TabsIn(s, id) \ {k.tabs[b]})
    BY <1>1, <1>2, RemoveTabIs
  <1>4. q = [ok |-> k.ok, session |-> r, windows |-> k.windows, tabs |-> ts]
    <2>1. PICK x, y, z, u : k = [ok |-> x, session |-> y, windows |-> z, tabs |-> u]
      BY DEF Matches
    <2> HIDE DEF r, ts
    <2>2. q = [k EXCEPT !.session = r, !.tabs = ts]
      BY <2>1 DEF TabDropped, r, ts
    <2>. QED BY <2>1, <2>2
  <1>5. DOMAIN ts = DOMAIN k.tabs \ {b} /\ \A c \in DOMAIN ts : ts[c] = k.tabs[c]
    BY DEF Without
  <1> DEFINE ids == TabsIn(s, id) \ {k.tabs[b]}
  <1>6. /\ \A c, d \in DOMAIN k.tabs : k.tabs[c] = k.tabs[d] => c = d
        /\ \A c \in DOMAIN k.tabs :
              c = <<c[1], c[2]>> /\ k.tabs[c] \in TabsIn(s, k.windows[c[1]])
        /\ \A x \in TabsIn(s, id) : \E c \in DOMAIN k.tabs : c[1] = w /\ k.tabs[c] = x
    BY <1>1, <1>2 DEF Covers
  <1>7. \A c \in DOMAIN ts : c[1] = w => ts[c] \in ids
    BY <1>5, <1>6
  <1>8. \A x \in ids : \E c \in DOMAIN ts : c[1] = w /\ ts[c] = x
    <2> TAKE x \in ids
    <2>1. PICK c \in DOMAIN k.tabs : c[1] = w /\ k.tabs[c] = x
      BY <1>6
    <2>. QED BY <1>5, <2>1
  <1> HIDE DEF q, r, ts
  <1>9. Effect(s, r, k.windows[w], ids)
    BY <1>3
  <1>10. Covers(r, k.windows, ts)
    <2>1. \A c \in DOMAIN k.tabs : c[1] # w => c \in DOMAIN ts /\ ts[c] = k.tabs[c]
      BY <1>5
    <2>2. \A c \in DOMAIN ts : c[1] # w => c \in DOMAIN k.tabs
      BY <1>5
    <2>3. \A c \in DOMAIN ts : c = <<c[1], c[2]>> /\ (c[1] = w => ts[c] \in ids)
      BY <1>5, <1>6, <1>7
    <2>4. \A c, d \in DOMAIN ts : c[1] = w /\ d[1] = w /\ ts[c] = ts[d] => c = d
      BY <1>5, <1>6
    <2> HIDE DEF ids, s, w, id
    <2>. QED BY <1>1, <1>2, <1>8, <1>9, <2>1, <2>2, <2>3, <2>4, CoversAfter
  <1> HIDE DEF s
  <1>11. Matches(q)
    BY <1>1, <1>4, <1>9, <1>10 DEF Matches, Effect
  <1>. QED BY <1>4, <1>5, <1>9, <1>11 DEF Moved, Effect, q, s

\* An operation that leaves a window the tabs it has leaves the bindings true.
LEMMA CoversStill ==
    ASSUME NEW s, NEW ws, NEW ts, Covers(s, ws, ts), NEW w \in DOMAIN ws,
           NEW q, Effect(s, q, ws[w], TabsIn(s, ws[w]))
    PROVE  Covers(q, ws, ts)
  <1>1. /\ \A c, d \in DOMAIN ts : ts[c] = ts[d] => c = d
        /\ \A c \in DOMAIN ts : c = <<c[1], c[2]>> /\ ts[c] \in TabsIn(s, ws[c[1]])
        /\ \A x \in TabsIn(s, ws[w]) : \E c \in DOMAIN ts : c[1] = w /\ ts[c] = x
    BY DEF Covers
  <1> DEFINE ids == TabsIn(s, ws[w])
  <1>2. /\ Effect(s, q, ws[w], ids)
        /\ \A c \in DOMAIN ts : c = <<c[1], c[2]>> /\ (c[1] = w => ts[c] \in ids)
        /\ \A x \in ids : \E c \in DOMAIN ts : c[1] = w /\ ts[c] = x
    BY <1>1
  <1> HIDE DEF ids
  <1>. QED BY <1>1, <1>2, CoversAfter

\* k with another session.
WithSession(k, r) == [ok |-> k.ok, session |-> r, windows |-> k.windows, tabs |-> k.tabs]

LEMMA SessionMoved ==
    ASSUME NEW k, Matches(k), NEW w \in DOMAIN k.windows, NEW r,
           Effect(k.session, r, k.windows[w], TabsIn(k.session, k.windows[w]))
    PROVE  LET q == [k EXCEPT !.session = r]
           IN  /\ q = WithSession(k, r)
               /\ Moved(k, WithSession(k, r), DOMAIN k.windows, DOMAIN k.tabs)
  <1> DEFINE q == WithSession(k, r)
  <1>1. PICK x, y, z, u : k = [ok |-> x, session |-> y, windows |-> z, tabs |-> u]
    BY DEF Matches
  <1>2. q = [k EXCEPT !.session = r]
    BY <1>1 DEF WithSession
  <1>3. Covers(r, k.windows, k.tabs)
    BY CoversStill DEF Matches
  <1>4. /\ q = [ok |-> q.ok, session |-> q.session, windows |-> q.windows, tabs |-> q.tabs]
        /\ q.ok = k.ok /\ q.session = r /\ q.windows = k.windows /\ q.tabs = k.tabs
    BY DEF WithSession
  <1> HIDE DEF q
  <1>5. Matches(q)
    BY <1>3, <1>4 DEF Matches, Effect
  <1>. QED BY <1>2, <1>4, <1>5 DEF Moved, Effect, q

LEMMA TabBoundIs ==
    ASSUME NEW k, Matches(k), NEW w \in DOMAIN k.windows, NEW t,
           CurrentLocation(pages[t]) \in Location
    PROVE  LET q == TabBound(k, w, t)
               bound == <<w, t>> \in DOMAIN k.tabs \/ CanAddTab(k.session, k.windows[w])
           IN  /\ Moved(k, q, DOMAIN k.windows,
                        IF bound THEN DOMAIN k.tabs \cup {<<w, t>>} ELSE DOMAIN k.tabs)
               /\ q.ok = (bound /\ k.ok) /\ q.windows = k.windows
               /\ \A c \in DOMAIN k.tabs : q.tabs[c] = k.tabs[c]
  <1> DEFINE q == TabBound(k, w, t)
             s == k.session
             id == k.windows[w]
             location == CurrentLocation(pages[t])
             b == <<w, t>>
  <1>1. /\ SoundSession(s) /\ Covers(s, k.windows, k.tabs) /\ k.ok \in BOOLEAN
        /\ id \in Ids(s.windows)
    BY DEF Matches, Covers
  <1>2. PICK x, y, z, u : k = [ok |-> x, session |-> y, windows |-> z, tabs |-> u]
    BY DEF Matches
  <1>3. CASE b \in DOMAIN k.tabs
    <2> DEFINE r == UpdateLocation(s, id, k.tabs[b], location)
    <2>1. k.tabs[b] \in TabsIn(s, id)
      BY <1>3, BoundTab
    <2>2. Effect(s, r, id, TabsIn(s, id))
      BY <1>1, <2>1, UpdateLocationIs
    <2>3. q = [k EXCEPT !.session = r]
      BY <1>3 DEF TabBound
    <2> HIDE DEF q, r
    <2>4. /\ Moved(k, q, DOMAIN k.windows, DOMAIN k.tabs)
          /\ q.ok = k.ok /\ q.windows = k.windows /\ q.tabs = k.tabs
      <3>1. q = WithSession(k, r) /\ Moved(k, WithSession(k, r), DOMAIN k.windows, DOMAIN k.tabs)
        BY <2>2, <2>3, SessionMoved
      <3>. QED BY <3>1 DEF WithSession
    <2>5. DOMAIN k.tabs = DOMAIN k.tabs \cup {b}
      BY <1>3
    <2>. QED BY <1>1, <1>3, <2>4, <2>5 DEF q
  <1>4. CASE b \notin DOMAIN k.tabs /\ ~CanAddTab(s, id)
    <2>1. q = [k EXCEPT !.ok = FALSE]
      BY <1>4 DEF TabBound
    <2>2. Later(s, s)
      BY <1>1, LaterSelf
    <2> HIDE DEF q
    <2>3. q = [ok |-> FALSE, session |-> s, windows |-> k.windows, tabs |-> k.tabs]
      BY <1>2, <2>1
    <2> HIDE DEF s
    <2>4. Matches(q)
      BY <1>1, <2>3 DEF Matches
    <2>5. Moved(k, q, DOMAIN k.windows, DOMAIN k.tabs) /\ q.ok = FALSE
      BY <2>2, <2>3, <2>4 DEF Moved, s
    <2>6. q.windows = k.windows /\ q.tabs = k.tabs
      BY <2>3
    <2>7. (b \in DOMAIN k.tabs \/ CanAddTab(k.session, id)) = FALSE
      BY <1>4 DEF s
    <2> HIDE DEF b, id
    <2>8. /\ Moved(k, q, DOMAIN k.windows,
                   IF b \in DOMAIN k.tabs \/ CanAddTab(k.session, id)
                   THEN DOMAIN k.tabs \cup {b} ELSE DOMAIN k.tabs)
          /\ q.ok = ((b \in DOMAIN k.tabs \/ CanAddTab(k.session, id)) /\ k.ok)
      BY <2>5, <2>7
    <2>. QED BY <2>6, <2>8 DEF q, b, id
  <1>5. CASE b \notin DOMAIN k.tabs /\ CanAddTab(s, id)
    <2> DEFINE r == AddTab(s, id, location)
               new == s.nextTab
               ts == With(k.tabs, b, new)
               ids == TabsIn(s, id) \cup {new}
    <2>1. Effect(s, r, id, ids)
      BY <1>1, <1>5, AddTabIs
    <2>2. q = [ok |-> k.ok, session |-> r, windows |-> k.windows, tabs |-> ts]
      <3> HIDE DEF r, ts
      <3>1. q = [k EXCEPT !.session = r, !.tabs = ts]
        BY <1>2, <1>5 DEF TabBound, TabIdentity, r, ts
      <3>. QED BY <1>2, <3>1
    <2>3. /\ DOMAIN ts = DOMAIN k.tabs \cup {b} /\ ts[b] = new
          /\ \A c \in DOMAIN k.tabs : ts[c] = k.tabs[c] /\ c # b
      BY <1>5 DEF With
    <2>4. new \notin TabsIn(s, id)
      BY <1>1, InWindow
    <2>5. /\ \A c, d \in DOMAIN k.tabs : k.tabs[c] = k.tabs[d] => c = d
          /\ \A c \in DOMAIN k.tabs :
                c = <<c[1], c[2]>> /\ k.tabs[c] \in TabsIn(s, k.windows[c[1]])
          /\ \A x_1 \in TabsIn(s, id) : \E c \in DOMAIN k.tabs : c[1] = w /\ k.tabs[c] = x_1
      BY <1>1 DEF Covers
    <2>6. b[1] = w /\ b = <<b[1], b[2]>>
      OBVIOUS
    <2> HIDE DEF q, r, ts, new, b, s
    <2>7. Covers(r, k.windows, ts)
      <3>1. \A c \in DOMAIN k.tabs : c[1] # w => c \in DOMAIN ts /\ ts[c] = k.tabs[c]
        BY <2>3
      <3>2. \A c \in DOMAIN ts : c[1] # w => c \in DOMAIN k.tabs
        BY <2>3, <2>6
      <3>3. \A c \in DOMAIN ts : c = <<c[1], c[2]>> /\ (c[1] = w => ts[c] \in ids)
        <4> TAKE c \in DOMAIN ts
        <4>1. CASE c = b
          BY <2>3, <2>6, <4>1
        <4>2. CASE c # b
          BY <2>3, <2>5, <4>2
        <4>. QED BY <4>1, <4>2
      <3>4. \A c, d \in DOMAIN ts : c[1] = w /\ d[1] = w /\ ts[c] = ts[d] => c = d
        <4> SUFFICES ASSUME NEW c \in DOMAIN ts, NEW d \in DOMAIN ts,
                            c[1] = w, d[1] = w, ts[c] = ts[d]
                     PROVE  c = d
          OBVIOUS
        <4>1. \A e \in DOMAIN ts : e[1] = w /\ e # b => e \in DOMAIN k.tabs /\ ts[e] # new
          BY <2>3, <2>4, <2>5
        <4>. QED BY <2>3, <2>5, <4>1
      <3>5. \A e \in ids : \E c \in DOMAIN ts : c[1] = w /\ ts[c] = e
        <4> TAKE e \in ids
        <4>1. CASE e = new
          BY <2>3, <2>6, <4>1
        <4>2. CASE e # new
          <5>1. PICK c \in DOMAIN k.tabs : c[1] = w /\ k.tabs[c] = e
            BY <2>5, <4>2
          <5>. QED BY <2>3, <5>1
        <4>. QED BY <4>1, <4>2
      <3>6. Effect(s, r, k.windows[w], ids)
        BY <2>1
      <3> HIDE DEF ids
      <3>. QED BY <1>1, <3>1, <3>2, <3>3, <3>4, <3>5, <3>6, CoversAfter
    <2>8. Matches(q)
      BY <1>1, <2>1, <2>2, <2>7 DEF Matches, Effect
    <2>9. Moved(k, q, DOMAIN k.windows, DOMAIN k.tabs \cup {b})
      BY <2>1, <2>2, <2>3, <2>8 DEF Moved, Effect, s
    <2>10. q.ok = k.ok /\ q.windows = k.windows /\ \A c \in DOMAIN k.tabs : q.tabs[c] = k.tabs[c]
      BY <2>2, <2>3
    <2>. QED BY <1>1, <1>5, <2>9, <2>10 DEF q, s, b
  <1>. QED BY <1>3, <1>4, <1>5

LEMMA TabPlacedIs ==
    ASSUME NEW k, Matches(k), NEW w, NEW t, <<w, t>> \in DOMAIN k.tabs,
           NEW i \in 1 .. Len(WindowOf(k.session, k.windows[w]).tabs)
    PROVE  LET q == TabPlaced(k, w, i, t)
           IN  /\ Moved(k, q, DOMAIN k.windows, DOMAIN k.tabs)
               /\ q.ok = k.ok /\ q.windows = k.windows /\ q.tabs = k.tabs
  <1> DEFINE q == TabPlaced(k, w, i, t)
             s == k.session
             id == k.windows[w]
             tab == k.tabs[<<w, t>>]
             there == WindowOf(s, id).tabs[i].id
  <1>1. /\ SoundSession(s) /\ w \in DOMAIN k.windows /\ id \in Ids(s.windows)
        /\ tab \in TabsIn(s, id)
    <2>1. <<w, t>>[1] = w
      OBVIOUS
    <2>. QED BY <2>1, BoundTab DEF Matches
  <1>2. there \in TabsIn(s, id)
    <2>1. WindowOf(s, id).tabs \in Seq(StoredTab)
      BY <1>1, InWindow
    <2>2. DOMAIN WindowOf(s, id).tabs = 1 .. Len(WindowOf(s, id).tabs)
      BY <2>1, LenProperties
    <2>. QED BY <2>2 DEF TabsIn, Ids
  <1>3. CASE there = tab
    <2>1. q = k
      BY <1>3 DEF TabPlaced
    <2>2. Later(s, s)
      BY <1>1, LaterSelf
    <2> HIDE DEF q
    <2>. QED BY <2>1, <2>2 DEF Moved, q
  <1>4. CASE there # tab
    <2> DEFINE r == MoveBefore(s, id, tab, there)
    <2>1. Effect(s, r, id, TabsIn(s, id))
      BY <1>1, <1>2, <1>4, MoveBeforeIs
    <2>2. q = [k EXCEPT !.session = r]
      BY <1>4 DEF TabPlaced
    <2> HIDE DEF q, r
    <2>3. /\ Moved(k, q, DOMAIN k.windows, DOMAIN k.tabs)
          /\ q.ok = k.ok /\ q.windows = k.windows /\ q.tabs = k.tabs
      <3>1. q = WithSession(k, r) /\ Moved(k, WithSession(k, r), DOMAIN k.windows, DOMAIN k.tabs)
        BY <1>1, <2>1, <2>2, SessionMoved
      <3>. QED BY <3>1 DEF WithSession
    <2>. QED BY <2>3 DEF q
  <1>. QED BY <1>3, <1>4

LEMMA ActiveStoredIs ==
    ASSUME NEW k, Matches(k), NEW w
    PROVE  LET q == ActiveStored(k, w)
           IN  /\ Moved(k, q, DOMAIN k.windows, DOMAIN k.tabs)
               /\ q.ok = k.ok /\ q.windows = k.windows /\ q.tabs = k.tabs
  <1> DEFINE q == ActiveStored(k, w)
             s == k.session
             b == <<w, windows[w].active>>
             r == SetActive(s, k.windows[w], k.tabs[b])
  <1>1. CASE b \in DOMAIN k.tabs
    <2>1. /\ SoundSession(s) /\ w \in DOMAIN k.windows /\ k.windows[w] \in Ids(s.windows)
          /\ k.tabs[b] \in TabsIn(s, k.windows[w])
      <3>1. b[1] = w
        OBVIOUS
      <3> HIDE DEF b
      <3>. QED BY <1>1, <3>1, BoundTab DEF Matches
    <2>2. Effect(s, r, k.windows[w], TabsIn(s, k.windows[w]))
      BY <2>1, SetActiveIs
    <2>3. q = [k EXCEPT !.session = r]
      BY <1>1 DEF ActiveStored
    <2> HIDE DEF q, r, b
    <2>4. /\ Moved(k, q, DOMAIN k.windows, DOMAIN k.tabs)
          /\ q.ok = k.ok /\ q.windows = k.windows /\ q.tabs = k.tabs
      <3>1. q = WithSession(k, r) /\ Moved(k, WithSession(k, r), DOMAIN k.windows, DOMAIN k.tabs)
        BY <2>1, <2>2, <2>3, SessionMoved
      <3>. QED BY <3>1 DEF WithSession
    <2>. QED BY <2>4 DEF q
  <1>2. CASE b \notin DOMAIN k.tabs
    <2>1. q = k
      BY <1>2 DEF ActiveStored
    <2>2. Later(s, s)
      BY LaterSelf DEF Matches
    <2> HIDE DEF q
    <2>. QED BY <2>1, <2>2 DEF Moved, q
  <1>. QED BY <1>1, <1>2

-----------------------------------------------------------------------------
(* What a synchronisation reads of the browser.                            *)

HistoryEntry == [id : Nat \ {0}, location : Location]

LEMMA CurrentAt ==
    ASSUME NEW p, p.history \in Seq(HistoryEntry)
    PROVE  /\ CurrentIndex(p) = IndexOf(p.history, p.current)
           /\ EntryIds(p) = Ids(p.history)
           /\ Committed(p) <=> p.current \in EntryIds(p)
           /\ Committed(p) => /\ CurrentIndex(p) \in 1 .. Len(p.history)
                              /\ CurrentLocation(p) \in Location
  <1>1. CurrentIndex(p) = IndexOf(p.history, p.current)
    BY DEF CurrentIndex, IndexOf, SelectInSeq
  <1>2. EntryIds(p) = Ids(p.history)
    BY DEF EntryIds, Ids
  <1>3. /\ p.current \in Ids(p.history) =>
              IndexOf(p.history, p.current) \in 1 .. Len(p.history)
        /\ p.current \notin Ids(p.history) => IndexOf(p.history, p.current) = 0
    BY IndexOfIs
  <1>4. Committed(p) <=> p.current \in EntryIds(p)
    BY <1>1, <1>2, <1>3 DEF Committed
  <1>5. ASSUME Committed(p)
        PROVE  CurrentIndex(p) \in 1 .. Len(p.history) /\ CurrentLocation(p) \in Location
    <2>1. CurrentIndex(p) \in 1 .. Len(p.history)
      BY <1>1, <1>2, <1>3, <1>4, <1>5
    <2>2. p.history[CurrentIndex(p)] \in HistoryEntry
      BY <2>1, LenProperties
    <2>. QED BY <2>1, <2>2 DEF CurrentLocation, HistoryEntry
  <1>. QED BY <1>1, <1>2, <1>4, <1>5

\* A window lists tabs that are there, each of them once.
Listing(tabs) ==
    /\ tabs \in Seq(DOMAIN pages)
    /\ \A i, j \in DOMAIN tabs : tabs[i] = tabs[j] => i = j

Showing ==
    /\ next.window \in Nat /\ next.tab \in Nat
    /\ DOMAIN windows \subseteq 1 .. next.window - 1
    /\ \A t \in DOMAIN pages :
          t \in 1 .. next.tab - 1 /\ pages[t].history \in Seq(HistoryEntry)
    /\ \A w \in DOMAIN windows : Listing(windows[w].tabs)

LEMMA CommittedTabsAre ==
    ASSUME Showing, NEW w \in DOMAIN windows
    PROVE  LET tabs == CommittedTabs(w)
           IN  /\ Listing(tabs)
               /\ \A i \in 1 .. Len(tabs) :
                     /\ tabs[i] \in 1 .. next.tab - 1
                     /\ CurrentLocation(pages[tabs[i]]) \in Location
  <1> DEFINE seq == windows[w].tabs
             n == Len(seq)
             Chosen(k, i) == \E j \in 1 .. k : seq[j] = i
             Shown(q, k) ==
                 /\ Listing(q)
                 /\ \A i \in 1 .. Len(q) : Committed(pages[q[i]]) /\ Chosen(k, q[i])
  <1>1. seq \in Seq(DOMAIN pages) /\ \A i, j \in DOMAIN seq : seq[i] = seq[j] => i = j
    BY DEF Showing, Listing
  <1>2. n \in Nat /\ DOMAIN seq = 1 .. n /\ \A i \in 1 .. n : seq[i] \in DOMAIN pages
    BY <1>1, LenProperties
  <1>3. PICK h : /\ h[0] = <<>>
                 /\ \A k \in 1 .. n : h[k] = Filtered(h[k - 1], seq[k])
                 /\ CommittedTabs(w) = h[n]
    BY <1>1, FilteredRuns
  <1> DEFINE Holds == {k \in 0 .. n : Shown(h[k], k)}
  <1> HIDE DEF n, seq
  <1>4. 0 \in Holds
    <2>1. <<>> \in Seq(DOMAIN pages) /\ Len(<<>>) = 0 /\ DOMAIN <<>> = {}
      OBVIOUS
    <2>2. Listing(<<>>)
      BY <2>1 DEF Listing
    <2>. QED BY <1>2, <1>3, <2>1, <2>2
  <1>5. ASSUME NEW k \in 0 .. n - 1, k \in Holds PROVE k + 1 \in Holds
    <2> DEFINE q == h[k]
               t == seq[k + 1]
    <2>1. Shown(q, k) /\ k + 1 \in 1 .. n /\ k + 1 \in 0 .. n /\ (k + 1) - 1 = k
      BY <1>2, <1>5
    <2>2. h[k + 1] = Filtered(q, t)
      BY <1>3, <2>1
    <2>3. /\ q \in Seq(DOMAIN pages) /\ DOMAIN q = 1 .. Len(q) /\ Len(q) \in Nat
          /\ \A i, j \in DOMAIN q : q[i] = q[j] => i = j
      BY <2>1, LenProperties DEF Listing
    <2> HIDE DEF q
    <2>4. \A i \in DOMAIN q : q[i] # t
      <3>1. \A j \in 1 .. k : seq[j] # t
        BY <1>1, <1>2, <2>1
      <3>. QED BY <2>1, <2>3, <3>1
    <2>5. ASSUME NEW i, Chosen(k, i) PROVE Chosen(k + 1, i)
      BY <1>2, <2>1, <2>5
    <2>6. Chosen(k + 1, t)
      BY <2>1
    <2>7. t \in DOMAIN pages
      BY <1>2, <2>1
    <2>8. CASE ~Committed(pages[t])
      <3>1. h[k + 1] = q
        BY <2>2, <2>8 DEF Filtered
      <3> HIDE DEF Chosen, t
      <3>. QED BY <2>1, <2>5, <3>1
    <2>9. CASE Committed(pages[t])
      <3> HIDE DEF t
      <3> DEFINE r == Append(q, t)
      <3>1. h[k + 1] = r
        BY <2>2, <2>9 DEF Filtered
      <3>2. /\ r \in Seq(DOMAIN pages) /\ Len(r) = Len(q) + 1
            /\ \A i \in 1 .. Len(q) : r[i] = q[i]
            /\ r[Len(q) + 1] = t
        BY <2>3, <2>7, AppendProperties
      <3>3. DOMAIN r = 1 .. Len(q) + 1
        BY <3>2, LenProperties
      <3> HIDE DEF r
      <3>4. \A i \in 1 .. Len(q) + 1 : i \in 1 .. Len(q) \/ i = Len(q) + 1
        BY <2>3
      <3>5. \A i, j \in DOMAIN r : r[i] = r[j] => i = j
        BY <2>3, <2>4, <3>2, <3>3, <3>4
      <3>6. Listing(r)
        BY <3>2, <3>5 DEF Listing
      <3> HIDE DEF Chosen
      <3>7. \A i \in 1 .. Len(r) : Committed(pages[r[i]]) /\ Chosen(k + 1, r[i])
        BY <2>1, <2>5, <2>6, <2>9, <3>2, <3>4
      <3>. QED BY <2>1, <3>1, <3>6, <3>7
    <2>. QED BY <2>8, <2>9
  <1>6. n \in Holds
    <2> HIDE DEF Holds
    <2>. QED BY <1>2, <1>4, <1>5, Induction
  <1>7. Listing(CommittedTabs(w)) /\ \A i \in 1 .. Len(CommittedTabs(w)) :
                                       Committed(pages[CommittedTabs(w)[i]])
    BY <1>3, <1>6
  <1>8. \A i \in 1 .. Len(CommittedTabs(w)) : CommittedTabs(w)[i] \in DOMAIN pages
    BY <1>7, LenProperties DEF Listing
  <1>. QED BY <1>7, <1>8, CurrentAt DEF Showing

-----------------------------------------------------------------------------
(* What a synchronisation says of a window.                                *)

StoredIn(k, w) == WindowOf(k.session, k.windows[w])

\* Window w is stored as the browser shows it, and its tabs are the ones bound.
Told(k, w) ==
    LET v == WindowOf(k.session, k.windows[w])
        tabs == CommittedTabs(w)
    IN  /\ w \in DOMAIN k.windows
        /\ Len(v.tabs) = Len(tabs)
        /\ \A i \in 1 .. Len(tabs) :
              /\ <<w, tabs[i]>> \in DOMAIN k.tabs
              /\ v.tabs[i].id = k.tabs[<<w, tabs[i]>>]
              /\ v.tabs[i].location = CurrentLocation(pages[tabs[i]])
        /\ \A b \in DOMAIN k.tabs : b[1] = w => \E i \in 1 .. Len(tabs) : b[2] = tabs[i]
        /\ <<w, windows[w].active>> \in DOMAIN k.tabs =>
              v.active = k.tabs[<<w, windows[w].active>>]

\* A window is told if it is stored, and stored if it has something to store.
Says(k, w) ==
    /\ w \in DOMAIN k.windows => Told(k, w)
    /\ CommittedTabs(w) # <<>> => w \in DOMAIN k.windows

\* Tab t is bound, and its location stored.
Located(k, w, t) ==
    /\ <<w, t>> \in DOMAIN k.tabs
    /\ Lookup(StoredIn(k, w).tabs, k.tabs[<<w, t>>]).location = CurrentLocation(pages[t])

\* k became q, and what is not of window w is as it was.
Beside(k, q, w) ==
    /\ \A o \in DOMAIN k.windows \ {w} :
          o \in DOMAIN q.windows /\ q.windows[o] = k.windows[o] /\ StoredIn(q, o) = StoredIn(k, o)
    /\ \A o \in DOMAIN q.windows \ {w} : o \in DOMAIN k.windows
    /\ \A b \in DOMAIN k.tabs : b[1] # w => b \in DOMAIN q.tabs /\ q.tabs[b] = k.tabs[b]
    /\ \A b \in DOMAIN q.tabs : b[1] # w => b \in DOMAIN k.tabs

LEMMA BesideSelf ==
    ASSUME NEW k, NEW w
    PROVE  Beside(k, k, w)
  BY DEF Beside

LEMMA BesideTrans ==
    ASSUME NEW k, NEW m, NEW q, NEW w, Beside(k, m, w), Beside(m, q, w)
    PROVE  Beside(k, q, w)
  BY DEF Beside

LEMMA ToldStill ==
    ASSUME NEW k, NEW q, NEW w, Beside(k, q, w), NEW o, o # w, Told(k, o)
    PROVE  Told(q, o)
  <1> DEFINE tabs == CommittedTabs(o)
             v == WindowOf(k.session, k.windows[o])
  <1>1. /\ o \in DOMAIN k.windows /\ Len(v.tabs) = Len(tabs)
        /\ \A i \in 1 .. Len(tabs) :
              /\ <<o, tabs[i]>> \in DOMAIN k.tabs
              /\ v.tabs[i].id = k.tabs[<<o, tabs[i]>>]
              /\ v.tabs[i].location = CurrentLocation(pages[tabs[i]])
        /\ \A b \in DOMAIN k.tabs : b[1] = o => \E i \in 1 .. Len(tabs) : b[2] = tabs[i]
        /\ <<o, windows[o].active>> \in DOMAIN k.tabs =>
              v.active = k.tabs[<<o, windows[o].active>>]
    BY DEF Told
  <1>2. o \in DOMAIN q.windows /\ WindowOf(q.session, q.windows[o]) = v
    BY <1>1 DEF Beside, StoredIn
  <1>3. \A t : <<o, t>>[1] = o
    OBVIOUS
  <1>4. \A t : /\ <<o, t>> \in DOMAIN k.tabs <=> <<o, t>> \in DOMAIN q.tabs
               /\ <<o, t>> \in DOMAIN k.tabs => q.tabs[<<o, t>>] = k.tabs[<<o, t>>]
    BY <1>3 DEF Beside
  <1>5. \A b \in DOMAIN q.tabs : b[1] = o => b \in DOMAIN k.tabs
    BY DEF Beside
  <1> HIDE DEF tabs, v
  <1>. QED BY <1>1, <1>2, <1>4, <1>5 DEF Told, tabs

\* The session is changed in window w alone.
LEMMA EffectBeside ==
    ASSUME NEW k, Matches(k), NEW q, NEW w \in DOMAIN k.windows, NEW ids,
           Effect(k.session, q.session, k.windows[w], ids), q.windows = k.windows,
           \A b \in DOMAIN k.tabs : b[1] # w => b \in DOMAIN q.tabs /\ q.tabs[b] = k.tabs[b],
           \A b \in DOMAIN q.tabs : b[1] # w => b \in DOMAIN k.tabs
    PROVE  Beside(k, q, w)
  <1>1. ASSUME NEW o \in DOMAIN k.windows \ {w}
        PROVE  StoredIn(q, o) = StoredIn(k, o)
    <2>1. /\ k.windows[o] \in Ids(k.session.windows) /\ k.windows[o] # k.windows[w]
      BY DEF Matches, Covers
    <2>. QED BY <2>1 DEF Effect, StoredIn
  <1>. QED BY <1>1 DEF Beside

LEMMA WindowBoundBeside ==
    ASSUME NEW k, Matches(k), NEW w
    PROVE  Beside(k, WindowBound(k, w), w)
  <1> DEFINE q == WindowBound(k, w)
             s == k.session
  <1>1. SoundSession(s) /\ \A o \in DOMAIN k.windows : k.windows[o] \in Ids(s.windows)
    BY DEF Matches, Covers
  <1>2. PICK a, b, c, d : k = [ok |-> a, session |-> b, windows |-> c, tabs |-> d]
    BY DEF Matches
  <1>3. CASE w \in DOMAIN k.windows
    BY <1>3, BesideSelf DEF WindowBound
  <1>4. CASE w \notin DOMAIN k.windows /\ ~CanAddWindow(s)
    <2>1. q = [k EXCEPT !.ok = FALSE]
      BY <1>4 DEF WindowBound
    <2> HIDE DEF q
    <2>2. q.session = k.session /\ q.windows = k.windows /\ q.tabs = k.tabs
      BY <1>2, <2>1
    <2>. QED BY <2>2 DEF Beside, StoredIn, q
  <1>5. CASE w \notin DOMAIN k.windows /\ CanAddWindow(s)
    <2> DEFINE r == AddWindow(s)
               ws == With(k.windows, w, s.nextWindow)
    <2>1. \A o \in Ids(s.windows) : WindowOf(r, o) = WindowOf(s, o)
      BY <1>1, <1>5, AddWindowIs
    <2>2. q = [k EXCEPT !.session = r, !.windows = ws]
      BY <1>2, <1>5 DEF WindowBound
    <2>3. DOMAIN ws = DOMAIN k.windows \cup {w} /\ \A o \in DOMAIN k.windows : ws[o] = k.windows[o]
      BY <1>5 DEF With
    <2> HIDE DEF q, r, ws
    <2>4. q.session = r /\ q.windows = ws /\ q.tabs = k.tabs
      BY <1>2, <2>2
    <2>. QED BY <1>1, <2>1, <2>3, <2>4 DEF Beside, StoredIn, q
  <1>. QED BY <1>3, <1>4, <1>5

LEMMA TabDroppedBeside ==
    ASSUME NEW k, Matches(k), NEW b \in DOMAIN k.tabs
    PROVE  Beside(k, TabDropped(k, b), b[1])
  <1> DEFINE q == TabDropped(k, b)
             s == k.session
             r == RemoveTab(s, k.windows[b[1]], k.tabs[b])
             ts == Without(k.tabs, {b})
  <1>1. /\ SoundSession(s) /\ b[1] \in DOMAIN k.windows
        /\ k.windows[b[1]] \in Ids(s.windows) /\ k.tabs[b] \in TabsIn(s, k.windows[b[1]])
    BY BoundTab DEF Matches
  <1>2. Effect(s, r, k.windows[b[1]], TabsIn(s, k.windows[b[1]]) \ {k.tabs[b]})
    BY <1>1, RemoveTabIs
  <1>3. PICK x, y, z, u : k = [ok |-> x, session |-> y, windows |-> z, tabs |-> u]
    BY DEF Matches
  <1>4. q = [k EXCEPT !.session = r, !.tabs = ts]
    BY <1>3 DEF TabDropped
  <1>5. DOMAIN ts = DOMAIN k.tabs \ {b} /\ \A c \in DOMAIN ts : ts[c] = k.tabs[c]
    BY DEF Without
  <1> HIDE DEF q, r, ts
  <1>6. q.session = r /\ q.windows = k.windows /\ q.tabs = ts
    BY <1>3, <1>4
  <1>. QED BY <1>1, <1>2, <1>5, <1>6, EffectBeside DEF q

LEMMA TabBoundBeside ==
    ASSUME NEW k, Matches(k), NEW w \in DOMAIN k.windows, NEW t,
           CurrentLocation(pages[t]) \in Location
    PROVE  LET q == TabBound(k, w, t)
           IN  /\ Beside(k, q, w)
               /\ q.ok => Located(q, w, t) /\ \A u : Located(k, w, u) => Located(q, w, u)
  <1> DEFINE q == TabBound(k, w, t)
             s == k.session
             id == k.windows[w]
             old == WindowOf(s, id)
             location == CurrentLocation(pages[t])
             b == <<w, t>>
  <1>1. /\ SoundSession(s) /\ id \in Ids(s.windows)
        /\ \A c, d \in DOMAIN k.tabs : k.tabs[c] = k.tabs[d] => c = d
    BY DEF Matches, Covers
  <1>2. /\ old \in StoredWindow /\ old.tabs \in Seq(StoredTab) /\ DistinctIds(old.tabs)
        /\ Ids(old.tabs) \subseteq 1 .. s.nextTab - 1 /\ s.nextTab \in Nat \ {0}
    BY <1>1, InWindow DEF TabsIn
  <1>3. PICK x, y, z, u : k = [ok |-> x, session |-> y, windows |-> z, tabs |-> u]
    BY DEF Matches
  <1>4. \A u_1 : <<w, u_1>> \in DOMAIN k.tabs => k.tabs[<<w, u_1>>] \in Ids(old.tabs)
    <2> SUFFICES ASSUME NEW u_1, <<w, u_1>> \in DOMAIN k.tabs
                 PROVE  k.tabs[<<w, u_1>>] \in Ids(old.tabs)
      OBVIOUS
    <2> DEFINE c == <<w, u_1>>
    <2>1. c \in DOMAIN k.tabs /\ c[1] = w
      OBVIOUS
    <2> HIDE DEF c
    <2>2. k.tabs[c] \in TabsIn(s, id)
      BY <2>1, BoundTab
    <2>. QED BY <2>2 DEF TabsIn, c
  <1>5. \A u_1 : <<w, u_1>> = b => u_1 = t
    OBVIOUS
  <1>6. b[1] = w
    OBVIOUS
  <1>7. CASE b \in DOMAIN k.tabs
    <2> DEFINE tab == k.tabs[b]
               r == UpdateLocation(s, id, tab, location)
               i == IndexOf(old.tabs, tab)
               new == [old.tabs[i] EXCEPT !.location = location]
    <2>1. tab \in Ids(old.tabs)
      BY <1>4, <1>7
    <2>2. Effect(s, r, id, TabsIn(s, id)) /\ WindowOf(r, id) = [old EXCEPT !.tabs[i].location = location]
      BY <1>1, <2>1, UpdateLocationIs DEF TabsIn
    <2>3. q = [k EXCEPT !.session = r]
      BY <1>7 DEF TabBound
    <2>4. i \in 1 .. Len(old.tabs) /\ old.tabs[i].id = tab
      <3> HIDE DEF old
      <3>. QED BY <1>2, <2>1, IndexOfIs
    <2>5. old.tabs[i] \in StoredTab
      <3> HIDE DEF old, i
      <3>. QED BY <1>2, <2>4, LenProperties
    <2>6. new \in StoredTab /\ new.id = tab /\ new.location = location
      BY <2>4, <2>5 DEF StoredTab
    <2> HIDE DEF q, r
    <2>7. q.session = r /\ q.windows = k.windows /\ q.tabs = k.tabs
      BY <1>3, <2>3
    <2>8. Beside(k, q, w)
      BY <2>2, <2>7, EffectBeside
    <2>9. WindowOf(r, id).tabs = [old.tabs EXCEPT ![i] = new]
      <3>1. [old EXCEPT !.tabs[i].location = location].tabs = [old.tabs EXCEPT ![i] = new]
        BY <1>2 DEF StoredWindow
      <3>. QED BY <2>2, <3>1
    <2> DEFINE tabs == [old.tabs EXCEPT ![i] = new]
    <2>10. /\ Lookup(tabs, tab) = new
           /\ \A o \in Ids(old.tabs) \ {tab} : Lookup(tabs, o) = Lookup(old.tabs, o)
      <3> HIDE DEF old, tab, new
      <3>. QED BY <1>2, <2>1, <2>6, ReplacedIds
    <2>11. StoredIn(q, w).tabs = tabs /\ StoredIn(k, w).tabs = old.tabs
      BY <2>7, <2>9 DEF StoredIn
    <2> HIDE DEF tabs, old, new, location
    <2>12. Located(q, w, t)
      BY <1>7, <2>6, <2>7, <2>10, <2>11 DEF Located, location
    <2>13. ASSUME NEW u_1, Located(k, w, u_1) PROVE Located(q, w, u_1)
      <3>1. <<w, u_1>> \in DOMAIN k.tabs /\ k.tabs[<<w, u_1>>] \in Ids(old.tabs)
        BY <1>4, <2>13 DEF Located
      <3>2. CASE u_1 = t
        BY <2>12, <3>2
      <3>3. CASE u_1 # t
        <4>1. k.tabs[<<w, u_1>>] # tab
          BY <1>1, <1>5, <1>7, <3>1, <3>3
        <4>. QED BY <2>7, <2>10, <2>11, <2>13, <3>1, <4>1 DEF Located
      <3>. QED BY <3>2, <3>3
    <2>. QED BY <2>8, <2>12, <2>13 DEF q
  <1>8. CASE b \notin DOMAIN k.tabs /\ ~CanAddTab(s, id)
    <2>1. q = [k EXCEPT !.ok = FALSE]
      BY <1>8 DEF TabBound
    <2> HIDE DEF q
    <2>2. q.session = k.session /\ q.windows = k.windows /\ q.tabs = k.tabs /\ ~q.ok
      BY <1>3, <2>1
    <2>. QED BY <2>2 DEF Beside, StoredIn, q
  <1>9. CASE b \notin DOMAIN k.tabs /\ CanAddTab(s, id)
    <2> DEFINE new == s.nextTab
               tab == [id |-> new, location |-> location]
               r == AddTab(s, id, location)
               ts == With(k.tabs, b, new)
               tabs == Append(old.tabs, tab)
    <2>1. Effect(s, r, id, TabsIn(s, id) \cup {new}) /\ WindowOf(r, id).tabs = tabs
      BY <1>1, <1>9, AddTabIs
    <2>2. q = [k EXCEPT !.session = r, !.tabs = ts]
      BY <1>3, <1>9 DEF TabBound, TabIdentity
    <2>3. /\ DOMAIN ts = DOMAIN k.tabs \cup {b} /\ ts[b] = new
          /\ \A c \in DOMAIN k.tabs : ts[c] = k.tabs[c]
      BY <1>9 DEF With
    <2>4. tab \in StoredTab /\ tab.id = new /\ tab.location = location /\ new \notin Ids(old.tabs)
      BY <1>2 DEF StoredTab
    <2> HIDE DEF q, r, ts
    <2>5. q.session = r /\ q.windows = k.windows /\ q.tabs = ts
      BY <1>3, <2>2
    <2>6. Beside(k, q, w)
      <3> DEFINE ids == TabsIn(s, id) \cup {new}
      <3>1. Effect(s, r, id, ids)
        BY <2>1
      <3> HIDE DEF ids, b
      <3>. QED BY <1>6, <2>3, <2>5, <3>1, EffectBeside
    <2>7. Lookup(tabs, new) = tab /\ \A o \in Ids(old.tabs) : Lookup(tabs, o) = Lookup(old.tabs, o)
      <3> HIDE DEF old, tab, new
      <3>. QED BY <1>2, <2>4, AppendedIds
    <2>8. StoredIn(q, w).tabs = tabs /\ StoredIn(k, w).tabs = old.tabs
      BY <2>1, <2>5 DEF StoredIn
    <2> HIDE DEF tabs, old, tab, location
    <2>9. Located(q, w, t)
      BY <2>3, <2>4, <2>5, <2>7, <2>8 DEF Located, location
    <2>10. ASSUME NEW u_1, Located(k, w, u_1) PROVE Located(q, w, u_1)
      <3>1. <<w, u_1>> \in DOMAIN k.tabs /\ k.tabs[<<w, u_1>>] \in Ids(old.tabs)
        BY <1>4, <2>10 DEF Located
      <3>. QED BY <2>3, <2>5, <2>7, <2>8, <2>10, <3>1 DEF Located
    <2>. QED BY <2>6, <2>9, <2>10 DEF q
  <1>. QED BY <1>7, <1>8, <1>9

\* An element taken from behind another and put before it.
LEMMA MovedSeq ==
    ASSUME NEW X, NEW seq \in Seq(X), DistinctIds(seq),
           NEW i \in 1 .. Len(seq), NEW p \in 1 .. Len(seq), i < p
    PROVE  LET rest == RemoveAt(seq, p)
               q == InsertAt(rest, IndexOf(rest, seq[i].id), seq[p])
           IN  /\ q[i] = seq[p] /\ \A j \in 1 .. i - 1 : q[j] = seq[j]
               /\ \A o \in Ids(seq) : Lookup(q, o) = Lookup(seq, o)
  <1> DEFINE n == Len(seq)
             rest == RemoveAt(seq, p)
             a == IndexOf(rest, seq[i].id)
             q == InsertAt(rest, a, seq[p])
  <1>1. n \in Nat /\ DOMAIN seq = 1 .. n /\ \A j \in 1 .. n : seq[j] \in X
    BY LenProperties
  <1>2. IndexOf(seq, seq[p].id) = p /\ seq[p].id \in Ids(seq)
    BY FoundAt
  <1>3. /\ rest \in Seq(X) /\ Len(rest) = n - 1 /\ DistinctIds(rest)
        /\ Ids(rest) = Ids(seq) \ {seq[p].id}
    BY <1>2, RemovedIds
  <1>4. \A k \in 1 .. n - 1 : rest[k] = IF k < p THEN seq[k] ELSE seq[k + 1]
    BY RemoveAtIs
  <1> HIDE DEF rest
  <1>5. a = i
    <2>1. i \in 1 .. Len(rest) /\ rest[i] = seq[i]
      BY <1>1, <1>3, <1>4
    <2>. QED BY <1>3, <2>1, FoundAt
  <1> HIDE DEF a
  <1>6. /\ q \in Seq(X) /\ Len(q) = n /\ q[i] = seq[p]
        /\ \A k \in 1 .. n : (k < i => q[k] = rest[k]) /\ (k > i => q[k] = rest[k - 1])
    <2>1. a \in Nat \ {0} /\ a <= Len(rest) + 1 /\ seq[p] \in X /\ Len(rest) + 1 = n
      BY <1>1, <1>3, <1>5
    <2> DEFINE x == seq[p]
    <2> HIDE DEF x, n
    <2>2. /\ q \in Seq(X) /\ Len(q) = Len(rest) + 1 /\ q[a] = x
          /\ \A k \in 1 .. Len(rest) + 1 : (k < a => q[k] = rest[k]) /\ (k > a => q[k] = rest[k - 1])
      <3>1. rest \in Seq(X) /\ x \in X /\ a \in Nat \ {0} /\ a <= Len(rest) + 1
        BY <1>3, <2>1 DEF x
      <3> DEFINE r == InsertAt(rest, a, x)
      <3>2. r \in Seq(X) /\ Len(r) = Len(rest) + 1 /\ r[a] = x
        BY <3>1, InsertAtIs
      <3>3. \A k \in 1 .. Len(rest) + 1 : (k < a => r[k] = rest[k]) /\ (k > a => r[k] = rest[k - 1])
        BY <3>1, InsertAtIs
      <3> HIDE DEF r
      <3>4. q = r
        BY DEF x, r
      <3>. QED BY <3>2, <3>3, <3>4
    <2>. QED BY <1>5, <2>1, <2>2 DEF x
  <1>7. DistinctIds(q)
    <2>1. a \in 1 .. Len(rest) + 1 /\ seq[p] \in X /\ seq[p].id \notin Ids(rest)
      BY <1>1, <1>3, <1>5
    <2>. QED BY <1>3, <2>1, InsertedIds
  <1> HIDE DEF q, n
  <1>8. ASSUME NEW k \in 1 .. n PROVE \E m \in 1 .. n : q[m] = seq[k]
    <2>1. CASE k < i
      <3>1. k \in 1 .. n - 1 /\ k < p
        BY <1>1, <2>1 DEF n
      <3>. QED BY <1>4, <1>6, <2>1, <3>1
    <2>2. CASE i <= k /\ k < p
      <3>1. k \in 1 .. n - 1 /\ k + 1 \in 1 .. n /\ k + 1 > i /\ (k + 1) - 1 = k
        BY <1>1, <2>2 DEF n
      <3>. QED BY <1>4, <1>6, <2>2, <3>1
    <2>3. CASE k = p
      BY <1>6, <2>3 DEF n
    <2>4. CASE k > p
      <3>1. k - 1 \in 1 .. n - 1 /\ k > i /\ ~(k - 1 < p) /\ (k - 1) + 1 = k
        BY <1>1, <2>4 DEF n
      <3>. QED BY <1>4, <1>6, <3>1
    <2>5. k < i \/ (i <= k /\ k < p) \/ k = p \/ k > p
      BY <1>1 DEF n
    <2>. QED BY <2>1, <2>2, <2>3, <2>4, <2>5
  <1>9. ASSUME NEW o \in Ids(seq) PROVE Lookup(q, o) = Lookup(seq, o)
    <2>1. PICK k \in 1 .. n : o = seq[k].id
      BY <1>1 DEF Ids
    <2>2. PICK m \in 1 .. n : q[m] = seq[k]
      BY <1>8
    <2>3. Lookup(q, q[m].id) = q[m]
      BY <1>6, <1>7, FoundAt
    <2>4. Lookup(seq, seq[k].id) = seq[k]
      BY FoundAt DEF n
    <2>. QED BY <2>1, <2>2, <2>3, <2>4
  <1>10. \A j \in 1 .. i - 1 : q[j] = seq[j]
    <2> TAKE j \in 1 .. i - 1
    <2>1. j \in 1 .. n /\ j \in 1 .. n - 1 /\ j < i /\ j < p
      BY <1>1 DEF n
    <2>. QED BY <1>4, <1>6, <2>1
  <1>. QED BY <1>6, <1>9, <1>10 DEF q, a, rest

LEMMA TabPlacedBeside ==
    ASSUME NEW k, Matches(k), NEW w, NEW t, <<w, t>> \in DOMAIN k.tabs,
           NEW i \in 1 .. Len(StoredIn(k, w).tabs),
           \A j \in 1 .. i - 1 : StoredIn(k, w).tabs[j].id # k.tabs[<<w, t>>]
    PROVE  LET q == TabPlaced(k, w, i, t)
           IN  /\ Beside(k, q, w)
               /\ StoredIn(q, w).tabs[i].id = k.tabs[<<w, t>>]
               /\ \A j \in 1 .. i - 1 : StoredIn(q, w).tabs[j] = StoredIn(k, w).tabs[j]
               /\ \A u : Located(k, w, u) => Located(q, w, u)
  <1> DEFINE q == TabPlaced(k, w, i, t)
             s == k.session
             id == k.windows[w]
             old == WindowOf(s, id).tabs
             tab == k.tabs[<<w, t>>]
             there == old[i].id
  <1>1. /\ SoundSession(s) /\ w \in DOMAIN k.windows /\ id \in Ids(s.windows)
        /\ tab \in TabsIn(s, id)
    <2>1. <<w, t>>[1] = w
      OBVIOUS
    <2>. QED BY <2>1, BoundTab DEF Matches
  <1>2. /\ old \in Seq(StoredTab) /\ DistinctIds(old) /\ Ids(old) = TabsIn(s, id)
        /\ StoredIn(k, w).tabs = old
    BY <1>1, InWindow DEF TabsIn, StoredIn
  <1>3. PICK x, y, z, u : k = [ok |-> x, session |-> y, windows |-> z, tabs |-> u]
    BY DEF Matches
  <1>4. i \in 1 .. Len(old) /\ \A j \in 1 .. i - 1 : old[j].id # tab
    BY <1>2
  <1> DEFINE p == IndexOf(old, tab)
  <1> HIDE DEF old
  <1>5. /\ p \in 1 .. Len(old) /\ old[p].id = tab /\ Len(old) \in Nat
        /\ there \in Ids(old) /\ DOMAIN old = 1 .. Len(old)
    <2>1. p \in 1 .. Len(old) /\ old[p].id = tab
      BY <1>1, <1>2, IndexOfIs
    <2>2. there \in Ids(old)
      BY <1>2, <1>4, FoundAt
    <2>. QED BY <1>2, <2>1, <2>2, LenProperties
  <1>6. CASE there = tab
    <2>1. q = k
      BY <1>6 DEF TabPlaced, old
    <2> HIDE DEF q
    <2>. QED BY <1>2, <1>6, <2>1, BesideSelf DEF q
  <1>7. CASE there # tab
    <2> DEFINE r == MoveBefore(s, id, tab, there)
               rest == RemoveAt(old, p)
               tabs == InsertAt(rest, IndexOf(rest, there), old[p])
    <2>1. Effect(s, r, id, TabsIn(s, id)) /\ WindowOf(r, id).tabs = tabs
      BY <1>1, <1>2, <1>5, <1>7, MoveBeforeIs DEF old
    <2>2. q = [k EXCEPT !.session = r]
      BY <1>7 DEF TabPlaced, old
    <2>3. i < p
      <3>1. ~(p \in 1 .. i - 1) /\ p # i
        BY <1>4, <1>5, <1>7
      <3>. QED BY <1>4, <1>5, <3>1
    <2>4. /\ tabs[i] = old[p] /\ \A j \in 1 .. i - 1 : tabs[j] = old[j]
          /\ \A o \in Ids(old) : Lookup(tabs, o) = Lookup(old, o)
      <3> HIDE DEF p
      <3>. QED BY <1>2, <1>4, <1>5, <2>3, MovedSeq
    <2> HIDE DEF q, r, tabs
    <2>5. q.session = r /\ q.windows = k.windows /\ q.tabs = k.tabs
      BY <1>3, <2>2
    <2>6. Beside(k, q, w)
      BY <1>1, <2>1, <2>5, EffectBeside
    <2>7. StoredIn(q, w).tabs = tabs
      BY <2>1, <2>5 DEF StoredIn
    <2>8. \A u_1 : <<w, u_1>> \in DOMAIN k.tabs => k.tabs[<<w, u_1>>] \in Ids(old)
      <3> SUFFICES ASSUME NEW u_1, <<w, u_1>> \in DOMAIN k.tabs
                   PROVE  k.tabs[<<w, u_1>>] \in Ids(old)
        OBVIOUS
      <3> DEFINE c == <<w, u_1>>
      <3>1. c \in DOMAIN k.tabs /\ c[1] = w
        OBVIOUS
      <3> HIDE DEF c
      <3>2. k.tabs[c] \in TabsIn(s, id)
        BY <3>1, BoundTab
      <3>. QED BY <1>2, <3>2 DEF c
    <2>9. ASSUME NEW u_1, Located(k, w, u_1) PROVE Located(q, w, u_1)
      BY <1>2, <2>4, <2>5, <2>7, <2>8, <2>9 DEF Located
    <2>10. StoredIn(q, w).tabs[i].id = tab
      BY <1>5, <2>4, <2>7
    <2>. QED BY <1>2, <2>4, <2>6, <2>7, <2>9, <2>10 DEF q
  <1>. QED BY <1>6, <1>7

LEMMA ActiveStoredBeside ==
    ASSUME NEW k, Matches(k), NEW w \in DOMAIN k.windows
    PROVE  LET q == ActiveStored(k, w)
               b == <<w, windows[w].active>>
           IN  /\ Beside(k, q, w) /\ StoredIn(q, w).tabs = StoredIn(k, w).tabs
               /\ b \in DOMAIN k.tabs => StoredIn(q, w).active = k.tabs[b]
  <1> DEFINE q == ActiveStored(k, w)
             s == k.session
             id == k.windows[w]
             old == WindowOf(s, id)
             b == <<w, windows[w].active>>
             r == SetActive(s, id, k.tabs[b])
  <1>1. CASE b \in DOMAIN k.tabs
    <2>1. SoundSession(s) /\ id \in Ids(s.windows) /\ k.tabs[b] \in TabsIn(s, id)
      <3>1. b[1] = w
        OBVIOUS
      <3> HIDE DEF b
      <3>. QED BY <1>1, <3>1, BoundTab DEF Matches
    <2>2. Effect(s, r, id, TabsIn(s, id)) /\ WindowOf(r, id) = [old EXCEPT !.active = k.tabs[b]]
      BY <2>1, SetActiveIs
    <2>3. old \in StoredWindow
      BY <2>1, InWindow
    <2>4. WindowOf(r, id).tabs = old.tabs /\ WindowOf(r, id).active = k.tabs[b]
      <3> HIDE DEF old, r
      <3>. QED BY <2>2, <2>3 DEF StoredWindow
    <2>5. PICK x, y, z, u : k = [ok |-> x, session |-> y, windows |-> z, tabs |-> u]
      BY DEF Matches
    <2>6. q = [k EXCEPT !.session = r]
      BY <1>1 DEF ActiveStored
    <2> HIDE DEF q, r, b
    <2>7. q.session = r /\ q.windows = k.windows /\ q.tabs = k.tabs
      BY <2>5, <2>6
    <2>8. Beside(k, q, w)
      BY <2>2, <2>7, EffectBeside
    <2>. QED BY <2>4, <2>7, <2>8 DEF StoredIn, q, b
  <1>2. CASE b \notin DOMAIN k.tabs
    BY <1>2, BesideSelf DEF ActiveStored
  <1>. QED BY <1>1, <1>2

-----------------------------------------------------------------------------
(* The loops of a synchronisation.                                         *)

Follows(k, q) == Matches(q) /\ Later(k.session, q.session)

LEMMA FollowsSelf ==
    ASSUME NEW k, Matches(k)
    PROVE  Follows(k, k)
  BY LaterSelf DEF Follows, Matches

LEMMA FollowsTrans ==
    ASSUME NEW k, NEW m, NEW q, Matches(k), Follows(k, m), Follows(m, q)
    PROVE  Follows(k, q)
  BY LaterTrans DEF Follows, Matches

\* Windows that are bound, each once.
LEMMA DroppedIs ==
    ASSUME NEW k, Matches(k), NEW S \in SUBSET DOMAIN k.windows, NEW seq \in Seq(S),
           \A i, j \in 1 .. Len(seq) : seq[i] = seq[j] => i = j,
           \A x \in S : \E i \in 1 .. Len(seq) : seq[i] = x
    PROVE  LET q == Dropped(k, seq)
           IN  /\ Follows(k, q) /\ q.ok = k.ok
               /\ DOMAIN q.windows = DOMAIN k.windows \ S
               /\ DOMAIN q.tabs \subseteq DOMAIN k.tabs
  <1> DEFINE n == Len(seq)
             gone(i) == {seq[j] : j \in 1 .. i}
             Done(q, i) == /\ Follows(k, q) /\ q.ok = k.ok
                           /\ DOMAIN q.windows = DOMAIN k.windows \ gone(i)
                           /\ DOMAIN q.tabs \subseteq DOMAIN k.tabs
  <1>1. n \in Nat /\ \A i \in 1 .. n : seq[i] \in S
    BY LenProperties
  <1>2. PICK h : /\ h[0] = k
                 /\ \A i \in 1 .. n : h[i] = WindowDropped(h[i - 1], seq[i])
                 /\ Dropped(k, seq) = h[n]
    BY DroppedRuns
  <1>3. \A i, j \in 1 .. n : seq[i] = seq[j] => i = j
    OBVIOUS
  <1>4. gone(n) = S
    BY <1>1
  <1> DEFINE Holds == {i \in 0 .. n : Done(h[i], i)}
  <1> HIDE DEF n
  <1>5. 0 \in Holds
    BY <1>1, <1>2, FollowsSelf
  <1>6. ASSUME NEW i \in 0 .. n - 1, i \in Holds PROVE i + 1 \in Holds
    <2> DEFINE q == h[i]
               w == seq[i + 1]
    <2>1. Done(q, i) /\ i + 1 \in 1 .. n /\ i + 1 \in 0 .. n /\ (i + 1) - 1 = i
      BY <1>1, <1>6
    <2>2. h[i + 1] = WindowDropped(q, w)
      BY <1>2, <2>1
    <2>3. Matches(q) /\ w \in DOMAIN q.windows
      <3>1. w \in S /\ w \notin gone(i)
        BY <1>1, <1>3, <2>1
      <3>. QED BY <2>1, <3>1 DEF Follows
    <2>4. gone(i + 1) = gone(i) \cup {w}
      BY <1>1, <2>1
    <2> HIDE DEF q, w, gone
    <2> DEFINE r == WindowDropped(q, w)
    <2>5. r.ok = q.ok /\ Moved(q, r, DOMAIN q.windows \ {w}, {b \in DOMAIN q.tabs : b[1] # w})
      BY <2>3, WindowDroppedIs
    <2> HIDE DEF r
    <2>6. Follows(k, r)
      BY <2>1, <2>5, FollowsTrans DEF Follows, Moved
    <2>7. Done(r, i + 1)
      BY <2>1, <2>4, <2>5, <2>6 DEF Moved
    <2>. QED BY <2>1, <2>2, <2>7 DEF r
  <1>7. n \in Holds
    <2> HIDE DEF Holds
    <2>. QED BY <1>1, <1>5, <1>6, Induction
  <1>8. Done(h[n], n)
    BY <1>7
  <1> HIDE DEF gone
  <1>. QED BY <1>2, <1>4, <1>8

\* The tabs that are bound have numbers the browser has given.
Numbered(k) == \A b \in DOMAIN k.tabs : b[2] \in 1 .. next.tab - 1

LEMMA PrunedIs ==
    ASSUME NEW k, Matches(k), Numbered(k), next.tab \in Nat, NEW w
    PROVE  LET q == Pruned(k, w)
           IN  /\ Follows(k, q) /\ q.ok = k.ok /\ q.windows = k.windows
               /\ DOMAIN q.tabs = DOMAIN k.tabs \ {<<w, t>> : t \in Lost(k, w)}
               /\ Beside(k, q, w)
  <1> DEFINE S == Lost(k, w)
             seq == Sorted(S)
             n == Len(seq)
             gone(i) == {<<w, seq[j]>> : j \in 1 .. i}
             Done(q, i) == /\ Follows(k, q) /\ q.ok = k.ok /\ q.windows = k.windows
                           /\ DOMAIN q.tabs = DOMAIN k.tabs \ gone(i) /\ Beside(k, q, w)
  <1>1. S \in SUBSET Nat /\ IsFiniteSet(S)
    <2>1. S \in SUBSET (1 .. next.tab - 1)
      BY DEF Lost, BoundIn, Numbered
    <2>2. IsFiniteSet(1 .. next.tab - 1)
      BY FS_Interval
    <2> HIDE DEF S
    <2>3. IsFiniteSet(S)
      BY <2>1, <2>2, FS_Subset
    <2>. QED BY <2>1, <2>3
  <1>2. \A t \in S : <<w, t>> \in DOMAIN k.tabs
    <2>1. \A b \in DOMAIN k.tabs : b = <<b[1], b[2]>>
      BY DEF Matches, Covers
    <2>. QED BY <2>1 DEF Lost, BoundIn
  <1> HIDE DEF S
  <1>3. /\ seq \in Seq(S)
        /\ \A i, j \in 1 .. n : i < j => seq[i] < seq[j]
        /\ \A x \in S : \E i \in 1 .. n : seq[i] = x
    BY <1>1, SortedIs
  <1>4. PICK h : /\ h[0] = k
                 /\ \A i \in 1 .. n : h[i] = TabDropped(h[i - 1], <<w, seq[i]>>)
                 /\ Pruned(k, w) = h[n]
    BY <1>3, PrunedRuns DEF S
  <1> HIDE DEF seq
  <1>5. n \in Nat /\ \A i \in 1 .. n : seq[i] \in S
    BY <1>3, LenProperties
  <1> DEFINE Holds == {i \in 0 .. n : Done(h[i], i)}
  <1> HIDE DEF n
  <1>6. \A i, j \in 1 .. n : seq[i] = seq[j] => i = j
    <2>1. \A i \in 1 .. n : seq[i] \in Nat
      BY <1>1, <1>5
    <2>2. \A i, j \in 1 .. n : i < j \/ j < i \/ i = j
      BY <1>5
    <2>. QED BY <1>3, <2>1, <2>2
  <1>7. gone(n) = {<<w, t>> : t \in S}
    BY <1>3, <1>5
  <1>8. 0 \in Holds
    BY <1>4, <1>5, FollowsSelf, BesideSelf
  <1>9. ASSUME NEW i \in 0 .. n - 1, i \in Holds PROVE i + 1 \in Holds
    <2> DEFINE q == h[i]
               b == <<w, seq[i + 1]>>
    <2>1. Done(q, i) /\ i + 1 \in 1 .. n /\ i + 1 \in 0 .. n /\ (i + 1) - 1 = i
      BY <1>5, <1>9
    <2>2. h[i + 1] = TabDropped(q, b)
      BY <1>4, <2>1
    <2>3. Matches(q) /\ b \in DOMAIN q.tabs
      <3>1. b \in DOMAIN k.tabs
        BY <1>2, <1>5, <2>1
      <3>2. b \notin gone(i)
        BY <1>5, <1>6, <2>1
      <3>. QED BY <2>1, <3>1, <3>2 DEF Follows
    <2>4. gone(i + 1) = gone(i) \cup {b} /\ b[1] = w
      BY <1>5, <2>1
    <2> HIDE DEF q, b, gone
    <2> DEFINE r == TabDropped(q, b)
    <2>5. /\ Moved(q, r, DOMAIN q.windows, DOMAIN q.tabs \ {b})
          /\ r.ok = q.ok /\ r.windows = q.windows
      BY <2>3, TabDroppedIs
    <2>6. Beside(k, r, w)
      <3>1. Beside(q, r, w)
        BY <2>3, <2>4, TabDroppedBeside
      <3>. QED BY <2>1, <3>1, BesideTrans
    <2> HIDE DEF r
    <2>7. Follows(k, r)
      BY <2>1, <2>5, FollowsTrans DEF Follows, Moved
    <2>8. Done(r, i + 1)
      BY <2>1, <2>4, <2>5, <2>7, <2>6 DEF Moved
    <2>. QED BY <2>1, <2>2, <2>8 DEF r
  <1>10. n \in Holds
    <2> HIDE DEF Holds
    <2>. QED BY <1>5, <1>8, <1>9, Induction
  <1>11. Done(h[n], n)
    BY <1>10
  <1> HIDE DEF gone
  <1>. QED BY <1>4, <1>7, <1>11 DEF S

LEMMA WithTabsIs ==
    ASSUME NEW k, Matches(k), NEW w \in DOMAIN k.windows, NEW X, NEW seq \in Seq(X),
           \A i \in 1 .. Len(seq) : CurrentLocation(pages[seq[i]]) \in Location
    PROVE  LET q == WithTabs(k, w, seq)
           IN  /\ Follows(k, q) /\ q.windows = k.windows
               /\ DOMAIN k.tabs \subseteq DOMAIN q.tabs
               /\ \A b \in DOMAIN q.tabs :
                     b \in DOMAIN k.tabs \/ \E i \in 1 .. Len(seq) : b = <<w, seq[i]>>
               /\ q.ok => k.ok /\ \A i \in 1 .. Len(seq) : <<w, seq[i]>> \in DOMAIN q.tabs
               /\ Beside(k, q, w)
               /\ q.ok => \A i \in 1 .. Len(seq) : Located(q, w, seq[i])
  <1> DEFINE n == Len(seq)
             added(i) == {<<w, seq[j]>> : j \in 1 .. i}
             Kept(q, i) == /\ Beside(k, q, w)
                           /\ q.ok => \A j \in 1 .. i : Located(q, w, seq[j])
             Done(q, i) == /\ Follows(k, q) /\ q.windows = k.windows
                           /\ DOMAIN k.tabs \subseteq DOMAIN q.tabs
                           /\ DOMAIN q.tabs \subseteq DOMAIN k.tabs \cup added(i)
                           /\ q.ok => k.ok /\ added(i) \subseteq DOMAIN q.tabs
                           /\ Kept(q, i)
  <1>1. n \in Nat
    BY LenProperties
  <1>2. PICK h : /\ h[0] = k
                 /\ \A i \in 1 .. n : h[i] = TabKept(h[i - 1], w, seq[i])
                 /\ WithTabs(k, w, seq) = h[n]
    BY TabsRun
  <1>3. \A i \in 1 .. n : CurrentLocation(pages[seq[i]]) \in Location
    OBVIOUS
  <1> DEFINE Holds == {i \in 0 .. n : Done(h[i], i)}
  <1> HIDE DEF n
  <1>4. 0 \in Holds
    <2>1. Kept(k, 0)
      BY BesideSelf
    <2> HIDE DEF Kept
    <2>. QED BY <1>1, <1>2, <2>1, FollowsSelf
  <1>5. ASSUME NEW i \in 0 .. n - 1, i \in Holds PROVE i + 1 \in Holds
    <2> DEFINE q == h[i]
               t == seq[i + 1]
    <2>1. Done(q, i) /\ i + 1 \in 1 .. n /\ i + 1 \in 0 .. n /\ (i + 1) - 1 = i
      BY <1>1, <1>5
    <2>2. h[i + 1] = TabKept(q, w, t) /\ CurrentLocation(pages[t]) \in Location
      BY <1>2, <1>3, <2>1
    <2>3. added(i + 1) = added(i) \cup {<<w, t>>}
      BY <1>1, <2>1
    <2>4. \A j \in 1 .. i + 1 : j \in 1 .. i \/ j = i + 1
      BY <1>1, <2>1
    <2>5. Kept(q, i)
      BY <2>1
    <2>6. \A j \in 1 .. i + 1 : j \in 1 .. i \/ seq[j] = t
      BY <2>4
    <2> HIDE DEF q, t, added, Kept
    <2>7. CASE q.ok
      <3> DEFINE r == TabBound(q, w, t)
                 bound == <<w, t>> \in DOMAIN q.tabs \/ CanAddTab(q.session, q.windows[w])
      <3>1. Matches(q) /\ w \in DOMAIN q.windows
        BY <2>1 DEF Follows
      <3>2. /\ Moved(q, r, DOMAIN q.windows,
                     IF bound THEN DOMAIN q.tabs \cup {<<w, t>>} ELSE DOMAIN q.tabs)
            /\ r.ok = (bound /\ q.ok) /\ r.windows = q.windows
        BY <2>2, <3>1, TabBoundIs
      <3>3. h[i + 1] = r
        BY <2>2, <2>7 DEF TabKept
      <3>4. Kept(r, i + 1)
        <4>1. /\ Beside(q, r, w)
              /\ r.ok => Located(r, w, t) /\ \A u : Located(q, w, u) => Located(r, w, u)
          BY <2>2, <3>1, TabBoundBeside
        <4> HIDE DEF r
        <4>2. Beside(k, r, w)
          BY <2>5, <4>1, BesideTrans DEF Kept
        <4>. QED BY <2>7, <2>5, <2>6, <4>1, <4>2 DEF Kept
      <3> HIDE DEF r, bound
      <3>5. Follows(k, r)
        BY <2>1, <3>1, <3>2, FollowsTrans DEF Follows, Moved
      <3>6. Done(r, i + 1)
        <4>1. CASE bound
          BY <2>1, <2>3, <2>7, <3>2, <3>5, <3>4, <4>1 DEF Moved
        <4>2. CASE ~bound
          BY <2>1, <2>3, <3>2, <3>5, <3>4, <4>2 DEF Moved
        <4>. QED BY <4>1, <4>2
      <3>. QED BY <2>1, <3>3, <3>6
    <2>8. CASE ~q.ok
      <3>1. h[i + 1] = q
        BY <2>2, <2>8 DEF TabKept
      <3>2. Kept(q, i + 1)
        BY <2>8, <2>5 DEF Kept
      <3>3. Done(q, i + 1)
        BY <2>1, <2>3, <2>8, <3>2
      <3>. QED BY <2>1, <3>1, <3>3
    <2>. QED BY <2>7, <2>8
  <1>6. n \in Holds
    <2> HIDE DEF Holds
    <2>. QED BY <1>1, <1>4, <1>5, Induction
  <1>7. Done(h[n], n)
    BY <1>6
  <1>. QED BY <1>2, <1>7 DEF n

\* A window has room for as many tabs as are bound in it.
LEMMA Room ==
    ASSUME NEW k, Matches(k), NEW w \in DOMAIN k.windows, NEW tabs, Listing(tabs),
           \A i \in 1 .. Len(tabs) : <<w, tabs[i]>> \in DOMAIN k.tabs
    PROVE  Len(tabs) <= Len(WindowOf(k.session, k.windows[w]).tabs)
  <1> DEFINE n == Len(tabs)
             stored == WindowOf(k.session, k.windows[w]).tabs
             f == [i \in 1 .. n |-> k.tabs[<<w, tabs[i]>>]]
  <1>1. n \in Nat /\ \A i, j \in 1 .. n : tabs[i] = tabs[j] => i = j
    BY LenProperties DEF Listing
  <1>2. stored \in Seq(StoredTab) /\ DistinctIds(stored)
    <2>1. SoundSession(k.session) /\ k.windows[w] \in Ids(k.session.windows)
      BY DEF Matches, Covers
    <2>. QED BY <2>1, InWindow
  <1>3. IsFiniteSet(Ids(stored)) /\ Cardinality(Ids(stored)) = Len(stored)
    BY <1>2, IdsCounted
  <1>4. ASSUME NEW i \in 1 .. n
        PROVE  k.tabs[<<w, tabs[i]>>] \in Ids(stored)
    <2> DEFINE b == <<w, tabs[i]>>
    <2>1. b \in DOMAIN k.tabs /\ b[1] = w
      OBVIOUS
    <2> HIDE DEF b
    <2>2. k.tabs[b] \in TabsIn(k.session, k.windows[w])
      BY <2>1, BoundTab
    <2>. QED BY <2>2 DEF TabsIn, b
  <1>5. \A i, j \in 1 .. n : f[i] = f[j] => i = j
    <2> SUFFICES ASSUME NEW i \in 1 .. n, NEW j \in 1 .. n, f[i] = f[j] PROVE i = j
      OBVIOUS
    <2>1. <<w, tabs[i]>> = <<w, tabs[j]>>
      BY DEF Matches, Covers
    <2>. QED BY <1>1, <2>1
  <1> HIDE DEF n, stored
  <1>6. f \in Injection(1 .. n, Ids(stored))
    <2>1. f \in [1 .. n -> Ids(stored)]
      BY <1>4
    <2> HIDE DEF f
    <2>. QED BY <1>5, <2>1, Fun_IsInj
  <1>7. Cardinality(1 .. n) = n
    BY <1>1, FS_Interval
  <1> HIDE DEF f
  <1>8. Cardinality(1 .. n) <= Cardinality(Ids(stored))
    BY <1>3, <1>6, FS_Injection
  <1>. QED BY <1>3, <1>7, <1>8 DEF n, stored

\* A window has no more tabs than are bound in it.
LEMMA Crowd ==
    ASSUME NEW k, Matches(k), NEW w \in DOMAIN k.windows, NEW tabs, Listing(tabs),
           \A b \in DOMAIN k.tabs : b[1] = w => \E i \in 1 .. Len(tabs) : b[2] = tabs[i]
    PROVE  Len(StoredIn(k, w).tabs) <= Len(tabs)
  <1> DEFINE n == Len(tabs)
             stored == StoredIn(k, w).tabs
             m == Len(stored)
             Is(j, i) == <<w, tabs[i]>> \in DOMAIN k.tabs /\ k.tabs[<<w, tabs[i]>>] = stored[j].id
             f == [j \in 1 .. m |-> CHOOSE i \in 1 .. n : Is(j, i)]
  <1>1. n \in Nat
    BY LenProperties DEF Listing
  <1>2. stored \in Seq(StoredTab) /\ DistinctIds(stored) /\ Ids(stored) = TabsIn(k.session, k.windows[w])
    <2>1. SoundSession(k.session) /\ k.windows[w] \in Ids(k.session.windows)
      BY DEF Matches, Covers
    <2>. QED BY <2>1, InWindow DEF TabsIn, StoredIn
  <1> HIDE DEF stored
  <1>3. m \in Nat /\ DOMAIN stored = 1 .. m
    BY <1>2, LenProperties
  <1>4. \A j \in 1 .. m : \E i \in 1 .. n : Is(j, i)
    <2> TAKE j \in 1 .. m
    <2>1. stored[j].id \in TabsIn(k.session, k.windows[w])
      BY <1>2, <1>3 DEF Ids
    <2>2. PICK b \in DOMAIN k.tabs : b[1] = w /\ k.tabs[b] = stored[j].id
      BY <2>1 DEF Matches, Covers
    <2>3. b = <<b[1], b[2]>>
      BY DEF Matches, Covers
    <2>4. PICK i \in 1 .. n : b[2] = tabs[i]
      BY <2>2
    <2>5. b = <<w, tabs[i]>>
      BY <2>2, <2>3, <2>4
    <2>. QED BY <2>2, <2>5
  <1> HIDE DEF n, m
  <1>5. \A j \in 1 .. m : f[j] \in 1 .. n /\ Is(j, f[j])
    <2> HIDE DEF Is
    <2>. QED BY <1>4
  <1>6. \A i, j \in 1 .. m : f[i] = f[j] => i = j
    <2> SUFFICES ASSUME NEW i \in 1 .. m, NEW j \in 1 .. m, f[i] = f[j] PROVE i = j
      OBVIOUS
    <2>1. stored[i].id = stored[j].id
      <3> HIDE DEF f
      <3>. QED BY <1>5
    <2>. QED BY <1>2, <1>3, <2>1 DEF DistinctIds
  <1> HIDE DEF Is
  <1>7. f \in Injection(1 .. m, 1 .. n)
    <2>1. f \in [1 .. m -> 1 .. n]
      BY <1>5
    <2> HIDE DEF f
    <2>. QED BY <1>6, <2>1, Fun_IsInj
  <1> HIDE DEF f
  <1>8. /\ IsFiniteSet(1 .. n) /\ Cardinality(1 .. n) = n /\ Cardinality(1 .. m) = m
    BY <1>1, <1>3, FS_Interval
  <1>9. Cardinality(1 .. m) <= Cardinality(1 .. n)
    BY <1>7, <1>8, FS_Injection
  <1>. QED BY <1>8, <1>9 DEF n, m, stored

\* What it takes for a window to be told.
LEMMA ToldIs ==
    ASSUME NEW q, Matches(q), NEW w \in DOMAIN q.windows, Listing(CommittedTabs(w)),
           \A i \in 1 .. Len(CommittedTabs(w)) :
              /\ Located(q, w, CommittedTabs(w)[i])
              /\ StoredIn(q, w).tabs[i].id = q.tabs[<<w, CommittedTabs(w)[i]>>],
           \A b \in DOMAIN q.tabs :
              b[1] = w => \E i \in 1 .. Len(CommittedTabs(w)) : b[2] = CommittedTabs(w)[i],
           <<w, windows[w].active>> \in DOMAIN q.tabs =>
              StoredIn(q, w).active = q.tabs[<<w, windows[w].active>>]
    PROVE  Told(q, w)
  <1> DEFINE tabs == CommittedTabs(w)
             n == Len(tabs)
             v == StoredIn(q, w)
  <1>1. \A i \in 1 .. n : Located(q, w, tabs[i]) /\ v.tabs[i].id = q.tabs[<<w, tabs[i]>>]
    OBVIOUS
  <1>2. \A i \in 1 .. n : /\ <<w, tabs[i]>> \in DOMAIN q.tabs
                          /\ Lookup(v.tabs, v.tabs[i].id).location = CurrentLocation(pages[tabs[i]])
    BY <1>1 DEF Located
  <1>3. v.tabs \in Seq(StoredTab) /\ DistinctIds(v.tabs)
    <2>1. SoundSession(q.session) /\ q.windows[w] \in Ids(q.session.windows)
      BY DEF Matches, Covers
    <2>. QED BY <2>1, InWindow DEF StoredIn
  <1>4. Len(v.tabs) = n
    <2>1. n <= Len(v.tabs)
      BY <1>2, Room DEF StoredIn
    <2>2. Len(v.tabs) <= n
      BY Crowd
    <2>3. n \in Nat /\ Len(v.tabs) \in Nat
      <3> HIDE DEF v, tabs
      <3>. QED BY <1>3, LenProperties DEF Listing, tabs
    <2> HIDE DEF v, n
    <2>. QED BY <2>1, <2>2, <2>3
  <1>5. \A i \in 1 .. n : v.tabs[i].location = CurrentLocation(pages[tabs[i]])
    <2>1. \A i \in 1 .. n : Lookup(v.tabs, v.tabs[i].id) = v.tabs[i]
      <3> HIDE DEF v
      <3>. QED BY <1>3, <1>4, FoundAt
    <2> HIDE DEF v, n, tabs
    <2>. QED BY <1>2, <2>1
  <1>6. v = WindowOf(q.session, q.windows[w])
    BY DEF StoredIn
  <1> HIDE DEF v
  <1>7. /\ \A b \in DOMAIN q.tabs : b[1] = w => \E i \in 1 .. n : b[2] = tabs[i]
        /\ <<w, windows[w].active>> \in DOMAIN q.tabs =>
              v.active = q.tabs[<<w, windows[w].active>>]
    BY DEF v
  <1> HIDE DEF tabs
  <1>. QED BY <1>1, <1>2, <1>4, <1>5, <1>6, <1>7 DEF Told, tabs

LEMMA InOrderIs ==
    ASSUME NEW k, Matches(k), NEW w \in DOMAIN k.windows, NEW tabs, Listing(tabs),
           \A i \in 1 .. Len(tabs) : <<w, tabs[i]>> \in DOMAIN k.tabs
    PROVE  LET q == InOrder(k, w, tabs)
           IN  /\ Follows(k, q) /\ q.ok = k.ok
               /\ q.windows = k.windows /\ q.tabs = k.tabs
               /\ Beside(k, q, w)
               /\ \A i \in 1 .. Len(tabs) : StoredIn(q, w).tabs[i].id = k.tabs[<<w, tabs[i]>>]
               /\ \A t : Located(k, w, t) => Located(q, w, t)
  <1> DEFINE n == Len(tabs)
             seq == Positions(tabs)
             Placed(q, m) ==
                 /\ Beside(k, q, w)
                 /\ \A j \in 1 .. m : StoredIn(q, w).tabs[j].id = k.tabs[<<w, tabs[j]>>]
                 /\ \A t : Located(k, w, t) => Located(q, w, t)
             Done(q, m) == /\ Follows(k, q) /\ q.ok = k.ok
                           /\ q.windows = k.windows /\ q.tabs = k.tabs
                           /\ Placed(q, m)
  <1>1. n \in Nat /\ DOMAIN tabs = 1 .. n
    BY LenProperties DEF Listing
  <1>2. seq \in Seq(Nat) /\ Len(seq) = n /\ \A i \in 1 .. n : seq[i] = i
    <2> HIDE DEF n
    <2>1. seq \in [1 .. n -> Nat] /\ \A i \in 1 .. n : seq[i] = i
      BY <1>1 DEF Positions
    <2> HIDE DEF seq
    <2>2. seq \in Seq(Nat)
      BY <1>1, <2>1, SeqDef
    <2>3. DOMAIN seq = 1 .. Len(seq) /\ Len(seq) \in Nat /\ DOMAIN seq = 1 .. n
      BY <2>1, <2>2, LenProperties
    <2>4. Len(seq) = n
      BY <1>1, <2>3
    <2>. QED BY <2>1, <2>2, <2>4
  <1>3. PICK h : /\ h[0] = k
                 /\ \A i \in 1 .. Len(seq) : h[i] = InPlace(h[i - 1], w, tabs, seq[i])
                 /\ InOrder(k, w, tabs) = h[Len(seq)]
    BY <1>2, OrderRuns
  <1>4. \A i \in 1 .. n : <<w, tabs[i]>> \in DOMAIN k.tabs
    OBVIOUS
  <1> DEFINE Holds == {i \in 0 .. n : Done(h[i], i)}
  <1> HIDE DEF n, seq
  <1>5. 0 \in Holds
    <2>1. Placed(k, 0)
      BY BesideSelf
    <2> HIDE DEF Placed
    <2>. QED BY <1>1, <1>3, <2>1, FollowsSelf
  <1>6. ASSUME NEW i \in 0 .. n - 1, i \in Holds PROVE i + 1 \in Holds
    <2> DEFINE q == h[i]
               t == tabs[i + 1]
               r == TabPlaced(q, w, i + 1, t)
    <2>1. Done(q, i) /\ i + 1 \in 1 .. n /\ i + 1 \in 0 .. n /\ (i + 1) - 1 = i
      <3> HIDE DEF Done
      <3>. QED BY <1>1, <1>6
    <2>2. h[i + 1] = r
      BY <1>2, <1>3, <2>1 DEF InPlace
    <2>3. <<w, t>> \in DOMAIN q.tabs
      BY <1>4, <2>1
    <2>4. i + 1 \in 1 .. Len(WindowOf(q.session, q.windows[w]).tabs)
      <3>1. /\ Matches(q) /\ w \in DOMAIN q.windows
            /\ \A j \in 1 .. Len(tabs) : <<w, tabs[j]>> \in DOMAIN q.tabs
        BY <2>1 DEF Follows
      <3> HIDE DEF q
      <3>2. Len(tabs) <= Len(WindowOf(q.session, q.windows[w]).tabs)
        BY <3>1, Room
      <3>3. Len(WindowOf(q.session, q.windows[w]).tabs) \in Nat
        <4>1. SoundSession(q.session) /\ q.windows[w] \in Ids(q.session.windows)
          BY <3>1 DEF Matches, Covers
        <4>2. WindowOf(q.session, q.windows[w]).tabs \in Seq(StoredTab)
          BY <4>1, InWindow
        <4>. QED BY <4>2, LenProperties
      <3>. QED BY <1>1, <2>1, <3>2, <3>3 DEF n
    <2>5. \A j \in 1 .. i : k.tabs[<<w, tabs[j]>>] # k.tabs[<<w, t>>]
      <3> SUFFICES ASSUME NEW j \in 1 .. i, k.tabs[<<w, tabs[j]>>] = k.tabs[<<w, t>>]
                   PROVE  FALSE
        OBVIOUS
      <3>1. j \in 1 .. n /\ j # i + 1 /\ i + 1 \in 1 .. n
        BY <1>1, <2>1
      <3>2. <<w, tabs[j]>> \in DOMAIN k.tabs /\ <<w, t>> \in DOMAIN k.tabs
        BY <1>4, <2>1, <3>1
      <3>3. <<w, tabs[j]>> = <<w, t>>
        BY <3>2 DEF Matches, Covers
      <3>4. tabs[j] = tabs[i + 1]
        BY <3>3
      <3>. QED BY <1>1, <3>1, <3>4 DEF Listing
    <2>6. Placed(q, i) /\ q.tabs = k.tabs /\ \A j \in 1 .. i + 1 : j \in 1 .. i \/ j = i + 1
      BY <1>1, <2>1
    <2> HIDE DEF q
    <2>7. Placed(r, i + 1)
      <3>1. Matches(q) /\ i + 1 \in 1 .. Len(StoredIn(q, w).tabs)
        BY <2>1, <2>4 DEF Follows, StoredIn
      <3>2. \A j \in 1 .. (i + 1) - 1 : StoredIn(q, w).tabs[j].id # q.tabs[<<w, t>>]
        BY <2>1, <2>5, <2>6
      <3>3. /\ Beside(q, r, w)
            /\ StoredIn(r, w).tabs[i + 1].id = q.tabs[<<w, t>>]
            /\ \A j \in 1 .. (i + 1) - 1 : StoredIn(r, w).tabs[j] = StoredIn(q, w).tabs[j]
            /\ \A u : Located(q, w, u) => Located(r, w, u)
        BY <2>3, <3>1, <3>2, TabPlacedBeside
      <3>4. Beside(k, r, w)
        BY <2>6, <3>3, BesideTrans
      <3> HIDE DEF r
      <3>5. \A j \in 1 .. i : StoredIn(r, w).tabs[j].id = k.tabs[<<w, tabs[j]>>]
        BY <2>1, <2>6, <3>3
      <3>6. \A j \in 1 .. i + 1 : StoredIn(r, w).tabs[j].id = k.tabs[<<w, tabs[j]>>]
        BY <2>6, <3>3, <3>5 DEF t
      <3>. QED BY <2>6, <3>3, <3>4, <3>6
    <2> HIDE DEF t, Placed
    <2>8. /\ Moved(q, r, DOMAIN q.windows, DOMAIN q.tabs)
          /\ r.ok = q.ok /\ r.windows = q.windows /\ r.tabs = q.tabs
      <3>1. Matches(q)
        BY <2>1 DEF Follows
      <3>. QED BY <2>3, <2>4, <3>1, TabPlacedIs
    <2> HIDE DEF r
    <2>9. Done(r, i + 1)
      BY <2>1, <2>7, <2>8, FollowsTrans DEF Follows, Moved
    <2>. QED BY <2>1, <2>2, <2>9
  <1>7. n \in Holds
    <2> HIDE DEF Holds
    <2>. QED BY <1>1, <1>5, <1>6, Induction
  <1>8. Done(h[n], n)
    <2> HIDE DEF Done
    <2>. QED BY <1>7
  <1>9. InOrder(k, w, tabs) = h[n]
    BY <1>2, <1>3
  <1>. QED BY <1>8, <1>9 DEF n

LEMMA WindowSyncedIs ==
    ASSUME Showing, NEW k, Matches(k), Numbered(k), NEW w \in DOMAIN windows
    PROVE  LET q == WindowSynced(k, w)
           IN  /\ Follows(k, q) /\ Numbered(q)
               /\ DOMAIN k.windows \subseteq DOMAIN q.windows
               /\ DOMAIN q.windows \subseteq DOMAIN k.windows \cup {w}
               /\ Beside(k, q, w) /\ (q.ok => k.ok /\ Says(q, w))
  <1> DEFINE q == WindowSynced(k, w)
             tabs == CommittedTabs(w)
             bound == WindowBound(k, w)
             pruned == Pruned(bound, w)
             added == WithTabs(pruned, w, tabs)
             ordered == InOrder(added, w, tabs)
             last == ActiveStored(ordered, w)
  <1>1. /\ Listing(tabs)
        /\ \A i \in 1 .. Len(tabs) :
              /\ tabs[i] \in 1 .. next.tab - 1
              /\ CurrentLocation(pages[tabs[i]]) \in Location
    BY CommittedTabsAre
  <1>2. next.tab \in Nat
    BY DEF Showing
  <1>3. \/ q = k /\ (~k.ok \/ (tabs = <<>> /\ w \notin DOMAIN k.windows))
        \/ q = bound /\ ~bound.ok
        \/ bound.ok /\ q = added /\ ~added.ok
        \/ bound.ok /\ added.ok /\ q = last
    BY DEF WindowSynced
  <1>4. /\ Follows(k, bound) /\ DOMAIN bound.tabs = DOMAIN k.tabs
        /\ DOMAIN k.windows \subseteq DOMAIN bound.windows
        /\ DOMAIN bound.windows \subseteq DOMAIN k.windows \cup {w}
        /\ bound.ok => w \in DOMAIN bound.windows /\ k.ok
        /\ Beside(k, bound, w)
    <2>1. IF w \in DOMAIN k.windows \/ CanAddWindow(k.session)
          THEN Moved(k, bound, DOMAIN k.windows \cup {w}, DOMAIN k.tabs) /\ bound.ok = k.ok
          ELSE Moved(k, bound, DOMAIN k.windows, DOMAIN k.tabs) /\ ~bound.ok
      BY WindowBoundIs
    <2>2. Beside(k, bound, w)
      BY WindowBoundBeside
    <2> HIDE DEF bound
    <2>. QED BY <2>1, <2>2 DEF Moved, Follows
  <1>5. Numbered(bound)
    BY <1>4 DEF Numbered
  <1> HIDE DEF bound, tabs, q
  <1>6. ASSUME bound.ok
        PROVE  /\ Follows(k, added) /\ added.windows = bound.windows /\ Numbered(added)
               /\ added.ok => /\ \A i \in 1 .. Len(tabs) : <<w, tabs[i]>> \in DOMAIN added.tabs
                              /\ \A i \in 1 .. Len(tabs) : Located(added, w, tabs[i])
               /\ Beside(k, added, w)
               /\ \A b \in DOMAIN added.tabs :
                     b[1] = w => \E i \in 1 .. Len(tabs) : b[2] = tabs[i]
    <2>1. /\ Follows(bound, pruned) /\ pruned.windows = bound.windows
          /\ DOMAIN pruned.tabs = DOMAIN bound.tabs \ {<<w, t>> : t \in Lost(bound, w)}
          /\ Beside(bound, pruned, w)
      BY <1>2, <1>4, <1>5, PrunedIs DEF Follows
    <2> HIDE DEF pruned
    <2>2. ASSUME NEW b \in DOMAIN pruned.tabs, b[1] = w
          PROVE  \E i \in 1 .. Len(tabs) : b[2] = tabs[i]
      <3>1. b = <<w, b[2]>>
        BY <2>1, <2>2 DEF Follows, Matches, Covers
      <3>2. b \in DOMAIN bound.tabs /\ b[2] \notin Lost(bound, w)
        BY <2>1, <3>1
      <3>3. b[2] \in Range(CommittedTabs(w))
        BY <2>2, <3>2 DEF Lost, BoundIn
      <3>4. DOMAIN tabs = 1 .. Len(tabs)
        BY <1>1, LenProperties DEF Listing
      <3>. QED BY <3>3, <3>4 DEF Range, tabs
    <2>3. Matches(pruned) /\ w \in DOMAIN pruned.windows
      BY <1>4, <1>6, <2>1 DEF Follows
    <2>4. /\ Follows(pruned, added) /\ added.windows = pruned.windows
          /\ \A b \in DOMAIN added.tabs :
                b \in DOMAIN pruned.tabs \/ \E i \in 1 .. Len(tabs) : b = <<w, tabs[i]>>
          /\ added.ok => \A i \in 1 .. Len(tabs) : <<w, tabs[i]>> \in DOMAIN added.tabs
          /\ added.ok => \A i \in 1 .. Len(tabs) : Located(added, w, tabs[i])
          /\ Beside(pruned, added, w)
      <3>1. tabs \in Seq(DOMAIN pages)
        BY <1>1 DEF Listing
      <3>. QED BY <1>1, <2>3, <3>1, WithTabsIs
    <2> HIDE DEF added
    <2>5. Follows(k, added)
      BY <1>4, <2>1, <2>4, FollowsTrans DEF Follows
    <2>6. Numbered(added)
      BY <1>1, <1>5, <2>1, <2>4 DEF Numbered
    <2>7. \A b \in DOMAIN added.tabs : b[1] = w => \E i \in 1 .. Len(tabs) : b[2] = tabs[i]
      BY <2>4, <2>2
    <2>8. Beside(k, added, w)
      BY <1>4, <2>1, <2>4, BesideTrans
    <2>. QED BY <2>1, <2>4, <2>5, <2>6, <2>7, <2>8
  <1> HIDE DEF added
  <1>7. ASSUME bound.ok, added.ok
        PROVE  /\ Follows(k, last) /\ DOMAIN last.windows = DOMAIN bound.windows /\ Numbered(last)
               /\ Beside(k, last, w) /\ Told(last, w)
    <2>1. Matches(added) /\ w \in DOMAIN added.windows
      BY <1>4, <1>6, <1>7 DEF Follows
    <2>2. /\ Follows(added, ordered)
          /\ ordered.windows = added.windows /\ ordered.tabs = added.tabs
          /\ Beside(added, ordered, w)
          /\ \A i \in 1 .. Len(tabs) :
                StoredIn(ordered, w).tabs[i].id = added.tabs[<<w, tabs[i]>>]
          /\ \A t : Located(added, w, t) => Located(ordered, w, t)
      BY <1>1, <1>6, <1>7, <2>1, InOrderIs
    <2> HIDE DEF ordered
    <2>3. /\ Moved(ordered, last, DOMAIN ordered.windows, DOMAIN ordered.tabs)
          /\ last.windows = ordered.windows /\ last.tabs = ordered.tabs
      BY <2>2, ActiveStoredIs DEF Follows
    <2>4. /\ Beside(ordered, last, w) /\ StoredIn(last, w).tabs = StoredIn(ordered, w).tabs
          /\ <<w, windows[w].active>> \in DOMAIN ordered.tabs =>
                StoredIn(last, w).active = ordered.tabs[<<w, windows[w].active>>]
      BY <2>1, <2>2, ActiveStoredBeside DEF Follows
    <2> HIDE DEF last
    <2>5. Beside(k, last, w)
      BY <1>6, <1>7, <2>2, <2>4, BesideTrans
    <2>6. Told(last, w)
      <3>1. Matches(last) /\ w \in DOMAIN last.windows
        BY <2>1, <2>2, <2>3 DEF Moved
      <3>2. \A i \in 1 .. Len(tabs) :
               Located(last, w, tabs[i]) /\ StoredIn(last, w).tabs[i].id = last.tabs[<<w, tabs[i]>>]
        <4>1. \A i \in 1 .. Len(tabs) : Located(ordered, w, tabs[i])
          BY <1>6, <1>7, <2>2
        <4>. QED BY <2>2, <2>3, <2>4, <4>1 DEF Located
      <3>3. \A b \in DOMAIN last.tabs : b[1] = w => \E i \in 1 .. Len(tabs) : b[2] = tabs[i]
        BY <1>6, <1>7, <2>2, <2>3
      <3>4. <<w, windows[w].active>> \in DOMAIN last.tabs =>
               StoredIn(last, w).active = last.tabs[<<w, windows[w].active>>]
        BY <2>3, <2>4
      <3>. QED BY <1>1, <3>1, <3>2, <3>3, <3>4, ToldIs DEF tabs
    <2>7. Follows(added, last)
      BY <2>1, <2>2, <2>3, FollowsTrans DEF Follows, Moved
    <2>8. Follows(k, last)
      BY <1>6, <1>7, <2>7, FollowsTrans
    <2>. QED BY <1>6, <1>7, <2>2, <2>3, <2>8, <2>5, <2>6 DEF Moved, Numbered
  <1> HIDE DEF last
  <1>8. CASE q = k /\ (~k.ok \/ (tabs = <<>> /\ w \notin DOMAIN k.windows))
    BY <1>8, FollowsSelf, BesideSelf DEF q, Says, tabs
  <1>9. CASE q = bound /\ ~bound.ok
    BY <1>4, <1>5, <1>9 DEF q
  <1>10. CASE bound.ok /\ q = added /\ ~added.ok
    BY <1>4, <1>6, <1>10 DEF q
  <1>11. CASE bound.ok /\ added.ok /\ q = last
    <2>1. w \in DOMAIN last.windows /\ k.ok
      BY <1>4, <1>7, <1>11
    <2>2. Says(last, w)
      BY <1>7, <1>11, <2>1 DEF Says
    <2>. QED BY <1>4, <1>7, <1>11, <2>1, <2>2 DEF q
  <1>. QED BY <1>3, <1>8, <1>9, <1>10, <1>11

LEMMA WindowsSyncedIs ==
    ASSUME Showing, NEW k, Matches(k), Numbered(k), DOMAIN k.windows \subseteq DOMAIN windows,
           NEW seq \in Seq(DOMAIN windows)
    PROVE  LET q == WindowsSynced(k, seq)
           IN  /\ Follows(k, q) /\ Numbered(q) /\ DOMAIN q.windows \subseteq DOMAIN windows
               /\ q.ok => \A i \in 1 .. Len(seq) : Says(q, seq[i])
  <1> DEFINE n == Len(seq)
             Done(q, m) == /\ Follows(k, q) /\ Numbered(q)
                           /\ DOMAIN q.windows \subseteq DOMAIN windows
                           /\ q.ok => \A j \in 1 .. m : Says(q, seq[j])
  <1>1. n \in Nat /\ \A i \in 1 .. n : seq[i] \in DOMAIN windows
    BY LenProperties
  <1>2. PICK h : /\ h[0] = k
                 /\ \A i \in 1 .. n : h[i] = WindowSynced(h[i - 1], seq[i])
                 /\ WindowsSynced(k, seq) = h[n]
    BY WindowsRun
  <1> DEFINE Holds == {i \in 0 .. n : Done(h[i], i)}
  <1> HIDE DEF n
  <1>3. 0 \in Holds
    BY <1>1, <1>2, FollowsSelf
  <1>4. ASSUME NEW i \in 0 .. n - 1, i \in Holds PROVE i + 1 \in Holds
    <2> DEFINE q == h[i]
               w == seq[i + 1]
               r == WindowSynced(q, w)
    <2>1. /\ Done(q, i) /\ i + 1 \in 1 .. n /\ i + 1 \in 0 .. n /\ (i + 1) - 1 = i
          /\ w \in DOMAIN windows
      BY <1>1, <1>4
    <2>2. h[i + 1] = r
      BY <1>2, <2>1
    <2>3. \A j \in 1 .. i + 1 : j \in 1 .. i \/ seq[j] = w
      BY <1>1, <2>1
    <2> HIDE DEF q, w
    <2>4. /\ Follows(q, r) /\ Numbered(r) /\ DOMAIN r.windows \subseteq DOMAIN q.windows \cup {w}
          /\ Beside(q, r, w) /\ (r.ok => q.ok /\ Says(r, w))
      BY <2>1, WindowSyncedIs DEF Follows
    <2> HIDE DEF r
    <2>5. ASSUME NEW o, o # w, Says(q, o)
          PROVE  Says(r, o)
      <3>1. o \in DOMAIN r.windows <=> o \in DOMAIN q.windows
        BY <2>4, <2>5 DEF Beside
      <3>. QED BY <2>4, <2>5, <3>1, ToldStill DEF Says
    <2>6. r.ok => \A j \in 1 .. i + 1 : Says(r, seq[j])
      BY <2>1, <2>3, <2>4, <2>5
    <2>7. Done(r, i + 1)
      BY <2>1, <2>4, <2>6, FollowsTrans
    <2>. QED BY <2>1, <2>2, <2>7
  <1>5. n \in Holds
    <2> HIDE DEF Holds
    <2>. QED BY <1>1, <1>3, <1>4, Induction
  <1>6. Done(h[n], n)
    BY <1>5
  <1>. QED BY <1>2, <1>6 DEF n

\* A synchronisation leaves the bindings true of the session it makes, be it
\* refused half-way or not.
LEMMA SyncedIs ==
    ASSUME Showing, Matches(Started),
           DOMAIN bindings.windows \subseteq 1 .. next.window - 1, Numbered(Started)
    PROVE  /\ Follows(Started, Synced) /\ Numbered(Synced)
           /\ DOMAIN Synced.windows \subseteq DOMAIN windows
           /\ Synced.ok => \A w \in DOMAIN windows : Says(Synced, w)
  <1> DEFINE S == DOMAIN bindings.windows \ DOMAIN windows
             closed == Sorted(S)
             open == Sorted(DOMAIN windows)
             dropped == Dropped(Started, closed)
  <1>1. /\ DOMAIN windows \in SUBSET Nat /\ IsFiniteSet(DOMAIN windows)
        /\ S \in SUBSET Nat /\ IsFiniteSet(S)
    <2>1. DOMAIN windows \in SUBSET (1 .. next.window - 1)
      BY DEF Showing
    <2>2. S \in SUBSET (1 .. next.window - 1)
      OBVIOUS
    <2>3. next.window \in Nat /\ IsFiniteSet(1 .. next.window - 1)
      BY FS_Interval DEF Showing
    <2> HIDE DEF S
    <2>4. IsFiniteSet(S) /\ IsFiniteSet(DOMAIN windows)
      BY <2>1, <2>2, <2>3, FS_Subset
    <2>. QED BY <2>1, <2>2, <2>4
  <1>2. S \in SUBSET DOMAIN Started.windows
    BY DEF Started
  <1>3. DOMAIN Started.windows = DOMAIN bindings.windows
    BY DEF Started
  <1> HIDE DEF S
  <1>4. /\ closed \in Seq(S)
        /\ \A i, j \in 1 .. Len(closed) : i < j => closed[i] < closed[j]
        /\ \A x \in S : \E i \in 1 .. Len(closed) : closed[i] = x
    BY <1>1, SortedIs
  <1>5. /\ open \in Seq(DOMAIN windows)
        /\ \A x \in DOMAIN windows : \E i \in 1 .. Len(open) : open[i] = x
    BY <1>1, SortedIs
  <1> HIDE DEF closed, open
  <1>6. \A i, j \in 1 .. Len(closed) : closed[i] = closed[j] => i = j
    <2>1. Len(closed) \in Nat /\ \A i \in 1 .. Len(closed) : closed[i] \in Nat
      BY <1>1, <1>4, LenProperties
    <2>2. ASSUME NEW i \in 1 .. Len(closed), NEW j \in 1 .. Len(closed), closed[i] = closed[j]
          PROVE  i = j
      <3>1. ~(i < j) /\ ~(j < i)
        BY <1>4, <2>1, <2>2
      <3>. QED BY <2>1, <3>1
    <2>. QED BY <2>2
  <1>7. /\ Follows(Started, dropped)
        /\ DOMAIN dropped.windows = DOMAIN Started.windows \ S
        /\ DOMAIN dropped.tabs \subseteq DOMAIN Started.tabs
    BY <1>2, <1>4, <1>6, DroppedIs
  <1> HIDE DEF dropped
  <1>8. DOMAIN dropped.windows \subseteq DOMAIN windows
    BY <1>3, <1>7 DEF S
  <1>9. Numbered(dropped) /\ Matches(dropped)
    BY <1>7 DEF Numbered, Follows
  <1> DEFINE q == WindowsSynced(dropped, open)
  <1>10. /\ Follows(dropped, q) /\ Numbered(q) /\ DOMAIN q.windows \subseteq DOMAIN windows
         /\ q.ok => \A i \in 1 .. Len(open) : Says(q, open[i])
    BY <1>5, <1>8, <1>9, WindowsSyncedIs
  <1>11. Synced = q
    BY DEF Synced, dropped, closed, open, S
  <1> HIDE DEF q
  <1>12. Follows(Started, q)
    BY <1>7, <1>10, FollowsTrans
  <1>13. q.ok => \A w \in DOMAIN windows : Says(q, w)
    BY <1>5, <1>10
  <1>. QED BY <1>10, <1>11, <1>12, <1>13

-----------------------------------------------------------------------------
(* A browser restored from a session.                                      *)

Joined(p, x) == p \o x

\* An element of the first m parts.
InParts(parts, m, x) == \E a \in 1 .. m : \E i \in DOMAIN parts[a] : x = parts[a][i]

Laid(X, parts, q, m) ==
    /\ q \in Seq(X)
    /\ \A n \in 1 .. Len(q) : InParts(parts, m, q[n])
    /\ \A a \in 1 .. m : \A i \in DOMAIN parts[a] : \E n \in 1 .. Len(q) : q[n] = parts[a][i]
    /\ \A o, n \in 1 .. Len(q) : q[o] = q[n] => o = n

Apart(parts) ==
    \A a, b \in DOMAIN parts : \A i \in DOMAIN parts[a], j \in DOMAIN parts[b] :
        parts[a][i] = parts[b][j] => a = b /\ i = j

LEMMA LaidOn ==
    ASSUME NEW X, NEW parts \in Seq(Seq(X)), Apart(parts),
           NEW m \in Nat \ {0}, m + 1 <= Len(parts), NEW p, Laid(X, parts, p, m)
    PROVE  Laid(X, parts, Joined(p, parts[m + 1]), m + 1)
  <1> DEFINE x == parts[m + 1]
             q == Joined(p, x)
  <1>1. /\ DOMAIN parts = 1 .. Len(parts) /\ m + 1 \in 1 .. Len(parts)
        /\ 1 .. m + 1 \subseteq DOMAIN parts /\ Len(parts) \in Nat
    <2>1. DOMAIN parts = 1 .. Len(parts) /\ Len(parts) \in Nat
      BY LenProperties
    <2>. QED BY <2>1
  <1>2. \A a \in 1 .. m + 1 : (a \in 1 .. m /\ a # m + 1) \/ a = m + 1
    OBVIOUS
  <1>3. x \in Seq(X)
    BY <1>1, LenProperties
  <1>4. \A i \in DOMAIN x : InParts(parts, m + 1, x[i])
    BY <1>1 DEF InParts
  <1>5. \A y : InParts(parts, m, y) => InParts(parts, m + 1, y)
    <2>1. 1 .. m \subseteq 1 .. m + 1
      OBVIOUS
    <2>. QED BY <2>1 DEF InParts
  <1>6. \A i, j \in DOMAIN x : x[i] = x[j] => i = j
    BY <1>1 DEF Apart
  <1>7. \A i \in DOMAIN x : ~InParts(parts, m, x[i])
    <2> SUFFICES ASSUME NEW i \in DOMAIN x, NEW a \in 1 .. m, NEW j \in DOMAIN parts[a],
                        x[i] = parts[a][j]
                 PROVE  FALSE
      BY DEF InParts
    <2>1. a \in DOMAIN parts /\ m + 1 \in DOMAIN parts /\ a # m + 1
      BY <1>1
    <2>. QED BY <2>1 DEF Apart
  <1>8. \A i \in DOMAIN x : x[i] = parts[m + 1][i]
    OBVIOUS
  <1>9. \A i \in DOMAIN parts[m + 1] : i \in DOMAIN x
    OBVIOUS
  <1> HIDE DEF x
  <1>10. DOMAIN x = 1 .. Len(x) /\ Len(x) \in Nat /\ p \in Seq(X) /\ Len(p) \in Nat
    BY <1>3, LenProperties DEF Laid
  <1>11. /\ q \in Seq(X) /\ Len(q) = Len(p) + Len(x)
         /\ \A n \in 1 .. Len(p) + Len(x) :
               q[n] = IF n <= Len(p) THEN p[n] ELSE x[n - Len(p)]
    BY <1>3, <1>10, ConcatProperties DEF Joined
  <1> HIDE DEF q
  <1> DEFINE c == Len(p)
             d == Len(x)
  <1>12. /\ c \in Nat /\ d \in Nat /\ Len(q) = c + d /\ DOMAIN x = 1 .. d
         /\ \A n \in 1 .. c + d : q[n] = IF n <= c THEN p[n] ELSE x[n - c]
    BY <1>10, <1>11
  <1>13. /\ \A n \in 1 .. c : InParts(parts, m, p[n])
         /\ \A a \in 1 .. m : \A i \in DOMAIN parts[a] : \E n \in 1 .. c : p[n] = parts[a][i]
         /\ \A o, n \in 1 .. c : p[o] = p[n] => o = n
    BY DEF Laid
  <1> HIDE DEF c, d
  <1>14. \A n \in 1 .. c : n \in 1 .. c + d /\ q[n] = p[n]
    <2> TAKE n \in 1 .. c
    <2>1. n \in 1 .. c + d /\ n <= c
      BY <1>12
    <2>. QED BY <1>12, <2>1
  <1>15. \A i \in 1 .. d : c + i \in 1 .. c + d /\ q[c + i] = x[i]
    <2> TAKE i \in 1 .. d
    <2>1. c + i \in 1 .. c + d /\ ~(c + i <= c) /\ (c + i) - c = i
      BY <1>12
    <2>. QED BY <1>12, <2>1
  <1>16. \A n \in 1 .. c + d : n \in 1 .. c \/ \E i \in 1 .. d : n = c + i
    <2> TAKE n \in 1 .. c + d
    <2>1. CASE n <= c
      BY <1>12, <2>1
    <2>2. CASE ~(n <= c)
      <3>1. n - c \in 1 .. d /\ n = c + (n - c)
        BY <1>12, <2>2
      <3>. QED BY <3>1
    <2>. QED BY <2>1, <2>2
  <1>17. /\ \A i, j \in 1 .. d : x[i] = x[j] => i = j
         /\ \A i \in 1 .. d : ~InParts(parts, m, x[i])
    BY <1>6, <1>7, <1>12
  <1>18. \A n \in 1 .. c + d : InParts(parts, m + 1, q[n])
    <2> TAKE n \in 1 .. c + d
    <2>1. CASE n \in 1 .. c
      BY <1>5, <1>13, <1>14, <2>1
    <2>2. CASE \E i \in 1 .. d : n = c + i
      BY <1>4, <1>12, <1>15, <2>2
    <2>. QED BY <1>16, <2>1, <2>2
  <1>19. \A a \in 1 .. m + 1 : \A i \in DOMAIN parts[a] : \E n \in 1 .. c + d : q[n] = parts[a][i]
    <2> SUFFICES ASSUME NEW a \in 1 .. m + 1, NEW i \in DOMAIN parts[a]
                 PROVE  \E n \in 1 .. c + d : q[n] = parts[a][i]
      OBVIOUS
    <2>1. CASE a \in 1 .. m
      BY <1>13, <1>14, <2>1
    <2>2. CASE a = m + 1
      <3>1. i \in 1 .. d /\ x[i] = parts[a][i]
        BY <1>8, <1>9, <1>12, <2>2
      <3>. QED BY <1>15, <3>1
    <2>. QED BY <1>2, <2>1, <2>2
  <1>20. \A o, n \in 1 .. c + d : q[o] = q[n] => o = n
    <2> SUFFICES ASSUME NEW o \in 1 .. c + d, NEW n \in 1 .. c + d, q[o] = q[n]
                 PROVE  o = n
      OBVIOUS
    <2>1. CASE o \in 1 .. c /\ n \in 1 .. c
      BY <1>13, <1>14, <2>1
    <2>2. CASE o \in 1 .. c /\ \E i \in 1 .. d : n = c + i
      BY <1>13, <1>14, <1>15, <1>17, <2>2
    <2>3. CASE n \in 1 .. c /\ \E i \in 1 .. d : o = c + i
      BY <1>13, <1>14, <1>15, <1>17, <2>3
    <2>4. CASE (\E i \in 1 .. d : n = c + i) /\ \E i \in 1 .. d : o = c + i
      BY <1>15, <1>17, <2>4
    <2>. QED BY <1>16, <2>1, <2>2, <2>3, <2>4
  <1> HIDE DEF x
  <1>. QED BY <1>11, <1>12, <1>18, <1>19, <1>20 DEF Laid, q, x

\* A sequence of sequences, laid end to end: every element is there, and once.
LEMMA Flattened ==
    ASSUME NEW X, NEW parts \in Seq(Seq(X)), parts # <<>>, Apart(parts)
    PROVE  Laid(X, parts, FlattenSeq(parts), Len(parts))
  <1> DEFINE L == Len(parts)
             Unfolds(f, m) ==
                 f = [a \in 1 .. m |-> IF a = 1 THEN parts[a] ELSE Joined(f[a - 1], parts[a])]
             Exists == {m \in 0 .. L : \E f : Unfolds(f, m)}
             F == CHOOSE f : Unfolds(f, L)
             Holds == {m \in 0 .. L - 1 : Laid(X, parts, F[m + 1], m + 1)}
  <1>1. L \in Nat \ {0} /\ DOMAIN parts = 1 .. L
    <2>1. L \in Nat /\ DOMAIN parts = 1 .. L
      BY LenProperties
    <2>2. L # 0
      BY EmptySeq
    <2>. QED BY <2>1, <2>2
  <1>2. FlattenSeq(parts) = F[L]
    BY <1>1 DEF FlattenSeq, Joined
  <1> HIDE DEF L
  <1>3. L \in Exists
    <2>1. 0 \in Exists
      <3> DEFINE g == [a \in 1 .. 0 |-> parts[a]]
      <3>1. Unfolds(g, 0)
        OBVIOUS
      <3> HIDE DEF g, Unfolds
      <3>. QED BY <1>1, <3>1
    <2>2. ASSUME NEW m \in 0 .. L - 1, m \in Exists PROVE m + 1 \in Exists
      <3>1. PICK f : Unfolds(f, m)
        BY <2>2
      <3> DEFINE g == [a \in 1 .. m + 1 |-> IF a = 1 THEN parts[a] ELSE Joined(f[a - 1], parts[a])]
      <3>2. \A a \in 1 .. m : a \in 1 .. m + 1 /\ g[a] = f[a]
        <4>1. \A a \in 1 .. m : a \in 1 .. m + 1
          BY <1>1
        <4>. QED BY <3>1, <4>1
      <3>3. \A a \in 1 .. m + 1 : a # 1 => a - 1 \in 1 .. m
        BY <1>1
      <3>4. Unfolds(g, m + 1)
        <4>1. \A a \in 1 .. m + 1 : a # 1 => g[a - 1] = f[a - 1]
          <5> HIDE DEF g
          <5>. QED BY <3>2, <3>3
        <4>. QED BY <4>1
      <3> HIDE DEF g, Unfolds
      <3>. QED BY <1>1, <3>4
    <2> HIDE DEF Exists
    <2>. QED BY <1>1, <2>1, <2>2, Induction
  <1>4. Unfolds(F, L)
    BY <1>3
  <1> HIDE DEF F
  <1>5. F[1] = parts[1]
    BY <1>1, <1>4
  <1>6. \A m \in 1 .. L - 1 : F[m + 1] = Joined(F[m], parts[m + 1])
    <2> TAKE m \in 1 .. L - 1
    <2>1. m + 1 \in 1 .. L /\ m + 1 # 1 /\ (m + 1) - 1 = m
      BY <1>1
    <2>. QED BY <1>4, <2>1
  <1>7. 0 \in Holds
    <2>1. /\ parts[1] \in Seq(X) /\ DOMAIN parts[1] = 1 .. Len(parts[1])
          /\ 1 \in DOMAIN parts /\ 1 .. 1 = {1}
      <3>1. 1 \in 1 .. L
        BY <1>1
      <3>. QED BY <1>1, <3>1, LenProperties
    <2>2. \A i, j \in DOMAIN parts[1] : parts[1][i] = parts[1][j] => i = j
      BY <2>1 DEF Apart
    <2>3. Laid(X, parts, parts[1], 1)
      BY <2>1, <2>2 DEF Laid, InParts
    <2>. QED BY <1>1, <1>5, <2>3
  <1>8. ASSUME NEW m \in 0 .. (L - 1) - 1, m \in Holds PROVE m + 1 \in Holds
    <2>1. /\ Laid(X, parts, F[m + 1], m + 1) /\ m + 1 \in 1 .. L - 1 /\ m + 1 \in Nat \ {0}
          /\ (m + 1) + 1 <= Len(parts)
      BY <1>1, <1>8 DEF L
    <2>2. Laid(X, parts, Joined(F[m + 1], parts[(m + 1) + 1]), (m + 1) + 1)
      BY <2>1, LaidOn
    <2>3. Laid(X, parts, F[(m + 1) + 1], (m + 1) + 1)
      BY <1>6, <2>1, <2>2
    <2>4. m + 1 \in 0 .. L - 1
      BY <2>1
    <2>. QED BY <2>3, <2>4
  <1>9. L - 1 \in Nat /\ (L - 1) + 1 = L
    BY <1>1
  <1>10. L - 1 \in Holds
    <2> HIDE DEF Holds
    <2>. QED BY <1>7, <1>8, <1>9, Induction
  <1>11. Laid(X, parts, F[L], L)
    BY <1>9, <1>10
  <1>. QED BY <1>2, <1>11 DEF L

\* Where the tabs of a session lie.
Parts(s) == [i \in DOMAIN s.windows |-> [j \in DOMAIN s.windows[i].tabs |-> <<i, j>>]]
Flat(s) == FlattenSeq(Parts(s))
Number(s, i, j) == CHOOSE n \in DOMAIN Flat(s) : Flat(s)[n] = <<i, j>>
NumbersOf(s, i) == [j \in DOMAIN s.windows[i].tabs |-> Number(s, i, j)]
StoredAs(s, n) == s.windows[Flat(s)[n][1]].tabs[Flat(s)[n][2]]

\* The places of a session: a window by its position, and a tab in it.
PlaceIn(s, i, j) == i \in 1 .. Len(s.windows) /\ j \in 1 .. Len(s.windows[i].tabs)

LEMMA SessionParts ==
    ASSUME NEW s, SoundSession(s)
    PROVE  /\ DOMAIN s.windows = 1 .. Len(s.windows) /\ Len(s.windows) \in Nat
           /\ \A i \in 1 .. Len(s.windows) :
                 /\ s.windows[i].tabs \in Seq(StoredTab)
                 /\ DOMAIN s.windows[i].tabs = 1 .. Len(s.windows[i].tabs)
                 /\ Len(s.windows[i].tabs) \in Nat
                 /\ SoundWindow(s.windows[i], s.nextTab)
  <1>1. s.windows \in Seq(StoredWindow)
    BY DEF SoundSession, StoredSession
  <1>2. ASSUME NEW i \in 1 .. Len(s.windows)
        PROVE  s.windows[i].tabs \in Seq(StoredTab) /\ SoundWindow(s.windows[i], s.nextTab)
    BY WindowAt DEF StoredWindow
  <1>. QED BY <1>1, <1>2, LenProperties

LEMMA FlatIs ==
    ASSUME NEW s, SoundSession(s), s.windows # <<>>
    PROVE  /\ Len(Flat(s)) \in Nat /\ DOMAIN Flat(s) = 1 .. Len(Flat(s))
           /\ \A n \in 1 .. Len(Flat(s)) :
                 /\ Flat(s)[n] = <<Flat(s)[n][1], Flat(s)[n][2]>>
                 /\ PlaceIn(s, Flat(s)[n][1], Flat(s)[n][2])
                 /\ Number(s, Flat(s)[n][1], Flat(s)[n][2]) = n
           /\ \A i, j : PlaceIn(s, i, j) =>
                 /\ Number(s, i, j) \in 1 .. Len(Flat(s))
                 /\ Flat(s)[Number(s, i, j)] = <<i, j>>
  <1> DEFINE X == Nat \X Nat
             parts == Parts(s)
             flat == Flat(s)
             L == Len(s.windows)
  <1>1. /\ DOMAIN s.windows = 1 .. L /\ L \in Nat
        /\ \A i \in 1 .. L : /\ DOMAIN s.windows[i].tabs = 1 .. Len(s.windows[i].tabs)
                             /\ Len(s.windows[i].tabs) \in Nat
    BY SessionParts
  <1>2. L # 0
    <2>1. s.windows \in Seq(StoredWindow)
      BY DEF SoundSession, StoredSession
    <2>. QED BY <2>1, EmptySeq
  <1> HIDE DEF L
  <1>3. /\ DOMAIN parts = 1 .. L
        /\ \A i \in 1 .. L : DOMAIN parts[i] = 1 .. Len(s.windows[i].tabs)
        /\ \A i \in 1 .. L : \A j \in DOMAIN parts[i] : parts[i][j] = <<i, j>>
    BY <1>1 DEF Parts
  <1>4. \A i \in 1 .. L : parts[i] \in Seq(X)
    <2> TAKE i \in 1 .. L
    <2>1. parts[i] = [j \in 1 .. Len(s.windows[i].tabs) |-> <<i, j>>]
      BY <1>1 DEF Parts
    <2>2. parts[i] \in [1 .. Len(s.windows[i].tabs) -> X]
      BY <1>1, <2>1
    <2> HIDE DEF X, parts
    <2>. QED BY <1>1, <2>2, SeqDef
  <1>5. parts \in Seq(Seq(X)) /\ Len(parts) = L
    <2>1. parts = [i \in 1 .. L |-> parts[i]]
      BY <1>1 DEF Parts
    <2> HIDE DEF X, parts
    <2>2. parts \in [1 .. L -> Seq(X)]
      BY <1>4, <2>1
    <2>3. parts \in Seq(Seq(X))
      BY <1>1, <2>2, SeqDef
    <2>4. DOMAIN parts = 1 .. Len(parts) /\ Len(parts) \in Nat
      BY <2>3, LenProperties
    <2>. QED BY <1>1, <1>3, <2>3, <2>4
  <1>6. parts # <<>>
    <2> HIDE DEF X, parts
    <2>. QED BY <1>2, <1>5, EmptySeq
  <1>7. Apart(parts)
    BY <1>3 DEF Apart
  <1> HIDE DEF parts, X
  <1>8. Laid(X, parts, flat, L)
    BY <1>5, <1>6, <1>7, Flattened DEF Flat, parts
  <1> HIDE DEF flat
  <1>9. flat \in Seq(X) /\ Len(flat) \in Nat /\ DOMAIN flat = 1 .. Len(flat)
    BY <1>8, LenProperties DEF Laid
  <1>10. \A n \in 1 .. Len(flat) :
           flat[n] = <<flat[n][1], flat[n][2]>> /\ PlaceIn(s, flat[n][1], flat[n][2])
    <2> TAKE n \in 1 .. Len(flat)
    <2>1. PICK i \in 1 .. L : \E j \in DOMAIN parts[i] : flat[n] = parts[i][j]
      BY <1>8 DEF Laid, InParts
    <2>2. PICK j \in DOMAIN parts[i] : flat[n] = <<i, j>>
      BY <1>3, <2>1
    <2>3. j \in 1 .. Len(s.windows[i].tabs)
      BY <1>3
    <2>. QED BY <2>2, <2>3 DEF PlaceIn, L
  <1>11. ASSUME NEW i, NEW j, PlaceIn(s, i, j)
         PROVE  Number(s, i, j) \in 1 .. Len(flat) /\ flat[Number(s, i, j)] = <<i, j>>
    <2>1. i \in 1 .. L /\ j \in DOMAIN parts[i] /\ parts[i][j] = <<i, j>>
      BY <1>3, <1>11 DEF PlaceIn, L
    <2>2. \E n \in DOMAIN flat : flat[n] = <<i, j>>
      BY <1>8, <1>9, <2>1 DEF Laid
    <2>. QED BY <1>9, <2>2 DEF Number, flat
  <1>12. \A n \in 1 .. Len(flat) : Number(s, flat[n][1], flat[n][2]) = n
    <2> TAKE n \in 1 .. Len(flat)
    <2>1. /\ Number(s, flat[n][1], flat[n][2]) \in 1 .. Len(flat)
          /\ flat[Number(s, flat[n][1], flat[n][2])] = flat[n]
      BY <1>10, <1>11
    <2>. QED BY <1>8, <2>1 DEF Laid
  <1>. QED BY <1>9, <1>10, <1>11, <1>12 DEF flat

LEMMA RestoredParts ==
    ASSUME NEW s
    PROVE  /\ Restored(s) = [windows |-> Restored(s).windows, pages |-> Restored(s).pages,
                             next |-> Restored(s).next, bindings |-> Restored(s).bindings]
           /\ Restored(s).windows =
                  [i \in DOMAIN s.windows |->
                      [tabs |-> NumbersOf(s, i),
                       active |-> RestoredActive(s.windows[i], NumbersOf(s, i)),
                       activation |-> NoActivation, edit |-> 0]]
           /\ Restored(s).pages =
                  [n \in DOMAIN Flat(s) |-> CommitNew(NewTab, Entry(n, StoredAs(s, n).location))]
           /\ Restored(s).next =
                  [window |-> Len(s.windows) + 1, tab |-> Len(Flat(s)) + 1,
                   activation |-> 1, navigation |-> Len(Flat(s)) + 1, entry |-> Len(Flat(s)) + 1]
           /\ Restored(s).bindings =
                  [windows |-> [i \in DOMAIN s.windows |-> s.windows[i].id],
                   tabs |-> [b \in {<<Flat(s)[n][1], n>> : n \in DOMAIN Flat(s)} |->
                                StoredAs(s, b[2]).id]]
  <1> DEFINE ws == [i \in DOMAIN s.windows |->
                      [NewWindow EXCEPT !.tabs = NumbersOf(s, i),
                                        !.active = RestoredActive(s.windows[i], NumbersOf(s, i))]]
             ps == [n \in DOMAIN Flat(s) |-> CommitNew(NewTab, Entry(n, StoredAs(s, n).location))]
             nx == [window |-> Len(s.windows) + 1, tab |-> Len(Flat(s)) + 1,
                    activation |-> 1, navigation |-> Len(Flat(s)) + 1, entry |-> Len(Flat(s)) + 1]
             bs == [windows |-> [i \in DOMAIN s.windows |-> s.windows[i].id],
                    tabs |-> [b \in {<<Flat(s)[n][1], n>> : n \in DOMAIN Flat(s)} |->
                                 StoredAs(s, b[2]).id]]
  <1>1. Restored(s) = [windows |-> ws, pages |-> ps, next |-> nx, bindings |-> bs]
    BY DEF Restored, NumbersOf, Number, Flat, Parts, StoredAs
  <1>2. ws = [i \in DOMAIN s.windows |->
                 [tabs |-> NumbersOf(s, i),
                  active |-> RestoredActive(s.windows[i], NumbersOf(s, i)),
                  activation |-> NoActivation, edit |-> 0]]
    <2>1. ASSUME NEW x, NEW y
          PROVE  [NewWindow EXCEPT !.tabs = x, !.active = y]
                     = [tabs |-> x, active |-> y, activation |-> NoActivation, edit |-> 0]
      <3> DEFINE z == [NewWindow EXCEPT !.tabs = x]
      <3>1. z = [tabs |-> x, active |-> 0, activation |-> NoActivation, edit |-> 0]
        BY DEF NewWindow
      <3> HIDE DEF z
      <3>2. [z EXCEPT !.active = y]
                = [tabs |-> x, active |-> y, activation |-> NoActivation, edit |-> 0]
        BY <3>1
      <3>. QED BY <3>2 DEF z
    <2>. QED BY <2>1
  <1> HIDE DEF ws, ps, nx, bs
  <1>3. /\ Restored(s).windows = ws /\ Restored(s).pages = ps
        /\ Restored(s).next = nx /\ Restored(s).bindings = bs
    BY <1>1
  <1>. QED BY <1>1, <1>2, <1>3 DEF ps, nx, bs

-----------------------------------------------------------------------------
(* The history of a tab.  bound is past all entries that have a number.    *)

SoundTab(p, bound) ==
    /\ p = [history |-> p.history, current |-> p.current, pending |-> p.pending]
    /\ p.pending = [id |-> p.pending.id, entry |-> p.pending.entry]
    /\ p.history \in Seq(HistoryEntry) /\ p.current \in Nat
    /\ p.pending.id \in Nat /\ p.pending.entry \in Nat
    /\ Len(p.history) <= MaxEntries
    /\ \A i, j \in 1 .. Len(p.history) : i < j => p.history[i].id < p.history[j].id
    /\ \A i \in 1 .. Len(p.history) : p.history[i].id < bound
    /\ p.history # <<>> <=> p.current # 0
    /\ {p.current, p.pending.entry} \subseteq EntryIds(p) \cup {0}

LEMMA SoundTabLater ==
    ASSUME NEW p, NEW b \in Nat, NEW c \in Nat, b <= c, SoundTab(p, b)
    PROVE  SoundTab(p, c)
  <1>1. \A i \in 1 .. Len(p.history) : p.history[i].id \in Nat
    <2>1. p.history \in Seq(HistoryEntry)
      BY DEF SoundTab
    <2>2. \A i \in 1 .. Len(p.history) : p.history[i] \in HistoryEntry
      BY <2>1, LenProperties
    <2>. QED BY <2>2 DEF HistoryEntry
  <1>2. \A i \in 1 .. Len(p.history) : p.history[i].id < c
    BY <1>1 DEF SoundTab
  <1>. QED BY <1>2 DEF SoundTab

LEMMA NewTabIs ==
    ASSUME NEW bound \in Nat
    PROVE  SoundTab(NewTab, bound) /\ ~Committed(NewTab)
  <1>1. /\ NewTab.history = <<>> /\ NewTab.current = 0
        /\ NewTab.pending = [id |-> 0, entry |-> 0]
        /\ NewTab = [history |-> NewTab.history, current |-> NewTab.current,
                     pending |-> NewTab.pending]
    BY DEF NewTab, NoIntent, Intent
  <1>2. <<>> \in Seq(HistoryEntry) /\ Len(<<>>) = 0
    OBVIOUS
  <1> HIDE DEF NewTab
  <1>3. EntryIds(NewTab) = {}
    BY <1>1 DEF EntryIds
  <1>4. ~Committed(NewTab)
    BY <1>1, <1>2, <1>3, CurrentAt
  <1>. QED BY <1>1, <1>2, <1>4, HistoryConstants DEF SoundTab, HistoryConstants

LEMMA StartIs ==
    ASSUME NEW p, NEW bound, SoundTab(p, bound), NEW id \in Nat,
           NEW entry \in EntryIds(p) \cup {0}
    PROVE  /\ SoundTab(Start(p, Intent(id, entry)), bound)
           /\ Start(p, Intent(id, entry)).history = p.history
           /\ Start(p, Intent(id, entry)).current = p.current
  <1> DEFINE q == Start(p, Intent(id, entry))
  <1>1. PICK h, c, d : p = [history |-> h, current |-> c, pending |-> d]
    BY DEF SoundTab
  <1>2. q = [history |-> p.history, current |-> p.current, pending |-> [id |-> id, entry |-> entry]]
    BY <1>1 DEF Start, Intent
  <1>3. \A x \in EntryIds(p) : x \in Nat
    <2>1. p.history \in Seq(HistoryEntry) /\ DOMAIN p.history = 1 .. Len(p.history)
      BY LenProperties DEF SoundTab
    <2>2. \A i \in 1 .. Len(p.history) : p.history[i] \in HistoryEntry
      BY <2>1, LenProperties
    <2>. QED BY <2>1, <2>2 DEF EntryIds, HistoryEntry
  <1> HIDE DEF q
  <1>4. EntryIds(q) = EntryIds(p)
    BY <1>2 DEF EntryIds
  <1>5. /\ q.history = p.history /\ q.current = p.current
        /\ q.pending = [id |-> id, entry |-> entry]
        /\ q.pending.id \in Nat /\ q.pending.entry \in Nat
        /\ q.pending = [id |-> q.pending.id, entry |-> q.pending.entry]
        /\ q = [history |-> q.history, current |-> q.current, pending |-> q.pending]
        /\ q.pending.entry \in EntryIds(p) \cup {0}
    BY <1>2, <1>3
  <1>. QED BY <1>4, <1>5 DEF SoundTab, q

LEMMA StoppedIs ==
    ASSUME NEW p, NEW bound, SoundTab(p, bound)
    PROVE  /\ SoundTab(Stopped(p), bound)
           /\ Stopped(p).history = p.history /\ Stopped(p).current = p.current
  <1>1. Stopped(p) = Start(p, Intent(0, 0))
    BY DEF Stopped, Start, NoIntent
  <1>. QED BY <1>1, StartIs

LEMMA WithinLimitIs ==
    ASSUME NEW X, NEW h \in Seq(X)
    PROVE  \E d \in Nat :
               /\ WithinLimit(h) \in Seq(X)
               /\ Len(WithinLimit(h)) = Len(h) - d /\ Len(WithinLimit(h)) <= MaxEntries
               /\ Len(h) # 0 => d < Len(h)
               /\ \A i \in 1 .. Len(WithinLimit(h)) : WithinLimit(h)[i] = h[d + i]
  <1> DEFINE n == Len(h)
  <1>1. n \in Nat /\ MaxEntries \in Nat \ {0} /\ \A i \in 1 .. n : h[i] \in X
    BY LenProperties, HistoryConstants DEF HistoryConstants
  <1>2. CASE n > MaxEntries
    <2> DEFINE d == n - MaxEntries
               q == SubSeq(h, d + 1, n)
    <2>1. d \in Nat /\ d < n /\ n - d = MaxEntries
      BY <1>1, <1>2
    <2>2. WithinLimit(h) = q
      BY <1>2 DEF WithinLimit
    <2> HIDE DEF d, n
    <2>3. \A i \in d + 1 .. n : h[i] \in X
      BY <1>1, <2>1
    <2>4. /\ q \in Seq(X)
          /\ Len(q) = IF d + 1 <= n THEN n - (d + 1) + 1 ELSE 0
          /\ \A i \in 1 .. n - (d + 1) + 1 : q[i] = h[(d + 1) + i - 1]
      BY <1>1, <2>1, <2>3, SubSeqProperties
    <2> HIDE DEF q
    <2>5. Len(q) = n - d /\ \A i \in 1 .. Len(q) : q[i] = h[d + i]
      BY <1>1, <2>1, <2>4
    <2>. QED BY <1>1, <2>1, <2>2, <2>4, <2>5 DEF n
  <1>3. CASE ~(n > MaxEntries)
    <2>1. WithinLimit(h) = h
      BY <1>3 DEF WithinLimit
    <2>2. 0 \in Nat /\ n = n - 0 /\ n <= MaxEntries /\ \A i \in 1 .. n : h[i] = h[0 + i]
      BY <1>1, <1>3
    <2>3. n # 0 => 0 < n
      BY <1>1
    <2>. QED BY <2>1, <2>2, <2>3
  <1>. QED BY <1>2, <1>3

LEMMA CommitNewIs ==
    ASSUME NEW p, NEW bound \in Nat \ {0}, SoundTab(p, bound),
           NEW id \in Nat, bound <= id, NEW location \in Location
    PROVE  LET q == CommitNew(p, Entry(id, location))
           IN  /\ SoundTab(q, id + 1)
               /\ Committed(q) /\ CurrentLocation(q) = location /\ q.history # <<>>
  <1> DEFINE e == Entry(id, location)
             c == CurrentIndex(p)
             h == SubSeq(p.history, 1, c)
             g == Append(h, e)
             r == WithinLimit(g)
             q == CommitNew(p, e)
  <1>1. /\ p.history \in Seq(HistoryEntry) /\ Len(p.history) \in Nat
        /\ \A i \in 1 .. Len(p.history) :
              /\ p.history[i] \in HistoryEntry /\ p.history[i].id \in Nat
              /\ p.history[i].id < bound
        /\ \A i, j \in 1 .. Len(p.history) : i < j => p.history[i].id < p.history[j].id
    <2>1. p.history \in Seq(HistoryEntry)
      BY DEF SoundTab
    <2>2. Len(p.history) \in Nat /\ \A i \in 1 .. Len(p.history) : p.history[i] \in HistoryEntry
      BY <2>1, LenProperties
    <2>. QED BY <2>1, <2>2 DEF SoundTab, HistoryEntry
  <1>2. c \in 0 .. Len(p.history)
    BY <1>1, CurrentAt DEF Committed
  <1>3. e \in HistoryEntry /\ e.id = id /\ e.location = location
    BY DEF Entry, HistoryEntry
  <1>4. q = [history |-> r, current |-> id, pending |-> [id |-> 0, entry |-> 0]]
    BY <1>3 DEF CommitNew, NoIntent, Intent
  <1> HIDE DEF c, e, q
  <1>5. h \in Seq(HistoryEntry) /\ Len(h) = c /\ \A i \in 1 .. c : h[i] = p.history[i]
    <2>1. \A i \in 1 .. c : p.history[i] \in HistoryEntry
      BY <1>1, <1>2
    <2>2. /\ h \in Seq(HistoryEntry)
          /\ Len(h) = IF 1 <= c THEN c - 1 + 1 ELSE 0
          /\ \A i \in 1 .. c - 1 + 1 : h[i] = p.history[1 + i - 1]
      BY <1>1, <1>2, <2>1, SubSeqProperties
    <2> HIDE DEF h
    <2>. QED BY <1>1, <1>2, <2>2
  <1> HIDE DEF h
  <1>6. /\ g \in Seq(HistoryEntry) /\ Len(g) = c + 1
        /\ \A i \in 1 .. c : g[i] = p.history[i]
        /\ g[c + 1] = e
    BY <1>3, <1>5, AppendProperties
  <1> HIDE DEF g
  <1>7. \A i, j \in 1 .. c + 1 : i < j => g[i].id < g[j].id
    <2> SUFFICES ASSUME NEW i \in 1 .. c + 1, NEW j \in 1 .. c + 1, i < j
                 PROVE  g[i].id < g[j].id
      OBVIOUS
    <2>1. i \in 1 .. c /\ i \in 1 .. Len(p.history)
      BY <1>1, <1>2
    <2>2. CASE j = c + 1
      BY <1>1, <1>3, <1>6, <2>1, <2>2
    <2>3. CASE j # c + 1
      <3>1. j \in 1 .. c /\ j \in 1 .. Len(p.history)
        BY <1>1, <1>2, <2>3
      <3>. QED BY <1>1, <1>6, <2>1, <3>1
    <2>. QED BY <2>2, <2>3
  <1>8. PICK d \in Nat : /\ r \in Seq(HistoryEntry)
                         /\ Len(r) = (c + 1) - d /\ Len(r) <= MaxEntries
                         /\ d < c + 1
                         /\ \A i \in 1 .. Len(r) : r[i] = g[d + i]
    <2>1. PICK d \in Nat : /\ r \in Seq(HistoryEntry)
                           /\ Len(r) = Len(g) - d /\ Len(r) <= MaxEntries
                           /\ Len(g) # 0 => d < Len(g)
                           /\ \A i \in 1 .. Len(r) : r[i] = g[d + i]
      <3>1. g \in Seq(HistoryEntry)
        BY <1>6
      <3>. QED BY <3>1, WithinLimitIs, Zenon
    <2>2. Len(g) # 0
      BY <1>1, <1>2, <1>6
    <2>. QED BY <1>6, <2>1, <2>2
  <1> HIDE DEF r
  <1> DEFINE n == Len(r)
  <1>9. n \in Nat \ {0} /\ d + n = c + 1 /\ DOMAIN r = 1 .. n
    BY <1>1, <1>2, <1>8, LenProperties
  <1>10. \A i \in 1 .. n : d + i \in 1 .. c + 1 /\ r[i] = g[d + i]
    BY <1>1, <1>2, <1>8, <1>9
  <1>11. r[n] = e
    BY <1>6, <1>9, <1>10
  <1> HIDE DEF n
  <1>12. \A i, j \in 1 .. n : i < j => r[i].id < r[j].id
    <2> SUFFICES ASSUME NEW i \in 1 .. n, NEW j \in 1 .. n, i < j
                 PROVE  r[i].id < r[j].id
      OBVIOUS
    <2>1. d + i < d + j
      BY <1>8, <1>9
    <2>. QED BY <1>7, <1>10, <2>1
  <1>13. \A i \in 1 .. n : r[i] \in HistoryEntry /\ r[i].id \in Nat
    <2>1. \A i \in 1 .. n : r[i] \in HistoryEntry
      BY <1>8, LenProperties DEF n
    <2>. QED BY <2>1 DEF HistoryEntry
  <1>14. \A i \in 1 .. n : r[i].id < id + 1
    <2> TAKE i \in 1 .. n
    <2>1. CASE i = n
      BY <1>3, <1>11, <2>1
    <2>2. CASE i # n
      <3>1. i < n /\ n \in 1 .. n
        BY <1>9, <2>2
      <3>2. r[i].id < r[n].id
        BY <1>12, <3>1
      <3>. QED BY <1>3, <1>11, <1>13, <3>2
    <2>. QED BY <2>1, <2>2
  <1>15. /\ q.history = r /\ q.current = id /\ q.pending = [id |-> 0, entry |-> 0]
         /\ q = [history |-> q.history, current |-> q.current, pending |-> q.pending]
    BY <1>4
  <1>16. id \in EntryIds(q)
    BY <1>3, <1>9, <1>11, <1>15 DEF EntryIds
  <1>17. r # <<>> /\ id # 0
    BY <1>8, <1>9, EmptySeq DEF n
  <1>18. SoundTab(q, id + 1)
    <2>1. q.pending = [id |-> q.pending.id, entry |-> q.pending.entry]
          /\ q.pending.id = 0 /\ q.pending.entry = 0
      BY <1>15
    <2>. QED BY <1>8, <1>12, <1>14, <1>15, <1>16, <1>17, <2>1 DEF SoundTab, n
  <1>19. Committed(q) /\ CurrentIndex(q) \in 1 .. n /\ r[CurrentIndex(q)].id = id
    <2>1. q.history \in Seq(HistoryEntry)
      BY <1>8, <1>15
    <2>2. Committed(q) /\ CurrentIndex(q) \in 1 .. Len(q.history)
      BY <1>15, <1>16, <2>1, CurrentAt
    <2>3. q.history[CurrentIndex(q)].id = q.current
      BY <1>15, <1>16, <2>1, CurrentAt, IndexOfIs
    <2>. QED BY <1>15, <2>2, <2>3 DEF n
  <1>20. CurrentIndex(q) = n
    BY <1>3, <1>9, <1>11, <1>12, <1>13, <1>19
  <1>. QED BY <1>3, <1>11, <1>15, <1>17, <1>18, <1>19, <1>20 DEF CurrentLocation, q, e

LEMMA CommitExistingIs ==
    ASSUME NEW p, NEW bound, SoundTab(p, bound), NEW entry \in EntryIds(p),
           NEW location \in Location
    PROVE  SoundTab(CommitExisting(p, entry, location), bound)
  <1> DEFINE h == [i \in DOMAIN p.history |->
                      IF p.history[i].id = entry THEN Entry(entry, location) ELSE p.history[i]]
             q == CommitExisting(p, entry, location)
             n == Len(p.history)
  <1>1. /\ p.history \in Seq(HistoryEntry) /\ n \in Nat /\ DOMAIN p.history = 1 .. n
        /\ \A i \in 1 .. n : p.history[i] \in HistoryEntry
    <2>1. p.history \in Seq(HistoryEntry)
      BY DEF SoundTab
    <2>. QED BY <2>1, LenProperties
  <1>2. entry \in Nat \ {0} /\ Entry(entry, location) \in HistoryEntry
        /\ Entry(entry, location).id = entry
    BY <1>1 DEF EntryIds, Entry, HistoryEntry
  <1>3. PICK a, b, c : p = [history |-> a, current |-> b, pending |-> c]
    BY DEF SoundTab
  <1>4. q = [history |-> h, current |-> entry, pending |-> [id |-> 0, entry |-> 0]]
    <2> DEFINE z1 == [p EXCEPT !.history = h]
               z2 == [z1 EXCEPT !.current = entry]
    <2>1. q = [z2 EXCEPT !.pending = NoIntent]
      <3> HIDE DEF NoIntent
      <3>. QED BY DEF CommitExisting
    <2> HIDE DEF h, z2
    <2>2. z1 = [history |-> h, current |-> b, pending |-> c]
      BY <1>3
    <2> HIDE DEF z1
    <2>3. z2 = [history |-> h, current |-> entry, pending |-> c]
      BY <2>2 DEF z2
    <2>. QED BY <2>1, <2>3 DEF NoIntent, Intent
  <1> HIDE DEF q, n
  <1>5. DOMAIN h = 1 .. n /\ \A i \in 1 .. n : h[i] \in HistoryEntry /\ h[i].id = p.history[i].id
    BY <1>1, <1>2
  <1>6. h \in Seq(HistoryEntry) /\ Len(h) = n
    <2>1. h = [i \in 1 .. n |-> h[i]]
      BY <1>1
    <2> HIDE DEF h
    <2>2. h \in [1 .. n -> HistoryEntry]
      BY <1>5, <2>1
    <2>3. h \in Seq(HistoryEntry)
      BY <1>1, <2>2, SeqDef
    <2>4. DOMAIN h = 1 .. Len(h) /\ Len(h) \in Nat
      BY <2>3, LenProperties
    <2>. QED BY <1>1, <1>5, <2>3, <2>4
  <1> HIDE DEF h
  <1>7. /\ q.history = h /\ q.current = entry /\ q.pending = [id |-> 0, entry |-> 0]
        /\ q = [history |-> q.history, current |-> q.current, pending |-> q.pending]
    BY <1>4
  <1>8. q.pending = [id |-> q.pending.id, entry |-> q.pending.entry]
        /\ q.pending.id = 0 /\ q.pending.entry = 0
    BY <1>7
  <1>9. EntryIds(q) = EntryIds(p)
    BY <1>1, <1>5, <1>7 DEF EntryIds
  <1>10. h # <<>>
    <2>1. n # 0
      BY <1>1 DEF EntryIds
    <2>. QED BY <1>6, <2>1, EmptySeq
  <1>11. /\ n <= MaxEntries
         /\ \A i, j \in 1 .. n : i < j => p.history[i].id < p.history[j].id
         /\ \A i \in 1 .. n : p.history[i].id < bound
    BY DEF SoundTab, n
  <1>12. /\ Len(q.history) <= MaxEntries
         /\ \A i, j \in 1 .. Len(q.history) : i < j => q.history[i].id < q.history[j].id
         /\ \A i \in 1 .. Len(q.history) : q.history[i].id < bound
    BY <1>5, <1>6, <1>7, <1>11
  <1>13. {q.current, q.pending.entry} \subseteq EntryIds(q) \cup {0}
    BY <1>7, <1>8, <1>9
  <1>. QED BY <1>2, <1>6, <1>7, <1>8, <1>10, <1>12, <1>13 DEF SoundTab, q

-----------------------------------------------------------------------------
(* A sound browser: its windows ws, pages ps and numbers nx.               *)

\* Every element once.
Each(seq) == \A i, j \in DOMAIN seq : seq[i] = seq[j] => i = j

SoundWin(win) ==
    /\ win = [tabs |-> win.tabs, active |-> win.active,
              activation |-> win.activation, edit |-> win.edit]
    /\ win.tabs \in Seq(Nat \ {0})
    /\ Each(win.tabs)
    /\ IF win.tabs = <<>> THEN win.active = 0 ELSE win.active \in Range(win.tabs)
    /\ win.activation.id # 0 =>
          win.activation.from = win.active /\ win.activation.to \in Range(win.tabs)
    /\ win.edit # 0 => win.edit = win.active

Numbers(nx) ==
    /\ nx = [window |-> nx.window, tab |-> nx.tab, activation |-> nx.activation,
             navigation |-> nx.navigation, entry |-> nx.entry]
    /\ {nx.window, nx.tab, nx.activation, nx.navigation, nx.entry} \subseteq Nat \ {0}

SoundBrowser(ws, ps, nx) ==
    /\ Numbers(nx)
    /\ DOMAIN ws \subseteq 1 .. nx.window - 1
    /\ DOMAIN ps \subseteq 1 .. nx.tab - 1
    /\ \A w \in DOMAIN ws : SoundWin(ws[w]) /\ Range(ws[w].tabs) \subseteq DOMAIN ps
    /\ \A v, w \in DOMAIN ws : v # w => Range(ws[v].tabs) \cap Range(ws[w].tabs) = {}
    /\ \A t \in DOMAIN ps : SoundTab(ps[t], nx.entry)

\* A sequence made from a rule.
LEMMA SeqOver ==
    ASSUME NEW n \in Nat, NEW Y, NEW f, f = [i \in 1 .. n |-> f[i]],
           \A i \in 1 .. n : f[i] \in Y
    PROVE  f \in Seq(Y) /\ Len(f) = n
  <1>1. f \in [1 .. n -> Y]
    OBVIOUS
  <1>2. f \in Seq(Y)
    BY <1>1, SeqDef
  <1>3. DOMAIN f = 1 .. Len(f) /\ Len(f) \in Nat /\ DOMAIN f = 1 .. n
    BY <1>1, <1>2, LenProperties
  <1>. QED BY <1>2, <1>3

\* The numbers the tabs of window i are given.
LEMMA NumbersAre ==
    ASSUME NEW s, SoundSession(s), s.windows # <<>>, NEW i \in 1 .. Len(s.windows)
    PROVE  /\ NumbersOf(s, i) \in Seq(1 .. Len(Flat(s)))
           /\ Len(NumbersOf(s, i)) = Len(s.windows[i].tabs)
           /\ \A j \in 1 .. Len(s.windows[i].tabs) :
                 NumbersOf(s, i)[j] = Number(s, i, j) /\ PlaceIn(s, i, j)
  <1> DEFINE m == Len(s.windows[i].tabs)
             f == NumbersOf(s, i)
  <1>1. m \in Nat /\ DOMAIN s.windows[i].tabs = 1 .. m
    BY SessionParts
  <1>2. f = [j \in 1 .. m |-> Number(s, i, j)]
    BY <1>1 DEF NumbersOf
  <1>3. \A j \in 1 .. m : PlaceIn(s, i, j)
    BY DEF PlaceIn
  <1>4. \A j \in 1 .. m : Number(s, i, j) \in 1 .. Len(Flat(s))
    BY <1>3, FlatIs
  <1> HIDE DEF f, m
  <1>5. f = [j \in 1 .. m |-> f[j]] /\ \A j \in 1 .. m : f[j] = Number(s, i, j)
    BY <1>2
  <1>6. \A j \in 1 .. m : f[j] \in 1 .. Len(Flat(s))
    BY <1>4, <1>5
  <1>7. f \in Seq(1 .. Len(Flat(s))) /\ Len(f) = m
    BY <1>1, <1>5, <1>6, SeqOver
  <1>. QED BY <1>3, <1>5, <1>7 DEF f, m

\* A tab's number leads to it, and to no other.
LEMMA NumberIs ==
    ASSUME NEW s, SoundSession(s), s.windows # <<>>, NEW i, NEW j, PlaceIn(s, i, j)
    PROVE  /\ Number(s, i, j) \in 1 .. Len(Flat(s))
           /\ Flat(s)[Number(s, i, j)] = <<i, j>>
           /\ StoredAs(s, Number(s, i, j)) = s.windows[i].tabs[j]
           /\ \A k, l : PlaceIn(s, k, l) /\ Number(s, k, l) = Number(s, i, j) => k = i /\ l = j
  <1>1. \A k, l : PlaceIn(s, k, l) =>
           Number(s, k, l) \in 1 .. Len(Flat(s)) /\ Flat(s)[Number(s, k, l)] = <<k, l>>
    BY FlatIs
  <1>2. StoredAs(s, Number(s, i, j)) = s.windows[i].tabs[j]
    <2>1. Flat(s)[Number(s, i, j)] = <<i, j>>
      BY <1>1
    <2>. QED BY <2>1 DEF StoredAs
  <1>3. ASSUME NEW k, NEW l, PlaceIn(s, k, l), Number(s, k, l) = Number(s, i, j)
        PROVE  k = i /\ l = j
    <2>1. <<k, l>> = <<i, j>>
      BY <1>1, <1>3
    <2>. QED BY <2>1
  <1>. QED BY <1>1, <1>2, <1>3

\* The windows of a restored browser.
LEMMA RestoredWindow ==
    ASSUME NEW s, SoundSession(s), s.windows # <<>>, NEW i \in 1 .. Len(s.windows)
    PROVE  LET win == Restored(s).windows[i]
           IN  /\ SoundWin(win) /\ win.tabs = NumbersOf(s, i)
               /\ win.active = RestoredActive(s.windows[i], NumbersOf(s, i))
               /\ Range(win.tabs) \subseteq 1 .. Len(Flat(s))
  <1> DEFINE f == NumbersOf(s, i)
             v == s.windows[i]
             m == Len(v.tabs)
             a == RestoredActive(v, f)
             win == Restored(s).windows[i]
  <1>1. DOMAIN s.windows = 1 .. Len(s.windows) /\ Len(s.windows) \in Nat
        /\ v.tabs \in Seq(StoredTab) /\ DOMAIN v.tabs = 1 .. m /\ m \in Nat
        /\ SoundWindow(v, s.nextTab)
    BY SessionParts
  <1>2. win = [tabs |-> f, active |-> a, activation |-> NoActivation, edit |-> 0]
    <2>1. Restored(s).windows =
              [k \in DOMAIN s.windows |->
                  [tabs |-> NumbersOf(s, k),
                   active |-> RestoredActive(s.windows[k], NumbersOf(s, k)),
                   activation |-> NoActivation, edit |-> 0]]
      BY RestoredParts
    <2>. QED BY <1>1, <2>1
  <1>3. /\ f \in Seq(1 .. Len(Flat(s))) /\ Len(f) = m
        /\ \A j \in 1 .. m : f[j] = Number(s, i, j) /\ PlaceIn(s, i, j)
    BY NumbersAre
  <1>4. \A j, k \in 1 .. m : f[j] = f[k] => j = k
    BY <1>3, NumberIs
  <1> HIDE DEF win, f
  <1>5. DOMAIN f = 1 .. m /\ f \in Seq(Nat \ {0}) /\ Range(f) \subseteq 1 .. Len(Flat(s))
    <2>1. DOMAIN f = 1 .. m /\ \A j \in 1 .. m : f[j] \in 1 .. Len(Flat(s))
      BY <1>3, LenProperties
    <2>2. Range(f) \subseteq 1 .. Len(Flat(s))
      BY <2>1 DEF Range
    <2>3. f = [j \in 1 .. m |-> f[j]]
      <3>1. f = [j \in DOMAIN f |-> f[j]]
        BY <1>3
      <3>. QED BY <2>1, <3>1
    <2>4. \A j \in 1 .. m : f[j] \in Nat \ {0}
      <3>1. Len(Flat(s)) \in Nat
        BY FlatIs
      <3>. QED BY <2>1, <3>1
    <2>5. f \in Seq(Nat \ {0})
      BY <1>1, <2>3, <2>4, SeqOver
    <2>. QED BY <2>1, <2>2, <2>5
  <1>6. IF f = <<>> THEN a = 0 ELSE a \in Range(f)
    <2>1. CASE v.tabs = <<>>
      <3>1. v.active = 0 /\ m = 0
        BY <1>1, <2>1, EmptySeq DEF SoundWindow
      <3>2. f = <<>>
        BY <1>3, <3>1, EmptySeq
      <3>. QED BY <3>1, <3>2 DEF RestoredActive, FirstActive
    <2>2. CASE v.tabs # <<>>
      <3>1. v.active \in Ids(v.tabs) /\ v.active # 0
        BY <1>1, <2>2 DEF SoundWindow
      <3>2. IndexOf(v.tabs, v.active) \in 1 .. m
        BY <1>1, <3>1, IndexOfIs
      <3>3. a = f[IndexOf(v.tabs, v.active)]
        BY <3>1 DEF RestoredActive
      <3>4. f # <<>>
        BY <1>1, <1>3, <3>2, EmptySeq
      <3>. QED BY <1>5, <3>2, <3>3, <3>4 DEF Range
    <2>. QED BY <2>1, <2>2
  <1> HIDE DEF a, m
  <1>7. /\ win.tabs = f /\ win.active = a /\ win.activation.id = 0 /\ win.edit = 0
        /\ win = [tabs |-> win.tabs, active |-> win.active,
                  activation |-> win.activation, edit |-> win.edit]
    BY <1>2 DEF NoActivation
  <1>8. SoundWin(win)
    BY <1>3, <1>4, <1>5, <1>6, <1>7 DEF SoundWin, Each
  <1>. QED BY <1>5, <1>7, <1>8 DEF win, f, a

\* The place of a tab, told by its number.
LEMMA StoredTabIs ==
    ASSUME NEW s, SoundSession(s), s.windows # <<>>, NEW n \in 1 .. Len(Flat(s))
    PROVE  LET i == Flat(s)[n][1]
               j == Flat(s)[n][2]
           IN  /\ PlaceIn(s, i, j) /\ Number(s, i, j) = n
               /\ StoredAs(s, n) = s.windows[i].tabs[j] /\ StoredAs(s, n) \in StoredTab
               /\ StoredAs(s, n).id \in Ids(s.windows[i].tabs)
  <1> DEFINE i == Flat(s)[n][1]
             j == Flat(s)[n][2]
  <1>1. PlaceIn(s, i, j) /\ Number(s, i, j) = n
    BY FlatIs
  <1>2. StoredAs(s, n) = s.windows[i].tabs[j]
    BY DEF StoredAs
  <1> HIDE DEF i, j
  <1>3. i \in 1 .. Len(s.windows) /\ j \in 1 .. Len(s.windows[i].tabs)
    BY <1>1 DEF PlaceIn
  <1>4. s.windows[i].tabs \in Seq(StoredTab) /\ DOMAIN s.windows[i].tabs = 1 .. Len(s.windows[i].tabs)
    BY <1>3, SessionParts
  <1>5. s.windows[i].tabs[j] \in StoredTab
    BY <1>3, <1>4, LenProperties
  <1>6. s.windows[i].tabs[j].id \in Ids(s.windows[i].tabs)
    BY <1>3, <1>4 DEF Ids
  <1>. QED BY <1>1, <1>2, <1>5, <1>6 DEF i, j

\* The pages of a restored browser.
LEMMA RestoredPage ==
    ASSUME NEW s, SoundSession(s), s.windows # <<>>, NEW n \in 1 .. Len(Flat(s))
    PROVE  LET p == Restored(s).pages[n]
           IN  /\ SoundTab(p, Len(Flat(s)) + 1) /\ Committed(p)
               /\ CurrentLocation(p) = StoredAs(s, n).location
  <1> DEFINE location == StoredAs(s, n).location
             p == CommitNew(NewTab, Entry(n, location))
  <1>1. Len(Flat(s)) \in Nat /\ DOMAIN Flat(s) = 1 .. Len(Flat(s))
    BY FlatIs
  <1>2. location \in Location
    BY StoredTabIs DEF StoredTab
  <1>3. Restored(s).pages[n] = p
    <2>1. Restored(s).pages =
              [m \in DOMAIN Flat(s) |-> CommitNew(NewTab, Entry(m, StoredAs(s, m).location))]
      BY RestoredParts
    <2>. QED BY <1>1, <2>1
  <1> HIDE DEF location
  <1>4. n \in Nat /\ 1 <= n /\ n + 1 <= Len(Flat(s)) + 1 /\ 1 \in Nat \ {0}
    BY <1>1
  <1>5. SoundTab(NewTab, 1)
    BY NewTabIs
  <1>6. SoundTab(p, n + 1) /\ Committed(p) /\ CurrentLocation(p) = location
    BY <1>2, <1>4, <1>5, CommitNewIs
  <1> HIDE DEF p
  <1>7. SoundTab(p, Len(Flat(s)) + 1)
    <2>1. n + 1 \in Nat /\ Len(Flat(s)) + 1 \in Nat
      BY <1>1, <1>4
    <2>. QED BY <1>4, <1>6, <2>1, SoundTabLater
  <1>. QED BY <1>3, <1>6, <1>7 DEF location

\* The bindings of a restored browser are true of the session.
LEMMA RestoredCovers ==
    ASSUME NEW s, SoundSession(s), s.windows # <<>>
    PROVE  LET bs == Restored(s).bindings
           IN  /\ Covers(s, bs.windows, bs.tabs)
               /\ DOMAIN bs.windows = 1 .. Len(s.windows)
               /\ DOMAIN bs.tabs = {<<Flat(s)[n][1], n>> : n \in 1 .. Len(Flat(s))}
               /\ \A i \in 1 .. Len(s.windows) : bs.windows[i] = s.windows[i].id
               /\ \A n \in 1 .. Len(Flat(s)) : bs.tabs[<<Flat(s)[n][1], n>>] = StoredAs(s, n).id
  <1> DEFINE L == Len(s.windows)
             N == Len(Flat(s))
             bs == Restored(s).bindings
             at(n) == Flat(s)[n][1]
  <1>1. /\ L \in Nat /\ DOMAIN s.windows = 1 .. L
        /\ DistinctIds(s.windows) /\ Ids(s.windows) = {s.windows[i].id : i \in 1 .. L}
    BY SessionParts DEF SoundSession, Ids
  <1>2. DOMAIN Flat(s) = 1 .. N
    BY FlatIs
  <1>3. bs = [windows |-> [i \in DOMAIN s.windows |-> s.windows[i].id],
              tabs |-> [b \in {<<Flat(s)[n][1], n>> : n \in DOMAIN Flat(s)} |->
                           StoredAs(s, b[2]).id]]
    BY RestoredParts
  <1>4. /\ DOMAIN bs.windows = 1 .. L
        /\ \A i \in 1 .. L : bs.windows[i] = s.windows[i].id
    BY <1>1, <1>3
  <1>5. /\ DOMAIN bs.tabs = {<<at(n), n>> : n \in 1 .. N}
        /\ \A n \in 1 .. N : bs.tabs[<<at(n), n>>] = StoredAs(s, n).id
    BY <1>2, <1>3
  <1> HIDE DEF bs
  <1>6. \A i \in 1 .. L : TabsIn(s, s.windows[i].id) = Ids(s.windows[i].tabs)
                          /\ s.windows[i].id \in Ids(s.windows)
    BY WindowAt DEF TabsIn
  <1>7. \A n \in 1 .. N : /\ at(n) \in 1 .. L
                          /\ StoredAs(s, n).id \in TabsIn(s, s.windows[at(n)].id)
    <2> TAKE n \in 1 .. N
    <2>1. PlaceIn(s, at(n), Flat(s)[n][2]) /\ StoredAs(s, n).id \in Ids(s.windows[at(n)].tabs)
      BY StoredTabIs
    <2>2. at(n) \in 1 .. L
      BY <2>1 DEF PlaceIn
    <2>. QED BY <1>6, <2>1, <2>2
  <1>8. ASSUME NEW m \in 1 .. N, NEW n \in 1 .. N, StoredAs(s, m).id = StoredAs(s, n).id
        PROVE  m = n
    <2>1. s.windows[at(m)].id = s.windows[at(n)].id
      BY <1>6, <1>7, <1>8 DEF SoundSession
    <2>2. at(m) = at(n)
      BY <1>1, <1>7, <2>1 DEF DistinctIds
    <2>3. /\ PlaceIn(s, at(m), Flat(s)[m][2]) /\ Number(s, at(m), Flat(s)[m][2]) = m
          /\ StoredAs(s, m) = s.windows[at(m)].tabs[Flat(s)[m][2]]
          /\ PlaceIn(s, at(n), Flat(s)[n][2]) /\ Number(s, at(n), Flat(s)[n][2]) = n
          /\ StoredAs(s, n) = s.windows[at(n)].tabs[Flat(s)[n][2]]
      BY StoredTabIs
    <2>4. DistinctIds(s.windows[at(n)].tabs)
          /\ DOMAIN s.windows[at(n)].tabs = 1 .. Len(s.windows[at(n)].tabs)
      BY <1>7, SessionParts DEF SoundWindow
    <2>5. Flat(s)[m][2] = Flat(s)[n][2]
      BY <1>8, <2>2, <2>3, <2>4 DEF DistinctIds, PlaceIn
    <2>. QED BY <2>2, <2>3, <2>5
  <1>9. \A b \in DOMAIN bs.tabs : \E n \in 1 .. N : b = <<at(n), n>> /\ bs.tabs[b] = StoredAs(s, n).id
    BY <1>5
  <1>10. ASSUME NEW i \in 1 .. L, NEW x \in TabsIn(s, s.windows[i].id)
         PROVE  \E b \in DOMAIN bs.tabs : b[1] = i /\ bs.tabs[b] = x
    <2>1. DOMAIN s.windows[i].tabs = 1 .. Len(s.windows[i].tabs) /\ x \in Ids(s.windows[i].tabs)
      BY <1>6, SessionParts
    <2>2. PICK j \in 1 .. Len(s.windows[i].tabs) : x = s.windows[i].tabs[j].id
      BY <2>1 DEF Ids
    <2>3. PlaceIn(s, i, j)
      BY DEF PlaceIn
    <2>4. /\ Number(s, i, j) \in 1 .. N /\ Flat(s)[Number(s, i, j)] = <<i, j>>
          /\ StoredAs(s, Number(s, i, j)) = s.windows[i].tabs[j]
      BY <2>3, NumberIs
    <2>5. at(Number(s, i, j)) = i
      BY <2>4
    <2>6. /\ <<i, Number(s, i, j)>> \in DOMAIN bs.tabs
          /\ bs.tabs[<<i, Number(s, i, j)>>] = x
      BY <1>5, <2>2, <2>4, <2>5
    <2>7. <<i, Number(s, i, j)>>[1] = i
      OBVIOUS
    <2>. QED BY <2>6, <2>7
  <1>11. \A v, w \in DOMAIN bs.windows : bs.windows[v] = bs.windows[w] => v = w
    BY <1>1, <1>4 DEF DistinctIds
  <1>12. \A a, b \in DOMAIN bs.tabs : bs.tabs[a] = bs.tabs[b] => a = b
    BY <1>8, <1>9
  <1>13. \A b \in DOMAIN bs.tabs :
            b = <<b[1], b[2]>> /\ b[1] \in DOMAIN bs.windows /\ bs.tabs[b] \in TabsIn(s, bs.windows[b[1]])
    BY <1>4, <1>7, <1>9
  <1>14. /\ \A w \in DOMAIN bs.windows : bs.windows[w] \in Ids(s.windows)
         /\ \A id \in Ids(s.windows) : \E w \in DOMAIN bs.windows : bs.windows[w] = id
    BY <1>1, <1>4, <1>6
  <1>15. \A w \in DOMAIN bs.windows : \A x \in TabsIn(s, bs.windows[w]) :
            \E b \in DOMAIN bs.tabs : b[1] = w /\ bs.tabs[b] = x
    BY <1>4, <1>10
  <1>. QED BY <1>4, <1>5, <1>11, <1>12, <1>13, <1>14, <1>15 DEF Covers, bs, L, N

\* A restored browser is sound.
LEMMA RestoredIs ==
    ASSUME NEW s, SoundSession(s), s.windows # <<>>
    PROVE  SoundBrowser(Restored(s).windows, Restored(s).pages, Restored(s).next)
  <1> DEFINE L == Len(s.windows)
             N == Len(Flat(s))
             ws == Restored(s).windows
             ps == Restored(s).pages
             nx == Restored(s).next
  <1>1. L \in Nat /\ N \in Nat /\ DOMAIN s.windows = 1 .. L /\ DOMAIN Flat(s) = 1 .. N
    BY SessionParts, FlatIs
  <1>2. nx = [window |-> L + 1, tab |-> N + 1, activation |-> 1, navigation |-> N + 1,
              entry |-> N + 1]
    BY RestoredParts
  <1>3. DOMAIN ws = 1 .. L
    BY <1>1, RestoredParts
  <1>4. DOMAIN ps = 1 .. N
    <2>1. ps = [n \in DOMAIN Flat(s) |-> CommitNew(NewTab, Entry(n, StoredAs(s, n).location))]
      BY RestoredParts
    <2>. QED BY <1>1, <2>1
  <1>5. \A w \in 1 .. L : SoundWin(ws[w]) /\ Range(ws[w].tabs) \subseteq 1 .. N
                          /\ ws[w].tabs = NumbersOf(s, w)
    BY RestoredWindow
  <1>6. \A n \in 1 .. N : SoundTab(ps[n], N + 1)
    BY RestoredPage
  <1>7. ASSUME NEW v \in 1 .. L, NEW w \in 1 .. L, v # w
        PROVE  Range(NumbersOf(s, v)) \cap Range(NumbersOf(s, w)) = {}
    <2> SUFFICES ASSUME NEW i \in DOMAIN NumbersOf(s, v), NEW j \in DOMAIN NumbersOf(s, w),
                        NumbersOf(s, v)[i] = NumbersOf(s, w)[j]
                 PROVE  FALSE
      BY DEF Range
    <2>1. /\ DOMAIN NumbersOf(s, v) = 1 .. Len(s.windows[v].tabs)
          /\ DOMAIN NumbersOf(s, w) = 1 .. Len(s.windows[w].tabs)
      BY NumbersAre, LenProperties
    <2>2. /\ NumbersOf(s, v)[i] = Number(s, v, i) /\ PlaceIn(s, v, i)
          /\ NumbersOf(s, w)[j] = Number(s, w, j) /\ PlaceIn(s, w, j)
      BY <2>1, NumbersAre
    <2>3. \A k, l : PlaceIn(s, k, l) /\ Number(s, k, l) = Number(s, w, j) => k = w /\ l = j
      BY <2>2, NumberIs
    <2>. QED BY <1>7, <2>2, <2>3
  <1> HIDE DEF L, N, ws, ps, nx
  <1>8. /\ nx.window = L + 1 /\ nx.tab = N + 1 /\ nx.activation = 1 /\ nx.navigation = N + 1
        /\ nx.entry = N + 1
        /\ nx = [window |-> nx.window, tab |-> nx.tab, activation |-> nx.activation,
                 navigation |-> nx.navigation, entry |-> nx.entry]
    BY <1>2
  <1>9. Numbers(nx)
    BY <1>1, <1>8 DEF Numbers
  <1>10. (L + 1) - 1 = L /\ (N + 1) - 1 = N
    BY <1>1
  <1>. QED BY <1>3, <1>4, <1>5, <1>6, <1>7, <1>8, <1>9, <1>10 DEF SoundBrowser, ws, ps, nx

-----------------------------------------------------------------------------
(* Tabs of a window, each listed once.                                     *)

LEMMA AppendedRange ==
    ASSUME NEW X, NEW seq \in Seq(X), Each(seq), NEW x \in X,
           x \notin Range(seq)
    PROVE  LET q == Append(seq, x)
           IN  /\ q \in Seq(X) /\ Len(q) = Len(seq) + 1
               /\ Range(q) = Range(seq) \cup {x} /\ Each(q)
  <1> DEFINE n == Len(seq)
             q == Append(seq, x)
  <1>1. n \in Nat /\ DOMAIN seq = 1 .. n
    BY LenProperties
  <1>2. /\ q \in Seq(X) /\ Len(q) = n + 1
        /\ \A i \in 1 .. n : q[i] = seq[i]
        /\ q[n + 1] = x
    BY AppendProperties
  <1>3. DOMAIN q = 1 .. n + 1 /\ Len(q) = n + 1
    BY <1>2, LenProperties
  <1> HIDE DEF n, q
  <1>4. Range(q) = Range(seq) \cup {x}
    BY <1>1, <1>2, <1>3 DEF Range
  <1>5. Each(q)
    <2> SUFFICES ASSUME NEW i \in 1 .. n + 1, NEW j \in 1 .. n + 1, q[i] = q[j]
                 PROVE  i = j
      BY <1>3 DEF Each
    <2>1. \A k \in 1 .. n : q[k] \in Range(seq) /\ q[k] # x
      BY <1>1, <1>2 DEF Range
    <2>2. \A k \in 1 .. n + 1 : k \in 1 .. n \/ k = n + 1
      BY <1>1
    <2>. QED BY <1>1, <1>2, <2>1, <2>2 DEF Each
  <1>. QED BY <1>2, <1>4, <1>5 DEF n, q

LEMMA RemovedRange ==
    ASSUME NEW X, NEW seq \in Seq(X), Each(seq), NEW p \in 1 .. Len(seq)
    PROVE  LET q == RemoveAt(seq, p)
           IN  /\ q \in Seq(X) /\ Len(q) = Len(seq) - 1
               /\ Range(q) = Range(seq) \ {seq[p]} /\ Each(q)
  <1> DEFINE n == Len(seq)
             q == RemoveAt(seq, p)
  <1>1. n \in Nat /\ DOMAIN seq = 1 .. n
    BY LenProperties
  <1>2. p \in 1 .. n
    OBVIOUS
  <1>3. /\ q \in Seq(X) /\ Len(q) = n - 1
        /\ \A k \in 1 .. n - 1 : q[k] = IF k < p THEN seq[k] ELSE seq[k + 1]
    BY <1>2, RemoveAtIs
  <1>4. DOMAIN q = 1 .. n - 1
    BY <1>3, LenProperties
  <1> HIDE DEF n, q
  <1>5. ASSUME NEW k \in 1 .. n - 1
        PROVE  \E m \in 1 .. n : /\ q[k] = seq[m] /\ m # p
                                 /\ m = IF k < p THEN k ELSE k + 1
    <2>1. CASE k < p
      BY <1>1, <1>2, <1>3, <2>1
    <2>2. CASE ~(k < p)
      BY <1>1, <1>2, <1>3, <2>2
    <2>. QED BY <2>1, <2>2
  <1>6. ASSUME NEW m \in 1 .. n, m # p
        PROVE  \E k \in 1 .. n - 1 : q[k] = seq[m]
    <2>1. CASE m < p
      <3>1. m \in 1 .. n - 1
        BY <1>1, <1>2, <2>1
      <3>. QED BY <1>3, <2>1, <3>1
    <2>2. CASE m > p
      <3>1. m - 1 \in 1 .. n - 1 /\ ~(m - 1 < p) /\ (m - 1) + 1 = m
        BY <1>1, <1>2, <2>2
      <3>. QED BY <1>3, <3>1
    <2>3. m < p \/ m > p
      BY <1>1, <1>2, <1>6
    <2>. QED BY <2>1, <2>2, <2>3
  <1>7. \A m \in 1 .. n : m # p => seq[m] # seq[p]
    BY <1>1, <1>2 DEF Each
  <1>8. Range(q) = Range(seq) \ {seq[p]}
    <2>1. ASSUME NEW o \in Range(q) PROVE o \in Range(seq) \ {seq[p]}
      <3>1. PICK k \in 1 .. n - 1 : o = q[k]
        BY <1>4 DEF Range
      <3>2. PICK m \in 1 .. n : q[k] = seq[m] /\ m # p
        BY <1>5
      <3>. QED BY <1>1, <1>7, <3>1, <3>2 DEF Range
    <2>2. ASSUME NEW o \in Range(seq) \ {seq[p]} PROVE o \in Range(q)
      <3>1. PICK m \in 1 .. n : o = seq[m]
        BY <1>1 DEF Range
      <3>2. PICK k \in 1 .. n - 1 : q[k] = seq[m]
        BY <1>2, <1>6, <2>2, <3>1
      <3>. QED BY <1>4, <3>1, <3>2 DEF Range
    <2>. QED BY <2>1, <2>2
  <1>9. Each(q)
    <2> SUFFICES ASSUME NEW i \in 1 .. n - 1, NEW j \in 1 .. n - 1, q[i] = q[j]
                 PROVE  i = j
      BY <1>4 DEF Each
    <2>1. PICK a \in 1 .. n : q[i] = seq[a] /\ a # p /\ a = IF i < p THEN i ELSE i + 1
      BY <1>5
    <2>2. PICK b \in 1 .. n : q[j] = seq[b] /\ b # p /\ b = IF j < p THEN j ELSE j + 1
      BY <1>5
    <2>3. a = b
      BY <1>1, <2>1, <2>2 DEF Each
    <2>. QED BY <1>2, <2>1, <2>2, <2>3
  <1>. QED BY <1>3, <1>8, <1>9 DEF n, q

LEMMA InsertedRange ==
    ASSUME NEW X, NEW seq \in Seq(X), Each(seq), NEW x \in X,
           x \notin Range(seq), NEW p \in 1 .. Len(seq) + 1
    PROVE  LET q == InsertAt(seq, p, x)
           IN  /\ q \in Seq(X) /\ Len(q) = Len(seq) + 1
               /\ Range(q) = Range(seq) \cup {x} /\ Each(q)
  <1> DEFINE n == Len(seq)
             q == InsertAt(seq, p, x)
  <1>1. n \in Nat /\ DOMAIN seq = 1 .. n
    BY LenProperties
  <1>2. /\ q \in Seq(X) /\ Len(q) = n + 1
        /\ q[p] = x
        /\ \A k \in 1 .. n + 1 :
              /\ k < p => q[k] = seq[k]
              /\ k > p => q[k] = seq[k - 1]
    <2>1. p \in Nat \ {0} /\ p <= Len(seq) + 1
      OBVIOUS
    <2>2. InsertAt(seq, p, x) \in Seq(X) /\ Len(InsertAt(seq, p, x)) = Len(seq) + 1
      BY <2>1, InsertAtIs
    <2>3. InsertAt(seq, p, x)[p] = x
      BY <2>1, InsertAtIs
    <2>4. \A k \in 1 .. Len(seq) + 1 :
             /\ k < p => InsertAt(seq, p, x)[k] = seq[k]
             /\ k > p => InsertAt(seq, p, x)[k] = seq[k - 1]
      BY <2>1, InsertAtIs
    <2>. QED BY <2>2, <2>3, <2>4
  <1>3. DOMAIN q = 1 .. n + 1
    BY <1>2, LenProperties
  <1>4. p \in 1 .. n + 1
    OBVIOUS
  <1> HIDE DEF n, q
  <1>5. q[p] = x
    BY <1>2
  <1>6. ASSUME NEW k \in 1 .. n + 1, k # p
        PROVE  \E m \in 1 .. n : q[k] = seq[m] /\ m = IF k < p THEN k ELSE k - 1
    <2>1. CASE k < p
      BY <1>1, <1>2, <1>4, <2>1
    <2>2. CASE k > p
      <3>1. k - 1 \in 1 .. n /\ ~(k < p)
        BY <1>1, <1>4, <2>2
      <3>. QED BY <1>2, <1>6, <3>1
    <2>3. k < p \/ k > p
      BY <1>1, <1>4, <1>6
    <2>. QED BY <2>1, <2>2, <2>3
  <1>7. ASSUME NEW m \in 1 .. n
        PROVE  \E k \in 1 .. n + 1 : q[k] = seq[m]
    <2>1. CASE m < p
      <3>1. m \in 1 .. n + 1
        BY <1>1
      <3>. QED BY <1>2, <2>1, <3>1
    <2>2. CASE ~(m < p)
      <3>1. m + 1 \in 1 .. n + 1 /\ ~(m + 1 < p) /\ m + 1 # p /\ (m + 1) - 1 = m
        BY <1>1, <1>4, <2>2
      <3>. QED BY <1>2, <3>1
    <2>. QED BY <2>1, <2>2
  <1>8. Range(q) = Range(seq) \cup {x}
    <2>1. ASSUME NEW o \in Range(q) PROVE o \in Range(seq) \cup {x}
      <3>1. PICK k \in 1 .. n + 1 : o = q[k]
        BY <1>3 DEF Range
      <3>2. CASE k = p
        BY <1>5, <3>1, <3>2
      <3>3. CASE k # p
        BY <1>1, <1>6, <3>1, <3>3 DEF Range
      <3>. QED BY <3>2, <3>3
    <2>2. ASSUME NEW o \in Range(seq) PROVE o \in Range(q)
      <3>1. PICK m \in 1 .. n : o = seq[m]
        BY <1>1 DEF Range
      <3>2. PICK k \in 1 .. n + 1 : q[k] = seq[m]
        BY <1>7
      <3>. QED BY <1>3, <3>1, <3>2 DEF Range
    <2>3. x \in Range(q)
      BY <1>3, <1>4, <1>5 DEF Range
    <2>. QED BY <2>1, <2>2, <2>3
  <1>9. Each(q)
    <2> SUFFICES ASSUME NEW i \in 1 .. n + 1, NEW j \in 1 .. n + 1, q[i] = q[j]
                 PROVE  i = j
      BY <1>3 DEF Each
    <2>1. \A k \in 1 .. n + 1 : k # p => q[k] \in Range(seq)
      BY <1>1, <1>6 DEF Range
    <2>2. CASE i = p \/ j = p
      BY <1>5, <2>1, <2>2
    <2>3. CASE i # p /\ j # p
      <3>1. PICK a \in 1 .. n : q[i] = seq[a] /\ a = IF i < p THEN i ELSE i - 1
        BY <1>6, <2>3
      <3>2. PICK b \in 1 .. n : q[j] = seq[b] /\ b = IF j < p THEN j ELSE j - 1
        BY <1>6, <2>3
      <3>3. a = b
        BY <1>1, <3>1, <3>2 DEF Each
      <3>. QED BY <1>1, <1>4, <2>3, <3>1, <3>2, <3>3
    <2>. QED BY <2>2, <2>3
  <1>. QED BY <1>2, <1>8, <1>9 DEF n, q

\* A tab's position, as PositionOf finds it.
LEMMA PositionIs ==
    ASSUME NEW win, win.tabs \in Seq(Nat \ {0}), NEW t
    PROVE  /\ PositionOf(win, t) \in 0 .. Len(win.tabs)
           /\ t \in Range(win.tabs) => /\ PositionOf(win, t) \in 1 .. Len(win.tabs)
                                       /\ win.tabs[PositionOf(win, t)] = t
           /\ t \notin Range(win.tabs) => PositionOf(win, t) = 0
  <1> DEFINE n == Len(win.tabs)
             I == {i \in 1 .. n : win.tabs[i] = t}
  <1>1. n \in Nat /\ DOMAIN win.tabs = 1 .. n
    BY LenProperties
  <1>2. PositionOf(win, t) = IF I # {} THEN Min(I) ELSE 0
    BY DEF PositionOf, SelectInSeq
  <1>3. I # {} <=> t \in Range(win.tabs)
    BY <1>1 DEF Range
  <1> HIDE DEF n
  <1>4. I \in SUBSET Nat
    BY <1>1
  <1>5. I # {} => Min(I) \in I
    <2> HIDE DEF I
    <2>. QED BY <1>4, MinIs
  <1> HIDE DEF I
  <1>6. I # {} => PositionOf(win, t) \in I
    BY <1>2, <1>5
  <1>7. I = {} => PositionOf(win, t) = 0
    BY <1>2
  <1>8. \A i \in I : i \in 1 .. n /\ win.tabs[i] = t
    BY DEF I
  <1>. QED BY <1>1, <1>3, <1>6, <1>7, <1>8 DEF n

\* A window by its parts.
LEMMA WindowParts ==
    ASSUME NEW win, SoundWin(win)
    PROVE  /\ win.tabs \in Seq(Nat \ {0}) /\ Len(win.tabs) \in Nat
           /\ DOMAIN win.tabs = 1 .. Len(win.tabs) /\ Each(win.tabs)
           /\ win.tabs = <<>> <=> Range(win.tabs) = {}
           /\ \A i \in 1 .. Len(win.tabs) : win.tabs[i] \in Range(win.tabs)
  <1>1. win.tabs \in Seq(Nat \ {0}) /\ Each(win.tabs)
    BY DEF SoundWin
  <1>2. Len(win.tabs) \in Nat /\ DOMAIN win.tabs = 1 .. Len(win.tabs)
    BY <1>1, LenProperties
  <1>3. win.tabs = <<>> <=> Len(win.tabs) = 0
    BY <1>1, EmptySeq
  <1>4. Range(win.tabs) = {win.tabs[i] : i \in 1 .. Len(win.tabs)}
    BY <1>2 DEF Range
  <1>5. Range(win.tabs) = {} <=> Len(win.tabs) = 0
    <2>1. Len(win.tabs) # 0 => 1 \in 1 .. Len(win.tabs)
      BY <1>2
    <2>2. Len(win.tabs) = 0 => 1 .. Len(win.tabs) = {}
      BY <1>2
    <2>. QED BY <1>4, <2>1, <2>2
  <1>. QED BY <1>1, <1>2, <1>3, <1>4, <1>5

LEMMA NewWindowIs ==
    SoundWin(NewWindow) /\ Range(NewWindow.tabs) = {}
  <1>1. /\ NewWindow.tabs = <<>> /\ NewWindow.active = 0 /\ NewWindow.edit = 0
        /\ NewWindow.activation.id = 0
        /\ NewWindow = [tabs |-> NewWindow.tabs, active |-> NewWindow.active,
                        activation |-> NewWindow.activation, edit |-> NewWindow.edit]
    BY DEF NewWindow, NoActivation
  <1>2. <<>> \in Seq(Nat \ {0}) /\ DOMAIN <<>> = {}
    OBVIOUS
  <1> HIDE DEF NewWindow
  <1>. QED BY <1>1, <1>2 DEF SoundWin, Each, Range

LEMMA InsertedIs ==
    ASSUME NEW win, SoundWin(win), NEW t \in Nat \ {0}, t \notin Range(win.tabs)
    PROVE  SoundWin(Inserted(win, t)) /\ Range(Inserted(win, t).tabs) = Range(win.tabs) \cup {t}
  <1> DEFINE q == Inserted(win, t)
             tabs == Append(win.tabs, t)
             active == IF win.active = 0 THEN t ELSE win.active
  <1>1. PICK a, b, c, d : win = [tabs |-> a, active |-> b, activation |-> c, edit |-> d]
    BY DEF SoundWin
  <1>2. q = [tabs |-> tabs, active |-> active, activation |-> win.activation, edit |-> win.edit]
    <2> DEFINE z == [win EXCEPT !.tabs = tabs]
    <2> HIDE DEF tabs
    <2>1. z = [tabs |-> tabs, active |-> b, activation |-> c, edit |-> d]
      BY <1>1
    <2> HIDE DEF z
    <2>2. [z EXCEPT !.active = IF @ = 0 THEN t ELSE @]
             = [tabs |-> tabs, active |-> active, activation |-> win.activation, edit |-> win.edit]
      BY <1>1, <2>1
    <2>. QED BY <2>2 DEF Inserted, z, tabs
  <1>3. /\ tabs \in Seq(Nat \ {0}) /\ Range(tabs) = Range(win.tabs) \cup {t} /\ Each(tabs)
        /\ tabs # <<>>
    <2>1. /\ tabs \in Seq(Nat \ {0}) /\ Len(tabs) = Len(win.tabs) + 1
          /\ Range(tabs) = Range(win.tabs) \cup {t} /\ Each(tabs)
      BY WindowParts, AppendedRange
    <2> HIDE DEF tabs
    <2>2. Len(win.tabs) \in Nat
      BY WindowParts
    <2>3. Len(tabs) # 0
      BY <2>1, <2>2
    <2>. QED BY <2>1, <2>3, EmptySeq
  <1>4. active \in Range(tabs)
    BY <1>3, WindowParts DEF SoundWin
  <1>5. win.active = 0 => Range(win.tabs) = {}
    <2>1. 0 \notin Range(win.tabs)
      <3>1. \A i \in 1 .. Len(win.tabs) : win.tabs[i] \in Nat \ {0}
        BY WindowParts, LenProperties
      <3>. QED BY <3>1, WindowParts DEF Range
    <2>2. win.active = 0 => win.tabs = <<>>
      BY <2>1 DEF SoundWin
    <2>. QED BY <2>2, WindowParts
  <1> HIDE DEF q, tabs
  <1>6. /\ q.tabs = tabs /\ q.active = active /\ q.activation = win.activation
        /\ q.edit = win.edit
        /\ q = [tabs |-> q.tabs, active |-> q.active,
                activation |-> q.activation, edit |-> q.edit]
    BY <1>2
  <1>7. win.activation.id # 0 => win.activation.from = active /\ win.activation.to \in Range(tabs)
    <2>1. win.activation.id # 0 =>
             win.activation.from = win.active /\ win.activation.to \in Range(win.tabs)
      BY DEF SoundWin
    <2>. QED BY <1>3, <1>5, <2>1
  <1>8. win.edit # 0 => win.edit = active
    BY DEF SoundWin
  <1> HIDE DEF active
  <1>. QED BY <1>3, <1>4, <1>6, <1>7, <1>8 DEF SoundWin, q

LEMMA ActivatedIs ==
    ASSUME NEW win, SoundWin(win), NEW t \in Range(win.tabs)
    PROVE  SoundWin(Activated(win, t)) /\ Activated(win, t).tabs = win.tabs
  <1> DEFINE q == Activated(win, t)
             edit == IF win.active # t THEN 0 ELSE win.edit
  <1>1. PICK a, b, c, d : win = [tabs |-> a, active |-> b, activation |-> c, edit |-> d]
    BY DEF SoundWin
  <1>2. q = [tabs |-> a, active |-> t, activation |-> NoActivation, edit |-> edit]
    <2> DEFINE y == [win EXCEPT !.activation = NoActivation]
               z == [y EXCEPT !.active = t]
    <2>1. q = [z EXCEPT !.edit = IF win.active # t THEN 0 ELSE @]
      <3> HIDE DEF NoActivation
      <3>. QED BY DEF Activated
    <2> HIDE DEF z
    <2>2. y = [tabs |-> a, active |-> b, activation |-> NoActivation, edit |-> d]
      BY <1>1
    <2> HIDE DEF y
    <2>3. z = [tabs |-> a, active |-> t, activation |-> NoActivation, edit |-> d]
      BY <2>2 DEF z
    <2>. QED BY <1>1, <2>1, <2>3
  <1>3. edit # 0 => edit = t
    BY DEF SoundWin
  <1> HIDE DEF q, edit
  <1>4. /\ q.tabs = win.tabs /\ q.active = t /\ q.activation.id = 0 /\ q.edit = edit
        /\ q = [tabs |-> q.tabs, active |-> q.active,
                activation |-> q.activation, edit |-> q.edit]
    BY <1>1, <1>2 DEF NoActivation
  <1>5. q.tabs # <<>>
    BY <1>4, WindowParts
  <1>. QED BY <1>3, <1>4, <1>5, WindowParts DEF SoundWin, q

LEMMA NeighbourIs ==
    ASSUME NEW win, SoundWin(win), NEW t \in Range(win.tabs)
    PROVE  IF Range(win.tabs) = {t} THEN Neighbour(win, t) = 0
           ELSE Neighbour(win, t) \in Range(win.tabs) \ {t}
  <1> DEFINE n == Len(win.tabs)
             i == PositionOf(win, t)
  <1>1. /\ n \in Nat /\ DOMAIN win.tabs = 1 .. n
        /\ \A j \in 1 .. n : win.tabs[j] \in Range(win.tabs)
        /\ \A j, k \in 1 .. n : win.tabs[j] = win.tabs[k] => j = k
    BY WindowParts DEF Each
  <1>2. i \in 1 .. n /\ win.tabs[i] = t
    BY WindowParts, PositionIs
  <1>3. Neighbour(win, t) = CASE i < n -> win.tabs[i + 1]
                              [] i = n /\ i > 1 -> win.tabs[i - 1]
                              [] OTHER -> 0
    BY DEF Neighbour
  <1> HIDE DEF i, n
  <1>4. CASE i < n
    <2>1. i + 1 \in 1 .. n /\ i + 1 # i
      BY <1>1, <1>2, <1>4
    <2>2. Neighbour(win, t) = win.tabs[i + 1]
      BY <1>1, <1>2, <1>3, <1>4
    <2>. QED BY <1>1, <1>2, <2>1, <2>2
  <1>5. CASE i = n /\ i > 1
    <2>1. i - 1 \in 1 .. n /\ i - 1 # i
      BY <1>1, <1>2, <1>5
    <2>2. Neighbour(win, t) = win.tabs[i - 1]
      BY <1>1, <1>2, <1>3, <1>5
    <2>. QED BY <1>1, <1>2, <2>1, <2>2
  <1>6. CASE i = 1 /\ n = 1
    <2>1. Neighbour(win, t) = 0
      BY <1>3, <1>6
    <2>2. Range(win.tabs) = {t}
      BY <1>1, <1>2, <1>6 DEF Range
    <2>. QED BY <2>1, <2>2
  <1>7. i < n \/ (i = n /\ i > 1) \/ (i = 1 /\ n = 1)
    BY <1>1, <1>2
  <1>. QED BY <1>4, <1>5, <1>6, <1>7

LEMMA CloseTabIs ==
    ASSUME NEW win, SoundWin(win), NEW t \in Range(win.tabs)
    PROVE  SoundWin(CloseTab(win, t)) /\ Range(CloseTab(win, t).tabs) = Range(win.tabs) \ {t}
  <1> DEFINE q == CloseTab(win, t)
             tabs == RemoveAt(win.tabs, PositionOf(win, t))
             activation == IF t \in {win.activation.from, win.activation.to}
                           THEN NoActivation ELSE win.activation
             edit == IF win.edit = t THEN 0 ELSE win.edit
             active == IF win.active = t THEN Neighbour(win, t) ELSE win.active
  <1>1. PICK a, b, c, d : win = [tabs |-> a, active |-> b, activation |-> c, edit |-> d]
    BY DEF SoundWin
  <1>2. q = [tabs |-> tabs, active |-> active, activation |-> activation, edit |-> edit]
    <2> DEFINE x == [win EXCEPT !.tabs = tabs]
               y == [x EXCEPT !.activation = IF t \in {@.from, @.to} THEN NoActivation ELSE @]
               z == [y EXCEPT !.edit = IF @ = t THEN 0 ELSE @]
    <2>1. q = [z EXCEPT !.active = IF @ = t THEN Neighbour(win, t) ELSE @]
      <3> HIDE DEF NoActivation
      <3>. QED BY DEF CloseTab
    <2> HIDE DEF tabs, z
    <2>2. x = [tabs |-> tabs, active |-> b, activation |-> c, edit |-> d]
      BY <1>1
    <2> HIDE DEF x
    <2>3. y = [tabs |-> tabs, active |-> b, activation |-> activation, edit |-> d]
      BY <1>1, <2>2
    <2> HIDE DEF y, activation
    <2>4. z = [tabs |-> tabs, active |-> b, activation |-> activation, edit |-> edit]
      BY <1>1, <2>3 DEF z
    <2>. QED BY <1>1, <2>1, <2>4
  <1>3. /\ tabs \in Seq(Nat \ {0}) /\ Range(tabs) = Range(win.tabs) \ {t} /\ Each(tabs)
        /\ tabs = <<>> <=> Range(win.tabs) = {t}
    <2> DEFINE i == PositionOf(win, t)
    <2>1. i \in 1 .. Len(win.tabs) /\ win.tabs[i] = t
      BY WindowParts, PositionIs
    <2> HIDE DEF i
    <2>2. LET q1 == RemoveAt(win.tabs, i)
          IN  /\ q1 \in Seq(Nat \ {0}) /\ Len(q1) = Len(win.tabs) - 1
              /\ Range(q1) = Range(win.tabs) \ {win.tabs[i]} /\ Each(q1)
      BY <2>1, WindowParts, RemovedRange
    <2>3. /\ tabs \in Seq(Nat \ {0}) /\ Range(tabs) = Range(win.tabs) \ {t} /\ Each(tabs)
      BY <2>1, <2>2 DEF i
    <2> HIDE DEF tabs
    <2>4. tabs = <<>> <=> Range(tabs) = {}
      <3>1. Len(tabs) \in Nat /\ DOMAIN tabs = 1 .. Len(tabs)
        BY <2>3, LenProperties
      <3>2. Len(tabs) # 0 => 1 \in 1 .. Len(tabs)
        BY <3>1
      <3>3. Len(tabs) = 0 => 1 .. Len(tabs) = {}
        BY <3>1
      <3>4. Range(tabs) = {} <=> Len(tabs) = 0
        BY <3>1, <3>2, <3>3 DEF Range
      <3>. QED BY <2>3, <3>4, EmptySeq
    <2>. QED BY <2>3, <2>4
  <1>4. IF tabs = <<>> THEN active = 0 ELSE active \in Range(tabs)
    BY <1>3, NeighbourIs, WindowParts DEF SoundWin
  <1>5. activation.id # 0 => activation.from = active /\ activation.to \in Range(tabs)
    <2>1. CASE t \in {win.activation.from, win.activation.to}
      BY <2>1 DEF NoActivation
    <2>2. CASE t \notin {win.activation.from, win.activation.to}
      BY <1>3, <2>2 DEF SoundWin
    <2>. QED BY <2>1, <2>2
  <1>6. edit # 0 => edit = active
    BY DEF SoundWin
  <1> HIDE DEF q, tabs, active, activation, edit
  <1>7. /\ q.tabs = tabs /\ q.active = active /\ q.activation = activation /\ q.edit = edit
        /\ q = [tabs |-> q.tabs, active |-> q.active,
                activation |-> q.activation, edit |-> q.edit]
    BY <1>2
  <1>. QED BY <1>3, <1>4, <1>5, <1>6, <1>7 DEF SoundWin, q

\* The tabs of a window in another order.
LEMMA Reordered ==
    ASSUME NEW win, SoundWin(win), NEW tabs \in Seq(Nat \ {0}), Each(tabs),
           Range(tabs) = Range(win.tabs)
    PROVE  /\ SoundWin([win EXCEPT !.tabs = tabs])
           /\ [win EXCEPT !.tabs = tabs].tabs = tabs
  <1> DEFINE q == [win EXCEPT !.tabs = tabs]
  <1>1. PICK a, b, c, d : win = [tabs |-> a, active |-> b, activation |-> c, edit |-> d]
    BY DEF SoundWin
  <1>2. q = [tabs |-> tabs, active |-> b, activation |-> c, edit |-> d]
    BY <1>1
  <1> HIDE DEF q
  <1>3. /\ q.tabs = tabs /\ q.active = win.active /\ q.activation = win.activation
        /\ q.edit = win.edit
        /\ q = [tabs |-> q.tabs, active |-> q.active,
                activation |-> q.activation, edit |-> q.edit]
    BY <1>1, <1>2
  <1>4. tabs = <<>> <=> win.tabs = <<>>
    <2>1. win.tabs = <<>> <=> Range(tabs) = {}
      BY WindowParts
    <2>2. Len(tabs) \in Nat /\ DOMAIN tabs = 1 .. Len(tabs)
      BY LenProperties
    <2>3. Len(tabs) # 0 => 1 \in 1 .. Len(tabs)
      BY <2>2
    <2>4. Len(tabs) = 0 => 1 .. Len(tabs) = {}
      BY <2>2
    <2>5. Range(tabs) = {} <=> Len(tabs) = 0
      BY <2>2, <2>3, <2>4 DEF Range
    <2>. QED BY <2>1, <2>5, EmptySeq
  <1>. QED BY <1>3, <1>4 DEF SoundWin, q

LEMMA MovedBeforeIs ==
    ASSUME NEW win, SoundWin(win), NEW t \in Range(win.tabs),
           NEW anchor \in Range(win.tabs) \cup {0}
    PROVE  /\ SoundWin(MovedBefore(win, t, anchor))
           /\ Range(MovedBefore(win, t, anchor).tabs) = Range(win.tabs)
  <1> DEFINE tabs == RemoveAt(win.tabs, PositionOf(win, t))
             rest == [win EXCEPT !.tabs = tabs]
  <1>1. /\ tabs \in Seq(Nat \ {0}) /\ Range(tabs) = Range(win.tabs) \ {t} /\ Each(tabs)
    <2> DEFINE i == PositionOf(win, t)
    <2>1. i \in 1 .. Len(win.tabs) /\ win.tabs[i] = t
      BY WindowParts, PositionIs
    <2> HIDE DEF i
    <2>2. LET q1 == RemoveAt(win.tabs, i)
          IN  /\ q1 \in Seq(Nat \ {0}) /\ Len(q1) = Len(win.tabs) - 1
              /\ Range(q1) = Range(win.tabs) \ {win.tabs[i]} /\ Each(q1)
      BY <2>1, WindowParts, RemovedRange
    <2>. QED BY <2>1, <2>2 DEF i
  <1>2. t \in Nat \ {0} /\ t \notin Range(tabs)
    <2>1. \A i \in 1 .. Len(win.tabs) : win.tabs[i] \in Nat \ {0}
      BY WindowParts, LenProperties
    <2>. QED BY <1>1, <2>1, WindowParts DEF Range
  <1>3. rest.tabs = tabs
    BY DEF SoundWin
  <1>4. MovedBefore(win, t, anchor) =
            CASE anchor = t -> win
              [] anchor = 0 -> [win EXCEPT !.tabs = Append(rest.tabs, t)]
              [] anchor \notin {0, t} ->
                    [win EXCEPT !.tabs = InsertAt(rest.tabs, PositionOf(rest, anchor), t)]
    BY DEF MovedBefore
  <1> HIDE DEF tabs, rest
  <1>5. CASE anchor = t
    BY <1>2, <1>4, <1>5
  <1>6. CASE anchor = 0
    <2> DEFINE q == Append(tabs, t)
    <2>1. q \in Seq(Nat \ {0}) /\ Range(q) = Range(tabs) \cup {t} /\ Each(q)
      BY <1>1, <1>2, AppendedRange
    <2> HIDE DEF q
    <2>2. Range(q) = Range(win.tabs)
      BY <1>1, <2>1
    <2>3. SoundWin([win EXCEPT !.tabs = q]) /\ [win EXCEPT !.tabs = q].tabs = q
      BY <2>1, <2>2, Reordered
    <2>4. MovedBefore(win, t, anchor) = [win EXCEPT !.tabs = q]
      BY <1>2, <1>3, <1>4, <1>6 DEF q
    <2>. QED BY <2>2, <2>3, <2>4
  <1>7. CASE anchor \notin {0, t}
    <2> DEFINE p == PositionOf(rest, anchor)
               q == InsertAt(tabs, p, t)
    <2>1. anchor \in Range(tabs)
      BY <1>1, <1>7
    <2>2. p \in 1 .. Len(tabs) /\ Len(tabs) \in Nat
      BY <1>1, <1>3, <2>1, PositionIs, LenProperties
    <2>3. MovedBefore(win, t, anchor) = [win EXCEPT !.tabs = q]
      BY <1>3, <1>4, <1>7
    <2> HIDE DEF p
    <2>4. p \in 1 .. Len(tabs) + 1
      BY <2>2
    <2>5. q \in Seq(Nat \ {0}) /\ Range(q) = Range(tabs) \cup {t} /\ Each(q)
      BY <1>1, <1>2, <2>4, InsertedRange
    <2> HIDE DEF q
    <2>6. Range(q) = Range(win.tabs)
      BY <1>1, <2>5
    <2>7. SoundWin([win EXCEPT !.tabs = q]) /\ [win EXCEPT !.tabs = q].tabs = q
      BY <2>5, <2>6, Reordered
    <2>. QED BY <2>3, <2>6, <2>7
  <1>. QED BY <1>5, <1>6, <1>7

LEMMA PendingIs ==
    ASSUME NEW win, SoundWin(win), NEW a,
           a.id # 0 => a.from = win.active /\ a.to \in Range(win.tabs)
    PROVE  /\ SoundWin([win EXCEPT !.activation = a])
           /\ [win EXCEPT !.activation = a].tabs = win.tabs
  <1> DEFINE q == [win EXCEPT !.activation = a]
  <1>1. PICK b, c, d, e : win = [tabs |-> b, active |-> c, activation |-> d, edit |-> e]
    BY DEF SoundWin
  <1>2. q = [tabs |-> b, active |-> c, activation |-> a, edit |-> e]
    BY <1>1
  <1> HIDE DEF q
  <1>3. /\ q.tabs = win.tabs /\ q.active = win.active /\ q.activation = a /\ q.edit = win.edit
        /\ q = [tabs |-> q.tabs, active |-> q.active,
                activation |-> q.activation, edit |-> q.edit]
    BY <1>1, <1>2
  <1>. QED BY <1>3 DEF SoundWin, q

LEMMA EditIs ==
    ASSUME NEW win, SoundWin(win), NEW edit \in {0, win.active}
    PROVE  /\ SoundWin([win EXCEPT !.edit = edit])
           /\ [win EXCEPT !.edit = edit].tabs = win.tabs
  <1> DEFINE q == [win EXCEPT !.edit = edit]
  <1>1. PICK b, c, d, e : win = [tabs |-> b, active |-> c, activation |-> d, edit |-> e]
    BY DEF SoundWin
  <1>2. q = [tabs |-> b, active |-> c, activation |-> d, edit |-> edit]
    BY <1>1
  <1> HIDE DEF q
  <1>3. /\ q.tabs = win.tabs /\ q.active = win.active /\ q.activation = win.activation
        /\ q.edit = edit
        /\ q = [tabs |-> q.tabs, active |-> q.active,
                activation |-> q.activation, edit |-> q.edit]
    BY <1>1, <1>2
  <1>. QED BY <1>3 DEF SoundWin, q

-----------------------------------------------------------------------------
(* What the operations make of a sound browser.                            *)

\* Numbers only grow.
Grown(nx, n) ==
    /\ Numbers(n)
    /\ nx.window <= n.window /\ nx.tab <= n.tab /\ nx.activation <= n.activation
    /\ nx.navigation <= n.navigation /\ nx.entry <= n.entry

LEMMA GrownSelf ==
    ASSUME NEW nx, Numbers(nx)
    PROVE  Grown(nx, nx)
  BY DEF Grown, Numbers

LEMMA WindowNumbered ==
    ASSUME NEW nx, Numbers(nx)
    PROVE  LET n == [nx EXCEPT !.window = @ + 1]
           IN  /\ Grown(nx, n) /\ n.window = nx.window + 1
               /\ n.tab = nx.tab /\ n.entry = nx.entry
  <1> DEFINE n == [nx EXCEPT !.window = @ + 1]
  <1>1. PICK a, b, c, d, e : nx = [window |-> a, tab |-> b, activation |-> c,
                                   navigation |-> d, entry |-> e]
    BY DEF Numbers
  <1>2. n = [window |-> a + 1, tab |-> b, activation |-> c, navigation |-> d, entry |-> e]
    BY <1>1
  <1>3. {a, b, c, d, e} \subseteq Nat \ {0}
    BY <1>1 DEF Numbers
  <1> HIDE DEF n
  <1>. QED BY <1>1, <1>2, <1>3 DEF Grown, Numbers, n

LEMMA TabNumbered ==
    ASSUME NEW nx, Numbers(nx)
    PROVE  LET n == [nx EXCEPT !.tab = @ + 1]
           IN  /\ Grown(nx, n) /\ n.tab = nx.tab + 1
               /\ n.window = nx.window /\ n.entry = nx.entry
  <1> DEFINE n == [nx EXCEPT !.tab = @ + 1]
  <1>1. PICK a, b, c, d, e : nx = [window |-> a, tab |-> b, activation |-> c,
                                   navigation |-> d, entry |-> e]
    BY DEF Numbers
  <1>2. n = [window |-> a, tab |-> b + 1, activation |-> c, navigation |-> d, entry |-> e]
    BY <1>1
  <1>3. {a, b, c, d, e} \subseteq Nat \ {0}
    BY <1>1 DEF Numbers
  <1> HIDE DEF n
  <1>. QED BY <1>1, <1>2, <1>3 DEF Grown, Numbers, n

LEMMA ActivationNumbered ==
    ASSUME NEW nx, Numbers(nx)
    PROVE  LET n == [nx EXCEPT !.activation = @ + 1]
           IN  /\ Grown(nx, n) /\ n.activation = nx.activation + 1
               /\ n.window = nx.window /\ n.tab = nx.tab /\ n.entry = nx.entry
  <1> DEFINE n == [nx EXCEPT !.activation = @ + 1]
  <1>1. PICK a, b, c, d, e : nx = [window |-> a, tab |-> b, activation |-> c,
                                   navigation |-> d, entry |-> e]
    BY DEF Numbers
  <1>2. n = [window |-> a, tab |-> b, activation |-> c + 1, navigation |-> d, entry |-> e]
    BY <1>1
  <1>3. {a, b, c, d, e} \subseteq Nat \ {0}
    BY <1>1 DEF Numbers
  <1> HIDE DEF n
  <1>. QED BY <1>1, <1>2, <1>3 DEF Grown, Numbers, n

LEMMA NavigationNumbered ==
    ASSUME NEW nx, Numbers(nx)
    PROVE  LET n == [nx EXCEPT !.navigation = @ + 1]
           IN  /\ Grown(nx, n) /\ n.navigation = nx.navigation + 1
               /\ n.window = nx.window /\ n.tab = nx.tab /\ n.entry = nx.entry
  <1> DEFINE n == [nx EXCEPT !.navigation = @ + 1]
  <1>1. PICK a, b, c, d, e : nx = [window |-> a, tab |-> b, activation |-> c,
                                   navigation |-> d, entry |-> e]
    BY DEF Numbers
  <1>2. n = [window |-> a, tab |-> b, activation |-> c, navigation |-> d + 1, entry |-> e]
    BY <1>1
  <1>3. {a, b, c, d, e} \subseteq Nat \ {0}
    BY <1>1 DEF Numbers
  <1> HIDE DEF n
  <1>. QED BY <1>1, <1>2, <1>3 DEF Grown, Numbers, n

LEMMA EntryNumbered ==
    ASSUME NEW nx, Numbers(nx)
    PROVE  LET n == [nx EXCEPT !.entry = @ + 1]
           IN  /\ Grown(nx, n) /\ n.entry = nx.entry + 1
               /\ n.window = nx.window /\ n.tab = nx.tab
  <1> DEFINE n == [nx EXCEPT !.entry = @ + 1]
  <1>1. PICK a, b, c, d, e : nx = [window |-> a, tab |-> b, activation |-> c,
                                   navigation |-> d, entry |-> e]
    BY DEF Numbers
  <1>2. n = [window |-> a, tab |-> b, activation |-> c, navigation |-> d, entry |-> e + 1]
    BY <1>1
  <1>3. {a, b, c, d, e} \subseteq Nat \ {0}
    BY <1>1 DEF Numbers
  <1> HIDE DEF n
  <1>. QED BY <1>1, <1>2, <1>3 DEF Grown, Numbers, n

\* Window w is put in place, and has its tabs to itself.
LEMMA WindowPut ==
    ASSUME NEW ws, NEW ps, NEW nx, SoundBrowser(ws, ps, nx), NEW n, Grown(nx, n),
           NEW w \in 1 .. n.window - 1,
           NEW vs, DOMAIN vs = DOMAIN ws \cup {w}, SoundWin(vs[w]),
           \A u \in DOMAIN ws \ {w} : vs[u] = ws[u],
           NEW qs, DOMAIN qs \subseteq 1 .. n.tab - 1,
           \A t \in DOMAIN qs : SoundTab(qs[t], n.entry),
           Range(vs[w].tabs) \subseteq DOMAIN qs,
           \A u \in DOMAIN ws \ {w} : /\ Range(ws[u].tabs) \subseteq DOMAIN qs
                                      /\ Range(ws[u].tabs) \cap Range(vs[w].tabs) = {}
    PROVE  SoundBrowser(vs, qs, n)
  <1>1. Numbers(n) /\ Numbers(nx) /\ nx.window <= n.window
    BY DEF Grown, SoundBrowser
  <1>2. DOMAIN vs \subseteq 1 .. n.window - 1
    BY <1>1 DEF SoundBrowser, Numbers
  <1>3. \A u \in DOMAIN vs : SoundWin(vs[u]) /\ Range(vs[u].tabs) \subseteq DOMAIN qs
    BY DEF SoundBrowser
  <1>4. \A u, v \in DOMAIN vs : u # v => Range(vs[u].tabs) \cap Range(vs[v].tabs) = {}
    <2> SUFFICES ASSUME NEW u \in DOMAIN vs, NEW v \in DOMAIN vs, u # v
                 PROVE  Range(vs[u].tabs) \cap Range(vs[v].tabs) = {}
      OBVIOUS
    <2>1. CASE u = w
      BY <2>1
    <2>2. CASE v = w
      BY <2>2
    <2>3. CASE u # w /\ v # w
      BY <2>3 DEF SoundBrowser
    <2>. QED BY <2>1, <2>2, <2>3
  <1>. QED BY <1>1, <1>2, <1>3, <1>4 DEF SoundBrowser

\* A window with the tabs it has.
LEMMA WindowKept ==
    ASSUME NEW ws, NEW ps, NEW nx, SoundBrowser(ws, ps, nx),
           NEW n, Grown(nx, n), NEW w \in DOMAIN ws,
           NEW v, SoundWin(v), Range(v.tabs) = Range(ws[w].tabs)
    PROVE  SoundBrowser([ws EXCEPT ![w] = v], ps, n)
  <1> DEFINE vs == [ws EXCEPT ![w] = v]
  <1>1. /\ DOMAIN vs = DOMAIN ws \cup {w} /\ vs[w] = v
        /\ \A u \in DOMAIN ws \ {w} : vs[u] = ws[u]
    OBVIOUS
  <1> HIDE DEF vs
  <1>2. /\ Numbers(n) /\ Numbers(nx) /\ nx.window <= n.window /\ nx.tab <= n.tab
        /\ nx.entry <= n.entry
    BY DEF Grown, SoundBrowser
  <1>3. w \in 1 .. n.window - 1 /\ DOMAIN ps \subseteq 1 .. n.tab - 1
    BY <1>2 DEF SoundBrowser, Numbers
  <1>4. \A t \in DOMAIN ps : SoundTab(ps[t], n.entry)
    <2>1. nx.entry \in Nat /\ n.entry \in Nat
      BY <1>2 DEF Numbers
    <2>. QED BY <1>2, <2>1, SoundTabLater DEF SoundBrowser
  <1>5. /\ Range(vs[w].tabs) \subseteq DOMAIN ps
        /\ \A u \in DOMAIN ws \ {w} : /\ Range(ws[u].tabs) \subseteq DOMAIN ps
                                      /\ Range(ws[u].tabs) \cap Range(vs[w].tabs) = {}
    BY <1>1 DEF SoundBrowser
  <1>. QED BY <1>1, <1>3, <1>4, <1>5, WindowPut DEF vs

\* A window without one of its tabs.
LEMMA WindowLess ==
    ASSUME NEW ws, NEW ps, NEW nx, SoundBrowser(ws, ps, nx), NEW w \in DOMAIN ws,
           NEW v, SoundWin(v), NEW t \in Range(ws[w].tabs),
           Range(v.tabs) = Range(ws[w].tabs) \ {t}
    PROVE  SoundBrowser([ws EXCEPT ![w] = v], Without(ps, {t}), nx)
  <1> DEFINE vs == [ws EXCEPT ![w] = v]
             qs == Without(ps, {t})
  <1>1. /\ DOMAIN vs = DOMAIN ws \cup {w} /\ vs[w] = v
        /\ \A u \in DOMAIN ws \ {w} : vs[u] = ws[u]
    OBVIOUS
  <1>2. DOMAIN qs = DOMAIN ps \ {t} /\ \A u \in DOMAIN qs : qs[u] = ps[u]
    BY DEF Without
  <1> HIDE DEF vs, qs
  <1>3. Grown(nx, nx)
    BY GrownSelf DEF SoundBrowser
  <1>4. w \in 1 .. nx.window - 1 /\ DOMAIN qs \subseteq 1 .. nx.tab - 1
        /\ \A u \in DOMAIN qs : SoundTab(qs[u], nx.entry)
    BY <1>2 DEF SoundBrowser
  <1>5. /\ Range(vs[w].tabs) \subseteq DOMAIN qs
        /\ \A u \in DOMAIN ws \ {w} : /\ Range(ws[u].tabs) \subseteq DOMAIN qs
                                      /\ Range(ws[u].tabs) \cap Range(vs[w].tabs) = {}
    BY <1>1, <1>2 DEF SoundBrowser
  <1>. QED BY <1>1, <1>3, <1>4, <1>5, WindowPut DEF vs, qs

\* A window with a new tab, and without the tabs S it had to itself.
LEMMA WindowMore ==
    ASSUME NEW ws, NEW ps, NEW nx, SoundBrowser(ws, ps, nx), NEW n, Grown(nx, n),
           n.tab = nx.tab + 1, NEW w \in 1 .. n.window - 1,
           NEW win, SoundWin(win), NEW vs, DOMAIN vs = DOMAIN ws \cup {w},
           vs[w] = Inserted(win, nx.tab), \A u \in DOMAIN ws \ {w} : vs[u] = ws[u],
           NEW qs, nx.tab \in DOMAIN qs, qs[nx.tab] = NewTab,
           \A t \in DOMAIN qs \ {nx.tab} : t \in DOMAIN ps /\ qs[t] = ps[t],
           Range(win.tabs) \subseteq DOMAIN ps \cap DOMAIN qs,
           \A u \in DOMAIN ws \ {w} : /\ Range(ws[u].tabs) \subseteq DOMAIN qs
                                      /\ Range(ws[u].tabs) \cap Range(win.tabs) = {}
    PROVE  SoundBrowser(vs, qs, n)
  <1> DEFINE t == nx.tab
  <1>1. /\ Numbers(n) /\ Numbers(nx) /\ nx.entry <= n.entry
        /\ t \in Nat \ {0} /\ DOMAIN ps \subseteq 1 .. t - 1
        /\ nx.entry \in Nat /\ n.entry \in Nat
    BY DEF Grown, SoundBrowser, Numbers
  <1>2. t \notin DOMAIN ps
    BY <1>1
  <1>3. SoundWin(vs[w]) /\ Range(vs[w].tabs) = Range(win.tabs) \cup {t}
    <2>1. t \in Nat \ {0} /\ t \notin Range(win.tabs)
      BY <1>1, <1>2
    <2> HIDE DEF t
    <2>2. /\ SoundWin(Inserted(win, t))
          /\ Range(Inserted(win, t).tabs) = Range(win.tabs) \cup {t}
      BY <2>1, InsertedIs
    <2>. QED BY <2>2 DEF t
  <1>4. \A u \in DOMAIN ws : Range(ws[u].tabs) \subseteq DOMAIN ps
    BY DEF SoundBrowser
  <1>5. DOMAIN qs \subseteq 1 .. n.tab - 1
    BY <1>1
  <1>6. \A x \in DOMAIN qs : SoundTab(qs[x], n.entry)
    <2> TAKE x \in DOMAIN qs
    <2>1. CASE x = t
      BY <1>1, <2>1, NewTabIs
    <2>2. CASE x # t
      <3>1. x \in DOMAIN ps /\ qs[x] = ps[x] /\ SoundTab(ps[x], nx.entry)
        BY <2>2 DEF SoundBrowser
      <3>. QED BY <1>1, <3>1, SoundTabLater
    <2>. QED BY <2>1, <2>2
  <1>7. /\ Range(vs[w].tabs) \subseteq DOMAIN qs
        /\ \A u \in DOMAIN ws \ {w} : /\ Range(ws[u].tabs) \subseteq DOMAIN qs
                                      /\ Range(ws[u].tabs) \cap Range(vs[w].tabs) = {}
    BY <1>2, <1>3, <1>4
  <1>. QED BY <1>3, <1>5, <1>6, <1>7, WindowPut

\* A tab with another history.
LEMMA PageChanged ==
    ASSUME NEW ws, NEW ps, NEW nx, SoundBrowser(ws, ps, nx), NEW n, Grown(nx, n),
           NEW t \in DOMAIN ps, NEW p, SoundTab(p, n.entry)
    PROVE  SoundBrowser(ws, [ps EXCEPT ![t] = p], n)
  <1> DEFINE qs == [ps EXCEPT ![t] = p]
  <1>1. /\ DOMAIN qs = DOMAIN ps /\ qs[t] = p
        /\ \A u \in DOMAIN ps \ {t} : qs[u] = ps[u]
    OBVIOUS
  <1> HIDE DEF qs
  <1>2. /\ Numbers(n) /\ Numbers(nx) /\ nx.window <= n.window /\ nx.tab <= n.tab
        /\ nx.entry <= n.entry /\ nx.entry \in Nat /\ n.entry \in Nat
    BY DEF Grown, SoundBrowser, Numbers
  <1>3. DOMAIN ws \subseteq 1 .. n.window - 1 /\ DOMAIN ps \subseteq 1 .. n.tab - 1
    BY <1>2 DEF SoundBrowser, Numbers
  <1>4. \A u \in DOMAIN qs : SoundTab(qs[u], n.entry)
    <2>1. \A u \in DOMAIN ps : SoundTab(ps[u], n.entry)
      BY <1>2, SoundTabLater DEF SoundBrowser
    <2>. QED BY <1>1, <2>1
  <1>. QED BY <1>1, <1>2, <1>3, <1>4 DEF SoundBrowser, qs

\* A browser without a window.
LEMMA WindowGone ==
    ASSUME NEW ws, NEW ps, NEW nx, SoundBrowser(ws, ps, nx), NEW w \in DOMAIN ws
    PROVE  SoundBrowser(Without(ws, {w}), Without(ps, Range(ws[w].tabs)), nx)
  <1> DEFINE vs == Without(ws, {w})
             qs == Without(ps, Range(ws[w].tabs))
  <1>1. DOMAIN vs = DOMAIN ws \ {w} /\ \A u \in DOMAIN vs : vs[u] = ws[u]
    BY DEF Without
  <1>2. /\ DOMAIN qs = DOMAIN ps \ Range(ws[w].tabs)
        /\ \A u \in DOMAIN qs : qs[u] = ps[u]
    BY DEF Without
  <1> HIDE DEF vs, qs
  <1>3. \A u \in DOMAIN vs : SoundWin(vs[u]) /\ Range(vs[u].tabs) \subseteq DOMAIN qs
    BY <1>1, <1>2 DEF SoundBrowser
  <1>. QED BY <1>1, <1>2, <1>3 DEF SoundBrowser, vs, qs

-----------------------------------------------------------------------------
(* The operations, one by one.                                             *)

\* What callers hold has numbers the browser has given.
Held(an, cl, nx) ==
    /\ \A a \in an : /\ a = [tab |-> a.tab, navigation |-> a.navigation]
                     /\ a.tab \in 1 .. nx.tab - 1
                     /\ a.navigation \in 1 .. nx.navigation - 1
    /\ \A c \in cl : c.tab \in 1 .. nx.tab - 1 /\ c.activation \in 0 .. nx.activation - 1

BrowserInv == SoundBrowser(windows, pages, next) /\ Held(answers, closes, next)

\* A step to a sound browser, whose numbers have only grown.
SoundStep ==
    /\ SoundBrowser(windows', pages', next') /\ Held(answers', closes', next')
    /\ Grown(next, next')

LEMMA HeldStill ==
    ASSUME NEW an, NEW cl, NEW nx, Held(an, cl, nx), Numbers(nx), NEW n, Grown(nx, n),
           NEW am \in SUBSET an, NEW cm \in SUBSET cl
    PROVE  Held(am, cm, n)
  <1>1. /\ {nx.tab, nx.navigation, nx.activation, n.tab, n.navigation, n.activation} \subseteq Nat
        /\ nx.tab <= n.tab /\ nx.navigation <= n.navigation /\ nx.activation <= n.activation
    BY DEF Grown, Numbers
  <1>2. \A a \in am : a.tab \in 1 .. n.tab - 1 /\ a.navigation \in 1 .. n.navigation - 1
    BY <1>1 DEF Held
  <1>3. \A c \in cm : c.tab \in 1 .. n.tab - 1 /\ c.activation \in 0 .. n.activation - 1
    BY <1>1 DEF Held
  <1>. QED BY <1>2, <1>3 DEF Held

LEMMA CreateWindowSound ==
    ASSUME BrowserInv, CreateWindow
    PROVE  SoundStep
  <1> DEFINE n == [next EXCEPT !.window = @ + 1]
             w == next.window
             vs == With(windows, w, NewWindow)
  <1>1. /\ windows' = vs /\ next' = n
        /\ pages' = pages /\ answers' = answers /\ closes' = closes
    BY DEF CreateWindow
  <1>2. SoundBrowser(windows, pages, next) /\ Numbers(next) /\ Held(answers, closes, next)
    BY DEF BrowserInv, SoundBrowser
  <1>3. Grown(next, n) /\ n.window = w + 1 /\ n.tab = next.tab /\ n.entry = next.entry
    BY <1>2, WindowNumbered
  <1> HIDE DEF n
  <1>4. /\ DOMAIN vs = DOMAIN windows \cup {w} /\ vs[w] = NewWindow
        /\ \A u \in DOMAIN windows \ {w} : vs[u] = windows[u]
    BY DEF With
  <1> HIDE DEF vs
  <1>5. w \in 1 .. n.window - 1
    BY <1>2, <1>3 DEF Numbers
  <1>6. SoundWin(vs[w]) /\ Range(vs[w].tabs) = {}
    BY <1>4, NewWindowIs
  <1>7. /\ DOMAIN pages \subseteq 1 .. n.tab - 1
        /\ \A t \in DOMAIN pages : SoundTab(pages[t], n.entry)
        /\ \A u \in DOMAIN windows : Range(windows[u].tabs) \subseteq DOMAIN pages
    BY <1>2, <1>3 DEF SoundBrowser
  <1>8. SoundBrowser(vs, pages, n)
    BY <1>2, <1>3, <1>4, <1>5, <1>6, <1>7, WindowPut
  <1>9. Held(answers, closes, n)
    BY <1>2, <1>3, HeldStill
  <1>. QED BY <1>1, <1>3, <1>8, <1>9 DEF SoundStep

LEMMA CloseWindowSound ==
    ASSUME BrowserInv, NEW w \in DOMAIN windows, CloseWindow(w)
    PROVE  SoundStep
  <1>1. /\ windows' = Without(windows, {w}) /\ pages' = Without(pages, Range(windows[w].tabs))
        /\ next' = next /\ answers' = answers /\ closes' = closes
    BY DEF CloseWindow, TabsOf
  <1>2. SoundBrowser(windows, pages, next) /\ Numbers(next) /\ Held(answers, closes, next)
    BY DEF BrowserInv, SoundBrowser
  <1>. QED BY <1>1, <1>2, WindowGone, GrownSelf DEF SoundStep

LEMMA ResetWindowSound ==
    ASSUME BrowserInv, NEW w \in DOMAIN windows, ResetWindow(w)
    PROVE  SoundStep
  <1> DEFINE n == [next EXCEPT !.tab = @ + 1]
             t == next.tab
             vs == [windows EXCEPT ![w] = Inserted(NewWindow, t)]
             gone == Range(windows[w].tabs)
             qs == With(Without(pages, gone), t, NewTab)
  <1>1. /\ windows' = vs /\ pages' = qs /\ next' = n
        /\ answers' = answers /\ closes' = closes
    BY DEF ResetWindow, TabsOf
  <1>2. SoundBrowser(windows, pages, next) /\ Numbers(next) /\ Held(answers, closes, next)
    BY DEF BrowserInv, SoundBrowser
  <1>3. Grown(next, n) /\ n.tab = t + 1 /\ n.window = next.window
    BY <1>2, TabNumbered
  <1> HIDE DEF n
  <1>4. /\ DOMAIN vs = DOMAIN windows \cup {w} /\ vs[w] = Inserted(NewWindow, t)
        /\ \A u \in DOMAIN windows \ {w} : vs[u] = windows[u]
    OBVIOUS
  <1>5. /\ DOMAIN qs = (DOMAIN pages \ gone) \cup {t} /\ qs[t] = NewTab
        /\ \A x \in DOMAIN qs \ {t} : x \in DOMAIN pages /\ qs[x] = pages[x]
    BY DEF With, Without
  <1> HIDE DEF vs, qs
  <1>6. w \in 1 .. n.window - 1
    BY <1>2, <1>3 DEF SoundBrowser
  <1>7. /\ Range(NewWindow.tabs) \subseteq DOMAIN pages \cap DOMAIN qs
        /\ \A u \in DOMAIN windows \ {w} :
              /\ Range(windows[u].tabs) \subseteq DOMAIN qs
              /\ Range(windows[u].tabs) \cap Range(NewWindow.tabs) = {}
    BY <1>2, <1>5, NewWindowIs DEF SoundBrowser
  <1>8. SoundBrowser(vs, qs, n)
    <2>1. t \in DOMAIN qs
      BY <1>5
    <2>. QED BY <1>2, <1>3, <1>4, <1>5, <1>6, <1>7, <2>1, NewWindowIs, WindowMore
  <1>9. Held(answers, closes, n)
    BY <1>2, <1>3, HeldStill
  <1>. QED BY <1>1, <1>3, <1>8, <1>9 DEF SoundStep

LEMMA CreateTabSound ==
    ASSUME BrowserInv, NEW w \in DOMAIN windows, CreateTab(w)
    PROVE  SoundStep
  <1> DEFINE n == [next EXCEPT !.tab = @ + 1]
             t == next.tab
             win == windows[w]
             vs == [windows EXCEPT ![w] = Inserted(@, t)]
             qs == With(pages, t, NewTab)
  <1>1. /\ windows' = vs /\ pages' = qs /\ next' = n
        /\ answers' = answers /\ closes' = closes
    BY DEF CreateTab
  <1>2. SoundBrowser(windows, pages, next) /\ Numbers(next) /\ Held(answers, closes, next)
    BY DEF BrowserInv, SoundBrowser
  <1>3. Grown(next, n) /\ n.tab = t + 1 /\ n.window = next.window
    BY <1>2, TabNumbered
  <1> HIDE DEF n
  <1>4. /\ DOMAIN vs = DOMAIN windows \cup {w} /\ vs[w] = Inserted(win, t)
        /\ \A u \in DOMAIN windows \ {w} : vs[u] = windows[u]
    OBVIOUS
  <1>5. /\ DOMAIN qs = DOMAIN pages \cup {t} /\ qs[t] = NewTab
        /\ \A x \in DOMAIN qs \ {t} : x \in DOMAIN pages /\ qs[x] = pages[x]
    BY DEF With
  <1> HIDE DEF vs, qs
  <1>6. w \in 1 .. n.window - 1 /\ SoundWin(win)
    BY <1>2, <1>3 DEF SoundBrowser
  <1>7. /\ Range(win.tabs) \subseteq DOMAIN pages \cap DOMAIN qs
        /\ \A u \in DOMAIN windows \ {w} :
              /\ Range(windows[u].tabs) \subseteq DOMAIN qs
              /\ Range(windows[u].tabs) \cap Range(win.tabs) = {}
    BY <1>2, <1>5 DEF SoundBrowser
  <1> HIDE DEF win
  <1>8. SoundBrowser(vs, qs, n)
    <2>1. t \in DOMAIN qs
      BY <1>5
    <2>. QED BY <1>2, <1>3, <1>4, <1>5, <1>6, <1>7, <2>1, WindowMore
  <1>9. Held(answers, closes, n)
    BY <1>2, <1>3, HeldStill
  <1>. QED BY <1>1, <1>3, <1>8, <1>9 DEF SoundStep

\* A step that leaves window w its tabs, and all tabs their histories.
LEMMA WindowStep ==
    ASSUME BrowserInv, NEW w \in DOMAIN windows, NEW v, SoundWin(v),
           Range(v.tabs) = Range(windows[w].tabs), windows' = [windows EXCEPT ![w] = v],
           pages' = pages, Grown(next, next')
    PROVE  SoundBrowser(windows', pages', next')
  <1>1. SoundBrowser(windows, pages, next)
    BY DEF BrowserInv
  <1>2. SoundBrowser([windows EXCEPT ![w] = v], pages, next')
    BY <1>1, WindowKept
  <1>. QED BY <1>2

\* The same with all numbers as they were.
LEMMA QuietStep ==
    ASSUME BrowserInv, NEW w \in DOMAIN windows, NEW v, SoundWin(v),
           Range(v.tabs) = Range(windows[w].tabs), windows' = [windows EXCEPT ![w] = v],
           pages' = pages, next' = next, answers' = answers, closes' = closes
    PROVE  SoundStep
  <1>1. Grown(next, next') /\ Held(answers', closes', next')
    BY GrownSelf DEF BrowserInv, SoundBrowser
  <1>2. SoundBrowser(windows', pages', next')
    BY <1>1, WindowStep
  <1>. QED BY <1>1, <1>2 DEF SoundStep

LEMMA SetActiveTabSound ==
    ASSUME BrowserInv, NEW w \in DOMAIN windows, NEW t \in TabsOf(w), SetActiveTab(w, t)
    PROVE  SoundStep
  <1> DEFINE v == Activated(windows[w], t)
  <1>1. SoundWin(windows[w]) /\ t \in Range(windows[w].tabs)
    BY DEF BrowserInv, SoundBrowser, TabsOf
  <1>2. SoundWin(v) /\ v.tabs = windows[w].tabs
    BY <1>1, ActivatedIs
  <1>3. /\ windows' = [windows EXCEPT ![w] = v] /\ pages' = pages /\ next' = next
        /\ answers' = answers /\ closes' = closes
    BY DEF SetActiveTab
  <1> HIDE DEF v
  <1>. QED BY <1>2, <1>3, QuietStep

LEMMA MoveTabSound ==
    ASSUME BrowserInv, NEW w \in DOMAIN windows, NEW t \in TabsOf(w), MoveTab(w, t)
    PROVE  SoundStep
  <1>1. PICK anchor \in TabsOf(w) \cup {0} :
            windows' = [windows EXCEPT ![w] = MovedBefore(windows[w], t, anchor)]
    BY DEF MoveTab
  <1> DEFINE v == MovedBefore(windows[w], t, anchor)
  <1>2. /\ SoundWin(windows[w]) /\ t \in Range(windows[w].tabs)
        /\ anchor \in Range(windows[w].tabs) \cup {0}
    BY DEF BrowserInv, SoundBrowser, TabsOf
  <1>3. SoundWin(v) /\ Range(v.tabs) = Range(windows[w].tabs)
    BY <1>2, MovedBeforeIs
  <1>4. /\ windows' = [windows EXCEPT ![w] = v] /\ pages' = pages /\ next' = next
        /\ answers' = answers /\ closes' = closes
    BY <1>1 DEF MoveTab
  <1> HIDE DEF v
  <1>. QED BY <1>3, <1>4, QuietStep

LEMMA BeginActivationIs ==
    ASSUME BrowserInv, NEW w \in DOMAIN windows, NEW t \in TabsOf(w), BeginActivation(w, t),
           pages' = pages
    PROVE  /\ SoundBrowser(windows', pages', next') /\ Grown(next, next')
           /\ next'.activation = next.activation + 1 /\ next'.tab = next.tab
  <1> DEFINE a == [id |-> next.activation, from |-> windows[w].active, to |-> t]
             win == windows[w]
             v == [win EXCEPT !.activation = a]
             n == [next EXCEPT !.activation = @ + 1]
  <1>1. SoundWin(win) /\ t \in Range(win.tabs) /\ Numbers(next)
    BY DEF BrowserInv, SoundBrowser, TabsOf
  <1>2. windows' = [windows EXCEPT ![w] = v] /\ next' = n
    BY DEF BeginActivation
  <1>3. Grown(next, n) /\ n.activation = next.activation + 1 /\ n.tab = next.tab
    BY <1>1, ActivationNumbered
  <1>4. a.id # 0 => a.from = win.active /\ a.to \in Range(win.tabs)
    BY <1>1
  <1> HIDE DEF a, n
  <1>5. SoundWin(v) /\ v.tabs = win.tabs
    BY <1>1, <1>4, PendingIs
  <1> HIDE DEF v
  <1>. QED BY <1>2, <1>3, <1>5, WindowStep

LEMMA SwitchToSound ==
    ASSUME BrowserInv, NEW w \in DOMAIN windows, NEW t \in TabsOf(w), SwitchTo(w, t)
    PROVE  SoundStep
  <1>1. /\ BeginActivation(w, t) /\ pages' = pages
        /\ answers' = answers /\ closes' = closes
    BY DEF SwitchTo
  <1>2. SoundBrowser(windows', pages', next') /\ Grown(next, next')
    BY <1>1, BeginActivationIs
  <1>3. Held(answers, closes, next')
    BY <1>2, HeldStill DEF BrowserInv, SoundBrowser
  <1>. QED BY <1>1, <1>2, <1>3 DEF SoundStep

LEMMA CycleSound ==
    ASSUME BrowserInv, NEW w \in DOMAIN windows, NEW step \in {1, -1}, Cycle(w, step)
    PROVE  SoundStep
  <1> DEFINE win == windows[w]
             anchor == IF win.activation.id # 0 THEN win.activation.to ELSE win.active
             n == Len(win.tabs)
             p == PositionOf(win, anchor)
             i == ((p - 1 + step + n) % n) + 1
  <1>1. SoundWin(win)
    BY DEF BrowserInv, SoundBrowser
  <1>2. n >= 2 /\ p # 0 /\ SwitchTo(w, win.tabs[i])
    BY DEF Cycle
  <1>3. n \in Nat /\ p \in 0 .. n
    BY <1>1, WindowParts, PositionIs
  <1> HIDE DEF n, p
  <1>4. i \in 1 .. n
    <2>1. p - 1 + step + n \in Int /\ n \in Nat \ {0}
      BY <1>2, <1>3
    <2>2. (p - 1 + step + n) % n \in 0 .. n - 1
      BY <2>1
    <2>. QED BY <1>3, <2>2
  <1>5. win.tabs[i] \in TabsOf(w)
    BY <1>1, <1>4, WindowParts DEF TabsOf, n
  <1> HIDE DEF i
  <1>. QED BY <1>2, <1>5, SwitchToSound

LEMMA CommitActivationSound ==
    ASSUME BrowserInv, NEW w \in DOMAIN windows, NEW id, CommitActivation(w, id)
    PROVE  SoundStep
  <1> DEFINE t == windows[w].activation.to
             v == Activated(windows[w], t)
  <1>1. SoundWin(windows[w]) /\ t \in Range(windows[w].tabs)
    BY DEF BrowserInv, SoundBrowser, CommitActivation, MayActivate
  <1>2. SoundWin(v) /\ v.tabs = windows[w].tabs
    BY <1>1, ActivatedIs
  <1>3. /\ windows' = [windows EXCEPT ![w] = v] /\ pages' = pages /\ next' = next
        /\ answers' = answers /\ closes' = closes
    BY DEF CommitActivation
  <1> HIDE DEF v
  <1>. QED BY <1>2, <1>3, QuietStep

LEMMA CancelActivationSound ==
    ASSUME BrowserInv, NEW w \in DOMAIN windows, NEW id, CancelActivation(w, id)
    PROVE  SoundStep
  <1> DEFINE win == windows[w]
             v == [win EXCEPT !.activation = NoActivation]
  <1>1. SoundWin(win) /\ NoActivation.id = 0
    BY DEF BrowserInv, SoundBrowser, NoActivation
  <1>2. SoundWin(v) /\ v.tabs = win.tabs
    BY <1>1, PendingIs
  <1>3. /\ windows' = [windows EXCEPT ![w] = v] /\ pages' = pages /\ next' = next
        /\ answers' = answers /\ closes' = closes
    BY DEF CancelActivation
  <1> HIDE DEF v
  <1>. QED BY <1>2, <1>3, QuietStep

LEMMA BeginEditSound ==
    ASSUME BrowserInv, NEW w \in DOMAIN windows, BeginEdit(w)
    PROVE  SoundStep
  <1> DEFINE win == windows[w]
             v == [win EXCEPT !.edit = win.active]
  <1>1. SoundWin(win)
    BY DEF BrowserInv, SoundBrowser
  <1>2. SoundWin(v) /\ v.tabs = win.tabs
    BY <1>1, EditIs
  <1>3. /\ windows' = [windows EXCEPT ![w] = v] /\ pages' = pages /\ next' = next
        /\ answers' = answers /\ closes' = closes
    BY DEF BeginEdit
  <1> HIDE DEF v
  <1>. QED BY <1>2, <1>3, QuietStep

LEMMA EndEditSound ==
    ASSUME BrowserInv, NEW w \in DOMAIN windows, EndEdit(w)
    PROVE  SoundStep
  <1> DEFINE win == windows[w]
             v == [win EXCEPT !.edit = 0]
  <1>1. SoundWin(win)
    BY DEF BrowserInv, SoundBrowser
  <1>2. SoundWin(v) /\ v.tabs = win.tabs
    BY <1>1, EditIs
  <1>3. /\ windows' = [windows EXCEPT ![w] = v] /\ pages' = pages /\ next' = next
        /\ answers' = answers /\ closes' = closes
    BY DEF EndEdit
  <1> HIDE DEF v
  <1>. QED BY <1>2, <1>3, QuietStep

\* A step that takes tab t out of window w.
LEMMA LessStep ==
    ASSUME BrowserInv, NEW w \in DOMAIN windows, NEW t \in TabsOf(w), NEW win, SoundWin(win),
           Range(win.tabs) = Range(windows[w].tabs),
           windows' = [windows EXCEPT ![w] = CloseTab(win, t)],
           pages' = Without(pages, {t}), next' = next, answers' = answers,
           closes' \in SUBSET closes
    PROVE  SoundStep
  <1> DEFINE v == CloseTab(win, t)
  <1>1. /\ SoundBrowser(windows, pages, next) /\ Numbers(next) /\ Held(answers, closes, next)
        /\ t \in Range(win.tabs) /\ t \in Range(windows[w].tabs)
    BY DEF BrowserInv, SoundBrowser, TabsOf
  <1>2. SoundWin(v) /\ Range(v.tabs) = Range(windows[w].tabs) \ {t}
    BY <1>1, CloseTabIs
  <1> HIDE DEF v
  <1>3. SoundBrowser([windows EXCEPT ![w] = v], Without(pages, {t}), next)
    BY <1>1, <1>2, WindowLess
  <1>4. Grown(next, next) /\ Held(answers, closes', next)
    BY <1>1, GrownSelf, HeldStill
  <1>. QED BY <1>3, <1>4 DEF SoundStep, v

LEMMA BeginCloseSound ==
    ASSUME BrowserInv, NEW w \in DOMAIN windows, NEW t \in TabsOf(w), BeginClose(w, t)
    PROVE  SoundStep
  <1> DEFINE win == windows[w]
             fallback == Neighbour(win, t)
  <1>1. /\ SoundWin(win) /\ t \in Range(win.tabs) /\ Numbers(next)
        /\ SoundBrowser(windows, pages, next) /\ Held(answers, closes, next)
        /\ t \in 1 .. next.tab - 1
    BY DEF BrowserInv, SoundBrowser, TabsOf
  <1>2. CASE /\ windows' = [windows EXCEPT ![w] = CloseTab(@, t)]
             /\ pages' = Without(pages, {t})
             /\ UNCHANGED <<next, answers, closes>>
    <2>1. /\ windows' = [windows EXCEPT ![w] = CloseTab(win, t)]
          /\ next' = next /\ answers' = answers /\ closes' \in SUBSET closes
      BY <1>2
    <2> HIDE DEF win
    <2>2. Range(win.tabs) = Range(windows[w].tabs)
      BY DEF win
    <2>. QED BY <1>1, <1>2, <2>1, <2>2, LessStep
  <1>3. CASE /\ fallback # 0
             /\ BeginActivation(w, fallback)
             /\ closes' = {[window |-> w, tab |-> t, activation |-> next.activation]}
             /\ UNCHANGED <<pages, answers>>
    <2>1. fallback \in TabsOf(w)
      BY <1>1, <1>3, NeighbourIs DEF TabsOf
    <2> HIDE DEF fallback
    <2>2. pages' = pages /\ answers' = answers
      BY <1>3
    <2>3. /\ SoundBrowser(windows', pages', next') /\ Grown(next, next')
          /\ next'.activation = next.activation + 1 /\ next'.tab = next.tab
      BY <1>3, <2>1, <2>2, BeginActivationIs
    <2>4. Held(answers, {}, next')
      BY <1>1, <2>3, HeldStill
    <2>5. \A c \in closes' : c.tab = t /\ c.activation = next.activation
      BY <1>3
    <2>6. next.activation \in 0 .. next'.activation - 1 /\ t \in 1 .. next'.tab - 1
      BY <1>1, <2>3 DEF Numbers
    <2>7. Held(answers', closes', next')
      BY <2>2, <2>4, <2>5, <2>6 DEF Held
    <2>. QED BY <2>3, <2>7 DEF SoundStep
  <1>4. CASE /\ windows' = [windows EXCEPT ![w] = Activated(@, t)]
             /\ closes' = {[window |-> w, tab |-> t, activation |-> 0]}
             /\ UNCHANGED <<pages, next, answers>>
    <2> DEFINE v == Activated(win, t)
    <2>1. SoundWin(v) /\ v.tabs = win.tabs
      BY <1>1, ActivatedIs
    <2>2. /\ windows' = [windows EXCEPT ![w] = v] /\ pages' = pages /\ next' = next
          /\ answers' = answers
      BY <1>4
    <2> HIDE DEF v
    <2>3. Grown(next, next')
      BY <1>1, <2>2, GrownSelf
    <2>4. SoundBrowser(windows', pages', next')
      BY <2>1, <2>2, <2>3, WindowStep
    <2>5. \A c \in closes' : c.tab = t /\ c.activation = 0
      BY <1>4
    <2>6. 0 \in 0 .. next.activation - 1
      BY <1>1 DEF Numbers
    <2>7. Held(answers', closes', next')
      BY <1>1, <2>2, <2>5, <2>6 DEF Held
    <2>. QED BY <2>3, <2>4, <2>7 DEF SoundStep
  <1>5. \/ /\ windows' = [windows EXCEPT ![w] = CloseTab(@, t)]
           /\ pages' = Without(pages, {t})
           /\ UNCHANGED <<next, answers, closes>>
        \/ /\ fallback # 0
           /\ BeginActivation(w, fallback)
           /\ closes' = {[window |-> w, tab |-> t, activation |-> next.activation]}
           /\ UNCHANGED <<pages, answers>>
        \/ /\ windows' = [windows EXCEPT ![w] = Activated(@, t)]
           /\ closes' = {[window |-> w, tab |-> t, activation |-> 0]}
           /\ UNCHANGED <<pages, next, answers>>
    BY DEF BeginClose
  <1> HIDE DEF win, fallback
  <1>. QED BY <1>2, <1>3, <1>4, <1>5

LEMMA CommitCloseSound ==
    ASSUME BrowserInv, NEW c \in closes, CommitClose(c)
    PROVE  SoundStep
  <1> DEFINE w == c.window
             win == windows[w]
             settled == IF c.activation = 0 THEN win ELSE Activated(win, win.activation.to)
  <1>1. /\ next' = next /\ answers' = answers /\ closes' \in SUBSET closes
        /\ MayClose(c) => /\ windows' = [windows EXCEPT ![w] = CloseTab(settled, c.tab)]
                          /\ pages' = Without(pages, {c.tab})
        /\ ~MayClose(c) => windows' = windows /\ pages' = pages
    BY DEF CommitClose
  <1>2. /\ SoundBrowser(windows, pages, next) /\ Numbers(next) /\ Held(answers, closes, next)
        /\ c.tab # 0
    BY DEF BrowserInv, SoundBrowser, Held
  <1>3. CASE MayClose(c)
    <2>1. w \in DOMAIN windows /\ win.active = c.tab
      BY <1>3 DEF MayClose
    <2>2. SoundWin(win) /\ c.tab \in Range(win.tabs)
      BY <1>2, <2>1 DEF SoundBrowser, SoundWin
    <2>3. SoundWin(settled) /\ Range(settled.tabs) = Range(windows[w].tabs)
      <3>1. CASE c.activation = 0
        BY <2>2, <3>1
      <3>2. CASE c.activation # 0
        <4>1. win.activation.to \in Range(win.tabs)
          BY <1>3, <3>2 DEF MayClose, MayActivate
        <4>2. settled = Activated(win, win.activation.to)
          BY <3>2
        <4> HIDE DEF win, settled
        <4>3. SoundWin(settled) /\ settled.tabs = win.tabs
          BY <2>2, <4>1, <4>2, ActivatedIs
        <4>. QED BY <4>3 DEF win
      <3>. QED BY <3>1, <3>2
    <2>4. c.tab \in TabsOf(w)
      BY <2>2 DEF TabsOf
    <2> HIDE DEF settled, w
    <2>. QED BY <1>1, <1>3, <2>1, <2>3, <2>4, LessStep
  <1>4. CASE ~MayClose(c)
    <2>1. Grown(next, next) /\ Held(answers, closes', next)
      BY <1>1, <1>2, GrownSelf, HeldStill
    <2>. QED BY <1>1, <1>2, <1>4, <2>1 DEF SoundStep
  <1>. QED BY <1>3, <1>4

\* An entry of the history, or none.
LEMMA EntryAtIs ==
    ASSUME NEW p, NEW i
    PROVE  EntryAt(p, i) \in EntryIds(p) \cup {0}
  BY DEF EntryAt, EntryIds

LEMMA BeginSound ==
    ASSUME BrowserInv, NEW t \in DOMAIN pages, NEW entry \in EntryIds(pages[t]) \cup {0},
           Begin(t, entry)
    PROVE  SoundStep
  <1> DEFINE n == [next EXCEPT !.navigation = @ + 1]
             p == Start(pages[t], Intent(next.navigation, entry))
             a == [tab |-> t, navigation |-> next.navigation]
  <1>1. /\ pages' = [pages EXCEPT ![t] = p] /\ next' = n /\ answers' = answers \cup {a}
        /\ windows' = windows /\ closes' = closes
    BY DEF Begin
  <1>2. /\ SoundBrowser(windows, pages, next) /\ Numbers(next) /\ Held(answers, closes, next)
        /\ SoundTab(pages[t], next.entry) /\ t \in 1 .. next.tab - 1
    BY DEF BrowserInv, SoundBrowser
  <1>3. /\ Grown(next, n) /\ n.navigation = next.navigation + 1
        /\ n.tab = next.tab /\ n.entry = next.entry
    BY <1>2, NavigationNumbered
  <1> HIDE DEF n
  <1>4. SoundTab(p, n.entry)
    <2>1. next.navigation \in Nat
      BY <1>2 DEF Numbers
    <2>. QED BY <1>2, <1>3, <2>1, StartIs
  <1> HIDE DEF p
  <1>5. SoundBrowser(windows, [pages EXCEPT ![t] = p], n)
    BY <1>2, <1>3, <1>4, PageChanged
  <1>6. Held(answers, closes, n)
    BY <1>2, <1>3, HeldStill
  <1>7. /\ a = [tab |-> a.tab, navigation |-> a.navigation] /\ a.tab \in 1 .. n.tab - 1
        /\ a.navigation \in 1 .. n.navigation - 1
    BY <1>2, <1>3 DEF Numbers
  <1> HIDE DEF a
  <1>8. Held(answers \cup {a}, closes, n)
    BY <1>6, <1>7 DEF Held
  <1>. QED BY <1>1, <1>3, <1>5, <1>8 DEF SoundStep

\* A tab that waits for nothing any more.
LEMMA StoppedSound ==
    ASSUME BrowserInv, NEW t \in DOMAIN pages, pages' = [pages EXCEPT ![t] = Stopped(@)],
           windows' = windows, next' = next, answers' \in SUBSET answers, closes' = closes
    PROVE  SoundStep
  <1> DEFINE p == Stopped(pages[t])
  <1>1. /\ SoundBrowser(windows, pages, next) /\ Numbers(next) /\ Held(answers, closes, next)
        /\ SoundTab(pages[t], next.entry)
    BY DEF BrowserInv, SoundBrowser
  <1>2. SoundTab(p, next.entry) /\ Grown(next, next)
    BY <1>1, StoppedIs, GrownSelf
  <1>3. pages' = [pages EXCEPT ![t] = p]
    OBVIOUS
  <1> HIDE DEF p
  <1>4. SoundBrowser(windows, [pages EXCEPT ![t] = p], next)
    BY <1>1, <1>2, PageChanged
  <1>5. Held(answers', closes, next)
    BY <1>1, <1>2, HeldStill
  <1>. QED BY <1>2, <1>3, <1>4, <1>5 DEF SoundStep

LEMMA DispatchSound ==
    ASSUME BrowserInv, NEW t \in DOMAIN pages,
           Navigate(t) \/ Back(t) \/ Forward(t) \/ ReloadOrStop(t)
    PROVE  SoundStep
  <1> DEFINE p == pages[t]
  <1>1. CASE Navigate(t)
    BY <1>1, BeginSound DEF Navigate
  <1>2. CASE Back(t)
    <2>1. BackTarget(p) \in EntryIds(p) \cup {0}
      BY EntryAtIs DEF BackTarget
    <2>. QED BY <1>2, <2>1, BeginSound DEF Back
  <1>3. CASE Forward(t)
    <2>1. ForwardTarget(p) \in EntryIds(p) \cup {0}
      BY EntryAtIs DEF ForwardTarget
    <2>. QED BY <1>3, <2>1, BeginSound DEF Forward
  <1>4. CASE ReloadOrStop(t)
    <2>1. CASE Begin(t, ReloadTarget(p))
      <3>1. ReloadTarget(p) \in EntryIds(p) \cup {0}
        BY EntryAtIs DEF ReloadTarget
      <3>. QED BY <2>1, <3>1, BeginSound
    <2>2. CASE /\ pages' = [pages EXCEPT ![t] = Stopped(@)]
               /\ UNCHANGED <<windows, next, answers, closes>>
      BY <2>2, StoppedSound
    <2>. QED BY <1>4, <2>1, <2>2 DEF ReloadOrStop
  <1>. QED BY <1>1, <1>2, <1>3, <1>4

LEMMA AnswerSound ==
    ASSUME BrowserInv, NEW a \in answers, Answer(a)
    PROVE  SoundStep
  <1> DEFINE t == a.tab
             p == pages[t]
             entry == p.pending.entry
  <1>1. /\ SoundBrowser(windows, pages, next) /\ Numbers(next) /\ Held(answers, closes, next)
        /\ answers' \in SUBSET answers /\ windows' = windows /\ closes' = closes
    BY DEF BrowserInv, SoundBrowser, Answer
  <1>2. CASE pages' = pages /\ next' = next
    <2>1. Grown(next, next) /\ Held(answers', closes, next)
      BY <1>1, GrownSelf, HeldStill
    <2>. QED BY <1>1, <1>2, <2>1 DEF SoundStep
  <1>3. CASE t \in DOMAIN pages /\ pages' = [pages EXCEPT ![t] = Stopped(@)] /\ next' = next
    <2> HIDE DEF t
    <2>. QED BY <1>1, <1>3, StoppedSound
  <1>4. ASSUME t \in DOMAIN pages, NEW location \in Location,
               pages' = [pages EXCEPT ![t] = CommitNew(p, Entry(next.entry, location))],
               next' = [next EXCEPT !.entry = @ + 1]
        PROVE  SoundStep
    <2> DEFINE n == [next EXCEPT !.entry = @ + 1]
               q == CommitNew(p, Entry(next.entry, location))
    <2>1. Grown(next, n) /\ n.entry = next.entry + 1
      BY <1>1, EntryNumbered
    <2> HIDE DEF n
    <2>2. SoundTab(p, next.entry) /\ next.entry \in Nat \ {0}
      BY <1>1, <1>4 DEF SoundBrowser, Numbers
    <2>3. next.entry \in Nat /\ next.entry <= next.entry
      BY <2>2
    <2>4. SoundTab(q, n.entry)
      BY <2>1, <2>2, <2>3, CommitNewIs
    <2> HIDE DEF q
    <2>5. SoundBrowser(windows, [pages EXCEPT ![t] = q], n)
      BY <1>1, <1>4, <2>1, <2>4, PageChanged
    <2>6. Held(answers', closes, n)
      BY <1>1, <2>1, HeldStill
    <2>. QED BY <1>1, <1>4, <2>1, <2>5, <2>6 DEF SoundStep, n, q
  <1>5. ASSUME t \in DOMAIN pages, NEW location \in Location, entry \in EntryIds(p),
               pages' = [pages EXCEPT ![t] = CommitExisting(p, entry, location)],
               next' = next
        PROVE  SoundStep
    <2> DEFINE q == CommitExisting(p, entry, location)
    <2>1. SoundTab(p, next.entry)
      BY <1>1, <1>5 DEF SoundBrowser
    <2>2. SoundTab(q, next.entry)
      BY <1>5, <2>1, CommitExistingIs
    <2> HIDE DEF q
    <2>3. Grown(next, next) /\ Held(answers', closes, next)
      BY <1>1, GrownSelf, HeldStill
    <2>4. SoundBrowser(windows, [pages EXCEPT ![t] = q], next)
      BY <1>1, <1>5, <2>2, <2>3, PageChanged
    <2>. QED BY <1>1, <1>5, <2>3, <2>4 DEF SoundStep, q
  <1>6. CASE PendingFor(t, a.navigation) /\ \E location \in Location : Commit(a, location)
    <2>1. t \in DOMAIN pages
      BY <1>6 DEF PendingFor
    <2>2. PICK location \in Location : Commit(a, location)
      BY <1>6
    <2>3. CASE entry = 0
      <3>1. /\ pages' = [pages EXCEPT ![t] = CommitNew(p, Entry(next.entry, location))]
            /\ next' = [next EXCEPT !.entry = @ + 1]
        <4>1. 0 \notin EntryIds(p)
          <5>1. p.history \in Seq(HistoryEntry)
            BY <1>1, <2>1 DEF SoundBrowser, SoundTab
          <5>2. DOMAIN p.history = 1 .. Len(p.history)
                /\ \A i \in 1 .. Len(p.history) : p.history[i] \in HistoryEntry
            BY <5>1, LenProperties
          <5>. QED BY <5>2 DEF EntryIds, HistoryEntry
        <4>. QED BY <2>2, <2>3, <4>1 DEF Commit
      <3>. QED BY <1>4, <2>1, <3>1
    <2>4. CASE entry # 0 /\ entry \in EntryIds(p)
      <3>1. pages' = [pages EXCEPT ![t] = CommitExisting(p, entry, location)] /\ next' = next
        BY <2>2, <2>4 DEF Commit
      <3>. QED BY <1>5, <2>1, <2>4, <3>1
    <2>5. CASE entry # 0 /\ entry \notin EntryIds(p)
      <3>1. pages' = pages /\ next' = next
        BY <2>2, <2>5 DEF Commit
      <3>. QED BY <1>2, <3>1
    <2>. QED BY <2>3, <2>4, <2>5
  <1>7. \/ PendingFor(t, a.navigation) /\ \E location \in Location : Commit(a, location)
        \/ t \in DOMAIN pages /\ pages' = [pages EXCEPT ![t] = Stopped(@)] /\ next' = next
        \/ pages' = pages /\ next' = next
    BY DEF Answer, PendingFor
  <1>. QED BY <1>2, <1>3, <1>6, <1>7

LEMMA BrowserStep ==
    ASSUME BrowserInv, BrowserNext
    PROVE  SoundStep
  <1>1. CASE CreateWindow
    BY <1>1, CreateWindowSound
  <1>2. ASSUME NEW w \in DOMAIN windows,
               CloseWindow(w) \/ ResetWindow(w) \/ CreateTab(w) \/ BeginEdit(w) \/ EndEdit(w)
        PROVE  SoundStep
    BY <1>2, CloseWindowSound, ResetWindowSound, CreateTabSound, BeginEditSound, EndEditSound
  <1>3. ASSUME NEW w \in DOMAIN windows, Cycle(w, 1) \/ Cycle(w, -1)
        PROVE  SoundStep
    BY <1>3, CycleSound
  <1>4. ASSUME NEW w \in DOMAIN windows, NEW t \in TabsOf(w),
               SetActiveTab(w, t) \/ MoveTab(w, t) \/ SwitchTo(w, t) \/ BeginClose(w, t)
        PROVE  SoundStep
    BY <1>4, SetActiveTabSound, MoveTabSound, SwitchToSound, BeginCloseSound
  <1>5. ASSUME NEW w \in DOMAIN windows, NEW t \in TabsOf(w),
               Navigate(t) \/ Back(t) \/ Forward(t) \/ ReloadOrStop(t)
        PROVE  SoundStep
    <2>1. t \in DOMAIN pages
      BY DEF BrowserInv, SoundBrowser, TabsOf
    <2>. QED BY <1>5, <2>1, DispatchSound
  <1>6. ASSUME NEW w \in DOMAIN windows, NEW id,
               CommitActivation(w, id) \/ CancelActivation(w, id)
        PROVE  SoundStep
    BY <1>6, CommitActivationSound, CancelActivationSound
  <1>7. ASSUME NEW c \in closes, CommitClose(c) PROVE SoundStep
    BY <1>7, CommitCloseSound
  <1>8. ASSUME NEW a \in answers, Answer(a) PROVE SoundStep
    BY <1>8, AnswerSound
  <1>. QED BY <1>1, <1>2, <1>3, <1>4, <1>5, <1>6, <1>7, <1>8 DEF BrowserNext, Operation

\* A browser with a window more, of one new tab.
LEMMA WindowOpened ==
    ASSUME NEW ws, NEW ps, NEW nx, SoundBrowser(ws, ps, nx), NEW n, Grown(nx, n),
           n.window = nx.window + 1, n.tab = nx.tab + 1
    PROVE  SoundBrowser(With(ws, nx.window, Inserted(NewWindow, nx.tab)),
                        With(ps, nx.tab, NewTab), n)
  <1> DEFINE w == nx.window
             t == nx.tab
             vs == With(ws, w, Inserted(NewWindow, t))
             qs == With(ps, t, NewTab)
  <1>1. /\ DOMAIN vs = DOMAIN ws \cup {w} /\ vs[w] = Inserted(NewWindow, t)
        /\ \A u \in DOMAIN ws \ {w} : vs[u] = ws[u]
    BY DEF With
  <1>2. /\ DOMAIN qs = DOMAIN ps \cup {t} /\ qs[t] = NewTab /\ t \in DOMAIN qs
        /\ \A x \in DOMAIN qs \ {t} : x \in DOMAIN ps /\ qs[x] = ps[x]
    BY DEF With
  <1> HIDE DEF vs, qs
  <1>3. w \in 1 .. n.window - 1
    BY DEF SoundBrowser, Numbers
  <1>4. /\ Range(NewWindow.tabs) \subseteq DOMAIN ps \cap DOMAIN qs
        /\ \A u \in DOMAIN ws \ {w} : /\ Range(ws[u].tabs) \subseteq DOMAIN qs
                                      /\ Range(ws[u].tabs) \cap Range(NewWindow.tabs) = {}
    BY <1>2, NewWindowIs DEF SoundBrowser
  <1>. QED BY <1>1, <1>2, <1>3, <1>4, NewWindowIs, WindowMore DEF vs, qs

LEMMA BootstrappedIs ==
    /\ SoundBrowser(Bootstrapped.windows, Bootstrapped.pages, Bootstrapped.next)
    /\ Bootstrapped.next.window = 2 /\ Bootstrapped.next.tab = 2
  <1> DEFINE n == [FirstIds EXCEPT !.window = 2, !.tab = 2]
  <1>1. SoundBrowser(<<>>, <<>>, FirstIds)
    <2>1. /\ FirstIds.window = 1 /\ FirstIds.tab = 1 /\ FirstIds.activation = 1
          /\ FirstIds.navigation = 1 /\ FirstIds.entry = 1
          /\ FirstIds = [window |-> FirstIds.window, tab |-> FirstIds.tab,
                         activation |-> FirstIds.activation,
                         navigation |-> FirstIds.navigation, entry |-> FirstIds.entry]
      BY DEF FirstIds
    <2> HIDE DEF FirstIds
    <2>2. Numbers(FirstIds)
      BY <2>1 DEF Numbers
    <2>3. DOMAIN <<>> = {}
      OBVIOUS
    <2>. QED BY <2>2, <2>3 DEF SoundBrowser
  <1>2. /\ n = [window |-> 2, tab |-> 2, activation |-> 1, navigation |-> 1, entry |-> 1]
        /\ FirstIds.window = 1 /\ FirstIds.tab = 1 /\ FirstIds.activation = 1
        /\ FirstIds.navigation = 1 /\ FirstIds.entry = 1
    <2> DEFINE z == [FirstIds EXCEPT !.window = 2]
    <2>1. z = [window |-> 2, tab |-> 1, activation |-> 1, navigation |-> 1, entry |-> 1]
      BY DEF FirstIds
    <2> HIDE DEF z
    <2>2. [z EXCEPT !.tab = 2] = [window |-> 2, tab |-> 2, activation |-> 1, navigation |-> 1,
                                  entry |-> 1]
      BY <2>1
    <2>3. /\ FirstIds.window = 1 /\ FirstIds.tab = 1 /\ FirstIds.activation = 1
          /\ FirstIds.navigation = 1 /\ FirstIds.entry = 1
      BY DEF FirstIds
    <2>. QED BY <2>2, <2>3 DEF z
  <1> HIDE DEF n
  <1>3. n.window = 2 /\ n.tab = 2 /\ n.activation = 1 /\ n.navigation = 1 /\ n.entry = 1
        /\ n = [window |-> n.window, tab |-> n.tab, activation |-> n.activation,
                navigation |-> n.navigation, entry |-> n.entry]
    BY <1>2
  <1>4. Grown(FirstIds, n)
    BY <1>2, <1>3 DEF Grown, Numbers
  <1>5. SoundBrowser(With(<<>>, FirstIds.window, Inserted(NewWindow, FirstIds.tab)),
                     With(<<>>, FirstIds.tab, NewTab), n)
    <2>1. n.window = FirstIds.window + 1 /\ n.tab = FirstIds.tab + 1
      BY <1>2, <1>3
    <2>. QED BY <1>1, <1>4, <2>1, WindowOpened
  <1>6. /\ Bootstrapped.windows = With(<<>>, 1, Inserted(NewWindow, 1))
        /\ Bootstrapped.pages = With(<<>>, 1, NewTab) /\ Bootstrapped.next = n
    BY DEF Bootstrapped, n
  <1>. QED BY <1>2, <1>3, <1>5, <1>6

\* The browser r is sound, and bound to the session s.
Opens(s, r) ==
    /\ SoundBrowser(r.windows, r.pages, r.next)
    /\ Covers(s, r.bindings.windows, r.bindings.tabs)
    /\ DOMAIN r.bindings.windows \subseteq 1 .. r.next.window - 1
    /\ \A b \in DOMAIN r.bindings.tabs : b[2] \in 1 .. r.next.tab - 1

LEMMA InstalledIs ==
    ASSUME NEW s, SoundSession(s)
    PROVE  Opens(s, Installed(s))
  <1>1. CASE s.windows = <<>>
    <2> DEFINE r == Installed(s)
    <2>1. /\ r.windows = Bootstrapped.windows /\ r.pages = Bootstrapped.pages
          /\ r.next = Bootstrapped.next
          /\ r.bindings.windows = <<>> /\ r.bindings.tabs = <<>>
      <3> HIDE DEF Bootstrapped
      <3>. QED BY <1>1 DEF Installed, Unbound
    <2> HIDE DEF r
    <2>2. Ids(s.windows) = {} /\ DOMAIN <<>> = {}
      BY <1>1 DEF Ids
    <2>3. Covers(s, <<>>, <<>>)
      BY <2>2 DEF Covers
    <2>. QED BY <2>1, <2>2, <2>3, BootstrappedIs DEF Opens, r
  <1>2. CASE s.windows # <<>>
    <2> DEFINE r == Restored(s)
               N == Len(Flat(s))
    <2>1. Installed(s) = r
      BY <1>2 DEF Installed
    <2>2. r.next.window = Len(s.windows) + 1 /\ r.next.tab = N + 1
      <3>1. r.next = [window |-> Len(s.windows) + 1, tab |-> N + 1,
                      activation |-> 1, navigation |-> N + 1, entry |-> N + 1]
        BY RestoredParts
      <3>. QED BY <3>1
    <2>3. /\ Covers(s, r.bindings.windows, r.bindings.tabs)
          /\ DOMAIN r.bindings.windows = 1 .. Len(s.windows)
          /\ DOMAIN r.bindings.tabs = {<<Flat(s)[n][1], n>> : n \in 1 .. N}
      BY <1>2, RestoredCovers
    <2>4. SoundBrowser(r.windows, r.pages, r.next)
      BY <1>2, RestoredIs
    <2>5. N \in Nat /\ Len(s.windows) \in Nat
      BY <1>2, FlatIs, SessionParts
    <2> HIDE DEF r, N
    <2>6. (N + 1) - 1 = N /\ (Len(s.windows) + 1) - 1 = Len(s.windows)
      BY <2>5
    <2>7. \A b \in DOMAIN r.bindings.tabs : b[2] \in 1 .. N
      BY <2>3
    <2>. QED BY <2>1, <2>2, <2>3, <2>4, <2>6, <2>7 DEF Opens
  <1>. QED BY <1>1, <1>2

LEMMA EmptySessionIs == SoundSession(EmptySession)
  <1>1. /\ EmptySession.windows = <<>> /\ EmptySession.nextWindow = 1 /\ EmptySession.nextTab = 1
        /\ EmptySession = [windows |-> EmptySession.windows,
                           nextWindow |-> EmptySession.nextWindow,
                           nextTab |-> EmptySession.nextTab]
    BY DEF EmptySession
  <1>2. <<>> \in Seq(StoredWindow) /\ DOMAIN <<>> = {} /\ Len(<<>>) = 0
    OBVIOUS
  <1> HIDE DEF EmptySession
  <1>3. Ids(EmptySession.windows) = {} /\ TabIds(EmptySession) = {}
    BY <1>1, <1>2 DEF Ids, TabIds
  <1>4. Cardinality(TabIds(EmptySession)) = 0
    BY <1>3, FS_EmptySet
  <1>5. MaxSessionWindows \in Nat /\ MaxSessionTabs \in Nat
    BY SessionConstants DEF SessionConstants
  <1>6. EmptySession \in StoredSession
    <2> DEFINE none == <<>>
    <2>1. none \in Seq(StoredWindow) /\ EmptySession.windows = none
      BY <1>1, <1>2
    <2> HIDE DEF none
    <2>2. EmptySession = [windows |-> none, nextWindow |-> 1, nextTab |-> 1]
      BY <1>1, <2>1
    <2>. QED BY <2>1, <2>2 DEF StoredSession
  <1>7. DistinctIds(EmptySession.windows)
    BY <1>1, <1>2 DEF DistinctIds
  <1>. QED BY <1>1, <1>2, <1>3, <1>4, <1>5, <1>6, <1>7 DEF SoundSession

-----------------------------------------------------------------------------
(* The invariant: the browser is sound, the bindings are true of the       *)
(* session, and the session is later than the disk.                        *)

Bound ==
    /\ SoundSession(session)
    /\ Covers(session, bindings.windows, bindings.tabs)
    /\ DOMAIN bindings.windows \subseteq 1 .. next.window - 1
    /\ \A b \in DOMAIN bindings.tabs : b[2] \in 1 .. next.tab - 1

SyncInv ==
    /\ limits \in Limits /\ boots \in 1 .. limits.boots /\ starting \in BOOLEAN
    /\ BrowserInv
    /\ Bound
    /\ SoundSession(disk) /\ Later(disk, session)

LEMMA SoundIsShowing ==
    ASSUME SoundBrowser(windows, pages, next)
    PROVE  Showing
  <1>1. /\ next.window \in Nat /\ next.tab \in Nat
        /\ DOMAIN windows \subseteq 1 .. next.window - 1
        /\ DOMAIN pages \subseteq 1 .. next.tab - 1
    BY DEF SoundBrowser, Numbers
  <1>2. \A t \in DOMAIN pages : pages[t].history \in Seq(HistoryEntry)
    BY DEF SoundBrowser, SoundTab
  <1>3. ASSUME NEW w \in DOMAIN windows
        PROVE  Listing(windows[w].tabs)
    <2> DEFINE tabs == windows[w].tabs
               n == Len(tabs)
    <2>1. /\ tabs \in Seq(Nat \ {0}) /\ n \in Nat /\ DOMAIN tabs = 1 .. n /\ Each(tabs)
          /\ \A i \in 1 .. n : tabs[i] \in Range(tabs)
          /\ Range(tabs) \subseteq DOMAIN pages
      BY WindowParts DEF SoundBrowser
    <2>2. tabs = [i \in 1 .. n |-> tabs[i]]
      <3>1. tabs = [i \in DOMAIN tabs |-> tabs[i]]
        BY <2>1
      <3>. QED BY <2>1, <3>1
    <2> HIDE DEF tabs, n
    <2>3. \A i \in 1 .. n : tabs[i] \in DOMAIN pages
      BY <2>1
    <2>4. tabs \in Seq(DOMAIN pages)
      BY <2>1, <2>2, <2>3, SeqOver
    <2>. QED BY <2>1, <2>4 DEF Listing, Each, tabs
  <1>. QED BY <1>1, <1>2, <1>3 DEF Showing

\* A synchronisation, of which nothing else is known.
LEMMA PublishedIs ==
    ASSUME SoundBrowser(windows, pages, next), Bound, Published(Synced)
    PROVE  /\ SoundSession(session') /\ Later(session, session')
           /\ Covers(session', bindings'.windows, bindings'.tabs)
           /\ DOMAIN bindings'.windows \subseteq 1 .. next.window - 1
           /\ \A b \in DOMAIN bindings'.tabs : b[2] \in 1 .. next.tab - 1
  <1>1. Showing
    BY SoundIsShowing
  <1>2. /\ Started.ok = TRUE /\ Started.session = session
        /\ Started.windows = bindings.windows /\ Started.tabs = bindings.tabs
        /\ Started = [ok |-> Started.ok, session |-> Started.session,
                      windows |-> Started.windows, tabs |-> Started.tabs]
    BY DEF Started
  <1> HIDE DEF Started
  <1>3. Matches(Started) /\ Numbered(Started)
    BY <1>2 DEF Matches, Numbered, Bound
  <1>4. /\ Follows(Started, Synced) /\ Numbered(Synced)
        /\ DOMAIN Synced.windows \subseteq DOMAIN windows
    BY <1>1, <1>3, SyncedIs DEF Bound
  <1>5. Matches(Synced) /\ Later(session, Synced.session)
    BY <1>2, <1>4 DEF Follows
  <1>6. /\ session' = Synced.session
        /\ bindings'.windows = Synced.windows /\ bindings'.tabs = Synced.tabs
    BY DEF Published
  <1>. QED BY <1>1, <1>4, <1>5, <1>6 DEF Matches, Numbered, Showing

LEMMA SyncInvStarts == Init => SyncInv
  <1> SUFFICES ASSUME Init PROVE SyncInv
    OBVIOUS
  <1>1. Opens(EmptySession, Installed(EmptySession))
    BY EmptySessionIs, InstalledIs
  <1>2. /\ Installed(EmptySession).windows = windows /\ Installed(EmptySession).pages = pages
        /\ Installed(EmptySession).next = next /\ Installed(EmptySession).bindings = bindings
    <2>1. EmptySession.windows = <<>>
      BY DEF EmptySession
    <2> HIDE DEF EmptySession, Bootstrapped
    <2>. QED BY <2>1 DEF Installed, Init
  <1>3. /\ SoundBrowser(windows, pages, next)
        /\ Covers(session, bindings.windows, bindings.tabs)
        /\ DOMAIN bindings.windows \subseteq 1 .. next.window - 1
        /\ \A b \in DOMAIN bindings.tabs : b[2] \in 1 .. next.tab - 1
    BY <1>1, <1>2 DEF Opens, Init
  <1>4. answers = {} /\ closes = {} /\ session = EmptySession /\ disk = EmptySession
        /\ limits \in Limits /\ boots = 1 /\ starting = FALSE
    BY DEF Init
  <1>5. Held(answers, closes, next)
    BY <1>4 DEF Held
  <1>6. boots \in 1 .. limits.boots
    <2>1. limits.boots \in Nat /\ limits.boots # 0
      BY <1>4, BrowserConstants, SyncConstants DEF BrowserConstants, SyncConstants
    <2>. QED BY <1>4, <2>1
  <1>7. SoundSession(session) /\ SoundSession(disk) /\ Later(disk, session)
    BY <1>4, EmptySessionIs, LaterSelf
  <1>. QED BY <1>3, <1>4, <1>5, <1>6, <1>7 DEF SyncInv, BrowserInv, Bound

LEMMA SyncInvHolds == SyncInv /\ [Next]_vars => SyncInv'
  <1> SUFFICES ASSUME SyncInv, [Next]_vars PROVE SyncInv'
    OBVIOUS
  <1>1. /\ BrowserInv /\ SoundBrowser(windows, pages, next) /\ Numbers(next)
        /\ Held(answers, closes, next)
        /\ SoundSession(session) /\ SoundSession(disk) /\ Later(disk, session)
    BY DEF SyncInv, BrowserInv, SoundBrowser, Bound
  <1>2. limits.boots \in Nat
    BY BrowserConstants DEF BrowserConstants, SyncInv
  \* The parts of the invariant, for the variables as they become.
  <1>3. ASSUME limits' = limits, boots' \in 1 .. limits.boots, starting' \in BOOLEAN,
               SoundBrowser(windows', pages', next'), Held(answers', closes', next'),
               SoundSession(session'), Covers(session', bindings'.windows, bindings'.tabs),
               DOMAIN bindings'.windows \subseteq 1 .. next'.window - 1,
               \A b \in DOMAIN bindings'.tabs : b[2] \in 1 .. next'.tab - 1,
               SoundSession(disk'), Later(disk', session')
        PROVE  SyncInv'
    BY <1>3 DEF SyncInv, BrowserInv, Bound
  <1>4. CASE Browse
    <2>1. SoundStep /\ limits' = limits
      BY <1>1, <1>4, BrowserStep DEF Browse, BrowserNext
    <2>2. /\ session' = session /\ bindings' = bindings /\ disk' = disk
          /\ boots' = boots /\ starting' = starting
      BY <1>4 DEF Browse
    <2>3. /\ DOMAIN bindings.windows \subseteq 1 .. next'.window - 1
          /\ \A b \in DOMAIN bindings.tabs : b[2] \in 1 .. next'.tab - 1
      <3>1. /\ {next.window, next.tab, next'.window, next'.tab} \subseteq Nat
            /\ next.window <= next'.window /\ next.tab <= next'.tab
        BY <1>1, <2>1 DEF SoundStep, Grown, Numbers
      <3>2. /\ 1 .. next.window - 1 \subseteq 1 .. next'.window - 1
            /\ 1 .. next.tab - 1 \subseteq 1 .. next'.tab - 1
        BY <3>1
      <3>. QED BY <3>2 DEF SyncInv, Bound
    <2>4. /\ boots' \in 1 .. limits.boots /\ starting' \in BOOLEAN
          /\ Covers(session', bindings'.windows, bindings'.tabs)
      BY <2>2 DEF SyncInv, Bound
    <2>. QED BY <1>1, <1>3, <2>1, <2>2, <2>3, <2>4 DEF SoundStep
  <1>5. CASE Synchronize
    <2>1. /\ Published(Synced) /\ disk' = disk /\ boots' = boots /\ starting' = starting
          /\ limits' = limits /\ windows' = windows /\ pages' = pages /\ next' = next
          /\ answers' = answers /\ closes' = closes
      BY <1>5 DEF Synchronize, browser
    <2>2. /\ SoundSession(session') /\ Later(session, session')
          /\ Covers(session', bindings'.windows, bindings'.tabs)
          /\ DOMAIN bindings'.windows \subseteq 1 .. next.window - 1
          /\ \A b \in DOMAIN bindings'.tabs : b[2] \in 1 .. next.tab - 1
      BY <1>1, <2>1, PublishedIs DEF SyncInv
    <2>3. Later(disk, session')
      BY <1>1, <2>2, LaterTrans
    <2>4. boots' \in 1 .. limits.boots /\ starting' \in BOOLEAN
      BY <2>1 DEF SyncInv
    <2>. QED BY <1>1, <1>3, <2>1, <2>2, <2>3, <2>4
  <1>6. CASE Save
    <2>1. /\ disk' = session /\ session' = session /\ bindings' = bindings
          /\ boots' = boots /\ starting' = starting
          /\ limits' = limits /\ windows' = windows /\ pages' = pages /\ next' = next
          /\ answers' = answers /\ closes' = closes
      BY <1>6 DEF Save, browser
    <2>2. Later(session, session)
      BY <1>1, LaterSelf
    <2>3. /\ boots' \in 1 .. limits.boots /\ starting' \in BOOLEAN
          /\ Covers(session', bindings'.windows, bindings'.tabs)
          /\ DOMAIN bindings'.windows \subseteq 1 .. next'.window - 1
          /\ \A b \in DOMAIN bindings'.tabs : b[2] \in 1 .. next'.tab - 1
      BY <2>1 DEF SyncInv, Bound
    <2>. QED BY <1>1, <1>3, <2>1, <2>2, <2>3
  <1>7. CASE Restart
    <2> DEFINE r == Installed(disk)
    <2>1. /\ windows' = r.windows /\ pages' = r.pages /\ next' = r.next
          /\ bindings' = r.bindings /\ session' = disk /\ disk' = disk
          /\ answers' = {} /\ closes' = {} /\ limits' = limits
          /\ boots < limits.boots /\ boots' = boots + 1 /\ starting' = TRUE
      BY <1>7 DEF Restart
    <2>2. Opens(disk, r)
      BY <1>1, InstalledIs
    <2> HIDE DEF r
    <2>3. boots' \in 1 .. limits.boots /\ starting' \in BOOLEAN
      BY <1>2, <2>1 DEF SyncInv
    <2>4. Held(answers', closes', next') /\ Later(disk, disk)
      BY <1>1, <2>1, LaterSelf DEF Held
    <2>. QED BY <1>1, <1>3, <2>1, <2>2, <2>3, <2>4 DEF Opens
  <1>8. CASE CheckRestored
    <2>1. /\ Published(Synced) /\ session' = session /\ disk' = disk /\ boots' = boots
          /\ starting' = FALSE /\ limits' = limits
          /\ answers' = answers /\ closes' = closes
      BY <1>8 DEF CheckRestored
    <2>2. /\ Covers(session', bindings'.windows, bindings'.tabs)
          /\ DOMAIN bindings'.windows \subseteq 1 .. next.window - 1
          /\ \A b \in DOMAIN bindings'.tabs : b[2] \in 1 .. next.tab - 1
      BY <1>1, <2>1, PublishedIs DEF SyncInv
    <2>3. boots' \in 1 .. limits.boots /\ starting' \in BOOLEAN
      BY <2>1 DEF SyncInv
    <2>4. SoundBrowser(windows', pages', next') /\ Grown(next, next')
      <3>1. CASE windows' = windows /\ pages' = pages /\ next' = next
        BY <1>1, <3>1, GrownSelf
      <3>2. CASE /\ windows' = With(windows, next.window, Inserted(NewWindow, next.tab))
                 /\ pages' = With(pages, next.tab, NewTab)
                 /\ next' = [next EXCEPT !.window = @ + 1, !.tab = @ + 1]
        <4> DEFINE m == [next EXCEPT !.window = @ + 1]
                   n == [m EXCEPT !.tab = @ + 1]
        <4>1. next' = n
          BY <3>2
        <4>2. Grown(next, m) /\ m.window = next.window + 1 /\ m.tab = next.tab
          BY <1>1, WindowNumbered
        <4> HIDE DEF m
        <4>3. Grown(m, n) /\ n.tab = m.tab + 1 /\ n.window = m.window
          BY <4>2, TabNumbered DEF Grown
        <4> HIDE DEF n
        <4>4. Grown(next, n)
          BY <1>1, <4>2, <4>3 DEF Grown, Numbers
        <4>5. n.window = next.window + 1 /\ n.tab = next.tab + 1
          BY <4>2, <4>3
        <4>. QED BY <1>1, <3>2, <4>1, <4>4, <4>5, WindowOpened
      <3>. QED BY <1>8, <3>1, <3>2 DEF CheckRestored
    <2>5. /\ DOMAIN bindings'.windows \subseteq 1 .. next'.window - 1
          /\ \A b \in DOMAIN bindings'.tabs : b[2] \in 1 .. next'.tab - 1
      <3>1. /\ {next.window, next.tab, next'.window, next'.tab} \subseteq Nat
            /\ next.window <= next'.window /\ next.tab <= next'.tab
        BY <1>1, <2>4 DEF Grown, Numbers
      <3>2. /\ 1 .. next.window - 1 \subseteq 1 .. next'.window - 1
            /\ 1 .. next.tab - 1 \subseteq 1 .. next'.tab - 1
        BY <3>1
      <3>. QED BY <2>2, <3>2
    <2>6. Held(answers', closes', next')
      BY <1>1, <2>1, <2>4, HeldStill
    <2>. QED BY <1>1, <1>3, <2>1, <2>2, <2>3, <2>4, <2>5, <2>6
  <1>9. CASE UNCHANGED vars
    BY <1>9 DEF vars, browser, SyncInv, BrowserInv, Bound
  <1>. QED BY <1>4, <1>5, <1>6, <1>7, <1>8, <1>9 DEF Next

LEMMA SyncInvariant == Spec => []SyncInv
  BY SyncInvStarts, SyncInvHolds, PTL DEF Spec

-----------------------------------------------------------------------------
(* What follows from the invariant.                                        *)

LEMMA Coherence == SyncInv => BrowserIsCoherent
  <1> SUFFICES ASSUME SyncInv PROVE BrowserIsCoherent
    OBVIOUS
  <1>1. /\ SoundBrowser(windows, pages, next) /\ Numbers(next)
        /\ Held(answers, closes, next) /\ Bound
    BY DEF SyncInv, BrowserInv, SoundBrowser
  <1>2. Showing
    BY <1>1, SoundIsShowing
  <1>3. ASSUME NEW w \in DOMAIN windows
        PROVE  LET win == windows[w]
               IN  /\ w < next.window
                   /\ win.tabs \in Seq(DOMAIN pages)
                   /\ {win.active, win.edit} \subseteq 0 .. next.tab - 1
    <2> DEFINE win == windows[w]
    <2>1. /\ SoundWin(win) /\ Range(win.tabs) \subseteq 1 .. next.tab - 1
          /\ w \in 1 .. next.window - 1 /\ next.window \in Nat /\ next.tab \in Nat \ {0}
      BY <1>1 DEF SoundBrowser, Numbers
    <2>2. win.tabs \in Seq(DOMAIN pages)
      BY <1>2 DEF Showing, Listing
    <2>3. win.active \in 0 .. next.tab - 1
      BY <2>1 DEF SoundWin
    <2>4. win.edit \in 0 .. next.tab - 1
      <3>1. win.edit = 0 \/ win.edit = win.active
        BY <2>1 DEF SoundWin
      <3>. QED BY <2>1, <2>3, <3>1
    <2>. QED BY <2>1, <2>2, <2>3, <2>4
  <1>4. ASSUME NEW t \in DOMAIN pages
        PROVE  t < next.tab /\ TabTypeOK(pages[t])
    <2>1. SoundTab(pages[t], next.entry) /\ t \in 1 .. next.tab - 1 /\ next.tab \in Nat
      BY <1>1 DEF SoundBrowser, Numbers
    <2>2. pages[t].history \in Seq(HistoryEntry)
      BY <2>1 DEF SoundTab
    <2>3. DOMAIN pages[t].history = 1 .. Len(pages[t].history)
          /\ \A i \in 1 .. Len(pages[t].history) : pages[t].history[i] \in HistoryEntry
      BY <2>2, LenProperties
    <2>4. \A i \in DOMAIN pages[t].history :
             /\ pages[t].history[i].id \in Nat \ {0}
             /\ pages[t].history[i].location \in Location
      BY <2>3 DEF HistoryEntry
    <2>. QED BY <2>1, <2>4 DEF TabTypeOK, SoundTab
  <1>5. BrowserTypeOK
    <2>1. /\ \A a \in answers : a.tab < next.tab /\ a.navigation < next.navigation
          /\ \A c \in closes : c.tab < next.tab /\ c.activation < next.activation
      BY <1>1 DEF Held, Numbers
    <2>. QED BY <1>3, <1>4, <2>1 DEF BrowserTypeOK
  <1>6. SyncTypeOK
    <2>1. \A b \in DOMAIN bindings.tabs : b \in (1 .. next.window - 1) \X (1 .. next.tab - 1)
      <3> TAKE b \in DOMAIN bindings.tabs
      <3>1. b = <<b[1], b[2]>> /\ b[1] \in 1 .. next.window - 1 /\ b[2] \in 1 .. next.tab - 1
        BY <1>1 DEF Bound, Covers
      <3>. QED BY <3>1
    <2>. QED BY <2>1 DEF SyncTypeOK, SyncInv, Bound
  <1>7. WindowsAreSound
    BY <1>1 DEF WindowsAreSound, SoundBrowser, SoundWin, TabsOf
  <1>8. HistoryIsCoherent
    <2>1. ASSUME NEW t \in DOMAIN pages
          PROVE  DOMAIN pages[t].history = 1 .. Len(pages[t].history)
                 /\ SoundTab(pages[t], next.entry)
      <3>1. SoundTab(pages[t], next.entry)
        BY <1>1 DEF SoundBrowser
      <3>2. pages[t].history \in Seq(HistoryEntry)
        BY <3>1 DEF SoundTab
      <3>. QED BY <3>1, <3>2, LenProperties
    <2>. QED BY <2>1 DEF HistoryIsCoherent, SoundTab
  <1>. QED BY <1>5, <1>6, <1>7, <1>8 DEF BrowserIsCoherent, TypeOK

\* A window with tabs has an active one, what is pending in it is about tabs it
\* still has, and histories stay in order with the entries that are referred to,
\* through any order of closing, switching, late commits and late answers, over
\* restarts, and for any limits (app.rs, tab_close.rs, navigation.rs).
THEOREM BrowserStaysCoherent == Spec => []BrowserIsCoherent
  BY SyncInvariant, Coherence, PTL

LEMMA BindingsTrue == SyncInv => BindingsMatchSession
  <1> SUFFICES ASSUME SyncInv PROVE BindingsMatchSession
    OBVIOUS
  <1> DEFINE ws == bindings.windows
             ts == bindings.tabs
  <1>1. SoundSession(session) /\ Covers(session, ws, ts)
    BY DEF SyncInv, Bound
  <1> HIDE DEF ws, ts
  <1>2. Valid(session)
    BY <1>1, SoundIsValid
  <1>3. IsInjective(ws) /\ IsInjective(ts)
    BY <1>1 DEF Covers, IsInjective
  <1>4. Range(ws) = Ids(session.windows)
    BY <1>1 DEF Covers, Range
  <1>5. {b[1] : b \in DOMAIN ts} \subseteq DOMAIN ws
    BY <1>1 DEF Covers
  <1>6. ASSUME NEW w \in DOMAIN ws
        PROVE  {ts[b] : b \in {c \in DOMAIN ts : c[1] = w}} = TabsIn(session, ws[w])
    BY <1>1 DEF Covers
  <1>. QED BY <1>2, <1>3, <1>4, <1>5, <1>6 DEF BindingsMatchSession, TabsIn, ws, ts

\* The bindings cover the session exactly and one to one, and the session is one
\* that can be saved, whatever was closed, opened and moved between two
\* synchronisations and wherever a limit ended one (bindings_match_snapshot,
\* validate_snapshot).
THEOREM BindingsStayExact == Spec => []BindingsMatchSession
  BY SyncInvariant, BindingsTrue, PTL

LEMMA LaterIsNew == SyncInv => StoredIdsAreNeverReused
  <1> SUFFICES ASSUME SyncInv PROVE StoredIdsAreNeverReused
    OBVIOUS
  <1>1. /\ Later(disk, session) /\ SoundSession(session) /\ SoundSession(disk)
        /\ TabIds(session) \subseteq 1 .. session.nextTab - 1
    BY SoundIsValid DEF SyncInv, Bound, Valid
  <1>2. disk.nextTab \in Nat /\ session.nextTab \in Nat
    BY <1>1 DEF SoundSession
  <1>. QED BY <1>1, <1>2 DEF Later, StoredIdsAreNeverReused

\* What the session has and the disk has not is numbered past all the disk has
\* named: an identity that was ever saved never comes to name another tab, over
\* closing, synchronising, saving, crashing and starting again (add_tab).
THEOREM StoredIdsStayUnique == Spec => []StoredIdsAreNeverReused
  BY SyncInvariant, LaterIsNew, PTL

-----------------------------------------------------------------------------
(* What a tab shows, and the answers that come late.                       *)

\* The tab t shows what it did.
Steady(t) == pages'[t].history = pages[t].history /\ pages'[t].current = pages[t].current

\* The answer to the navigation the tab waits for has come.
Landed(t) ==
    /\ pages[t].pending.id # 0
    /\ answers \ answers' = {[tab |-> t, navigation |-> pages[t].pending.id]}

LEMMA PagesFewer ==
    ASSUME NEW S, pages' = Without(pages, S), NEW t \in DOMAIN pages \cap DOMAIN pages'
    PROVE  Steady(t)
  BY DEF Without, Steady

LEMMA PagesMore ==
    ASSUME BrowserInv, NEW ps, \A x \in DOMAIN ps : x \in DOMAIN pages /\ ps[x] = pages[x],
           pages' = With(ps, next.tab, NewTab), NEW t \in DOMAIN pages \cap DOMAIN pages'
    PROVE  Steady(t)
  <1>1. t # next.tab
    BY DEF BrowserInv, SoundBrowser, Numbers
  <1>2. t \in DOMAIN ps /\ pages'[t] = ps[t]
    BY <1>1 DEF With
  <1>. QED BY <1>2 DEF Steady

LEMMA BeginSteady ==
    ASSUME BrowserInv, NEW u \in DOMAIN pages, NEW entry \in EntryIds(pages[u]) \cup {0},
           Begin(u, entry), NEW t \in DOMAIN pages
    PROVE  Steady(t)
  <1> DEFINE q == Start(pages[u], Intent(next.navigation, entry))
  <1>1. pages' = [pages EXCEPT ![u] = q]
    BY DEF Begin
  <1>2. SoundTab(pages[u], next.entry) /\ next.navigation \in Nat
    BY DEF BrowserInv, SoundBrowser, Numbers
  <1>3. q.history = pages[u].history /\ q.current = pages[u].current
    BY <1>2, StartIs
  <1> HIDE DEF q
  <1>. QED BY <1>1, <1>3 DEF Steady

LEMMA StoppedSteady ==
    ASSUME BrowserInv, NEW u \in DOMAIN pages, pages' = [pages EXCEPT ![u] = Stopped(@)],
           NEW t \in DOMAIN pages
    PROVE  Steady(t)
  <1> DEFINE q == Stopped(pages[u])
  <1>1. pages' = [pages EXCEPT ![u] = q]
    OBVIOUS
  <1>2. SoundTab(pages[u], next.entry)
    BY DEF BrowserInv, SoundBrowser
  <1>3. q.history = pages[u].history /\ q.current = pages[u].current
    BY <1>2, StoppedIs
  <1> HIDE DEF q
  <1>. QED BY <1>1, <1>3 DEF Steady

LEMMA AnswerLands ==
    ASSUME BrowserInv, NEW a \in answers, Answer(a), NEW t \in DOMAIN pages
    PROVE  Steady(t) \/ Landed(t)
  <1> DEFINE u == a.tab
             p == pages[u]
  <1>1. /\ answers \ answers' = {a} /\ a = [tab |-> a.tab, navigation |-> a.navigation]
        /\ a.navigation # 0
    BY DEF BrowserInv, Held, Answer
  <1>2. CASE pages' = pages
    BY <1>2 DEF Steady
  <1>3. CASE u \in DOMAIN pages /\ pages' = [pages EXCEPT ![u] = Stopped(@)]
    <2> HIDE DEF u
    <2>. QED BY <1>3, StoppedSteady
  <1>4. CASE PendingFor(u, a.navigation) /\ \E location \in Location : Commit(a, location)
    <2>1. p.pending.id = a.navigation /\ u \in DOMAIN pages
      BY <1>4 DEF PendingFor
    <2>2. CASE t = u
      BY <1>1, <2>1, <2>2 DEF Landed
    <2>3. CASE t # u
      <3>1. PICK location \in Location : Commit(a, location)
        BY <1>4
      <3>2. (\E q : pages' = [pages EXCEPT ![u] = q]) \/ pages' = pages
        <4>1. CASE p.pending.entry = 0
          BY <3>1, <4>1 DEF Commit
        <4>2. CASE p.pending.entry # 0 /\ p.pending.entry \in EntryIds(p)
          BY <3>1, <4>2 DEF Commit
        <4>3. CASE p.pending.entry # 0 /\ p.pending.entry \notin EntryIds(p)
          BY <3>1, <4>3 DEF Commit
        <4>. QED BY <4>1, <4>2, <4>3
      <3>. QED BY <2>3, <3>2 DEF Steady
    <2>. QED BY <2>2, <2>3
  <1>5. \/ PendingFor(u, a.navigation) /\ \E location \in Location : Commit(a, location)
        \/ u \in DOMAIN pages /\ pages' = [pages EXCEPT ![u] = Stopped(@)]
        \/ pages' = pages
    BY DEF Answer, PendingFor
  <1>. QED BY <1>2, <1>3, <1>4, <1>5

LEMMA BrowserLands ==
    ASSUME BrowserInv, BrowserNext, NEW t \in DOMAIN pages \cap DOMAIN pages'
    PROVE  Steady(t) \/ Landed(t)
  <1>1. ASSUME pages' = pages PROVE Steady(t)
    BY <1>1 DEF Steady
  <1>2. CASE CreateWindow
    BY <1>1, <1>2 DEF CreateWindow
  <1>3. ASSUME NEW w \in DOMAIN windows, CloseWindow(w) PROVE Steady(t)
    BY <1>3, PagesFewer DEF CloseWindow
  <1>4. ASSUME NEW w \in DOMAIN windows, ResetWindow(w) PROVE Steady(t)
    <2> DEFINE ps == Without(pages, TabsOf(w))
    <2>1. /\ pages' = With(ps, next.tab, NewTab)
          /\ \A x \in DOMAIN ps : x \in DOMAIN pages /\ ps[x] = pages[x]
      BY <1>4 DEF ResetWindow, Without
    <2> HIDE DEF ps
    <2>. QED BY <2>1, PagesMore
  <1>5. ASSUME NEW w \in DOMAIN windows, CreateTab(w) PROVE Steady(t)
    BY <1>5, PagesMore DEF CreateTab
  <1>6. ASSUME NEW w \in DOMAIN windows, NEW id,
               \/ BeginEdit(w) \/ EndEdit(w) \/ Cycle(w, 1) \/ Cycle(w, -1)
               \/ CommitActivation(w, id) \/ CancelActivation(w, id)
        PROVE  Steady(t)
    BY <1>1, <1>6 DEF BeginEdit, EndEdit, Cycle, SwitchTo, CommitActivation, CancelActivation
  <1>7. ASSUME NEW w \in DOMAIN windows, NEW u \in TabsOf(w),
               SetActiveTab(w, u) \/ MoveTab(w, u) \/ SwitchTo(w, u)
        PROVE  Steady(t)
    BY <1>1, <1>7 DEF SetActiveTab, MoveTab, SwitchTo
  <1>8. ASSUME NEW w \in DOMAIN windows, NEW u \in TabsOf(w), BeginClose(w, u)
        PROVE  Steady(t)
    <2>1. pages' = pages \/ pages' = Without(pages, {u})
      BY <1>8 DEF BeginClose
    <2>. QED BY <1>1, <2>1, PagesFewer
  <1>9. ASSUME NEW w \in DOMAIN windows, NEW u \in TabsOf(w),
               Navigate(u) \/ Back(u) \/ Forward(u) \/ ReloadOrStop(u)
        PROVE  Steady(t)
    <2>1. u \in DOMAIN pages /\ t \in DOMAIN pages
      BY DEF BrowserInv, SoundBrowser, TabsOf
    <2>2. \/ \E entry \in EntryIds(pages[u]) \cup {0} : Begin(u, entry)
          \/ pages' = [pages EXCEPT ![u] = Stopped(@)]
      BY <1>9, EntryAtIs
         DEF Navigate, Back, BackTarget, Forward, ForwardTarget, ReloadOrStop, ReloadTarget
    <2>. QED BY <2>1, <2>2, BeginSteady, StoppedSteady
  <1>10. ASSUME NEW c \in closes, CommitClose(c) PROVE Steady(t)
    <2>1. pages' = pages \/ pages' = Without(pages, {c.tab})
      BY <1>10 DEF CommitClose
    <2>. QED BY <1>1, <2>1, PagesFewer
  <1>11. ASSUME NEW a \in answers, Answer(a) PROVE Steady(t) \/ Landed(t)
    BY <1>11, AnswerLands
  <1>. QED BY <1>2, <1>3, <1>4, <1>5, <1>6, <1>7, <1>8, <1>9, <1>10, <1>11
           DEF BrowserNext, Operation

\* The history of a tab moves only by the answer to the navigation it waits for,
\* which is told from any other by its number: one that was superseded, stopped,
\* or asked by a tab since closed never lands, however late it is answered
\* (pending_for, commit_navigation).
THEOREM LateAnswersNeverLand == Spec => SupersededNeverLands
  <1>1. ASSUME SyncInv, [Next]_vars, boots' = boots, NEW t \in DOMAIN pages \cap DOMAIN pages'
        PROVE  Steady(t) \/ Landed(t)
    <2>1. CASE pages' = pages
      BY <2>1 DEF Steady
    <2>2. CASE Browse
      BY <1>1, <2>2, BrowserLands DEF Browse, SyncInv
    <2>3. CASE Restart
      <3>1. boots' = boots + 1 /\ boots \in Nat
        BY <1>1, <2>3 DEF Restart, SyncInv
      <3>. QED BY <1>1, <3>1
    <2>4. CASE CheckRestored
      <3>1. pages' = pages \/ pages' = With(pages, next.tab, NewTab)
        BY <2>4 DEF CheckRestored
      <3>. QED BY <1>1, <2>1, <3>1, PagesMore DEF SyncInv
    <2>5. CASE Synchronize
      BY <2>1, <2>5 DEF Synchronize, browser
    <2>6. CASE Save
      BY <2>1, <2>6 DEF Save, browser
    <2>7. CASE UNCHANGED vars
      BY <2>1, <2>7 DEF vars, browser
    <2>. QED BY <1>1, <2>2, <2>3, <2>4, <2>5, <2>6, <2>7 DEF Next
  <1>2. SyncInv /\ [Next]_vars =>
          [boots' = boots =>
              \A t \in DOMAIN pages \cap DOMAIN pages' :
                  LET shown(p) == <<p.history, p.current>>
                  IN  shown(pages'[t]) # shown(pages[t]) =>
                          /\ pages[t].pending.id # 0
                          /\ answers \ answers' =
                                {[tab |-> t, navigation |-> pages[t].pending.id]}]_vars
    BY <1>1 DEF Steady, Landed
  <1>. QED BY <1>2, SyncInvariant, PTL DEF Spec, SupersededNeverLands

-----------------------------------------------------------------------------
(* A window that is stored as it is shown is left as it is.                *)

\* Writing what is there already.
LEMMA SameLocation ==
    ASSUME NEW s, SoundSession(s), NEW w \in Ids(s.windows),
           NEW i \in 1 .. Len(WindowOf(s, w).tabs)
    PROVE  UpdateLocation(s, w, WindowOf(s, w).tabs[i].id, WindowOf(s, w).tabs[i].location) = s
  <1> DEFINE n == IndexOf(s.windows, w)
             old == s.windows[n]
             tab == old.tabs[i]
  <1>1. /\ old \in StoredWindow /\ WindowOf(s, w) = old /\ n \in DOMAIN s.windows
        /\ old.tabs \in Seq(StoredTab) /\ DistinctIds(old.tabs)
        /\ s = [windows |-> s.windows, nextWindow |-> s.nextWindow, nextTab |-> s.nextTab]
        /\ DOMAIN s.windows = 1 .. Len(s.windows)
    BY InWindow
  <1>2. IndexOf(old.tabs, tab.id) = i
    <2> HIDE DEF n, old
    <2>. QED BY <1>1, FoundAt
  <1>3. DOMAIN old.tabs = 1 .. Len(old.tabs) /\ tab \in StoredTab
    <2> HIDE DEF n, old
    <2>. QED BY <1>1, LenProperties
  <1>4. [tab EXCEPT !.location = tab.location] = tab
    BY <1>3 DEF StoredTab
  <1>5. [old.tabs EXCEPT ![i].location = tab.location] = old.tabs
    <2> HIDE DEF n, old
    <2>1. old.tabs = [j \in DOMAIN old.tabs |-> old.tabs[j]]
      BY <1>1, <1>3, SeqDef
    <2>. QED BY <1>3, <1>4, <2>1
  <1>6. [old EXCEPT !.tabs[i].location = tab.location] = old
    BY <1>1, <1>5 DEF StoredWindow
  <1>7. [s.windows EXCEPT ![n] = old] = s.windows
    <2>1. s.windows = [j \in DOMAIN s.windows |-> s.windows[j]]
      <3>1. s.windows \in Seq(StoredWindow)
        BY DEF SoundSession, StoredSession
      <3>. QED BY <1>1, <3>1, SeqDef
    <2>. QED BY <2>1
  <1>8. UpdateLocation(s, w, tab.id, tab.location)
            = [s EXCEPT !.windows = [s.windows EXCEPT ![n] =
                                        [old EXCEPT !.tabs[i].location = tab.location]]]
    <2>1. UpdateLocation(s, w, tab.id, tab.location)
              = [s EXCEPT !.windows = [s.windows EXCEPT ![n] =
                   [old EXCEPT !.tabs[IndexOf(old.tabs, tab.id)].location = tab.location]]]
      BY <1>1 DEF UpdateLocation, Changed
    <2>. QED BY <1>2, <2>1
  <1> HIDE DEF n, old
  <1>. QED BY <1>1, <1>6, <1>7, <1>8

LEMMA SameActive ==
    ASSUME NEW s, SoundSession(s), NEW w \in Ids(s.windows)
    PROVE  SetActive(s, w, WindowOf(s, w).active) = s
  <1> DEFINE n == IndexOf(s.windows, w)
             old == s.windows[n]
  <1>1. /\ old \in StoredWindow /\ WindowOf(s, w) = old /\ n \in DOMAIN s.windows
        /\ s = [windows |-> s.windows, nextWindow |-> s.nextWindow, nextTab |-> s.nextTab]
        /\ DOMAIN s.windows = 1 .. Len(s.windows)
    BY InWindow
  <1>2. [old EXCEPT !.active = old.active] = old
    BY <1>1 DEF StoredWindow
  <1>3. [s.windows EXCEPT ![n] = old] = s.windows
    <2>1. s.windows = [j \in DOMAIN s.windows |-> s.windows[j]]
      <3>1. s.windows \in Seq(StoredWindow)
        BY DEF SoundSession, StoredSession
      <3>. QED BY <1>1, <3>1, SeqDef
    <2>. QED BY <2>1
  <1>4. SetActive(s, w, old.active)
            = [s EXCEPT !.windows = [s.windows EXCEPT ![n] = [old EXCEPT !.active = old.active]]]
    BY <1>1 DEF SetActive, Changed
  <1> HIDE DEF n, old
  <1>. QED BY <1>1, <1>2, <1>3, <1>4

\* All tabs of a window are committed.
LEMMA AllCommitted ==
    ASSUME Showing, NEW w \in DOMAIN windows,
           \A i \in 1 .. Len(windows[w].tabs) : Committed(pages[windows[w].tabs[i]])
    PROVE  CommittedTabs(w) = windows[w].tabs
  <1> DEFINE seq == windows[w].tabs
             n == Len(seq)
             Same(q, k) ==
                 /\ q \in Seq(DOMAIN pages) /\ Len(q) = k
                 /\ \A i \in 1 .. k : q[i] = seq[i]
  <1>1. seq \in Seq(DOMAIN pages)
    BY DEF Showing, Listing
  <1>2. n \in Nat /\ DOMAIN seq = 1 .. n /\ \A i \in 1 .. n : seq[i] \in DOMAIN pages
    BY <1>1, LenProperties
  <1>3. PICK h : /\ h[0] = <<>>
                 /\ \A k \in 1 .. n : h[k] = Filtered(h[k - 1], seq[k])
                 /\ CommittedTabs(w) = h[n]
    BY <1>1, FilteredRuns
  <1>4. \A i \in 1 .. n : Committed(pages[seq[i]])
    OBVIOUS
  <1> DEFINE Holds == {k \in 0 .. n : Same(h[k], k)}
  <1> HIDE DEF n, seq
  <1>5. 0 \in Holds
    <2>1. <<>> \in Seq(DOMAIN pages) /\ Len(<<>>) = 0
      OBVIOUS
    <2>2. 0 \in 0 .. n /\ 1 .. 0 = {}
      BY <1>2
    <2>3. Same(h[0], 0)
      BY <1>3, <2>1, <2>2
    <2>. QED BY <2>2, <2>3
  <1>6. ASSUME NEW k \in 0 .. n - 1, k \in Holds PROVE k + 1 \in Holds
    <2> DEFINE q == h[k]
               t == seq[k + 1]
               r == Append(q, t)
    <2>1. Same(q, k) /\ k + 1 \in 1 .. n /\ k + 1 \in 0 .. n /\ (k + 1) - 1 = k /\ k \in Nat
      BY <1>2, <1>6
    <2>2. h[k + 1] = r
      BY <1>3, <1>4, <2>1 DEF Filtered
    <2>3. t \in DOMAIN pages
      BY <1>2, <2>1
    <2> HIDE DEF q, t
    <2>4. /\ r \in Seq(DOMAIN pages) /\ Len(r) = Len(q) + 1
          /\ r[Len(q) + 1] = t /\ \A i \in 1 .. Len(q) : r[i] = q[i]
      BY <2>1, <2>3, AppendProperties
    <2> HIDE DEF r
    <2>5. \A i \in 1 .. k + 1 : r[i] = seq[i]
      BY <2>1, <2>4 DEF t
    <2>. QED BY <2>1, <2>2, <2>4, <2>5
  <1>7. n \in Holds
    <2> HIDE DEF Holds
    <2>. QED BY <1>2, <1>5, <1>6, Induction
  <1>8. h[n] \in Seq(DOMAIN pages) /\ Len(h[n]) = n /\ \A i \in 1 .. n : h[n][i] = seq[i]
    BY <1>7
  <1>9. h[n] = seq
    BY <1>1, <1>8, SeqEqual DEF n
  <1>. QED BY <1>3, <1>9 DEF seq

\* No tab of the window has gone.
LEMMA PrunedSame ==
    ASSUME NEW k, Matches(k), NEW w, Told(k, w), CommittedTabs(w) \in Seq(DOMAIN pages)
    PROVE  Pruned(k, w) = k
  <1> DEFINE tabs == CommittedTabs(w)
             seq == Sorted(Lost(k, w))
  <1>1. Lost(k, w) = {}
    <2> SUFFICES ASSUME NEW b \in BoundIn(k, w), b[2] \notin Range(tabs) PROVE FALSE
      BY DEF Lost
    <2>1. DOMAIN tabs = 1 .. Len(tabs)
      BY LenProperties
    <2>2. b \in DOMAIN k.tabs /\ b[1] = w
      BY DEF BoundIn
    <2>3. PICK i \in 1 .. Len(tabs) : b[2] = tabs[i]
      BY <2>2 DEF Told
    <2> HIDE DEF tabs
    <2>. QED BY <2>1, <2>3 DEF Range
  <1>2. seq \in Seq({}) /\ Len(seq) \in Nat /\ DOMAIN seq = 1 .. Len(seq)
    <2>1. {} \in SUBSET Nat /\ IsFiniteSet({})
      BY FS_EmptySet
    <2>2. Sorted({}) \in Seq({})
      BY <2>1, SortedIs
    <2>. QED BY <1>1, <2>2, LenProperties
  <1>3. PICK h : h[0] = k /\ Pruned(k, w) = h[Len(seq)]
    BY <1>2, PrunedRuns
  <1> HIDE DEF seq
  <1>4. Len(seq) = 0
    <2>1. ~(1 \in 1 .. Len(seq))
      <3>1. \A i \in 1 .. Len(seq) : seq[i] \in {}
        BY <1>2, LenProperties
      <3>. QED BY <3>1
    <2>. QED BY <1>2, <2>1
  <1>. QED BY <1>3, <1>4

\* A tab that is bound, and stored as it is.
LEMMA TabSame ==
    ASSUME NEW k, Matches(k), NEW w, Told(k, w), k.ok,
           NEW i \in 1 .. Len(CommittedTabs(w))
    PROVE  /\ TabKept(k, w, CommittedTabs(w)[i]) = k
           /\ TabPlaced(k, w, i, CommittedTabs(w)[i]) = k
  <1> DEFINE t == CommittedTabs(w)[i]
             v == WindowOf(k.session, k.windows[w])
             x == k.tabs[<<w, t>>]
  <1>1. /\ w \in DOMAIN k.windows /\ <<w, t>> \in DOMAIN k.tabs /\ i \in 1 .. Len(v.tabs)
        /\ v.tabs[i].id = x /\ v.tabs[i].location = CurrentLocation(pages[t])
    BY DEF Told
  <1>2. SoundSession(k.session) /\ k.windows[w] \in Ids(k.session.windows)
    BY <1>1 DEF Matches, Covers
  <1>3. UpdateLocation(k.session, k.windows[w], x, CurrentLocation(pages[t])) = k.session
    BY <1>1, <1>2, SameLocation
  <1>4. k = [ok |-> k.ok, session |-> k.session, windows |-> k.windows, tabs |-> k.tabs]
    BY DEF Matches
  <1> HIDE DEF t
  <1>5. TabBound(k, w, t)
            = [k EXCEPT !.session = UpdateLocation(k.session, k.windows[w], x,
                                                   CurrentLocation(pages[t]))]
    BY <1>1 DEF TabBound
  <1>6. TabBound(k, w, t) = k
    BY <1>3, <1>4, <1>5
  <1>7. TabPlaced(k, w, i, t) = k
    BY <1>1 DEF TabPlaced
  <1>. QED BY <1>6, <1>7 DEF TabKept, t

LEMMA TabsSame ==
    ASSUME NEW k, Matches(k), NEW w, Told(k, w), k.ok, CommittedTabs(w) \in Seq(DOMAIN pages)
    PROVE  WithTabs(k, w, CommittedTabs(w)) = k
  <1> DEFINE tabs == CommittedTabs(w)
             n == Len(tabs)
  <1>1. n \in Nat
    BY LenProperties
  <1>2. PICK h : /\ h[0] = k
                 /\ \A i \in 1 .. n : h[i] = TabKept(h[i - 1], w, tabs[i])
                 /\ WithTabs(k, w, tabs) = h[n]
    BY TabsRun
  <1>3. \A i \in 1 .. n : TabKept(k, w, tabs[i]) = k
    BY TabSame
  <1> DEFINE Holds == {i \in 0 .. n : h[i] = k}
  <1> HIDE DEF n, tabs
  <1>4. 0 \in Holds
    BY <1>1, <1>2
  <1>5. ASSUME NEW i \in 0 .. n - 1, i \in Holds PROVE i + 1 \in Holds
    <2>1. h[i] = k /\ i + 1 \in 1 .. n /\ i + 1 \in 0 .. n /\ (i + 1) - 1 = i
      BY <1>1, <1>5
    <2>2. h[i + 1] = k
      BY <1>2, <1>3, <2>1
    <2>. QED BY <2>1, <2>2
  <1>6. n \in Holds
    <2> HIDE DEF Holds
    <2>. QED BY <1>1, <1>4, <1>5, Induction
  <1>. QED BY <1>2, <1>6 DEF tabs

LEMMA OrderSame ==
    ASSUME NEW k, Matches(k), NEW w, Told(k, w), k.ok, CommittedTabs(w) \in Seq(DOMAIN pages)
    PROVE  InOrder(k, w, CommittedTabs(w)) = k
  <1> DEFINE tabs == CommittedTabs(w)
             n == Len(tabs)
             seq == Positions(tabs)
  <1>1. n \in Nat /\ DOMAIN tabs = 1 .. n
    BY LenProperties
  <1>2. \A i \in 1 .. n : TabPlaced(k, w, i, tabs[i]) = k
    BY TabSame
  <1> HIDE DEF tabs
  <1>3. seq \in Seq(Nat) /\ Len(seq) = n /\ \A i \in 1 .. n : seq[i] = i
    <2> HIDE DEF n
    <2>1. seq = [i \in 1 .. n |-> seq[i]] /\ \A i \in 1 .. n : seq[i] = i
      BY <1>1 DEF Positions
    <2> HIDE DEF seq
    <2>2. \A i \in 1 .. n : seq[i] \in Nat
      BY <1>1, <2>1
    <2>. QED BY <1>1, <2>1, <2>2, SeqOver
  <1>4. PICK h : /\ h[0] = k
                 /\ \A i \in 1 .. Len(seq) : h[i] = InPlace(h[i - 1], w, tabs, seq[i])
                 /\ InOrder(k, w, tabs) = h[Len(seq)]
    BY <1>3, OrderRuns
  <1> DEFINE Holds == {i \in 0 .. n : h[i] = k}
  <1> HIDE DEF n, seq
  <1>5. 0 \in Holds
    BY <1>1, <1>4
  <1>6. ASSUME NEW i \in 0 .. n - 1, i \in Holds PROVE i + 1 \in Holds
    <2>1. h[i] = k /\ i + 1 \in 1 .. n /\ i + 1 \in 0 .. n /\ (i + 1) - 1 = i
      BY <1>1, <1>6
    <2>2. h[i + 1] = InPlace(k, w, tabs, i + 1)
      BY <1>3, <1>4, <2>1
    <2>3. h[i + 1] = k
      BY <1>2, <2>1, <2>2 DEF InPlace
    <2>. QED BY <2>1, <2>3
  <1>7. n \in Holds
    <2> HIDE DEF Holds
    <2>. QED BY <1>1, <1>5, <1>6, Induction
  <1>. QED BY <1>3, <1>4, <1>7 DEF tabs

LEMMA ActiveSame ==
    ASSUME NEW k, Matches(k), NEW w, Told(k, w)
    PROVE  ActiveStored(k, w) = k
  <1> DEFINE b == <<w, windows[w].active>>
             s == k.session
  <1>1. CASE b \notin DOMAIN k.tabs
    BY <1>1 DEF ActiveStored
  <1>2. CASE b \in DOMAIN k.tabs
    <2>1. w \in DOMAIN k.windows /\ WindowOf(s, k.windows[w]).active = k.tabs[b]
      BY <1>2 DEF Told
    <2>2. SoundSession(s) /\ k.windows[w] \in Ids(s.windows)
      BY <2>1 DEF Matches, Covers
    <2>3. SetActive(s, k.windows[w], k.tabs[b]) = s
      BY <2>1, <2>2, SameActive
    <2>4. ActiveStored(k, w) = [k EXCEPT !.session = SetActive(s, k.windows[w], k.tabs[b])]
      BY <1>2 DEF ActiveStored
    <2>5. k = [ok |-> k.ok, session |-> k.session, windows |-> k.windows, tabs |-> k.tabs]
      BY DEF Matches
    <2>. QED BY <2>3, <2>4, <2>5
  <1>. QED BY <1>1, <1>2

LEMMA WindowSame ==
    ASSUME Showing, NEW k, Matches(k), k.ok, NEW w \in DOMAIN windows, Told(k, w)
    PROVE  WindowSynced(k, w) = k
  <1> DEFINE tabs == CommittedTabs(w)
             bound == WindowBound(k, w)
  <1>1. tabs \in Seq(DOMAIN pages)
    BY CommittedTabsAre DEF Listing
  <1>2. w \in DOMAIN k.windows
    BY DEF Told
  <1>3. bound = k
    BY <1>2 DEF WindowBound
  <1>4. /\ Pruned(k, w) = k /\ WithTabs(k, w, tabs) = k
        /\ InOrder(k, w, tabs) = k /\ ActiveStored(k, w) = k
    BY <1>1, PrunedSame, TabsSame, OrderSame, ActiveSame
  <1>. QED BY <1>3, <1>4 DEF WindowSynced

\* A synchronisation of what is stored already changes nothing.
LEMMA SyncedSame ==
    ASSUME Showing, Matches(Started), DOMAIN bindings.windows \subseteq DOMAIN windows,
           \A w \in DOMAIN windows :
               WindowSynced(Started, w) = Started
    PROVE  Synced = Started
  <1> DEFINE S == DOMAIN bindings.windows \ DOMAIN windows
             closed == Sorted(S)
             open == Sorted(DOMAIN windows)
  <1>1. S = {}
    OBVIOUS
  <1>2. closed \in Seq({}) /\ Len(closed) \in Nat
    <2>1. {} \in SUBSET Nat /\ IsFiniteSet({})
      BY FS_EmptySet
    <2>2. Sorted({}) \in Seq({})
      BY <2>1, SortedIs
    <2>. QED BY <1>1, <2>2, LenProperties
  <1>3. open \in Seq(DOMAIN windows)
    <2>1. DOMAIN windows \in SUBSET (1 .. next.window - 1)
      BY DEF Showing
    <2>2. next.window \in Nat /\ IsFiniteSet(1 .. next.window - 1)
      BY FS_Interval DEF Showing
    <2>3. DOMAIN windows \in SUBSET Nat /\ IsFiniteSet(DOMAIN windows)
      BY <2>1, <2>2, FS_Subset
    <2>. QED BY <2>3, SortedIs
  <1>4. Synced = WindowsSynced(Dropped(Started, closed), open)
    BY DEF Synced
  <1> HIDE DEF closed, open, S
  <1>5. Dropped(Started, closed) = Started
    <2>1. PICK h : h[0] = Started /\ Dropped(Started, closed) = h[Len(closed)]
      BY <1>2, DroppedRuns
    <2>2. Len(closed) = 0
      <3>1. \A i \in 1 .. Len(closed) : closed[i] \in {}
        BY <1>2, LenProperties
      <3>2. ~(1 \in 1 .. Len(closed))
        BY <3>1
      <3>. QED BY <1>2, <3>2
    <2>. QED BY <2>1, <2>2
  <1>6. PICK h : /\ h[0] = Started
                 /\ \A i \in 1 .. Len(open) : h[i] = WindowSynced(h[i - 1], open[i])
                 /\ WindowsSynced(Started, open) = h[Len(open)]
    BY <1>3, WindowsRun
  <1> DEFINE n == Len(open)
             Holds == {i \in 0 .. n : h[i] = Started}
  <1>7. n \in Nat /\ \A i \in 1 .. n : open[i] \in DOMAIN windows
    BY <1>3, LenProperties
  <1>8. 0 \in Holds
    BY <1>6, <1>7
  <1>9. ASSUME NEW i \in 0 .. n - 1, i \in Holds PROVE i + 1 \in Holds
    <2>1. h[i] = Started /\ i + 1 \in 1 .. n /\ i + 1 \in 0 .. n /\ (i + 1) - 1 = i
      BY <1>7, <1>9
    <2>2. h[i + 1] = WindowSynced(Started, open[i + 1])
      BY <1>6, <2>1
    <2>3. h[i + 1] = Started
      BY <1>7, <2>1, <2>2
    <2>. QED BY <2>1, <2>3
  <1>10. n \in Holds
    <2> HIDE DEF Holds, n
    <2>. QED BY <1>7, <1>8, <1>9, Induction
  <1>. QED BY <1>4, <1>5, <1>6, <1>10

\* A tab of a restored browser is bound to the one it was restored from.
LEMMA RestoredTab ==
    ASSUME NEW s, SoundSession(s), s.windows # <<>>, NEW i, NEW j, PlaceIn(s, i, j)
    PROVE  LET r == Restored(s)
               n == Number(s, i, j)
               stored == s.windows[i].tabs[j]
           IN  /\ n \in 1 .. Len(Flat(s)) /\ Flat(s)[n][1] = i
               /\ <<i, n>> \in DOMAIN r.bindings.tabs /\ r.bindings.tabs[<<i, n>>] = stored.id
               /\ Committed(r.pages[n]) /\ CurrentLocation(r.pages[n]) = stored.location
  <1> DEFINE n == Number(s, i, j)
  <1>1. /\ n \in 1 .. Len(Flat(s)) /\ Flat(s)[n] = <<i, j>>
        /\ StoredAs(s, n) = s.windows[i].tabs[j]
    BY NumberIs
  <1> HIDE DEF n
  <1>2. Flat(s)[n][1] = i
    BY <1>1
  <1>3. /\ DOMAIN Restored(s).bindings.tabs = {<<Flat(s)[m][1], m>> : m \in 1 .. Len(Flat(s))}
        /\ \A m \in 1 .. Len(Flat(s)) :
              Restored(s).bindings.tabs[<<Flat(s)[m][1], m>>] = StoredAs(s, m).id
    BY RestoredCovers
  <1>4. /\ Committed(Restored(s).pages[n])
        /\ CurrentLocation(Restored(s).pages[n]) = StoredAs(s, n).location
    BY <1>1, RestoredPage
  <1>. QED BY <1>1, <1>2, <1>3, <1>4 DEF n

\* The browser is the one that was restored from the disk.
FromDisk ==
    /\ session = disk
    /\ windows = Installed(disk).windows /\ pages = Installed(disk).pages
    /\ next = Installed(disk).next /\ bindings = Installed(disk).bindings

LEMMA RestoredTold ==
    ASSUME Showing, SoundSession(disk), disk.windows # <<>>, FromDisk
    PROVE  /\ DOMAIN windows = 1 .. Len(disk.windows)
           /\ DOMAIN bindings.windows = DOMAIN windows
           /\ \A w \in DOMAIN windows : Told(Started, w)
  <1>1. /\ session = disk /\ windows = Restored(disk).windows
        /\ pages = Restored(disk).pages /\ bindings = Restored(disk).bindings
    BY DEF FromDisk, Installed
  <1>2. DOMAIN windows = 1 .. Len(disk.windows)
    <2>1. Restored(disk).windows =
              [i \in DOMAIN disk.windows |->
                  [tabs |-> NumbersOf(disk, i),
                   active |-> RestoredActive(disk.windows[i], NumbersOf(disk, i)),
                   activation |-> NoActivation, edit |-> 0]]
      BY RestoredParts
    <2>2. DOMAIN disk.windows = 1 .. Len(disk.windows)
      BY SessionParts
    <2>. QED BY <1>1, <2>1, <2>2
  <1>3. /\ DOMAIN bindings.windows = 1 .. Len(disk.windows)
        /\ \A i \in 1 .. Len(disk.windows) : bindings.windows[i] = disk.windows[i].id
        /\ DOMAIN bindings.tabs = {<<Flat(disk)[n][1], n>> : n \in 1 .. Len(Flat(disk))}
    BY <1>1, RestoredCovers
  <1>4. ASSUME NEW w \in 1 .. Len(disk.windows)
        PROVE  Told(Started, w)
    <2> DEFINE v == disk.windows[w]
               m == Len(v.tabs)
               tabs == windows[w].tabs
               b == <<w, windows[w].active>>
    <2>1. /\ tabs = NumbersOf(disk, w) /\ SoundWin(windows[w])
          /\ windows[w].active = RestoredActive(v, tabs)
      BY <1>1, RestoredWindow
    <2>2. /\ Len(tabs) = m /\ tabs \in Seq(Nat \ {0})
          /\ \A j \in 1 .. m : tabs[j] = Number(disk, w, j) /\ PlaceIn(disk, w, j)
      BY <2>1, NumbersAre DEF SoundWin
    <2>3. ASSUME NEW j \in 1 .. m
          PROVE  /\ <<w, tabs[j]>> \in DOMAIN bindings.tabs
                 /\ bindings.tabs[<<w, tabs[j]>>] = v.tabs[j].id
                 /\ Committed(pages[tabs[j]])
                 /\ CurrentLocation(pages[tabs[j]]) = v.tabs[j].location
      <3> DEFINE n == Number(disk, w, j)
      <3>1. tabs[j] = n /\ PlaceIn(disk, w, j)
        BY <2>2
      <3> HIDE DEF tabs
      <3>2. /\ <<w, n>> \in DOMAIN Restored(disk).bindings.tabs
            /\ Restored(disk).bindings.tabs[<<w, n>>] = v.tabs[j].id
            /\ Committed(Restored(disk).pages[n])
            /\ CurrentLocation(Restored(disk).pages[n]) = v.tabs[j].location
        BY <3>1, RestoredTab
      <3> HIDE DEF n
      <3>. QED BY <1>1, <3>1, <3>2
    <2>4. CommittedTabs(w) = tabs
      BY <1>2, <2>2, <2>3, AllCommitted
    <2>5. WindowOf(session, bindings.windows[w]) = v
      BY <1>1, <1>3, WindowAt
    <2>6. ASSUME NEW c \in DOMAIN bindings.tabs, c[1] = w
          PROVE  \E j \in 1 .. m : c[2] = tabs[j]
      <3>1. PICK n \in 1 .. Len(Flat(disk)) : c = <<Flat(disk)[n][1], n>>
        BY <1>3
      <3> DEFINE i == Flat(disk)[n][1]
                 j == Flat(disk)[n][2]
      <3>2. PlaceIn(disk, i, j) /\ Number(disk, i, j) = n
        BY StoredTabIs
      <3>3. i = w /\ c[2] = n
        BY <2>6, <3>1
      <3> HIDE DEF i, j
      <3>4. j \in 1 .. m
        BY <3>2, <3>3 DEF PlaceIn
      <3>. QED BY <2>2, <3>2, <3>3, <3>4
    <2>7. ASSUME b \in DOMAIN bindings.tabs
          PROVE  v.active = bindings.tabs[b]
      <3>1. PICK j \in 1 .. m : windows[w].active = tabs[j]
        BY <2>6, <2>7
      <3>2. v.tabs \in Seq(StoredTab) /\ m \in Nat /\ SoundWindow(v, disk.nextTab)
        BY SessionParts
      <3> HIDE DEF b, tabs
      <3>3. v.tabs # <<>>
        <4> HIDE DEF v
        <4>. QED BY <3>1, <3>2, EmptySeq
      <3>4. v.active \in Ids(v.tabs) /\ v.active # 0
        BY <3>2, <3>3 DEF SoundWindow
      <3> DEFINE k == IndexOf(v.tabs, v.active)
      <3>5. k \in 1 .. m /\ v.tabs[k].id = v.active
        <4> HIDE DEF v
        <4>. QED BY <3>2, <3>4, IndexOfIs
      <3>6. windows[w].active = tabs[k]
        BY <2>1, <3>4 DEF RestoredActive
      <3>. QED BY <2>3, <3>5, <3>6 DEF b
    <2>8. /\ Started.session = session /\ Started.windows = bindings.windows
          /\ Started.tabs = bindings.tabs
      BY DEF Started
    <2> HIDE DEF tabs, v, m
    <2>9. w \in DOMAIN bindings.windows
      BY <1>3
    <2>10. WindowOf(Started.session, Started.windows[w]) = v /\ w \in DOMAIN Started.windows
      BY <2>5, <2>8, <2>9
    <2>11. Len(v.tabs) = Len(tabs)
      BY <2>2 DEF m
    <2>12. \A j \in 1 .. Len(tabs) :
              /\ <<w, tabs[j]>> \in DOMAIN Started.tabs
              /\ v.tabs[j].id = Started.tabs[<<w, tabs[j]>>]
              /\ v.tabs[j].location = CurrentLocation(pages[tabs[j]])
      BY <2>2, <2>3, <2>8
    <2>13. \A c \in DOMAIN Started.tabs : c[1] = w => \E j \in 1 .. Len(tabs) : c[2] = tabs[j]
      BY <2>2, <2>6, <2>8
    <2>14. b \in DOMAIN Started.tabs => v.active = Started.tabs[b]
      BY <2>7, <2>8
    <2>. QED BY <2>4, <2>10, <2>11, <2>12, <2>13, <2>14 DEF Told
  <1>. QED BY <1>2, <1>3, <1>4

LEMMA RestoredSame ==
    ASSUME Showing, Matches(Started), SoundSession(disk), FromDisk
    PROVE  Synced = Started
  <1>1. CASE disk.windows = <<>>
    <2>1. /\ bindings.windows = <<>> /\ windows = Bootstrapped.windows
          /\ pages = Bootstrapped.pages
      <3> HIDE DEF Bootstrapped
      <3>. QED BY <1>1 DEF FromDisk, Installed, Unbound
    <2>2. /\ DOMAIN windows = {1} /\ windows[1].tabs = <<1>> /\ pages[1] = NewTab
      <3>1. windows = With(<<>>, 1, Inserted(NewWindow, 1)) /\ pages = With(<<>>, 1, NewTab)
        BY <2>1 DEF Bootstrapped
      <3>2. Inserted(NewWindow, 1).tabs = <<1>>
        BY DEF Inserted, NewWindow
      <3>. QED BY <3>1, <3>2 DEF With
    <2>3. CommittedTabs(1) = <<>>
      <3>1. windows[1].tabs \in Seq({1}) /\ Len(windows[1].tabs) = 1 /\ windows[1].tabs[1] = 1
        BY <2>2
      <3>2. PICK h : /\ h[0] = <<>>
                     /\ \A k \in 1 .. 1 : h[k] = Filtered(h[k - 1], windows[1].tabs[k])
                     /\ CommittedTabs(1) = h[1]
        BY <3>1, FilteredRuns
      <3>3. h[1] = Filtered(<<>>, 1)
        BY <3>1, <3>2
      <3>4. ~Committed(pages[1])
        BY <2>2, NewTabIs
      <3>. QED BY <3>2, <3>3, <3>4 DEF Filtered
    <2>4. DOMAIN bindings.windows = {} /\ DOMAIN Started.windows = {}
      BY <2>1 DEF Started
    <2>5. \A w \in DOMAIN windows : WindowSynced(Started, w) = Started
      BY <2>2, <2>3, <2>4 DEF WindowSynced
    <2>. QED BY <2>4, <2>5, SyncedSame
  <1>2. CASE disk.windows # <<>>
    <2>1. /\ DOMAIN bindings.windows = DOMAIN windows
          /\ \A w \in DOMAIN windows : Told(Started, w)
      BY <1>2, RestoredTold
    <2>2. Started.ok
      BY DEF Started
    <2>3. \A w \in DOMAIN windows : WindowSynced(Started, w) = Started
      BY <2>1, <2>2, WindowSame
    <2>. QED BY <2>1, <2>3, SyncedSame
  <1>. QED BY <1>1, <1>2

\* Until it is checked, the browser is the one that was restored.
ExactInv == SyncInv /\ (starting => FromDisk)

LEMMA ExactInvHolds == ExactInv /\ [Next]_vars => ExactInv'
  <1> SUFFICES ASSUME ExactInv, [Next]_vars PROVE ExactInv'
    OBVIOUS
  <1>1. SyncInv'
    BY SyncInvHolds DEF ExactInv
  <1>2. ASSUME starting' PROVE FromDisk'
    <2>1. CASE Browse
      BY <1>2, <2>1 DEF Browse
    <2>2. CASE Synchronize
      BY <1>2, <2>2 DEF Synchronize
    <2>3. CASE Save
      BY <1>2, <2>3 DEF Save, browser, ExactInv, FromDisk
    <2>4. CASE Restart
      BY <2>4 DEF Restart, FromDisk
    <2>5. CASE CheckRestored
      BY <1>2, <2>5 DEF CheckRestored
    <2>6. CASE UNCHANGED vars
      BY <1>2, <2>6 DEF vars, browser, ExactInv, FromDisk
    <2>. QED BY <2>1, <2>2, <2>3, <2>4, <2>5, <2>6 DEF Next
  <1>. QED BY <1>1, <1>2 DEF ExactInv

LEMMA ExactInvExact == ExactInv => RestoreIsExact
  <1> SUFFICES ASSUME ExactInv, starting PROVE Synced.ok /\ Synced.session = disk
    BY DEF RestoreIsExact
  <1>1. FromDisk /\ SoundSession(disk) /\ SoundBrowser(windows, pages, next) /\ Bound
    BY DEF ExactInv, SyncInv, BrowserInv
  <1>2. Showing
    BY <1>1, SoundIsShowing
  <1>3. /\ Started.ok = TRUE /\ Started.session = session
        /\ Started.windows = bindings.windows /\ Started.tabs = bindings.tabs
        /\ Started = [ok |-> Started.ok, session |-> Started.session,
                      windows |-> Started.windows, tabs |-> Started.tabs]
    BY DEF Started
  <1> HIDE DEF Started
  <1>4. Matches(Started)
    BY <1>1, <1>3 DEF Matches, Bound
  <1>5. Synced = Started
    BY <1>1, <1>2, <1>4, RestoredSame
  <1>. QED BY <1>1, <1>3, <1>5 DEF FromDisk

\* Whenever the program ends and whatever was saved, the browser it starts again
\* with is the saved one: synchronising it at once is not refused and changes
\* nothing, so that the start is never given up (install_active_profile_session_restore).
THEOREM RestoreStaysExact == Spec => []RestoreIsExact
  <1>1. Init => ExactInv
    BY SyncInvStarts DEF Init, ExactInv
  <1>. QED BY <1>1, ExactInvHolds, ExactInvExact, PTL DEF Spec

-----------------------------------------------------------------------------
(* What is stored is what is shown.                                        *)

LEMMA ToldShape ==
    ASSUME Showing, NEW k, Matches(k), NEW w \in DOMAIN windows, Told(k, w)
    PROVE  LET i == IndexOf(k.session.windows, k.windows[w])
           IN  Shape(k.session)[i] = ShapeOfWindow(w, Shape(k.session)[i])
  <1> DEFINE s == k.session
             i == IndexOf(s.windows, k.windows[w])
             v == WindowOf(s, k.windows[w])
             tabs == CommittedTabs(w)
             n == Len(tabs)
             a == SelectInSeq(tabs, LAMBDA t : t = windows[w].active)
  <1>1. /\ w \in DOMAIN k.windows /\ Len(v.tabs) = n
        /\ \A j \in 1 .. n :
              /\ <<w, tabs[j]>> \in DOMAIN k.tabs
              /\ v.tabs[j].id = k.tabs[<<w, tabs[j]>>]
              /\ v.tabs[j].location = CurrentLocation(pages[tabs[j]])
        /\ <<w, windows[w].active>> \in DOMAIN k.tabs =>
              v.active = k.tabs[<<w, windows[w].active>>]
    BY DEF Told
  <1>2. SoundSession(s) /\ k.windows[w] \in Ids(s.windows)
    BY <1>1 DEF Matches, Covers
  <1>3. /\ v = s.windows[i] /\ i \in DOMAIN s.windows
        /\ v.tabs \in Seq(StoredTab) /\ DistinctIds(v.tabs)
    BY <1>2, InWindow
  <1>4. tabs \in Seq(DOMAIN pages)
    BY CommittedTabsAre DEF Listing
  <1> HIDE DEF v, tabs, i
  <1>5. n \in Nat /\ DOMAIN tabs = 1 .. n /\ DOMAIN v.tabs = 1 .. n
    BY <1>1, <1>3, <1>4, LenProperties
  <1>6. a # 0 => a \in 1 .. n /\ tabs[a] = windows[w].active
    <2> DEFINE I == {j \in 1 .. n : tabs[j] = windows[w].active}
    <2>1. a = IF I # {} THEN Min(I) ELSE 0
      BY DEF SelectInSeq
    <2>2. I \in SUBSET Nat
      BY <1>5
    <2>3. I # {} => Min(I) \in I
      <3> HIDE DEF I
      <3>. QED BY <2>2, MinIs
    <2>. QED BY <2>1, <2>3
  <1>7. Shape(s)[i] = [tabs |-> [j \in DOMAIN v.tabs |-> v.tabs[j].location],
                       active |-> IndexOf(v.tabs, v.active)]
    BY <1>3 DEF Shape
  <1>8. ShapeOfWindow(w, Shape(s)[i])
            = [tabs |-> [j \in DOMAIN tabs |-> CurrentLocation(pages[tabs[j]])],
               active |-> IF a = 0 THEN Shape(s)[i].active ELSE a]
    BY DEF ShapeOfWindow, tabs
  <1> HIDE DEF a, n
  <1>9. [j \in DOMAIN v.tabs |-> v.tabs[j].location]
            = [j \in DOMAIN tabs |-> CurrentLocation(pages[tabs[j]])]
    BY <1>1, <1>5
  <1>10. IndexOf(v.tabs, v.active) = IF a = 0 THEN Shape(s)[i].active ELSE a
    <2>1. CASE a = 0
      BY <1>7, <2>1
    <2>2. CASE a # 0
      <3>1. v.active = v.tabs[a].id /\ a \in 1 .. Len(v.tabs)
        BY <1>1, <1>6, <2>2
      <3>2. IndexOf(v.tabs, v.tabs[a].id) = a
        BY <1>3, <3>1, FoundAt
      <3>. QED BY <2>2, <3>1, <3>2
    <2>. QED BY <2>1, <2>2
  <1>11. Shape(s)[i] = ShapeOfWindow(w, Shape(s)[i])
    BY <1>7, <1>8, <1>9, <1>10
  <1>. QED BY <1>11 DEF i

\* A synchronisation that is done says all that is shown.
LEMMA ShownIsStored ==
    ASSUME SoundBrowser(windows, pages, next), Bound, Published(Synced)
    PROVE  /\ Range(bindings'.windows) = Ids(session'.windows)
           /\ DOMAIN bindings'.windows \subseteq DOMAIN windows
           /\ \A w \in DOMAIN bindings'.windows :
                LET i == IndexOf(session'.windows, bindings'.windows[w])
                IN  Shape(session')[i] = ShapeOfWindow(w, Shape(session')[i])
           /\ \A w \in DOMAIN windows :
                CommittedTabs(w) # <<>> => w \in DOMAIN bindings'.windows
  <1>1. Showing
    BY SoundIsShowing
  <1>2. /\ Started.ok = TRUE /\ Started.session = session
        /\ Started.windows = bindings.windows /\ Started.tabs = bindings.tabs
        /\ Started = [ok |-> Started.ok, session |-> Started.session,
                      windows |-> Started.windows, tabs |-> Started.tabs]
    BY DEF Started
  <1> HIDE DEF Started
  <1>3. Matches(Started) /\ Numbered(Started)
    BY <1>2 DEF Matches, Numbered, Bound
  <1> DEFINE k == Synced
  <1>4. /\ Follows(Started, k) /\ DOMAIN k.windows \subseteq DOMAIN windows
        /\ k.ok => \A w \in DOMAIN windows : Says(k, w)
    BY <1>1, <1>3, SyncedIs DEF Bound
  <1>5. k.ok /\ session' = k.session /\ bindings'.windows = k.windows
    BY DEF Published
  <1> HIDE DEF k
  <1>6. Matches(k)
    BY <1>4 DEF Follows
  <1>7. Range(k.windows) = Ids(k.session.windows)
    BY <1>6 DEF Matches, Covers, Range
  <1>8. ASSUME NEW w \in DOMAIN k.windows
        PROVE  LET i == IndexOf(k.session.windows, k.windows[w])
               IN  Shape(k.session)[i] = ShapeOfWindow(w, Shape(k.session)[i])
    <2>1. w \in DOMAIN windows /\ Told(k, w)
      BY <1>4, <1>5 DEF Says
    <2>. QED BY <1>1, <1>6, <2>1, ToldShape
  <1>9. \A w \in DOMAIN windows : CommittedTabs(w) # <<>> => w \in DOMAIN k.windows
    BY <1>4, <1>5 DEF Says
  <1>. QED BY <1>4, <1>5, <1>7, <1>8, <1>9

\* A synchronisation that changes the session makes it what the browser shows,
\* window by window: the committed tabs in their order, their locations and the
\* active one, after any closing, moving and navigating since the last one and
\* with any windows beside it; nothing that could be stored is left out
\* (synchronize).
THEOREM ShownIsWhatIsStored == Spec => StoredIsWhatIsShown
  <1> DEFINE Shown ==
          /\ Range(bindings'.windows) = Ids(session'.windows)
          /\ DOMAIN bindings'.windows \subseteq DOMAIN windows
          /\ \A w \in DOMAIN bindings'.windows :
                LET i == IndexOf(session'.windows, bindings'.windows[w])
                IN  Shape(session')[i] = ShapeOfWindow(w, Shape(session')[i])
          /\ \A w \in DOMAIN windows :
                CommittedTabs(w) # <<>> => w \in DOMAIN bindings'.windows
  <1>1. SyncInv /\ [Next]_vars => [session' # session /\ boots' = boots => Shown]_vars
    <2> SUFFICES ASSUME SyncInv, Next, session' # session, boots' = boots PROVE Shown
      BY DEF vars
    <2>1. boots \in Nat
      BY BrowserConstants DEF BrowserConstants, SyncInv
    <2>2. Synchronize
      BY <2>1 DEF Next, Browse, Save, Restart, CheckRestored
    <2>3. SoundBrowser(windows, pages, next) /\ Bound /\ Published(Synced)
      BY <2>2 DEF Synchronize, SyncInv, BrowserInv
    <2>. QED BY <2>3, ShownIsStored
  <1>. QED BY <1>1, SyncInvariant, PTL DEF Spec, StoredIsWhatIsShown
=============================================================================
