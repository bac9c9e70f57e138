-------------------------- MODULE NativeTabsProofs --------------------------
(***************************************************************************)
(* Theorems about NativeTabs, for every number of tabs, user's inputs and  *)
(* sessions and every set of stored sessions.  A callback of the shell may *)
(* change its state several times and sends at most one command: Good says *)
(* that it leaves a state from which the invariant holds once the command  *)
(* is sent.  It is shown of every callback and of every answer, and the    *)
(* invariant (Agreed) of every step; the theorems follow from it.          *)
(***************************************************************************)
EXTENDS NativeTabsSteps

-----------------------------------------------------------------------------
(* The pipe: the commands that are answered, executed and queued.          *)

PipeOf(o, b, u) ==
    [i \in 1 .. Len(o) + Len(b) + Len(u) |->
        IF i <= Len(o) THEN o[i].of
        ELSE IF i <= Len(o) + Len(b) THEN b[i - Len(o)] ELSE u[i - Len(o) - Len(b)]]

\* A sequence of at most one command.
Slot(b, C) == b \in Seq(C) /\ Len(b) \in {0, 1}

LEMMA SlotIs ==
    ASSUME NEW C, NEW b, Slot(b, C)
    PROVE  /\ b = <<>> \/ (b # <<>> /\ Len(b) = 1 /\ b[1] \in C /\ b = <<b[1]>>)
           /\ b = <<>> => Len(b) = 0
  BY DEF Slot

\* The pipe p is o, b and u, one after the other.
Laid(p, o, b, u) ==
    /\ Len(o) \in Nat /\ Len(p) \in Nat /\ Len(p) = Len(o) + Len(b) + Len(u)
    /\ DOMAIN p = 1 .. Len(p)
    /\ \A i \in 1 .. Len(o) : p[i] = o[i].of /\ o[i] \in Reply
    /\ b # <<>> => Len(b) = 1 /\ p[Len(o) + 1] = b[1]
    /\ b = <<>> => Len(b) = 0
    /\ u # <<>> => Len(u) = 1 /\ p[Len(p)] = u[1]
    /\ u = <<>> => Len(u) = 0
    /\ \A i \in 1 .. Len(p) : \/ i \in 1 .. Len(o)
                              \/ b # <<>> /\ i = Len(o) + 1
                              \/ u # <<>> /\ i = Len(p) /\ ~(i <= Len(o) + Len(b))
    /\ p \in Seq(Command)
    /\ Pipes(p, o)

LEMMA PipeIs ==
    ASSUME NEW o \in Seq(Reply), NEW b, NEW u, Slot(b, Command), Slot(u, Command)
    PROVE  Laid(PipeOf(o, b, u), o, b, u)
  <1> DEFINE n == Len(o) + Len(b) + Len(u)
             p == PipeOf(o, b, u)
  <1>1. /\ Len(o) \in Nat /\ Len(b) \in {0, 1} /\ Len(u) \in {0, 1} /\ n \in Nat
        /\ \A i \in 1 .. Len(o) : o[i] \in Reply
        /\ b # <<>> => Len(b) = 1 /\ b[1] \in Command
        /\ b = <<>> => Len(b) = 0
        /\ u # <<>> => Len(u) = 1 /\ u[1] \in Command
        /\ u = <<>> => Len(u) = 0
    BY SlotIs DEF Slot
  <1>2. ASSUME NEW i \in 1 .. n
        PROVE  /\ i \in 1 .. Len(o) => p[i] = o[i].of /\ p[i] \in Command
               /\ b # <<>> /\ i = Len(o) + 1 => p[i] = b[1] /\ p[i] \in Command
               /\ u # <<>> /\ i = n /\ ~(i <= Len(o) + Len(b)) => p[i] = u[1] /\ p[i] \in Command
               /\ \/ i \in 1 .. Len(o)
                  \/ b # <<>> /\ i = Len(o) + 1
                  \/ u # <<>> /\ i = n /\ ~(i <= Len(o) + Len(b))
    <2>1. p[i] = IF i <= Len(o) THEN o[i].of
                 ELSE IF i <= Len(o) + Len(b) THEN b[i - Len(o)] ELSE u[i - Len(o) - Len(b)]
      BY DEF PipeOf
    <2>2. i \in 1 .. Len(o) => o[i].of \in Command
      BY <1>1 DEF Reply
    <2>3. b # <<>> /\ i = Len(o) + 1 => i - Len(o) = 1 /\ ~(i <= Len(o)) /\ i <= Len(o) + Len(b)
      BY <1>1
    <2>4. \A l \in Nat, m \in {0, 1}, k \in {0, 1} : \A j \in 1 .. l + m + k :
             /\ j \in 1 .. l \/ (m = 1 /\ j = l + 1) \/ (k = 1 /\ j = l + m + k /\ ~(j <= l + m))
             /\ k = 1 /\ j = l + m + k => j - l - m = 1 /\ ~(j <= l)
      OBVIOUS
    <2>5. /\ i \in 1 .. Len(o) \/ (Len(b) = 1 /\ i = Len(o) + 1) \/ (Len(u) = 1 /\ i = n /\ ~(i <= Len(o) + Len(b)))
          /\ Len(u) = 1 /\ i = n => i - Len(o) - Len(b) = 1 /\ ~(i <= Len(o))
      BY <1>1, <2>4
    <2>6. u # <<>> /\ i = n => i - Len(o) - Len(b) = 1 /\ ~(i <= Len(o))
      BY <1>1, <2>5
    <2>7. \/ i \in 1 .. Len(o)
          \/ b # <<>> /\ i = Len(o) + 1
          \/ u # <<>> /\ i = n /\ ~(i <= Len(o) + Len(b))
      BY <1>1, <2>5
    <2>. QED BY <1>1, <2>1, <2>2, <2>3, <2>6, <2>7
  <1>3. DOMAIN p = 1 .. n /\ \A i \in 1 .. n : p[i] \in Command
    BY <1>2 DEF PipeOf
  <1>4. p \in Seq(Command) /\ Len(p) = n
    <2>1. p = [i \in 1 .. n |-> p[i]]
      BY DEF PipeOf
    <2> HIDE DEF p, n
    <2>2. p \in [1 .. n -> Command]
      BY <1>3, <2>1
    <2>3. p \in Seq(Command)
      BY <1>1, <2>2, IsASeq, <1>3
    <2>4. DOMAIN p = 1 .. Len(p) /\ Len(p) \in Nat
      BY <2>3
    <2>. QED BY <1>1, <1>3, <2>3, <2>4
  <1>5. Pipes(p, o)
    <2>1. \A i \in 1 .. Len(o) : o[i].of = p[i] /\ o[i].result \in Results(p[i].kind)
      BY <1>1, <1>2 DEF Reply
    <2>. QED BY <1>1, <1>3, <1>4, <2>1 DEF Pipes
  <1>6. /\ u # <<>> => n \in 1 .. n /\ ~(n <= Len(o) + Len(b))
        /\ b # <<>> => Len(o) + 1 \in 1 .. n
        /\ \A i \in 1 .. Len(o) : i \in 1 .. n
    BY <1>1
  <1>. QED BY <1>1, <1>2, <1>3, <1>4, <1>5, <1>6 DEF Laid

\* Pipes of the same commands are the same.
LEMMA PipesEqual ==
    ASSUME NEW p \in Seq(Command), NEW q \in Seq(Command), Len(p) = Len(q),
           \A i \in 1 .. Len(p) : p[i] = q[i]
    PROVE  p = q
  BY SeqEqual

LEMMA OneIsSlot ==
    ASSUME NEW C, NEW c \in C
    PROVE  /\ Slot(<<c>>, C) /\ <<c>> # <<>> /\ <<c>>[1] = c /\ Len(<<c>>) = 1
           /\ Slot(<<>>, C) /\ Len(<<>>) = 0
  BY DEF Slot

\* The command being executed is answered.
LEMMA PipeAnswered ==
    ASSUME NEW o \in Seq(Reply), NEW b, NEW u, Slot(b, Command), b # <<>>, Slot(u, Command),
           NEW w \in Results(b[1].kind), NEW f, f = Append(o, [of |-> b[1], result |-> w])
    PROVE  /\ f \in Seq(Reply) /\ Slot(<<>>, Command)
           /\ PipeOf(f, <<>>, u) = PipeOf(o, b, u)
           /\ Push(PipeOf(o, b, u), o, w, f)
           /\ PipeOf(o, b, u)[Len(f)] = b[1]
  <1> DEFINE p == PipeOf(o, b, u)
             q == PipeOf(f, <<>>, u)
  <1>1. b[1] \in Command /\ Len(b) = 1 /\ Slot(<<>>, Command) /\ Len(<<>>) = 0
    BY SlotIs DEF Slot
  <1>2. [of |-> b[1], result |-> w] \in Reply
    BY <1>1 DEF Reply, Results
  <1>3. /\ f \in Seq(Reply) /\ Len(f) = Len(o) + 1 /\ Len(o) \in Nat
        /\ \A i \in 1 .. Len(o) : f[i] = o[i]
        /\ f[Len(o) + 1] = [of |-> b[1], result |-> w]
    BY <1>2, AppendProperties
  <1>4. /\ Len(p) = Len(o) + Len(b) + Len(u) /\ p \in Seq(Command)
        /\ \A i \in 1 .. Len(o) : p[i] = o[i].of
        /\ p[Len(o) + 1] = b[1]
        /\ u # <<>> => Len(u) = 1 /\ p[Len(p)] = u[1]
        /\ u = <<>> => Len(u) = 0
    <2>1. Laid(p, o, b, u)
      BY PipeIs
    <2>. HIDE DEF p, q
    <2>. QED BY <2>1 DEF Laid
  <1>5. /\ Len(q) = Len(f) + Len(<<>>) + Len(u) /\ q \in Seq(Command)
        /\ \A i \in 1 .. Len(f) : q[i] = f[i].of
        /\ u # <<>> => q[Len(q)] = u[1]
        /\ \A i \in 1 .. Len(q) : \/ i \in 1 .. Len(f)
                                  \/ u # <<>> /\ i = Len(q)
        <2>1. Laid(q, f, <<>>, u)
      BY <1>1, <1>3, PipeIs
    <2>. QED BY <1>1, <1>3, <2>1 DEF Laid
  <1> HIDE DEF p, q
  <1>6. Len(p) = Len(q)
    BY <1>1, <1>3, <1>4, <1>5
  <1>7. ASSUME NEW i \in 1 .. Len(p) PROVE p[i] = q[i]
    <2>1. CASE i \in 1 .. Len(f)
      <3>1. q[i] = f[i].of
        BY <1>5, <2>1
      <3>2. i \in 1 .. Len(o) \/ i = Len(o) + 1
        BY <1>3, <2>1
      <3>. QED BY <1>3, <1>4, <3>1, <3>2
    <2>2. CASE u # <<>> /\ i = Len(q)
      BY <1>4, <1>5, <1>6, <2>2
    <2>. QED BY <1>5, <1>6, <2>1, <2>2
  <1>8. p = q
    BY <1>4, <1>5, <1>6, <1>7, PipesEqual
  <1>9. Len(o) < Len(p)
    BY <1>1, <1>3, <1>4
  <1>10. Push(p, o, w, f)
    BY <1>3, <1>4, <1>9 DEF Push
  <1>. QED BY <1>1, <1>3, <1>4, <1>8, <1>10 DEF p, q

\* A command is received.
LEMMA PipeReceived ==
    ASSUME NEW o \in Seq(Reply), NEW u, Slot(u, Asked), u # <<>>
    PROVE  /\ Slot(<<Head(u)>>, Command) /\ Tail(u) = <<>> /\ Slot(Tail(u), Asked)
           /\ PipeOf(o, <<Head(u)>>, Tail(u)) = PipeOf(o, <<>>, u)
  <1>1. Len(u) = 1 /\ u[1] \in Asked /\ u \in Seq(Asked) /\ Head(u) = u[1] /\ u = <<u[1]>>
    BY SlotIs DEF Slot
  <1>2. Tail(u) = <<>> /\ Asked \subseteq Command
    <2>1. Tail(u) \in Seq(Asked) /\ Len(Tail(u)) = Len(u) - 1
      BY <1>1, HeadTailProperties
    <2>2. Asked \subseteq Command
      BY DEF Asked
    <2>3. Len(Tail(u)) = 0
      BY <1>1, <2>1
    <2>4. Tail(u) # <<>> => Len(Tail(u)) \in Nat \ {0}
      BY <2>1, EmptySeq
    <2>. QED BY <2>2, <2>3, <2>4
  <1>3. /\ Slot(<<Head(u)>>, Command) /\ <<Head(u)>>[1] = u[1] /\ Len(<<Head(u)>>) = 1
        /\ Slot(<<>>, Command) /\ Len(<<>>) = 0 /\ Slot(u, Command) /\ Slot(<<>>, Asked)
        /\ <<Head(u)>> # <<>>
    BY <1>1, <1>2, OneIsSlot DEF Slot
  <1> DEFINE p == PipeOf(o, <<>>, u)
             q == PipeOf(o, <<Head(u)>>, <<>>)
  <1>4. /\ Len(p) = Len(o) + Len(<<>>) + Len(u) /\ p \in Seq(Command) /\ Len(o) \in Nat
        /\ \A i \in 1 .. Len(o) : p[i] = o[i].of
        /\ p[Len(p)] = u[1]
    <2>1. Laid(p, o, <<>>, u)
      BY <1>1, <1>3, PipeIs
    <2>. HIDE DEF p, q
    <2>. QED BY <1>1, <1>3, <2>1 DEF Laid
  <1>5. /\ Len(q) = Len(o) + Len(<<Head(u)>>) + Len(<<>>) /\ q \in Seq(Command)
        /\ \A i \in 1 .. Len(o) : q[i] = o[i].of
        /\ q[Len(o) + 1] = u[1]
    <2>1. Laid(q, o, <<Head(u)>>, <<>>)
      BY <1>1, <1>3, PipeIs
    <2>. HIDE DEF p, q
    <2>. QED BY <1>1, <1>3, <2>1 DEF Laid
  <1> HIDE DEF p, q
  <1>6. Len(p) = Len(o) + 1 /\ Len(q) = Len(o) + 1
    BY <1>1, <1>3, <1>4, <1>5
  <1>7. ASSUME NEW i \in 1 .. Len(p) PROVE p[i] = q[i]
    <2>1. i \in 1 .. Len(o) \/ i = Len(o) + 1
      BY <1>4, <1>6
    <2>. QED BY <1>4, <1>5, <1>6, <2>1
  <1>8. p = q
    BY <1>4, <1>5, <1>6, <1>7, PipesEqual
  <1>. QED BY <1>2, <1>3, <1>8 DEF p, q

\* A navigation is begun, and is in the pipe no more; or it is back, to be answered.
LEMMA PipeBegun ==
    ASSUME NEW o \in Seq(Reply), NEW b, NEW u, Slot(b, Command), b # <<>>, Slot(u, Command)
    PROVE  LET p == PipeOf(o, <<>>, u)
           IN  /\ Insert(p, o, b[1], PipeOf(o, b, u))
               /\ Len(p) \in Nat /\ Len(o) \in Nat /\ Len(o) <= Len(p)
  <1>1. b[1] \in Command /\ Len(b) = 1 /\ Slot(<<>>, Command) /\ Len(<<>>) = 0
    BY SlotIs DEF Slot
  <1> DEFINE p == PipeOf(o, <<>>, u)
             q == PipeOf(o, b, u)
  <1>2. /\ Len(p) = Len(o) + Len(<<>>) + Len(u) /\ Len(o) \in Nat /\ Len(p) \in Nat
        /\ \A i \in 1 .. Len(o) : p[i] = o[i].of
        /\ u # <<>> => Len(u) = 1 /\ p[Len(p)] = u[1]
        /\ u = <<>> => Len(u) = 0
        /\ \A i \in 1 .. Len(p) : \/ i \in 1 .. Len(o)
                                  \/ u # <<>> /\ i = Len(p)
    <2>1. Laid(p, o, <<>>, u)
      BY <1>1, PipeIs
    <2>. HIDE DEF p, q
    <2>. QED BY <1>1, <2>1 DEF Laid
  <1>3. /\ Len(q) = Len(o) + Len(b) + Len(u)
        /\ \A i \in 1 .. Len(o) : q[i] = o[i].of
        /\ q[Len(o) + 1] = b[1]
        /\ u # <<>> => q[Len(q)] = u[1]
    <2>1. Laid(q, o, b, u)
      BY <1>1, PipeIs
    <2>. HIDE DEF p, q
    <2>. QED BY <1>1, <2>1 DEF Laid
  <1> HIDE DEF p, q
  <1>4. /\ Len(p) = Len(o) + Len(u) /\ Len(q) = Len(p) + 1 /\ Len(o) <= Len(p)
        /\ u # <<>> => Len(p) = Len(o) + 1 /\ ~(Len(p) <= Len(o))
    BY <1>1, <1>2, <1>3
  <1>5. ASSUME NEW i \in 1 .. Len(p)
        PROVE  IF i <= Len(o) THEN q[i] = p[i] ELSE q[i + 1] = p[i]
    <2>1. CASE i \in 1 .. Len(o)
      BY <1>2, <1>3, <2>1
    <2>2. CASE u # <<>> /\ i = Len(p)
      <3>1. i + 1 = Len(q) /\ ~(i <= Len(o))
        BY <1>2, <1>4, <2>2
      <3>. QED BY <1>2, <1>3, <2>2, <3>1
    <2>. QED BY <1>2, <2>1, <2>2
  <1>6. Insert(p, o, b[1], q)
    BY <1>3, <1>4, <1>5 DEF Insert
  <1>. QED BY <1>2, <1>4, <1>6 DEF p, q

\* An answer is handled.
LEMMA PipeHandled ==
    ASSUME NEW o \in Seq(Reply), o # <<>>, NEW b, NEW u, Slot(b, Command), Slot(u, Command)
    PROVE  /\ Tail(o) \in Seq(Reply) /\ Head(o) \in Reply /\ Head(o) = o[1]
           /\ Head(o).of \in Command /\ Head(o).result \in Results(Head(o).of.kind)
           /\ Pop(PipeOf(o, b, u), PipeOf(Tail(o), b, u)) /\ Pop(o, Tail(o))
           /\ PipeOf(o, b, u)[1] = Head(o).of
  <1> DEFINE p == PipeOf(o, b, u)
             q == PipeOf(Tail(o), b, u)
  <1>1. /\ Tail(o) \in Seq(Reply) /\ Head(o) \in Reply /\ Head(o) = o[1]
        /\ Len(Tail(o)) = Len(o) - 1 /\ Len(o) \in Nat /\ Len(o) # 0
        /\ \A i \in 1 .. Len(Tail(o)) : Tail(o)[i] = o[i + 1]
    BY HeadTailProperties, EmptySeq
  <1>2. Head(o).of \in Command /\ Head(o).result \in Results(Head(o).of.kind)
    BY <1>1 DEF Reply
  <1>3. /\ Len(p) = Len(o) + Len(b) + Len(u)
        /\ \A i \in 1 .. Len(o) : p[i] = o[i].of
        /\ b # <<>> => Len(b) = 1 /\ p[Len(o) + 1] = b[1]
        /\ b = <<>> => Len(b) = 0
        /\ u # <<>> => Len(u) = 1 /\ p[Len(p)] = u[1]
        /\ u = <<>> => Len(u) = 0
    <2>1. Laid(p, o, b, u)
      BY PipeIs
    <2>. HIDE DEF p, q
    <2>. QED BY <2>1 DEF Laid
  <1>4. /\ Len(q) = Len(Tail(o)) + Len(b) + Len(u)
        /\ \A i \in 1 .. Len(Tail(o)) : q[i] = Tail(o)[i].of
        /\ b # <<>> => q[Len(Tail(o)) + 1] = b[1]
        /\ u # <<>> => q[Len(q)] = u[1]
        /\ \A i \in 1 .. Len(q) : \/ i \in 1 .. Len(Tail(o))
                                  \/ b # <<>> /\ i = Len(Tail(o)) + 1
                                  \/ u # <<>> /\ i = Len(q)
    <2>1. Laid(q, Tail(o), b, u)
      BY <1>1, PipeIs
    <2>. QED BY <1>1, <2>1 DEF Laid
  <1> HIDE DEF p, q
  <1>5. /\ Len(p) # 0 /\ Len(q) = Len(p) - 1 /\ 1 \in 1 .. Len(o)
        /\ Len(b) \in Nat /\ Len(u) \in Nat
    <2>1. (Len(b) = 0 \/ Len(b) = 1) /\ (Len(u) = 0 \/ Len(u) = 1)
      BY <1>3
    <2>2. Len(b) \in Nat /\ Len(u) \in Nat
      BY <2>1
    <2>3. /\ Len(p) = Len(o) + Len(b) + Len(u) /\ Len(q) = Len(Tail(o)) + Len(b) + Len(u)
          /\ Len(Tail(o)) = Len(o) - 1 /\ Len(o) \in Nat /\ Len(o) # 0
      BY <1>1, <1>3, <1>4
    <2>. QED BY <2>2, <2>3
  <1>6. ASSUME NEW i \in 1 .. Len(q) PROVE q[i] = p[i + 1]
    <2>1. CASE i \in 1 .. Len(Tail(o))
      <3>1. i + 1 \in 1 .. Len(o)
        BY <1>1, <2>1
      <3>2. q[i] = o[i + 1].of /\ p[i + 1] = o[i + 1].of
        BY <1>1, <1>3, <1>4, <2>1, <3>1
      <3>. QED BY <3>2
    <2>2. CASE b # <<>> /\ i = Len(Tail(o)) + 1
      <3>1. i + 1 = Len(o) + 1
        BY <1>1, <2>2
      <3>. QED BY <1>3, <1>4, <2>2, <3>1
    <2>3. CASE u # <<>> /\ i = Len(q)
      <3>1. i + 1 = Len(p)
        BY <1>1, <1>3, <1>5, <2>3
      <3>. QED BY <1>3, <1>4, <2>3, <3>1
    <2>. QED BY <1>4, <2>1, <2>2, <2>3
  <1>. QED BY <1>1, <1>2, <1>3, <1>5, <1>6 DEF Pop, p, q

\* A command is sent.
LEMMA PipeSent ==
    ASSUME NEW o \in Seq(Reply), NEW b, Slot(b, Command), NEW c \in Command
    PROVE  Add(PipeOf(o, b, <<>>), c, PipeOf(o, b, <<c>>))
  <1>1. Slot(<<>>, Command) /\ Slot(<<c>>, Command) /\ Len(<<>>) = 0 /\ Len(<<c>>) = 1
        /\ <<c>> # <<>> /\ <<c>>[1] = c
    BY OneIsSlot
  <1> DEFINE p == PipeOf(o, b, <<>>)
             q == PipeOf(o, b, <<c>>)
  <1>2. /\ Len(p) = Len(o) + Len(b) + Len(<<>>) /\ Len(o) \in Nat /\ Len(p) \in Nat
        /\ \A i \in 1 .. Len(o) : p[i] = o[i].of
        /\ b # <<>> => Len(b) = 1 /\ p[Len(o) + 1] = b[1]
        /\ b = <<>> => Len(b) = 0
        /\ \A i \in 1 .. Len(p) : \/ i \in 1 .. Len(o)
                                  \/ b # <<>> /\ i = Len(o) + 1
    <2>1. Laid(p, o, b, <<>>)
      BY <1>1, PipeIs
    <2>. HIDE DEF p, q
    <2>. QED BY <1>1, <2>1 DEF Laid
  <1>3. /\ Len(q) = Len(o) + Len(b) + Len(<<c>>)
        /\ \A i \in 1 .. Len(o) : q[i] = o[i].of
        /\ b # <<>> => q[Len(o) + 1] = b[1]
        /\ q[Len(q)] = <<c>>[1]
    <2>1. Laid(q, o, b, <<c>>)
      BY <1>1, PipeIs
    <2>. HIDE DEF p, q
    <2>. QED BY <1>1, <2>1 DEF Laid
  <1> HIDE DEF p, q
  <1>4. Len(q) = Len(p) + 1 /\ q[Len(p) + 1] = c
    BY <1>1, <1>2, <1>3
  <1>5. ASSUME NEW i \in 1 .. Len(p) PROVE q[i] = p[i]
    BY <1>2, <1>3
  <1>. QED BY <1>4, <1>5 DEF Add, p, q

-----------------------------------------------------------------------------
(* The steps of the worker, while the shell runs.                          *)

InHand == PipeOf(events, busy, queue)

HandTypes ==
    /\ events \in Seq(Reply) /\ Slot(busy, Command) /\ Slot(queue, Asked)
    /\ render \in Worker /\ losses \in 0 .. MaxLosses

Serving == Sound(shell, InHand, events, render, screen)

LEMMA ResultsAre ==
    /\ Outcome \subseteq {"ok", "failed"}
    /\ \A kind \in Kinds : {"ok", "failed", "refused", "cancelled"} \subseteq Results(kind)
    /\ "lost" \in Results("render") /\ "no" \in Results("cancel")
    /\ {"unreachable", "stale"} \subseteq Results("navigate")
    /\ "surfaceless" \in Results("reset")
  BY DEF Outcome, Results, Result

LEMMA QueueIs ==
    ASSUME NEW u, Slot(u, Asked)
    PROVE  Slot(u, Command) /\ (u # <<>> => Len(u) = 1 /\ u[1] \in Asked)
  <1>1. Asked \subseteq Command
    BY DEF Asked
  <1>2. u \in Seq(Command)
    BY <1>1, SeqMonotonic DEF Slot
  <1>. QED BY <1>2, SlotIs DEF Slot

LEMMA HandIs ==
    ASSUME HandTypes
    PROVE  Laid(InHand, events, busy, queue)
  BY PipeIs, QueueIs DEF HandTypes, InHand

\* An answer, and what it does to the pipe.
LEMMA AnswerIs ==
    ASSUME HandTypes, busy # <<>>, NEW w \in Results(busy[1].kind), Answer(w)
    PROVE  /\ events' \in Seq(Reply) /\ Slot(busy', Command) /\ Slot(queue', Asked)
           /\ InHand' = InHand
           /\ Push(InHand, events, w, events')
           /\ InHand[Len(events')] = busy[1] /\ busy[1] \in Command
  <1>1. /\ events \in Seq(Reply) /\ Slot(busy, Command) /\ Slot(queue, Asked)
        /\ Slot(queue, Command)
    BY QueueIs DEF HandTypes
  <1>2. /\ busy' = <<>> /\ events' = Append(events, [of |-> busy[1], result |-> w])
        /\ queue' = queue
    BY DEF Answer
  <1>3. /\ events' \in Seq(Reply) /\ Slot(<<>>, Command)
        /\ PipeOf(events', <<>>, queue) = PipeOf(events, busy, queue)
        /\ Push(PipeOf(events, busy, queue), events, w, events')
        /\ PipeOf(events, busy, queue)[Len(events')] = busy[1]
    BY <1>1, <1>2, PipeAnswered
  <1>4. busy[1] \in Command
    BY <1>1, SlotIs
  <1>. QED BY <1>1, <1>2, <1>3, <1>4 DEF InHand

\* What an answer is to show of the worker's state.
LEMMA AnswerKeeps ==
    ASSUME HandTypes, busy # <<>>, NEW w \in Results(busy[1].kind), Answer(w),
           render' \in Worker, losses' \in 0 .. MaxLosses, shell' = shell,
           Sound(shell, InHand, events', render', screen')
    PROVE  HandTypes' /\ Serving'
  BY AnswerIs DEF HandTypes, Serving

LEMMA StartKeeps ==
    ASSUME HandTypes, Serving, Start, shell' = shell
    PROVE  HandTypes' /\ Serving'
  <1>1. PICK w \in Outcome :
           Answer(w) /\ render' = [render EXCEPT !.runs = w = "ok", !.views = {render.tab}]
    BY DEF Start
  <1>2. busy # <<>> /\ busy[1].kind = "spawn" /\ screen' = screen /\ losses' = losses
    BY DEF Start, Executing
  <1>3. w \in Results(busy[1].kind) /\ w # "refused"
    BY <1>2, ResultsAre DEF Kinds, Starting
  <1>4. /\ Push(InHand, events, w, events')
        /\ InHand[Len(events')].kind = "spawn" /\ w \in Results(InHand[Len(events')].kind)
    BY <1>1, <1>2, <1>3, AnswerIs
  <1>5. /\ render' \in Worker /\ losses' \in 0 .. MaxLosses
        /\ render'.session = render.session /\ render'.tab = render.tab
        /\ render'.generation = render.generation /\ render'.attached = render.attached
        /\ render'.pending = render.pending /\ render'.views = {render.tab}
    BY <1>1, <1>2 DEF HandTypes, Worker
  <1>6. Sound(shell, InHand, events, render, screen)
    BY DEF Serving
  <1>7. Sound(shell, InHand, events', render', screen')
    BY <1>2, <1>3, <1>4, <1>5, <1>6, StartAnswered
  <1>. QED BY <1>1, <1>2, <1>3, <1>5, <1>7, AnswerKeeps

LEMMA AttachKeeps ==
    ASSUME HandTypes, Serving, AttachSurface, shell' = shell
    PROVE  HandTypes' /\ Serving'
  <1> DEFINE w == IF busy[1].tab # render.tab \/ render.attached \/ render.session # 1
                  THEN "refused" ELSE "ok"
  <1>1. /\ Answer(w) /\ screen' = screen /\ losses' = losses
        /\ render' = IF w = "ok" THEN [render EXCEPT !.attached = TRUE] ELSE render
    BY DEF AttachSurface, Refuse
  <1>2. busy # <<>> /\ busy[1].kind = "attach"
    BY DEF AttachSurface, Executing
  <1>3. w \in Results(busy[1].kind) /\ w \in {"ok", "refused"}
    BY <1>2, ResultsAre DEF Kinds, Starting
  <1>4. /\ Push(InHand, events, w, events') /\ InHand[Len(events')] = busy[1]
        /\ InHand[Len(events')].kind = "attach" /\ w \in Results(InHand[Len(events')].kind)
    BY <1>1, <1>2, <1>3, AnswerIs
  <1>5. Sound(shell, InHand, events, render, screen) /\ render \in Worker
        /\ losses \in 0 .. MaxLosses
    BY DEF Serving, HandTypes
  <1>6. w = "refused" => busy[1].tab # render.tab \/ render.attached \/ render.session # 1
    OBVIOUS
  <1> HIDE DEF w
  <1>7. CASE w = "ok"
    <2>1. /\ render' \in Worker
          /\ render'.session = render.session /\ render'.tab = render.tab
          /\ render'.generation = render.generation /\ render'.attached
          /\ render'.pending = render.pending /\ render'.views = render.views
      BY <1>1, <1>5, <1>7 DEF Worker
    <2>2. Sound(shell, InHand, events', render', screen')
      BY <1>1, <1>4, <1>5, <1>7, <2>1, SurfaceAttached
    <2>. QED BY <1>1, <1>2, <1>3, <1>5, <2>1, <2>2, AnswerKeeps
  <1>8. CASE w = "refused"
    <2>1. render' = render
      BY <1>1, <1>8
    <2>2. Pipes(InHand, events) /\ InSession(shell, InHand, events, render)
      BY <1>5 DEF Sound, SoundButDrawn
    <2>3. Len(events') \in 1 .. Len(InHand) /\ Len(events') > Len(events)
      BY <1>4, <2>2, PushIs
    <2>4. ~render.attached /\ (After(InHand, "reset", Len(events')) \/ AsStarted(render, busy[1]))
      BY <1>4, <2>2, <2>3 DEF InSession
    <2>5. After(InHand, "reset", Len(events'))
      BY <1>6, <1>8, <2>4 DEF AsStarted
    <2>6. Sound(shell, InHand, events', render, screen)
      BY <1>4, <1>5, <1>8, <2>5, SurfaceRefused
    <2>. QED BY <1>1, <1>2, <1>3, <1>5, <2>1, <2>6, AnswerKeeps
  <1>. QED BY <1>3, <1>7, <1>8

\* Any answer will do to learn of the command that is executed.
LEMMA AnswerWould ==
    ASSUME HandTypes, Serving, busy # <<>>
    PROVE  \E f : /\ Push(InHand, events, "ok", f) /\ InHand[Len(f)] = busy[1]
                  /\ "ok" \in Results(InHand[Len(f)].kind)
  <1>1. /\ events \in Seq(Reply) /\ Slot(busy, Command) /\ Slot(queue, Command)
        /\ busy[1] \in Command
    BY QueueIs, SlotIs DEF HandTypes
  <1>2. "ok" \in Results(busy[1].kind)
    BY <1>1, CommandIs, ResultsAre
  <1> DEFINE f == Append(events, [of |-> busy[1], result |-> "ok"])
  <1>3. Push(InHand, events, "ok", f) /\ InHand[Len(f)] = busy[1]
    BY <1>1, <1>2, PipeAnswered DEF InHand
  <1> HIDE DEF f
  <1>. QED BY <1>2, <1>3

LEMMA OpenKeeps ==
    ASSUME HandTypes, Serving, OpenView, shell' = shell
    PROVE  HandTypes' /\ Serving'
  <1>1. busy # <<>> /\ busy[1].kind = "create"
    BY DEF OpenView, Executing
  <1>2. Sound(shell, InHand, events, render, screen) /\ render \in Worker
        /\ losses \in 0 .. MaxLosses
    BY DEF Serving, HandTypes
  <1>3. busy[1].tab \notin render.views
    <2>1. PICK f : /\ Push(InHand, events, "ok", f) /\ InHand[Len(f)] = busy[1]
                   /\ "ok" \in Results(InHand[Len(f)].kind)
      BY <1>1, AnswerWould
    <2>. QED BY <1>1, <1>2, <2>1, ViewIsNew
  <1>4. PICK w \in Outcome :
           /\ Answer(w) /\ screen' = screen /\ losses' = losses
           /\ render' = IF w = "ok" THEN [render EXCEPT !.views = @ \cup {busy[1].tab}]
                        ELSE render
    BY <1>3 DEF OpenView
  <1>5. w \in Results(busy[1].kind) /\ w \in {"ok", "failed"}
    BY <1>1, ResultsAre DEF Kinds, Working
  <1>6. /\ Push(InHand, events, w, events') /\ InHand[Len(events')] = busy[1]
        /\ InHand[Len(events')].kind = "create" /\ w \in Results(InHand[Len(events')].kind)
        /\ busy[1].tab \in Tab
    BY <1>1, <1>4, <1>5, AnswerIs, CommandIs
  <1>7. /\ render' \in Worker
        /\ render'.session = render.session /\ render'.tab = render.tab
        /\ render'.generation = render.generation /\ render'.attached = render.attached
        /\ render'.pending = render.pending
        /\ w = "ok" => render'.views = render.views \cup {busy[1].tab}
        /\ w # "ok" => render' = render
    BY <1>2, <1>4, <1>6 DEF Worker
  <1>8. Sound(shell, InHand, events', render', screen')
    <2>1. CASE w = "ok"
      BY <1>2, <1>4, <1>6, <1>7, <2>1, ViewOpened
    <2>2. CASE w = "failed"
      BY <1>2, <1>4, <1>6, <1>7, <2>2, ViewFailed
    <2>. QED BY <1>5, <2>1, <2>2
  <1>. QED BY <1>1, <1>2, <1>4, <1>5, <1>7, <1>8, AnswerKeeps

LEMMA RetireKeeps ==
    ASSUME HandTypes, Serving, RetireView, shell' = shell
    PROVE  HandTypes' /\ Serving'
  <1>1. busy # <<>> /\ busy[1].kind = "close"
    BY DEF RetireView, Executing
  <1>2. Sound(shell, InHand, events, render, screen) /\ render \in Worker
        /\ losses \in 0 .. MaxLosses
    BY DEF Serving, HandTypes
  <1>3. busy[1].tab # render.tab /\ busy[1].tab \in render.views
    <2>1. PICK f : /\ Push(InHand, events, "ok", f) /\ InHand[Len(f)] = busy[1]
                   /\ "ok" \in Results(InHand[Len(f)].kind)
      BY <1>1, AnswerWould
    <2>. QED BY <1>1, <1>2, <2>1, ViewIsThere
  <1>4. PICK w \in Outcome :
           /\ Answer(w) /\ screen' = screen /\ losses' = losses
           /\ render' = [render EXCEPT !.views = @ \ {busy[1].tab},
                                       !.pending[busy[1].tab] = NoTarget]
    BY <1>3 DEF RetireView
  <1>5. w \in Results(busy[1].kind) /\ w # "refused"
    BY <1>1, ResultsAre DEF Kinds, Working
  <1>6. /\ Push(InHand, events, w, events') /\ InHand[Len(events')] = busy[1]
        /\ InHand[Len(events')].kind = "close" /\ w \in Results(InHand[Len(events')].kind)
        /\ busy[1].tab \in Tab
    BY <1>1, <1>4, <1>5, AnswerIs, CommandIs
  <1>7. /\ render' \in Worker
        /\ render'.session = render.session /\ render'.tab = render.tab
        /\ render'.generation = render.generation /\ render'.attached = render.attached
        /\ render'.pending = [render.pending EXCEPT ![busy[1].tab] = NoTarget]
        /\ render'.views = render.views \ {busy[1].tab}
    BY <1>2, <1>4, <1>6 DEF Worker
  <1>8. Sound(shell, InHand, events', render', screen')
    <2>1. /\ render'.pending = [render.pending EXCEPT ![InHand[Len(events')].tab] = NoTarget]
          /\ render'.views = render.views \ {InHand[Len(events')].tab}
      BY <1>6, <1>7
    <2>2. Sound(shell, InHand, events', render', screen)
      BY <1>2, <1>5, <1>6, <1>7, <2>1, ViewRetired, Zenon
    <2>. QED BY <1>4, <2>2
  <1>. QED BY <1>1, <1>2, <1>4, <1>5, <1>7, <1>8, AnswerKeeps

LEMMA DrawKeeps ==
    ASSUME HandTypes, Serving, DrawFrame, shell' = shell
    PROVE  HandTypes' /\ Serving'
  <1> DEFINE permit == busy[1].permit
             results == {"ok"} \cup (IF losses < MaxLosses THEN {"lost"} ELSE {})
                               \cup Outcome
  <1>1. busy # <<>> /\ busy[1].kind = "render"
    BY DEF DrawFrame, Executing
  <1>2. Sound(shell, InHand, events, render, screen) /\ render \in Worker
        /\ losses \in 0 .. MaxLosses
    BY DEF Serving, HandTypes
  <1>3. Acceptable(permit)
    <2>1. PICK f : /\ Push(InHand, events, "ok", f) /\ InHand[Len(f)] = busy[1]
                   /\ "ok" \in Results(InHand[Len(f)].kind)
      BY <1>1, AnswerWould
    <2>2. /\ permit.generation = render.generation => permit.tab = render.tab
          /\ permit.generation # render.generation =>
                /\ ForTarget(permit) /\ permit.generation > render.generation
                /\ permit.tab \in render.views
      BY <1>1, <1>2, <2>1, FrameIsDue
    <2>. QED BY <2>2 DEF Acceptable
  <1>4. PICK w \in results :
           /\ Answer(w)
           /\ render' = [render EXCEPT !.tab = permit.tab, !.generation = permit.generation]
           /\ screen' = IF w = "ok" THEN [session |-> render.session, tab |-> permit.tab]
                        ELSE screen
           /\ losses' = CASE w = "ok" -> 0 [] w = "lost" -> losses + 1 [] OTHER -> losses
    BY <1>3 DEF DrawFrame
  <1>5. w \in Results(busy[1].kind) /\ w # "refused" /\ w \in {"ok", "failed", "lost"}
        /\ (w = "lost" => losses < MaxLosses)
    BY <1>1, ResultsAre DEF Kinds, Working
  <1>6. /\ Push(InHand, events, w, events') /\ InHand[Len(events')] = busy[1]
        /\ InHand[Len(events')].kind = "render" /\ w \in Results(InHand[Len(events')].kind)
        /\ permit \in Permit
    BY <1>1, <1>4, <1>5, AnswerIs, CommandIs
  <1>7. /\ render' \in Worker
        /\ render'.session = render.session /\ render'.attached = render.attached
        /\ render'.pending = render.pending /\ render'.views = render.views
        /\ render'.tab = permit.tab /\ render'.generation = permit.generation
    <2>1. permit.tab \in Tab /\ permit.generation \in Nat
      BY <1>6 DEF Permit
    <2>. QED BY <1>2, <1>4, <2>1 DEF Worker
  <1>8. losses' \in 0 .. MaxLosses
    BY <1>2, <1>4, <1>5, WorkerConstants
  <1>9. Sound(shell, InHand, events', render', screen')
    <2>1. InHand[Len(events')].permit = permit
      BY <1>6
    <2>2. /\ render'.tab = InHand[Len(events')].permit.tab
          /\ render'.generation = InHand[Len(events')].permit.generation
          /\ screen' = IF w = "ok" THEN [session |-> render.session,
                                        tab |-> InHand[Len(events')].permit.tab]
                       ELSE screen
      BY <1>4, <1>7, <2>1
    <2>. HIDE DEF permit, results
    <2>. QED BY <1>2, <1>5, <1>6, <1>7, <2>2, FrameDrawn
  <1>. QED BY <1>1, <1>4, <1>5, <1>7, <1>8, <1>9, AnswerKeeps

LEMMA ChangeKeeps ==
    ASSUME HandTypes, Serving, ChangeSurface, shell' = shell
    PROVE  HandTypes' /\ Serving'
  <1>1. busy # <<>> /\ busy[1].kind = "replace"
    BY DEF ChangeSurface, Executing
  <1>2. Sound(shell, InHand, events, render, screen) /\ render \in Worker
        /\ losses \in 0 .. MaxLosses
    BY DEF Serving, HandTypes
  <1>3. busy[1].tab = render.tab
    <2>1. PICK f : /\ Push(InHand, events, "ok", f) /\ InHand[Len(f)] = busy[1]
                   /\ "ok" \in Results(InHand[Len(f)].kind)
      BY <1>1, AnswerWould
    <2>. QED BY <1>1, <1>2, <2>1, SurfaceIsThere
  <1>4. PICK w \in Outcome :
           Answer(w) /\ screen' = screen /\ losses' = losses /\ render' = render
    BY <1>3 DEF ChangeSurface
  <1>5. w \in Results(busy[1].kind) /\ w # "refused"
    BY <1>1, ResultsAre DEF Kinds, Working
  <1>6. /\ Push(InHand, events, w, events')
        /\ InHand[Len(events')].kind = "replace" /\ w \in Results(InHand[Len(events')].kind)
    BY <1>1, <1>4, <1>5, AnswerIs
  <1>7. Sound(shell, InHand, events', render', screen')
    BY <1>2, <1>4, <1>5, <1>6, SurfaceChanged
  <1>. QED BY <1>1, <1>2, <1>4, <1>5, <1>7, AnswerKeeps

\* A navigation that is executed has its view, and no other local one has begun.
LEMMA NavigationFits ==
    ASSUME HandTypes, Serving, busy # <<>>, busy[1].kind = "navigate"
    PROVE  /\ busy[1].target \in Target /\ busy[1].target.tab \in Tab
           /\ busy[1].target.tab \in render.views
           /\ busy[1].local => render.pending[busy[1].target.tab] = NoTarget
  <1>1. PICK f : /\ Push(InHand, events, "ok", f) /\ InHand[Len(f)] = busy[1]
                 /\ "ok" \in Results(InHand[Len(f)].kind)
    BY AnswerWould
  <1>2. Sound(shell, InHand, events, render, screen)
    BY DEF Serving
  <1>3. /\ InHand[Len(f)].target.tab \in render.views
        /\ InHand[Len(f)].local => render.pending[InHand[Len(f)].target.tab] = NoTarget
    BY <1>1, <1>2, NavigationIsDue
  <1>4. busy[1] \in Command
    BY SlotIs DEF HandTypes
  <1>5. busy[1].target \in Target
    BY <1>4, CommandIs
  <1>6. busy[1].target.tab \in Tab
    BY <1>5 DEF Target
  <1>. QED BY <1>1, <1>3, <1>5, <1>6

LEMMA LoadKeeps ==
    ASSUME HandTypes, Serving, LoadLocal, shell' = shell
    PROVE  HandTypes' /\ Serving'
  <1>1. busy # <<>> /\ busy[1].kind = "navigate" /\ busy[1].local
    BY DEF LoadLocal, Executing
  <1>2. Sound(shell, InHand, events, render, screen) /\ render \in Worker
        /\ losses \in 0 .. MaxLosses
    BY DEF Serving, HandTypes
  <1>3. busy[1].target.tab \in render.views /\ render.pending[busy[1].target.tab] = NoTarget
    BY <1>1, NavigationFits
  <1>4. PICK w \in Outcome :
           Answer(w) /\ screen' = screen /\ losses' = losses /\ render' = render
    BY <1>3 DEF LoadLocal
  <1>5. w \in Results(busy[1].kind) /\ w # "refused"
    BY <1>1, ResultsAre DEF Kinds
  <1>6. /\ Push(InHand, events, w, events')
        /\ InHand[Len(events')].kind = "navigate" /\ w \in Results(InHand[Len(events')].kind)
        /\ render.pending[InHand[Len(events')].target.tab] = NoTarget
    BY <1>1, <1>3, <1>4, <1>5, AnswerIs
  <1>7. Sound(shell, InHand, events', render, screen)
    BY <1>2, <1>5, <1>6, NavigationAnswered
  <1>. QED BY <1>1, <1>2, <1>4, <1>5, <1>7, AnswerKeeps

LEMMA BeginKeeps ==
    ASSUME HandTypes, Serving, BeginNavigation, shell' = shell
    PROVE  HandTypes' /\ Serving'
  <1> DEFINE target == busy[1].target
  <1>1. busy # <<>> /\ busy[1].kind = "navigate" /\ ~busy[1].local
    BY DEF BeginNavigation, Executing
  <1>2. /\ Sound(shell, InHand, events, render, screen) /\ render \in Worker
        /\ losses \in 0 .. MaxLosses
        /\ events \in Seq(Reply) /\ Slot(busy, Command) /\ Slot(queue, Asked)
        /\ Slot(queue, Command) /\ Slot(<<>>, Command)
    BY QueueIs, CommandIs, OneIsSlot DEF Serving, HandTypes, Slot
  <1>3. target \in Target /\ target.tab \in Tab /\ target.tab \in render.views
    BY <1>1, NavigationFits
  <1>4. CASE /\ busy' = <<>>
             /\ render' = [render EXCEPT !.pending[target.tab] = target]
             /\ UNCHANGED <<queue, events, screen, losses, cancelled>>
    <2>1. /\ render' \in Worker
          /\ render'.session = render.session /\ render'.tab = render.tab
          /\ render'.generation = render.generation /\ render'.attached = render.attached
          /\ render'.views = render.views
          /\ render'.pending = [render.pending EXCEPT ![target.tab] = target]
      BY <1>2, <1>3, <1>4 DEF Worker
    <2>2. InHand' = PipeOf(events, <<>>, queue)
      BY <1>4 DEF InHand
    <2>3. /\ Insert(InHand', events, busy[1], InHand)
          /\ Len(InHand') \in Nat /\ Len(events) <= Len(InHand')
      BY <1>1, <1>2, <2>2, PipeBegun DEF InHand
    <2>4. Sound(shell, InHand', events, render', screen)
      BY <1>1, <1>2, <2>1, <2>3, NavigationBegun, Zenon
    <2>5. HandTypes'
      BY <1>2, <1>4, <2>1 DEF HandTypes
    <2>. QED BY <1>4, <2>4, <2>5 DEF Serving
  <1>5. CASE /\ Answer("failed")
             /\ render' = [render EXCEPT !.pending[target.tab] = NoTarget]
             /\ UNCHANGED <<screen, losses>>
    <2>1. /\ render' \in Worker
          /\ render'.session = render.session /\ render'.tab = render.tab
          /\ render'.generation = render.generation /\ render'.attached = render.attached
          /\ render'.views = render.views
          /\ render'.pending = [render.pending EXCEPT ![target.tab] = NoTarget]
      BY <1>2, <1>3, <1>5 DEF Worker
    <2>2. "failed" \in Results(busy[1].kind)
      BY <1>1, ResultsAre DEF Kinds
    <2>3. /\ Push(InHand, events, "failed", events') /\ InHand[Len(events')] = busy[1]
          /\ InHand[Len(events')].kind = "navigate"
          /\ "failed" \in Results(InHand[Len(events')].kind)
      BY <1>1, <1>5, <2>2, AnswerIs
    <2>4. render'.pending = [render.pending EXCEPT ![InHand[Len(events')].target.tab] = NoTarget]
      BY <2>1, <2>3
    <2>5. Sound(shell, InHand, events, render', screen)
      BY <1>2, <2>1, <2>3, <2>4, NavigationSuperseded, Zenon
    <2>6. render'.pending[InHand[Len(events')].target.tab] = NoTarget
      <3>1. render.pending \in [Tab -> Target \cup {NoTarget}]
        BY <1>2 DEF Worker
      <3>. QED BY <1>3, <2>1, <2>3, <3>1
    <2>7. Sound(shell, InHand, events', render', screen)
      BY <2>3, <2>5, <2>6, NavigationAnswered
    <2>. QED BY <1>1, <1>2, <1>5, <2>1, <2>2, <2>7, AnswerKeeps
  <1>. QED BY <1>3, <1>4, <1>5 DEF BeginNavigation

LEMMA CancelKeeps ==
    ASSUME HandTypes, Serving, CancelNavigation, shell' = shell
    PROVE  HandTypes' /\ Serving'
  <1> DEFINE target == busy[1].target
  <1>1. busy # <<>> /\ busy[1].kind = "cancel" /\ screen' = screen /\ losses' = losses
    BY DEF CancelNavigation, Executing
  <1>2. /\ Sound(shell, InHand, events, render, screen) /\ render \in Worker
        /\ losses \in 0 .. MaxLosses /\ busy[1] \in Command
    BY <1>1, SlotIs DEF Serving, HandTypes
  <1>3. target \in Target /\ target.tab \in Tab
    <2>1. target \in Target
      BY <1>1, <1>2, CommandIs
    <2>. QED BY <2>1 DEF Target
  <1>4. CASE render.pending[target.tab] # target
    <2>1. Answer("no") /\ render' = render
      BY <1>4 DEF CancelNavigation
    <2>2. "no" \in Results(busy[1].kind)
      BY <1>1, ResultsAre
    <2>3. /\ Push(InHand, events, "no", events') /\ InHand[Len(events')] = busy[1]
          /\ InHand[Len(events')].kind = "cancel"
          /\ "no" \in Results(InHand[Len(events')].kind)
      BY <1>1, <2>1, <2>2, AnswerIs
    <2>4. Sound(shell, InHand, events', render, screen)
      BY <1>2, <1>4, <2>3, CancelIgnored
    <2>. QED BY <1>1, <1>2, <2>1, <2>2, <2>4, AnswerKeeps
  <1>5. CASE render.pending[target.tab] = target
    <2>1. PICK w \in Outcome :
             /\ Answer(w)
             /\ render' = [render EXCEPT !.pending[target.tab] = NoTarget]
      BY <1>5 DEF CancelNavigation
    <2>2. w \in Results(busy[1].kind) /\ w \notin {"refused", "no"}
      BY <1>1, ResultsAre DEF Kinds
    <2>3. /\ Push(InHand, events, w, events') /\ InHand[Len(events')] = busy[1]
          /\ InHand[Len(events')].kind = "cancel"
          /\ w \in Results(InHand[Len(events')].kind)
      BY <1>1, <2>1, <2>2, AnswerIs
    <2>4. /\ render' \in Worker
          /\ render'.session = render.session /\ render'.tab = render.tab
          /\ render'.generation = render.generation /\ render'.attached = render.attached
          /\ render'.views = render.views
          /\ render'.pending = [render.pending EXCEPT ![target.tab] = NoTarget]
      BY <1>2, <1>3, <2>1 DEF Worker
    <2>5. /\ render'.pending = [render.pending EXCEPT ![InHand[Len(events')].target.tab] = NoTarget]
          /\ render.pending[InHand[Len(events')].target.tab] = InHand[Len(events')].target
      BY <1>5, <2>3, <2>4
    <2>6. Sound(shell, InHand, events', render', screen)
      BY <1>2, <2>2, <2>3, <2>4, <2>5, CancelDone, Zenon
    <2>. QED BY <1>1, <1>2, <2>1, <2>2, <2>4, <2>6, AnswerKeeps
  <1>. QED BY <1>4, <1>5

LEMMA ResetKeeps ==
    ASSUME HandTypes, Serving, ResetSession, shell' = shell
    PROVE  HandTypes' /\ Serving'
  <1>1. busy # <<>> /\ busy[1].kind = "reset"
    BY DEF ResetSession, Executing
  <1>2. /\ Sound(shell, InHand, events, render, screen) /\ render \in Worker
        /\ losses \in 0 .. MaxLosses /\ busy[1] \in Command
    BY <1>1, SlotIs DEF Serving, HandTypes
  <1>3. \A u \in Tab : render.pending[u] = NoTarget
    <2>1. PICK f : /\ Push(InHand, events, "ok", f) /\ InHand[Len(f)] = busy[1]
                   /\ "ok" \in Results(InHand[Len(f)].kind)
      BY <1>1, AnswerWould
    <2>. QED BY <1>1, <1>2, <2>1, ResetIsDue
  <1> DEFINE w == IF render.attached THEN "ok" ELSE "surfaceless"
  <1>4. CASE /\ Answer(w)
             /\ render' = [render EXCEPT !.session = @ + 1, !.tab = busy[1].tab,
                                         !.generation = busy[1].generation,
                                         !.views = {busy[1].tab}]
             /\ UNCHANGED <<screen, losses>>
    <2>1. w \in Results(busy[1].kind)
      BY <1>1, ResultsAre DEF Kinds, Working
    <2>2. /\ Push(InHand, events, w, events') /\ InHand[Len(events')] = busy[1]
          /\ InHand[Len(events')].kind = "reset" /\ w \in Results(InHand[Len(events')].kind)
      BY <1>1, <1>4, <2>1, AnswerIs
    <2>3. busy[1].tab \in Tab /\ busy[1].generation \in Nat
      BY <1>1, <1>2, CommandIs DEF Working
    <2>4. /\ render' \in Worker
          /\ render'.session = render.session + 1 /\ render'.tab = busy[1].tab
          /\ render'.generation = busy[1].generation /\ render'.attached = render.attached
          /\ render'.views = {busy[1].tab} /\ render'.pending = render.pending
      <3>1. render' = [render EXCEPT !.session = @ + 1, !.tab = busy[1].tab,
                                     !.generation = busy[1].generation,
                                     !.views = {busy[1].tab}]
        BY <1>4
      <3>2. render.session + 1 \in Nat /\ {busy[1].tab} \subseteq Tab
        BY <1>2, <2>3 DEF Worker
      <3>. QED BY <1>2, <2>3, <3>1, <3>2 DEF Worker
    <2>5. w = IF render.attached THEN "ok" ELSE "surfaceless"
      OBVIOUS
    <2> HIDE DEF w
    <2>6. Sound(shell, InHand, events', render', screen)
      BY <1>2, <2>2, <2>4, <2>5, SessionRenewed
    <2>. QED BY <1>1, <1>2, <1>4, <2>1, <2>4, <2>6, AnswerKeeps
  <1>5. CASE Answer("failed") /\ UNCHANGED <<render, screen, losses>>
    <2>1. "failed" \in Results(busy[1].kind)
      BY <1>1, ResultsAre DEF Kinds, Working
    <2>2. /\ Push(InHand, events, "failed", events')
          /\ InHand[Len(events')].kind = "reset"
          /\ "failed" \in Results(InHand[Len(events')].kind)
      BY <1>1, <1>5, <2>1, AnswerIs
    <2>3. Sound(shell, InHand, events', render, screen)
      BY <1>2, <2>2, ResetFailed
    <2>. QED BY <1>1, <1>2, <1>5, <2>1, <2>3, AnswerKeeps
  <1>. QED BY <1>3, <1>4, <1>5 DEF ResetSession

LEMMA ReceiveKeeps ==
    ASSUME HandTypes, Serving, Receive, shell' = shell
    PROVE  HandTypes' /\ Serving'
  <1>1. /\ events \in Seq(Reply) /\ Slot(queue, Asked) /\ queue # <<>> /\ busy = <<>>
        /\ busy' = <<Head(queue)>> /\ queue' = Tail(queue)
        /\ UNCHANGED <<events, render, screen, losses>>
    BY DEF HandTypes, Receive
  <1>2. /\ Slot(<<Head(queue)>>, Command) /\ Slot(Tail(queue), Asked)
        /\ PipeOf(events, <<Head(queue)>>, Tail(queue)) = PipeOf(events, <<>>, queue)
    BY <1>1, PipeReceived
  <1>3. InHand' = InHand
    BY <1>1, <1>2 DEF InHand
  <1>. QED BY <1>1, <1>2, <1>3 DEF HandTypes, Serving

\* The worker that polls is not starting.
LEMMA EndKeeps ==
    ASSUME HandTypes, Serving, NEW t \in Tab, NavigationEnds(t), shell' = shell
    PROVE  HandTypes' /\ Serving'
  <1> DEFINE c == Navigate(render.pending[t], FALSE)
             b == <<c>>
             q == PipeOf(events, b, queue)
  <1>1. /\ busy = <<>> /\ busy' = <<>> /\ render.pending[t] # NoTarget
        /\ render' = [render EXCEPT !.pending[t] = NoTarget]
        /\ UNCHANGED <<queue, screen, losses, cancelled>>
    BY DEF NavigationEnds
  <1>2. /\ Sound(shell, InHand, events, render, screen) /\ render \in Worker
        /\ losses \in 0 .. MaxLosses
        /\ events \in Seq(Reply) /\ Slot(queue, Asked) /\ Slot(queue, Command)
    BY QueueIs DEF Serving, HandTypes
  <1>3. /\ render.pending[t] \in Target
        /\ c \in Command /\ c.kind = "navigate" /\ c.target = render.pending[t]
        /\ ~c.local /\ c.local \in BOOLEAN
    <2>1. render.pending[t] \in Target
      BY <1>1, <1>2 DEF Worker
    <2>. QED BY <2>1, IsCommand DEF Navigate
  <1>4. PICK w \in {"ok", "unreachable", "stale"} \cup Outcome :
           events' = Append(events, [of |-> c, result |-> w])
    BY DEF NavigationEnds
  <1>5. w \in Results(c.kind) /\ w # "refused"
    BY <1>3, ResultsAre DEF Kinds
  <1> HIDE DEF c
  <1>6. Slot(b, Command) /\ b # <<>> /\ b[1] = c
    BY <1>3, OneIsSlot
  <1> HIDE DEF b
  <1>7. /\ events' \in Seq(Reply) /\ Slot(<<>>, Command)
        /\ PipeOf(events', <<>>, queue) = q /\ Push(q, events, w, events')
        /\ q[Len(events')] = c
    <2>1. /\ events' = Append(events, [of |-> b[1], result |-> w])
          /\ w \in Results(b[1].kind)
      BY <1>4, <1>5, <1>6
    <2>. QED BY ZenonT(40), <1>2, <1>6, <2>1, PipeAnswered
  <1>8. InHand = PipeOf(events, <<>>, queue) /\ InHand' = q
    BY <1>1, <1>7 DEF InHand
  <1>9. Insert(InHand, events, c, q)
    BY <1>2, <1>6, <1>8, PipeBegun
  <1>10. ASSUME NEW i \in 1 .. Len(InHand) PROVE InHand[i].kind = "spawn" => i <= Len(events)
    <2>. SUFFICES ASSUME InHand[i].kind = "spawn" PROVE i <= Len(events)
      OBVIOUS
    <2>1. Laid(InHand, events, busy, queue)
      BY HandIs
    <2>2. i \in 1 .. Len(events) \/ (queue # <<>> /\ i = Len(InHand))
      BY <1>1, <2>1 DEF Laid
    <2>3. ~(queue # <<>> /\ i = Len(InHand))
      <3>1. queue # <<>> => queue[1] \in Asked /\ InHand[Len(InHand)] = queue[1]
        BY <1>2, <2>1, QueueIs DEF Laid
      <3>. QED BY <3>1 DEF Asked
    <2>4. Len(events) \in Nat
      BY <2>1 DEF Laid
    <2>. QED BY <2>2, <2>3, <2>4
  <1> HIDE DEF q
  <1>11. /\ render' \in Worker
         /\ render'.session = render.session /\ render'.tab = render.tab
         /\ render'.generation = render.generation /\ render'.attached = render.attached
         /\ render'.views = render.views
         /\ render'.pending = [render.pending EXCEPT ![t] = NoTarget]
    BY <1>1, <1>2 DEF Worker
  <1>12. Sound(shell, q, events, render', screen)
    <2>1. \A i \in 1 .. Len(InHand) : InHand[i].kind = "spawn" => i <= Len(events)
      BY <1>10
    <2>2. Sound(shell, InHand, events, render, screen)
      BY <1>2
    <2>3. render.pending[t] # NoTarget
      BY <1>1
    <2>4. c \in Command /\ c.kind = "navigate" /\ c.target = render.pending[t] /\ ~c.local
      BY <1>3
    <2>5. Sound(shell, q, events, render', screen)
      BY <2>1, <2>2, <2>3, <2>4, <1>9, <1>11, NavigationReturned, ZenonT(60)
    <2>6. screen' = screen
      BY <1>1
    <2>. QED BY <2>5, <2>6
  <1>13. q[Len(events')].kind = "navigate" /\ w \in Results(q[Len(events')].kind)
         /\ render'.pending[q[Len(events')].target.tab] = NoTarget
    <2>1. /\ render.pending \in [Tab -> Target \cup {NoTarget}]
          /\ render.pending[t].tab = t
      BY <1>1, <1>2 DEF Worker, Sound, SoundButDrawn, Local
    <2>. QED BY <1>3, <1>5, <1>7, <1>11, <2>1
  <1>14. Sound(shell, q, events', render', screen)
    BY <1>5, <1>7, <1>12, <1>13, NavigationAnswered
  <1>. QED BY <1>1, <1>2, <1>7, <1>8, <1>11, <1>14 DEF HandTypes, Serving

\* While the shell runs the worker's steps keep the two in agreement.
LEMMA WorkKeeps ==
    ASSUME HandTypes, Serving, ~cancelled, Work, shell' = shell
    PROVE  HandTypes' /\ Serving' /\ cancelled' = cancelled
  <1>1. HandTypes' /\ Serving'
    <2>1. Start \/ Receive \/ Execute \/ \E t \in Tab : NavigationEnds(t)
      BY DEF Work, Leave
    <2>2. CASE Execute
      BY <2>2, AttachKeeps, OpenKeeps, RetireKeeps, DrawKeeps, ChangeKeeps, LoadKeeps,
         BeginKeeps, CancelKeeps, ResetKeeps DEF Execute
    <2>. QED BY <2>1, <2>2, StartKeeps, ReceiveKeeps, EndKeeps
  <1>2. cancelled' = cancelled
    BY DEF Work, Start, Receive, Leave, Execute, NavigationEnds, AttachSurface, OpenView,
       RetireView, DrawFrame, ChangeSurface, LoadLocal, BeginNavigation, CancelNavigation,
       ResetSession, Refuse, Answer
  <1>. QED BY <1>1, <1>2

-----------------------------------------------------------------------------
(* What a handler leaves.                                                  *)

\* The type of each field.
Types ==
    [tabs |-> Seq(Tab), active |-> Tab \cup {NoTab}, tab |-> Tab, nextTab |-> 1 .. MaxTabs + 1,
     nextActivation |-> Nat \ {0}, nextNavigation |-> Nat \ {0},
     loading |-> [Tab -> Nat], remote |-> [Tab -> BOOLEAN], initial |-> Nat,
     restoring |-> BOOLEAN, handoff |-> Handoff, materialized |-> SUBSET Tab,
     down |-> BOOLEAN, fatal |-> Fatal \ {"protocol"}, session |-> 1 .. MaxSessions,
     ready |-> BOOLEAN, init |-> Nat, frame |-> Nat, surface |-> Nat, reset |-> Nat,
     creating |-> Requested, closing |-> Tab \cup {NoTab},
     cancelling |-> Target \cup {NoTarget}, targets |-> [Tab -> Target \cup {NoTarget}],
     permit |-> Permit \cup {NoPermit}, recovery |-> Permit \cup {NoPermit},
     visible |-> BOOLEAN, dirty |-> BOOLEAN, redraw |-> BOOLEAN, seeking |-> BOOLEAN,
     unlocking |-> BOOLEAN, out |-> {<<>>} \cup {<<c>> : c \in Asked}]

Made(t) == DOMAIN t = Fields /\ t = [f \in Fields |-> t[f]]

LEMMA ShellTypes ==
    ASSUME NEW s \in Shell
    PROVE  Made(s) /\ \A f \in Fields : s[f] \in Types[f]
  <1>1. \A f \in Fields : f \in {"tabs", "active", "tab", "nextTab", "nextActivation", "nextNavigation", "loading", "remote", "initial", "restoring", "handoff", "materialized", "down", "fatal", "session", "ready"}
        \/ f \in {"init", "frame", "surface", "reset", "creating", "closing", "cancelling", "targets", "permit", "recovery", "visible", "dirty", "redraw", "seeking", "unlocking", "out"}
    BY DEF Fields
  <1>2. \A f \in {"tabs", "active", "tab", "nextTab", "nextActivation", "nextNavigation", "loading", "remote", "initial", "restoring", "handoff", "materialized", "down", "fatal", "session", "ready"} : s[f] \in Types[f]
    <2>1.
          /\ s.tabs \in Types.tabs /\ s.active \in Types.active
          /\ s.tab \in Types.tab /\ s.nextTab \in Types.nextTab
          /\ s.nextActivation \in Types.nextActivation /\ s.nextNavigation \in Types.nextNavigation
          /\ s.loading \in Types.loading /\ s.remote \in Types.remote
          /\ s.initial \in Types.initial /\ s.restoring \in Types.restoring
          /\ s.handoff \in Types.handoff /\ s.materialized \in Types.materialized
          /\ s.down \in Types.down /\ s.fatal \in Types.fatal
          /\ s.session \in Types.session /\ s.ready \in Types.ready
      BY DEF Shell, Types
    <2>. QED BY <2>1
  <1>3. \A f \in {"init", "frame", "surface", "reset", "creating", "closing", "cancelling", "targets", "permit", "recovery", "visible", "dirty", "redraw", "seeking", "unlocking", "out"} : s[f] \in Types[f]
    <2>1.
          /\ s.init \in Types.init /\ s.frame \in Types.frame
          /\ s.surface \in Types.surface /\ s.reset \in Types.reset
          /\ s.creating \in Types.creating /\ s.closing \in Types.closing
          /\ s.cancelling \in Types.cancelling /\ s.targets \in Types.targets
          /\ s.permit \in Types.permit /\ s.recovery \in Types.recovery
          /\ s.visible \in Types.visible /\ s.dirty \in Types.dirty
          /\ s.redraw \in Types.redraw /\ s.seeking \in Types.seeking
          /\ s.unlocking \in Types.unlocking /\ s.out \in Types.out
      BY DEF Shell, Types
    <2>. QED BY <2>1
  <1>4. Made(s)
    BY DEF Shell, Made, Fields
  <1>. QED BY <1>1, <1>2, <1>3, <1>4

LEMMA TypesShell ==
    ASSUME NEW t, Made(t), \A f \in Fields : t[f] \in Types[f]
    PROVE  t \in Shell
  <1>1. DOMAIN t = Fields /\ t = [f \in Fields |-> t[f]]
    BY DEF Made
  <1>2.
          /\ t.tabs \in Types.tabs /\ t.active \in Types.active
          /\ t.tab \in Types.tab /\ t.nextTab \in Types.nextTab
          /\ t.nextActivation \in Types.nextActivation /\ t.nextNavigation \in Types.nextNavigation
          /\ t.loading \in Types.loading /\ t.remote \in Types.remote
          /\ t.initial \in Types.initial /\ t.restoring \in Types.restoring
          /\ t.handoff \in Types.handoff /\ t.materialized \in Types.materialized
          /\ t.down \in Types.down /\ t.fatal \in Types.fatal
          /\ t.session \in Types.session /\ t.ready \in Types.ready
          /\ t.init \in Types.init /\ t.frame \in Types.frame
          /\ t.surface \in Types.surface /\ t.reset \in Types.reset
          /\ t.creating \in Types.creating /\ t.closing \in Types.closing
          /\ t.cancelling \in Types.cancelling /\ t.targets \in Types.targets
          /\ t.permit \in Types.permit /\ t.recovery \in Types.recovery
          /\ t.visible \in Types.visible /\ t.dirty \in Types.dirty
          /\ t.redraw \in Types.redraw /\ t.seeking \in Types.seeking
          /\ t.unlocking \in Types.unlocking /\ t.out \in Types.out
    BY DEF Fields
  <1>3. t \in [tabs : Types.tabs, active : Types.active, tab : Types.tab, nextTab : Types.nextTab, nextActivation : Types.nextActivation, nextNavigation : Types.nextNavigation, loading : Types.loading, remote : Types.remote, initial : Types.initial, restoring : Types.restoring, handoff : Types.handoff, materialized : Types.materialized, down : Types.down, fatal : Types.fatal, session : Types.session, ready : Types.ready, init : Types.init, frame : Types.frame, surface : Types.surface, reset : Types.reset, creating : Types.creating, closing : Types.closing, cancelling : Types.cancelling, targets : Types.targets, permit : Types.permit, recovery : Types.recovery, visible : Types.visible, dirty : Types.dirty, redraw : Types.redraw, seeking : Types.seeking, unlocking : Types.unlocking, out : Types.out]
    <2> HIDE DEF Types
    <2>. QED BY <1>1, <1>2 DEF Fields
  <1>. QED BY <1>3 DEF Shell, Types

LEMMA Retyped ==
    ASSUME NEW s \in Shell, NEW t, Made(t), NEW changed, changed \subseteq Fields,
           Differ(s, t, changed), \A f \in changed : t[f] \in Types[f]
    PROVE  t \in Shell
  <1>1. \A f \in Fields : t[f] \in Types[f]
    BY ShellTypes DEF Differ
  <1>. QED BY <1>1, TypesShell

LEMMA TypesAre ==
    /\ Types.tabs = Seq(Tab) /\ Types.active = Tab \cup {NoTab} /\ Types.tab = Tab
    /\ Types.nextTab = 1 .. MaxTabs + 1 /\ Types.nextActivation = Nat \ {0}
    /\ Types.nextNavigation = Nat \ {0} /\ Types.loading = [Tab -> Nat]
    /\ Types.initial = Nat /\ Types.restoring = BOOLEAN /\ Types.handoff = Handoff
    /\ Types.materialized = SUBSET Tab /\ Types.down = BOOLEAN
    /\ Types.fatal = Fatal \ {"protocol"} /\ Types.session = 1 .. MaxSessions
    /\ Types.ready = BOOLEAN /\ Types.init = Nat /\ Types.frame = Nat
    /\ Types.surface = Nat /\ Types.reset = Nat /\ Types.creating = Requested
    /\ Types.closing = Tab \cup {NoTab} /\ Types.cancelling = Target \cup {NoTarget}
    /\ Types.targets = [Tab -> Target \cup {NoTarget}]
    /\ Types.permit = Permit \cup {NoPermit} /\ Types.recovery = Permit \cup {NoPermit}
    /\ Types.visible = BOOLEAN /\ Types.dirty = BOOLEAN /\ Types.redraw = BOOLEAN
    /\ Types.seeking = BOOLEAN /\ Types.unlocking = BOOLEAN
    /\ Types.out = {<<>>} \cup {<<c>> : c \in Asked}
    /\ Types.remote = [Tab -> BOOLEAN]
  BY DEF Types

\* Nothing is left of a shell that is shut down.
Closed(s) ==
    /\ s.down /\ ~s.visible /\ s.tabs = <<>> /\ s.active = NoTab /\ s.out = <<>>
    /\ s.init = 0 /\ s.frame = 0 /\ s.surface = 0 /\ s.reset = 0
    /\ s.creating = NotCreating /\ s.closing = NoTab /\ s.cancelling = NoTarget

LEMMA FailIs ==
    ASSUME NEW s \in Shell, ~s.down, NEW why \in Fatal \ {"protocol"}
    PROVE  /\ Shutdown(s) \in Shell /\ Closed(Shutdown(s))
           /\ Fail(s, why) \in Shell /\ Closed(Fail(s, why))
  <1> DEFINE a == [s EXCEPT !.down = TRUE, !.ready = FALSE, !.tabs = <<>>, !.active = NoTab,
                            !.loading = [t \in Tab |-> 0], !.initial = 0]
             b == [a EXCEPT !.init = 0, !.frame = 0, !.surface = 0, !.reset = 0,
                            !.creating = NotCreating, !.closing = NoTab]
             c == [b EXCEPT !.cancelling = NoTarget, !.permit = NoPermit,
                            !.recovery = NoPermit, !.visible = FALSE, !.redraw = FALSE,
                            !.out = <<>>]
             d == [c EXCEPT !.fatal = IF @ = "none" THEN why ELSE @]
  <1>1. Made(s) /\ s.fatal \in Fatal \ {"protocol"}
    BY ShellTypes DEF Shell
  <1>2. Shutdown(s) = c /\ Fail(s, why) = d
    BY DEF Shutdown, Fail
  <1>3. /\ Made(a) /\ Differ(s, a, {"down", "ready", "tabs", "active", "loading", "initial"})
       /\ a.down = TRUE
       /\ a.ready = FALSE
       /\ a.tabs = <<>>
       /\ a.active = NoTab
       /\ a.loading = [t \in Tab |-> 0]
       /\ a.initial = 0
    BY ZenonT(40), <1>1 DEF Made, Fields, Differ
  <1>4. a \in Shell
    <2>1. /\ a.down \in Types.down
         /\ a.ready \in Types.ready
         /\ a.tabs \in Types.tabs
         /\ a.active \in Types.active
         /\ a.loading \in Types.loading
         /\ a.initial \in Types.initial
      BY <1>3, TypesAre
    <2>2. {"down", "ready", "tabs", "active", "loading", "initial"} \subseteq Fields /\ \A field \in {"down", "ready", "tabs", "active", "loading", "initial"} : a[field] \in Types[field]
      BY <2>1 DEF Fields
    <2> HIDE DEF a
    <2>. QED BY <1>3, <2>2, <1>1, Retyped
  <1> HIDE DEF a
  <1>5. /\ Made(b) /\ Differ(a, b, {"init", "frame", "surface", "reset", "creating", "closing"})
       /\ b.init = 0
       /\ b.frame = 0
       /\ b.surface = 0
       /\ b.reset = 0
       /\ b.creating = NotCreating
       /\ b.closing = NoTab
    BY ZenonT(40), <1>3, <1>4 DEF Made, Fields, Differ
  <1>6. b \in Shell
    <2>1. /\ b.init \in Types.init
         /\ b.frame \in Types.frame
         /\ b.surface \in Types.surface
         /\ b.reset \in Types.reset
         /\ b.creating \in Types.creating
         /\ b.closing \in Types.closing
      BY <1>5, TypesAre DEF NotCreating, Requested
    <2>2. {"init", "frame", "surface", "reset", "creating", "closing"} \subseteq Fields /\ \A field \in {"init", "frame", "surface", "reset", "creating", "closing"} : b[field] \in Types[field]
      BY <2>1 DEF Fields
    <2> HIDE DEF b
    <2>. QED BY <1>5, <2>2, <1>3, <1>4, Retyped
  <1> HIDE DEF b
  <1>7. /\ Made(c) /\ Differ(b, c, {"cancelling", "permit", "recovery", "visible", "redraw", "out"})
       /\ c.cancelling = NoTarget
       /\ c.permit = NoPermit
       /\ c.recovery = NoPermit
       /\ c.visible = FALSE
       /\ c.redraw = FALSE
       /\ c.out = <<>>
    BY ZenonT(40), <1>5, <1>6 DEF Made, Fields, Differ
  <1>8. c \in Shell
    <2>1. /\ c.cancelling \in Types.cancelling
         /\ c.permit \in Types.permit
         /\ c.recovery \in Types.recovery
         /\ c.visible \in Types.visible
         /\ c.redraw \in Types.redraw
         /\ c.out \in Types.out
      BY <1>7, TypesAre
    <2>2. {"cancelling", "permit", "recovery", "visible", "redraw", "out"} \subseteq Fields /\ \A field \in {"cancelling", "permit", "recovery", "visible", "redraw", "out"} : c[field] \in Types[field]
      BY <2>1 DEF Fields
    <2> HIDE DEF c
    <2>. QED BY <1>7, <2>2, <1>5, <1>6, Retyped
  <1> HIDE DEF c
  <1>9. Closed(c) /\ c.fatal = s.fatal
    BY <1>3, <1>5, <1>7 DEF Closed, Differ, Fields
  <1>10. /\ Made(d) /\ Differ(c, d, {"fatal"})
       /\ d.fatal = IF c.fatal = "none" THEN why ELSE c.fatal
    BY <1>7, <1>8 DEF Made, Fields, Differ
  <1>11. d \in Shell
    <2>1. /\ d.fatal \in Types.fatal
      BY <1>10, <1>1, <1>9, TypesAre
    <2>2. {"fatal"} \subseteq Fields /\ \A field \in {"fatal"} : d[field] \in Types[field]
      BY <2>1 DEF Fields
    <2> HIDE DEF d
    <2>. QED BY <1>10, <2>2, <1>7, <1>8, Retyped
  <1> HIDE DEF d
  <1>12. Closed(d)
    BY <1>9, <1>10 DEF Closed, Differ, Fields
  <1>. QED BY <1>2, <1>8, <1>9, <1>11, <1>12

\* The page the chrome names stays, or no page is shown.
Shows(s, t) == Seen(t) = Seen(s) \/ ~t.visible

(* The state t, to which the handler that began in s comes, is sound, once *)
(* its command is sent.                                                    *)
Sending(t, q, f, r, x) ==
    IF t.out = <<>> THEN Sound(t, q, f, r, x)
                    ELSE \A g : Add(q, t.out[1], g) => Sound(t, g, f, r, x)

Good(s, t, q, f, r, x) ==
    /\ t \in Shell
    /\ Shows(s, t)
    /\ IF t.down THEN Closed(t) ELSE Sending(t, q, f, r, x)

\* A handler that ends in an error, or by itself.
LEMMA FailIsGood ==
    ASSUME NEW s, NEW t \in Shell, ~t.down, NEW why \in Fatal \ {"protocol"},
           NEW q, NEW f, NEW r, NEW x
    PROVE  /\ Good(s, Fail(t, why), q, f, r, x)
           /\ Good(s, Shutdown(t), q, f, r, x)
  <1> DEFINE u == Fail(t, why)
             v == Shutdown(t)
  <1>1. u \in Shell /\ Closed(u) /\ v \in Shell /\ Closed(v)
    BY FailIs
  <1> HIDE DEF u, v
  <1>2. Good(s, u, q, f, r, x) /\ Good(s, v, q, f, r, x)
    BY <1>1 DEF Good, Closed, Shows
  <1>. QED BY <1>2 DEF u, v

\* An error of the worker that is not one of the protocol.
LEMMA WhyIs ==
    ASSUME NEW kind \in Kinds, NEW w \in Results(kind), w \notin {"ok", "refused"},
           kind = "render" => w # "lost",
           kind = "cancel" => w # "no",
           kind = "navigate" => w \notin {"unreachable", "stale"}
    PROVE  Why(w) \in Fatal \ {"protocol"}
  BY DEF Why, Fatal, Results, Result

LEMMA SoundIs ==
    ASSUME NEW s, NEW q, NEW f, NEW r, NEW x, SoundButDrawn(s, q, f, r, x)
    PROVE  s \in Shell /\ ~s.down /\ Made(s)
  BY ShellTypes DEF SoundButDrawn, SoundShell

\* A handler that sends nothing.
LEMMA SoundIsGood ==
    ASSUME NEW s, NEW t, NEW q, NEW f, NEW r, NEW x, Sound(t, q, f, r, x), t.out = <<>>,
           Shows(s, t)
    PROVE  Good(s, t, q, f, r, x)
  BY DEF Good, Sending, Sound, SoundButDrawn, SoundShell

\* A handler that sends the command c.
LEMMA SentIsGood ==
    ASSUME NEW s, NEW t \in Shell, ~t.down, NEW q, NEW f, NEW r, NEW x, NEW c,
           t.out = <<c>>, Shows(s, t), \A g : Add(q, c, g) => Sound(t, g, f, r, x)
    PROVE  Good(s, t, q, f, r, x)
  <1>1. t.out # <<>> /\ t.out[1] = c
    OBVIOUS
  <1>. QED BY <1>1 DEF Good, Sending

\* What is shown stays so.
LEMMA ShowsIs ==
    ASSUME NEW s, NEW t, NEW d, Shows(d, s), t.session = s.session, t.active = s.active,
           t.visible = s.visible
    PROVE  Shows(d, t)
  BY DEF Shows, Seen

\* What is no part of the invariant, or hardly.
LEMMA Unmoved ==
    ASSUME NEW s, NEW p, NEW e, NEW r, NEW x, Sound(s, p, e, r, x),
           NEW t \in Shell,
           Differ(s, t, {"dirty", "redraw", "out", "nextActivation", "restoring", "seeking", "unlocking"}),
           t.nextActivation >= s.nextActivation, t.restoring => s.restoring,
           t.seeking => s.reset = 0 /\ ~t.unlocking /\ s.session < MaxSessions
    PROVE  Sound(t, p, e, r, x)
  <1>1. SoundButDrawn(t, p, e, r, x)
    BY Untouched DEF Sound
  <1>2. Drawn(t, p)
    BY DEF Sound, Drawn, Differ, Fields, Switching, Gen
  <1>. QED BY <1>1, <1>2 DEF Sound

-----------------------------------------------------------------------------
(* The handlers' common parts: frames.                                     *)

Numbering == \A s \in Shell : NextRequest(s) \in Nat \ {0}

\* A request is sent with a number.
LEMMA AskedIs ==
    /\ \A id \in Nat \ {0}, permit \in Permit : Render(id, permit) \in Asked
    /\ \A id \in Nat \ {0}, t \in Tab :
          /\ Attach(id, t) \in Asked /\ CreateView(id, t) \in Asked
          /\ ReplaceSurface(id, t) \in Asked
          /\ \A g \in Nat : Reset(id, t, g) \in Asked
    /\ \A t \in Tab : CloseView(t) \in Asked
    /\ \A target \in Target : Cancel(target) \in Asked
    /\ \A target \in Target, local \in BOOLEAN : Navigate(target, local) \in Asked
  BY IsCommand DEF Asked, Render, Attach, CreateView, ReplaceSurface, CloseView, Cancel,
     Navigate, Reset

\* A frame is begun, or put off.
LEMMA StartGood ==
    ASSUME Numbering, NEW d, NEW s, NEW q, NEW f, NEW r, NEW x,
           SoundButDrawn(s, q, f, r, x), s.out = <<>>, Shows(d, s),
           s.ready, s.reset = 0, s.frame = 0, s.surface = 0, s.creating = NotCreating,
           s.permit = NoPermit,
           NEW permit \in Permit, permit.generation = Gen(s), permit.tab = s.active,
           permit.activation = IF Switching(s) THEN s.handoff.pending.id ELSE 0
    PROVE  Good(d, StartFrame(s, permit), q, f, r, x)
  <1> DEFINE id == NextRequest(s)
             t == [s EXCEPT !.dirty = TRUE,
                            !.permit = IF ForTarget(permit) THEN permit ELSE @]
             u == [s EXCEPT !.frame = id, !.dirty = FALSE, !.out = <<Render(id, permit)>>]
  <1>1. /\ s \in Shell /\ ~s.down /\ Made(s) /\ id \in Nat \ {0}
        /\ Switching(s) => ForTarget(permit)
        /\ ~Switching(s) => ~ForTarget(permit)
    <2>1. s \in Shell /\ ~s.down /\ Made(s) /\ Chrome(s)
      BY SoundIs DEF SoundButDrawn, SoundShell
    <2>2. Switching(s) => s.handoff.pending.id \in 1 .. s.nextActivation - 1
      BY <2>1 DEF Chrome
    <2>. QED BY <2>1, <2>2 DEF ForTarget, Numbering
  <1>2. StartFrame(s, permit) = IF minimised THEN t ELSE u
    <2>1. [[s EXCEPT !.frame = id, !.dirty = FALSE] EXCEPT !.out = <<Render(id, permit)>>] = u
      OBVIOUS
    <2>. QED BY <2>1 DEF StartFrame, Send
  <1> HIDE DEF id
  <1>3. /\ Made(t) /\ Differ(s, t, {"dirty", "permit"})
        /\ t.dirty = TRUE
        /\ t.permit = IF ForTarget(permit) THEN permit ELSE s.permit
    BY <1>1 DEF Made, Fields, Differ
  <1>4. t \in Shell
    <2>1. /\ t.dirty \in Types.dirty
         /\ t.permit \in Types.permit
      BY <1>3, TypesAre
    <2>2. {"dirty", "permit"} \subseteq Fields /\ \A field \in {"dirty", "permit"} : t[field] \in Types[field]
      BY <2>1 DEF Fields
    <2> HIDE DEF t
    <2>. QED BY <1>1, <1>3, <2>2, Retyped
  <1> HIDE DEF t
  <1>5. Sound(t, q, f, r, x)
    <2>1. CASE Switching(s)
      <3>1. t.permit = permit
        BY <1>1, <1>3, <2>1
      <3>2. permit = TargetPermit(s.handoff, s.handoff.pending.id, s.active)
        BY <2>1 DEF Permit, TargetPermit, Gen
      <3>3. Differ(s, t, {"permit", "dirty"})
        BY <1>3 DEF Differ
      <3>4. t.permit = TargetPermit(s.handoff, s.handoff.pending.id, s.active)
        BY <3>1, <3>2
      <3>. QED BY <1>4, <2>1, <3>3, <3>4, PermitKept
    <2>2. CASE ~Switching(s)
      <3>1. t.permit = s.permit
        BY <1>1, <1>3, <2>2
      <3>2. /\ Differ(s, t, {"dirty", "redraw", "out", "nextActivation", "restoring", "seeking", "unlocking"})
            /\ t.nextActivation = s.nextActivation /\ t.restoring = s.restoring
            /\ t.seeking = s.seeking /\ t.unlocking = s.unlocking
        BY <1>3, <3>1 DEF Differ, Fields
      <3>3. Sound(s, q, f, r, x)
        BY <2>2 DEF Sound, Drawn
      <3>4. s.nextActivation >= s.nextActivation
        BY <1>1 DEF Shell
      <3>5. s.seeking => s.reset = 0 /\ ~s.unlocking /\ s.session < MaxSessions
        BY DEF SoundButDrawn, SoundShell, Exclusive
      <3>. QED BY <1>4, <3>2, <3>3, <3>4, <3>5, Unmoved
    <2>. QED BY <2>1, <2>2
  <1>6. /\ t.session = s.session /\ t.active = s.active /\ t.visible = s.visible
        /\ t.out = <<>>
    BY <1>3 DEF Differ, Fields
  <1>7. Good(d, t, q, f, r, x)
    <2>1. Shows(d, t)
      BY <1>6, ShowsIs
    <2>. QED BY <1>5, <1>6, <2>1, SoundIsGood
  <1>8. Render(id, permit) \in Asked
    BY <1>1, AskedIs
  <1>9. /\ Made(u) /\ Differ(s, u, {"frame", "dirty", "out"})
        /\ u.frame = id
        /\ u.dirty = FALSE
        /\ u.out = <<Render(id, permit)>>
    BY ZenonT(40), <1>1 DEF Made, Fields, Differ
  <1>10. u \in Shell
    <2>1. /\ u.frame \in Types.frame
         /\ u.dirty \in Types.dirty
         /\ u.out \in Types.out
      BY <1>9, <1>1, <1>8, TypesAre
    <2>2. {"frame", "dirty", "out"} \subseteq Fields /\ \A field \in {"frame", "dirty", "out"} : u[field] \in Types[field]
      BY <2>1 DEF Fields
    <2> HIDE DEF u
    <2>. QED BY <1>1, <1>9, <2>2, Retyped
  <1> HIDE DEF u
  <1>11. ASSUME NEW g, Add(q, Render(id, permit), g) PROVE Sound(u, g, f, r, x)
    <2> DEFINE c == Render(id, permit)
    <2>1. c \in Command /\ c.kind = "render" /\ c.id = id /\ c.permit = permit
      BY <1>1, IsCommand DEF Render
    <2> HIDE DEF c
    <2>2. Differ(s, u, {"frame", "dirty", "out"}) /\ u.frame = c.id
      BY <1>9, <2>1
    <2>3. Add(q, c, g)
      BY <1>11 DEF c
    <2>4. /\ c.permit.generation = Gen(s) /\ c.permit.tab = s.active
          /\ c.permit.activation = IF Switching(s) THEN s.handoff.pending.id ELSE 0
      BY <2>1
    <2>. QED BY <1>10, <2>1, <2>2, <2>3, <2>4, FrameAsked
  <1>12. u.session = s.session /\ u.active = s.active /\ u.visible = s.visible /\ ~u.down
    BY <1>1, <1>9 DEF Differ, Fields
  <1>13. Good(d, u, q, f, r, x)
    <2>1. Shows(d, u)
      BY <1>12, ShowsIs
    <2>. QED BY <1>9, <1>10, <1>11, <1>12, <2>1, SentIsGood
  <1>. QED BY <1>2, <1>7, <1>13

\* The permit that waits is used, if it can be.
LEMMA DrawTargetGood ==
    ASSUME Numbering, NEW d, NEW s, NEW q, NEW f, NEW r, NEW x,
           Sound(s, q, f, r, x), s.out = <<>>, Shows(d, s)
    PROVE  Good(d, DrawTarget(s), q, f, r, x)
  <1> DEFINE t == [s EXCEPT !.permit = NoPermit]
  <1>1. SoundButDrawn(s, q, f, r, x) /\ s \in Shell /\ ~s.down /\ Made(s)
    BY SoundIs DEF Sound
  <1>2. CASE s.frame # 0 \/ s.surface # 0 \/ s.permit = NoPermit
    <2>1. DrawTarget(s) = s
      BY <1>2 DEF DrawTarget
    <2>. QED BY <2>1, SoundIsGood
  <1>3. CASE s.frame = 0 /\ s.surface = 0 /\ s.permit # NoPermit
    <2>1. DrawTarget(s) = StartFrame(t, s.permit)
      BY <1>3 DEF DrawTarget
    <2>2. /\ s.permit \in Permit /\ Switching(s) /\ s.ready /\ s.reset = 0
          /\ s.creating = NotCreating
          /\ s.permit = TargetPermit(s.handoff, s.handoff.pending.id, s.active)
      BY <1>1, <1>3 DEF SoundButDrawn, SoundShell, Chrome, Exclusive, Shell
    <2>3. /\ Made(t) /\ Differ(s, t, {"permit"})
          /\ t.permit = NoPermit
      BY <1>1 DEF Made, Fields, Differ
    <2>4. t \in Shell
      <3>1. /\ t.permit \in Types.permit
        BY <2>3, TypesAre
      <3>2. {"permit"} \subseteq Fields /\ \A field \in {"permit"} : t[field] \in Types[field]
        BY <3>1 DEF Fields
      <3> HIDE DEF t
      <3>. QED BY <1>1, <2>3, <3>2, Retyped
    <2> HIDE DEF t
    <2>5. SoundButDrawn(t, q, f, r, x)
      BY <1>1, <1>3, <2>3, <2>4, PermitTaken
    <2>6. /\ t.session = s.session /\ t.active = s.active /\ t.visible = s.visible
          /\ t.out = <<>> /\ t.ready /\ t.reset = 0 /\ t.frame = 0 /\ t.surface = 0
          /\ t.creating = NotCreating /\ t.handoff = s.handoff
      BY <1>3, <2>2, <2>3 DEF Differ, Fields
    <2>7. /\ s.permit.generation = Gen(t) /\ s.permit.tab = t.active
          /\ s.permit.activation = IF Switching(t) THEN t.handoff.pending.id ELSE 0
      BY <2>2, <2>6 DEF TargetPermit, Gen, Switching
    <2>8. Shows(d, t)
      BY <2>6, ShowsIs
    <2>9. Good(d, StartFrame(t, s.permit), q, f, r, x)
      BY <2>2, <2>3, <2>5, <2>6, <2>7, <2>8, StartGood
    <2>. QED BY <2>1, <2>9 DEF t
  <1>. QED BY <1>2, <1>3

\* Only what is to be redrawn changes, or the command to be sent.
LEMMA Redrawn ==
    ASSUME NEW s, NEW p, NEW e, NEW r, NEW x, Sound(s, p, e, r, x),
           NEW t \in Shell, Differ(s, t, {"dirty", "redraw", "out"})
    PROVE  /\ Sound(t, p, e, r, x) /\ ~t.down
           /\ \A d : Shows(d, s) => Shows(d, t)
  <1>1. /\ Differ(s, t, {"dirty", "redraw", "out", "nextActivation", "restoring", "seeking", "unlocking"})
        /\ t.nextActivation = s.nextActivation /\ t.restoring = s.restoring
        /\ t.seeking = s.seeking /\ t.unlocking = s.unlocking
        /\ t.session = s.session /\ t.active = s.active /\ t.visible = s.visible
        /\ t.down = s.down
    BY DEF Differ, Fields
  <1>2. s \in Shell /\ ~s.down /\ Exclusive(s)
    BY DEF Sound, SoundButDrawn, SoundShell
  <1>3. t.nextActivation >= s.nextActivation
    BY <1>1, <1>2 DEF Shell
  <1>4. t.seeking => s.reset = 0 /\ ~t.unlocking /\ s.session < MaxSessions
    BY <1>1, <1>2 DEF Exclusive
  <1>5. Sound(t, p, e, r, x)
    BY <1>1, <1>3, <1>4, Unmoved
  <1>. QED BY <1>1, <1>2, <1>5, ShowsIs

\* Another frame is asked of the window, or only remembered.
LEMMA DirtyGood ==
    ASSUME NEW d, NEW s, NEW q, NEW f, NEW r, NEW x,
           Sound(s, q, f, r, x), s.out = <<>>, Shows(d, s)
    PROVE  /\ Good(d, [s EXCEPT !.dirty = TRUE], q, f, r, x)
           /\ Good(d, RequestRedraw(s), q, f, r, x)
           /\ Good(d, DirtyRedraw(s), q, f, r, x)
  <1> DEFINE t == [s EXCEPT !.dirty = TRUE]
             u == [s EXCEPT !.redraw = TRUE]
             v == [s EXCEPT !.dirty = TRUE, !.redraw = TRUE]
  <1>1. s \in Shell /\ Made(s)
    BY SoundIs DEF Sound
  <1>2. RequestRedraw(s) = u /\ DirtyRedraw(s) = v
    BY DEF RequestRedraw, DirtyRedraw
  <1>3. /\ Made(t) /\ Differ(s, t, {"dirty"})
        /\ t.dirty = TRUE
    BY <1>1 DEF Made, Fields, Differ
  <1>4. t \in Shell
    <2>1. /\ t.dirty \in Types.dirty
      BY <1>3, TypesAre
    <2>2. {"dirty"} \subseteq Fields /\ \A field \in {"dirty"} : t[field] \in Types[field]
      BY <2>1 DEF Fields
    <2> HIDE DEF t
    <2>. QED BY <1>1, <1>3, <2>2, Retyped
  <1> HIDE DEF t
  <1>5. /\ Made(u) /\ Differ(s, u, {"redraw"})
        /\ u.redraw = TRUE
    BY <1>1 DEF Made, Fields, Differ
  <1>6. u \in Shell
    <2>1. /\ u.redraw \in Types.redraw
      BY <1>5, TypesAre
    <2>2. {"redraw"} \subseteq Fields /\ \A field \in {"redraw"} : u[field] \in Types[field]
      BY <2>1 DEF Fields
    <2> HIDE DEF u
    <2>. QED BY <1>1, <1>5, <2>2, Retyped
  <1> HIDE DEF u
  <1>7. /\ Made(v) /\ Differ(s, v, {"dirty", "redraw"})
        /\ v.dirty = TRUE
        /\ v.redraw = TRUE
    BY <1>1 DEF Made, Fields, Differ
  <1>8. v \in Shell
    <2>1. /\ v.dirty \in Types.dirty
         /\ v.redraw \in Types.redraw
      BY <1>7, TypesAre
    <2>2. {"dirty", "redraw"} \subseteq Fields /\ \A field \in {"dirty", "redraw"} : v[field] \in Types[field]
      BY <2>1 DEF Fields
    <2> HIDE DEF v
    <2>. QED BY <1>1, <1>7, <2>2, Retyped
  <1> HIDE DEF v
  <1>9. ASSUME NEW w \in {t, u, v} PROVE Good(d, w, q, f, r, x)
    <2>1. w \in Shell /\ Differ(s, w, {"dirty", "redraw", "out"}) /\ w.out = <<>>
      BY <1>3, <1>4, <1>5, <1>6, <1>7, <1>8 DEF Differ, Fields
    <2>2. Sound(w, q, f, r, x) /\ Shows(d, w)
      BY <2>1, Redrawn
    <2>. QED BY <2>1, <2>2, SoundIsGood
  <1>. QED BY <1>2, <1>9 DEF t

\* A frame is drawn when it can be.
LEMMA DrawGood ==
    ASSUME Numbering, NEW d, NEW s, NEW q, NEW f, NEW r, NEW x,
           Sound(s, q, f, r, x), s.out = <<>>, Shows(d, s)
    PROVE  Good(d, Draw(s), q, f, r, x)
  <1> DEFINE t == [s EXCEPT !.dirty = TRUE]
  <1>1. SoundButDrawn(s, q, f, r, x) /\ s \in Shell /\ ~s.down /\ Chrome(s) /\ Strip(s)
    BY DEF Sound, SoundButDrawn, SoundShell
  <1>2. Good(d, t, q, f, r, x) /\ Good(d, s, q, f, r, x) /\ Good(d, DrawTarget(s), q, f, r, x)
    BY DirtyGood, SoundIsGood, DrawTargetGood
  <1>3. \/ Draw(s) \in {s, t, DrawTarget(s)}
        \/ /\ s.ready /\ s.frame = 0 /\ s.surface = 0 /\ s.creating = NotCreating
           /\ s.permit = NoPermit /\ ~InTransition(s) /\ ~FrameBlocked(s.handoff)
    BY DEF Draw
  <1>4. CASE /\ s.ready /\ s.frame = 0 /\ s.surface = 0 /\ s.creating = NotCreating
             /\ s.permit = NoPermit /\ ~InTransition(s) /\ ~FrameBlocked(s.handoff)
    <2> DEFINE permit == CurrentPermit(s.handoff, s.tab)
    <2>1. ~Switching(s) /\ s.handoff.content = s.active /\ s.handoff.represented = s.active
          /\ s.tab = s.active /\ s.active \in Tab /\ s.reset = 0
      BY <1>1, <1>4, TabsAre DEF FrameBlocked, Switching, Chrome, InTransition
    <2>2. CanDrawCurrent(s.handoff, s.tab)
      BY <2>1 DEF CanDrawCurrent, Switching
    <2>3. Draw(s) = StartFrame(s, permit)
      BY <1>4, <2>2 DEF Draw
    <2>4. s.handoff.generation \in Nat
      BY <1>1 DEF Shell, Handoff
    <2>5. /\ permit \in Permit /\ permit.generation = Gen(s) /\ permit.tab = s.active
          /\ permit.activation = 0
      BY <2>1, <2>4 DEF CurrentPermit, Permit, Gen
    <2> HIDE DEF permit
    <2>6. Good(d, StartFrame(s, permit), q, f, r, x)
      BY <1>1, <1>4, <2>1, <2>5, StartGood
    <2>. QED BY <2>3, <2>6
  <1>. QED BY <1>2, <1>3, <1>4

\* The surface is replaced, for the frame of this permit.
LEMMA RecoverGood ==
    ASSUME Numbering, NEW d, NEW s, NEW q, NEW f, NEW r, NEW x,
           SoundButDrawn(s, q, f, r, x), s.out = <<>>, Shows(d, s),
           s.ready, s.reset = 0, s.frame = 0, s.surface = 0, s.creating = NotCreating,
           NEW permit \in Permit, permit # NoPermit, Fits(s, permit),
           permit.tab \in Range(s.tabs),
           r.generation = permit.generation, r.tab = permit.tab,
           ~(Has(q, "close") /\ Switching(s) /\ permit.generation = Gen(s))
    PROVE  Good(d, RecoverSurface(s, permit), q, f, r, x)
  <1> DEFINE id == NextRequest(s)
             c == ReplaceSurface(id, permit.tab)
             u == [s EXCEPT !.surface = id, !.recovery = permit, !.out = <<c>>]
  <1>1. /\ s \in Shell /\ ~s.down /\ Made(s) /\ id \in Nat \ {0} /\ permit.tab \in Tab
    BY SoundIs DEF Numbering, Permit
  <1>2. RecoverSurface(s, permit) = u
    BY DEF RecoverSurface, Send
  <1> HIDE DEF id
  <1>3. c \in Asked
    BY <1>1, AskedIs
  <1>4. c \in Command /\ c.kind = "replace" /\ c.id = id /\ c.tab = permit.tab
    BY <1>1, IsCommand DEF ReplaceSurface
  <1> HIDE DEF c
  <1>5. /\ Made(u) /\ Differ(s, u, {"surface", "recovery", "out"})
        /\ u.surface = id
        /\ u.recovery = permit
        /\ u.out = <<c>>
    BY ZenonT(40), <1>1 DEF Made, Fields, Differ
  <1>6. u \in Shell
    <2>1. /\ u.surface \in Types.surface
         /\ u.recovery \in Types.recovery
         /\ u.out \in Types.out
      BY <1>5, <1>1, <1>3, TypesAre
    <2>2. {"surface", "recovery", "out"} \subseteq Fields /\ \A field \in {"surface", "recovery", "out"} : u[field] \in Types[field]
      BY <2>1 DEF Fields
    <2> HIDE DEF u
    <2>. QED BY <1>1, <1>5, <2>2, Retyped
  <1> HIDE DEF u
  <1>7. ASSUME NEW g, Add(q, c, g) PROVE Sound(u, g, f, r, x)
    <2>1. Differ(s, u, {"surface", "recovery", "out"}) /\ u.surface = c.id /\ u.recovery = permit
      BY <1>4, <1>5
    <2>2. /\ u.recovery \in Permit /\ u.recovery # NoPermit /\ c.tab = u.recovery.tab
          /\ Fits(s, u.recovery) /\ u.recovery.tab \in Range(s.tabs)
          /\ r.generation = u.recovery.generation /\ r.tab = u.recovery.tab
          /\ ~(Has(q, "close") /\ Switching(s) /\ u.recovery.generation = Gen(s))
      BY <1>4, <2>1
    <2>3. c \in Command /\ c.kind = "replace" /\ Add(q, c, g)
      BY <1>4, <1>7
    <2>. QED BY <1>6, <2>1, <2>2, <2>3, SurfaceAsked
  <1>8. u.session = s.session /\ u.active = s.active /\ u.visible = s.visible /\ ~u.down
    BY <1>1, <1>5 DEF Differ, Fields
  <1>9. Good(d, u, q, f, r, x)
    <2>1. Shows(d, u)
      BY <1>8, ShowsIs
    <2>. QED BY <1>5, <1>6, <1>7, <1>8, <2>1, SentIsGood
  <1>. QED BY <1>2, <1>9

-----------------------------------------------------------------------------
(* The handlers' common parts: tabs.                                       *)

\* The handoff of a switch, up to the permit.
LEMMA HandoffIs ==
    ASSUME NEW h \in Handoff, NEW intent \in Intent, NEW to \in Tab, intent.to = to,
           intent.from = h.represented, h.content \in {Neutral, h.represented}
    PROVE  LET began == ConfirmNeutral(BeginActivation(h, intent))
               acked == AcknowledgeChrome(began, to)
           IN  /\ acked \in Handoff /\ acked.pending = intent /\ acked.content = Neutral
               /\ acked.represented = to /\ acked.generation = h.generation + 1
               /\ CanBeginActivation(h, intent) /\ CanAcknowledge(began, intent.id, to)
               /\ CanDrawTarget(acked, intent.id, to)
  <1> DEFINE began == ConfirmNeutral(BeginActivation(h, intent))
             acked == AcknowledgeChrome(began, to)
  <1>1. intent # NoIntent
    BY DEF Intent, NoIntent
  <1>2. /\ began \in Handoff /\ began.pending = intent /\ began.content = Neutral
        /\ began.generation = h.generation + 1
    <2> DEFINE a == BeginActivation(h, intent)
    <2>1. a \in Handoff /\ a.pending = intent /\ a.generation = h.generation + 1
      <3>1. h.generation + 1 \in Nat
        BY DEF Handoff
      <3>. QED BY <3>1 DEF BeginActivation, Handoff
    <2> HIDE DEF a
    <2>2. /\ ConfirmNeutral(a) \in Handoff /\ ConfirmNeutral(a).pending = a.pending
          /\ ConfirmNeutral(a).content = Neutral
          /\ ConfirmNeutral(a).generation = a.generation
      BY <2>1 DEF ConfirmNeutral, Handoff
    <2>. QED BY <2>1, <2>2 DEF a
  <1> HIDE DEF began
  <1>3. /\ acked \in Handoff /\ acked.pending = intent /\ acked.content = Neutral
        /\ acked.represented = to /\ acked.generation = began.generation
    BY <1>2 DEF AcknowledgeChrome, Handoff
  <1>4. CanBeginActivation(h, intent)
    BY DEF CanBeginActivation
  <1> HIDE DEF acked
  <1>5. CanAcknowledge(began, intent.id, to) /\ CanDrawTarget(acked, intent.id, to)
    BY <1>1, <1>2, <1>3 DEF CanAcknowledge, CanDrawTarget, Current, Activating
  <1>. QED BY <1>2, <1>3, <1>4, <1>5 DEF acked, began

\* A switch that is begun comes to the frame of its target.
LEMMA SwitchIs ==
    ASSUME NEW s \in Shell, NEW tabs \in Seq(Tab), NEW to \in Tab, s.active \in Tab,
           s.handoff.represented = s.active, s.handoff.content \in {Neutral, s.active}
    PROVE  \E t \in Shell :
              /\ SwitchTo(s, to, tabs) = DrawTarget(t)
              /\ Differ(s, t, {"visible", "nextActivation", "handoff", "tabs", "active",
                               "tab", "permit"})
              /\ t.handoff.pending = [id |-> s.nextActivation, from |-> s.active, to |-> to]
              /\ t.handoff.represented = to /\ t.handoff.content = Neutral
              /\ Gen(t) = Gen(s) + 1 /\ t.nextActivation = s.nextActivation + 1
              /\ t.tabs = tabs /\ t.active = to /\ t.tab = to /\ ~t.visible
              /\ t.permit = TargetPermit(t.handoff, s.nextActivation, to)
  <1> DEFINE intent == [id |-> s.nextActivation, from |-> s.active, to |-> to]
             began == ConfirmNeutral(BeginActivation(s.handoff, intent))
             acked == AcknowledgeChrome(began, to)
             permit == TargetPermit(acked, intent.id, to)
             a == [s EXCEPT !.visible = FALSE, !.nextActivation = @ + 1, !.handoff = acked]
             t == [a EXCEPT !.tabs = tabs, !.active = to, !.tab = to, !.permit = permit]
  <1>1. s \in Shell /\ Made(s) /\ s.handoff \in Handoff /\ s.nextActivation \in Nat \ {0}
    BY ShellTypes DEF Shell
  <1>2. /\ intent \in Intent /\ intent.to = to /\ intent.from = s.handoff.represented
        /\ s.handoff.content \in {Neutral, s.handoff.represented}
        /\ intent.id = s.nextActivation
    BY <1>1 DEF Intent
  <1> HIDE DEF intent
  <1>3. /\ acked \in Handoff /\ acked.pending = intent /\ acked.content = Neutral
        /\ acked.represented = to /\ acked.generation = s.handoff.generation + 1
        /\ CanBeginActivation(s.handoff, intent) /\ CanAcknowledge(began, intent.id, to)
        /\ CanDrawTarget(acked, intent.id, to)
    BY <1>1, <1>2, HandoffIs
  <1>4. SwitchTo(s, to, tabs) = DrawTarget(t)
    BY <1>3 DEF SwitchTo, Hide, intent
  <1> HIDE DEF began, acked
  <1>5. permit \in Permit \cup {NoPermit}
    BY <1>1, <1>2, <1>3 DEF TargetPermit, Permit, Handoff
  <1>6. /\ Made(a) /\ Differ(s, a, {"visible", "nextActivation", "handoff"})
        /\ a.visible = FALSE
        /\ a.nextActivation = s.nextActivation + 1
        /\ a.handoff = acked
    BY <1>1 DEF Made, Fields, Differ
  <1>7. a \in Shell
    <2>1. /\ a.visible \in Types.visible
         /\ a.nextActivation \in Types.nextActivation
         /\ a.handoff \in Types.handoff
      BY <1>6, <1>1, <1>3, TypesAre
    <2>2. {"visible", "nextActivation", "handoff"} \subseteq Fields /\ \A field \in {"visible", "nextActivation", "handoff"} : a[field] \in Types[field]
      BY <2>1 DEF Fields
    <2> HIDE DEF a
    <2>. QED BY <1>1, <1>6, <2>2, Retyped
  <1> HIDE DEF a
  <1> HIDE DEF permit
  <1>8. /\ Made(t) /\ Differ(a, t, {"tabs", "active", "tab", "permit"})
        /\ t.tabs = tabs
        /\ t.active = to
        /\ t.tab = to
        /\ t.permit = permit
    BY ZenonT(40), <1>6, <1>7 DEF Made, Fields, Differ
  <1>9. t \in Shell
    <2>1. /\ t.tabs \in Types.tabs
         /\ t.active \in Types.active
         /\ t.tab \in Types.tab
         /\ t.permit \in Types.permit
      BY <1>8, <1>5, TypesAre
    <2>2. {"tabs", "active", "tab", "permit"} \subseteq Fields /\ \A field \in {"tabs", "active", "tab", "permit"} : t[field] \in Types[field]
      BY <2>1 DEF Fields
    <2> HIDE DEF t
    <2>. QED BY <1>6, <1>7, <1>8, <2>2, Retyped
  <1> HIDE DEF t
  <1>10. /\ Differ(s, t, {"visible", "nextActivation", "handoff", "tabs", "active",
                          "tab", "permit"})
         /\ t.handoff = acked /\ t.nextActivation = s.nextActivation + 1 /\ ~t.visible
    BY <1>6, <1>8 DEF Differ, Fields
  <1>11. /\ t.handoff.pending = [id |-> s.nextActivation, from |-> s.active, to |-> to]
         /\ t.handoff.represented = to /\ t.handoff.content = Neutral
         /\ Gen(t) = Gen(s) + 1
    BY <1>3, <1>10 DEF Gen, intent
  <1>12. t.permit = TargetPermit(t.handoff, s.nextActivation, to)
    BY <1>2, <1>8, <1>10 DEF permit
  <1>. QED BY <1>4, <1>8, <1>9, <1>10, <1>11, <1>12

\* A passage to another tab that has its view.
LEMMA SwitchGood ==
    ASSUME Numbering, NEW d, NEW s, NEW q, NEW f, NEW r, NEW x,
           Sound(s, q, f, r, x), s.out = <<>>,
           s.ready, s.reset = 0, s.creating = NotCreating,
           NEW to, to \in Range(s.tabs) \cap s.materialized
    PROVE  Good(d, SwitchTo(s, to, s.tabs), q, f, r, x)
  <1>1. s \in Shell /\ Strip(s) /\ Chrome(s)
    BY DEF Sound, SoundButDrawn, SoundShell
  <1>2. /\ to \in Tab /\ s.active \in Tab /\ s.tabs \in Seq(Tab)
        /\ s.handoff.represented = s.active /\ s.handoff.content \in {Neutral, s.active}
    BY <1>1, TabsAre DEF Chrome
  <1>3. PICK t \in Shell :
              /\ SwitchTo(s, to, s.tabs) = DrawTarget(t)
              /\ Differ(s, t, {"visible", "nextActivation", "handoff", "tabs", "active",
                               "tab", "permit"})
              /\ t.handoff.pending = [id |-> s.nextActivation, from |-> s.active, to |-> to]
              /\ t.handoff.represented = to /\ t.handoff.content = Neutral
              /\ Gen(t) = Gen(s) + 1 /\ t.nextActivation = s.nextActivation + 1
              /\ t.tabs = s.tabs /\ t.active = to /\ t.tab = to /\ ~t.visible
              /\ t.permit = TargetPermit(t.handoff, s.nextActivation, to)
    BY <1>1, <1>2, SwitchIs
  <1>4. /\ Differ(s, t, {"visible", "nextActivation", "handoff", "active", "tab", "permit"})
        /\ t.out = <<>>
    BY <1>3 DEF Differ, Fields
  <1>5. /\ t.handoff.pending = [id |-> s.nextActivation, from |-> s.active, to |-> t.active]
        /\ t.handoff.represented = t.active /\ t.tab = t.active
        /\ t.permit = TargetPermit(t.handoff, s.nextActivation, t.active)
        /\ t.active \in Range(s.tabs) \cap s.materialized
    BY <1>3
  <1>6. Sound(t, q, f, r, x)
    BY <1>3, <1>4, <1>5, SwitchKept
  <1>7. Shows(d, t)
    BY <1>3 DEF Shows
  <1>8. Good(d, DrawTarget(t), q, f, r, x)
    BY <1>4, <1>6, <1>7, DrawTargetGood
  <1>. QED BY <1>3, <1>8

\* A tab is activated, if it has its view.
LEMMA ActivateGood ==
    ASSUME Numbering, NEW d, NEW s, NEW q, NEW f, NEW r, NEW x,
           Sound(s, q, f, r, x), s.out = <<>>, Shows(d, s),
           s.creating = NotCreating, NEW to \in Range(s.tabs)
    PROVE  Good(d, Activate(s, to), q, f, r, x)
  <1> DEFINE t == [s EXCEPT !.nextActivation = @ + 1]
  <1>1. s \in Shell /\ Made(s) /\ Strip(s) /\ Exclusive(s) /\ s.nextActivation \in Nat \ {0}
    BY ShellTypes DEF Sound, SoundButDrawn, SoundShell, Shell
  <1>2. CASE to \notin s.materialized \/ to = s.active
    <2>1. Activate(s, to) = t
      BY <1>2 DEF Activate
    <2>2. /\ Made(t) /\ Differ(s, t, {"nextActivation"})
          /\ t.nextActivation = s.nextActivation + 1
      BY <1>1 DEF Made, Fields, Differ
    <2>3. t \in Shell
      <3>1. /\ t.nextActivation \in Types.nextActivation
        BY <2>2, <1>1, TypesAre
      <3>2. {"nextActivation"} \subseteq Fields /\ \A field \in {"nextActivation"} : t[field] \in Types[field]
        BY <3>1 DEF Fields
      <3> HIDE DEF t
      <3>. QED BY <1>1, <2>2, <3>2, Retyped
    <2> HIDE DEF t
    <2>4. /\ Differ(s, t, {"dirty", "redraw", "out", "nextActivation", "restoring", "seeking", "unlocking"})
          /\ t.restoring = s.restoring /\ t.seeking = s.seeking /\ t.unlocking = s.unlocking
          /\ t.session = s.session /\ t.active = s.active /\ t.visible = s.visible
          /\ t.out = <<>>
      BY <2>2 DEF Differ, Fields
    <2>5. /\ t.nextActivation >= s.nextActivation
          /\ t.seeking => s.reset = 0 /\ ~t.unlocking /\ s.session < MaxSessions
      BY <1>1, <2>2, <2>4 DEF Exclusive
    <2>6. Sound(t, q, f, r, x)
      BY <2>3, <2>4, <2>5, Unmoved
    <2>7. Shows(d, t)
      BY <2>4, ShowsIs
    <2>. QED BY <2>1, <2>4, <2>6, <2>7, SoundIsGood DEF t
  <1>3. CASE to \in s.materialized /\ to # s.active
    <2>1. Activate(s, to) = SwitchTo(s, to, s.tabs)
      BY <1>3 DEF Activate
    <2>2. s.ready /\ s.reset = 0
      BY <1>1, <1>3 DEF Strip
    <2>. QED BY <1>3, <2>1, <2>2, SwitchGood
  <1>. QED BY <1>2, <1>3

-----------------------------------------------------------------------------
(* The handlers' common parts: navigations.                                *)

LEMMA ReloadIs ==
    ASSUME NEW s, NEW q, NEW f, NEW r, NEW x, Sound(s, q, f, r, x), s.reset = 0, s.initial = 0
    PROVE  \E c : LET t == Reload(s, s.tab)
           IN  /\ t \in Shell /\ t.out = <<c>>
               /\ Differ(s, t, {"nextNavigation", "loading", "targets", "out"})
               /\ \A g : Add(q, c, g) => Sound(t, g, f, r, x)
  <1> DEFINE target == [tab |-> s.tab, navigation |-> s.nextNavigation, profile |-> s.session]
             c == Navigate(target, ~s.remote[s.tab])
             t == [s EXCEPT !.nextNavigation = @ + 1, !.loading[s.tab] = s.nextNavigation,
                            !.targets[s.tab] = target, !.out = <<c>>]
  <1>1. /\ s \in Shell /\ Made(s) /\ Strip(s) /\ s.nextNavigation \in Nat \ {0}
        /\ s.tab \in Tab /\ s.session \in Nat \ {0}
        /\ s.loading \in [Tab -> Nat] /\ s.targets \in [Tab -> Target \cup {NoTarget}]
        /\ s.remote[s.tab] \in BOOLEAN
    <2>1. s \in Shell /\ Strip(s)
      BY DEF Sound, SoundButDrawn, SoundShell
    <2>2. Made(s) /\ s.tab \in Tab
      BY <2>1, ShellTypes, TabsAre
    <2>3. /\ s.nextNavigation \in Nat \ {0} /\ s.session \in 1 .. MaxSessions
          /\ s.loading \in [Tab -> Nat] /\ s.targets \in [Tab -> Target \cup {NoTarget}]
          /\ s.remote \in [Tab -> BOOLEAN]
      BY <2>1 DEF Shell
    <2>4. s.session \in Nat \ {0}
      BY <2>3, ShellConstants
    <2>. QED BY <2>1, <2>2, <2>3, <2>4
  <1>2. target \in Target
    BY <1>1 DEF Target
  <1>3. Reload(s, s.tab) = t
    BY DEF Reload, Send
  <1> HIDE DEF target
  <1>4. c \in Asked /\ c \in Command /\ c.kind = "navigate" /\ c.target = target
        /\ c.local = ~s.remote[s.tab]
    <2>1. (~s.remote[s.tab]) \in BOOLEAN
      OBVIOUS
    <2>. QED BY <1>2, <2>1, AskedIs, IsCommand DEF Navigate
  <1> HIDE DEF c
  <1>5. /\ Made(t) /\ Differ(s, t, {"nextNavigation", "loading", "targets", "out"})
        /\ t.nextNavigation = s.nextNavigation + 1
        /\ t.loading = [s.loading EXCEPT ![s.tab] = s.nextNavigation]
        /\ t.targets = [s.targets EXCEPT ![s.tab] = target]
        /\ t.out = <<c>>
    BY ZenonT(40), <1>1 DEF Made, Fields, Differ
  <1>6. t \in Shell
    <2>1. /\ t.nextNavigation \in Types.nextNavigation
         /\ t.loading \in Types.loading
         /\ t.targets \in Types.targets
         /\ t.out \in Types.out
      BY <1>5, <1>1, <1>2, <1>4, TypesAre
    <2>2. {"nextNavigation", "loading", "targets", "out"} \subseteq Fields /\ \A field \in {"nextNavigation", "loading", "targets", "out"} : t[field] \in Types[field]
      BY <2>1 DEF Fields
    <2> HIDE DEF t
    <2>. QED BY <1>1, <1>5, <2>2, Retyped
  <1> HIDE DEF t
  <1>7. ASSUME NEW g, Add(q, c, g) PROVE Sound(t, g, f, r, x)
    <2>1. c.target = [tab |-> s.tab, navigation |-> s.nextNavigation, profile |-> s.session]
      BY <1>4 DEF target
    <2>2. t.targets = [s.targets EXCEPT ![s.tab] = c.target]
      BY <1>4, <1>5
    <2>3. c \in Command /\ c.kind = "navigate" /\ Add(q, c, g) /\ c.local = ~s.remote[s.tab]
      BY <1>4, <1>7
    <2>4. /\ Differ(s, t, {"nextNavigation", "loading", "targets", "out"})
          /\ t.nextNavigation = s.nextNavigation + 1
          /\ t.loading = [s.loading EXCEPT ![s.tab] = s.nextNavigation]
      BY <1>5
    <2>. QED BY <1>6, <2>1, <2>2, <2>3, <2>4, ReloadAsked
  <1>. QED BY <1>3, <1>5, <1>6, <1>7

\* A reload that the user asks for.
LEMMA ReloadGood ==
    ASSUME NEW d, NEW s, NEW q, NEW f, NEW r, NEW x, Sound(s, q, f, r, x), Shows(d, s),
           s.reset = 0, s.initial = 0
    PROVE  Good(d, Reload(s, s.tab), q, f, r, x)
  <1> DEFINE t == Reload(s, s.tab)
  <1>1. PICK c : /\ t \in Shell /\ t.out = <<c>>
                 /\ Differ(s, t, {"nextNavigation", "loading", "targets", "out"})
                 /\ \A g : Add(q, c, g) => Sound(t, g, f, r, x)
    BY ReloadIs
  <1> HIDE DEF t
  <1>2. ~s.down
    BY SoundIs DEF Sound
  <1>3. ~t.down /\ t.session = s.session /\ t.active = s.active /\ t.visible = s.visible
    BY <1>1, <1>2 DEF Differ, Fields
  <1>4. Shows(d, t)
    BY <1>3, ShowsIs
  <1>5. Good(d, t, q, f, r, x)
    BY <1>1, <1>3, <1>4, SentIsGood
  <1>. QED BY <1>5 DEF t

\* A stored page is reloaded.
LEMMA ReplayGood ==
    ASSUME NEW d, NEW s, NEW q, NEW f, NEW r, NEW x, Sound(s, q, f, r, x), Shows(d, s),
           MayReplay(s)
    PROVE  Good(d, Replay(s), q, f, r, x)
  <1> DEFINE t == Reload(s, s.tab)
             u == [t EXCEPT !.restoring = FALSE]
  <1>1. s \in Shell /\ ~s.down /\ Strip(s) /\ Exclusive(s) /\ Loading(s)
    BY DEF Sound, SoundButDrawn, SoundShell
  <1>2. s.reset = 0 /\ s.initial = 0 /\ ~InTransition(s)
    BY <1>1 DEF MayReplay, InTransition, Loading
  <1>3. Replay(s) = u
    BY <1>1 DEF Replay, Strip
  <1>4. PICK c : /\ t \in Shell /\ t.out = <<c>>
                 /\ Differ(s, t, {"nextNavigation", "loading", "targets", "out"})
                 /\ \A g : Add(q, c, g) => Sound(t, g, f, r, x)
    BY <1>2, ReloadIs
  <1> HIDE DEF t
  <1>5. Made(t)
    BY <1>4, ShellTypes
  <1>6. /\ Made(u) /\ Differ(t, u, {"restoring"})
        /\ u.restoring = FALSE
    BY <1>4, <1>5 DEF Made, Fields, Differ
  <1>7. u \in Shell
    <2>1. /\ u.restoring \in Types.restoring
      BY <1>6, TypesAre
    <2>2. {"restoring"} \subseteq Fields /\ \A field \in {"restoring"} : u[field] \in Types[field]
      BY <2>1 DEF Fields
    <2> HIDE DEF u
    <2>. QED BY <1>4, <1>5, <1>6, <2>2, Retyped
  <1> HIDE DEF u
  <1>8. /\ Differ(t, u, {"dirty", "redraw", "out", "nextActivation", "restoring", "seeking", "unlocking"})
        /\ u.nextActivation = t.nextActivation /\ ~u.restoring /\ ~u.seeking
        /\ u.session = s.session /\ u.active = s.active /\ u.visible = s.visible
        /\ u.out = <<c>> /\ ~u.down
    BY <1>1, <1>2, <1>4, <1>6 DEF Differ, Fields, InTransition
  <1>9. u.nextActivation >= t.nextActivation
    BY <1>4, <1>8 DEF Shell
  <1>10. ASSUME NEW g, Add(q, c, g) PROVE Sound(u, g, f, r, x)
    <2>1. Sound(t, g, f, r, x)
      BY <1>4, <1>10
    <2>. QED BY <1>7, <1>8, <1>9, <2>1, Unmoved
  <1>11. Shows(d, u)
    BY <1>8, ShowsIs
  <1>12. Good(d, u, q, f, r, x)
    BY <1>7, <1>8, <1>10, <1>11, SentIsGood
  <1>. QED BY <1>3, <1>12

-----------------------------------------------------------------------------
(* Keys.                                                                   *)

LEMMA StopGood ==
    ASSUME NEW s, NEW q, NEW f, NEW r, NEW x, Sound(s, q, f, r, x), s.out = <<>>,
           s.reset = 0
    PROVE  /\ Good(s, ReloadOrStop(s), q, f, r, x)
           /\ Good(s, Escape(s), q, f, r, x)
  <1> DEFINE owner == s.targets[s.active]
             c == Cancel(owner)
             t == [s EXCEPT !.cancelling = owner, !.out = <<c>>]
  <1>1. s \in Shell /\ ~s.down /\ Made(s) /\ Strip(s) /\ Loading(s) /\ Shows(s, s)
    BY ShellTypes DEF Sound, SoundButDrawn, SoundShell, Shows
  <1>2. /\ s.active \in Tab /\ s.active = s.tab /\ s.active \in Range(s.tabs)
        /\ s.loading[s.active] \in Nat /\ owner \in Target \cup {NoTarget}
    <2>1. s.active \in Tab /\ s.active = s.tab /\ s.active \in Range(s.tabs)
      BY <1>1, TabsAre
    <2>. QED BY <1>1, <2>1 DEF Shell
  <1>3. Good(s, ReloadOrStop(s), q, f, r, x)
    <2>1. CASE s.cancelling # NoTarget
      <3>1. ReloadOrStop(s) = s
        BY <2>1 DEF ReloadOrStop
      <3>. QED BY <1>1, <3>1, SoundIsGood
    <2>2. CASE s.cancelling = NoTarget /\ s.loading[s.active] = 0
      <3>1. ReloadOrStop(s) = Reload(s, s.tab)
        BY <1>2, <2>2 DEF ReloadOrStop
      <3>2. s.initial = 0
        BY <1>1, <1>2, <2>2 DEF Loading
      <3>. QED BY <1>1, <3>1, <3>2, ReloadGood
    <2>3. CASE s.cancelling = NoTarget /\ s.loading[s.active] # 0
               /\ owner.navigation # s.loading[s.active]
      <3>1. ReloadOrStop(s) = Fail(s, "unowned")
        BY <2>3 DEF ReloadOrStop
      <3>2. "unowned" \in Fatal \ {"protocol"}
        BY DEF Fatal
      <3>. QED BY <1>1, <3>1, <3>2, FailIsGood
    <2>4. CASE s.cancelling = NoTarget /\ s.loading[s.active] # 0
               /\ owner.navigation = s.loading[s.active]
      <3>1. owner \in Target /\ owner # NoTarget
        BY <1>2, <2>4 DEF NoTarget
      <3>2. ReloadOrStop(s) = t
        BY <2>4 DEF ReloadOrStop, Send
      <3> HIDE DEF owner
      <3>3. c \in Asked /\ c \in Command /\ c.kind = "cancel" /\ c.target = owner
        BY <3>1, AskedIs, IsCommand DEF Cancel
      <3> HIDE DEF c
      <3>4. /\ Made(t) /\ Differ(s, t, {"cancelling", "out"})
            /\ t.cancelling = owner
            /\ t.out = <<c>>
        BY <1>1 DEF Made, Fields, Differ
      <3>5. t \in Shell
        <4>1. /\ t.cancelling \in Types.cancelling
             /\ t.out \in Types.out
          BY <3>4, <3>1, <3>3, TypesAre
        <4>2. {"cancelling", "out"} \subseteq Fields /\ \A field \in {"cancelling", "out"} : t[field] \in Types[field]
          BY <4>1 DEF Fields
        <4> HIDE DEF t
        <4>. QED BY <1>1, <3>4, <4>2, Retyped
      <3> HIDE DEF t
    <3>6. ASSUME NEW g, Add(q, c, g) PROVE Sound(t, g, f, r, x)
        <4>1. c.target = s.targets[s.tab] /\ c.target # NoTarget /\ t.cancelling = c.target
          BY <1>2, <3>1, <3>3, <3>4 DEF owner
        <4>2. c \in Command /\ c.kind = "cancel" /\ Add(q, c, g)
          BY <3>3, <3>6
        <4>. QED BY <2>4, <3>4, <3>5, <4>1, <4>2, StopAsked
      <3>7. ~t.down /\ t.session = s.session /\ t.active = s.active /\ t.visible = s.visible
        BY <1>1, <3>4 DEF Differ, Fields
      <3>8. Shows(s, t)
        BY <1>1, <3>7, ShowsIs
      <3>. QED BY <3>2, <3>4, <3>5, <3>6, <3>7, <3>8, SentIsGood
    <2>. QED BY <2>1, <2>2, <2>3, <2>4
  <1>4. Escape(s) \in {s, ReloadOrStop(s)}
    BY DEF Escape
  <1>. QED BY <1>1, <1>3, <1>4, SoundIsGood

\* A new tab is shown in the strip, and its view asked for.
LEMMA NewTabGood ==
    ASSUME Numbering, NEW s, NEW q, NEW f, NEW r, NEW x, Sound(s, q, f, r, x), s.out = <<>>,
           s.nextTab \in Tab
    PROVE  Good(s, NewTab(s), q, f, r, x)
  <1> DEFINE tab == s.nextTab
             id == NextRequest(s)
             c == CreateView(id, tab)
             loading == [s.loading EXCEPT ![tab] = s.nextNavigation]
             creating == [id |-> id, tab |-> tab, navigation |-> s.nextNavigation]
             more == Append(s.tabs, tab)
             next == tab + 1
             navigation == s.nextNavigation + 1
             t == [s EXCEPT !.nextTab = next, !.tabs = more, !.nextNavigation = navigation,
                            !.loading = loading, !.creating = creating, !.out = <<c>>]
  <1>1. /\ s \in Shell /\ ~s.down /\ Made(s) /\ Shows(s, s)
        /\ id \in Nat \ {0} /\ s.nextNavigation \in Nat \ {0} /\ s.tabs \in Seq(Tab)
        /\ s.loading \in [Tab -> Nat]
    <2>1. s \in Shell /\ ~s.down /\ Made(s) /\ Shows(s, s) /\ id \in Nat \ {0}
      BY SoundIs DEF Sound, Shows, Numbering
    <2>. QED BY <2>1 DEF Shell
  <1>2. CASE InTransition(s) \/ ~Idle(s) \/ s.frame # 0
    <2>1. NewTab(s) = s
      BY <1>2 DEF NewTab
    <2>. QED BY <1>1, <2>1, SoundIsGood
  <1>3. CASE ~InTransition(s) /\ Idle(s) /\ s.frame = 0
    <2>1. NewTab(s) = t
      BY <1>3 DEF NewTab, Send
    <2> HIDE DEF id
    <2>2. c \in Asked /\ c \in Command /\ c.kind = "create" /\ c.id = id /\ c.tab = tab
      BY <1>1, AskedIs, IsCommand DEF CreateView
    <2> HIDE DEF c
    <2>3. /\ next \in 1 .. MaxTabs + 1 /\ more \in Seq(Tab)
          /\ navigation \in Nat \ {0} /\ loading \in [Tab -> Nat]
          /\ creating \in Requested
      BY SMTT(30), <1>1, HandoffConstants DEF Tab, Requested
    <2> HIDE DEF creating, loading, navigation, more, next, tab
    <2>4. /\ Made(t) /\ Differ(s, t, {"nextTab", "tabs", "nextNavigation", "loading", "creating", "out"})
          /\ t.nextTab = next
          /\ t.tabs = more
          /\ t.nextNavigation = navigation
          /\ t.loading = loading
          /\ t.creating = creating
          /\ t.out = <<c>>
      BY ZenonT(40), <1>1 DEF Made, Fields, Differ
    <2>5. t \in Shell
      <3>1. /\ t.nextTab \in Types.nextTab
           /\ t.tabs \in Types.tabs
           /\ t.nextNavigation \in Types.nextNavigation
           /\ t.loading \in Types.loading
           /\ t.creating \in Types.creating
           /\ t.out \in Types.out
        BY <2>4, <2>2, <2>3, TypesAre
      <3>2. {"nextTab", "tabs", "nextNavigation", "loading", "creating", "out"} \subseteq Fields /\ \A field \in {"nextTab", "tabs", "nextNavigation", "loading", "creating", "out"} : t[field] \in Types[field]
        BY <3>1 DEF Fields
      <3> HIDE DEF t
      <3>. QED BY <1>1, <2>4, <3>2, Retyped
    <2> HIDE DEF t
    <2>6. ASSUME NEW g, Add(q, c, g) PROVE Sound(t, g, f, r, x)
      <3>1. /\ s.ready /\ s.reset = 0 /\ s.frame = 0 /\ s.surface = 0
            /\ s.creating = NotCreating /\ ~Switching(s)
        BY <1>3 DEF InTransition, Idle, Switching
      <3>2. /\ c.tab = s.nextTab /\ t.nextTab = s.nextTab + 1
            /\ t.tabs = Append(s.tabs, s.nextTab)
            /\ t.nextNavigation = s.nextNavigation + 1
            /\ t.loading = [s.loading EXCEPT ![s.nextTab] = s.nextNavigation]
            /\ t.creating = [id |-> c.id, tab |-> s.nextTab, navigation |-> s.nextNavigation]
        BY <2>2, <2>4 DEF creating, loading, navigation, more, next, tab
      <3>3. Differ(s, t, {"nextTab", "tabs", "nextNavigation", "loading", "creating", "out"})
        BY <2>4
      <3>4. c \in Command /\ c.kind = "create" /\ Add(q, c, g)
        BY <2>2, <2>6
      <3>. QED BY <2>5, <3>1, <3>2, <3>3, <3>4, ViewAsked
    <2>7. ~t.down /\ t.session = s.session /\ t.active = s.active /\ t.visible = s.visible
      BY <1>1, <2>4 DEF Differ, Fields
    <2>8. Shows(s, t)
      BY <1>1, <2>7, ShowsIs
    <2>9. Good(s, t, q, f, r, x)
      BY <2>4, <2>5, <2>6, <2>7, <2>8, SentIsGood
    <2>. QED BY <2>1, <2>9
  <1>. QED BY <1>2, <1>3

\* An activation that is not begun has its number.
LEMMA SkipGood ==
    ASSUME NEW d, NEW s, NEW q, NEW f, NEW r, NEW x,
           Sound(s, q, f, r, x), s.out = <<>>, Shows(d, s)
    PROVE  Good(d, [s EXCEPT !.nextActivation = @ + 1], q, f, r, x)
  <1> DEFINE t == [s EXCEPT !.nextActivation = @ + 1]
  <1>1. s \in Shell /\ Made(s) /\ Exclusive(s) /\ s.nextActivation \in Nat \ {0}
    BY ShellTypes DEF Sound, SoundButDrawn, SoundShell, Shell
  <1>2. /\ Made(t) /\ Differ(s, t, {"nextActivation"})
        /\ t.nextActivation = s.nextActivation + 1
    BY <1>1 DEF Made, Fields, Differ
  <1>3. t \in Shell
    <2>1. /\ t.nextActivation \in Types.nextActivation
      BY <1>2, <1>1, TypesAre
    <2>2. {"nextActivation"} \subseteq Fields /\ \A field \in {"nextActivation"} : t[field] \in Types[field]
      BY <2>1 DEF Fields
    <2> HIDE DEF t
    <2>. QED BY <1>1, <1>2, <2>2, Retyped
  <1> HIDE DEF t
  <1>4. /\ Differ(s, t, {"dirty", "redraw", "out", "nextActivation", "restoring", "seeking", "unlocking"})
        /\ t.restoring = s.restoring /\ t.seeking = s.seeking /\ t.unlocking = s.unlocking
        /\ t.session = s.session /\ t.active = s.active /\ t.visible = s.visible
        /\ t.out = <<>>
    BY <1>2 DEF Differ, Fields
  <1>5. /\ t.nextActivation >= s.nextActivation
        /\ t.seeking => s.reset = 0 /\ ~t.unlocking /\ s.session < MaxSessions
    BY <1>1, <1>2, <1>4 DEF Exclusive
  <1>6. Sound(t, q, f, r, x)
    BY <1>3, <1>4, <1>5, Unmoved
  <1>7. Shows(d, t)
    BY <1>4, ShowsIs
  <1>8. Good(d, t, q, f, r, x)
    BY <1>4, <1>6, <1>7, SoundIsGood
  <1>. QED BY <1>8 DEF t

\* Where the active tab is in the strip, and its neighbour.
LEMMA FallbackIs ==
    ASSUME NEW s \in Shell, Strip(s)
    PROVE  LET k == Position(s, s.active)
           IN  /\ k \in 1 .. Len(s.tabs) /\ s.tabs[k] = s.active
               /\ Len(s.tabs) # 1 => Fallback(s) \in Range(s.tabs) \ {s.active}
  <1> DEFINE k == Position(s, s.active)
             n == Len(s.tabs)
             to == IF k < n THEN k + 1 ELSE k - 1
  <1>1. /\ n \in Nat /\ s.tabs \in Seq(Tab) /\ s.active \in Range(s.tabs)
        /\ \A i \in 1 .. n : s.tabs[i] \in Range(s.tabs)
        /\ \E i \in 1 .. n : s.tabs[i] = s.active
    <2>1. /\ n \in Nat /\ s.tabs \in Seq(Tab) /\ s.active \in Range(s.tabs)
          /\ \A i \in 1 .. n : s.tabs[i] \in Range(s.tabs)
      BY TabsAre
    <2>2. \A u \in Range(s.tabs) : \E i \in 1 .. n : s.tabs[i] = u
      BY TabsAre
    <2>. QED BY <2>1, <2>2
  <1>2. DOMAIN s.tabs = 1 .. n
    BY <1>1
  <1>3. k \in 1 .. n /\ s.tabs[k] = s.active
    BY <1>1, <1>2 DEF Position
  <1> HIDE DEF k
  <1>4. ASSUME n # 1 PROVE Fallback(s) \in Range(s.tabs) \ {s.active}
    <2>1. to \in 1 .. n /\ to # k
      <3>1. n \in Nat /\ k \in 1 .. n /\ n # 1
        BY <1>1, <1>3, <1>4
      <3> HIDE DEF n
      <3>2. CASE k < n
        BY <3>1, <3>2
      <3>3. CASE ~(k < n)
        BY <3>1, <3>3
      <3>. QED BY <3>2, <3>3
    <2>2. Fallback(s) = s.tabs[to]
      BY DEF Fallback, k
    <2> HIDE DEF to
    <2>3. \A i, j \in 1 .. n : s.tabs[i] = s.tabs[j] => i = j
      BY DEF Strip
    <2>. QED BY <1>1, <1>3, <2>1, <2>2, <2>3
  <1>. QED BY <1>3, <1>4 DEF k

\* The active tab is closed, and the window with the last one.
LEMMA CloseTabGood ==
    ASSUME Numbering, NEW s, NEW q, NEW f, NEW r, NEW x, Sound(s, q, f, r, x), s.out = <<>>,
           s.reset = 0
    PROVE  Good(s, CloseTab(s), q, f, r, x)
  <1> DEFINE old == s.active
             k == Position(s, old)
             rest == RemoveAt(s.tabs, k)
             to == Fallback(s)
             loading == [s.loading EXCEPT ![old] = 0]
             a == [s EXCEPT !.closing = old, !.loading = loading]
  <1>1. /\ s \in Shell /\ ~s.down /\ Made(s) /\ Strip(s) /\ Chrome(s) /\ Shows(s, s)
    BY SoundIs DEF Sound, SoundButDrawn, SoundShell, Shows
  <1>2. /\ old \in Tab /\ old \in Range(s.tabs) /\ s.tabs \in Seq(Tab)
        /\ Range(s.tabs) \subseteq Tab /\ s.handoff.represented = old
        /\ s.handoff.content \in {Neutral, old}
    BY <1>1, TabsAre DEF Chrome
  <1>3. CASE ~Idle(s) \/ s.closing # NoTab \/ s.permit # NoPermit
    <2>1. CloseTab(s) = s
      BY <1>3 DEF CloseTab
    <2>. QED BY <1>1, <2>1, SoundIsGood
  <1>4. CASE Idle(s) /\ s.closing = NoTab /\ s.permit = NoPermit /\ Len(s.tabs) = 1
    <2>1. CanConfirmCurrentNeutral(s.handoff, s.active)
      BY <1>2, <1>4 DEF CanConfirmCurrentNeutral, Idle
    <2>2. CloseTab(s) = Shutdown(s)
      BY <1>4, <2>1 DEF CloseTab
    <2>3. "none" \in Fatal \ {"protocol"}
      BY DEF Fatal
    <2>. QED BY <1>1, <2>2, <2>3, FailIsGood
  <1>5. CASE /\ Idle(s) /\ s.closing = NoTab /\ s.permit = NoPermit /\ Len(s.tabs) # 1
             /\ to \notin s.materialized
    <2>1. CloseTab(s) = [s EXCEPT !.nextActivation = @ + 1]
      BY <1>5 DEF CloseTab
    <2>. QED BY <1>1, <2>1, SkipGood
  <1>6. CASE /\ Idle(s) /\ s.closing = NoTab /\ s.permit = NoPermit /\ Len(s.tabs) # 1
             /\ to \in s.materialized
    <2>1. CloseTab(s) = SwitchTo(a, to, rest)
      BY <1>6 DEF CloseTab
    <2>2. k \in 1 .. Len(s.tabs) /\ s.tabs[k] = old /\ to \in Range(s.tabs) \ {old}
      BY <1>1, <1>6, FallbackIs
    <2> HIDE DEF k, to
    <2>3. /\ rest \in Seq(Tab) /\ Range(rest) = Range(s.tabs) \ {old}
          /\ \A i, j \in 1 .. Len(rest) : rest[i] = rest[j] => i = j
      <3>1. \A i, j \in 1 .. Len(s.tabs) : s.tabs[i] = s.tabs[j] => i = j
        BY <1>1 DEF Strip
      <3>2. /\ rest \in Seq(Tab) /\ Range(rest) = Range(s.tabs) \ {s.tabs[k]}
            /\ \A i, j \in 1 .. Len(rest) : rest[i] = rest[j] => i = j
        BY <1>2, <2>2, <3>1, StripWithout
      <3>. QED BY <2>2, <3>2
    <2> HIDE DEF rest
    <2>4. loading \in [Tab -> Nat]
      <3>1. s.loading \in [Tab -> Nat]
        BY <1>1 DEF Shell
      <3>. QED BY <3>1
    <2> HIDE DEF loading
    <2>5. /\ Made(a) /\ Differ(s, a, {"closing", "loading"})
          /\ a.closing = old
          /\ a.loading = loading
      BY <1>1 DEF Made, Fields, Differ
    <2>6. a \in Shell
      <3>1. /\ a.closing \in Types.closing
           /\ a.loading \in Types.loading
        BY <2>5, <1>2, <2>4, TypesAre
      <3>2. {"closing", "loading"} \subseteq Fields /\ \A field \in {"closing", "loading"} : a[field] \in Types[field]
        BY <3>1 DEF Fields
      <3> HIDE DEF a
      <3>. QED BY <1>1, <2>5, <3>2, Retyped
    <2> HIDE DEF a
    <2>7. /\ to \in Tab /\ a.active = old /\ a.handoff = s.handoff
          /\ a.nextActivation = s.nextActivation
      BY <1>2, <2>2, <2>5 DEF Differ, Fields
    <2>8. PICK t \in Shell :
              /\ SwitchTo(a, to, rest) = DrawTarget(t)
              /\ Differ(a, t, {"visible", "nextActivation", "handoff", "tabs", "active",
                               "tab", "permit"})
              /\ t.handoff.pending = [id |-> a.nextActivation, from |-> a.active, to |-> to]
              /\ t.handoff.represented = to /\ t.handoff.content = Neutral
              /\ Gen(t) = Gen(a) + 1 /\ t.nextActivation = a.nextActivation + 1
              /\ t.tabs = rest /\ t.active = to /\ t.tab = to /\ ~t.visible
              /\ t.permit = TargetPermit(t.handoff, a.nextActivation, to)
      <3>1. /\ a.active \in Tab /\ a.handoff.represented = a.active
            /\ a.handoff.content \in {Neutral, a.active}
        BY <1>2, <2>7
      <3>. QED BY <2>3, <2>6, <2>7, <3>1, SwitchIs
    <2>9. /\ Differ(s, t, {"visible", "nextActivation", "handoff", "active", "tab", "permit",
                           "tabs", "closing", "loading"})
          /\ t.out = <<>> /\ t.closing = old /\ t.loading = loading
      BY <2>5, <2>8 DEF Differ, Fields
    <2>10. /\ t.handoff.pending = [id |-> s.nextActivation, from |-> s.active, to |-> t.active]
           /\ t.handoff.represented = t.active /\ t.tab = t.active
           /\ Gen(t) = Gen(s) + 1 /\ t.nextActivation = s.nextActivation + 1
           /\ t.permit = TargetPermit(t.handoff, s.nextActivation, t.active)
           /\ t.active \in s.materialized \ {s.active}
      BY <1>6, <2>2, <2>7, <2>8 DEF Gen
    <2>11. /\ Range(t.tabs) = Range(s.tabs) \ {s.active}
           /\ \A i, j \in 1 .. Len(t.tabs) : t.tabs[i] = t.tabs[j] => i = j
           /\ t.loading = [s.loading EXCEPT ![s.active] = 0]
      BY <2>3, <2>8, <2>9 DEF loading
    <2>12. /\ s.ready /\ s.creating = NotCreating /\ s.surface = 0 /\ ~Switching(s)
           /\ s.closing = NoTab
      BY <1>6 DEF Idle, Switching
    <2>13. Sound(t, q, f, r, x)
      BY <2>8, <2>9, <2>10, <2>11, <2>12, SwitchClosed
    <2>14. Shows(s, t)
      BY <2>8 DEF Shows
    <2>15. Good(s, DrawTarget(t), q, f, r, x)
      BY <2>9, <2>13, <2>14, DrawTargetGood
    <2>. QED BY <2>1, <2>8, <2>15
  <1>. QED BY <1>3, <1>4, <1>5, <1>6

\* The next tab, or the one before, is activated.
LEMMA CycleTabGood ==
    ASSUME Numbering, NEW s, NEW q, NEW f, NEW r, NEW x, Sound(s, q, f, r, x), s.out = <<>>,
           NEW step \in {1, Len(s.tabs) - 1}
    PROVE  Good(s, CycleTab(s, step), q, f, r, x)
  <1> DEFINE n == Len(s.tabs)
             k == Position(s, s.active)
             next == ((k - 1 + step) % n) + 1
  <1>1. s \in Shell /\ Strip(s) /\ Shows(s, s)
    BY DEF Sound, SoundButDrawn, SoundShell, Shows
  <1>2. CASE s.creating # NotCreating \/ ~(Range(s.tabs) \subseteq s.materialized) \/ n < 2
    <2>1. CycleTab(s, step) = s
      BY <1>2 DEF CycleTab
    <2>. QED BY <1>1, <2>1, SoundIsGood
  <1>3. CASE s.creating = NotCreating /\ Range(s.tabs) \subseteq s.materialized /\ ~(n < 2)
    <2>1. CycleTab(s, step) = Activate(s, s.tabs[next])
      BY <1>3 DEF CycleTab
    <2>2. n \in Nat /\ k \in 1 .. n
      BY <1>1, FallbackIs, TabsAre
    <2>3. next \in 1 .. n
      <3>1. n \in Nat /\ n > 0 /\ k - 1 + step \in Nat
        BY <1>3, <2>2
      <3> DEFINE m == k - 1 + step
      <3> HIDE DEF m, n
      <3>2. m % n \in 0 .. n - 1
        BY <3>1 DEF m
      <3>3. (m % n) + 1 \in 1 .. n
        BY <3>1, <3>2
      <3>. QED BY <3>3 DEF m
    <2> HIDE DEF next
    <2>4. s.tabs[next] \in Range(s.tabs)
      BY <1>1, <2>3, TabsAre
    <2>5. Good(s, Activate(s, s.tabs[next]), q, f, r, x)
      BY <1>1, <1>3, <2>4, ActivateGood
    <2>. QED BY <2>1, <2>5
  <1>. QED BY <1>2, <1>3

-----------------------------------------------------------------------------
(* The other callbacks.                                                    *)

\* The window has another size.
LEMMA ResizedGood ==
    ASSUME NEW s, NEW q, NEW f, NEW r, NEW x, Sound(s, q, f, r, x), s.out = <<>>
    PROVE  Good(s, Resized(s), q, f, r, x)
  <1>1. Shows(s, s)
    BY DEF Shows
  <1>2. Resized(s) \in {DirtyRedraw(s), [s EXCEPT !.dirty = TRUE]}
    BY DEF Resized
  <1>3. Good(s, DirtyRedraw(s), q, f, r, x) /\ Good(s, [s EXCEPT !.dirty = TRUE], q, f, r, x)
    BY <1>1, DirtyGood
  <1>. QED BY <1>2, <1>3

\* The window asks to be drawn.
LEMMA RedrawGood ==
    ASSUME Numbering, NEW s, NEW q, NEW f, NEW r, NEW x, Sound(s, q, f, r, x), s.out = <<>>
    PROVE  Good(s, Draw([s EXCEPT !.redraw = FALSE]), q, f, r, x)
  <1> DEFINE t == [s EXCEPT !.redraw = FALSE]
  <1>1. s \in Shell /\ Made(s) /\ Shows(s, s)
    BY SoundIs DEF Sound, Shows
  <1>2. /\ Made(t) /\ Differ(s, t, {"redraw"})
        /\ t.redraw = FALSE
    BY <1>1 DEF Made, Fields, Differ
  <1>3. t \in Shell
    <2>1. /\ t.redraw \in Types.redraw
      BY <1>2, TypesAre
    <2>2. {"redraw"} \subseteq Fields /\ \A field \in {"redraw"} : t[field] \in Types[field]
      BY <2>1 DEF Fields
    <2> HIDE DEF t
    <2>. QED BY <1>1, <1>2, <2>2, Retyped
  <1> HIDE DEF t
  <1>4. Differ(s, t, {"dirty", "redraw", "out"}) /\ t.out = <<>>
    BY <1>2 DEF Differ, Fields
  <1>5. Sound(t, q, f, r, x) /\ Shows(s, t)
    BY <1>1, <1>3, <1>4, Redrawn
  <1>6. Good(s, Draw(t), q, f, r, x)
    BY <1>4, <1>5, DrawGood
  <1>. QED BY <1>6 DEF t

\* The search for another profile begins and ends.
LEMMA SeekGood ==
    ASSUME NEW s, NEW q, NEW f, NEW r, NEW x, Sound(s, q, f, r, x), s.out = <<>>
    PROVE  /\ ~InTransition(s) /\ s.session < MaxSessions
              => Good(s, [s EXCEPT !.seeking = TRUE], q, f, r, x)
           /\ Good(s, [s EXCEPT !.seeking = FALSE], q, f, r, x)
  <1> DEFINE t == [s EXCEPT !.seeking = TRUE]
             u == [s EXCEPT !.seeking = FALSE]
  <1>1. s \in Shell /\ Made(s) /\ Shows(s, s) /\ s.nextActivation \in Nat
    BY SoundIs DEF Sound, Shows, Shell
  <1>2. /\ Made(t) /\ Differ(s, t, {"seeking"})
        /\ t.seeking = TRUE
    BY <1>1 DEF Made, Fields, Differ
  <1>3. t \in Shell
    <2>1. /\ t.seeking \in Types.seeking
      BY <1>2, TypesAre
    <2>2. {"seeking"} \subseteq Fields /\ \A field \in {"seeking"} : t[field] \in Types[field]
      BY <2>1 DEF Fields
    <2> HIDE DEF t
    <2>. QED BY <1>1, <1>2, <2>2, Retyped
  <1> HIDE DEF t
  <1>4. /\ Made(u) /\ Differ(s, u, {"seeking"})
        /\ u.seeking = FALSE
    BY <1>1 DEF Made, Fields, Differ
  <1>5. u \in Shell
    <2>1. /\ u.seeking \in Types.seeking
      BY <1>4, TypesAre
    <2>2. {"seeking"} \subseteq Fields /\ \A field \in {"seeking"} : u[field] \in Types[field]
      BY <2>1 DEF Fields
    <2> HIDE DEF u
    <2>. QED BY <1>1, <1>4, <2>2, Retyped
  <1> HIDE DEF u
  <1>6. ASSUME NEW w \in Shell, Differ(s, w, {"seeking"}),
                w.seeking => ~InTransition(s) /\ s.session < MaxSessions
        PROVE  Good(s, w, q, f, r, x)
    <2>1. /\ Differ(s, w, {"dirty", "redraw", "out", "nextActivation", "restoring", "seeking", "unlocking"})
          /\ w.restoring = s.restoring /\ w.unlocking = s.unlocking
          /\ w.nextActivation = s.nextActivation
          /\ w.session = s.session /\ w.active = s.active /\ w.visible = s.visible
          /\ w.out = <<>>
      BY <1>6 DEF Differ, Fields
    <2>2. /\ w.nextActivation >= s.nextActivation
          /\ w.seeking => s.reset = 0 /\ ~w.unlocking /\ s.session < MaxSessions
      BY <1>1, <1>6, <2>1 DEF InTransition
    <2>3. Sound(w, q, f, r, x)
      BY <2>1, <2>2, Unmoved
    <2>4. Shows(s, w)
      BY <1>1, <2>1, ShowsIs
    <2>. QED BY <2>1, <2>3, <2>4, SoundIsGood
  <1>7. Good(s, u, q, f, r, x)
    BY <1>4, <1>5, <1>6
  <1>8. ~InTransition(s) /\ s.session < MaxSessions => Good(s, t, q, f, r, x)
    BY <1>2, <1>3, <1>6
  <1>. QED BY <1>7, <1>8 DEF t, u

\* The lock of the profile that was replaced is released.
LEMMA UnlockedGood ==
    ASSUME Numbering, NEW s, NEW q, NEW f, NEW r, NEW x, Sound(s, q, f, r, x), s.out = <<>>
    PROVE  Good(s, Unlocked(s), q, f, r, x)
  <1> DEFINE t == [s EXCEPT !.unlocking = FALSE]
  <1>1. s \in Shell /\ Made(s) /\ Shows(s, s) /\ s.nextActivation \in Nat /\ Exclusive(s)
    BY SoundIs DEF Sound, Shows, Shell, SoundButDrawn, SoundShell
  <1>2. Unlocked(s) = IF MayReplay(t) THEN Replay(t)
                      ELSE IF t.dirty /\ ~InTransition(t) THEN Draw(t) ELSE t
    BY DEF Unlocked
  <1>3. /\ Made(t) /\ Differ(s, t, {"unlocking"})
        /\ t.unlocking = FALSE
    BY <1>1 DEF Made, Fields, Differ
  <1>4. t \in Shell
    <2>1. /\ t.unlocking \in Types.unlocking
      BY <1>3, TypesAre
    <2>2. {"unlocking"} \subseteq Fields /\ \A field \in {"unlocking"} : t[field] \in Types[field]
      BY <2>1 DEF Fields
    <2> HIDE DEF t
    <2>. QED BY <1>1, <1>3, <2>2, Retyped
  <1> HIDE DEF t
  <1>5. /\ Differ(s, t, {"dirty", "redraw", "out", "nextActivation", "restoring", "seeking", "unlocking"})
        /\ t.restoring = s.restoring /\ t.seeking = s.seeking
        /\ t.nextActivation = s.nextActivation
        /\ t.session = s.session /\ t.active = s.active /\ t.visible = s.visible
        /\ t.out = <<>>
    BY <1>3 DEF Differ, Fields
  <1>6. /\ t.nextActivation >= s.nextActivation
        /\ t.seeking => s.reset = 0 /\ ~t.unlocking /\ s.session < MaxSessions
    BY <1>1, <1>3, <1>5 DEF Exclusive
  <1>7. Sound(t, q, f, r, x) /\ Shows(s, t)
    BY <1>1, <1>4, <1>5, <1>6, Unmoved, ShowsIs
  <1>8. MayReplay(t) => Good(s, Replay(t), q, f, r, x)
    BY <1>7, ReplayGood
  <1>9. Good(s, Draw(t), q, f, r, x) /\ Good(s, t, q, f, r, x)
    BY <1>5, <1>7, DrawGood, SoundIsGood
  <1>. QED BY <1>2, <1>8, <1>9

\* A session that is installed has its types.
LEMMA InstallIs ==
    ASSUME NEW stored \in Stored, NEW s, Made(s)
    PROVE  LET t == Install(s, stored)
           IN  /\ Made(t) /\ AsInstalled(t) /\ Differ(s, t, Installed)
               /\ Installed \subseteq Fields
               /\ \A field \in Installed : t[field] \in Types[field]
  <1> DEFINE t == Install(s, stored)
  <1>1. AsInstalled(t) /\ DOMAIN t = Fields /\ Differ(s, t, Installed)
    BY Installing DEF Made
  <1>2. t = [field \in DOMAIN t |-> t[field]]
    BY ZenonT(40) DEF Install
  <1> HIDE DEF t
  <1>3. /\ t.tab \in Tab /\ t.active = t.tab /\ MaxTabs \in Nat \ {0}
    <2>1. t.tab \in 1 .. t.nextTab - 1 /\ t.nextTab \in 1 .. MaxTabs + 1 /\ t.active = t.tab
      BY <1>1 DEF AsInstalled
    <2>. QED BY <2>1, HandoffConstants DEF Tab
  <1>4. t.handoff \in Handoff
    BY <1>1, <1>3 DEF AsInstalled, NewHandoff, Handoff
  <1>5. /\ t.tabs \in Types.tabs /\ t.active \in Types.active /\ t.tab \in Types.tab
        /\ t.nextTab \in Types.nextTab /\ t.nextActivation \in Types.nextActivation
        /\ t.nextNavigation \in Types.nextNavigation
    BY <1>1, <1>3, TypesAre DEF AsInstalled
  <1>6. /\ t.loading \in Types.loading /\ t.remote \in Types.remote
        /\ t.initial \in Types.initial /\ t.restoring \in Types.restoring
        /\ t.handoff \in Types.handoff /\ t.materialized \in Types.materialized
    BY <1>1, <1>3, <1>4, TypesAre DEF AsInstalled
  <1>7. Installed \subseteq Fields /\ \A field \in Installed : t[field] \in Types[field]
    BY <1>5, <1>6 DEF Installed, Fields
  <1>. QED BY <1>1, <1>2, <1>7 DEF Made, t

\* The profile is replaced.
LEMMA ReplacedGood ==
    ASSUME Numbering, NEW s, NEW q, NEW f, NEW r, NEW x, Sound(s, q, f, r, x),
           s.seeking, Quiescent(s), NEW stored \in Stored
    PROVE  Good(s, Replaced(s, stored), q, f, r, x)
  <1> DEFINE id == NextRequest(s)
             m == Install(s, stored)
             none == [tab \in Tab |-> NoTarget]
             next == m.session + 1
             c == Reset(id, m.tab, m.handoff.generation)
             a == [m EXCEPT !.visible = FALSE, !.session = next, !.seeking = FALSE,
                            !.unlocking = TRUE, !.permit = NoPermit, !.recovery = NoPermit]
             b == [a EXCEPT !.creating = NotCreating, !.closing = NoTab, !.targets = none,
                            !.cancelling = NoTarget, !.frame = 0, !.surface = 0]
             t == [b EXCEPT !.reset = id, !.ready = FALSE, !.dirty = TRUE, !.out = <<c>>]
  <1>1. s \in Shell /\ ~s.down /\ Made(s) /\ Exclusive(s) /\ id \in Nat \ {0}
    BY SoundIs DEF Sound, SoundButDrawn, SoundShell, Numbering
  <1>2. /\ Made(m) /\ AsInstalled(m) /\ Differ(s, m, Installed) /\ m \in Shell
    <2>1. /\ Made(m) /\ AsInstalled(m) /\ Differ(s, m, Installed) /\ Installed \subseteq Fields
          /\ \A field \in Installed : m[field] \in Types[field]
      BY <1>1, InstallIs
    <2> HIDE DEF m
    <2>2. m \in Shell
      BY <1>1, <2>1, Retyped
    <2>. QED BY <2>1, <2>2
  <1>3. Replaced(s, stored) = t
    <2> DEFINE u == [Hide(m) EXCEPT
                 !.session = @ + 1, !.seeking = FALSE, !.unlocking = TRUE,
                 !.permit = NoPermit, !.recovery = NoPermit,
                 !.creating = NotCreating, !.closing = NoTab,
                 !.targets = [tab \in Tab |-> NoTarget],
                 !.cancelling = NoTarget, !.frame = 0, !.surface = 0,
                 !.reset = id, !.ready = FALSE, !.dirty = TRUE]
    <2>1. Replaced(s, stored) = Send(u, Reset(id, u.tab, u.handoff.generation))
      BY DEF Replaced
    <2> HIDE DEF m, id
    <2>2. u.tab = m.tab /\ u.handoff = m.handoff
      BY DEF Hide
    <2>3. Send(u, c) = t
      BY DEF Send, Hide
    <2>. QED BY <2>1, <2>2, <2>3
  <1> HIDE DEF id, m
  <1>4. next \in 1 .. MaxSessions /\ m.session = s.session /\ m.init = s.init /\ m.down = s.down
    <2>1. m.session = s.session /\ m.init = s.init /\ m.down = s.down
      BY <1>2 DEF Differ, Fields, Installed
    <2>2. s.session \in 1 .. MaxSessions /\ s.session < MaxSessions
      BY <1>1 DEF Shell, Exclusive
    <2>. QED BY <2>1, <2>2, ShellConstants
  <1>5. c \in Asked /\ c \in Command /\ c.kind = "reset" /\ c.id = id /\ c.tab = m.tab
        /\ c.generation = Gen(m) /\ none \in [Tab -> Target \cup {NoTarget}]
    <2>1. m.tab \in Tab /\ m.handoff.generation \in Nat
      BY <1>2 DEF Shell, Handoff
    <2>. QED BY <1>1, <2>1, AskedIs, IsCommand DEF Reset, Gen
  <1> HIDE DEF next, c, none
  <1>6. /\ Made(a) /\ Differ(m, a, {"visible", "session", "seeking", "unlocking", "permit", "recovery"})
        /\ a.visible = FALSE
        /\ a.session = next
        /\ a.seeking = FALSE
        /\ a.unlocking = TRUE
        /\ a.permit = NoPermit
        /\ a.recovery = NoPermit
    BY ZenonT(40), <1>2 DEF Made, Fields, Differ
  <1>7. a \in Shell
    <2>1. /\ a.visible \in Types.visible
         /\ a.session \in Types.session
         /\ a.seeking \in Types.seeking
         /\ a.unlocking \in Types.unlocking
         /\ a.permit \in Types.permit
         /\ a.recovery \in Types.recovery
      BY <1>6, <1>4, TypesAre
    <2>2. {"visible", "session", "seeking", "unlocking", "permit", "recovery"} \subseteq Fields /\ \A field \in {"visible", "session", "seeking", "unlocking", "permit", "recovery"} : a[field] \in Types[field]
      BY <2>1 DEF Fields
    <2> HIDE DEF a
    <2>. QED BY <1>2, <1>6, <2>2, Retyped
  <1> HIDE DEF a
  <1>8. /\ Made(b) /\ Differ(a, b, {"creating", "closing", "targets", "cancelling", "frame", "surface"})
        /\ b.creating = NotCreating
        /\ b.closing = NoTab
        /\ b.targets = none
        /\ b.cancelling = NoTarget
        /\ b.frame = 0
        /\ b.surface = 0
    BY ZenonT(40), <1>6, <1>7 DEF Made, Fields, Differ
  <1>9. b \in Shell
    <2>1. /\ b.creating \in Types.creating
         /\ b.closing \in Types.closing
         /\ b.targets \in Types.targets
         /\ b.cancelling \in Types.cancelling
         /\ b.frame \in Types.frame
         /\ b.surface \in Types.surface
      BY <1>8, <1>5, TypesAre DEF NotCreating, Requested
    <2>2. {"creating", "closing", "targets", "cancelling", "frame", "surface"} \subseteq Fields /\ \A field \in {"creating", "closing", "targets", "cancelling", "frame", "surface"} : b[field] \in Types[field]
      BY <2>1 DEF Fields
    <2> HIDE DEF b
    <2>. QED BY <1>6, <1>7, <1>8, <2>2, Retyped
  <1> HIDE DEF b
  <1>10. /\ Made(t) /\ Differ(b, t, {"reset", "ready", "dirty", "out"})
         /\ t.reset = id
         /\ t.ready = FALSE
         /\ t.dirty = TRUE
         /\ t.out = <<c>>
    BY ZenonT(40), <1>8, <1>9 DEF Made, Fields, Differ
  <1>11. t \in Shell
    <2>1. /\ t.reset \in Types.reset
         /\ t.ready \in Types.ready
         /\ t.dirty \in Types.dirty
         /\ t.out \in Types.out
      BY <1>10, <1>1, <1>5, TypesAre
    <2>2. {"reset", "ready", "dirty", "out"} \subseteq Fields /\ \A field \in {"reset", "ready", "dirty", "out"} : t[field] \in Types[field]
      BY <2>1 DEF Fields
    <2> HIDE DEF t
    <2>. QED BY <1>8, <1>9, <1>10, <2>2, Retyped
  <1> HIDE DEF t
  <1>12. AsInstalled(t) /\ t.tab = m.tab /\ Gen(t) = Gen(m)
    <2>1. /\ t.tabs = m.tabs /\ t.active = m.active /\ t.tab = m.tab /\ t.nextTab = m.nextTab
          /\ t.nextActivation = m.nextActivation /\ t.nextNavigation = m.nextNavigation
          /\ t.loading = m.loading /\ t.remote = m.remote /\ t.initial = m.initial
          /\ t.restoring = m.restoring /\ t.handoff = m.handoff
          /\ t.materialized = m.materialized
      BY <1>6, <1>8, <1>10 DEF Differ, Fields
    <2>. QED BY <1>2, <2>1 DEF AsInstalled, Gen
  <1>13. /\ ~t.down /\ t.init = s.init /\ t.session = s.session + 1 /\ ~t.seeking
         /\ ~t.visible /\ ~t.ready /\ t.reset = id /\ t.reset # 0
         /\ t.permit = NoPermit /\ t.recovery = NoPermit /\ t.creating = NotCreating
    BY <1>1, <1>4, <1>6, <1>8, <1>10 DEF Differ, Fields, next
  <1>14. /\ t.closing = NoTab /\ t.cancelling = NoTarget /\ t.frame = 0 /\ t.surface = 0
         /\ t.targets = [u \in Tab |-> NoTarget]
    BY <1>8, <1>10 DEF Differ, Fields, none
  <1>15. ASSUME NEW g, Add(q, c, g) PROVE Sound(t, g, f, r, x)
    <2>1. c \in Command /\ c.kind = "reset" /\ c.id = t.reset /\ c.tab = t.tab
          /\ c.generation = Gen(t) /\ Add(q, c, g)
      BY <1>5, <1>12, <1>13, <1>15
    <2>. QED BY <1>11, <1>12, <1>13, <1>14, <2>1, ResetAsked
  <1>16. Shows(s, t) /\ t.out = <<c>>
    BY <1>10, <1>13 DEF Shows
  <1>17. Good(s, t, q, f, r, x)
    BY <1>11, <1>13, <1>15, <1>16, SentIsGood
  <1>. QED BY <1>3, <1>17

-----------------------------------------------------------------------------
(* Answers.                                                                *)

\* The answer to be handled is to the first command of the pipe.
LEMMA HeadIs ==
    ASSUME NEW s, NEW p, NEW e, NEW q, NEW f, NEW r, NEW x, Sound(s, p, e, r, x),
           Pop(p, q), Pop(e, f)
    PROVE  /\ Pipes(p, e) /\ Matched(s, p) /\ SoundShell(s)
           /\ 1 \in 1 .. Len(p) /\ 1 \in 1 .. Len(e) /\ 1 <= Len(e)
           /\ Len(p) \in Nat /\ Len(e) \in Nat
           /\ p[1] \in Command /\ p[1].kind \in Kinds /\ e[1].result \in Results(p[1].kind)
           /\ s \in Shell /\ ~s.down /\ Made(s) /\ Shows(s, s)
           /\ Range(s.tabs) \subseteq Tab /\ s.tab \in Tab /\ s.active = s.tab
           /\ s.tab \in Range(s.tabs)
  <1>1. Pipes(p, e) /\ Matched(s, p) /\ SoundShell(s)
    BY DEF Sound, SoundButDrawn
  <1>2. /\ 1 \in 1 .. Len(p) /\ 1 \in 1 .. Len(e) /\ 1 <= Len(e)
        /\ Len(p) \in Nat /\ Len(e) \in Nat
        /\ p[1] \in Command /\ e[1].result \in Results(p[1].kind)
    BY <1>1, PopIs
  <1>3. p[1].kind \in Kinds
    BY <1>2, CommandIs
  <1>4. s \in Shell /\ ~s.down /\ Made(s) /\ Shows(s, s)
    BY SoundIs DEF Sound, Shows
  <1>5. Range(s.tabs) \subseteq Tab /\ s.tab \in Tab /\ s.active = s.tab /\ s.tab \in Range(s.tabs)
    BY <1>1, TabsAre DEF SoundShell
  <1>. QED BY <1>1, <1>2, <1>3, <1>4, <1>5

\* The engine is made, for a session that is perhaps gone.
LEMMA GpuReadyGood ==
    ASSUME NEW s, NEW p, NEW e, NEW q, NEW f, NEW r, NEW x, Sound(s, p, e, r, x),
           Pop(p, q), Pop(e, f), s.out = <<>>, p[1].kind = "spawn"
    PROVE  Good(s, GpuReady(s, p[1], e[1].result), q, f, r, x)
  <1> DEFINE w == e[1].result
             c == Attach(p[1].id, p[1].tab)
             t == [s EXCEPT !.out = <<c>>]
  <1>1. /\ s \in Shell /\ ~s.down /\ Made(s) /\ Shows(s, s) /\ Pipes(p, e) /\ Matched(s, p)
        /\ p[1] \in Command /\ w \in Results(p[1].kind) /\ p[1].kind \in Kinds
        /\ 1 \in 1 .. Len(p) /\ 1 <= Len(e)
    BY HeadIs
  <1>2. p[1].id = s.init /\ p[1].id \in Nat \ {0} /\ p[1].tab \in Tab
    <2>1. p[1].kind \in Starting /\ p[1].kind \in Starting \cup Working
      BY DEF Starting
    <2>2. p[1].id = s.init
      BY <1>1, <2>1, WaitedFor
    <2>3. p[1].id \in Nat \ {0} /\ p[1].tab \in Tab
      BY <1>1, <2>1, CommandIs
    <2>. QED BY <2>2, <2>3
  <1>3. CASE p[1].tab \notin Range(s.tabs)
    <2>1. GpuReady(s, p[1], w) = s
      BY <1>3 DEF GpuReady, Live
    <2>2. Sound(s, q, f, r, x)
      BY <1>3, SpawnDead
    <2>. QED BY <1>1, <2>1, <2>2, SoundIsGood
  <1>4. CASE p[1].tab \in Range(s.tabs) /\ w = "ok"
    <2>1. GpuReady(s, p[1], w) = t
      BY <1>2, <1>4 DEF GpuReady, Live, Send
    <2>2. c \in Asked /\ c \in Command /\ c.kind = "attach" /\ c.id = p[1].id /\ c.tab = p[1].tab
      BY <1>2, AskedIs, IsCommand DEF Attach
    <2> HIDE DEF c
    <2>3. /\ Made(t) /\ Differ(s, t, {"out"})
          /\ t.out = <<c>>
      BY <1>1 DEF Made, Fields, Differ
    <2>4. t \in Shell
      <3>1. /\ t.out \in Types.out
        BY <2>3, <2>2, TypesAre
      <3>2. {"out"} \subseteq Fields /\ \A field \in {"out"} : t[field] \in Types[field]
        BY <3>1 DEF Fields
      <3> HIDE DEF t
      <3>. QED BY <1>1, <2>3, <3>2, Retyped
    <2> HIDE DEF t
    <2>5. Differ(s, t, {"dirty", "redraw", "out"})
      BY <2>3 DEF Differ, Fields
    <2>6. ASSUME NEW g, Add(q, c, g) PROVE Sound(t, g, f, r, x)
      <3>1. c \in Command /\ Add(q, c, g)
        BY <2>2, <2>6
      <3>2. Sound(s, g, f, r, x)
        BY <2>2, <3>1, SpawnDone
      <3>. QED BY <2>4, <2>5, <3>2, Redrawn
    <2>7. ~t.down /\ t.session = s.session /\ t.active = s.active /\ t.visible = s.visible
      BY <1>1, <2>3 DEF Differ, Fields
    <2>8. Shows(s, t)
      BY <1>1, <2>7, ShowsIs
    <2>9. Good(s, t, q, f, r, x)
      BY <2>3, <2>4, <2>6, <2>7, <2>8, SentIsGood
    <2>. QED BY <2>1, <2>9
  <1>5. CASE p[1].tab \in Range(s.tabs) /\ w # "ok"
    <2>1. GpuReady(s, p[1], w) = Fail(s, Why(w))
      BY <1>2, <1>5 DEF GpuReady, Live
    <2>2. w # "refused"
      BY <1>1 DEF Sound, SoundButDrawn, InSession
    <2> HIDE DEF w
    <2>3. Why(w) \in Fatal \ {"protocol"}
      BY <1>1, <1>5, <2>2, WhyIs
    <2>4. Good(s, Fail(s, Why(w)), q, f, r, x)
      BY <1>1, <2>3, FailIsGood
    <2>. QED BY <2>1, <2>4 DEF w
  <1>. QED BY <1>3, <1>4, <1>5

\* The page the worker starts with is there.
LEMMA CommitIs ==
    ASSUME NEW s \in Shell, s.tab \in Tab
    PROVE  IF s.initial = 0 THEN s.loading \in [Tab -> Nat]
                            ELSE [s.loading EXCEPT ![s.tab] = 0] \in [Tab -> Nat]
  <1>1. s.loading \in [Tab -> Nat]
    BY DEF Shell
  <1>. QED BY <1>1

\* The worker has its surface, and a session to show.
LEMMA InitializedGood ==
    ASSUME NEW s, NEW p, NEW e, NEW q, NEW f, NEW r, NEW x, Sound(s, p, e, r, x),
           Pop(p, q), Pop(e, f), s.out = <<>>, p[1].kind = "attach"
    PROVE  Good(s, Initialized(s, p[1], e[1].result), q, f, r, x)
  <1> DEFINE w == e[1].result
             done == [s EXCEPT !.init = 0]
             loading == IF s.initial = 0 THEN s.loading ELSE [s.loading EXCEPT ![s.tab] = 0]
             t == [s EXCEPT !.init = 0, !.initial = 0, !.loading = loading,
                            !.ready = TRUE, !.dirty = TRUE]
  <1>1. /\ s \in Shell /\ ~s.down /\ Made(s) /\ Shows(s, s) /\ Pipes(p, e) /\ Matched(s, p)
        /\ p[1] \in Command /\ w \in Results(p[1].kind) /\ p[1].kind \in Kinds
        /\ 1 \in 1 .. Len(p) /\ 1 <= Len(e) /\ s.tab \in Tab /\ Len(p) \in Nat
    BY HeadIs
  <1>2. p[1].id = s.init /\ p[1].kind # "create"
    <2>1. p[1].kind \in Starting
      BY DEF Starting
    <2>. QED BY <1>1, <2>1, WaitedFor
  <1>3. /\ Made(done) /\ Differ(s, done, {"init"})
        /\ done.init = 0
    BY <1>1 DEF Made, Fields, Differ
  <1>4. done \in Shell
    <2>1. /\ done.init \in Types.init
      BY <1>3, TypesAre
    <2>2. {"init"} \subseteq Fields /\ \A field \in {"init"} : done[field] \in Types[field]
      BY <2>1 DEF Fields
    <2> HIDE DEF done
    <2>. QED BY <1>1, <1>3, <2>2, Retyped
  <1> HIDE DEF done
  <1>5. ~done.down /\ done.out = <<>> /\ done.session = s.session /\ done.active = s.active
        /\ done.visible = s.visible
    BY <1>1, <1>3 DEF Differ, Fields
  <1>6. CASE p[1].tab \notin Range(s.tabs)
    <2>1. Initialized(s, p[1], w) = done
      BY <1>2, <1>6 DEF Initialized, Live, done
    <2>2. Differ(s, done, {"init"}) /\ done.init = 0
      BY <1>3
    <2>3. Sound(done, q, f, r, x)
      BY <1>4, <2>2, AttachDead
    <2>4. Shows(s, done)
      BY <1>1, <1>5, ShowsIs
    <2>. QED BY <1>5, <2>1, <2>3, <2>4, SoundIsGood
  <1>7. CASE p[1].tab \in Range(s.tabs) /\ w # "ok"
    <2>1. Initialized(s, p[1], w) = Fail(done, Why(w))
      BY <1>2, <1>7 DEF Initialized, Live, done
    <2>2. w # "refused"
      <3>1. ~After(p, "reset", 1)
        BY <1>1 DEF After
      <3>. QED BY <1>1, <3>1 DEF Sound, SoundButDrawn, InSession
    <2> HIDE DEF w
    <2>3. Why(w) \in Fatal \ {"protocol"}
      BY <1>1, <1>7, <2>2, WhyIs
    <2>4. Good(s, Fail(done, Why(w)), q, f, r, x)
      BY <1>4, <1>5, <2>3, FailIsGood
    <2>. QED BY <2>1, <2>4 DEF w
  <1>8. CASE p[1].tab \in Range(s.tabs) /\ w = "ok"
    <2>1. Initialized(s, p[1], w) = IF MayReplay(t) THEN Replay(t) ELSE RequestRedraw(t)
      <3>1. [CommitInitial([s EXCEPT !.init = 0]) EXCEPT !.ready = TRUE, !.dirty = TRUE] = t
        BY <1>1 DEF CommitInitial, Made, Fields
      <3> HIDE DEF t
      <3>. QED BY <1>2, <1>8, <3>1 DEF Initialized, Live
    <2>2. loading \in [Tab -> Nat]
      BY <1>1, CommitIs
    <2> HIDE DEF loading
    <2>3. s \in Shell /\ Made(s)
      BY <1>1
    <2>4. /\ Made(t) /\ Differ(s, t, {"init", "initial", "loading", "ready", "dirty"})
          /\ t.init = 0
          /\ t.initial = 0
          /\ t.loading = loading
          /\ t.ready = TRUE
          /\ t.dirty = TRUE
      BY ZenonT(40), <2>3 DEF Made, Fields, Differ
    <2>5. t \in Shell
      <3>1. /\ t.init \in Types.init
           /\ t.initial \in Types.initial
           /\ t.loading \in Types.loading
           /\ t.ready \in Types.ready
           /\ t.dirty \in Types.dirty
        BY <2>4, <2>2, TypesAre
      <3>2. {"init", "initial", "loading", "ready", "dirty"} \subseteq Fields /\ \A field \in {"init", "initial", "loading", "ready", "dirty"} : t[field] \in Types[field]
        BY <3>1 DEF Fields
      <3> HIDE DEF t
      <3>. QED BY <2>3, <2>4, <3>2, Retyped
    <2> HIDE DEF t
    <2>6. /\ Differ(s, t, {"init", "initial", "loading", "ready", "dirty"})
          /\ t.init = 0 /\ t.initial = 0 /\ t.ready
          /\ t.loading = IF s.initial = 0 THEN s.loading ELSE [s.loading EXCEPT ![s.tab] = 0]
      BY <2>4 DEF loading
    <2>7. Sound(t, q, f, r, x)
      BY <1>8, <2>5, <2>6, AttachDone
    <2>8. t.out = <<>> /\ t.session = s.session /\ t.active = s.active /\ t.visible = s.visible
      BY <2>4 DEF Differ, Fields
    <2>9. Shows(s, t)
      BY <1>1, <2>8, ShowsIs
    <2>10. Good(s, RequestRedraw(t), q, f, r, x)
      BY <2>7, <2>8, <2>9, DirtyGood
    <2>11. MayReplay(t) => Good(s, Replay(t), q, f, r, x)
      BY <2>7, <2>9, ReplayGood
    <2>. QED BY <2>1, <2>10, <2>11
  <1>. QED BY <1>6, <1>7, <1>8

\* The new tab has its view, and is activated.
LEMMA ViewCreatedGood ==
    ASSUME Numbering, NEW s, NEW p, NEW e, NEW q, NEW f, NEW r, NEW x, Sound(s, p, e, r, x),
           Pop(p, q), Pop(e, f), s.out = <<>>, p[1].kind = "create"
    PROVE  Good(s, ViewCreated(s, p[1], e[1].result), q, f, r, x)
  <1> DEFINE w == e[1].result
             tab == p[1].tab
             done == [s EXCEPT !.creating = NotCreating]
             loading == [s.loading EXCEPT ![tab] = 0]
             views == s.materialized \cup {tab}
             t == [s EXCEPT !.creating = NotCreating, !.loading = loading, !.materialized = views]
  <1>1. /\ s \in Shell /\ ~s.down /\ Made(s) /\ Shows(s, s) /\ Pipes(p, e) /\ Matched(s, p)
        /\ p[1] \in Command /\ w \in Results(p[1].kind) /\ p[1].kind \in Kinds
        /\ 1 \in 1 .. Len(p) /\ 1 \in 1 .. Len(e) /\ Range(s.tabs) \subseteq Tab
        /\ Strip(s) /\ Loading(s)
    BY HeadIs DEF SoundShell
  <1>2. /\ s \in Shell /\ Made(s)
    BY <1>1
  <1>3. /\ s.creating # NotCreating /\ p[1].id = s.creating.id /\ tab = s.creating.tab
    BY <1>1, WaitedFor
  <1>4. /\ tab \in Range(s.tabs) /\ tab \in Tab
        /\ s.loading[tab] = s.creating.navigation
    BY <1>1, <1>3 DEF Strip, Loading
  <1>5. w # "refused"
    BY <1>1 DEF Sound, SoundButDrawn, Views
  <1>6. /\ Made(done) /\ Differ(s, done, {"creating"})
        /\ done.creating = NotCreating
    BY <1>2 DEF Made, Fields, Differ
  <1>7. done \in Shell
    <2>1. /\ done.creating \in Types.creating
      BY <1>6, TypesAre DEF NotCreating, Requested
    <2>2. {"creating"} \subseteq Fields /\ \A field \in {"creating"} : done[field] \in Types[field]
      BY <2>1 DEF Fields
    <2> HIDE DEF done
    <2>. QED BY <1>2, <1>6, <2>2, Retyped
  <1> HIDE DEF done
  <1>8. ~done.down
    BY <1>1, <1>6 DEF Differ, Fields
  <1>9. CASE w # "ok"
    <2>1. ViewCreated(s, p[1], w) = Fail(done, Why(w))
      BY <1>3, <1>4, <1>9 DEF ViewCreated, Live, done
    <2> HIDE DEF w
    <2>2. Why(w) \in Fatal \ {"protocol"}
      BY <1>1, <1>5, <1>9, WhyIs
    <2>3. Good(s, Fail(done, Why(w)), q, f, r, x)
      BY <1>7, <1>8, <2>2, FailIsGood
    <2>. QED BY <2>1, <2>3 DEF w
  <1>10. CASE w = "ok"
    <2>1. ViewCreated(s, p[1], w) = Activate(t, tab)
      <3>1. [[s EXCEPT !.creating = NotCreating] EXCEPT
                !.loading[tab] = 0, !.materialized = @ \cup {tab}] = t
        BY <1>1 DEF Made, Fields
      <3> HIDE DEF t
      <3>. QED BY <1>3, <1>4, <1>10, <3>1 DEF ViewCreated, Live
    <2>2. loading \in [Tab -> Nat] /\ views \in SUBSET Tab
      BY <1>1, <1>4 DEF Shell
    <2> HIDE DEF loading, views, tab
    <2>3. /\ Made(t) /\ Differ(s, t, {"creating", "loading", "materialized"})
          /\ t.creating = NotCreating
          /\ t.loading = loading
          /\ t.materialized = views
      BY ZenonT(40), <1>2 DEF Made, Fields, Differ
    <2>4. t \in Shell
      <3>1. /\ t.creating \in Types.creating
           /\ t.loading \in Types.loading
           /\ t.materialized \in Types.materialized
        BY <2>3, <2>2, TypesAre DEF NotCreating, Requested
      <3>2. {"creating", "loading", "materialized"} \subseteq Fields /\ \A field \in {"creating", "loading", "materialized"} : t[field] \in Types[field]
        BY <3>1 DEF Fields
      <3> HIDE DEF t
      <3>. QED BY <1>2, <2>3, <3>2, Retyped
    <2> HIDE DEF t
    <2>5. /\ Differ(s, t, {"creating", "loading", "materialized"})
          /\ t.creating = NotCreating /\ t.materialized = s.materialized \cup {p[1].tab}
          /\ t.loading = [s.loading EXCEPT ![p[1].tab] = 0]
      BY <2>3 DEF loading, views, tab
    <2>6. e[1].result = "ok"
      BY <1>10
    <2>7. Sound(t, q, f, r, x)
      BY <2>4, <2>5, <2>6, CreateDone
    <2>8. /\ t.out = <<>> /\ t.session = s.session /\ t.active = s.active
          /\ t.visible = s.visible /\ tab \in Range(t.tabs)
      BY <1>4, <2>3 DEF Differ, Fields
    <2>9. Shows(s, t)
      BY <1>1, <2>8, ShowsIs
    <2>10. Good(s, Activate(t, tab), q, f, r, x)
      BY <2>3, <2>7, <2>8, <2>9, ActivateGood
    <2>. QED BY <2>1, <2>10
  <1>. QED BY <1>9, <1>10

\* The view of the tab that was closed is retired.
LEMMA ViewClosedGood ==
    ASSUME NEW s, NEW p, NEW e, NEW q, NEW f, NEW r, NEW x, Sound(s, p, e, r, x),
           Pop(p, q), Pop(e, f), s.out = <<>>, p[1].kind = "close"
    PROVE  Good(s, ViewClosed(s, p[1], e[1].result), q, f, r, x)
  <1> DEFINE w == e[1].result
             tab == p[1].tab
             targets == [s.targets EXCEPT ![tab] = NoTarget]
             views == s.materialized \ {tab}
             done == [s EXCEPT !.closing = NoTab, !.targets = targets, !.materialized = views]
             t == [done EXCEPT !.visible = TRUE]
  <1>1. /\ s \in Shell /\ ~s.down /\ Made(s) /\ Shows(s, s) /\ Pipes(p, e) /\ Matched(s, p)
        /\ p[1] \in Command /\ w \in Results(p[1].kind) /\ p[1].kind \in Kinds
        /\ 1 \in 1 .. Len(p) /\ 1 \in 1 .. Len(e) /\ Exclusive(s)
    BY HeadIs DEF SoundShell
  <1>2. /\ s \in Shell /\ Made(s)
    BY <1>1
  <1>3. s.closing # NoTab /\ tab = s.closing
    BY <1>1, WaitedFor
  <1>4. tab \in Tab /\ s.reset = 0
    BY <1>1, <1>3 DEF Shell, Exclusive
  <1>5. w # "refused"
    BY <1>1 DEF Sound, SoundButDrawn, Views
  <1>6. CASE w # "ok"
    <2>1. ViewClosed(s, p[1], w) = Fail(s, Why(w))
      BY <1>3, <1>6 DEF ViewClosed
    <2> HIDE DEF w
    <2>2. Why(w) \in Fatal \ {"protocol"}
      BY <1>1, <1>5, <1>6, WhyIs
    <2>3. Good(s, Fail(s, Why(w)), q, f, r, x)
      BY <1>1, <2>2, FailIsGood
    <2>. QED BY <2>1, <2>3 DEF w
  <1>7. CASE w = "ok"
    <2>1. ViewClosed(s, p[1], w) = IF Settled(done) THEN Show(done) ELSE done
      <3>1. [s EXCEPT !.closing = NoTab, !.targets[tab] = NoTarget,
                      !.materialized = @ \ {tab}] = done
        BY <1>1 DEF Made, Fields
      <3> HIDE DEF done
      <3>. QED BY <1>3, <1>7, <3>1 DEF ViewClosed
    <2>2. targets \in [Tab -> Target \cup {NoTarget}] /\ views \in SUBSET Tab
      BY <1>1, <1>4 DEF Shell
    <2> HIDE DEF targets, views, tab
    <2>3. /\ Made(done) /\ Differ(s, done, {"closing", "targets", "materialized"})
          /\ done.closing = NoTab
          /\ done.targets = targets
          /\ done.materialized = views
      BY ZenonT(40), <1>2 DEF Made, Fields, Differ
    <2>4. done \in Shell
      <3>1. /\ done.closing \in Types.closing
           /\ done.targets \in Types.targets
           /\ done.materialized \in Types.materialized
        BY <2>3, <2>2, TypesAre
      <3>2. {"closing", "targets", "materialized"} \subseteq Fields /\ \A field \in {"closing", "targets", "materialized"} : done[field] \in Types[field]
        BY <3>1 DEF Fields
      <3> HIDE DEF done
      <3>. QED BY <1>2, <2>3, <3>2, Retyped
    <2> HIDE DEF done
    <2>5. /\ Differ(s, done, {"closing", "targets", "materialized"})
          /\ done.closing = NoTab /\ done.materialized = s.materialized \ {p[1].tab}
          /\ done.targets = [s.targets EXCEPT ![p[1].tab] = NoTarget]
      BY <2>3 DEF targets, views, tab
    <2>6. e[1].result # "refused"
      BY <1>5
    <2>7. Sound(done, q, f, r, x)
      BY <2>4, <2>5, <2>6, CloseDone
    <2>8. /\ done.out = <<>> /\ done.session = s.session /\ done.active = s.active
          /\ done.visible = s.visible /\ done.handoff = s.handoff /\ done.reset = s.reset
      BY <2>3 DEF Differ, Fields
    <2>9. Shows(s, done)
      BY <1>1, <2>8, ShowsIs
    <2>10. Good(s, done, q, f, r, x)
      BY <2>7, <2>8, <2>9, SoundIsGood
    <2>11. CASE Settled(done)
      <3>1. ~Switching(s)
        BY <2>8, <2>11 DEF Settled, Switching
      <3>2. ~Switching(done) /\ done.reset = 0 /\ Seen(done) = Seen(s)
        BY <1>4, <2>8, <3>1 DEF Switching, Seen
      <3>3. x = Seen(s)
        BY <1>3, <3>1 DEF Sound, SoundButDrawn, Painted
      <3>4. done \in Shell /\ Made(done)
        BY <2>3, <2>4
      <3>5. /\ Made(t) /\ Differ(done, t, {"visible"})
            /\ t.visible = TRUE
        BY <3>4 DEF Made, Fields, Differ
      <3>6. t \in Shell
        <4>1. /\ t.visible \in Types.visible
          BY <3>5, TypesAre
        <4>2. {"visible"} \subseteq Fields /\ \A field \in {"visible"} : t[field] \in Types[field]
          BY <4>1 DEF Fields
        <4> HIDE DEF t
        <4>. QED BY <3>4, <3>5, <4>2, Retyped
      <3> HIDE DEF t
      <3>7. Differ(done, t, {"visible"}) /\ x \in {NoPage, Seen(done)}
        BY <3>2, <3>3, <3>5
      <3>8. Sound(t, q, f, r, x)
        BY <2>7, <3>2, <3>6, <3>7, ShowIs
      <3>9. t.out = <<>> /\ t.session = s.session /\ t.active = s.active
        BY <2>8, <3>5 DEF Differ, Fields
      <3>10. Shows(s, t)
        BY <3>9 DEF Shows, Seen
      <3>11. Good(s, t, q, f, r, x)
        BY <3>8, <3>9, <3>10, SoundIsGood
      <3>. QED BY <2>1, <2>11, <3>11 DEF Show, t
    <2>12. CASE ~Settled(done)
      BY <2>1, <2>10, <2>12
    <2>. QED BY <2>11, <2>12
  <1>. QED BY <1>6, <1>7

\* A target that is the shell's is shown as loading.
LEMMA TargetIs ==
    ASSUME NEW s \in Shell, Loading(s), NEW target \in Target
    PROVE  /\ target # NoTarget /\ target.tab \in Tab /\ target.navigation # 0
           /\ CurrentTarget(s, target)
              <=> s.targets[target.tab] = target /\ target.tab \in Range(s.tabs)
  <1>1. target # NoTarget /\ target.tab \in Tab /\ target.navigation # 0
    BY DEF Target, NoTarget, Tab, NoTab
  <1>2. ASSUME s.targets[target.tab] = target, target.tab \in Range(s.tabs)
        PROVE  s.loading[target.tab] = target.navigation
    BY <1>1, <1>2 DEF Loading
  <1>. QED BY <1>1, <1>2 DEF CurrentTarget, Live

\* A navigation has ended.
LEMMA NavigationFinishedGood ==
    ASSUME NEW s, NEW p, NEW e, NEW q, NEW f, NEW r, NEW x, Sound(s, p, e, r, x),
           Pop(p, q), Pop(e, f), s.out = <<>>, p[1].kind = "navigate"
    PROVE  Good(s, NavigationFinished(s, p[1], e[1].result), q, f, r, x)
  <1> DEFINE w == e[1].result
             target == p[1].target
             loading == [s.loading EXCEPT ![target.tab] = 0]
             targets == [s.targets EXCEPT ![target.tab] = NoTarget]
             gone == [s EXCEPT !.targets = targets]
             t == [s EXCEPT !.loading = loading, !.targets = targets, !.dirty = TRUE, !.redraw = TRUE]
  <1>1. /\ s \in Shell /\ ~s.down /\ Made(s) /\ Shows(s, s) /\ Pipes(p, e) /\ Matched(s, p)
        /\ p[1] \in Command /\ w \in Results(p[1].kind) /\ p[1].kind \in Kinds
        /\ 1 \in 1 .. Len(p) /\ 1 \in 1 .. Len(e) /\ Loading(s)
    BY HeadIs DEF SoundShell
  <1>2. /\ s \in Shell /\ Made(s)
    BY <1>1
  <1>3. target \in Target
    BY <1>1, CommandIs
  <1>4. w # "refused"
    BY <1>1 DEF Sound, SoundButDrawn, Ordered
  <1>5. /\ target # NoTarget /\ target.tab \in Tab
        /\ CurrentTarget(s, target)
           <=> s.targets[target.tab] = target /\ target.tab \in Range(s.tabs)
    BY <1>1, <1>3, TargetIs
  <1>6. loading \in [Tab -> Nat] /\ targets \in [Tab -> Target \cup {NoTarget}]
    BY <1>1, <1>5 DEF Shell
  <1>7. CASE w \notin {"ok", "unreachable", "stale"}
    <2>1. NavigationFinished(s, p[1], w) = Fail(s, Why(w))
      BY <1>7 DEF NavigationFinished
    <2> HIDE DEF w
    <2>2. Why(w) \in Fatal \ {"protocol"}
      BY <1>1, <1>4, <1>7, WhyIs
    <2>3. Good(s, Fail(s, Why(w)), q, f, r, x)
      BY <1>1, <2>2, FailIsGood
    <2>. QED BY <2>1, <2>3 DEF w
  <1>8. CASE w \in {"ok", "unreachable", "stale"} /\ s.targets[target.tab] # target
    <2>1. NavigationFinished(s, p[1], w) = s
      BY <1>5, <1>8 DEF NavigationFinished, ForgetTarget
    <2>2. Sound(s, q, f, r, x)
      BY <1>8, NavigationIgnored
    <2>. QED BY <1>1, <2>1, <2>2, SoundIsGood
  <1>9. CASE /\ w \in {"ok", "unreachable", "stale"} /\ s.targets[target.tab] = target
             /\ target.tab \notin Range(s.tabs)
    <2>1. NavigationFinished(s, p[1], w) = gone
      <3>1. [s EXCEPT !.targets[target.tab] = NoTarget] = gone
        BY <1>1 DEF Made, Fields
      <3> HIDE DEF gone
      <3>. QED BY <1>5, <1>9, <3>1 DEF NavigationFinished, ForgetTarget
    <2> HIDE DEF targets
    <2>2. /\ Made(gone) /\ Differ(s, gone, {"targets"})
          /\ gone.targets = targets
      BY <1>2 DEF Made, Fields, Differ
    <2>3. gone \in Shell
      <3>1. /\ gone.targets \in Types.targets
        BY <2>2, <1>6, TypesAre
      <3>2. {"targets"} \subseteq Fields /\ \A field \in {"targets"} : gone[field] \in Types[field]
        BY <3>1 DEF Fields
      <3> HIDE DEF gone
      <3>. QED BY <1>2, <2>2, <3>2, Retyped
    <2> HIDE DEF gone
    <2>4. /\ Differ(s, gone, {"targets"})
          /\ gone.targets = [s.targets EXCEPT ![p[1].target.tab] = NoTarget]
          /\ s.targets[p[1].target.tab] = p[1].target /\ p[1].target.tab \notin Range(s.tabs)
      BY <1>9, <2>2 DEF targets
    <2>5. Sound(gone, q, f, r, x)
      BY <2>3, <2>4, NavigationForgotten
    <2>6. /\ gone.out = <<>> /\ gone.session = s.session /\ gone.active = s.active
          /\ gone.visible = s.visible
      BY <2>2 DEF Differ, Fields
    <2>7. Shows(s, gone)
      BY <1>1, <2>6, ShowsIs
    <2>8. Good(s, gone, q, f, r, x)
      BY <2>5, <2>6, <2>7, SoundIsGood
    <2>. QED BY <2>1, <2>8
  <1>10. CASE w = "stale" /\ CurrentTarget(s, target)
    <2>1. NavigationFinished(s, p[1], w) = Fail(s, "fault")
      BY <1>10 DEF NavigationFinished
    <2>2. Good(s, Fail(s, "fault"), q, f, r, x)
      BY <1>1, FailIsGood DEF Fatal
    <2>. QED BY <2>1, <2>2
  <1>11. CASE /\ w \in {"ok", "unreachable"} /\ s.targets[target.tab] = target
              /\ target.tab \in Range(s.tabs)
    <2>1. NavigationFinished(s, p[1], w) = t
      <3>1. DirtyRedraw([[s EXCEPT !.loading[target.tab] = 0] EXCEPT !.targets[target.tab] = NoTarget]) = t
        BY <1>1 DEF Made, Fields, DirtyRedraw
      <3>2. [s EXCEPT !.loading[target.tab] = 0].targets[target.tab] = target
        BY <1>1, <1>11 DEF Made, Fields
      <3>3. DirtyRedraw(ForgetTarget([s EXCEPT !.loading[target.tab] = 0], target)) = t
        BY <3>1, <3>2 DEF ForgetTarget
      <3> HIDE DEF t
      <3>. QED BY <1>5, <1>11, <3>3 DEF NavigationFinished
    <2> HIDE DEF loading, targets
    <2>2. /\ Made(t) /\ Differ(s, t, {"loading", "targets", "dirty", "redraw"})
          /\ t.loading = loading
          /\ t.targets = targets
          /\ t.dirty = TRUE
          /\ t.redraw = TRUE
      BY ZenonT(40), <1>2 DEF Made, Fields, Differ
    <2>3. t \in Shell
      <3>1. /\ t.loading \in Types.loading
           /\ t.targets \in Types.targets
           /\ t.dirty \in Types.dirty
           /\ t.redraw \in Types.redraw
        BY <2>2, <1>6, TypesAre
      <3>2. {"loading", "targets", "dirty", "redraw"} \subseteq Fields /\ \A field \in {"loading", "targets", "dirty", "redraw"} : t[field] \in Types[field]
        BY <3>1 DEF Fields
      <3> HIDE DEF t
      <3>. QED BY <1>2, <2>2, <3>2, Retyped
    <2> HIDE DEF t
    <2>4. /\ Differ(s, t, {"loading", "targets", "dirty", "redraw"})
          /\ t.loading = [s.loading EXCEPT ![p[1].target.tab] = 0]
          /\ t.targets = [s.targets EXCEPT ![p[1].target.tab] = NoTarget]
          /\ s.targets[p[1].target.tab] = p[1].target /\ p[1].target.tab \in Range(s.tabs)
      BY <1>11, <2>2 DEF targets, loading
    <2>5. Sound(t, q, f, r, x)
      BY <2>3, <2>4, NavigationDone
    <2>6. t.out = <<>> /\ t.session = s.session /\ t.active = s.active /\ t.visible = s.visible
      BY <2>2 DEF Differ, Fields
    <2>7. Shows(s, t)
      BY <1>1, <2>6, ShowsIs
    <2>8. Good(s, t, q, f, r, x)
      BY <2>5, <2>6, <2>7, SoundIsGood
    <2>. QED BY <2>1, <2>8
  <1>. QED BY <1>5, <1>7, <1>8, <1>9, <1>10, <1>11

\* A stop of a navigation that is still to end did not come too late.
LEMMA StopIsTimely ==
    ASSUME NEW s, NEW p, NEW e, NEW r, NEW x, Sound(s, p, e, r, x), 1 \in 1 .. Len(p),
           1 \in 1 .. Len(e), p[1].kind = "cancel", p[1].target \in Target,
           s.targets[p[1].target.tab] = p[1].target, p[1].target.tab \in Range(s.tabs)
    PROVE  e[1].result # "no"
  <1>1. /\ Pipes(p, e) /\ Matched(s, p) /\ Ordered(p, e, r) /\ Stopped(p, e, r)
        /\ Answered(s, p, e, r)
    BY DEF Sound, SoundButDrawn
  <1>2. p[1].target # NoTarget
    BY DEF Target, NoTarget, Tab, NoTab
  <1>3. Carried(p, e, r, p[1].target)
    BY <1>1, <1>2 DEF Answered
  <1>4. r.pending[p[1].target.tab] # p[1].target
    BY <1>1 DEF Stopped
  <1>5. ASSUME NEW i \in 1 .. Len(p), p[i].kind = "navigate", p[i].target = p[1].target
        PROVE  FALSE
    <2>1. i < 1
      BY <1>1, <1>5 DEF Ordered
    <2>. QED BY <1>1, <2>1 DEF Pipes
  <1>6. ASSUME NEW i \in 1 .. Len(e), p[i].kind = "cancel", e[i].result # "no"
        PROVE  e[1].result # "no"
    <2>1. i \in 1 .. Len(p)
      BY <1>1 DEF Pipes
    <2>2. i = 1
      BY <1>1, <1>6, <2>1 DEF Matched, Alike
    <2>. QED BY <1>6, <2>2
  <1>. QED BY <1>3, <1>4, <1>5, <1>6 DEF Carried

\* The navigation of the active tab is stopped, or has ended by itself.
LEMMA NavigationCancelledGood ==
    ASSUME NEW s, NEW p, NEW e, NEW q, NEW f, NEW r, NEW x, Sound(s, p, e, r, x),
           Pop(p, q), Pop(e, f), s.out = <<>>, p[1].kind = "cancel"
    PROVE  Good(s, NavigationCancelled(s, p[1], e[1].result), q, f, r, x)
  <1> DEFINE w == e[1].result
             target == p[1].target
             loading == [s.loading EXCEPT ![target.tab] = 0]
             targets == [s.targets EXCEPT ![target.tab] = NoTarget]
             done == [s EXCEPT !.cancelling = NoTarget]
             t == [s EXCEPT !.loading = loading, !.targets = targets, !.cancelling = NoTarget]
  <1>1. /\ s \in Shell /\ ~s.down /\ Made(s) /\ Shows(s, s) /\ Pipes(p, e) /\ Matched(s, p)
        /\ p[1] \in Command /\ w \in Results(p[1].kind) /\ p[1].kind \in Kinds
        /\ 1 \in 1 .. Len(p) /\ 1 \in 1 .. Len(e) /\ Loading(s)
        /\ s.active \in Range(s.tabs)
    BY HeadIs DEF SoundShell
  <1>2. /\ s \in Shell /\ Made(s)
    BY <1>1
  <1>3. target \in Target /\ target = s.cancelling
    <2>1. target \in Target
      BY <1>1, CommandIs
    <2>2. target = s.cancelling
      BY <1>1, WaitedFor
    <2>. QED BY <2>1, <2>2
  <1>4. w # "refused"
    BY <1>1 DEF Sound, SoundButDrawn, Stopped
  <1>5. /\ target # NoTarget /\ target.tab \in Tab /\ target.navigation # 0
        /\ CurrentTarget(s, target)
           <=> s.targets[target.tab] = target /\ target.tab \in Range(s.tabs)
    BY <1>1, <1>3, TargetIs
  <1>6. loading \in [Tab -> Nat] /\ targets \in [Tab -> Target \cup {NoTarget}]
    BY <1>1, <1>5 DEF Shell
  <1>7. /\ Made(done) /\ Differ(s, done, {"cancelling"})
        /\ done.cancelling = NoTarget
    BY <1>2 DEF Made, Fields, Differ
  <1>8. done \in Shell
    <2>1. /\ done.cancelling \in Types.cancelling
      BY <1>7, TypesAre
    <2>2. {"cancelling"} \subseteq Fields /\ \A field \in {"cancelling"} : done[field] \in Types[field]
      BY <2>1 DEF Fields
    <2> HIDE DEF done
    <2>. QED BY <1>2, <1>7, <2>2, Retyped
  <1> HIDE DEF done
  <1>9. ~done.down /\ done.out = <<>> /\ done.session = s.session /\ done.active = s.active
        /\ done.visible = s.visible
    BY <1>1, <1>7 DEF Differ, Fields
  <1>10. CASE w \notin {"ok", "no"}
    <2>1. NavigationCancelled(s, p[1], w) = Fail(done, Why(w))
      BY <1>3, <1>10 DEF NavigationCancelled, done
    <2> HIDE DEF w
    <2>2. Why(w) \in Fatal \ {"protocol"}
      BY <1>1, <1>4, <1>10, WhyIs
    <2>3. Good(s, Fail(done, Why(w)), q, f, r, x)
      BY <1>8, <1>9, <2>2, FailIsGood
    <2>. QED BY <2>1, <2>3 DEF w
  <1>11. CASE w \in {"ok", "no"} /\ ~CurrentTarget(s, target)
    <2>1. NavigationCancelled(s, p[1], w) = done
      BY <1>3, <1>11 DEF NavigationCancelled, done
    <2>2. /\ Differ(s, done, {"cancelling"}) /\ done.cancelling = NoTarget
          /\ \/ s.targets[p[1].target.tab] # p[1].target
             \/ p[1].target.tab \notin Range(s.tabs)
      BY <1>5, <1>7, <1>11
    <2>3. Sound(done, q, f, r, x)
      BY <1>8, <2>2, StopIgnored
    <2>4. Shows(s, done)
      BY <1>1, <1>9, ShowsIs
    <2>. QED BY <1>9, <2>1, <2>3, <2>4, SoundIsGood
  <1>12. CASE w \in {"ok", "no"} /\ CurrentTarget(s, target)
    <2>1. s.targets[p[1].target.tab] = p[1].target /\ p[1].target.tab \in Range(s.tabs)
      BY <1>5, <1>12
    <2>2. e[1].result # "no" /\ w = "ok"
      BY <1>1, <1>3, <1>12, <2>1, StopIsTimely
    <2>3. CASE s.loading[s.active] # target.navigation
      <3>1. NavigationCancelled(s, p[1], w) = Fail(done, "otherTab")
        BY <1>3, <1>12, <2>2, <2>3 DEF NavigationCancelled, done
      <3>2. Good(s, Fail(done, "otherTab"), q, f, r, x)
        BY <1>8, <1>9, FailIsGood DEF Fatal
      <3>. QED BY <3>1, <3>2
    <2>4. CASE s.loading[s.active] = target.navigation
      <3>1. s.active = target.tab
        <4>1. s.loading[target.tab] = target.navigation
          BY <1>12 DEF CurrentTarget
        <4>. QED BY <1>1, <1>5, <2>1, <2>4, <4>1 DEF Loading
      <3>2. NavigationCancelled(s, p[1], w) = t
        <4>1. [[[s EXCEPT !.cancelling = NoTarget] EXCEPT !.loading[s.active] = 0]
                 EXCEPT !.targets[target.tab] = NoTarget] = t
          BY <1>1, <3>1 DEF Made, Fields
        <4>2. /\ [[s EXCEPT !.cancelling = NoTarget] EXCEPT !.loading[s.active] = 0].targets[target.tab] = target
              /\ [s EXCEPT !.cancelling = NoTarget].active = s.active
          BY <1>1, <2>1 DEF Made, Fields
        <4>3. ForgetTarget(StopActive([s EXCEPT !.cancelling = NoTarget]), target) = t
          BY <4>1, <4>2 DEF ForgetTarget, StopActive
        <4> HIDE DEF t
        <4>. QED BY <1>3, <1>12, <2>2, <2>4, <4>3 DEF NavigationCancelled
      <3> HIDE DEF loading, targets
      <3>3. /\ Made(t) /\ Differ(s, t, {"loading", "targets", "cancelling"})
            /\ t.loading = loading
            /\ t.targets = targets
            /\ t.cancelling = NoTarget
        BY ZenonT(40), <1>2 DEF Made, Fields, Differ
      <3>4. t \in Shell
        <4>1. /\ t.loading \in Types.loading
             /\ t.targets \in Types.targets
             /\ t.cancelling \in Types.cancelling
          BY <3>3, <1>6, TypesAre
        <4>2. {"loading", "targets", "cancelling"} \subseteq Fields /\ \A field \in {"loading", "targets", "cancelling"} : t[field] \in Types[field]
          BY <4>1 DEF Fields
        <4> HIDE DEF t
        <4>. QED BY <1>2, <3>3, <4>2, Retyped
      <3> HIDE DEF t
      <3>5. /\ Differ(s, t, {"loading", "targets", "cancelling"})
            /\ t.loading = [s.loading EXCEPT ![p[1].target.tab] = 0] /\ t.cancelling = NoTarget
            /\ t.targets = [s.targets EXCEPT ![p[1].target.tab] = NoTarget]
        BY <3>3 DEF targets, loading
      <3>6. Sound(t, q, f, r, x)
        BY <2>1, <2>2, <3>4, <3>5, StopDone
      <3>7. t.out = <<>> /\ t.session = s.session /\ t.active = s.active /\ t.visible = s.visible
        BY <3>3 DEF Differ, Fields
      <3>8. Shows(s, t)
        BY <1>1, <3>7, ShowsIs
      <3>9. Good(s, t, q, f, r, x)
        BY <3>6, <3>7, <3>8, SoundIsGood
      <3>. QED BY <3>2, <3>9
    <2>. QED BY <2>3, <2>4
  <1>. QED BY <1>10, <1>11, <1>12

\* The window is shown when the frame of the current tab is on it.
LEMMA ShowGood ==
    ASSUME NEW d, NEW s, NEW q, NEW f, NEW r, NEW x, Sound(s, q, f, r, x), s.out = <<>>,
           Shows(d, s), Seen(d) = Seen(s), x = Seen(s), s.reset = 0, NEW shown,
           s.permit = NoPermit, ~(shown /\ s.closing # NoTab)
    PROVE  Good(d, Presented(s, shown), q, f, r, x)
  <1> DEFINE show == [s EXCEPT !.visible = TRUE]
  <1>1. s \in Shell /\ Made(s)
    BY SoundIs DEF Sound
  <1>2. /\ Made(show) /\ Differ(s, show, {"visible"})
        /\ show.visible = TRUE
    BY <1>1 DEF Made, Fields, Differ
  <1>3. show \in Shell
    <2>1. /\ show.visible \in Types.visible
      BY <1>2, TypesAre
    <2>2. {"visible"} \subseteq Fields /\ \A field \in {"visible"} : show[field] \in Types[field]
      BY <2>1 DEF Fields
    <2> HIDE DEF show
    <2>. QED BY <1>1, <1>2, <2>2, Retyped
  <1> HIDE DEF show
  <1>4. ASSUME NEW t, Sound(t, q, f, r, x), t.out = <<>>, Shows(d, t)
        PROVE  Good(d, IF t.dirty THEN RequestRedraw(t) ELSE t, q, f, r, x)
    <2>1. Good(d, RequestRedraw(t), q, f, r, x)
      BY <1>4, DirtyGood
    <2>2. Good(d, t, q, f, r, x)
      BY <1>4, SoundIsGood
    <2>. QED BY <2>1, <2>2
  <1>5. CASE Settled(s) /\ (shown \/ ~InTransition(s))
    <2>1. Presented(s, shown) = IF show.dirty THEN RequestRedraw(show) ELSE show
      BY <1>5 DEF Presented, Show, show
    <2>2. ~Switching(s) /\ Differ(s, show, {"visible"}) /\ x \in {NoPage, Seen(s)}
      BY <1>2, <1>5 DEF Settled, Switching
    <2>3. Sound(show, q, f, r, x)
      BY <1>3, <2>2, ShowIs
    <2>4. show.out = <<>> /\ show.session = s.session /\ show.active = s.active
      BY <1>2 DEF Differ, Fields
    <2>5. Shows(d, show)
      BY <2>4 DEF Shows, Seen
    <2>6. Good(d, IF show.dirty THEN RequestRedraw(show) ELSE show, q, f, r, x)
      BY <1>4, <2>3, <2>4, <2>5
    <2>. QED BY <2>1, <2>6
  <1>6. CASE ~(Settled(s) /\ (shown \/ ~InTransition(s)))
    <2>1. Presented(s, shown) = IF s.dirty THEN RequestRedraw(s) ELSE s
      BY <1>6 DEF Presented
    <2>2. Good(d, IF s.dirty THEN RequestRedraw(s) ELSE s, q, f, r, x)
      BY <1>4
    <2>. QED BY <2>1, <2>2
  <1>. QED BY <1>5, <1>6

\* A frame that is answered fits the handoff.
LEMMA FrameIs ==
    ASSUME NEW s, NEW p, NEW e, NEW q, NEW f, NEW r, NEW x, Sound(s, p, e, r, x),
           Pop(p, q), Pop(e, f), p[1].kind = "render"
    PROVE  LET permit == p[1].permit
               late == ForTarget(permit) /\ Stale(s.handoff, permit)
           IN  /\ s.frame # 0 /\ p[1].id = s.frame /\ s.ready /\ s.reset = 0 /\ s.surface = 0
               /\ s.creating = NotCreating
               /\ permit \in Permit /\ permit # NoPermit /\ Fits(s, permit)
               /\ e[1].result # "refused"
               /\ r.generation = permit.generation /\ r.tab = permit.tab
               /\ e[1].result = "ok" => x = [session |-> s.session, tab |-> permit.tab]
               /\ permit.tab \notin Range(s.tabs) =>
                     RetiredSource(s, permit.tab) /\ s.permit # NoPermit
               /\ late => s.permit # NoPermit /\ s.handoff.content = Neutral /\ ~s.visible
               /\ ~ForTarget(permit) /\ s.permit = NoPermit => ~Switching(s) /\ permit.tab = s.active
               /\ ForTarget(permit) /\ ~late =>
                     /\ Switching(s) /\ permit.generation = Gen(s) /\ permit.tab = s.active
                     /\ s.permit = NoPermit /\ CanPresent(s.handoff, permit)
               /\ ~(Has(q, "close") /\ Switching(s) /\ permit.generation = Gen(s))
  <1> DEFINE permit == p[1].permit
             late == ForTarget(permit) /\ Stale(s.handoff, permit)
  <1>1. /\ s \in Shell /\ Pipes(p, e) /\ Matched(s, p) /\ p[1] \in Command
        /\ 1 \in 1 .. Len(p) /\ 1 <= Len(e) /\ Strip(s) /\ Chrome(s) /\ Exclusive(s)
        /\ s.active \in Range(s.tabs)
    BY HeadIs DEF SoundShell
  <1>2. s.frame # 0 /\ p[1].id = s.frame
    BY <1>1, WaitedFor
  <1>3. s.ready /\ s.reset = 0 /\ s.surface = 0 /\ s.creating = NotCreating
    BY <1>1, <1>2 DEF Exclusive
  <1>4. permit \in Permit
    BY <1>1, CommandIs
  <1>5. permit.tab \in Tab /\ permit # NoPermit
    BY <1>4 DEF Permit, NoPermit, Tab, NoTab
  <1>6. /\ Fits(s, permit) /\ e[1].result # "refused"
        /\ r.generation = permit.generation /\ r.tab = permit.tab
        /\ e[1].result = "ok" => x = [session |-> s.session, tab |-> permit.tab]
    BY <1>1 DEF Sound, SoundButDrawn, Frames
  <1>7. Switching(s) => s.handoff.pending \in Intent /\ s.handoff.pending.id # 0
    <2>1. s.handoff \in Handoff
      BY <1>1 DEF Shell
    <2>2. s.handoff.pending \in Intent \cup {NoIntent}
      BY <2>1 DEF Handoff
    <2>. QED BY <2>2 DEF Switching, Activating, Intent
  <1>8. permit.tab \notin Range(s.tabs) => RetiredSource(s, permit.tab) /\ s.permit # NoPermit
    <2>1. SUFFICES ASSUME permit.tab \notin Range(s.tabs)
                   PROVE  RetiredSource(s, permit.tab) /\ s.permit # NoPermit
      OBVIOUS
    <2>2. Switching(s) /\ permit.tab \in s.materialized /\ permit.generation # Gen(s)
          /\ s.permit # NoPermit
      BY <1>1, <1>6, <2>1 DEF Fits
    <2>3. s.closing = permit.tab
      BY <1>1, <2>1, <2>2 DEF Strip
    <2>4. s.handoff.content = Neutral /\ ~s.visible
      BY <1>1, <2>2 DEF Chrome
    <2>. QED BY <2>2, <2>3, <2>4 DEF RetiredSource
  <1>9. permit.generation # Gen(s) =>
            s.permit # NoPermit /\ s.handoff.content = Neutral /\ ~s.visible
    BY <1>1, <1>6 DEF Fits, Chrome
  <1>10. permit.generation = Gen(s) =>
            /\ permit.tab = s.active /\ s.permit = NoPermit
            /\ permit.activation = IF Switching(s) THEN s.handoff.pending.id ELSE 0
    BY <1>6 DEF Fits
  <1>11. late => permit.generation # Gen(s)
    <2>1. SUFFICES ASSUME late, permit.generation = Gen(s) PROVE FALSE
      OBVIOUS
    <2>2. permit.activation # 0 /\ ~Current(s.handoff, permit.activation)
      BY <2>1 DEF ForTarget, Stale, Gen
    <2>3. Switching(s) /\ permit.activation = s.handoff.pending.id
      BY <1>10, <2>1, <2>2
    <2>. QED BY <2>2, <2>3 DEF Current, Switching
  <1>12. ~ForTarget(permit) /\ s.permit = NoPermit => ~Switching(s) /\ permit.tab = s.active
    BY <1>7, <1>9, <1>10 DEF ForTarget
  <1>13. ForTarget(permit) /\ ~late =>
            /\ Switching(s) /\ permit.generation = Gen(s) /\ permit.tab = s.active
            /\ s.permit = NoPermit /\ CanPresent(s.handoff, permit)
    <2>1. SUFFICES ASSUME ForTarget(permit), ~late
                   PROVE  /\ Switching(s) /\ permit.generation = Gen(s) /\ permit.tab = s.active
                          /\ s.permit = NoPermit /\ CanPresent(s.handoff, permit)
      OBVIOUS
    <2>2. Switching(s) /\ permit.generation = Gen(s)
      BY <2>1 DEF Stale, Current, Switching, Gen
    <2>3. /\ s.handoff.content = Neutral /\ s.handoff.represented = s.active
          /\ s.handoff.pending.to = s.active
      BY <1>1, <2>2 DEF Chrome
    <2>. QED BY <1>10, <2>2, <2>3 DEF CanPresent
  <1>14. ~(Has(q, "close") /\ Switching(s) /\ permit.generation = Gen(s))
    <2>1. SUFFICES ASSUME NEW i \in 1 .. Len(q), q[i].kind = "close",
                          Switching(s), permit.generation = Gen(s)
                   PROVE  FALSE
      BY DEF Has
    <2>2. i + 1 \in 1 .. Len(p) /\ p[i + 1].kind = "close"
      BY <1>1, <2>1, PopIs
    <2>3. Retiring(s, p, r)
      BY DEF Sound, SoundButDrawn
    <2>4. i + 1 < 1
      BY <1>1, <2>1, <2>2, <2>3 DEF Retiring
    <2>. QED BY <2>4
  <1> HIDE DEF permit
  <1>15. late => s.permit # NoPermit /\ s.handoff.content = Neutral /\ ~s.visible
    BY <1>9, <1>11
  <1> HIDE DEF late
  <1>. QED BY <1>2, <1>3, <1>4, <1>5, <1>6, <1>8, <1>12, <1>13, <1>14, <1>15 DEF permit, late

\* The handoff when the frame of its target is presented.
LEMMA PresentIs ==
    ASSUME NEW h \in Handoff, NEW permit \in Permit
    PROVE  LET g == PresentTarget(h, permit)
           IN  /\ g \in Handoff /\ ~Activating(g) /\ g.content = permit.tab
               /\ g.represented = h.represented /\ g.generation = h.generation
  BY DEF PresentTarget, Handoff, Activating, Permit

\* The frame of the target ends the switch, and the tab that was closed is retired.
LEMMA TargetShownGood ==
    ASSUME NEW d, NEW s, NEW q, NEW f, NEW r, NEW x, SoundButDrawn(s, q, f, r, x),
           s.out = <<>>, Shows(d, s), Seen(d) = Seen(s), x = Seen(s), s.reset = 0,
           Switching(s), s.permit = NoPermit, s.frame = 0, s.surface = 0,
           NEW permit \in Permit, permit.tab = s.active, r.generation = Gen(s),
           ~Has(q, "close")
    PROVE  Good(d, Presented([s EXCEPT !.handoff = PresentTarget(@, permit)], TRUE), q, f, r, x)
  <1> DEFINE h == PresentTarget(s.handoff, permit)
             t == [s EXCEPT !.handoff = h]
             c == CloseView(s.closing)
             u == [s EXCEPT !.handoff = h, !.out = <<c>>]
  <1>1. s \in Shell /\ Made(s) /\ ~s.down /\ Chrome(s)
    BY SoundIs DEF SoundButDrawn, SoundShell
  <1>2. s \in Shell /\ Made(s)
    BY <1>1
  <1>3. h \in Handoff /\ ~Activating(h) /\ h.content = s.active
        /\ h.represented = s.active /\ h.generation = Gen(s)
    <2>1. s.handoff \in Handoff /\ s.handoff.represented = s.active
      BY <1>1 DEF Shell, Chrome
    <2>2. h \in Handoff /\ ~Activating(h) /\ h.content = permit.tab
          /\ h.represented = s.handoff.represented /\ h.generation = s.handoff.generation
      BY <2>1, PresentIs
    <2> HIDE DEF h
    <2>. QED BY <2>1, <2>2 DEF Gen
  <1>4. [s EXCEPT !.handoff = PresentTarget(@, permit)] = t
    OBVIOUS
  <1> HIDE DEF h
  <1>5. /\ Made(t) /\ Differ(s, t, {"handoff"})
        /\ t.handoff = h
    BY <1>2 DEF Made, Fields, Differ
  <1>6. t \in Shell
    <2>1. /\ t.handoff \in Types.handoff
      BY <1>5, <1>3, TypesAre
    <2>2. {"handoff"} \subseteq Fields /\ \A field \in {"handoff"} : t[field] \in Types[field]
      BY <2>1 DEF Fields
    <2> HIDE DEF t
    <2>. QED BY <1>2, <1>5, <2>2, Retyped
  <1> HIDE DEF t
  <1>7. /\ Differ(s, t, {"handoff"}) /\ ~Switching(t) /\ t.handoff.represented = s.active
        /\ t.handoff.content = s.active /\ Gen(t) = Gen(s)
    BY <1>3, <1>5 DEF Switching, Gen
  <1>8. /\ t.out = <<>> /\ t.session = s.session /\ t.active = s.active /\ t.visible = s.visible
        /\ t.permit = NoPermit /\ t.closing = s.closing /\ t.reset = 0
    BY <1>5 DEF Differ, Fields
  <1>9. Shows(d, t) /\ Seen(d) = Seen(t) /\ x = Seen(t)
    <2>1. Shows(d, t)
      BY <1>8, ShowsIs
    <2>. QED BY <1>8, <2>1 DEF Seen
  <1>10. CASE s.closing = NoTab
    <2>1. Sound(t, q, f, r, x)
      BY <1>6, <1>7, <1>10, Settle
    <2>2. ~(TRUE /\ t.closing # NoTab)
      BY <1>8, <1>10
    <2>3. Good(d, Presented(t, TRUE), q, f, r, x)
      BY <1>8, <1>9, <2>1, <2>2, ShowGood
    <2>. QED BY <1>4, <2>3
  <1>11. CASE s.closing # NoTab
    <2>1. Presented(t, TRUE) = u
      <3>1. Presented(t, TRUE) = [t EXCEPT !.out = <<c>>]
        BY <1>8, <1>11 DEF Presented, Send
      <3>2. [t EXCEPT !.out = <<c>>] = u
        BY <1>2 DEF t, Made, Fields
      <3>. QED BY <3>1, <3>2
    <2>2. s.closing \in Tab
      BY <1>1, <1>11 DEF Shell
    <2>3. c \in Asked /\ c \in Command /\ c.kind = "close" /\ c.tab = s.closing
      BY <2>2, AskedIs, IsCommand DEF CloseView
    <2> HIDE DEF c
    <2>4. /\ Made(u) /\ Differ(s, u, {"handoff", "out"})
          /\ u.handoff = h
          /\ u.out = <<c>>
      BY <1>2 DEF Made, Fields, Differ
    <2>5. u \in Shell
      <3>1. /\ u.handoff \in Types.handoff
           /\ u.out \in Types.out
        BY <2>4, <1>3, <2>3, TypesAre
      <3>2. {"handoff", "out"} \subseteq Fields /\ \A field \in {"handoff", "out"} : u[field] \in Types[field]
        BY <3>1 DEF Fields
      <3> HIDE DEF u
      <3>. QED BY <1>2, <2>4, <3>2, Retyped
    <2> HIDE DEF u
    <2>6. /\ Differ(s, u, {"handoff", "out"}) /\ ~Switching(u) /\ u.handoff.represented = s.active
          /\ u.handoff.content = s.active /\ Gen(u) = Gen(s)
      BY <1>3, <2>4 DEF Switching, Gen
    <2>7. ASSUME NEW g, Add(q, c, g) PROVE Sound(u, g, f, r, x)
      <3>1. c \in Command /\ Add(q, c, g) /\ c.kind = "close" /\ c.tab = s.closing
        BY <2>3, <2>7
      <3>. QED BY <1>11, <2>5, <2>6, <3>1, CloseAsked
    <2>8. ~u.down /\ u.session = s.session /\ u.active = s.active /\ u.visible = s.visible
          /\ u.out = <<c>>
      BY <1>1, <2>4 DEF Differ, Fields
    <2>9. Shows(d, u)
      BY <2>8, ShowsIs
    <2>10. Good(d, u, q, f, r, x)
      BY <2>5, <2>7, <2>8, <2>9, SentIsGood
    <2>11. [s EXCEPT !.handoff = PresentTarget(@, permit)] = t
      BY <1>4
    <2>. QED BY <2>1, <2>10, <2>11
  <1>. QED BY <1>10, <1>11

\* A frame is answered.
LEMMA FrameFinishedGood ==
    ASSUME Numbering, NEW s, NEW p, NEW e, NEW q, NEW f, NEW r, NEW x, Sound(s, p, e, r, x),
           Pop(p, q), Pop(e, f), s.out = <<>>, p[1].kind = "render"
    PROVE  Good(s, FrameFinished(s, p[1], e[1].result), q, f, r, x)
  <1> DEFINE w == e[1].result
             permit == p[1].permit
             late == ForTarget(permit) /\ Stale(s.handoff, permit)
             done == [s EXCEPT !.frame = 0]
             lost == [done EXCEPT !.dirty = TRUE]
  <1>1. /\ s \in Shell /\ ~s.down /\ Made(s) /\ Shows(s, s)
        /\ w \in Results(p[1].kind) /\ p[1].kind \in Kinds
    BY HeadIs
  <1>2. s \in Shell /\ Made(s)
    BY <1>1
  <1>3. /\ s.frame # 0 /\ p[1].id = s.frame /\ s.ready /\ s.reset = 0 /\ s.surface = 0
        /\ s.creating = NotCreating
        /\ permit \in Permit /\ permit # NoPermit /\ Fits(s, permit)
        /\ w # "refused"
        /\ r.generation = permit.generation /\ r.tab = permit.tab
        /\ w = "ok" => x = [session |-> s.session, tab |-> permit.tab]
        /\ permit.tab \notin Range(s.tabs) =>
              RetiredSource(s, permit.tab) /\ s.permit # NoPermit
        /\ late => s.permit # NoPermit /\ s.handoff.content = Neutral /\ ~s.visible
        /\ ~ForTarget(permit) /\ s.permit = NoPermit => ~Switching(s) /\ permit.tab = s.active
        /\ ForTarget(permit) /\ ~late =>
              /\ Switching(s) /\ permit.generation = Gen(s) /\ permit.tab = s.active
              /\ s.permit = NoPermit /\ CanPresent(s.handoff, permit)
        /\ ~(Has(q, "close") /\ Switching(s) /\ permit.generation = Gen(s))
    BY FrameIs
  <1>4. /\ Made(done) /\ Differ(s, done, {"frame"})
        /\ done.frame = 0
    BY <1>2 DEF Made, Fields, Differ
  <1>5. done \in Shell
    <2>1. /\ done.frame \in Types.frame
      BY <1>4, TypesAre
    <2>2. {"frame"} \subseteq Fields /\ \A field \in {"frame"} : done[field] \in Types[field]
      BY <2>1 DEF Fields
    <2> HIDE DEF done
    <2>. QED BY <1>2, <1>4, <2>2, Retyped
  <1> HIDE DEF done
  <1>6. /\ ~done.down /\ done.out = <<>> /\ done.session = s.session /\ done.active = s.active
        /\ done.visible = s.visible /\ done.tabs = s.tabs /\ done.handoff = s.handoff
        /\ done.ready = s.ready /\ done.reset = s.reset /\ done.surface = s.surface
        /\ done.creating = s.creating /\ done.permit = s.permit
        /\ done.closing = s.closing /\ done.frame = 0 /\ done.materialized = s.materialized
    BY <1>1, <1>4 DEF Differ, Fields
  <1>7. SoundButDrawn(done, q, f, r, x)
    <2>1. Differ(s, done, {"frame"}) /\ done.frame = 0 /\ SoundButDrawn(s, p, e, r, x)
      BY <1>4 DEF Sound
    <2>. QED BY <1>5, <2>1, FrameDone
  <1>8. Shows(s, done) /\ Seen(s) = Seen(done) /\ Switching(done) = Switching(s)
    <2>1. Shows(s, done)
      BY <1>1, <1>6, ShowsIs
    <2>. QED BY <1>6, <2>1 DEF Seen, Switching
  <1>9. s.permit # NoPermit => Good(s, DrawTarget(done), q, f, r, x)
    <2>1. SUFFICES ASSUME s.permit # NoPermit PROVE Good(s, DrawTarget(done), q, f, r, x)
      OBVIOUS
    <2>2. Sound(done, q, f, r, x)
      BY <1>6, <1>7, <2>1 DEF Sound, Drawn
    <2>. QED BY <1>6, <1>8, <2>2, DrawTargetGood
  <1>10. ~(s.frame # p[1].id)
    BY <1>3
  <1>11. CASE permit.tab \notin Range(s.tabs)
    <2>1. FrameFinished(s, p[1], w) = DrawTarget(done)
      BY <1>3, <1>11 DEF FrameFinished, Live, done
    <2>. QED BY <1>3, <1>9, <1>11, <2>1
  <1>12. CASE permit.tab \in Range(s.tabs) /\ w = "lost"
    <2>1. FrameFinished(s, p[1], w) = RecoverSurface(lost, permit)
      BY <1>3, <1>12 DEF FrameFinished, Live, lost, done
    <2>2. done \in Shell /\ Made(done)
      BY <1>4, <1>5
    <2>3. /\ Made(lost) /\ Differ(done, lost, {"dirty"})
          /\ lost.dirty = TRUE
      BY <2>2 DEF Made, Fields, Differ
    <2>4. lost \in Shell
      <3>1. /\ lost.dirty \in Types.dirty
        BY <2>3, TypesAre
      <3>2. {"dirty"} \subseteq Fields /\ \A field \in {"dirty"} : lost[field] \in Types[field]
        BY <3>1 DEF Fields
      <3> HIDE DEF lost
      <3>. QED BY <2>2, <2>3, <3>2, Retyped
    <2> HIDE DEF lost
    <2>5. /\ Differ(done, lost, {"dirty", "redraw", "out", "nextActivation", "restoring", "seeking", "unlocking"})
          /\ lost.nextActivation = done.nextActivation /\ lost.restoring = done.restoring
          /\ lost.seeking = done.seeking /\ lost.unlocking = done.unlocking
          /\ lost.session = done.session /\ lost.active = done.active
          /\ lost.visible = done.visible /\ lost.out = <<>> /\ lost.handoff = done.handoff
          /\ lost.ready = done.ready /\ lost.reset = done.reset /\ lost.surface = done.surface
          /\ lost.creating = done.creating /\ lost.permit = done.permit
          /\ lost.frame = 0 /\ lost.tabs = done.tabs /\ lost.materialized = done.materialized
      BY <1>6, <2>3 DEF Differ, Fields
    <2>6. /\ lost.nextActivation >= done.nextActivation
          /\ lost.seeking => done.reset = 0 /\ ~lost.unlocking /\ done.session < MaxSessions
      <3>1. Exclusive(done) /\ done.nextActivation \in Nat
        BY <1>7 DEF SoundButDrawn, SoundShell, Shell
      <3>. QED BY <2>5, <3>1 DEF Exclusive
    <2>7. SoundButDrawn(lost, q, f, r, x)
      BY <1>7, <2>4, <2>5, <2>6, Untouched
    <2>8. Shows(s, lost)
      BY <1>8, <2>5, ShowsIs
    <2>9. Fits(lost, permit)
      BY <1>3, <1>6, <2>5 DEF Fits, Gen, Switching
    <2>10. ~(Has(q, "close") /\ Switching(lost) /\ permit.generation = Gen(lost))
      BY <1>3, <1>6, <2>5 DEF Gen, Switching
    <2>11. /\ lost.ready /\ lost.reset = 0 /\ lost.frame = 0 /\ lost.surface = 0
           /\ lost.creating = NotCreating /\ permit.tab \in Range(lost.tabs)
           /\ permit \in Permit /\ permit # NoPermit
           /\ r.generation = permit.generation /\ r.tab = permit.tab
      BY <1>3, <1>6, <1>12, <2>5
    <2> HIDE DEF permit, late
    <2>12. Good(s, RecoverSurface(lost, permit), q, f, r, x)
      BY <2>5, <2>7, <2>8, <2>9, <2>10, <2>11, RecoverGood
    <2>. QED BY <2>1, <2>12
  <1>13. CASE permit.tab \in Range(s.tabs) /\ w \notin {"ok", "lost"}
    <2>1. FrameFinished(s, p[1], w) = Fail(done, Why(w))
      BY <1>3, <1>13 DEF FrameFinished, Live, done
    <2> HIDE DEF w
    <2>2. Why(w) \in Fatal \ {"protocol"}
      BY <1>1, <1>3, <1>13, WhyIs
    <2>3. Good(s, Fail(done, Why(w)), q, f, r, x)
      BY <1>5, <1>6, <2>2, FailIsGood
    <2>. QED BY <2>1, <2>3 DEF w
  <1>14. CASE permit.tab \in Range(s.tabs) /\ w = "ok" /\ (late \/ ~ForTarget(permit))
    <2>1. FrameFinished(s, p[1], w) = Presented(done, FALSE)
      BY <1>3, <1>14 DEF FrameFinished, Live, done
    <2>2. CASE s.permit # NoPermit
      <3>1. Presented(done, FALSE) = DrawTarget(done)
        BY <1>6, <2>2 DEF Presented
      <3>. QED BY <1>9, <2>1, <2>2, <3>1
    <2>3. CASE s.permit = NoPermit
      <3>1. ~Switching(s) /\ x = Seen(s)
        BY <1>3, <1>14, <2>3 DEF Seen
      <3>2. Sound(done, q, f, r, x)
        BY <1>7, <1>8, <3>1 DEF Sound, Drawn
      <3>3. x = Seen(done) /\ done.reset = 0 /\ done.permit = NoPermit
            /\ ~(FALSE /\ done.closing # NoTab)
        BY <1>3, <1>6, <1>8, <2>3, <3>1
      <3>4. Good(s, Presented(done, FALSE), q, f, r, x)
        BY <1>6, <1>8, <3>2, <3>3, ShowGood
      <3>. QED BY <2>1, <3>4
    <2>. QED BY <2>2, <2>3
  <1>15. CASE permit.tab \in Range(s.tabs) /\ w = "ok" /\ ForTarget(permit) /\ ~late
    <2>1. FrameFinished(s, p[1], w)
          = Presented([done EXCEPT !.handoff = PresentTarget(@, permit)], TRUE)
      BY <1>3, <1>15 DEF FrameFinished, Live, done
    <2>2. /\ Switching(done) /\ done.permit = NoPermit /\ done.frame = 0 /\ done.surface = 0
          /\ permit.tab = done.active /\ r.generation = Gen(done) /\ done.reset = 0
          /\ x = Seen(done) /\ ~Has(q, "close") /\ permit \in Permit
      <3>1. Gen(done) = Gen(s)
        BY <1>6 DEF Gen
      <3> HIDE DEF late, permit, done
      <3>2. /\ Switching(s) /\ permit.generation = Gen(s) /\ permit.tab = s.active
            /\ s.permit = NoPermit
        BY <1>3, <1>15
      <3>3. x = Seen(s) /\ ~Has(q, "close")
        BY <1>3, <1>15, <3>2 DEF Seen
      <3>. QED BY <1>3, <1>6, <1>8, <3>1, <3>2, <3>3
    <2> HIDE DEF permit, late, done
    <2>3. Good(s, Presented([done EXCEPT !.handoff = PresentTarget(@, permit)], TRUE), q, f, r, x)
      BY <1>6, <1>7, <1>8, <2>2, TargetShownGood
    <2>. QED BY <2>1, <2>3
  <1>. QED BY <1>11, <1>12, <1>13, <1>14, <1>15

\* The surface is there again, and the frame that was lost is drawn.
LEMMA SurfaceReplacedGood ==
    ASSUME Numbering, NEW s, NEW p, NEW e, NEW q, NEW f, NEW r, NEW x, Sound(s, p, e, r, x),
           Pop(p, q), Pop(e, f), s.out = <<>>, p[1].kind = "replace"
    PROVE  Good(s, SurfaceReplaced(s, p[1], e[1].result), q, f, r, x)
  <1> DEFINE w == e[1].result
             done == [s EXCEPT !.surface = 0]
             u == [s EXCEPT !.surface = 0, !.recovery = NoPermit]
             t == [u EXCEPT !.dirty = TRUE]
  <1>1. /\ s \in Shell /\ ~s.down /\ Made(s) /\ Shows(s, s) /\ Pipes(p, e) /\ Matched(s, p)
        /\ w \in Results(p[1].kind) /\ p[1].kind \in Kinds
        /\ 1 \in 1 .. Len(p) /\ 1 \in 1 .. Len(e) /\ Exclusive(s)
    BY HeadIs DEF SoundShell
  <1>2. s \in Shell /\ Made(s)
    BY <1>1
  <1>3. s.surface # 0 /\ p[1].id = s.surface /\ p[1].tab = s.recovery.tab
    BY <1>1, WaitedFor
  <1>4. /\ s.recovery # NoPermit /\ s.recovery \in Permit /\ s.ready /\ s.reset = 0
        /\ s.frame = 0 /\ s.creating = NotCreating
    BY <1>1, <1>3 DEF Exclusive, Shell
  <1>5. Fits(s, s.recovery) /\ s.recovery.tab \in Range(s.tabs)
    BY <1>3 DEF Sound, SoundButDrawn, Frames
  <1>6. w # "refused"
    BY <1>1 DEF Sound, SoundButDrawn, Views
  <1>7. /\ Made(done) /\ Differ(s, done, {"surface"})
        /\ done.surface = 0
    BY <1>2 DEF Made, Fields, Differ
  <1>8. done \in Shell
    <2>1. /\ done.surface \in Types.surface
      BY <1>7, TypesAre
    <2>2. {"surface"} \subseteq Fields /\ \A field \in {"surface"} : done[field] \in Types[field]
      BY <2>1 DEF Fields
    <2> HIDE DEF done
    <2>. QED BY <1>2, <1>7, <2>2, Retyped
  <1> HIDE DEF done
  <1>9. /\ Made(u) /\ Differ(s, u, {"surface", "recovery"})
        /\ u.surface = 0
        /\ u.recovery = NoPermit
    BY <1>2 DEF Made, Fields, Differ
  <1>10. u \in Shell
    <2>1. /\ u.surface \in Types.surface
         /\ u.recovery \in Types.recovery
      BY <1>9, TypesAre
    <2>2. {"surface", "recovery"} \subseteq Fields /\ \A field \in {"surface", "recovery"} : u[field] \in Types[field]
      BY <2>1 DEF Fields
    <2> HIDE DEF u
    <2>. QED BY <1>2, <1>9, <2>2, Retyped
  <1> HIDE DEF u
  <1>11. Made(u)
    BY <1>9
  <1>12. /\ Made(t) /\ Differ(u, t, {"dirty"})
         /\ t.dirty = TRUE
    BY <1>10, <1>11 DEF Made, Fields, Differ
  <1>13. t \in Shell
    <2>1. /\ t.dirty \in Types.dirty
      BY <1>12, TypesAre
    <2>2. {"dirty"} \subseteq Fields /\ \A field \in {"dirty"} : t[field] \in Types[field]
      BY <2>1 DEF Fields
    <2> HIDE DEF t
    <2>. QED BY <1>10, <1>11, <1>12, <2>2, Retyped
  <1> HIDE DEF t
  <1>14. ~done.down
    BY <1>1, <1>7 DEF Differ, Fields
  <1>15. CASE w # "ok"
    <2>1. SurfaceReplaced(s, p[1], w) = Fail(done, Why(w))
      BY <1>3, <1>5, <1>15 DEF SurfaceReplaced, Live, done
    <2> HIDE DEF w
    <2>2. Why(w) \in Fatal \ {"protocol"}
      BY <1>1, <1>6, <1>15, WhyIs
    <2>3. Good(s, Fail(done, Why(w)), q, f, r, x)
      BY <1>8, <1>14, <2>2, FailIsGood
    <2>. QED BY <2>1, <2>3 DEF w
  <1>16. CASE w = "ok"
    <2>1. SurfaceReplaced(s, p[1], w) = IF s.permit # NoPermit THEN DrawTarget(t)
                                        ELSE StartFrame(t, s.recovery)
      <3>1. [[s EXCEPT !.surface = 0] EXCEPT !.dirty = TRUE, !.recovery = NoPermit] = t
        BY <1>2 DEF t, u, Made, Fields
      <3>. QED BY <1>3, <1>4, <1>5, <1>16, <3>1 DEF SurfaceReplaced, Live
    <2>2. SoundButDrawn(u, q, f, r, x)
      <3>1. SoundButDrawn(s, p, e, r, x) /\ Differ(s, u, {"surface", "recovery"})
            /\ u.surface = 0 /\ u.recovery = NoPermit
        BY <1>9 DEF Sound
      <3>. QED BY <1>10, <3>1, SurfaceDone
    <2>3. /\ u.out = <<>> /\ u.session = s.session /\ u.active = s.active /\ u.visible = s.visible
          /\ u.ready = s.ready /\ u.reset = s.reset /\ u.frame = s.frame
          /\ u.creating = s.creating /\ u.permit = s.permit /\ u.handoff = s.handoff
          /\ u.tabs = s.tabs /\ u.materialized = s.materialized
      BY <1>9 DEF Differ, Fields
    <2>4. /\ Differ(u, t, {"dirty", "redraw", "out", "nextActivation", "restoring", "seeking", "unlocking"})
          /\ t.nextActivation = u.nextActivation /\ t.restoring = u.restoring
          /\ t.seeking = u.seeking /\ t.unlocking = u.unlocking
          /\ t.session = u.session /\ t.active = u.active
          /\ t.visible = u.visible /\ t.out = <<>> /\ t.handoff = u.handoff
          /\ t.ready = u.ready /\ t.reset = u.reset /\ t.surface = 0
          /\ t.creating = u.creating /\ t.permit = u.permit /\ t.frame = u.frame
      BY <1>9, <1>12, <2>3 DEF Differ, Fields
    <2>5. /\ t.nextActivation >= u.nextActivation
          /\ t.seeking => u.reset = 0 /\ ~t.unlocking /\ u.session < MaxSessions
      <3>1. Exclusive(u) /\ u.nextActivation \in Nat
        BY <2>2 DEF SoundButDrawn, SoundShell, Shell
      <3>. QED BY <2>4, <3>1 DEF Exclusive
    <2>6. SoundButDrawn(t, q, f, r, x)
      BY <1>13, <2>2, <2>4, <2>5, Untouched
    <2>7. Shows(s, t)
      <3>1. t.session = s.session /\ t.active = s.active /\ t.visible = s.visible
        BY <2>3, <2>4
      <3>. QED BY <1>1, <3>1, ShowsIs
    <2>8. CASE s.permit # NoPermit
      <3>1. Sound(t, q, f, r, x)
        BY <2>3, <2>4, <2>6, <2>8 DEF Sound, Drawn
      <3>2. Good(s, DrawTarget(t), q, f, r, x)
        BY <2>4, <2>7, <3>1, DrawTargetGood
      <3>. QED BY <2>1, <2>8, <3>2
    <2>9. CASE s.permit = NoPermit
      <3>1. /\ s.recovery \in Permit /\ s.recovery.generation = Gen(t)
            /\ s.recovery.tab = t.active
            /\ s.recovery.activation = IF Switching(t) THEN t.handoff.pending.id ELSE 0
        BY <1>4, <1>5, <2>3, <2>4, <2>9 DEF Fits, Gen, Switching
      <3>2. /\ t.ready /\ t.reset = 0 /\ t.frame = 0 /\ t.surface = 0 /\ t.creating = NotCreating
            /\ t.permit = NoPermit
        BY <1>4, <2>3, <2>4, <2>9
      <3>3. Good(s, StartFrame(t, s.recovery), q, f, r, x)
        BY <2>4, <2>6, <2>7, <3>1, <3>2, StartGood
      <3>. QED BY <2>1, <2>9, <3>3
    <2>. QED BY <2>8, <2>9
  <1>. QED BY <1>15, <1>16

\* The worker has the session that was switched to.
LEMMA SessionResetGood ==
    ASSUME Numbering, NEW s, NEW p, NEW e, NEW q, NEW f, NEW r, NEW x, Sound(s, p, e, r, x),
           Pop(p, q), Pop(e, f), s.out = <<>>, p[1].kind = "reset"
    PROVE  Good(s, SessionReset(s, p[1], e[1].result), q, f, r, x)
  <1> DEFINE w == e[1].result
             done == [s EXCEPT !.reset = 0]
             loading == IF s.initial = 0 THEN s.loading ELSE [s.loading EXCEPT ![s.tab] = 0]
             t == [s EXCEPT !.reset = 0, !.initial = 0, !.loading = loading,
                            !.ready = TRUE, !.dirty = TRUE]
  <1>1. /\ s \in Shell /\ ~s.down /\ Made(s) /\ Shows(s, s) /\ Pipes(p, e) /\ Matched(s, p)
        /\ w \in Results(p[1].kind) /\ p[1].kind \in Kinds
        /\ 1 \in 1 .. Len(p) /\ 1 <= Len(e) /\ s.tab \in Tab /\ s.tab \in Range(s.tabs)
    BY HeadIs
  <1>2. s \in Shell /\ Made(s)
    BY <1>1
  <1>3. p[1].id = s.reset /\ p[1].tab = s.tab
    BY <1>1, WaitedFor
  <1>4. w # "refused"
    BY <1>1 DEF Sound, SoundButDrawn, InSession
  <1>5. /\ Made(done) /\ Differ(s, done, {"reset"})
        /\ done.reset = 0
    BY <1>2 DEF Made, Fields, Differ
  <1>6. done \in Shell
    <2>1. /\ done.reset \in Types.reset
      BY <1>5, TypesAre
    <2>2. {"reset"} \subseteq Fields /\ \A field \in {"reset"} : done[field] \in Types[field]
      BY <2>1 DEF Fields
    <2> HIDE DEF done
    <2>. QED BY <1>2, <1>5, <2>2, Retyped
  <1> HIDE DEF done
  <1>7. ~done.down
    BY <1>1, <1>5 DEF Differ, Fields
  <1>8. CASE w # "ok"
    <2>1. SessionReset(s, p[1], w) = Fail(done, Why(w))
      BY <1>1, <1>3, <1>8 DEF SessionReset, Live, done
    <2> HIDE DEF w
    <2>2. Why(w) \in Fatal \ {"protocol"}
      BY <1>1, <1>4, <1>8, WhyIs
    <2>3. Good(s, Fail(done, Why(w)), q, f, r, x)
      BY <1>6, <1>7, <2>2, FailIsGood
    <2>. QED BY <2>1, <2>3 DEF w
  <1>9. CASE w = "ok"
    <2>1. SessionReset(s, p[1], w) = IF MayReplay(t) THEN Replay(t)
                                     ELSE IF InTransition(t) THEN t ELSE Draw(t)
      <3>1. [CommitInitial([s EXCEPT !.reset = 0]) EXCEPT !.ready = TRUE, !.dirty = TRUE] = t
        BY <1>1 DEF CommitInitial, Made, Fields
      <3> HIDE DEF t
      <3>. QED BY <1>1, <1>3, <1>9, <3>1 DEF SessionReset, Live
    <2>2. loading \in [Tab -> Nat]
      BY <1>1, CommitIs
    <2> HIDE DEF loading
    <2>3. /\ Made(t) /\ Differ(s, t, {"reset", "initial", "loading", "ready", "dirty"})
          /\ t.reset = 0
          /\ t.initial = 0
          /\ t.loading = loading
          /\ t.ready = TRUE
          /\ t.dirty = TRUE
      BY ZenonT(40), <1>2 DEF Made, Fields, Differ
    <2>4. t \in Shell
      <3>1. /\ t.reset \in Types.reset
           /\ t.initial \in Types.initial
           /\ t.loading \in Types.loading
           /\ t.ready \in Types.ready
           /\ t.dirty \in Types.dirty
        BY <2>3, <2>2, TypesAre
      <3>2. {"reset", "initial", "loading", "ready", "dirty"} \subseteq Fields /\ \A field \in {"reset", "initial", "loading", "ready", "dirty"} : t[field] \in Types[field]
        BY <3>1 DEF Fields
      <3> HIDE DEF t
      <3>. QED BY <1>2, <2>3, <3>2, Retyped
    <2> HIDE DEF t
    <2>5. /\ Differ(s, t, {"reset", "initial", "loading", "ready", "dirty"})
          /\ t.reset = 0 /\ t.initial = 0 /\ t.ready
          /\ t.loading = IF s.initial = 0 THEN s.loading ELSE [s.loading EXCEPT ![s.tab] = 0]
          /\ e[1].result = "ok"
      BY <1>9, <2>3 DEF loading
    <2>6. Sound(t, q, f, r, x)
      BY <2>4, <2>5, ResetDone
    <2>7. t.out = <<>> /\ t.session = s.session /\ t.active = s.active /\ t.visible = s.visible
      BY <2>3 DEF Differ, Fields
    <2>8. Shows(s, t)
      BY <1>1, <2>7, ShowsIs
    <2>9. Good(s, Draw(t), q, f, r, x) /\ Good(s, t, q, f, r, x)
      <3>1. Good(s, Draw(t), q, f, r, x)
        BY <2>6, <2>7, <2>8, DrawGood
      <3>2. Good(s, t, q, f, r, x)
        BY <2>6, <2>7, <2>8, SoundIsGood
      <3>. QED BY <3>1, <3>2
    <2>10. MayReplay(t) => Good(s, Replay(t), q, f, r, x)
      BY <2>6, <2>8, ReplayGood
    <2>. QED BY <2>1, <2>9, <2>10
  <1>. QED BY <1>8, <1>9

\* Any answer of the worker.
LEMMA HandledGood ==
    ASSUME Numbering, NEW s, NEW p, NEW e, NEW q, NEW f, NEW r, NEW x, Sound(s, p, e, r, x),
           Pop(p, q), Pop(e, f), s.out = <<>>
    PROVE  Good(s, Handled(s, p[1], e[1].result), q, f, r, x)
  <1>1. p[1].kind \in {"spawn", "attach", "create", "close", "render", "replace", "navigate",
                       "cancel", "reset"}
    <2>1. p[1].kind \in Kinds
      BY HeadIs
    <2>. QED BY <2>1 DEF Kinds, Starting, Working
  <1>2. CASE p[1].kind = "spawn"
    <2>1. Handled(s, p[1], e[1].result) = GpuReady(s, p[1], e[1].result)
      BY <1>2 DEF Handled
    <2>. QED BY <1>2, <2>1, GpuReadyGood
  <1>3. CASE p[1].kind = "attach"
    <2>1. Handled(s, p[1], e[1].result) = Initialized(s, p[1], e[1].result)
      BY <1>3 DEF Handled
    <2>. QED BY <1>3, <2>1, InitializedGood
  <1>4. CASE p[1].kind = "create"
    <2>1. Handled(s, p[1], e[1].result) = ViewCreated(s, p[1], e[1].result)
      BY <1>4 DEF Handled
    <2>. QED BY <1>4, <2>1, ViewCreatedGood
  <1>5. CASE p[1].kind = "close"
    <2>1. Handled(s, p[1], e[1].result) = ViewClosed(s, p[1], e[1].result)
      BY <1>5 DEF Handled
    <2>. QED BY <1>5, <2>1, ViewClosedGood
  <1>6. CASE p[1].kind = "render"
    <2>1. Handled(s, p[1], e[1].result) = FrameFinished(s, p[1], e[1].result)
      BY <1>6 DEF Handled
    <2>. QED BY <1>6, <2>1, FrameFinishedGood
  <1>7. CASE p[1].kind = "replace"
    <2>1. Handled(s, p[1], e[1].result) = SurfaceReplaced(s, p[1], e[1].result)
      BY <1>7 DEF Handled
    <2>. QED BY <1>7, <2>1, SurfaceReplacedGood
  <1>8. CASE p[1].kind = "navigate"
    <2>1. Handled(s, p[1], e[1].result) = NavigationFinished(s, p[1], e[1].result)
      BY <1>8 DEF Handled
    <2>. QED BY <1>8, <2>1, NavigationFinishedGood
  <1>9. CASE p[1].kind = "cancel"
    <2>1. Handled(s, p[1], e[1].result) = NavigationCancelled(s, p[1], e[1].result)
      BY <1>9 DEF Handled
    <2>. QED BY <1>9, <2>1, NavigationCancelledGood
  <1>10. CASE p[1].kind = "reset"
    <2>1. Handled(s, p[1], e[1].result) = SessionReset(s, p[1], e[1].result)
      BY <1>10 DEF Handled
    <2>. QED BY <1>10, <2>1, SessionResetGood
  <1>. QED BY <1>1, <1>2, <1>3, <1>4, <1>5, <1>6, <1>7, <1>8, <1>9, <1>10

-----------------------------------------------------------------------------
(* Requests have numbers.                                                  *)

\* The commands in the worker's hands are those of the pipe.
LEMMA CommandsAre ==
    ASSUME HandTypes
    PROVE  /\ Commands = {InHand[i] : i \in 1 .. Len(InHand)}
           /\ Len(InHand) \in Nat /\ Pipes(InHand, events)
           /\ \A i \in 1 .. Len(InHand) : InHand[i] \in Command
  <1>1. Laid(InHand, events, busy, queue)
    BY HandIs
  <1>2. /\ Len(events) \in Nat /\ Len(InHand) \in Nat
        /\ Len(InHand) = Len(events) + Len(busy) + Len(queue)
        /\ busy \in Seq(Command) /\ queue \in Seq(Asked) /\ events \in Seq(Reply)
        /\ busy # <<>> => Len(busy) = 1
        /\ busy = <<>> => Len(busy) = 0
        /\ queue # <<>> => Len(queue) = 1
        /\ queue = <<>> => Len(queue) = 0
    BY <1>1 DEF Laid, HandTypes, Slot
  <1>3. /\ Range(events) = {events[i] : i \in 1 .. Len(events)}
        /\ Range(busy) = {busy[i] : i \in 1 .. Len(busy)}
        /\ Range(queue) = {queue[i] : i \in 1 .. Len(queue)}
    BY <1>2 DEF Range
  <1>4. ASSUME NEW c \in Commands PROVE c \in {InHand[i] : i \in 1 .. Len(InHand)}
    <2>1. CASE c \in Range(queue)
      <3>1. queue # <<>> /\ c = queue[1]
        BY <1>2, <1>3, <2>1
      <3>2. c = InHand[Len(InHand)] /\ Len(InHand) \in 1 .. Len(InHand)
        BY <1>1, <1>2, <3>1 DEF Laid
      <3>. QED BY <3>2
    <2>2. CASE c \in Range(busy)
      <3>1. busy # <<>> /\ c = busy[1]
        BY <1>2, <1>3, <2>2
      <3>2. c = InHand[Len(events) + 1] /\ Len(events) + 1 \in 1 .. Len(InHand)
        BY <1>1, <1>2, <3>1 DEF Laid
      <3>. QED BY <3>2
    <2>3. CASE c \in {e.of : e \in Range(events)}
      <3>1. PICK i \in 1 .. Len(events) : c = events[i].of
        BY <1>3, <2>3
      <3>2. c = InHand[i] /\ i \in 1 .. Len(InHand)
        BY <1>1, <1>2, <3>1 DEF Laid
      <3>. QED BY <3>2
    <2>. QED BY <1>4, <2>1, <2>2, <2>3 DEF Commands
  <1>5. ASSUME NEW i \in 1 .. Len(InHand) PROVE InHand[i] \in Commands
    <2>1. \/ i \in 1 .. Len(events)
          \/ busy # <<>> /\ i = Len(events) + 1
          \/ queue # <<>> /\ i = Len(InHand)
      BY <1>1 DEF Laid
    <2>2. CASE i \in 1 .. Len(events)
      <3>1. InHand[i] = events[i].of /\ events[i] \in Range(events)
        BY <1>1, <1>3, <2>2 DEF Laid
      <3>. QED BY <3>1 DEF Commands
    <2>3. CASE busy # <<>> /\ i = Len(events) + 1
      <3>1. InHand[i] = busy[1] /\ busy[1] \in Range(busy)
        BY <1>1, <1>2, <1>3, <2>3 DEF Laid
      <3>. QED BY <3>1 DEF Commands
    <2>4. CASE queue # <<>> /\ i = Len(InHand)
      <3>1. InHand[i] = queue[1] /\ queue[1] \in Range(queue)
        BY <1>1, <1>2, <1>3, <2>4 DEF Laid
      <3>. QED BY <3>1 DEF Commands
    <2>. QED BY <2>1, <2>2, <2>3, <2>4
  <1>6. Commands = {InHand[i] : i \in 1 .. Len(InHand)}
    BY <1>4, <1>5
  <1>7. Pipes(InHand, events) /\ \A i \in 1 .. Len(InHand) : InHand[i] \in Command
    BY <1>1 DEF Laid, Pipes
  <1>. QED BY <1>2, <1>6, <1>7

\* Among enough numbers there is one that is not taken.
LEMMA NumberIsFree ==
    ASSUME NEW K, IsFiniteSet(K)
    PROVE  \E id \in 1 .. Cardinality(K) + 1 : id \notin K
  <1> DEFINE n == Cardinality(K)
  <1>1. n \in Nat
    BY FS_CardinalityType
  <1>2. SUFFICES ASSUME \A id \in 1 .. n + 1 : id \in K PROVE FALSE
    OBVIOUS
  <1> HIDE DEF n
  <1>3. 1 .. n + 1 \in SUBSET K
    BY <1>2
  <1>4. Cardinality(1 .. n + 1) <= Cardinality(K)
    BY <1>3, FS_Subset
  <1>5. 1 \in Int /\ n + 1 \in Int
    BY <1>1
  <1>6. Cardinality(1 .. n + 1) = IF 1 > n + 1 THEN 0 ELSE (n + 1) - 1 + 1
    BY <1>5, FS_Interval
  <1>7. Cardinality(1 .. n + 1) = n + 1
    BY <1>1, <1>6
  <1>8. n + 1 <= n
    BY <1>4, <1>7 DEF n
  <1>. QED BY <1>1, <1>8

LEMMA NumbersAre ==
    ASSUME HandTypes
    PROVE  Numbering
  <1> DEFINE n == Len(InHand)
             ids == {c.id : c \in Commands}
             number == [i \in 1 .. n |-> InHand[i].id]
  <1>1. n \in Nat /\ Commands = {InHand[i] : i \in 1 .. n}
    BY CommandsAre
  <1> HIDE DEF n
  <1>2. number \in Surjection(1 .. n, ids)
    <2>1. number \in [1 .. n -> ids]
      BY <1>1
    <2>2. ASSUME NEW id \in ids PROVE \E i \in 1 .. n : number[i] = id
      BY <1>1
    <2>. QED BY <2>1, <2>2 DEF Surjection
  <1>3. IsFiniteSet(1 .. n)
    BY <1>1, FS_Interval
  <1>4. IsFiniteSet(ids)
    BY <1>2, <1>3, FS_Surjection
  <1> HIDE DEF ids, number
  <1>5. ASSUME NEW s \in Shell PROVE NextRequest(s) \in Nat \ {0}
    <2> DEFINE K == KnownRequests(s)
               few == {s.init, s.frame, s.surface, s.reset, s.creating.id}
    <2>1. K = few \cup ids
      BY DEF KnownRequests, ids
    <2>2. IsFiniteSet(few)
      <3>1. IsFiniteSet({s.init})
        BY FS_Singleton
      <3>2. IsFiniteSet({s.init} \cup {s.frame})
        BY <3>1, FS_AddElement
      <3>3. IsFiniteSet({s.init} \cup {s.frame} \cup {s.surface})
        BY <3>2, FS_AddElement
      <3>4. IsFiniteSet({s.init} \cup {s.frame} \cup {s.surface} \cup {s.reset})
        BY <3>3, FS_AddElement
      <3>5. IsFiniteSet({s.init} \cup {s.frame} \cup {s.surface} \cup {s.reset} \cup {s.creating.id})
        BY <3>4, FS_AddElement
      <3>6. few = {s.init} \cup {s.frame} \cup {s.surface} \cup {s.reset} \cup {s.creating.id}
        OBVIOUS
      <3>. QED BY <3>5, <3>6
    <2>3. IsFiniteSet(K)
      <3> HIDE DEF few, K
      <3>. QED BY <1>4, <2>1, <2>2, FS_Union
    <2>4. NextRequest(s) = CHOOSE id \in 1 .. Cardinality(K) + 1 : id \notin K
      BY DEF NextRequest
    <2> HIDE DEF K
    <2>5. \E id \in 1 .. Cardinality(K) + 1 : id \notin K
      BY <2>3, NumberIsFree
    <2>6. NextRequest(s) \in 1 .. Cardinality(K) + 1
      BY <2>4, <2>5
    <2>7. Cardinality(K) \in Nat
      BY <2>3, FS_CardinalityType
    <2>. QED BY <2>6, <2>7
  <1>. QED BY <1>5 DEF Numbering

-----------------------------------------------------------------------------
(* When the shell is shut down the worker may still answer.                *)

\* No navigation is refused, nor will the one being executed be.
Safe ==
    /\ \A i \in 1 .. Len(events) :
          events[i].of.kind = "navigate" => events[i].result # "refused"
    /\ busy # <<>> /\ busy[1].kind = "navigate" =>
          /\ busy[1].target.tab \in render.views
          /\ busy[1].local => render.pending[busy[1].target.tab] = NoTarget

LEMMA ServingIsSafe ==
    ASSUME HandTypes, Serving
    PROVE  Safe
  <1>1. ASSUME NEW i \in 1 .. Len(events), events[i].of.kind = "navigate"
        PROVE  events[i].result # "refused"
    <2>1. Laid(InHand, events, busy, queue)
      BY HandIs
    <2>2. InHand[i].kind = "navigate"
      BY <1>1, <2>1 DEF Laid
    <2>. QED BY <2>2 DEF Serving, Sound, SoundButDrawn, Ordered
  <1>2. busy # <<>> /\ busy[1].kind = "navigate" =>
          /\ busy[1].target.tab \in render.views
          /\ busy[1].local => render.pending[busy[1].target.tab] = NoTarget
    BY NavigationFits
  <1>. QED BY <1>1, <1>2 DEF Safe

\* An answer is handled.
LEMMA TailSafe ==
    ASSUME HandTypes, Safe, events # <<>>, events' = Tail(events),
           UNCHANGED <<busy, render>>
    PROVE  Safe'
  <1>1. events \in Seq(Reply)
    BY DEF HandTypes
  <1>2. Len(events') = Len(events) - 1 /\ Len(events) \in Nat
        /\ \A i \in 1 .. Len(events') : i + 1 \in 1 .. Len(events) /\ events'[i] = events[i + 1]
    BY <1>1
  <1>. QED BY <1>2 DEF Safe

\* An answer is given.
LEMMA AppendSafe ==
    ASSUME HandTypes, Safe, NEW c \in Command, NEW w \in Results(c.kind),
           c.kind = "navigate" => w # "refused",
           events' = Append(events, [of |-> c, result |-> w]), busy' = <<>>
    PROVE  Safe' /\ events' \in Seq(Reply)
  <1> DEFINE e == [of |-> c, result |-> w]
  <1>1. e \in Reply
    BY DEF Reply, Results
  <1>2. e.of = c /\ e.result = w
    OBVIOUS
  <1> HIDE DEF e
  <1>3. events \in Seq(Reply) /\ events' = Append(events, e)
    BY DEF HandTypes, e
  <1>4. events' \in Seq(Reply)
    BY <1>1, <1>3
  <1>5. Len(events') = Len(events) + 1 /\ Len(events) \in Nat /\ events'[Len(events) + 1] = e
        /\ \A i \in 1 .. Len(events) : events'[i] = events[i]
    BY <1>1, <1>3
  <1>6. ASSUME NEW i \in 1 .. Len(events'), events'[i].of.kind = "navigate"
        PROVE  events'[i].result # "refused"
    <2>1. CASE i \in 1 .. Len(events)
      BY <1>5, <1>6, <2>1 DEF Safe
    <2>2. CASE i = Len(events) + 1
      BY <1>2, <1>5, <1>6, <2>2
    <2>. QED BY <1>5, <2>1, <2>2
  <1>7. Safe'
    BY <1>6 DEF Safe
  <1>. QED BY <1>4, <1>7

LEMMA AnswerSafe ==
    ASSUME HandTypes, Safe, busy # <<>>, NEW w \in Results(busy[1].kind), Answer(w),
           render' \in Worker, losses' \in 0 .. MaxLosses,
           busy[1].kind = "navigate" => w # "refused"
    PROVE  HandTypes' /\ Safe'
  <1>1. busy[1] \in Command
    BY SlotIs DEF HandTypes
  <1>2. busy' = <<>> /\ events' = Append(events, [of |-> busy[1], result |-> w])
    BY DEF Answer
  <1>3. events' \in Seq(Reply) /\ Slot(busy', Command) /\ Slot(queue', Asked)
    BY AnswerIs
  <1>4. Safe'
    BY <1>1, <1>2, AppendSafe
  <1>. QED BY <1>3, <1>4 DEF HandTypes

LEMMA LeaveSafe ==
    ASSUME HandTypes, Safe, Leave
    PROVE  HandTypes' /\ Safe'
  <1>1. /\ render' = [render EXCEPT !.runs = FALSE] /\ busy' = <<>> /\ queue' = <<>>
        /\ losses' = losses
        /\ \/ events' = events
           \/ busy # <<>> /\ events' = Append(events, [of |-> busy[1], result |-> "cancelled"])
    BY DEF Leave
  <1>2. Slot(<<>>, Command) /\ Slot(<<>>, Asked)
    BY DEF Slot
  <1>3. Slot(busy', Command) /\ Slot(queue', Asked)
    BY <1>1, <1>2
  <1>4. render \in Worker /\ losses \in 0 .. MaxLosses
    BY DEF HandTypes
  <1>5. /\ render' \in Worker /\ losses' \in 0 .. MaxLosses
        /\ Slot(busy', Command) /\ Slot(queue', Asked)
    BY <1>1, <1>3, <1>4 DEF Worker
  <1>6. CASE events' = events
    BY <1>1, <1>5, <1>6 DEF HandTypes, Safe
  <1>7. CASE busy # <<>> /\ events' = Append(events, [of |-> busy[1], result |-> "cancelled"])
    <2>1. busy[1] \in Command
      BY <1>7, SlotIs DEF HandTypes
    <2>2. "cancelled" \in Results(busy[1].kind)
      BY <2>1, CommandIs, ResultsAre
    <2>3. Safe' /\ events' \in Seq(Reply)
      BY <1>1, <1>7, <2>1, <2>2, AppendSafe
    <2>. QED BY <1>5, <2>3 DEF HandTypes
  <1>. QED BY <1>1, <1>6, <1>7

LEMMA EndsSafe ==
    ASSUME HandTypes, Safe, NEW t \in Tab, NavigationEnds(t)
    PROVE  HandTypes' /\ Safe'
  <1> DEFINE c == Navigate(render.pending[t], FALSE)
  <1>1. /\ busy = <<>> /\ busy' = <<>> /\ render.pending[t] # NoTarget
        /\ render' = [render EXCEPT !.pending[t] = NoTarget]
        /\ UNCHANGED <<queue, losses>>
    BY DEF NavigationEnds
  <1>2. /\ render \in Worker /\ Slot(queue, Asked) /\ Slot(busy, Command)
        /\ losses \in 0 .. MaxLosses
    BY DEF HandTypes
  <1>3. c \in Command /\ c.kind = "navigate"
    <2>1. render.pending[t] \in Target
      BY <1>1, <1>2 DEF Worker
    <2>. QED BY <2>1, IsCommand DEF Navigate
  <1>4. PICK w \in {"ok", "unreachable", "stale"} \cup Outcome :
           events' = Append(events, [of |-> c, result |-> w])
    BY DEF NavigationEnds
  <1>5. w \in Results(c.kind) /\ w # "refused"
    BY <1>3, ResultsAre DEF Kinds
  <1> HIDE DEF c
  <1>6. Safe' /\ events' \in Seq(Reply)
    BY <1>1, <1>3, <1>4, <1>5, AppendSafe
  <1>7. render' \in Worker
    BY <1>1, <1>2 DEF Worker
  <1>. QED BY <1>1, <1>2, <1>6, <1>7 DEF HandTypes

\* What a step of the worker leaves that answers the command being executed.
Answering ==
    /\ busy # <<>>
    /\ \E w \in Results(busy[1].kind) :
          Answer(w) /\ (busy[1].kind = "navigate" => w # "refused")
    /\ render' \in Worker /\ losses' \in 0 .. MaxLosses

LEMMA AnsweringSafe ==
    ASSUME HandTypes, Safe, Answering
    PROVE  HandTypes' /\ Safe'
  <1>1. PICK w \in Results(busy[1].kind) :
           Answer(w) /\ (busy[1].kind = "navigate" => w # "refused")
    BY DEF Answering
  <1>2. busy # <<>> /\ render' \in Worker /\ losses' \in 0 .. MaxLosses
    BY DEF Answering
  <1>. QED BY <1>1, <1>2, AnswerSafe

LEMMA ExecuteSafe ==
    ASSUME HandTypes, Safe, Start \/ Execute
    PROVE  HandTypes' /\ Safe'
  <1>1. /\ render \in Worker /\ losses \in 0 .. MaxLosses /\ MaxLosses \in Nat
    BY WorkerConstants DEF HandTypes
  <1>2. busy # <<>> => busy[1] \in Command
    BY SlotIs DEF HandTypes
  <1>3. /\ Outcome \subseteq {"ok", "failed"}
        /\ busy # <<>> => /\ busy[1].kind \in Kinds
                          /\ {"ok", "failed", "refused", "cancelled"} \subseteq Results(busy[1].kind)
        /\ "lost" \in Results("render") /\ "no" \in Results("cancel")
        /\ "surfaceless" \in Results("reset")
    BY <1>2, CommandIs, ResultsAre
  <1>4. ASSUME Refuse, busy # <<>>, busy[1].kind # "navigate" PROVE Answering
    BY <1>1, <1>3, <1>4 DEF Refuse, Answering
  <1>5. ASSUME Start PROVE Answering
    <2>1. PICK w \in Outcome :
             Answer(w) /\ render' = [render EXCEPT !.runs = w = "ok", !.views = {render.tab}]
      BY <1>5 DEF Start
    <2>2. busy # <<>> /\ losses' = losses
      BY <1>5 DEF Start, Executing
    <2>3. render' \in Worker
      BY <1>1, <2>1 DEF Worker
    <2>. QED BY <1>1, <1>3, <2>1, <2>2, <2>3 DEF Answering
  <1>6. ASSUME AttachSurface PROVE Answering
    <2>1. busy # <<>> /\ busy[1].kind = "attach"
      BY <1>6 DEF AttachSurface, Executing
    <2>2. CASE Refuse
      BY <1>4, <2>1, <2>2
    <2>3. CASE Answer("ok") /\ render' = [render EXCEPT !.attached = TRUE] /\ losses' = losses
      BY <1>1, <1>3, <2>1, <2>3 DEF Answering, Worker
    <2>. QED BY <1>6, <2>2, <2>3 DEF AttachSurface
  <1>7. ASSUME OpenView PROVE Answering
    <2>1. busy # <<>> /\ busy[1].kind = "create"
      BY <1>7 DEF OpenView, Executing
    <2>2. CASE Refuse
      BY <1>4, <2>1, <2>2
    <2>3. CASE ~Refuse
      <3>1. PICK w \in Outcome :
               /\ Answer(w) /\ losses' = losses
               /\ render' = IF w = "ok" THEN [render EXCEPT !.views = @ \cup {busy[1].tab}]
                            ELSE render
        BY <1>7, <2>3 DEF OpenView
      <3>2. busy[1].tab \in Tab
        BY <1>2, <2>1, CommandIs
      <3>3. render' \in Worker
        BY <1>1, <3>1, <3>2 DEF Worker
      <3>. QED BY <1>1, <1>3, <2>1, <3>1, <3>3 DEF Answering
    <2>. QED BY <2>2, <2>3
  <1>8. ASSUME RetireView PROVE Answering
    <2>1. busy # <<>> /\ busy[1].kind = "close"
      BY <1>8 DEF RetireView, Executing
    <2>2. CASE Refuse
      BY <1>4, <2>1, <2>2
    <2>3. CASE ~Refuse
      <3>1. PICK w \in Outcome :
               /\ Answer(w) /\ losses' = losses
               /\ render' = [render EXCEPT !.views = @ \ {busy[1].tab},
                                           !.pending[busy[1].tab] = NoTarget]
        BY <1>8, <2>3 DEF RetireView
      <3>2. render' \in Worker
        BY <1>1, <3>1 DEF Worker
      <3>. QED BY <1>1, <1>3, <2>1, <3>1, <3>2 DEF Answering
    <2>. QED BY <2>2, <2>3
  <1>9. ASSUME DrawFrame PROVE Answering
    <2>1. busy # <<>> /\ busy[1].kind = "render"
      BY <1>9 DEF DrawFrame, Executing
    <2>2. CASE Refuse
      BY <1>4, <2>1, <2>2
    <2>3. CASE ~Refuse
      <3>1. PICK w \in {"ok"} \cup (IF losses < MaxLosses THEN {"lost"} ELSE {}) \cup Outcome :
               /\ Answer(w)
               /\ render' = [render EXCEPT !.tab = busy[1].permit.tab,
                                           !.generation = busy[1].permit.generation]
               /\ losses' = CASE w = "ok" -> 0 [] w = "lost" -> losses + 1 [] OTHER -> losses
        BY <1>9, <2>3 DEF DrawFrame
      <3>2. busy[1].permit \in Permit
        BY <1>2, <2>1, CommandIs
      <3>3. busy[1].permit.tab \in Tab /\ busy[1].permit.generation \in Nat
        BY <3>2 DEF Permit
      <3>4. render' \in Worker
        BY <1>1, <3>1, <3>3 DEF Worker
      <3>5. w \in {"ok", "failed", "lost"} /\ (w = "lost" => losses < MaxLosses)
        BY <1>3, <3>1
      <3>6. losses' \in 0 .. MaxLosses /\ w \in Results(busy[1].kind)
        BY <1>1, <1>3, <2>1, <3>1, <3>5
      <3>. QED BY <2>1, <3>1, <3>4, <3>6 DEF Answering
    <2>. QED BY <2>2, <2>3
  <1>10. ASSUME ChangeSurface PROVE Answering
    <2>1. busy # <<>> /\ busy[1].kind = "replace"
      BY <1>10 DEF ChangeSurface, Executing
    <2>2. CASE Refuse
      BY <1>4, <2>1, <2>2
    <2>3. CASE ~Refuse
      <3>1. PICK w \in Outcome : Answer(w) /\ losses' = losses /\ render' = render
        BY <1>10, <2>3 DEF ChangeSurface
      <3>. QED BY <1>1, <1>3, <2>1, <3>1 DEF Answering
    <2>. QED BY <2>2, <2>3
  <1>11. ASSUME LoadLocal PROVE Answering
    <2>1. busy # <<>> /\ busy[1].kind = "navigate" /\ busy[1].local
      BY <1>11 DEF LoadLocal, Executing
    <2>2. busy[1].target.tab \in render.views /\ render.pending[busy[1].target.tab] = NoTarget
      BY <2>1 DEF Safe
    <2>3. PICK w \in Outcome : Answer(w) /\ losses' = losses /\ render' = render
      BY <1>11, <2>2 DEF LoadLocal
    <2>4. w # "refused" /\ w \in Results(busy[1].kind)
      BY <1>3, <2>1
    <2>. QED BY <1>1, <2>1, <2>3, <2>4 DEF Answering
  <1>12. ASSUME CancelNavigation PROVE Answering
    <2>1. busy # <<>> /\ busy[1].kind = "cancel" /\ losses' = losses
      BY <1>12 DEF CancelNavigation, Executing
    <2>2. PICK w \in {"no"} \cup Outcome :
             Answer(w) /\ render' \in {render, [render EXCEPT !.pending[busy[1].target.tab] = NoTarget]}
      BY <1>12 DEF CancelNavigation
    <2>3. w \in Results(busy[1].kind)
      BY <1>3, <2>1
    <2>4. render' \in Worker
      BY <1>1, <2>2 DEF Worker
    <2>. QED BY <1>1, <2>1, <2>2, <2>3, <2>4 DEF Answering
  <1>13. ASSUME ResetSession PROVE Answering
    <2>1. busy # <<>> /\ busy[1].kind = "reset"
      BY <1>13 DEF ResetSession, Executing
    <2>2. CASE Refuse
      BY <1>4, <2>1, <2>2
    <2>3. CASE /\ Answer(IF render.attached THEN "ok" ELSE "surfaceless")
               /\ render' = [render EXCEPT !.session = @ + 1, !.tab = busy[1].tab,
                                           !.generation = busy[1].generation,
                                           !.views = {busy[1].tab}]
               /\ losses' = losses
      <3>1. busy[1].tab \in Tab /\ busy[1].generation \in Nat
        BY <1>2, <2>1, CommandIs DEF Working
      <3>2. render.session + 1 \in Nat /\ {busy[1].tab} \subseteq Tab
        BY <1>1, <3>1 DEF Worker
      <3>3. render' \in Worker
        BY <1>1, <2>3, <3>1, <3>2 DEF Worker
      <3>4. (IF render.attached THEN "ok" ELSE "surfaceless") \in Results(busy[1].kind)
        BY <1>3, <2>1
      <3>. QED BY <1>1, <2>1, <2>3, <3>3, <3>4 DEF Answering
    <2>4. CASE Answer("failed") /\ render' = render /\ losses' = losses
      BY <1>1, <1>3, <2>1, <2>4 DEF Answering
    <2>. QED BY <1>13, <2>2, <2>3, <2>4 DEF ResetSession
  <1>14. ASSUME BeginNavigation PROVE HandTypes' /\ Safe'
    <2> DEFINE target == busy[1].target
    <2>1. busy # <<>> /\ busy[1].kind = "navigate" /\ ~busy[1].local
      BY <1>14 DEF BeginNavigation, Executing
    <2>2. target \in Target /\ target.tab \in render.views
      BY <1>2, <2>1, CommandIs DEF Safe
    <2>3. CASE /\ busy' = <<>>
               /\ render' = [render EXCEPT !.pending[target.tab] = target]
               /\ UNCHANGED <<queue, events, losses>>
      <3>1. render' \in Worker
        BY <1>1, <2>2, <2>3 DEF Worker
      <3>2. Slot(busy', Command)
        BY <2>3 DEF Slot
      <3>. QED BY <2>3, <3>1, <3>2 DEF HandTypes, Safe
    <2>4. CASE /\ Answer("failed") /\ losses' = losses
               /\ render' = [render EXCEPT !.pending[target.tab] = NoTarget]
      <3>1. render' \in Worker
        BY <1>1, <2>4 DEF Worker
      <3>2. Answering
        BY <1>1, <1>3, <2>1, <2>4, <3>1 DEF Answering
      <3>. QED BY <3>2, AnsweringSafe
    <2>. QED BY <1>14, <2>2, <2>3, <2>4 DEF BeginNavigation
  <1>15. Answering => HandTypes' /\ Safe'
    BY AnsweringSafe
  <1>. QED BY <1>5, <1>6, <1>7, <1>8, <1>9, <1>10, <1>11, <1>12, <1>13, <1>14, <1>15 DEF Execute

\* The worker's steps when the shell is shut down.
LEMMA WorkDown ==
    ASSUME HandTypes, Safe, cancelled, Work
    PROVE  HandTypes' /\ Safe' /\ cancelled' = cancelled
  <1>1. Start \/ Leave \/ Execute \/ \E t \in Tab : NavigationEnds(t)
    BY DEF Work, Receive
  <1>2. HandTypes' /\ Safe'
    BY <1>1, ExecuteSafe, LeaveSafe, EndsSafe
  <1>3. cancelled' = cancelled
    BY DEF Work, Start, Receive, Leave, Execute, NavigationEnds, AttachSurface, OpenView,
       RetireView, DrawFrame, ChangeSurface, LoadLocal, BeginNavigation, CancelNavigation,
       ResetSession, Refuse, Answer
  <1>. QED BY <1>2, <1>3

-----------------------------------------------------------------------------
(* The shell that is shut down, and the end of a handler.                  *)

\* Answers to a shell that is shut down leave it so.
LEMMA ClosedHandled ==
    ASSUME NEW s \in Shell, Closed(s), NEW c \in Command, NEW w \in Results(c.kind),
           c.kind = "navigate" => w # "refused"
    PROVE  Handled(s, c, w) \in Shell /\ Closed(Handled(s, c, w))
  <1>1. /\ c.kind \in Kinds /\ Made(s) /\ s \in Shell
        /\ c.kind \in Starting \cup Working => c.id # 0
        /\ c.kind = "close" => c.tab # NoTab
        /\ c.kind \in {"navigate", "cancel"} => c.target \in Target /\ c.target # NoTarget
    <2>1. \A u \in Tab : u # NoTab
      BY DEF Tab, NoTab
    <2>2. \A target \in Target : target # NoTarget
      BY <2>1 DEF Target, NoTarget
    <2>. QED BY <2>1, <2>2, CommandIs, ShellTypes
  <1>2. /\ s.init = 0 /\ s.frame = 0 /\ s.surface = 0 /\ s.reset = 0 /\ s.creating.id = 0
        /\ s.closing = NoTab /\ s.cancelling = NoTarget /\ s.tabs = <<>> /\ s.down
    BY DEF Closed, NotCreating
  <1>3. CASE c.kind # "navigate"
    <2>1. Handled(s, c, w) = s
      BY <1>1, <1>2, <1>3 DEF Handled, GpuReady, Initialized, ViewCreated, ViewClosed,
         FrameFinished, SurfaceReplaced, NavigationCancelled, SessionReset, Kinds, Starting,
         Working
    <2>. QED BY <2>1
  <1>4. CASE c.kind = "navigate" /\ w \notin {"ok", "unreachable", "stale"}
    <2> DEFINE t == [s EXCEPT !.fatal = IF @ = "none" THEN Why(w) ELSE @]
    <2>1. Handled(s, c, w) = t
      BY <1>2, <1>4 DEF Handled, NavigationFinished, Fail, Shutdown
    <2>2. Why(w) \in Fatal \ {"protocol"}
      BY <1>1, <1>4, WhyIs
    <2>3. (IF s.fatal = "none" THEN Why(w) ELSE s.fatal) \in Types.fatal
      BY <2>2, TypesAre DEF Shell
    <2>4. /\ Made(t) /\ Differ(s, t, {"fatal"})
          /\ t.fatal = IF s.fatal = "none" THEN Why(w) ELSE s.fatal
      BY <1>1 DEF Made, Fields, Differ
    <2>5. t \in Shell
      <3>1. /\ t.fatal \in Types.fatal
        BY <2>4, <2>3, TypesAre
      <3>2. {"fatal"} \subseteq Fields /\ \A field \in {"fatal"} : t[field] \in Types[field]
        BY <3>1 DEF Fields
      <3> HIDE DEF t
      <3>. QED BY <1>1, <2>4, <3>2, Retyped
    <2> HIDE DEF t
    <2>6. Closed(t)
      BY <2>4 DEF Closed, Differ, Fields
    <2>. QED BY <2>1, <2>5, <2>6 DEF t
  <1>5. CASE c.kind = "navigate" /\ w \in {"ok", "unreachable", "stale"}
    <2> DEFINE targets == [s.targets EXCEPT ![c.target.tab] = NoTarget]
               t == [s EXCEPT !.targets = targets]
    <2>1. Handled(s, c, w) = ForgetTarget(s, c.target)
      <3>1. ~Live(s, c.target.tab)
        BY <1>2 DEF Live, Range
      <3>. QED BY <1>5, <3>1 DEF Handled, NavigationFinished, CurrentTarget
    <2>2. targets \in Types.targets
      <3>1. s.targets \in [Tab -> Target \cup {NoTarget}]
        BY DEF Shell
      <3>. QED BY <3>1, TypesAre
    <2>3. Handled(s, c, w) \in {s, t}
      <3>1. [s EXCEPT !.targets[c.target.tab] = NoTarget] = t
        BY <1>1 DEF Made, Fields
      <3>. QED BY <2>1, <3>1 DEF ForgetTarget
    <2> HIDE DEF targets
    <2>4. /\ Made(t) /\ Differ(s, t, {"targets"})
          /\ t.targets = targets
      BY <1>1 DEF Made, Fields, Differ
    <2>5. t \in Shell
      <3>1. /\ t.targets \in Types.targets
        BY <2>4, <2>2, TypesAre
      <3>2. {"targets"} \subseteq Fields /\ \A field \in {"targets"} : t[field] \in Types[field]
        BY <3>1 DEF Fields
      <3> HIDE DEF t
      <3>. QED BY <1>1, <2>4, <3>2, Retyped
    <2> HIDE DEF t
    <2>6. Closed(t)
      BY <2>4 DEF Closed, Differ, Fields
    <2>. QED BY <2>3, <2>5, <2>6
  <1>. QED BY <1>3, <1>4, <1>5

\* A shell that is shut down sends nothing.
LEMMA BecomeClosed ==
    ASSUME HandTypes, NEW t \in Shell, Closed(t), Become(t)
    PROVE  shell' = t /\ queue' = queue /\ cancelled' = TRUE
  <1>1. Made(t) /\ t.out = <<>> /\ t.down = TRUE
    <2>1. t.down \in BOOLEAN
      BY DEF Shell
    <2>. QED BY <2>1, ShellTypes DEF Closed
  <1>2. /\ shell' = [t EXCEPT !.out = <<>>] /\ queue' = queue \o <<>> /\ cancelled' = TRUE
    BY <1>1 DEF Become
  <1>3. [t EXCEPT !.out = <<>>] = t
    BY <1>1 DEF Made, Fields
  <1>4. queue \o <<>> = queue
    BY DEF HandTypes, Slot
  <1>. QED BY <1>2, <1>3, <1>4

\* The shell and the worker agree, or the shell is shut down.
Agreed ==
    /\ shell \in Shell /\ shell.out = <<>> /\ shell.down = cancelled
    /\ IF shell.down THEN Closed(shell) /\ Safe ELSE Serving

\* The end of a handler that shuts down the shell.
LEMMA ClosedKeeps ==
    ASSUME HandTypes, NEW t \in Shell, Closed(t), Become(t), events' \in Seq(Reply),
           UNCHANGED <<busy, render, screen, losses>>, Safe'
    PROVE  HandTypes' /\ Agreed' /\ shell' = t
  <1>1. shell' = t /\ queue' = queue /\ cancelled' = TRUE
    BY BecomeClosed
  <1>2. t.down = TRUE /\ t.out = <<>>
    <2>1. t.down \in BOOLEAN
      BY DEF Shell
    <2>. QED BY <2>1 DEF Closed
  <1>3. HandTypes'
    BY <1>1 DEF HandTypes
  <1>4. /\ shell' \in Shell /\ shell'.out = <<>> /\ shell'.down = cancelled' /\ shell'.down
        /\ Closed(shell') /\ Safe'
    BY <1>1, <1>2
  <1>5. Closed(shell)' /\ (shell \in Shell)' /\ (shell.out = <<>>)' /\ (shell.down = cancelled)'
    BY <1>4 DEF Closed
  <1>. QED BY <1>1, <1>3, <1>4, <1>5 DEF Agreed

\* The end of any handler.
LEMMA BecomeKeeps ==
    ASSUME HandTypes, NEW s, NEW t,
           Good(s, t, PipeOf(events', busy, queue), events', render, screen),
           Become(t), events' \in Seq(Reply), UNCHANGED <<busy, render, screen, losses>>, Safe'
    PROVE  HandTypes' /\ Agreed' /\ Shows(s, shell')
  <1>1. t \in Shell /\ Shows(s, t) /\ t.down \in BOOLEAN /\ Made(t)
    BY ShellTypes DEF Good, Shell
  <1>2. CASE t.down
    <2>1. Closed(t)
      BY <1>2 DEF Good
    <2>. QED BY <1>1, <2>1, ClosedKeeps
  <1>3. CASE ~t.down /\ t.out # <<>> /\ QueueFull
    <2> DEFINE u == Fail(t, "full")
    <2>1. "full" \in Fatal \ {"protocol"}
      BY DEF Fatal
    <2>2. u \in Shell /\ Closed(u)
      BY <1>1, <1>3, <2>1, FailIs
    <2>3. u.out = <<>>
      BY <2>2 DEF Closed
    <2>4. Become(u)
      BY <1>3, <2>3 DEF Become
    <2> HIDE DEF u
    <2>5. HandTypes' /\ Agreed' /\ shell' = u
      BY <2>2, <2>4, ClosedKeeps
    <2>6. Shows(s, shell')
      BY <2>2, <2>5 DEF Shows, Closed
    <2>. QED BY <2>5, <2>6
  <1>4. CASE ~t.down /\ ~(t.out # <<>> /\ QueueFull)
    <2> DEFINE u == [t EXCEPT !.out = <<>>]
    <2>1. shell' = u /\ queue' = queue \o t.out /\ cancelled' = t.down
      BY <1>4 DEF Become
    <2>2. Made(u) /\ Differ(t, u, {"out"}) /\ u.out = <<>>
      BY <1>1 DEF Made, Fields, Differ
    <2>3. u \in Shell
      <3>1. u.out \in Types.out
        BY <2>2, TypesAre
      <3>2. {"out"} \subseteq Fields /\ \A field \in {"out"} : u[field] \in Types[field]
        BY <3>1 DEF Fields
      <3> HIDE DEF u
      <3>. QED BY <1>1, <2>2, <3>2, Retyped
    <2> HIDE DEF u
    <2>4. /\ Slot(queue', Asked)
          /\ Sound(t, PipeOf(events', busy, queue'), events', render, screen)
      <3>1. CASE t.out = <<>>
        <4>1. queue' = queue
          BY <2>1, <3>1 DEF HandTypes, Slot
        <4>. QED BY <1>4, <3>1, <4>1 DEF Good, Sending, HandTypes
      <3>2. CASE t.out # <<>>
        <4>1. PICK c \in Asked : t.out = <<c>>
          BY <1>1, <3>2 DEF Shell
        <4>2. queue = <<>>
          BY <1>4, <3>2 DEF HandTypes, Slot, QueueFull
        <4>3. queue' = <<c>>
          BY <2>1, <4>1, <4>2
        <4>4. Slot(queue', Asked) /\ c \in Command /\ t.out[1] = c
          BY <4>1, <4>3, OneIsSlot DEF Asked
        <4>5. Add(PipeOf(events', busy, <<>>), c, PipeOf(events', busy, <<c>>))
          BY <4>4, PipeSent DEF HandTypes
        <4>6. \A g : Add(PipeOf(events', busy, queue), t.out[1], g)
                     => Sound(t, g, events', render, screen)
          BY <1>4, <3>2 DEF Good, Sending
        <4>. QED BY <4>2, <4>3, <4>4, <4>5, <4>6
      <3>. QED BY <3>1, <3>2
    <2>5. /\ Sound(u, PipeOf(events', busy, queue'), events', render, screen) /\ ~u.down
          /\ Shows(s, u)
      <3>1. Differ(t, u, {"dirty", "redraw", "out"})
        BY <2>2 DEF Differ
      <3>. QED BY <1>1, <2>3, <2>4, <3>1, Redrawn
    <2>6. HandTypes'
      BY <2>4 DEF HandTypes
    <2>7. Sound(shell', PipeOf(events', busy', queue'), events', render', screen')
      BY <2>1, <2>5
    <2>8. Serving'
      BY <2>7 DEF Serving, InHand
    <2>9. t.down = FALSE /\ u.down = FALSE
      BY <1>1, <1>4, <2>2 DEF Differ, Fields
    <2>10. /\ shell' \in Shell /\ shell'.out = <<>> /\ shell'.down = cancelled' /\ ~shell'.down
      BY <2>1, <2>2, <2>3, <2>9
    <2>11. Agreed'
      BY <2>8, <2>10 DEF Agreed
    <2>. QED BY <2>1, <2>5, <2>6, <2>11
  <1>. QED BY <1>1, <1>2, <1>3, <1>4

-----------------------------------------------------------------------------
(* The initial state.                                                      *)

LEMMA NewShellIs ==
    /\ Made(NewShell) /\ \A field \in Fields \ Installed : NewShell[field] \in Types[field]
  <1>1. Made(NewShell)
    <2>1. DOMAIN NewShell = Fields
      BY DEF NewShell, Fields
    <2>2. NewShell = [field \in DOMAIN NewShell |-> NewShell[field]]
      BY DEF NewShell
    <2>. QED BY <2>1, <2>2 DEF Made
  <1>2. MaxSessions \in Nat \ {0}
    BY ShellConstants
  <1>3. /\ NewShell.down \in Types.down /\ NewShell.fatal \in Types.fatal
        /\ NewShell.session \in Types.session /\ NewShell.ready \in Types.ready
        /\ NewShell.init \in Types.init /\ NewShell.frame \in Types.frame
        /\ NewShell.surface \in Types.surface /\ NewShell.reset \in Types.reset
    BY <1>2, TypesAre DEF NewShell, Fatal
  <1>4. /\ NewShell.creating \in Types.creating /\ NewShell.closing \in Types.closing
        /\ NewShell.cancelling \in Types.cancelling /\ NewShell.targets \in Types.targets
        /\ NewShell.permit \in Types.permit /\ NewShell.recovery \in Types.recovery
    BY TypesAre DEF NewShell, NotCreating, Requested
  <1>5. /\ NewShell.visible \in Types.visible /\ NewShell.dirty \in Types.dirty
        /\ NewShell.redraw \in Types.redraw /\ NewShell.seeking \in Types.seeking
        /\ NewShell.unlocking \in Types.unlocking /\ NewShell.out \in Types.out
    BY TypesAre DEF NewShell
  <1>6. \A field \in Fields \ Installed : NewShell[field] \in Types[field]
    BY <1>3, <1>4, <1>5 DEF Fields, Installed
  <1>. QED BY <1>1, <1>6

\* The shell with the session it starts with.
LEMMA StartedIs ==
    ASSUME NEW stored \in Stored
    PROVE  LET t == Started(stored)
           IN  /\ t \in Shell /\ AsInstalled(t) /\ t.tab \in Tab
               /\ t.down = FALSE /\ t.session = 1 /\ t.ready = FALSE /\ t.init = 1
               /\ t.frame = 0 /\ t.surface = 0 /\ t.reset = 0 /\ t.out = <<>>
               /\ t.creating = NotCreating /\ t.closing = NoTab /\ t.cancelling = NoTarget
               /\ t.targets = [u \in Tab |-> NoTarget]
               /\ t.permit = NoPermit /\ t.recovery = NoPermit
               /\ t.seeking = FALSE
  <1> DEFINE t == Started(stored)
  <1>1. /\ Made(t) /\ AsInstalled(t) /\ Differ(NewShell, t, Installed)
        /\ Installed \subseteq Fields
        /\ \A field \in Installed : t[field] \in Types[field]
    BY NewShellIs, InstallIs DEF Started
  <1> HIDE DEF t
  <1>2. \A field \in Fields : t[field] \in Types[field]
    BY <1>1, NewShellIs DEF Differ
  <1>3. t \in Shell
    BY <1>1, <1>2, TypesShell
  <1>4. \A field \in {"down", "session", "ready", "init", "frame", "surface", "reset", "out",
                      "creating", "closing", "cancelling", "targets", "permit", "recovery",
                      "seeking"} : t[field] = NewShell[field]
    BY <1>1 DEF Differ, Fields, Installed
  <1>5. /\ t.down = FALSE /\ t.session = 1 /\ t.ready = FALSE /\ t.init = 1
        /\ t.frame = 0 /\ t.surface = 0 /\ t.reset = 0 /\ t.out = <<>>
        /\ t.seeking = FALSE
    BY <1>4 DEF NewShell
  <1>6. /\ t.creating = NotCreating /\ t.closing = NoTab /\ t.cancelling = NoTarget
        /\ t.targets = [u \in Tab |-> NoTarget]
        /\ t.permit = NoPermit /\ t.recovery = NoPermit
    BY <1>4 DEF NewShell
  <1>7. t.tab \in Tab
    BY <1>3 DEF Shell
  <1>. QED BY <1>1, <1>3, <1>5, <1>6, <1>7 DEF t

\* A worker that is to start, for the session installed.
LEMMA InitialSound ==
    ASSUME NEW t \in Shell, AsInstalled(t), t.tab \in Tab,
           t.down = FALSE, t.session = 1, t.ready = FALSE, t.init = 1,
           t.frame = 0, t.surface = 0, t.reset = 0,
           t.creating = NotCreating, t.closing = NoTab, t.cancelling = NoTarget,
           t.targets = [u \in Tab |-> NoTarget],
           t.permit = NoPermit, t.recovery = NoPermit, t.seeking = FALSE,
           NEW p, Len(p) = 1, NEW c \in Command, p[1] = c, c.kind = "spawn", c.id = 1,
           c.tab = t.tab, NEW e, Len(e) = 0, NEW r \in Worker, r.session = 1,
           r.tab = t.tab, r.generation = Gen(t), r.attached = FALSE,
           \A u \in Tab : r.pending[u] = NoTarget
    PROVE  Sound(t, p, e, r, NoPage)
  <1>1. /\ t.handoff.pending = NoIntent /\ t.handoff.represented = t.tab
        /\ t.handoff.content = t.tab /\ ~Switching(t)
    BY DEF AsInstalled, NewHandoff, Switching, Activating
  <1>2. \A i \in 1 .. Len(p) : i = 1 /\ p[i] = c /\ p[i].kind = "spawn"
    OBVIOUS
  <1>3. \A i \in 1 .. Len(e) : FALSE
    OBVIOUS
  <1>4. Pipes(p, e)
    BY <1>2, <1>3 DEF Pipes
  <1>5. Strip(t)
    BY DEF Strip, AsInstalled
  <1>6. Chrome(t)
    BY <1>1 DEF Chrome, AsInstalled
  <1>7. Exclusive(t)
    BY <1>1 DEF Exclusive
  <1>8. Loading(t)
    <2>1. \A u \in Range(t.tabs) : u \in Tab /\ t.targets[u] = NoTarget
      BY <1>5, TabsAre
    <2>2. t.tab \in Range(t.tabs)
      BY <1>5, TabsAre
    <2>. QED BY <2>1, <2>2 DEF Loading, AsInstalled
  <1>9. Matched(t, p)
    <2>1. Has(p, "spawn")
      BY DEF Has
    <2>2. \A i \in 1 .. Len(p) : Awaited(t, p[i])
      BY <1>2 DEF Awaited, Starting
    <2>. QED BY <1>2, <2>1, <2>2 DEF Matched
  <1>10. Alone(t, p, r)
    BY DEF Alone
  <1>11. InSession(t, p, e, r)
    <2>1. Has(p, "spawn")
      BY DEF Has
    <2>2. \A i \in 1 .. Len(p) : p[i].kind = "spawn" =>
             /\ ~r.attached /\ i <= Len(e) + 1 /\ AsStarted(r, p[i]) /\ ~(i <= Len(e))
      BY <1>2 DEF AsStarted
    <2>. QED BY <1>2, <2>1, <2>2 DEF InSession
  <1>12. Frames(t, p, e, r, NoPage)
    BY <1>1, <1>2 DEF Frames, AsInstalled
  <1>13. Retiring(t, p, r)
    BY <1>2 DEF Retiring
  <1>14. Painted(t, NoPage)
    BY DEF Painted
  <1>15. Views(t, p, e, r)
    <2>1. 1 \in 1 .. Len(p) /\ p[1].kind = "spawn" /\ 1 > Len(e)
      OBVIOUS
    <2>. QED BY <1>3, <2>1 DEF Views
  <1>16. Local(t, p, r)
    BY <1>2 DEF Local
  <1>17. Ordered(p, e, r)
    BY <1>2, <1>3 DEF Ordered, NavigatesTab
  <1>18. Stopped(p, e, r)
    BY <1>3 DEF Stopped
  <1>19. Owned(t, p, r)
    BY <1>2 DEF Owned
  <1>20. Answered(t, p, e, r)
    <2>1. \A u \in Range(t.tabs) : u \in Tab /\ t.targets[u] = NoTarget
      BY <1>5, TabsAre
    <2>. QED BY <1>2, <2>1 DEF Answered, NavigatesTab
  <1>21. Drawn(t, p)
    BY <1>1 DEF Drawn
  <1>. QED BY <1>4, <1>5, <1>6, <1>7, <1>8, <1>9, <1>10, <1>11, <1>12, <1>13, <1>14, <1>15,
              <1>16, <1>17, <1>18, <1>19, <1>20, <1>21
       DEF Sound, SoundButDrawn, SoundShell

LEMMA InitAgrees ==
    ASSUME Init
    PROVE  HandTypes /\ Agreed
  <1>1. PICK stored \in Stored :
           /\ shell = Started(stored) /\ WorkerInit(1, shell.tab, shell.handoff.generation)
    BY DEF Init
  <1> DEFINE c == Spawn(1, shell.tab, Gen(shell))
  <1>2. /\ shell \in Shell /\ AsInstalled(shell) /\ shell.tab \in Tab
        /\ shell.down = FALSE /\ shell.session = 1 /\ shell.ready = FALSE /\ shell.init = 1
        /\ shell.frame = 0 /\ shell.surface = 0 /\ shell.reset = 0 /\ shell.out = <<>>
        /\ shell.creating = NotCreating /\ shell.closing = NoTab
        /\ shell.cancelling = NoTarget
        /\ shell.targets = [u \in Tab |-> NoTarget]
        /\ shell.permit = NoPermit /\ shell.recovery = NoPermit
        /\ shell.seeking = FALSE
    BY <1>1, StartedIs
  <1>3. /\ queue = <<>> /\ busy = <<c>> /\ events = <<>> /\ screen = NoPage
        /\ losses = 0 /\ cancelled = FALSE
        /\ render = [runs |-> TRUE, session |-> 1, tab |-> shell.tab,
                     generation |-> Gen(shell), attached |-> FALSE, views |-> {},
                     pending |-> [t \in Tab |-> NoTarget]]
    BY <1>1 DEF WorkerInit, Gen
  <1>4. Gen(shell) \in Nat
    BY <1>2 DEF AsInstalled, NewHandoff, Gen
  <1>5. c \in Command /\ c.kind = "spawn" /\ c.id = 1 /\ c.tab = shell.tab
    BY <1>2, <1>4, IsCommand DEF Spawn
  <1>6. render \in Worker
    BY <1>2, <1>3, <1>4 DEF Worker
  <1>7. HandTypes
    <2>1. Slot(busy, Command)
      BY <1>3, <1>5, OneIsSlot
    <2>2. Slot(queue, Asked)
      BY <1>3 DEF Slot
    <2>3. MaxLosses \in Nat
      BY WorkerConstants
    <2>. QED BY <1>3, <1>6, <2>1, <2>2, <2>3 DEF HandTypes
  <1> HIDE DEF c
  <1>8. Len(InHand) = 1 /\ InHand[1] = c
    <2>1. Laid(InHand, events, busy, queue)
      BY <1>7, HandIs
    <2>2. Len(events) = 0 /\ Len(busy) = 1 /\ Len(queue) = 0 /\ busy # <<>> /\ busy[1] = c
      BY <1>3
    <2>. QED BY <2>1, <2>2 DEF Laid
  <1>9. Sound(shell, InHand, events, render, NoPage)
    <2>1. /\ Len(events) = 0 /\ render.session = 1 /\ render.tab = shell.tab
          /\ render.generation = Gen(shell) /\ render.attached = FALSE
          /\ \A u \in Tab : render.pending[u] = NoTarget
      BY <1>3
    <2>. QED BY <1>2, <1>5, <1>6, <1>8, <2>1, InitialSound
  <1>. QED BY <1>2, <1>3, <1>7, <1>9 DEF Agreed, Serving

-----------------------------------------------------------------------------
(* The steps.                                                              *)

LEMMA ServingIs ==
    ASSUME HandTypes, Agreed, ~shell.down
    PROVE  /\ Sound(shell, InHand, events, render, screen) /\ Serving /\ Safe /\ Numbering
           /\ shell \in Shell /\ shell.out = <<>> /\ shell.down = FALSE /\ ~cancelled
           /\ Shows(shell, shell)
  <1>1. Serving /\ shell \in Shell /\ shell.out = <<>> /\ shell.down = cancelled
    BY DEF Agreed
  <1>2. shell.down = FALSE
    BY <1>1 DEF Shell
  <1>3. Safe
    BY <1>1, ServingIsSafe
  <1>4. Numbering
    BY NumbersAre
  <1>. QED BY <1>1, <1>2, <1>3, <1>4 DEF Serving, Shows

\* What every step keeps.
Keeps == HandTypes' /\ Agreed' /\ Shows(shell, shell')

LEMMA CallbackKeeps ==
    ASSUME HandTypes, Agreed, NEW t, Callback(t),
           ~shell.down => Good(shell, t, InHand, events, render, screen)
    PROVE  Keeps
  <1>1. /\ ~shell.down /\ Become(t) /\ UNCHANGED <<busy, events, render, screen, losses>>
    BY DEF Callback
  <1>2. Safe'
    <2>1. Safe
      BY <1>1, ServingIs
    <2>. QED BY <1>1, <2>1 DEF Safe
  <1>3. Good(shell, t, PipeOf(events', busy, queue), events', render, screen)
    BY <1>1 DEF InHand
  <1>4. events' \in Seq(Reply)
    BY <1>1 DEF HandTypes
  <1>. QED BY <1>1, <1>2, <1>3, <1>4, BecomeKeeps DEF Keeps

LEMMA KeyKeeps ==
    ASSUME HandTypes, Agreed, NEW t, Key(t),
           ~shell.down /\ ~InTransition(shell) => Good(shell, t, InHand, events, render, screen)
    PROVE  Keeps
  <1>1. CASE InTransition(shell)
    <2>1. Callback(shell)
      BY <1>1 DEF Key, Input
    <2>2. ~shell.down => Good(shell, shell, InHand, events, render, screen)
      BY ServingIs, SoundIsGood
    <2>. QED BY <2>1, <2>2, CallbackKeeps
  <1>2. CASE ~InTransition(shell)
    <2>1. Callback(t)
      BY <1>2 DEF Key, Input
    <2>. QED BY <1>2, <2>1, CallbackKeeps
  <1>. QED BY <1>1, <1>2

LEMMA WorkerKeeps ==
    ASSUME HandTypes, Agreed, WorkerStep
    PROVE  Keeps
  <1>1. Work /\ shell' = shell
    BY DEF WorkerStep
  <1>2. Shows(shell, shell')
    BY <1>1 DEF Shows
  <1>3. CASE ~shell.down
    <2>1. HandTypes' /\ Serving' /\ cancelled' = cancelled
      BY <1>1, <1>3, ServingIs, WorkKeeps
    <2>2. Agreed'
      BY <1>1, <1>3, <2>1 DEF Agreed
    <2>. QED BY <1>2, <2>1, <2>2 DEF Keeps
  <1>4. CASE shell.down
    <2>1. Safe /\ cancelled
      BY <1>4 DEF Agreed
    <2>2. HandTypes' /\ Safe' /\ cancelled' = cancelled
      BY <1>1, <2>1, WorkDown
    <2>3. Agreed'
      BY <1>1, <1>4, <2>2 DEF Agreed, Closed
    <2>. QED BY <1>2, <2>2, <2>3 DEF Keeps
  <1>. QED BY <1>3, <1>4

LEMMA HandleKeeps ==
    ASSUME HandTypes, Agreed, HandleEvent
    PROVE  Keeps
  <1> DEFINE c == Head(events).of
             w == Head(events).result
             t == Handled(shell, c, w)
             q == PipeOf(events', busy, queue)
  <1>1. /\ events # <<>> /\ events' = Tail(events)
        /\ Become(t)
        /\ UNCHANGED <<busy, render, screen, losses>>
    BY DEF HandleEvent
  <1>2. Safe
    BY ServingIs DEF Agreed
  <1>3. Safe'
    BY <1>1, <1>2, TailSafe
  <1>4. /\ events' \in Seq(Reply) /\ Head(events) = events[1]
        /\ c \in Command /\ w \in Results(c.kind)
        /\ Pop(InHand, q) /\ Pop(events, events')
        /\ InHand[1] = c
    <2>1. Slot(queue, Command)
      BY QueueIs DEF HandTypes
    <2>. QED BY <1>1, <2>1, PipeHandled DEF HandTypes, InHand
  <1>5. CASE ~shell.down
    <2>1. Good(shell, Handled(shell, InHand[1], events[1].result), q, events', render, screen)
      BY <1>4, <1>5, ServingIs, HandledGood
    <2>2. Good(shell, t, q, events', render, screen)
      BY <1>4, <2>1
    <2> HIDE DEF t
    <2>. QED BY <1>1, <1>3, <1>4, <2>2, BecomeKeeps DEF Keeps
  <1>6. CASE shell.down
    <2>1. shell \in Shell /\ Closed(shell)
      BY <1>6 DEF Agreed
    <2>2. c.kind = "navigate" => w # "refused"
      <3>1. 1 \in 1 .. Len(events)
        BY <1>1 DEF HandTypes
      <3>. QED BY <1>2, <1>4, <3>1 DEF Safe
    <2>3. t \in Shell /\ Closed(t)
      BY <1>4, <2>1, <2>2, ClosedHandled
    <2> HIDE DEF t
    <2>4. HandTypes' /\ Agreed' /\ shell' = t
      BY <1>1, <1>3, <1>4, <2>3, ClosedKeeps
    <2>5. Shows(shell, shell')
      BY <2>3, <2>4 DEF Shows, Closed
    <2>. QED BY <2>4, <2>5 DEF Keeps
  <1>. QED BY <1>5, <1>6

LEMMA PressKeeps ==
    ASSUME HandTypes, Agreed,
           \/ PressNewTab \/ PressCloseTab \/ PressCycleTab \/ PressReload
           \/ PressEscape \/ PressCycleProfile
    PROVE  Keeps
  <1>1. shell \in Shell
    BY DEF Agreed
  <1>2. InTransition(shell) \/ shell.reset = 0
    BY DEF InTransition
  <1>3. CASE PressNewTab
    <2>1. shell.nextTab \in Tab /\ Key(NewTab(shell))
      <3>1. shell.nextTab \in 1 .. MaxTabs + 1 /\ MaxTabs \in Nat
        BY <1>1, HandoffConstants DEF Shell
      <3>. QED BY <1>3, <3>1 DEF PressNewTab, Tab
    <2>2. ~shell.down => Good(shell, NewTab(shell), InHand, events, render, screen)
      BY <2>1, ServingIs, NewTabGood
    <2>. QED BY <2>1, <2>2, KeyKeeps
  <1>4. CASE PressCloseTab
    <2>1. ~shell.down /\ ~InTransition(shell)
          => Good(shell, CloseTab(shell), InHand, events, render, screen)
      BY <1>2, ServingIs, CloseTabGood
    <2>. QED BY <1>4, <2>1, KeyKeeps DEF PressCloseTab
  <1>5. CASE PressCycleTab
    <2>1. PICK step \in {1, Len(shell.tabs) - 1} : Key(CycleTab(shell, step))
      BY <1>5 DEF PressCycleTab
    <2>2. ~shell.down => Good(shell, CycleTab(shell, step), InHand, events, render, screen)
      BY ServingIs, CycleTabGood
    <2>. QED BY <2>1, <2>2, KeyKeeps
  <1>6. CASE PressReload
    <2>1. ~shell.down /\ ~InTransition(shell)
          => Good(shell, ReloadOrStop(shell), InHand, events, render, screen)
      BY <1>2, ServingIs, StopGood
    <2>. QED BY <1>6, <2>1, KeyKeeps DEF PressReload
  <1>7. CASE PressEscape
    <2>1. ~shell.down /\ ~InTransition(shell)
          => Good(shell, Escape(shell), InHand, events, render, screen)
      BY <1>2, ServingIs, StopGood
    <2>. QED BY <1>7, <2>1, KeyKeeps DEF PressEscape
  <1>8. CASE PressCycleProfile
    <2> DEFINE t == [shell EXCEPT !.seeking = TRUE]
    <2>1. shell.session < MaxSessions /\ Key(t)
      BY <1>8 DEF PressCycleProfile
    <2>2. ~shell.down /\ ~InTransition(shell) => Good(shell, t, InHand, events, render, screen)
      BY <2>1, ServingIs, SeekGood
    <2> HIDE DEF t
    <2>. QED BY <2>1, <2>2, KeyKeeps
  <1>. QED BY <1>3, <1>4, <1>5, <1>6, <1>7, <1>8

LEMMA WindowKeeps ==
    ASSUME HandTypes, Agreed, CloseWindow \/ Resize \/ Minimise \/ Redraw
    PROVE  Keeps
  <1>1. CASE CloseWindow
    <2>1. ~shell.down => Good(shell, Shutdown(shell), InHand, events, render, screen)
      <3>1. "full" \in Fatal \ {"protocol"}
        BY DEF Fatal
      <3>. QED BY <3>1, ServingIs, FailIsGood
    <2>2. Callback(Shutdown(shell))
      BY <1>1 DEF CloseWindow, Input
    <2>. QED BY <2>1, <2>2, CallbackKeeps
  <1>2. CASE Resize \/ Minimise
    <2>1. ~shell.down => Good(shell, Resized(shell), InHand, events, render, screen)
      BY ServingIs, ResizedGood
    <2>2. Callback(Resized(shell))
      BY <1>2 DEF Resize, Minimise, Input
    <2>. QED BY <2>1, <2>2, CallbackKeeps
  <1>3. CASE Redraw
    <2> DEFINE t == Draw([shell EXCEPT !.redraw = FALSE])
    <2>1. ~shell.down => Good(shell, t, InHand, events, render, screen)
      BY ServingIs, RedrawGood
    <2>2. Callback(t)
      BY <1>3 DEF Redraw
    <2> HIDE DEF t
    <2>. QED BY <2>1, <2>2, CallbackKeeps
  <1>. QED BY <1>1, <1>2, <1>3

LEMMA ProfileKeeps ==
    ASSUME HandTypes, Agreed, StaysWithProfile \/ ReplaceProfile \/ LockReleased
    PROVE  Keeps
  <1>1. CASE StaysWithProfile
    <2> DEFINE t == [shell EXCEPT !.seeking = FALSE]
    <2>1. ~shell.down => Good(shell, t, InHand, events, render, screen)
      BY ServingIs, SeekGood
    <2>2. Callback(t)
      BY <1>1 DEF StaysWithProfile
    <2> HIDE DEF t
    <2>. QED BY <2>1, <2>2, CallbackKeeps
  <1>2. CASE ReplaceProfile
    <2>1. PICK stored \in Stored : Callback(Replaced(shell, stored))
      BY <1>2 DEF ReplaceProfile
    <2>2. shell.seeking /\ Quiescent(shell)
      BY <1>2 DEF ReplaceProfile
    <2>3. ~shell.down => Good(shell, Replaced(shell, stored), InHand, events, render, screen)
      BY <2>2, ServingIs, ReplacedGood
    <2>. QED BY <2>1, <2>3, CallbackKeeps
  <1>3. CASE LockReleased
    <2>1. ~shell.down => Good(shell, Unlocked(shell), InHand, events, render, screen)
      BY ServingIs, UnlockedGood
    <2>2. Callback(Unlocked(shell))
      BY <1>3 DEF LockReleased
    <2>. QED BY <2>1, <2>2, CallbackKeeps
  <1>. QED BY <1>1, <1>2, <1>3

LEMMA NextKeeps ==
    ASSUME HandTypes, Agreed, [Next]_vars
    PROVE  Keeps
  <1>1. CASE Next
    BY <1>1, WorkerKeeps, HandleKeeps, PressKeeps, WindowKeeps, ProfileKeeps DEF Next
  <1>2. CASE UNCHANGED vars
    <2>1. UNCHANGED <<queue, busy, events, render, screen, losses, cancelled, shell>>
      BY <1>2 DEF vars, renderWorker
    <2>2. HandTypes'
      BY <2>1 DEF HandTypes
    <2>3. Serving' = Serving /\ Safe' = Safe
      BY <2>1 DEF Serving, InHand, Safe
    <2>4. Agreed'
      BY <2>1, <2>3 DEF Agreed
    <2>. QED BY <2>1, <2>2, <2>4 DEF Keeps, Shows
  <1>. QED BY <1>1, <1>2

-----------------------------------------------------------------------------
(* The invariants that follow.                                             *)

(* The invariant of the shell, the worker and what passes between them is  *)
(* one of every instance of the specification.                             *)
THEOREM AgreementHolds == Spec => [](HandTypes /\ Agreed)
  <1>1. Init => HandTypes /\ Agreed
    BY InitAgrees
  <1>2. HandTypes /\ Agreed /\ [Next]_vars => (HandTypes /\ Agreed)'
    BY NextKeeps DEF Keeps
  <1>. QED BY <1>1, <1>2, PTL DEF Spec

(* The errors with which the shell and the worker check each other's view  *)
(* of the handoff (fail of windows.rs) never happen.                       *)
THEOREM NoProtocolFaultHolds == Spec => []NoProtocolFault
  <1>1. Agreed => NoProtocolFault
    BY DEF Agreed, NoProtocolFault, Shell
  <1>. QED BY <1>1, AgreementHolds, PTL

\* A command in the worker's hands has its place in the pipe.
LEMMA InFlightIs ==
    ASSUME HandTypes, NEW kind
    PROVE  /\ \A c \in InFlight(kind) :
                 \E i \in 1 .. Len(InHand) : InHand[i] = c /\ InHand[i].kind = kind
           /\ \A i \in 1 .. Len(InHand) : InHand[i].kind = kind => InHand[i] \in InFlight(kind)
  BY CommandsAre DEF InFlight

(* Nothing of a session the worker has not left, or not come to, is in its *)
(* hands: the reset is then alone (profile_replacement_browser_quiescent). *)
THEOREM NothingCrossesSwitchHolds == Spec => []NothingCrossesSwitch
  <1>1. ASSUME HandTypes, Agreed, ~shell.down
        PROVE  \/ /\ render.session = shell.session
                  /\ \A c \in InFlight("navigate") \cup InFlight("cancel") :
                        c.target.profile = shell.session
                  /\ \A t \in Tab : render.pending[t].profile \in {0, shell.session}
               \/ /\ render.session + 1 = shell.session
                  /\ InFlight("reset") = {c \in Commands : c.kind # "spawn" /\ c.kind # "attach"}
                  /\ Cardinality(InFlight("reset")) = 1
    <2> DEFINE p == InHand
    <2>1. /\ Matched(shell, p) /\ Alone(shell, p, render) /\ Owned(shell, p, render)
          /\ InSession(shell, p, events, render) /\ Pipes(p, events) /\ render \in Worker
      BY <1>1, ServingIs DEF Sound, SoundButDrawn
    <2>2. Commands = {p[i] : i \in 1 .. Len(p)} /\ Len(p) \in Nat
      BY <1>1, CommandsAre
    <2>3. \A c \in InFlight("navigate") \cup InFlight("cancel") :
             \E i \in 1 .. Len(p) : p[i] = c /\ p[i].kind \in {"navigate", "cancel"}
      BY <1>1, InFlightIs
    <2> HIDE DEF p
    <2>4. CASE shell.reset = 0
      <3>1. render.session = shell.session
        BY <2>1, <2>4 DEF InSession
      <3>2. ASSUME NEW c \in InFlight("navigate") \cup InFlight("cancel")
            PROVE  c.target.profile = shell.session
        <4>1. PICK i \in 1 .. Len(p) : p[i] = c /\ p[i].kind \in {"navigate", "cancel"}
          BY <2>3
        <4>2. CASE p[i].kind = "navigate"
          BY <2>1, <4>1, <4>2 DEF Owned, Own
        <4>3. CASE p[i].kind = "cancel"
          <5>1. shell.cancelling # NoTarget /\ p[i].target = shell.cancelling
            BY <2>1, <4>3, WaitedFor
          <5>. QED BY <2>1, <4>1, <5>1 DEF Owned, Own
        <4>. QED BY <4>1, <4>2, <4>3
      <3>3. \A t \in Tab : render.pending[t].profile \in {0, shell.session}
        BY <2>1 DEF Owned, Own, NoTarget
      <3>. QED BY <3>1, <3>2, <3>3
    <2>5. CASE shell.reset # 0
      <3>1. /\ \A i \in 1 .. Len(p) : p[i].kind \in {"spawn", "attach", "reset"}
            /\ \A t \in Tab : render.pending[t] = NoTarget
        BY <2>1, <2>5 DEF Alone, Starting
      <3>2. PICK i \in 1 .. Len(p) : p[i].kind = "reset"
        BY <2>1, <2>5 DEF Matched, Has
      <3>3. \A j \in 1 .. Len(p) : p[j].kind = "reset" => j = i
        BY <2>1, <3>2 DEF Matched, Alike, Working
      <3>4. CASE Renewed(events, i)
        <4>1. render.session = shell.session
          BY <2>1, <3>2, <3>4 DEF InSession
        <4>2. InFlight("navigate") \cup InFlight("cancel") = {}
          BY <2>3, <3>1
        <4>3. \A t \in Tab : render.pending[t].profile \in {0, shell.session}
          BY <3>1 DEF NoTarget
        <4>. QED BY <4>1, <4>2, <4>3
      <3>5. CASE ~Renewed(events, i)
        <4>1. render.session + 1 = shell.session
          BY <2>1, <3>2, <3>5 DEF InSession
        <4>2. InFlight("reset") = {p[i]}
          BY <2>2, <3>2, <3>3 DEF InFlight
        <4>3. InFlight("reset") = {c \in Commands : c.kind # "spawn" /\ c.kind # "attach"}
          BY <2>2, <3>1 DEF InFlight
        <4>4. Cardinality(InFlight("reset")) = 1
          BY <4>2, FS_Singleton
        <4>. QED BY <4>1, <4>3, <4>4
      <3>. QED BY <3>4, <3>5
    <2>. QED BY <2>4, <2>5
  <1>2. HandTypes /\ Agreed => NothingCrossesSwitch
    BY <1>1 DEF NothingCrossesSwitch
  <1>. QED BY <1>2, AgreementHolds, PTL

\* Every variable has its type.
LEMMA TypesHold ==
    ASSUME HandTypes, Agreed
    PROVE  TypeOK
  <1>1. /\ shell \in Shell /\ shell.out = <<>> /\ shell.down = cancelled
    BY DEF Agreed
  <1>2. /\ shell.handoff \in Handoff /\ shell.permit \in Permit \cup {NoPermit}
        /\ shell.recovery \in Permit \cup {NoPermit} /\ shell.active \in Tab \cup {NoTab}
        /\ shell.materialized \subseteq Tab
        /\ shell.targets \in [Tab -> Target \cup {NoTarget}]
        /\ shell.cancelling \in Target \cup {NoTarget}
        /\ shell.loading \in [Tab -> Nat] /\ shell.fatal \in Fatal
        /\ shell.tabs \in Seq(Tab)
    BY <1>1 DEF Shell
  <1>3. Range(shell.tabs) \subseteq Tab
    BY <1>2 DEF Range
  <1>4. Len(queue) <= 1 /\ Len(busy) <= 1
    <2>1. Len(queue) \in {0, 1} /\ Len(busy) \in {0, 1}
      BY DEF HandTypes, Slot
    <2>2. \A n \in {0, 1} : n <= 1
      OBVIOUS
    <2>. QED BY <2>1, <2>2
  <1>5. /\ render.views \subseteq Tab /\ losses \in 0 .. MaxLosses
        /\ render.pending \in [Tab -> Target \cup {NoTarget}]
    BY DEF HandTypes, Worker
  <1>. QED BY <1>1, <1>2, <1>3, <1>4, <1>5 DEF TypeOK

\* The requests the shell waits for.
RequestsOf(s) == {s.init, s.frame, s.surface, s.reset, s.creating.id} \ {0}

\* The shell waits for one request at a time, while it does not start in a later session.
LEMMA OneIsAwaited ==
    ASSUME NEW s, NEW p, NEW e, Pipes(p, e), Matched(s, p), Exclusive(s),
           s.init = 0 \/ s.session = 1
    PROVE  /\ \A i \in 1 .. Len(p) : p[i].id # 0 => p[i].id \in RequestsOf(s)
           /\ \A id \in RequestsOf(s) : \E i \in 1 .. Len(p) : p[i].id = id
           /\ \A i, j \in 1 .. Len(p) : p[i].id # 0 /\ p[j].id # 0 => i = j
  <1> DEFINE ids == RequestsOf(s)
  <1>1. ids = {s.init, s.frame, s.surface, s.reset, s.creating.id} \ {0}
    BY DEF RequestsOf
  <1> HIDE DEF ids
  <1>2. s.reset # 0 => s.init = 0
    BY DEF Exclusive
  <1>3. s.init # 0 => /\ s.reset = 0 /\ s.frame = 0 /\ s.surface = 0
                      /\ s.creating = NotCreating
    BY <1>2 DEF Exclusive
  <1>4. \A i \in 1 .. Len(p) : p[i].id # 0 =>
           /\ p[i].kind \in Starting \cup Working
           /\ p[i].kind \in Starting => s.init # 0
           /\ p[i].kind \in Working => s.init = 0
           /\ p[i].id \in ids
    <2>1. ASSUME NEW i \in 1 .. Len(p), p[i].id # 0
          PROVE  /\ p[i].kind \in Starting \cup Working
                 /\ p[i].kind \in Starting => s.init # 0
                 /\ p[i].kind \in Working => s.init = 0
                 /\ p[i].id \in ids
      <3>1. p[i].kind \in Starting \cup Working
        <4>1. p[i] \in Command
          BY DEF Pipes
        <4>. QED BY <2>1, <4>1, CommandIs DEF Kinds
      <3>2. CASE p[i].kind \in Starting
        <4>1. s.init # 0 /\ p[i].id = s.init
          BY <3>2, WaitedFor
        <4>2. p[i].id \in ids
          BY <1>1, <2>1, <4>1
        <4>. QED BY <3>1, <3>2, <4>1, <4>2 DEF Starting, Working
      <3>3. CASE p[i].kind \in Working
        <4>1. \/ s.creating # NotCreating /\ p[i].id = s.creating.id
              \/ s.frame # 0 /\ p[i].id = s.frame
              \/ s.surface # 0 /\ p[i].id = s.surface
              \/ s.reset # 0 /\ p[i].id = s.reset
          BY <3>3, WaitedFor DEF Working
        <4>2. s.init = 0
          BY <1>3, <4>1
        <4>3. p[i].id \in ids
          BY <1>1, <2>1, <4>1
        <4>. QED BY <3>1, <3>3, <4>2, <4>3 DEF Starting, Working
      <3>. QED BY <3>1, <3>2, <3>3
    <2>. QED BY <2>1
  <1>5. ASSUME NEW id \in ids PROVE \E i \in 1 .. Len(p) : p[i].id = id
    <2>1. CASE id = s.init
      <3>1. PICK i \in 1 .. Len(p) : p[i].kind \in Starting
        BY <1>1, <1>3, <1>5, <2>1 DEF Matched, Has, Starting
      <3>2. p[i].id = id
        BY <2>1, <3>1, WaitedFor
      <3>. QED BY <3>2
    <2>2. CASE id = s.frame
      <3>1. PICK i \in 1 .. Len(p) : p[i].kind = "render"
        BY <1>1, <1>5, <2>2 DEF Matched, Has
      <3>2. p[i].id = id
        BY <2>2, <3>1, WaitedFor
      <3>. QED BY <3>2
    <2>3. CASE id = s.surface
      <3>1. PICK i \in 1 .. Len(p) : p[i].kind = "replace"
        BY <1>1, <1>5, <2>3 DEF Matched, Has
      <3>2. p[i].id = id
        BY <2>3, <3>1, WaitedFor
      <3>. QED BY <3>2
    <2>4. CASE id = s.reset
      <3>1. PICK i \in 1 .. Len(p) : p[i].kind = "reset"
        BY <1>1, <1>5, <2>4 DEF Matched, Has
      <3>2. p[i].id = id
        BY <2>4, <3>1, WaitedFor
      <3>. QED BY <3>2
    <2>5. CASE id = s.creating.id
      <3>1. s.creating # NotCreating
        BY <1>1, <1>5, <2>5 DEF NotCreating
      <3>2. PICK i \in 1 .. Len(p) : p[i].kind = "create"
        BY <3>1 DEF Matched, Has
      <3>3. p[i].id = id
        BY <2>5, <3>2, WaitedFor
      <3>. QED BY <3>3
    <2>. QED BY <1>1, <1>5, <2>1, <2>2, <2>3, <2>4, <2>5
  <1>6. \A i, j \in 1 .. Len(p) : p[i].id # 0 /\ p[j].id # 0 => i = j
    BY <1>4 DEF Matched, Alike
  <1>. QED BY <1>4, <1>5, <1>6 DEF ids

\* Each request awaited is in the worker's hands exactly once.
LEMMA RequestsAreAccounted ==
    ASSUME HandTypes, Agreed
    PROVE  RequestsAccounted
  <1>1. SUFFICES ASSUME ~shell.down, shell.init = 0 \/ shell.session = 1
                 PROVE  /\ {c.id : c \in Commands} \ {0} = Waiting
                        /\ Cardinality({c \in Commands : c.id # 0}) = Cardinality(Waiting)
                        /\ InFlight("cancel") =
                              IF shell.cancelling = NoTarget THEN {}
                              ELSE {Cancel(shell.cancelling)}
                        /\ InFlight("close") \subseteq {CloseView(shell.closing)}
                        /\ shell.closing # NoTab =>
                              \/ InFlight("close") # {}
                              \/ Activating(shell.handoff)
    BY DEF RequestsAccounted
  <1> DEFINE p == InHand
             asked == {c \in Commands : c.id # 0}
  <1>2. /\ Matched(shell, p) /\ Exclusive(shell) /\ Pipes(p, events)
    BY <1>1, ServingIs DEF Sound, SoundButDrawn, SoundShell
  <1>3. Commands = {p[i] : i \in 1 .. Len(p)} /\ \A i \in 1 .. Len(p) : p[i] \in Command
    BY CommandsAre
  <1>4. /\ \A c \in InFlight("cancel") : \E i \in 1 .. Len(p) : p[i] = c /\ p[i].kind = "cancel"
        /\ \A i \in 1 .. Len(p) : p[i].kind = "cancel" => p[i] \in InFlight("cancel")
        /\ \A c \in InFlight("close") : \E i \in 1 .. Len(p) : p[i] = c /\ p[i].kind = "close"
        /\ \A i \in 1 .. Len(p) : p[i].kind = "close" => p[i] \in InFlight("close")
    BY InFlightIs
  <1> HIDE DEF p
  <1>5. Waiting = {shell.init, shell.frame, shell.surface, shell.reset, shell.creating.id} \ {0}
    BY DEF Waiting
  <1>6. Waiting = RequestsOf(shell)
    BY <1>5 DEF RequestsOf
  <1>7. /\ \A i \in 1 .. Len(p) : p[i].id # 0 => p[i].id \in Waiting
        /\ \A id \in Waiting : \E i \in 1 .. Len(p) : p[i].id = id
        /\ \A i, j \in 1 .. Len(p) : p[i].id # 0 /\ p[j].id # 0 => i = j
    BY <1>1, <1>2, <1>6, OneIsAwaited
  <1>8. {c.id : c \in Commands} \ {0} = Waiting
    <2>1. 0 \notin Waiting
      BY <1>5
    <2>. QED BY <1>3, <1>7, <2>1
  <1>9. Cardinality(asked) = Cardinality(Waiting)
    <2>1. CASE Waiting = {}
      <3>1. asked = {}
        BY <1>3, <1>7, <2>1
      <3>. QED BY <2>1, <3>1
    <2>2. CASE Waiting # {}
      <3>1. PICK id \in Waiting : TRUE
        BY <2>2
      <3>2. PICK i \in 1 .. Len(p) : p[i].id = id
        BY <1>7, <3>1
      <3>3. p[i].id # 0
        BY <1>5, <3>1, <3>2
      <3>4. asked = {p[i]}
        BY <1>3, <1>7, <3>3
      <3>5. Waiting = {id}
        <4>1. ASSUME NEW other \in Waiting PROVE other = id
          <5>1. PICK j \in 1 .. Len(p) : p[j].id = other
            BY <1>7
          <5>2. other # 0
            BY <1>5
          <5>. QED BY <1>7, <3>2, <3>3, <5>1, <5>2
        <4>. QED BY <3>1, <4>1
      <3> HIDE DEF asked
      <3>. QED BY <3>4, <3>5, FS_Singleton
    <2>. QED BY <2>1, <2>2
  <1>10. \A c \in InFlight("cancel") :
            shell.cancelling # NoTarget /\ c = Cancel(shell.cancelling)
    <2>1. ASSUME NEW c \in InFlight("cancel")
          PROVE  shell.cancelling # NoTarget /\ c = Cancel(shell.cancelling)
      <3>1. PICK i \in 1 .. Len(p) : p[i] = c /\ p[i].kind = "cancel"
        BY <1>4
      <3>2. shell.cancelling # NoTarget /\ p[i].target = shell.cancelling
        BY <1>2, <3>1, WaitedFor
      <3>3. p[i] = Cancel(p[i].target)
        BY <1>3, <3>1, CommandIs
      <3>. QED BY <3>1, <3>2, <3>3
    <2>. QED BY <2>1
  <1>11. shell.cancelling # NoTarget => InFlight("cancel") # {}
    BY <1>2, <1>4 DEF Matched, Has
  <1>12. InFlight("cancel") =
            IF shell.cancelling = NoTarget THEN {} ELSE {Cancel(shell.cancelling)}
    BY <1>10, <1>11
  <1>13. InFlight("close") \subseteq {CloseView(shell.closing)}
    <2>1. ASSUME NEW c \in InFlight("close") PROVE c = CloseView(shell.closing)
      <3>1. PICK i \in 1 .. Len(p) : p[i] = c /\ p[i].kind = "close"
        BY <1>4
      <3>2. p[i].tab = shell.closing
        BY <1>2, <3>1, WaitedFor
      <3>3. p[i] = CloseView(p[i].tab)
        BY <1>3, <3>1, CommandIs
      <3>. QED BY <3>1, <3>2, <3>3
    <2>. QED BY <2>1
  <1>14. shell.closing # NoTab => InFlight("close") # {} \/ Activating(shell.handoff)
    BY <1>2, <1>4 DEF Matched, Has, Switching
  <1>. QED BY <1>8, <1>9, <1>12, <1>13, <1>14

\* The commands that are still to be answered are those behind in the pipe.
LEMMA StillAsked ==
    ASSUME HandTypes
    PROVE  /\ \A c \in Range(queue) \cup Range(busy) :
                 \E i \in 1 .. Len(InHand) : i > Len(events) /\ InHand[i] = c
           /\ \A i \in 1 .. Len(InHand) :
                 i > Len(events) => InHand[i] \in Range(queue) \cup Range(busy)
           /\ DOMAIN events = 1 .. Len(events)
           /\ \A i \in 1 .. Len(events) : events[i].of = InHand[i]
  <1>1. Laid(InHand, events, busy, queue)
    BY HandIs
  <1>2. /\ Len(events) \in Nat /\ Len(InHand) \in Nat
        /\ Len(InHand) = Len(events) + Len(busy) + Len(queue)
        /\ busy \in Seq(Command) /\ queue \in Seq(Asked) /\ events \in Seq(Reply)
        /\ busy # <<>> => Len(busy) = 1
        /\ busy = <<>> => Len(busy) = 0
        /\ queue # <<>> => Len(queue) = 1
        /\ queue = <<>> => Len(queue) = 0
    BY <1>1 DEF Laid, HandTypes, Slot
  <1>3. /\ Range(busy) = {busy[i] : i \in 1 .. Len(busy)}
        /\ Range(queue) = {queue[i] : i \in 1 .. Len(queue)}
    BY <1>2 DEF Range
  <1>4. ASSUME NEW c \in Range(queue) \cup Range(busy)
        PROVE  \E i \in 1 .. Len(InHand) : i > Len(events) /\ InHand[i] = c
    <2>1. CASE c \in Range(queue)
      <3>1. queue # <<>> /\ c = queue[1]
        BY <1>2, <1>3, <2>1
      <3>2. c = InHand[Len(InHand)] /\ Len(InHand) \in 1 .. Len(InHand)
            /\ Len(InHand) > Len(events)
        BY <1>1, <1>2, <3>1 DEF Laid
      <3>. QED BY <3>2
    <2>2. CASE c \in Range(busy)
      <3>1. busy # <<>> /\ c = busy[1]
        BY <1>2, <1>3, <2>2
      <3>2. c = InHand[Len(events) + 1] /\ Len(events) + 1 \in 1 .. Len(InHand)
            /\ Len(events) + 1 > Len(events)
        BY <1>1, <1>2, <3>1 DEF Laid
      <3>. QED BY <3>2
    <2>. QED BY <1>4, <2>1, <2>2
  <1>5. ASSUME NEW i \in 1 .. Len(InHand), i > Len(events)
        PROVE  InHand[i] \in Range(queue) \cup Range(busy)
    <2>1. \/ busy # <<>> /\ i = Len(events) + 1
          \/ queue # <<>> /\ i = Len(InHand)
      BY <1>1, <1>2, <1>5 DEF Laid
    <2>2. CASE busy # <<>> /\ i = Len(events) + 1
      <3>1. InHand[i] = busy[1] /\ busy[1] \in Range(busy)
        BY <1>1, <1>2, <1>3, <2>2 DEF Laid
      <3>. QED BY <3>1
    <2>3. CASE queue # <<>> /\ i = Len(InHand)
      <3>1. InHand[i] = queue[1] /\ queue[1] \in Range(queue)
        BY <1>1, <1>2, <1>3, <2>3 DEF Laid
      <3>. QED BY <3>1
    <2>. QED BY <2>1, <2>2, <2>3
  <1>6. DOMAIN events = 1 .. Len(events)
    BY <1>2
  <1>7. \A i \in 1 .. Len(events) : events[i].of = InHand[i]
    BY <1>1 DEF Laid
  <1>. QED BY <1>4, <1>5, <1>6, <1>7

\* Sets of which one has one element, and the others none.
LEMMA OneInAll ==
    ASSUME NEW A, NEW B, NEW C,
           \A x, y \in A : x = y, \A x, y \in B : x = y, \A x, y \in C : x = y,
           A = {} \/ B = {}, A = {} \/ C = {}, B = {} \/ C = {},
           A # {} \/ B # {} \/ C # {}
    PROVE  Cardinality(A) + Cardinality(B) + Cardinality(C) = 1
  <1>1. Cardinality({}) = 0
    BY FS_EmptySet
  <1>2. ASSUME NEW S, S # {}, \A x, y \in S : x = y PROVE Cardinality(S) = 1
    <2>1. PICK x \in S : TRUE
      BY <1>2
    <2>2. S = {x}
      BY <1>2
    <2>. QED BY <2>2, FS_Singleton
  <1>3. CASE A # {}
    <2>1. B = {} /\ C = {} /\ Cardinality(A) = 1
      BY <1>2, <1>3
    <2>. QED BY <1>1, <2>1
  <1>4. CASE B # {}
    <2>1. A = {} /\ C = {} /\ Cardinality(B) = 1
      BY <1>2, <1>4
    <2>. QED BY <1>1, <2>1
  <1>5. CASE C # {}
    <2>1. A = {} /\ B = {} /\ Cardinality(C) = 1
      BY <1>2, <1>5
    <2>. QED BY <1>1, <2>1
  <1>. QED BY <1>3, <1>4, <1>5

\* The end of a navigation is in one place of the pipe, or still with the worker.
Asks(p, e, i, target) == i > Len(e) /\ p[i].kind = "navigate" /\ p[i].target = target
Ends(p, e, i, target) ==
    i <= Len(e) /\ p[i].target = target
    /\ (p[i].kind = "navigate" \/ (p[i].kind = "cancel" /\ e[i].result # "no"))

LEMMA OneEnd ==
    ASSUME NEW s, NEW p, NEW e, NEW r, Pipes(p, e), Matched(s, p), Ordered(p, e, r),
           Stopped(p, e, r), r \in Worker, NEW target \in Target
    PROVE  /\ \A i, j \in 1 .. Len(p) :
                 (Asks(p, e, i, target) \/ Ends(p, e, i, target))
                 /\ (Asks(p, e, j, target) \/ Ends(p, e, j, target)) => i = j
           /\ \A i \in 1 .. Len(p) :
                 Asks(p, e, i, target) \/ Ends(p, e, i, target)
                 => r.pending[target.tab] # target
  <1>1. /\ Len(p) \in Nat /\ Len(e) \in Nat /\ Len(e) <= Len(p)
        /\ target.navigation \in Nat /\ target.tab \in Tab /\ target # NoTarget
    BY DEF Pipes, Target, NoTarget, Tab, NoTab
  <1>2. \A i, j \in 1 .. Len(p) :
           /\ p[i].kind = "navigate" /\ p[i].target = target
           /\ p[j].kind = "navigate" /\ p[j].target = target
           => ~(i < j)
    BY <1>1 DEF Ordered, NavigatesTab
  <1>3. \A i \in 1 .. Len(e), j \in 1 .. Len(p) :
           /\ p[i].kind = "cancel" /\ e[i].result # "no" /\ p[i].target = target
           => /\ ~(p[j].kind = "navigate" /\ p[j].target = target /\ j < i)
              /\ ~(p[j].kind = "navigate" /\ p[j].target = target /\ j > i)
    BY <1>1 DEF Stopped, NavigatesTab
  <1>4. \A i, j \in 1 .. Len(p) : p[i].kind = "cancel" /\ p[j].kind = "cancel" => i = j
    BY DEF Matched, Alike
  <1>5. ASSUME NEW i \in 1 .. Len(p), NEW j \in 1 .. Len(p),
               Asks(p, e, i, target) \/ Ends(p, e, i, target),
               Asks(p, e, j, target) \/ Ends(p, e, j, target)
        PROVE  i = j
    <2>1. /\ i <= Len(e) => i \in 1 .. Len(e)
          /\ j <= Len(e) => j \in 1 .. Len(e)
      BY <1>1
    <2>2. CASE p[i].kind = "navigate" /\ p[j].kind = "navigate"
      <3>1. ~(i < j) /\ ~(j < i)
        BY <1>2, <1>5, <2>2 DEF Asks, Ends
      <3>. QED BY <3>1
    <2>3. CASE p[i].kind = "cancel" /\ p[j].kind = "navigate"
      <3>1. ~(i < j) /\ ~(j < i)
        BY <1>3, <1>5, <2>1, <2>3 DEF Asks, Ends
      <3>2. i = j
        BY <3>1
      <3>. QED BY <3>2
    <2>4. CASE p[i].kind = "navigate" /\ p[j].kind = "cancel"
      <3>1. ~(i < j) /\ ~(j < i)
        BY <1>3, <1>5, <2>1, <2>4 DEF Asks, Ends
      <3>2. i = j
        BY <3>1
      <3>. QED BY <3>2
    <2>5. CASE p[i].kind = "cancel" /\ p[j].kind = "cancel"
      BY <1>4, <2>5
    <2>. QED BY <1>5, <2>2, <2>3, <2>4, <2>5 DEF Asks, Ends
  <1>6. ASSUME NEW i \in 1 .. Len(p), Asks(p, e, i, target) \/ Ends(p, e, i, target),
               r.pending[target.tab] = target
        PROVE  FALSE
    <2>1. CASE p[i].kind = "navigate"
      <3>1. NavigatesTab(p[i], target.tab) /\ p[i].target = target
        BY <1>6, <2>1 DEF Asks, Ends, NavigatesTab
      <3>2. IF i <= Len(e) THEN p[i].target.navigation < target.navigation
                           ELSE p[i].target.navigation > target.navigation
        BY <1>1, <1>6, <3>1 DEF Ordered
      <3>. QED BY <1>1, <3>1, <3>2
    <2>2. CASE p[i].kind = "cancel"
      <3>1. i \in 1 .. Len(e) /\ p[i].target = target
        BY <1>1, <1>6, <2>2 DEF Asks, Ends
      <3>. QED BY <1>6, <2>2, <3>1 DEF Stopped
    <2>. QED BY <1>6, <2>1, <2>2 DEF Asks, Ends
  <1>. QED BY <1>5, <1>6

\* A tab that is loading hears of its end, once.
LEMMA LoadingHolds ==
    ASSUME HandTypes, Agreed
    PROVE  LoadingIsOwned
  <1>1. SUFFICES
          ASSUME NEW t \in Range(shell.tabs), shell.loading[t] # 0
          PROVE  LET target == shell.targets[t]
                     asked == {c \in Range(queue) \cup Range(busy) :
                                  c.kind = "navigate" /\ c.target = target}
                     known == {u \in Tab : render.pending[u] = target}
                 IN  \/ shell.initial = shell.loading[t]
                     \/ shell.creating.navigation = shell.loading[t]
                     \/ /\ target.navigation = shell.loading[t]
                        /\ Cardinality(asked) + Cardinality(known)
                              + Cardinality(AnswersFor(target)) = 1
    BY DEF LoadingIsOwned
  <1> DEFINE p == InHand
             target == shell.targets[t]
             asked == {c \in Range(queue) \cup Range(busy) :
                          c.kind = "navigate" /\ c.target = target}
             known == {u \in Tab : render.pending[u] = target}
             answers == AnswersFor(target)
  <1>2. ~shell.down
    <2>1. shell.tabs = <<>> => Range(shell.tabs) = {}
      BY DEF Range
    <2>. QED BY <1>1, <2>1 DEF Agreed, Closed
  <1>3. /\ shell \in Shell /\ Pipes(p, events) /\ render \in Worker
        /\ Matched(shell, p) /\ Ordered(p, events, render)
        /\ Stopped(p, events, render) /\ Loading(shell) /\ Answered(shell, p, events, render)
        /\ Local(shell, p, render) /\ Strip(shell)
    BY <1>2, ServingIs DEF Sound, SoundButDrawn, SoundShell
  <1>4. t \in Tab /\ t = t /\ Owned(shell, p, render)
    <2>1. Owned(shell, p, render)
      BY <1>2, ServingIs DEF Sound, SoundButDrawn
    <2>2. Range(shell.tabs) \subseteq Tab
      BY <1>3, TabsAre
    <2>. QED BY <2>1, <2>2
  <1>5. /\ \A c \in Range(queue) \cup Range(busy) :
              \E i \in 1 .. Len(p) : i > Len(events) /\ p[i] = c
        /\ \A i \in 1 .. Len(p) :
              i > Len(events) => p[i] \in Range(queue) \cup Range(busy)
        /\ DOMAIN events = 1 .. Len(events)
        /\ \A i \in 1 .. Len(events) : events[i].of = p[i]
    BY StillAsked
  <1> HIDE DEF p
  <1>6. CASE shell.targets[t] = NoTarget
    <2>1. \/ shell.initial # 0 /\ t = shell.tab
          \/ shell.creating # NotCreating /\ t = shell.creating.tab
      BY <1>1, <1>3, <1>6 DEF Loading
    <2>2. \/ shell.initial = shell.loading[t]
          \/ shell.creating.navigation = shell.loading[t]
      BY <1>3, <2>1 DEF Loading
    <2>. QED BY <2>2
  <1>7. CASE shell.targets[t] # NoTarget
    <2>1. /\ target \in Target /\ target.tab = t
          /\ target.navigation = shell.loading[t]
      BY <1>1, <1>3, <1>4, <1>7 DEF Shell, Loading, Owned
    <2>2. Carried(p, events, render, target)
      BY <1>1, <1>3, <1>7 DEF Answered
    <2> HIDE DEF target
    <2>3. /\ \A i, j \in 1 .. Len(p) :
                (Asks(p, events, i, target) \/ Ends(p, events, i, target))
                /\ (Asks(p, events, j, target) \/ Ends(p, events, j, target)) => i = j
          /\ \A i \in 1 .. Len(p) :
                Asks(p, events, i, target) \/ Ends(p, events, i, target)
                => render.pending[target.tab] # target
      BY <1>3, <2>1, OneEnd
    <2>4. /\ Len(p) \in Nat /\ Len(events) \in Nat /\ Len(events) <= Len(p)
      BY <1>3 DEF Pipes
    <2>5. \A c \in asked : \E i \in 1 .. Len(p) : p[i] = c /\ Asks(p, events, i, target)
      BY <1>5 DEF Asks
    <2>6. \A i \in 1 .. Len(p) : Asks(p, events, i, target) => p[i] \in asked
      BY <1>5 DEF Asks
    <2>7. \A i \in answers : i \in 1 .. Len(p) /\ Ends(p, events, i, target)
      <3>1. \A i \in answers :
               /\ i \in 1 .. Len(events) /\ p[i].kind \in {"navigate", "cancel"}
               /\ p[i].target = target
               /\ p[i].kind = "cancel" => events[i].result # "no"
        BY <1>5 DEF AnswersFor
      <3>2. \A i \in 1 .. Len(events) : i \in 1 .. Len(p) /\ i <= Len(events)
        BY <2>4
      <3>. QED BY <3>1, <3>2 DEF Ends
    <2>8. \A i \in 1 .. Len(p) : Ends(p, events, i, target) => i \in answers
      <3>1. \A i \in 1 .. Len(p) : i <= Len(events) => i \in 1 .. Len(events)
        BY <2>4
      <3>. QED BY <1>5, <3>1 DEF Ends, AnswersFor
    <2>9. \A u \in known : u = target.tab /\ render.pending[target.tab] = target
      <3>1. target # NoTarget
        BY <1>7 DEF target
      <3>. QED BY <1>3, <3>1 DEF Local
    <2>10. asked # {} \/ known # {} \/ answers # {}
      <3>1. CASE \E i \in 1 .. Len(p) : p[i].kind = "navigate" /\ p[i].target = target
        <4>1. PICK i \in 1 .. Len(p) : p[i].kind = "navigate" /\ p[i].target = target
          BY <3>1
        <4>2. Asks(p, events, i, target) \/ Ends(p, events, i, target)
          BY <2>4, <4>1 DEF Asks, Ends
        <4>. QED BY <2>6, <2>8, <4>2
      <3>2. CASE render.pending[target.tab] = target
        BY <1>4, <2>1, <3>2
      <3>3. CASE \E i \in 1 .. Len(events) :
                    p[i].kind = "cancel" /\ p[i].target = target /\ events[i].result # "no"
        <4>1. PICK i \in 1 .. Len(events) :
                 p[i].kind = "cancel" /\ p[i].target = target /\ events[i].result # "no"
          BY <3>3
        <4>2. i \in 1 .. Len(p) /\ Ends(p, events, i, target)
          BY <2>4, <4>1 DEF Ends
        <4>. QED BY <2>8, <4>2
      <3>. QED BY <2>2, <3>1, <3>2, <3>3 DEF Carried
    <2> HIDE DEF asked, known, answers
    <2>11. \A x, y \in asked : x = y
      BY <2>3, <2>5
    <2>12. \A x, y \in known : x = y
      BY <2>9
    <2>13. \A x, y \in answers : x = y
      BY <2>3, <2>7
    <2>14. /\ asked = {} \/ known = {}
           /\ asked = {} \/ answers = {}
           /\ known = {} \/ answers = {}
      <3>1. asked = {} \/ known = {}
        BY <2>3, <2>5, <2>9
      <3>2. known = {} \/ answers = {}
        BY <2>3, <2>7, <2>9
      <3>3. asked = {} \/ answers = {}
        <4>1. SUFFICES ASSUME NEW c \in asked, NEW j \in answers PROVE FALSE
          OBVIOUS
        <4>2. PICK i \in 1 .. Len(p) : p[i] = c /\ Asks(p, events, i, target)
          BY <2>5
        <4>3. j \in 1 .. Len(p) /\ Ends(p, events, j, target)
          BY <2>7
        <4>4. i = j
          BY <2>3, <4>2, <4>3
        <4>5. i > Len(events) /\ i <= Len(events)
          BY <4>2, <4>3, <4>4 DEF Asks, Ends
        <4>. QED BY <2>4, <4>2, <4>5
      <3>. QED BY <3>1, <3>2, <3>3
    <2>15. Cardinality(asked) + Cardinality(known) + Cardinality(answers) = 1
      BY <2>10, <2>11, <2>12, <2>13, <2>14, OneInAll
    <2>16. /\ asked = {c \in Range(queue) \cup Range(busy) :
                          c.kind = "navigate" /\ c.target = shell.targets[t]}
           /\ known = {u \in Tab : render.pending[u] = shell.targets[t]}
           /\ answers = AnswersFor(shell.targets[t]) /\ target = shell.targets[t]
      BY DEF asked, known, answers, target
    <2>. QED BY <2>1, <2>15, <2>16
  <1>. QED BY <1>6, <1>7

(* The shell and the worker agree on what is under way: each request that  *)
(* the shell waits for is with the worker exactly once, and each tab shown *)
(* as loading hears of its end, once.                                      *)
THEOREM RequestsInFlightHolds == Spec => []RequestsInFlight
  <1>1. HandTypes /\ Agreed => RequestsInFlight
    BY TypesHold, RequestsAreAccounted, LoadingHolds DEF RequestsInFlight
  <1>. QED BY <1>1, AgreementHolds, PTL

-----------------------------------------------------------------------------
(* The refinement.                                                         *)

\* The page whose pixels can be seen.
Visible == IF shell.visible THEN screen ELSE NoPage

\* The chrome names a page, and that is the only one that can be seen.
LEMMA OnePageIsSeen ==
    ASSUME HandTypes, Agreed
    PROVE  ActivePage \in Page /\ Visible \in {NoPage, ActivePage}
  <1>1. ActivePage \in Page
    BY DEF Agreed, Shell, ActivePage, Page
  <1>2. CASE shell.down
    BY <1>1, <1>2 DEF Agreed, Closed, Visible
  <1>3. CASE ~shell.down
    <2>1. Painted(shell, screen)
      BY <1>3, ServingIs DEF Sound, SoundButDrawn
    <2>. QED BY <1>1, <2>1 DEF Painted, Seen, ActivePage, Visible
  <1>. QED BY <1>1, <1>2, <1>3

OnePage == ActivePage \in Page /\ Visible \in {NoPage, ActivePage}

LEMMA OnePageStays == HandTypes /\ Agreed => OnePage
  BY OnePageIsSeen DEF OnePage

LEMMA InitShows ==
    ASSUME Init
    PROVE  Shown!Init
  <1>1. ActivePage \in Page
    BY InitAgrees, OnePageIsSeen
  <1>2. screen = NoPage
    BY DEF Init, WorkerInit
  <1>. QED BY <1>1, <1>2 DEF Shown!Init

LEMMA StepShows ==
    ASSUME HandTypes, Agreed, [Next]_vars
    PROVE  [Shown!Next]_<<ActivePage, Visible>>
  <1>1. HandTypes' /\ Agreed' /\ Shows(shell, shell')
    BY NextKeeps DEF Keeps
  <1>2. ActivePage \in Page /\ Visible \in {NoPage, ActivePage}
    BY OnePageIsSeen
  <1>3. ActivePage' \in Page /\ Visible' \in {NoPage, ActivePage'}
    <2>1. OnePage'
      BY <1>1, OnePageStays, PTL
    <2>. QED BY <2>1 DEF OnePage
  <1>4. ActivePage' = ActivePage \/ Visible' = NoPage
    <2>1. Seen(shell') = Seen(shell) \/ ~shell'.visible
      BY <1>1 DEF Shows
    <2>2. Seen(shell) = ActivePage /\ Seen(shell') = ActivePage'
      BY DEF Seen, ActivePage
    <2>. QED BY <2>1, <2>2 DEF Visible
  <1>5. CASE Visible' = NoPage
    BY <1>3, <1>5 DEF Shown!Next, Shown!Hide, Visible
  <1>6. CASE Visible' # NoPage
    <2>1. Visible' = ActivePage' /\ ActivePage' = ActivePage
      BY <1>3, <1>4, <1>6
    <2>2. CASE Visible = NoPage
      BY <2>1, <2>2 DEF Shown!Next, Shown!Show, Visible
    <2>3. CASE Visible = ActivePage
      BY <2>1, <2>3
    <2>. QED BY <1>2, <2>2, <2>3
  <1>. QED BY <1>5, <1>6

(* What is seen of the window is always the page its chrome names, or      *)
(* nothing: the passages between tabs and profiles, the losses of the      *)
(* surface and the ends of navigations implement ShownTab.                 *)
THEOREM ImplementsShownTabHolds == Spec => ImplementsShownTab
  <1>1. Init => Shown!Init
    BY InitShows
  <1>2. HandTypes /\ Agreed /\ [Next]_vars => [Shown!Next]_<<ActivePage, Visible>>
    BY StepShows
  <1>. QED BY <1>1, <1>2, AgreementHolds, PTL
       DEF Spec, ImplementsShownTab, Shown!Spec, Visible
=============================================================================
