-------------------------- MODULE ProfileShellProofs --------------------------
(***************************************************************************)
(* What the native shell keeps true for any profiles and stores, however   *)
(* the worker, the user and the event loop interleave: locks have one      *)
(* place from which they are released and none is given back under a save  *)
(* (LockCustody), completions find the work they answer                    *)
(* (NoStaleCompletion), replacing a profile loses nothing                  *)
(* (NoLostMutation), the loop is never left asleep with work to do         *)
(* (NoLostWakeup), and a shutdown leaves nothing behind                    *)
(* (ShutdownIsOrderly).                                                    *)
(*                                                                         *)
(* The shell and the worker are tied by two facts, each the converse of    *)
(* the other: a command on its way, or answered, is one the shell          *)
(* remembers (Remembered), and what the shell waits for is on its way      *)
(* (Underway).  No two commands on their way ask for the same (Distinct),  *)
(* so that handling one answer leaves none for the same to come.           *)
(***************************************************************************)
EXTENDS ProfileShell, SequenceTheorems, FiniteSetTheorems, TLAPS

\* The contents of a queue, an execution and completions.
InFlightIn(q, b) == {q[i] : i \in DOMAIN q} \cup {b[i] : i \in DOMAIN b}
AnswersIn(d) == {d[i] : i \in DOMAIN d}
OutstandingIn(q, b, d) == InFlightIn(q, b) \cup {e.command : e \in AnswersIn(d)}

\* The answers that a lock is held and that a save is on disk.
PrepareDone(p) == [command |-> Prepare(p), ok |-> TRUE]
SaveDone(p, s, n) == [command |-> Save(p, s, n), ok |-> TRUE]

\* Two commands that ask for the same.
Same(c, e) == c.kind = e.kind /\ (c.kind = "save" => c.store = e.store)

DistinctIn(q, b, d) ==
    /\ \A i \in DOMAIN q, j \in DOMAIN b : ~Same(q[i], b[j])
    /\ \A i \in DOMAIN q, j \in DOMAIN d : ~Same(q[i], d[j].command)
    /\ \A i \in DOMAIN b, j \in DOMAIN d : ~Same(b[i], d[j].command)
    /\ \A i, j \in DOMAIN d : i # j => ~Same(d[i].command, d[j].command)

\* Commands sent and not handled yet.
Outstanding == OutstandingIn(queue, busy, done)

Distinct == DistinctIn(queue, busy, done)

Remembered ==
    \A c \in Outstanding :
        /\ c.kind = "prepare" => selection = c.profile /\ ~unsent /\ replacement = NoProfile
        /\ c.kind = "save" => active = c.profile /\ saving[c.store] = c.content
        /\ c.kind = "release" => releasing.profile = c.profile
        /\ c.kind = "discover" => discovery = "sent"

Underway ==
    /\ selection # NoProfile /\ ~unsent /\ replacement = NoProfile
            /\ loop.phase # "starting" => Prepare(selection) \in Outstanding
    /\ discovery = "sent" => Discover \in Outstanding
    /\ releasing.profile # NoProfile => Release(releasing.profile) \in Outstanding
    /\ \A s \in Store : Pending(s) => Save(active, s, saving[s]) \in Outstanding

\* How selection, replacement, release and shutdown exclude each other.
Selecting ==
    /\ selection # NoProfile => discovery = "none" /\ selection # active
    /\ selection # NoProfile \/ discovery # "none" =>
           replaced = NoProfile /\ rejected = NoProfile /\ releasing = NotReleasing
    /\ unsent => selection # NoProfile /\ ~shutdown /\ replacement = NoProfile
    /\ discovery = "unsent" => ~shutdown
    /\ replacement # NoProfile =>
           selection = replacement /\ ~unsent /\ ~shutdown /\ active # NoProfile
    /\ loop.phase = "starting" =>
           /\ active = NoProfile /\ selection # NoProfile /\ ~unsent /\ ~shutdown
           /\ replacement = NoProfile /\ queue = <<>> /\ Outstanding = {}

Releasing ==
    /\ rejected # NoProfile => shutdown /\ replaced = NoProfile /\ rejected # active
    /\ replaced # NoProfile => active # NoProfile /\ replaced # active
    /\ releasing.purpose = "none" <=> releasing.profile = NoProfile
    /\ releasing.purpose = "replaced" => releasing.profile = replaced
    /\ releasing.purpose \in {"rejected", "active"} =>
           shutdown /\ replaced = NoProfile /\ rejected = NoProfile
    /\ releasing.purpose = "rejected" => releasing.profile # active
    /\ releasing.purpose = "active" => releasing.profile = active /\ Flushed

Browsing ==
    /\ shutdown \/ active = NoProfile => ~browsing /\ ~resetting

\* What the disk holds of the active profile, and of the others.
SaveAnswered(s) == SaveDone(active, s, saving[s]) \in Answers

OnDisk ==
    /\ NoLostMutation
    /\ active # NoProfile =>
           \A s \in Store : stored[active][s] = IF SaveAnswered(s) THEN saving[s] ELSE durable[s]

Failures ==
    \A d \in Answers : d.command.kind \in {"save", "release"} /\ ~d.ok => ioFailed

Locked ==
    /\ active # NoProfile /\ loop.phase # "exited" /\ releasing.purpose # "active" =>
           active \in locked
    /\ \A c \in InFlight : c.kind = "save" => active \in locked
    /\ replacement # NoProfile => replacement \in locked
    /\ \A d \in Answers :
           /\ d.command.kind = "prepare" /\ d.ok => d.command.profile \in locked
           /\ d.command.kind = "release" /\ d.ok => d.command.profile \notin locked

Custody ==
    ioFailed \/ \A p \in locked :
        \/ active = p \/ replacement = p \/ rejected = p \/ replaced = p
        \/ releasing.purpose = "rejected" /\ releasing.profile = p
        \/ PrepareDone(p) \in Answers

Exited ==
    loop.phase = "exited" /\ ~ioFailed =>
        locked = {} /\ stored = content /\ Outstanding = {}

\* Whatever is left to do before a wait, the loop has not yet been to it, or is
\* going to be woken for it.
Waking ==
    loop.phase = "driving" /\ loop.after = "wait" =>
        /\ shutdown \/ replacement # NoProfile => loop.urgent
        /\ unsent \/ discovery = "unsent" => Outstanding # {}
        /\ \A s \in Store : Dirty(s) =>
              \/ s \in loop.todo
              \/ Pending(s)
              \/ s \in windows /\ ~loop.urgent
              \/ Outstanding # {}

IInv ==
    /\ TypeOK /\ Distinct /\ Remembered /\ Underway
    /\ Selecting /\ Releasing /\ Browsing
    /\ OnDisk /\ Failures
    /\ Locked /\ Custody
    /\ Exited /\ Waking /\ NoLostWakeup

-----------------------------------------------------------------------------
(* Commands.                                                               *)

LEMMA Fields ==
    /\ Discover.kind = "discover"
    /\ \A p : Prepare(p).kind = "prepare" /\ Prepare(p).profile = p
    /\ \A p : Release(p).kind = "release" /\ Release(p).profile = p
    /\ \A p, s, n :
          /\ Save(p, s, n).kind = "save" /\ Save(p, s, n).profile = p
          /\ Save(p, s, n).store = s /\ Save(p, s, n).content = n
    /\ \A p : PrepareDone(p).command = Prepare(p) /\ PrepareDone(p).ok
    /\ \A p, s, n : SaveDone(p, s, n).command = Save(p, s, n) /\ SaveDone(p, s, n).ok
BY DEF Discover, Prepare, Release, Save, PrepareDone, SaveDone

LEMMA Commands ==
    /\ Discover \in Command
    /\ \A p \in Profile : Prepare(p) \in Command /\ Release(p) \in Command
    /\ \A p \in Profile, s \in Store, n \in 0 .. MaxContent : Save(p, s, n) \in Command
BY SMTT(30) DEF Command, Discover, Prepare, Release, Save

\* A command is known by its kind and what the kind carries.
LEMMA CommandIs ==
    \A c \in Command :
        \/ c.kind = "discover" /\ c = Discover
        \/ c.kind = "prepare" /\ c.profile \in Profile /\ c = Prepare(c.profile)
        \/ c.kind = "release" /\ c.profile \in Profile /\ c = Release(c.profile)
        \/ /\ c.kind = "save" /\ c.profile \in Profile /\ c.store \in Store
           /\ c.content \in 0 .. MaxContent
           /\ c = Save(c.profile, c.store, c.content)
BY SMTT(30) DEF Command, Discover, Prepare, Release, Save

LEMMA CompletionIs ==
    /\ \A d \in Completion : /\ d.command \in Command /\ d.ok \in BOOLEAN
                             /\ d = [command |-> d.command, ok |-> d.ok]
    /\ \A c \in Command, ok \in BOOLEAN :
          LET d == [command |-> c, ok |-> ok] IN
          d \in Completion /\ d.command = c /\ d.ok = ok
    /\ \A d \in Completion :
          /\ d.ok /\ d.command.kind = "prepare" => d = PrepareDone(d.command.profile)
          /\ d.ok /\ d.command.kind = "save" =>
                d = SaveDone(d.command.profile, d.command.store, d.command.content)
<1>1. /\ \A d \in Completion : /\ d.command \in Command /\ d.ok \in BOOLEAN
                                /\ d = [command |-> d.command, ok |-> d.ok]
      /\ \A c \in Command, ok \in BOOLEAN :
            LET d == [command |-> c, ok |-> ok] IN
            d \in Completion /\ d.command = c /\ d.ok = ok
  BY DEF Completion
<1>2. ASSUME NEW d \in Completion, d.ok
      PROVE  /\ d.command.kind = "prepare" => d = PrepareDone(d.command.profile)
             /\ d.command.kind = "save" =>
                d = SaveDone(d.command.profile, d.command.store, d.command.content)
  <2>1. d.command \in Command /\ d = [command |-> d.command, ok |-> TRUE]
    BY <1>1, <1>2
  <2> QED
    BY <2>1, CommandIs, Fields DEF PrepareDone, SaveDone
<1> QED
  BY <1>1, <1>2

-----------------------------------------------------------------------------
(* The way of a command: queue, execution, answer.                         *)

LEMMA Sending ==
    ASSUME NEW b \in Seq(Command), NEW d \in Seq(Completion), NEW c \in Command,
           DistinctIn(<<>>, b, d), \A e \in OutstandingIn(<<>>, b, d) : ~Same(c, e)
    PROVE  /\ DistinctIn(<<c>>, b, d)
           /\ InFlightIn(<<c>>, b) = InFlightIn(<<>>, b) \cup {c}
           /\ OutstandingIn(<<c>>, b, d) = OutstandingIn(<<>>, b, d) \cup {c}
<1>1. DOMAIN <<c>> = {1} /\ <<c>>[1] = c /\ DOMAIN <<>> = {}
  OBVIOUS
<1>2. InFlightIn(<<c>>, b) = InFlightIn(<<>>, b) \cup {c}
  BY <1>1 DEF InFlightIn
<1>3. DistinctIn(<<c>>, b, d)
  BY <1>1 DEF DistinctIn, OutstandingIn, InFlightIn, AnswersIn
<1> QED
  BY <1>2, <1>3 DEF OutstandingIn

LEMMA Consuming ==
    ASSUME NEW q \in Seq(Command), NEW b \in Seq(Command),
           NEW d \in Seq(Completion), d # <<>>, DistinctIn(q, b, d)
    PROVE  /\ Head(d) \in AnswersIn(d) /\ Head(d) \in Completion
           /\ Tail(d) \in Seq(Completion)
           /\ DistinctIn(q, b, Tail(d))
           /\ AnswersIn(Tail(d)) = AnswersIn(d) \ {Head(d)}
           /\ OutstandingIn(q, b, Tail(d)) = OutstandingIn(q, b, d) \ {Head(d).command}
           /\ \A c \in OutstandingIn(q, b, Tail(d)) : ~Same(c, Head(d).command)
<1>1. /\ Head(d) = d[1] /\ 1 \in DOMAIN d /\ d[1] \in Completion
      /\ Tail(d) \in Seq(Completion)
      /\ \A i \in DOMAIN Tail(d) : i + 1 \in DOMAIN d /\ Tail(d)[i] = d[i + 1] /\ i + 1 # 1 /\ i \in Nat
      /\ \A i \in DOMAIN d : i # 1 => i - 1 \in DOMAIN Tail(d) /\ Tail(d)[i - 1] = d[i]
  OBVIOUS
<1>2. \A i \in DOMAIN d : i # 1 => ~Same(d[i].command, d[1].command)
  BY <1>1 DEF DistinctIn
<1>3. \A c : Same(c, c)
  BY DEF Same
<1>4. AnswersIn(Tail(d)) = AnswersIn(d) \ {d[1]}
  <2>1. \A i \in DOMAIN d : i # 1 => d[i] # d[1]
    BY <1>2, <1>3
  <2>2. \A e \in AnswersIn(Tail(d)) : e \in AnswersIn(d) \ {d[1]}
    BY <1>1, <2>1 DEF AnswersIn
  <2>3. ASSUME NEW e \in AnswersIn(d) \ {d[1]}
        PROVE  e \in AnswersIn(Tail(d))
    <3>1. PICK i \in DOMAIN d : e = d[i]
      BY DEF AnswersIn
    <3>2. i - 1 \in DOMAIN Tail(d) /\ Tail(d)[i - 1] = e
      BY <1>1, <3>1
    <3> QED
      BY <3>2 DEF AnswersIn
  <2> QED
    BY <2>2, <2>3
<1>5. \A c \in InFlightIn(q, b) : ~Same(c, d[1].command)
  BY <1>1 DEF InFlightIn, DistinctIn
<1>6. \A e \in AnswersIn(d) : e # d[1] => ~Same(e.command, d[1].command)
  BY <1>2 DEF AnswersIn
<1>7. DistinctIn(q, b, Tail(d))
  BY <1>1 DEF DistinctIn
<1>8. OutstandingIn(q, b, Tail(d)) = OutstandingIn(q, b, d) \ {d[1].command}
  <2>1. d[1].command \notin InFlightIn(q, b)
    BY <1>3, <1>5
  <2>2. {e.command : e \in AnswersIn(Tail(d))}
            = {e.command : e \in AnswersIn(d)} \ {d[1].command}
    BY <1>3, <1>4, <1>6
  <2> QED
    BY <2>1, <2>2 DEF OutstandingIn
<1>9. \A c \in OutstandingIn(q, b, Tail(d)) : ~Same(c, d[1].command)
  BY <1>4, <1>5, <1>6 DEF OutstandingIn
<1> QED
  BY <1>1, <1>4, <1>7, <1>8, <1>9 DEF AnswersIn

LEMMA OneCommand ==
    ASSUME NEW q \in Seq(Command), Len(q) <= 1, q # <<>>
    PROVE  Len(q) = 1
<1> DEFINE n == Len(q)
<1>1. n \in Nat /\ n # 0 /\ n <= 1
  BY EmptySeq, LenProperties
<1> HIDE DEF n
<1>2. n = 1
  BY <1>1
<1> QED
  BY <1>2 DEF n

LEMMA Receiving ==
    ASSUME NEW q \in Seq(Command), Len(q) <= 1, q # <<>>,
           NEW d \in Seq(Completion), DistinctIn(q, <<>>, d)
    PROVE  /\ Tail(q) = <<>> /\ Head(q) \in Command
           /\ DistinctIn(<<>>, <<Head(q)>>, d)
           /\ InFlightIn(<<>>, <<Head(q)>>) = InFlightIn(q, <<>>)
           /\ OutstandingIn(<<>>, <<Head(q)>>, d) = OutstandingIn(q, <<>>, d)
<1>1. Len(q) = 1
  BY OneCommand
<1>a. DOMAIN q = {1} /\ Head(q) = q[1] /\ q[1] \in Command
  BY <1>1
<1>b. Tail(q) = <<>>
  <2>1. Tail(q) \in Seq(Command) /\ Len(Tail(q)) = 0
    BY <1>1, HeadTailProperties
  <2> QED
    BY <2>1, EmptySeq
<1>2. DOMAIN <<Head(q)>> = {1} /\ <<Head(q)>>[1] = q[1] /\ DOMAIN <<>> = {}
  BY <1>a
<1>3. InFlightIn(<<>>, <<Head(q)>>) = InFlightIn(q, <<>>)
  BY <1>a, <1>2 DEF InFlightIn
<1>4. DistinctIn(<<>>, <<Head(q)>>, d)
  BY <1>a, <1>2 DEF DistinctIn
<1> QED
  BY <1>a, <1>3, <1>4 DEF OutstandingIn

LEMMA Answering ==
    ASSUME NEW q \in Seq(Command), NEW b \in Seq(Command), Len(b) <= 1, b # <<>>,
           NEW d \in Seq(Completion), NEW ok \in BOOLEAN, DistinctIn(q, b, d)
    PROVE  LET a == [command |-> b[1], ok |-> ok] IN
           /\ b[1] \in Command /\ b[1] \in InFlightIn(q, b)
           /\ a \in Completion /\ Append(d, a) \in Seq(Completion)
           /\ DistinctIn(q, <<>>, Append(d, a))
           /\ AnswersIn(Append(d, a)) = AnswersIn(d) \cup {a}
           /\ InFlightIn(q, <<>>) \subseteq InFlightIn(q, b)
           /\ OutstandingIn(q, <<>>, Append(d, a)) = OutstandingIn(q, b, d)
           /\ \A e \in AnswersIn(d) : ~Same(b[1], e.command)
           /\ \A e \in InFlightIn(q, <<>>) : ~Same(e, b[1])
<1> DEFINE a == [command |-> b[1], ok |-> ok]
<1>0. Len(b) = 1
  BY OneCommand
<1>1. DOMAIN b = {1} /\ b[1] \in Command /\ DOMAIN <<>> = {}
  BY <1>0
<1>2. a \in Completion /\ a.command = b[1]
  BY <1>1, CompletionIs
<1> HIDE DEF a
<1>3. /\ Append(d, a) \in Seq(Completion)
      /\ Len(d) + 1 \in DOMAIN Append(d, a) /\ Append(d, a)[Len(d) + 1] = a
      /\ \A i \in DOMAIN Append(d, a) :
            \/ i \in DOMAIN d /\ Append(d, a)[i] = d[i] /\ i # Len(d) + 1
            \/ i = Len(d) + 1 /\ Append(d, a)[i] = a
      /\ \A i \in DOMAIN d : i \in DOMAIN Append(d, a) /\ Append(d, a)[i] = d[i]
  BY <1>2
<1>4. AnswersIn(Append(d, a)) = AnswersIn(d) \cup {a}
  BY <1>3 DEF AnswersIn
<1>5. InFlightIn(q, b) = InFlightIn(q, <<>>) \cup {b[1]}
  BY <1>1 DEF InFlightIn
<1>6. OutstandingIn(q, <<>>, Append(d, a)) = OutstandingIn(q, b, d)
  BY <1>2, <1>4, <1>5 DEF OutstandingIn
<1>7. \A i \in DOMAIN q : ~Same(q[i], b[1])
  BY <1>1 DEF DistinctIn
<1>8. \A i \in DOMAIN d : ~Same(b[1], d[i].command) /\ ~Same(d[i].command, b[1])
  BY <1>1 DEF DistinctIn, Same
<1>9. DistinctIn(q, <<>>, Append(d, a))
  BY <1>1, <1>2, <1>3, <1>7, <1>8 DEF DistinctIn
<1>10. /\ \A e \in AnswersIn(d) : ~Same(b[1], e.command)
       /\ \A e \in InFlightIn(q, <<>>) : ~Same(e, b[1])
  BY <1>1, <1>7, <1>8 DEF AnswersIn, InFlightIn
<1> QED
  BY <1>1, <1>2, <1>3, <1>4, <1>5, <1>6, <1>9, <1>10 DEF a

-----------------------------------------------------------------------------
(* The same, of the worker's state.                                        *)

LEMMA Way ==
    /\ InFlight = InFlightIn(queue, busy) /\ Answers = AnswersIn(done)
    /\ Outstanding = InFlight \cup {d.command : d \in Answers}
BY DEF InFlight, InFlightIn, Answers, AnswersIn, Outstanding, OutstandingIn

LEMMA WayNext ==
    /\ InFlight' = InFlightIn(queue', busy') /\ Answers' = AnswersIn(done')
    /\ Outstanding' = InFlight' \cup {d.command : d \in Answers'}
BY DEF InFlight, InFlightIn, Answers, AnswersIn, Outstanding, OutstandingIn

\* What is on its way is of the worker's types.
LEMMA OnTheWay ==
    ASSUME queue \in Seq(Command), busy \in Seq(Command), done \in Seq(Completion)
    PROVE  /\ \A c \in Outstanding : c \in Command
           /\ \A c \in InFlight : c \in Outstanding
           /\ \A d \in Answers : d \in Completion /\ d.command \in Outstanding
           /\ Outstanding = {} <=> InFlight = {} /\ done = <<>>
           /\ QueueFull => InFlight # {}
<1>1. /\ \A i \in DOMAIN queue : queue[i] \in Command
      /\ \A i \in DOMAIN busy : busy[i] \in Command
      /\ \A i \in DOMAIN done : done[i] \in Completion
  OBVIOUS
<1>2. \A d \in Answers : d \in Completion
  BY <1>1 DEF Answers
<1>3. \A c \in InFlight : c \in Command
  BY <1>1 DEF InFlight
<1>4. \A c \in Outstanding : c \in Command
  BY <1>2, <1>3, Way, CompletionIs
<1>5. Answers = {} <=> done = <<>>
  <2>1. done # <<>> => done[1] \in Answers
    <3>1. SUFFICES ASSUME done # <<>> PROVE 1 \in DOMAIN done
      BY DEF Answers
    <3> DEFINE n == Len(done)
    <3>2. n \in Nat /\ n # 0 /\ DOMAIN done = 1 .. n
      BY <3>1, EmptySeq, LenProperties
    <3> HIDE DEF n
    <3> QED
      BY <3>2
  <2>2. done = <<>> => DOMAIN done = {}
    OBVIOUS
  <2> QED
    BY <2>1, <2>2 DEF Answers
<1>6. QueueFull => InFlight # {}
  <2>1. SUFFICES ASSUME QueueFull PROVE 1 \in DOMAIN queue
    BY DEF InFlight
  <2> DEFINE n == Len(queue)
  <2>2. n \in Nat /\ n >= 1 /\ DOMAIN queue = 1 .. n
    BY <2>1, LenProperties DEF QueueFull, QueueCapacity
  <2> HIDE DEF n
  <2> QED
    BY <2>2
<1> QED
  BY <1>2, <1>4, <1>5, <1>6, Way

LEMMA Appending ==
    ASSUME queue \in Seq(Command), ~QueueFull, NEW c \in Command, TrySend(c)
    PROVE  /\ queue = <<>> /\ queue' = <<c>>
           /\ queue' \in Seq(Command) /\ Len(queue') <= QueueCapacity
<1> DEFINE n == Len(queue)
<1>1. n \in Nat /\ ~(n >= 1)
  BY LenProperties DEF QueueFull, QueueCapacity
<1> HIDE DEF n
<1>2. n = 0
  BY <1>1
<1>3. queue = <<>>
  BY <1>2, EmptySeq DEF n
<1>4. queue' = Append(<<>>, c)
  BY <1>3 DEF TrySend
<1>5. queue' = <<c>>
  BY <1>4
<1>6. <<c>> \in Seq(Command) /\ Len(<<c>>) = 1
  OBVIOUS
<1> QED
  BY <1>3, <1>5, <1>6 DEF QueueCapacity

\* A handler that sends a command: it is on its way, or the queue was full.
Tried(c) ==
    /\ queue' \in Seq(Command) /\ Len(queue') <= QueueCapacity
    /\ Distinct' /\ Answers' = Answers
    /\ QueueFull => /\ InFlight' = InFlight /\ Outstanding' = Outstanding
                    /\ InFlight # {} /\ queue' = queue
    /\ ~QueueFull => /\ InFlight' = InFlight \cup {c}
                     /\ Outstanding' = Outstanding \cup {c}

LEMMA Sends ==
    ASSUME TypeOK, Distinct, busy' = busy, done' = done
    PROVE  \A c \in Command :
              TrySend(c) /\ (\A e \in Outstanding : ~Same(c, e)) => Tried(c)
<1>0. queue \in Seq(Command) /\ busy \in Seq(Command) /\ done \in Seq(Completion) /\ Len(queue) <= QueueCapacity
  BY DEF TypeOK
<1>1. SUFFICES ASSUME NEW c \in Command, TrySend(c), \A e \in Outstanding : ~Same(c, e)
               PROVE  Tried(c)
  OBVIOUS
<1>2. CASE QueueFull
  <2>1. queue' = queue
    BY <1>1, <1>2 DEF TrySend
  <2> QED
    BY <1>0, <1>2, <2>1, OnTheWay, Way, WayNext DEF Distinct, Tried
<1>3. CASE ~QueueFull
  <2>1. /\ queue = <<>> /\ queue' = <<c>>
        /\ queue' \in Seq(Command) /\ Len(queue') <= QueueCapacity
    BY <1>0, <1>1, <1>3, Appending
  <2>2. DistinctIn(<<>>, busy, done) /\ \A e \in OutstandingIn(<<>>, busy, done) : ~Same(c, e)
    BY <1>1, <2>1 DEF Distinct, Outstanding
  <2>3. /\ DistinctIn(<<c>>, busy, done)
        /\ InFlightIn(<<c>>, busy) = InFlightIn(<<>>, busy) \cup {c}
        /\ OutstandingIn(<<c>>, busy, done) = OutstandingIn(<<>>, busy, done) \cup {c}
    BY <1>0, <2>2, Sending
  <2> QED
    BY <1>3, <2>1, <2>3, Way, WayNext DEF Distinct, Outstanding, Tried
<1> QED
  BY <1>2, <1>3

\* A handler that leaves the worker alone.
LEMMA Keeps ==
    ASSUME UNCHANGED <<queue, busy, done>>
    PROVE  InFlight' = InFlight /\ Answers' = Answers /\ Outstanding' = Outstanding
           /\ (Distinct => Distinct')
BY DEF InFlight, Answers, Outstanding, Distinct

\* A handler of a completion, without and with a command that it sends.
LEMMA Handles ==
    ASSUME TypeOK, Distinct, done # <<>>, done' = Tail(done), busy' = busy
    PROVE  /\ Head(done) \in Answers /\ Head(done) \in Completion
           /\ Answered \in Outstanding /\ Answered \in Command
           /\ done' \in Seq(Completion) /\ Answers' = Answers \ {Head(done)}
           /\ \A c \in Outstanding \ {Answered} : ~Same(c, Answered)
           /\ UNCHANGED queue =>
                 /\ Distinct' /\ InFlight' = InFlight
                 /\ Outstanding' = Outstanding \ {Answered}
           /\ \A c \in Command :
                 TrySend(c) /\ (\A e \in Outstanding \ {Answered} : ~Same(c, e)) =>
                    /\ queue' \in Seq(Command) /\ Len(queue') <= QueueCapacity
                    /\ Distinct'
                    /\ QueueFull => /\ InFlight' = InFlight /\ InFlight # {}
                                    /\ Outstanding' = Outstanding \ {Answered}
                    /\ ~QueueFull => /\ InFlight' = InFlight \cup {c}
                                     /\ Outstanding' = (Outstanding \ {Answered}) \cup {c}
<1>0. queue \in Seq(Command) /\ busy \in Seq(Command) /\ done \in Seq(Completion) /\ Len(queue) <= QueueCapacity
  BY DEF TypeOK
<1>1. /\ Head(done) \in AnswersIn(done) /\ Head(done) \in Completion
      /\ Tail(done) \in Seq(Completion)
      /\ DistinctIn(queue, busy, Tail(done))
      /\ AnswersIn(Tail(done)) = AnswersIn(done) \ {Head(done)}
      /\ OutstandingIn(queue, busy, Tail(done))
            = OutstandingIn(queue, busy, done) \ {Head(done).command}
      /\ \A c \in OutstandingIn(queue, busy, Tail(done)) : ~Same(c, Head(done).command)
  BY <1>0, Consuming DEF Distinct
<1>2. /\ Head(done) \in Answers /\ Head(done) \in Completion
      /\ Answered \in Outstanding /\ Answered \in Command
      /\ done' \in Seq(Completion) /\ Answers' = Answers \ {Head(done)}
      /\ \A c \in Outstanding \ {Answered} : ~Same(c, Answered)
  BY <1>0, <1>1, Way, WayNext, CompletionIs DEF Answered, Outstanding
<1>3. UNCHANGED queue =>
         /\ Distinct' /\ InFlight' = InFlight
         /\ Outstanding' = Outstanding \ {Answered}
  BY <1>1, Way, WayNext DEF Distinct, Outstanding, Answered
<1>4. ASSUME NEW c \in Command, TrySend(c),
             \A e \in Outstanding \ {Answered} : ~Same(c, e)
      PROVE  /\ queue' \in Seq(Command) /\ Len(queue') <= QueueCapacity
             /\ Distinct'
             /\ QueueFull => /\ InFlight' = InFlight /\ InFlight # {}
                             /\ Outstanding' = Outstanding \ {Answered}
             /\ ~QueueFull => /\ InFlight' = InFlight \cup {c}
                              /\ Outstanding' = (Outstanding \ {Answered}) \cup {c}
  <2>1. CASE QueueFull
    <3>1. queue' = queue
      BY <1>4, <2>1 DEF TrySend
    <3>2. InFlight # {}
      <4>1. 1 \in DOMAIN queue
        <5> DEFINE n == Len(queue)
        <5>1. n \in Nat /\ n >= 1 /\ DOMAIN queue = 1 .. n
          BY <1>0, <2>1, LenProperties DEF QueueFull, QueueCapacity
        <5> HIDE DEF n
        <5> QED
          BY <5>1
      <4> QED
        BY <4>1 DEF InFlight
    <3> QED
      BY <1>0, <1>3, <2>1, <3>1, <3>2
  <2>2. CASE ~QueueFull
    <3>1. /\ queue = <<>> /\ queue' = <<c>>
          /\ queue' \in Seq(Command) /\ Len(queue') <= QueueCapacity
      BY <1>0, <1>4, <2>2, Appending
    <3> DEFINE rest == Tail(done)
    <3>2. /\ OutstandingIn(<<>>, busy, rest) = Outstanding \ {Answered}
          /\ \A e \in OutstandingIn(<<>>, busy, rest) : ~Same(c, e)
          /\ DistinctIn(<<>>, busy, rest)
          /\ rest \in Seq(Completion) /\ done' = rest
      BY <1>1, <1>4, <3>1 DEF Outstanding, Answered
    <3> HIDE DEF rest
    <3>3. /\ DistinctIn(<<c>>, busy, rest)
          /\ InFlightIn(<<c>>, busy) = InFlightIn(<<>>, busy) \cup {c}
          /\ OutstandingIn(<<c>>, busy, rest) = OutstandingIn(<<>>, busy, rest) \cup {c}
      BY <1>0, <3>2, Sending
    <3> QED
      BY <2>2, <3>1, <3>2, <3>3, Way, WayNext DEF Distinct, Outstanding
  <2> QED
    BY <2>1, <2>2
<1> QED
  BY <1>2, <1>3, <1>4

LEMMA Shapes ==
    ASSUME TypeOK
    PROVE  /\ NoProfile \notin Profile
           /\ active \in Profile \cup {NoProfile} /\ selection \in Profile \cup {NoProfile}
           /\ replacement \in Profile \cup {NoProfile} /\ rejected \in Profile \cup {NoProfile}
           /\ replaced \in Profile \cup {NoProfile}
           /\ releasing.profile \in Profile \cup {NoProfile} /\ releasing.purpose \in Purpose
           /\ releasing = [profile |-> releasing.profile, purpose |-> releasing.purpose]
           /\ discovery \in {"none", "unsent", "sent"}
           /\ unsent \in BOOLEAN /\ resetting \in BOOLEAN /\ browsing \in BOOLEAN
           /\ shutdown \in BOOLEAN /\ ioFailed \in BOOLEAN
           /\ \A s \in Store : durable[s] \in 0 .. MaxContent /\ saving[s] \in 0 .. NotSaving
           /\ \A s \in Store : Pending(s) <=> saving[s] \in 0 .. MaxContent
           /\ \A p \in Profile, s \in Store :
                 content[p][s] \in 0 .. MaxContent /\ stored[p][s] \in 0 .. MaxContent
           /\ loop.phase \in {"starting", "waiting", "timed", "handling", "driving", "exited"}
           /\ loop.todo \in SUBSET Store /\ loop.urgent \in BOOLEAN
           /\ loop.after \in {"return", "settle", "wait"} /\ loop.alarm \in SUBSET Store
           /\ loop \in LoopType
           /\ locked \subseteq Profile
<1>1. releasing = [profile |-> releasing.profile, purpose |-> releasing.purpose]
  BY DEF TypeOK
<1>2. \A s \in Store : Pending(s) <=> saving[s] \in 0 .. MaxContent
  <2>1. \A s \in Store : saving[s] \in 0 .. MaxContent + 1
    BY DEF TypeOK, NotSaving
  <2> QED
    BY <2>1, WorkerConstants DEF Pending, NotSaving
<1>3. /\ \A s \in Store : durable[s] \in 0 .. MaxContent /\ saving[s] \in 0 .. NotSaving
      /\ \A p \in Profile, s \in Store :
            content[p][s] \in 0 .. MaxContent /\ stored[p][s] \in 0 .. MaxContent
  BY DEF TypeOK
<1>4. /\ loop.phase \in {"starting", "waiting", "timed", "handling", "driving", "exited"}
      /\ loop.todo \in SUBSET Store /\ loop.urgent \in BOOLEAN
      /\ loop.after \in {"return", "settle", "wait"} /\ loop.alarm \in SUBSET Store
      /\ loop \in LoopType
  BY DEF TypeOK, LoopType
<1>5. /\ releasing.profile \in Profile \cup {NoProfile} /\ releasing.purpose \in Purpose
  BY DEF TypeOK
<1>6. /\ active \in Profile \cup {NoProfile} /\ selection \in Profile \cup {NoProfile}
      /\ replacement \in Profile \cup {NoProfile} /\ rejected \in Profile \cup {NoProfile}
      /\ replaced \in Profile \cup {NoProfile}
      /\ discovery \in {"none", "unsent", "sent"}
      /\ unsent \in BOOLEAN /\ resetting \in BOOLEAN /\ browsing \in BOOLEAN
      /\ shutdown \in BOOLEAN /\ ioFailed \in BOOLEAN /\ locked \subseteq Profile
  BY DEF TypeOK
<1> QED
  BY <1>1, <1>2, <1>3, <1>4, <1>5, <1>6, ShellConstants

-----------------------------------------------------------------------------
(* The event loop's places.                                                *)

LEMMA PlaceTypes ==
    /\ \A ph \in {"starting", "waiting", "timed", "handling", "exited"} : At(ph) \in LoopType
    /\ \A T, w \in SUBSET Store, u \in BOOLEAN, a \in {"return", "settle", "wait"} :
          Driving(T, u, a, w) \in LoopType
BY DEF At, Driving, LoopType

LEMMA PassIs ==
    ASSUME NEW s \in Store, loop \in LoopType, Pass(s)
    PROVE  /\ loop' \in LoopType /\ loop'.todo = loop.todo \ {s}
           /\ loop'.phase = loop.phase /\ loop'.urgent = loop.urgent
           /\ loop'.after = loop.after /\ loop'.alarm = loop.alarm
BY DEF Pass, LoopType

LEMMA YieldIs ==
    ASSUME Yield
    PROVE  /\ loop' \in LoopType
           /\ loop'.phase = IF loop.after = "wait" THEN "waiting" ELSE "handling"
BY PlaceTypes DEF Yield, At

-----------------------------------------------------------------------------
(* What the handlers share.                                                *)

\* An event's mutations are of the active profile.
LEMMA MutatingTypes ==
    ASSUME TypeOK, active \in Profile, NEW T \in SUBSET Store, MutateStores(T)
    PROVE  /\ content' \in [Profile -> [Store -> 0 .. MaxContent]]
           /\ \A p \in Profile : p # active => content'[p] = content[p]
           /\ \A s \in Store : s \notin T => content'[active][s] = content[active][s]
<1>1. content \in [Profile -> [Store -> 0 .. MaxContent]]
  BY DEF TypeOK
<1> DEFINE g == [s \in Store |-> IF s \in T THEN content[active][s] + 1 ELSE content[active][s]]
<1>2. g \in [Store -> 0 .. MaxContent]
  BY <1>1, WorkerConstants DEF MutateStores
<1>3. content' = [content EXCEPT ![active] = g]
  BY DEF MutateStores
<1>4. \A s \in Store : s \notin T => g[s] = content[active][s]
  OBVIOUS
<1> HIDE DEF g
<1> QED
  BY <1>1, <1>2, <1>3, <1>4

\* The stores of a profile that was not active are on disk as they were left.
LEMMA Activating ==
    ASSUME TypeOK, NoLostMutation, NEW p \in Profile, p # active, ActivateProfile(p)
    PROVE  /\ active' = p /\ replaced' = active /\ content' = content
           /\ durable' = stored[p] /\ durable' = content[p]
           /\ durable' \in [Store -> 0 .. MaxContent]
<1>1. /\ content \in [Profile -> [Store -> 0 .. MaxContent]]
      /\ stored \in [Profile -> [Store -> 0 .. MaxContent]]
  BY DEF TypeOK
<1>2. stored[p] = content[p] /\ stored[p] \in [Store -> 0 .. MaxContent]
  BY <1>1 DEF NoLostMutation
<1>3. content' = [content EXCEPT ![p] = content[p]]
  BY <1>2 DEF ActivateProfile
<1>4. content' = content
  BY <1>1, <1>3
<1> QED
  BY <1>2, <1>4 DEF ActivateProfile

-----------------------------------------------------------------------------
(* What a completion finds, by its kind.                                   *)

\* A lock that a prepared profile holds, and a save that is on disk, are not
\* those of a completion of another kind.
LEMMA OtherAnswers ==
    ASSUME NEW d \in Completion, Answers' = Answers \ {d}
    PROVE  /\ d.command.kind # "prepare" =>
                 \A p : PrepareDone(p) \in Answers' <=> PrepareDone(p) \in Answers
           /\ d.command.kind # "save" =>
                 \A p, s, n : SaveDone(p, s, n) \in Answers' <=> SaveDone(p, s, n) \in Answers
BY Fields

LEMMA Completing ==
    ASSUME IInv, NEW k, NEW ok \in BOOLEAN, Completes(k, ok)
    PROVE  /\ loop.phase \notin {"starting", "exited", "driving"}
           /\ UNCHANGED <<busy, locked, stored, ioFailed>>
           /\ Head(done) \in Answers /\ Head(done) \in Completion
           /\ Head(done) = [command |-> Answered, ok |-> ok]
           /\ Answered \in Outstanding /\ Answered \in Command /\ Answered.kind = k
           /\ done' \in Seq(Completion) /\ Answers' = Answers \ {Head(done)}
           /\ \A c \in Outstanding \ {Answered} : ~Same(c, Answered) /\ c \in Command
           /\ \A d \in Answers' : /\ d.command \in Outstanding \ {Answered}
                                  /\ d \in Answers /\ d \in Completion
           /\ UNCHANGED queue =>
                 Distinct' /\ InFlight' = InFlight /\ Outstanding' = Outstanding \ {Answered}
<1>1. /\ loop.phase \notin {"starting", "exited", "driving"}
      /\ UNCHANGED <<busy, locked, stored, ioFailed>>
      /\ done # <<>> /\ done' = Tail(done)
      /\ Answered.kind = k /\ Head(done).ok = ok
  BY DEF Completes, Awake, Answered
<1>2. /\ Head(done) \in Answers /\ Head(done) \in Completion
      /\ Answered \in Outstanding /\ Answered \in Command
      /\ done' \in Seq(Completion) /\ Answers' = Answers \ {Head(done)}
      /\ \A c \in Outstanding \ {Answered} : ~Same(c, Answered)
      /\ UNCHANGED queue =>
            Distinct' /\ InFlight' = InFlight /\ Outstanding' = Outstanding \ {Answered}
  BY <1>1, Handles DEF IInv
<1>3. /\ \A c \in Outstanding : c \in Command
      /\ \A d \in Answers : d \in Completion /\ d.command \in Outstanding
  BY OnTheWay DEF IInv, TypeOK
<1>4. Head(done) = [command |-> Answered, ok |-> ok]
  BY <1>1, <1>2, CompletionIs DEF Answered
<1>5. \A d \in Answers' : d.command # Answered
  <2>1. SUFFICES ASSUME NEW i \in DOMAIN done, done[i] # Head(done)
                 PROVE  done[i].command # Head(done).command
    BY <1>2 DEF Answers, Answered
  <2>2. PICK j \in DOMAIN done : done[j] = Head(done)
    BY <1>2 DEF Answers
  <2>3. ~Same(done[i].command, done[j].command)
    BY <2>1, <2>2 DEF IInv, Distinct, DistinctIn
  <2> QED
    BY <2>2, <2>3 DEF Same
<1> QED
  BY <1>1, <1>2, <1>3, <1>4, <1>5

\* What is left on its way when a completion has been handled and nothing sent.
Handled ==
    /\ loop.phase \notin {"starting", "exited", "driving"}
    /\ UNCHANGED <<busy, locked, stored, ioFailed>>
    /\ done' \in Seq(Completion)
    /\ \A d \in Answers' : d \in Answers /\ d.command \in Outstanding'
    /\ Distinct' /\ InFlight' = InFlight
    /\ Outstanding' = Outstanding \ {Answered} /\ Answered \in Outstanding

SameSaves == \A p, s, n : SaveDone(p, s, n) \in Answers' <=> SaveDone(p, s, n) \in Answers
SameLocks == \A p : PrepareDone(p) \in Answers' <=> PrepareDone(p) \in Answers

LEMMA Handling ==
    ASSUME IInv, NEW k, NEW ok \in BOOLEAN, Completes(k, ok), UNCHANGED queue
    PROVE  Handled
<1>1. /\ loop.phase \notin {"starting", "exited", "driving"}
      /\ UNCHANGED <<busy, locked, stored, ioFailed>>
      /\ done' \in Seq(Completion) /\ Answered \in Outstanding
      /\ Distinct' /\ InFlight' = InFlight /\ Outstanding' = Outstanding \ {Answered}
      /\ \A d \in Answers' : d.command \in Outstanding \ {Answered} /\ d \in Answers
  BY Completing
<1> QED
  BY <1>1 DEF Handled

\* The same, and a command is sent.
HandledAndTried(c) ==
    /\ loop.phase \notin {"starting", "exited", "driving"}
    /\ UNCHANGED <<busy, locked, stored, ioFailed>>
    /\ done' \in Seq(Completion)
    /\ \A d \in Answers' : d \in Answers /\ d.command \in Outstanding \ {Answered}
    /\ queue' \in Seq(Command) /\ Len(queue') <= QueueCapacity
    /\ Distinct' /\ Answered \in Outstanding
    /\ QueueFull => /\ InFlight' = InFlight /\ InFlight # {}
                    /\ Outstanding' = Outstanding \ {Answered}
    /\ ~QueueFull => /\ InFlight' = InFlight \cup {c}
                     /\ Outstanding' = (Outstanding \ {Answered}) \cup {c}

LEMMA HandlingAndSending ==
    ASSUME IInv, NEW k, NEW ok \in BOOLEAN, Completes(k, ok)
    PROVE  \A c \in Command :
              TrySend(c) /\ (\A e \in Outstanding \ {Answered} : ~Same(c, e))
                 => HandledAndTried(c)
<1>1. /\ loop.phase \notin {"starting", "exited", "driving"}
      /\ UNCHANGED <<busy, locked, stored, ioFailed>>
      /\ done' \in Seq(Completion) /\ Answered \in Outstanding
      /\ \A d \in Answers' : d.command \in Outstanding \ {Answered} /\ d \in Answers
  BY Completing
<1>2. done # <<>> /\ done' = Tail(done) /\ busy' = busy
  BY DEF Completes
<1>3. \A c \in Command :
         TrySend(c) /\ (\A e \in Outstanding \ {Answered} : ~Same(c, e)) =>
            /\ queue' \in Seq(Command) /\ Len(queue') <= QueueCapacity
            /\ Distinct'
            /\ QueueFull => /\ InFlight' = InFlight /\ InFlight # {}
                            /\ Outstanding' = Outstanding \ {Answered}
            /\ ~QueueFull => /\ InFlight' = InFlight \cup {c}
                             /\ Outstanding' = (Outstanding \ {Answered}) \cup {c}
  BY <1>2, Handles DEF IInv
<1> QED
  BY <1>1, <1>3 DEF HandledAndTried

\* Nothing on its way asks for what the shell does not wait for.
LEMMA Unasked ==
    ASSUME IInv
    PROVE  /\ releasing.profile = NoProfile => \A e \in Outstanding : e.kind # "release"
           /\ selection = NoProfile \/ unsent => \A e \in Outstanding : e.kind # "prepare"
           /\ discovery # "sent" => \A e \in Outstanding : e.kind # "discover"
           /\ \A s \in Store : ~Pending(s) =>
                 \A e \in Outstanding : e.kind = "save" => e.store # s
           /\ active = NoProfile => \A e \in Outstanding : e.kind # "save"
<1>1. \A e \in Outstanding : e \in Command
  BY OnTheWay DEF IInv, TypeOK
<1>2. /\ releasing.profile = NoProfile => \A e \in Outstanding : e.kind # "release"
      /\ selection = NoProfile \/ unsent => \A e \in Outstanding : e.kind # "prepare"
      /\ discovery # "sent" => \A e \in Outstanding : e.kind # "discover"
      /\ active = NoProfile => \A e \in Outstanding : e.kind # "save"
  BY <1>1, CommandIs, ShellConstants DEF IInv, Remembered
<1>3. ASSUME NEW s \in Store, ~Pending(s), NEW e \in Outstanding, e.kind = "save"
      PROVE  e.store # s
  BY <1>1, <1>3, CommandIs, Shapes DEF IInv, Remembered
<1> QED
  BY <1>2, <1>3

\* When everything is saved, no save is on its way.
LEMMA Idle ==
    ASSUME IInv, Flushed
    PROVE  /\ \A s \in Store : ~Pending(s)
           /\ \A e \in Outstanding : e.kind # "save"
           /\ \A p, s, n : SaveDone(p, s, n) \notin Answers
           /\ stored = content
<1>1. \A s \in Store : ~Pending(s)
  <2>1. CASE active = NoProfile
    BY <2>1, Unasked, Fields DEF IInv, Underway
  <2>2. CASE active # NoProfile
    BY <2>2 DEF Flushed
  <2> QED
    BY <2>1, <2>2
<1>2. \A e \in Outstanding : e.kind # "save"
  <2>1. \A e \in Outstanding : e \in Command
    BY OnTheWay DEF IInv, TypeOK
  <2> QED
    BY <1>1, <2>1, Unasked, CommandIs
<1>3. \A p, s, n : SaveDone(p, s, n) \notin Answers
  BY <1>2, Way, Fields
<1>4. stored = content
  <2>1. /\ stored \in [Profile -> [Store -> 0 .. MaxContent]]
        /\ content \in [Profile -> [Store -> 0 .. MaxContent]]
    BY DEF IInv, TypeOK
  <2>2. ASSUME NEW p \in Profile
        PROVE  stored[p] = content[p]
    <3>1. CASE p # active
      BY <3>1 DEF IInv, OnDisk, NoLostMutation
    <3>2. CASE p = active
      <4>1. \A s \in Store : stored[active][s] = durable[s] /\ content[active][s] = durable[s]
        BY <1>3, <3>2, ShellConstants DEF IInv, OnDisk, SaveAnswered, Flushed, Dirty
      <4>2. stored[p] \in [Store -> 0 .. MaxContent] /\ content[p] \in [Store -> 0 .. MaxContent]
        BY <2>1
      <4> QED
        BY <3>2, <4>1, <4>2
    <3> QED
      BY <3>1, <3>2
  <2> QED
    BY <2>1, <2>2
<1> QED
  BY <1>1, <1>2, <1>3, <1>4

\* Prepared, or not: the selection, and nothing else is going on.
PrepareHandled(ok) ==
    /\ selection \in Profile /\ ~unsent /\ replacement = NoProfile
    /\ selection # active /\ discovery = "none" /\ rejected = NoProfile
    /\ replaced = NoProfile /\ releasing = NotReleasing
    /\ Answered = Prepare(selection) /\ Answered.profile = selection
    /\ ok => selection \in locked
    /\ ~ok => \A p : PrepareDone(p) \notin Answers
    /\ \A c \in Outstanding \ {Answered} : c.kind # "prepare"
    /\ \A d \in Answers' : d.command.kind # "prepare"
    /\ SameSaves
    /\ \A p : PrepareDone(p) \in Answers => p = selection

LEMMA PrepareEnds ==
    ASSUME IInv, NEW ok \in BOOLEAN, Completes("prepare", ok)
    PROVE  PrepareHandled(ok)
<1>1. /\ Answered \in Outstanding /\ Answered \in Command /\ Answered.kind = "prepare"
      /\ Head(done) \in Answers /\ Head(done) \in Completion
      /\ Head(done) = [command |-> Answered, ok |-> ok]
      /\ Answers' = Answers \ {Head(done)}
      /\ \A c \in Outstanding \ {Answered} : ~Same(c, Answered)
      /\ \A d \in Answers' : d.command \in Outstanding \ {Answered}
  BY Completing
<1>2. Answered.profile \in Profile /\ Answered = Prepare(Answered.profile)
  BY <1>1, CommandIs
<1>3. selection = Answered.profile /\ ~unsent /\ replacement = NoProfile
  BY <1>1 DEF IInv, Remembered
<1>4. selection # NoProfile
  BY <1>2, <1>3, ShellConstants
<1>5. /\ selection # active /\ discovery = "none"
      /\ rejected = NoProfile /\ replaced = NoProfile /\ releasing = NotReleasing
  BY <1>4 DEF IInv, Selecting
<1>6. ok => selection \in locked
  BY <1>1, <1>3, CompletionIs DEF IInv, Locked
<1>7. \A c \in Outstanding \ {Answered} : c.kind # "prepare"
  BY <1>1 DEF Same
<1>8. \A p, s, n : SaveDone(p, s, n) \in Answers' <=> SaveDone(p, s, n) \in Answers
  BY <1>1, OtherAnswers DEF Answered
<1>9. \A p : PrepareDone(p) \in Answers => p = selection
  <2>1. \A d \in Answers : d.command \in Outstanding
    BY Way
  <2> QED
    BY <2>1, Fields DEF IInv, Remembered
<1>10. ~ok => \A p : PrepareDone(p) \notin Answers
  <2>1. \A p : PrepareDone(p) \notin Answers'
    BY <1>1, <1>7, Fields
  <2>2. Head(done).ok = ok
    BY <1>1, CompletionIs
  <2> QED
    BY <1>1, <2>1, <2>2, Fields
<1> QED
  BY <1>1, <1>2, <1>3, <1>5, <1>6, <1>7, <1>8, <1>9, <1>10 DEF PrepareHandled, SameSaves, SameLocks

\* Saved, or not: the save that is pending of the active profile's store.
SaveHandled(ok) ==
    /\ active \in Profile /\ Answered.store \in Store
    /\ saving[Answered.store] \in 0 .. MaxContent
    /\ Answered = Save(active, Answered.store, saving[Answered.store])
    /\ ok => SaveAnswered(Answered.store)
    /\ ~ok => ioFailed /\ ~SaveAnswered(Answered.store)
    /\ \A c \in Outstanding \ {Answered} : c.kind = "save" => c.store # Answered.store
    /\ \A n : SaveDone(active, Answered.store, n) \notin Answers'
    /\ \A s, n : s # Answered.store =>
          (SaveDone(active, s, n) \in Answers' <=> SaveDone(active, s, n) \in Answers)
    /\ SameLocks

LEMMA SaveEnds ==
    ASSUME IInv, NEW ok \in BOOLEAN, Completes("save", ok)
    PROVE  SaveHandled(ok)
<1>1. /\ Answered \in Outstanding /\ Answered \in Command /\ Answered.kind = "save"
      /\ Head(done) \in Answers /\ Head(done) \in Completion
      /\ Head(done) = [command |-> Answered, ok |-> ok]
      /\ Answers' = Answers \ {Head(done)}
      /\ \A c \in Outstanding \ {Answered} : ~Same(c, Answered)
      /\ \A d \in Answers' : d.command \in Outstanding \ {Answered}
  BY Completing
<1>2. /\ Answered.profile \in Profile /\ Answered.store \in Store
      /\ Answered.content \in 0 .. MaxContent
      /\ Answered = Save(Answered.profile, Answered.store, Answered.content)
  BY <1>1, CommandIs
<1>3. active = Answered.profile /\ saving[Answered.store] = Answered.content
  BY <1>1 DEF IInv, Remembered
<1>4. ok => SaveAnswered(Answered.store)
  <2>1. ok => Head(done) = SaveDone(active, Answered.store, saving[Answered.store])
    BY <1>1, <1>2, <1>3 DEF SaveDone
  <2> QED
    BY <1>1, <2>1 DEF SaveAnswered
<1>5. ~ok => ioFailed
  BY <1>1, CompletionIs DEF IInv, Failures
<1>6. \A c \in Outstanding \ {Answered} : c.kind = "save" => c.store # Answered.store
  BY <1>1 DEF Same
<1>7. \A p : PrepareDone(p) \in Answers' <=> PrepareDone(p) \in Answers
  BY <1>1, OtherAnswers DEF Answered
<1>8. \A n : SaveDone(active, Answered.store, n) \notin Answers'
  BY <1>1, <1>6, Fields
<1>9. \A s, n : s # Answered.store =>
         (SaveDone(active, s, n) \in Answers' <=> SaveDone(active, s, n) \in Answers)
  BY <1>1, Fields DEF Answered
<1>10. ~ok => ~SaveAnswered(Answered.store)
  <2>1. Head(done).ok = ok
    BY <1>1, CompletionIs
  <2> QED
    BY <1>1, <1>8, <2>1, Fields DEF SaveAnswered
<1> QED
  BY <1>2, <1>3, <1>4, <1>5, <1>6, <1>7, <1>8, <1>9, <1>10 DEF SaveHandled, SameSaves, SameLocks

\* Discovered, or not: no profile is being selected or released.
DiscoveryHandled ==
    /\ discovery = "sent" /\ selection = NoProfile /\ ~unsent
    /\ replacement = NoProfile /\ rejected = NoProfile
    /\ replaced = NoProfile /\ releasing = NotReleasing
    /\ \A c \in Outstanding \ {Answered} : c.kind \notin {"discover", "prepare", "release"}
    /\ SameSaves
    /\ SameLocks

LEMMA DiscoveryEnds ==
    ASSUME IInv, NEW ok \in BOOLEAN, Completes("discover", ok)
    PROVE  DiscoveryHandled
<1>1. /\ Answered \in Outstanding /\ Answered \in Command /\ Answered.kind = "discover"
      /\ Head(done) \in Completion
      /\ Answers' = Answers \ {Head(done)}
      /\ \A c \in Outstanding \ {Answered} : ~Same(c, Answered) /\ c \in Command
  BY Completing
<1>2. discovery = "sent"
  BY <1>1 DEF IInv, Remembered
<1>3. /\ selection = NoProfile /\ ~unsent /\ replacement = NoProfile
      /\ rejected = NoProfile /\ replaced = NoProfile /\ releasing = NotReleasing
  BY <1>2 DEF IInv, Selecting
<1>4. \A c \in Outstanding \ {Answered} : c.kind # "discover"
  BY <1>1 DEF Same
<1>5. \A c \in Outstanding \ {Answered} : c.kind \notin {"prepare", "release"}
  BY <1>1, <1>3, CommandIs, ShellConstants DEF IInv, Remembered, NotReleasing
<1> QED
  BY <1>1, <1>2, <1>3, <1>4, <1>5, OtherAnswers DEF Answered, DiscoveryHandled, SameSaves, SameLocks

\* A lock released, or not: the one that is being released.
ReleaseHandled(ok) ==
    /\ releasing.profile \in Profile /\ releasing.purpose # "none"
    /\ Answered = Release(releasing.profile)
    /\ selection = NoProfile /\ discovery = "none" /\ ~unsent /\ replacement = NoProfile
    /\ ok => releasing.profile \notin locked
    /\ ~ok => ioFailed
    /\ \A c \in Outstanding \ {Answered} : c.kind = "save"
    /\ SameSaves
    /\ \A p : PrepareDone(p) \notin Answers

LEMMA ReleaseEnds ==
    ASSUME IInv, NEW ok \in BOOLEAN, Completes("release", ok)
    PROVE  ReleaseHandled(ok)
<1>1. /\ Answered \in Outstanding /\ Answered \in Command /\ Answered.kind = "release"
      /\ Head(done) \in Answers /\ Head(done) \in Completion
      /\ Head(done) = [command |-> Answered, ok |-> ok]
      /\ Answers' = Answers \ {Head(done)}
      /\ \A c \in Outstanding \ {Answered} : ~Same(c, Answered) /\ c \in Command
  BY Completing
<1>2. Answered.profile \in Profile /\ Answered = Release(Answered.profile)
  BY <1>1, CommandIs
<1>3. releasing.profile = Answered.profile
  BY <1>1 DEF IInv, Remembered
<1>4. releasing.profile # NoProfile /\ releasing.purpose # "none"
  BY <1>2, <1>3, ShellConstants DEF IInv, Releasing
<1>5. releasing # NotReleasing
  BY <1>4 DEF NotReleasing
<1>6. selection = NoProfile /\ discovery = "none"
  BY <1>5 DEF IInv, Selecting
<1>7. ~unsent /\ replacement = NoProfile
  BY <1>6 DEF IInv, Selecting
<1>8. ok => releasing.profile \notin locked
  BY <1>1, <1>3, CompletionIs DEF IInv, Locked
<1>9. ~ok => ioFailed
  BY <1>1, CompletionIs DEF IInv, Failures
<1>10. \A c \in Outstanding \ {Answered} : c.kind # "release"
  BY <1>1 DEF Same
<1>11. \A c \in Outstanding : c.kind # "prepare" /\ c.kind # "discover"
  BY <1>1, <1>6, OnTheWay, CommandIs, ShellConstants DEF IInv, TypeOK, Remembered
<1>12. \A c \in Outstanding \ {Answered} : c.kind = "save"
  BY <1>1, <1>10, <1>11, CommandIs
<1>13. \A p : PrepareDone(p) \notin Answers
  BY <1>11, Way, Fields
<1> QED
  BY <1>1, <1>2, <1>3, <1>4, <1>6, <1>7, <1>8, <1>9, <1>12, <1>13, OtherAnswers DEF Answered, ReleaseHandled, SameSaves, SameLocks

-----------------------------------------------------------------------------
(* The shell's steps, one by one.                                          *)

LEMMA ResumedKeeps ==
    ASSUME IInv, Resumed
    PROVE  IInv'
<1>1. /\ UNCHANGED <<busy, done, locked, stored, ioFailed, active, selection, content,
               durable, saving, replacement, rejected, replaced, releasing, discovery,
               unsent, resetting, browsing, shutdown, windows, cycles>>
      /\ loop.phase = "starting" /\ loop'.phase \notin {"starting", "exited"}
  BY Shapes DEF IInv, Resumed, At, worker, runtime, locks, session
<1>2. Tried(Prepare(selection)) /\ \A e \in Outstanding : ~Same(Prepare(selection), e)
  <2>1. Prepare(selection) \in Command
    BY Shapes, Commands, ShellConstants DEF IInv, Selecting, Resumed
  <2>2. \A e \in Outstanding : ~Same(Prepare(selection), e)
    BY Shapes, Fields, Unasked, ShellConstants DEF IInv, Selecting, Releasing, Same,
         Resumed
  <2>3. TrySend(Prepare(selection))
    BY DEF Resumed
  <2> QED
    BY <1>1, <2>1, <2>2, <2>3, Sends DEF IInv
<1>3. Releasing' /\ Browsing' /\ OnDisk' /\ Failures' /\ Custody'
  BY <1>1, <1>2 DEF IInv, Releasing, Flushed, Dirty, Pending, Browsing, OnDisk,
       NoLostMutation, SaveAnswered, Failures, Custody, Tried
<1>4. TypeOK'
  <2>1. loop' \in LoopType
    BY Shapes, PlaceTypes DEF IInv, Resumed
  <2> QED
    BY <1>1, <1>2, <2>1 DEF IInv, TypeOK, Tried
<1>5. Remembered'
  BY <1>1, <1>2, Shapes, ShellConstants, Fields DEF IInv, Remembered, Selecting,
       Releasing, NotReleasing, Underway, Tried, Resumed
<1>6. Underway'
  BY <1>1, <1>2, Shapes, ShellConstants, Fields, CommandIs, OnTheWay, CompletionIs, Way
       DEF IInv, Underway, Pending, NotSaving, Selecting, Releasing, NotReleasing,
       Remembered, Tried, Resumed
<1>7. Selecting'
  BY <1>1, <1>2 DEF IInv, Selecting, NotReleasing, Tried, Resumed
<1>8. Locked'
  BY <1>1, <1>2, Shapes, ShellConstants, Fields DEF IInv, Locked, Selecting, Releasing,
       NotReleasing, Remembered, Underway, Tried, Resumed
<1>9. Exited'
  BY <1>1, <1>2 DEF IInv, Exited, Tried, Resumed
<1>10. Waking'
  BY <1>1, <1>2 DEF IInv, Waking, Dirty, Pending, NotSaving, At, Tried, Resumed
<1>11. NoLostWakeup'
  BY <1>1, <1>2 DEF IInv, NoLostWakeup, Dirty, At, Tried, Resumed
<1> QED
  BY <1>2, <1>3, <1>4, <1>5, <1>6, <1>7, <1>8, <1>9, <1>10, <1>11 DEF IInv, Tried

LEMMA KeyboardCommandKeeps ==
    ASSUME IInv, NEW T \in SUBSET Store, KeyboardCommand(T)
    PROVE  IInv'
<1>1. /\ UNCHANGED <<queue, busy, done, locked, stored, ioFailed, active, selection,
               durable, saving, replacement, rejected, replaced, releasing, discovery,
               unsent, resetting, shutdown, windows, cycles>>
      /\ loop.phase \notin {"starting", "exited"} /\ loop'.phase \notin {"starting", "exited"}
  BY Shapes DEF IInv, KeyboardCommand, CommandsAccepted, Awake, InTransition,
       MutateStores, DriveTouched, Driving, worker, runtime, locks, session
<1>2. InFlight' = InFlight /\ Answers' = Answers /\ Outstanding' = Outstanding /\ Distinct'
  BY <1>1, Keeps DEF IInv
<1>3. Remembered' /\ Underway' /\ Selecting' /\ Failures' /\ Locked' /\ Custody'
  BY <1>1, <1>2 DEF IInv, Remembered, Underway, Pending, Selecting, Failures, Locked,
       Custody
<1>4. TypeOK'
  <2>1. loop' \in LoopType
    BY Shapes, PlaceTypes DEF IInv, KeyboardCommand, CommandsAccepted, Awake,
         InTransition, MutateStores, DriveTouched
  <2>2. /\ browsing' \in BOOLEAN
    BY <1>1, <1>2, Shapes, ShellConstants DEF IInv, TypeOK, KeyboardCommand,
         CommandsAccepted, Awake, InTransition, MutateStores, DriveTouched
  <2>3. content' \in [Profile -> [Store -> 0 .. MaxContent]]
    BY Shapes, MutatingTypes DEF IInv, CommandsAccepted, KeyboardCommand
  <2> QED
    BY <1>1, <1>2, <2>1, <2>2, <2>3 DEF IInv, TypeOK
<1>5. Releasing'
  BY <1>1, <1>2 DEF IInv, Releasing, Flushed, Dirty, Pending, NotSaving, NotReleasing,
       KeyboardCommand, CommandsAccepted, Awake, InTransition, MutateStores,
       DriveTouched
<1>6. Browsing'
  BY <1>1, <1>2 DEF IInv, Browsing, KeyboardCommand, CommandsAccepted, Awake,
       InTransition, MutateStores, DriveTouched
<1>7. OnDisk'
  BY <1>1, <1>2 DEF IInv, OnDisk, NoLostMutation, SaveAnswered, KeyboardCommand,
       CommandsAccepted, Awake, InTransition, MutateStores, DriveTouched
<1>8. Exited'
  BY <1>1, <1>2 DEF IInv, Exited, KeyboardCommand, CommandsAccepted, Awake,
       InTransition, MutateStores, DriveTouched
<1>9. Waking'
  BY <1>1, <1>2 DEF IInv, Waking, Dirty, Pending, NotSaving, Driving, KeyboardCommand,
       CommandsAccepted, Awake, InTransition, MutateStores, DriveTouched
<1>10. NoLostWakeup'
  BY <1>1, <1>2 DEF IInv, NoLostWakeup, Dirty, Driving, KeyboardCommand,
       CommandsAccepted, Awake, InTransition, MutateStores, DriveTouched
<1> QED
  BY <1>2, <1>3, <1>4, <1>5, <1>6, <1>7, <1>8, <1>9, <1>10 DEF IInv

LEMMA FinishBrowsingKeeps ==
    ASSUME IInv, NEW T \in SUBSET Store, FinishBrowsing(T)
    PROVE  IInv'
<1>1. /\ UNCHANGED <<queue, busy, done, locked, stored, ioFailed, active, selection,
               durable, saving, replacement, rejected, replaced, releasing, discovery,
               unsent, resetting, shutdown, windows, cycles>>
      /\ loop.phase \notin {"starting", "exited"} /\ loop'.phase \notin {"starting", "exited"}
  BY Shapes DEF IInv, FinishBrowsing, Awake, MutateStores, DriveTouched, Driving,
       worker, runtime, locks, session
<1>2. InFlight' = InFlight /\ Answers' = Answers /\ Outstanding' = Outstanding /\ Distinct'
  BY <1>1, Keeps DEF IInv
<1>3. Remembered' /\ Underway' /\ Selecting' /\ Failures' /\ Locked' /\ Custody'
  BY <1>1, <1>2 DEF IInv, Remembered, Underway, Pending, Selecting, Failures, Locked,
       Custody
<1>4. TypeOK'
  <2>1. loop' \in LoopType
    BY Shapes, PlaceTypes DEF IInv, FinishBrowsing, Awake, MutateStores, DriveTouched
  <2>2. /\ browsing' \in BOOLEAN
    BY <1>1, <1>2, Shapes, ShellConstants DEF IInv, TypeOK, FinishBrowsing, Awake,
         MutateStores, DriveTouched
  <2>3. content' \in [Profile -> [Store -> 0 .. MaxContent]]
    BY Shapes, MutatingTypes DEF IInv, Browsing, FinishBrowsing
  <2> QED
    BY <1>1, <1>2, <2>1, <2>2, <2>3 DEF IInv, TypeOK
<1>5. Releasing'
  BY <1>1, <1>2, Shapes DEF IInv, Releasing, Browsing, FinishBrowsing
<1>6. Browsing'
  BY <1>1, <1>2 DEF IInv, Browsing, FinishBrowsing, Awake, MutateStores, DriveTouched
<1>7. OnDisk'
  BY <1>1, <1>2 DEF IInv, OnDisk, NoLostMutation, SaveAnswered, FinishBrowsing, Awake,
       MutateStores, DriveTouched
<1>8. Exited'
  BY <1>1, <1>2 DEF IInv, Exited, FinishBrowsing, Awake, MutateStores, DriveTouched
<1>9. Waking'
  BY <1>1, <1>2 DEF IInv, Waking, Dirty, Pending, NotSaving, Driving, FinishBrowsing,
       Awake, MutateStores, DriveTouched
<1>10. NoLostWakeup'
  BY <1>1, <1>2, Shapes, ShellConstants DEF IInv, NoLostWakeup, Dirty, Driving,
       Selecting, FinishBrowsing, Awake, MutateStores, DriveTouched
<1> QED
  BY <1>2, <1>3, <1>4, <1>5, <1>6, <1>7, <1>8, <1>9, <1>10 DEF IInv

LEMMA SessionResetKeeps ==
    ASSUME IInv, NEW T \in SUBSET Store, SessionReset(T)
    PROVE  IInv'
<1>1. /\ UNCHANGED <<queue, busy, done, locked, stored, ioFailed, active, selection,
               durable, saving, replacement, rejected, replaced, releasing, discovery,
               unsent, shutdown, windows, cycles>>
      /\ loop.phase \notin {"starting", "exited"} /\ loop'.phase \notin {"starting", "exited"}
  BY Shapes DEF IInv, SessionReset, Awake, MutateStores, DriveTouched, Driving, worker,
       runtime, locks, session
<1>2. InFlight' = InFlight /\ Answers' = Answers /\ Outstanding' = Outstanding /\ Distinct'
  BY <1>1, Keeps DEF IInv
<1>3. Remembered' /\ Underway' /\ Selecting' /\ Failures' /\ Locked' /\ Custody'
  BY <1>1, <1>2 DEF IInv, Remembered, Underway, Pending, Selecting, Failures, Locked,
       Custody
<1>4. TypeOK'
  <2>1. loop' \in LoopType
    BY Shapes, PlaceTypes DEF IInv, SessionReset, Awake, MutateStores, DriveTouched
  <2>2. /\ resetting' \in BOOLEAN
        /\ browsing' \in BOOLEAN
    BY <1>1, <1>2, Shapes, ShellConstants DEF IInv, TypeOK, SessionReset, Awake,
         MutateStores, DriveTouched
  <2>3. content' \in [Profile -> [Store -> 0 .. MaxContent]]
    BY Shapes, MutatingTypes DEF IInv, Browsing, SessionReset
  <2> QED
    BY <1>1, <1>2, <2>1, <2>2, <2>3 DEF IInv, TypeOK
<1>5. Releasing'
  BY <1>1, <1>2, Shapes DEF IInv, Releasing, Browsing, SessionReset
<1>6. Browsing'
  BY <1>1, <1>2 DEF IInv, Browsing, SessionReset, Awake, MutateStores, DriveTouched
<1>7. OnDisk'
  BY <1>1, <1>2 DEF IInv, OnDisk, NoLostMutation, SaveAnswered, SessionReset, Awake,
       MutateStores, DriveTouched
<1>8. Exited'
  BY <1>1, <1>2 DEF IInv, Exited, SessionReset, Awake, MutateStores, DriveTouched
<1>9. Waking'
  BY <1>1, <1>2 DEF IInv, Waking, Dirty, Pending, NotSaving, Driving, SessionReset,
       Awake, MutateStores, DriveTouched
<1>10. NoLostWakeup'
  BY <1>1, <1>2, Shapes, ShellConstants DEF IInv, NoLostWakeup, Dirty, Driving,
       Selecting, SessionReset, Awake, MutateStores, DriveTouched
<1> QED
  BY <1>2, <1>3, <1>4, <1>5, <1>6, <1>7, <1>8, <1>9, <1>10 DEF IInv

LEMMA ProfileCycleKeeps ==
    ASSUME IInv, ProfileCycle
    PROVE  IInv'
<1>1. /\ UNCHANGED <<busy, done, locked, stored, ioFailed, active, selection, content,
               durable, saving, replacement, rejected, replaced, releasing, unsent,
               resetting, browsing, shutdown, windows>>
      /\ loop.phase \notin {"starting", "exited"} /\ loop'.phase \notin {"starting", "exited"}
  BY Shapes DEF IInv, ProfileCycle, CommandsAccepted, Awake, InTransition, At, worker,
       runtime, locks, session
<1>2. Tried(Discover) /\ \A e \in Outstanding : ~Same(Discover, e)
  <2>1. Discover \in Command
    BY Shapes, Commands, ShellConstants DEF IInv, Selecting, ProfileCycle,
         CommandsAccepted, Awake, InTransition
  <2>2. \A e \in Outstanding : ~Same(Discover, e)
    BY Shapes, Fields, Unasked, ShellConstants DEF IInv, Selecting, Releasing, Same,
         ProfileCycle, CommandsAccepted, Awake, InTransition
  <2>3. TrySend(Discover)
    BY DEF ProfileCycle, CommandsAccepted, Awake, InTransition
  <2> QED
    BY <1>1, <2>1, <2>2, <2>3, Sends DEF IInv
<1>3. Releasing' /\ Browsing' /\ OnDisk' /\ Failures' /\ Custody'
  BY <1>1, <1>2 DEF IInv, Releasing, Flushed, Dirty, Pending, Browsing, OnDisk,
       NoLostMutation, SaveAnswered, Failures, Custody, Tried
<1>4. TypeOK'
  <2>1. loop' \in LoopType
    BY Shapes, PlaceTypes DEF IInv, ProfileCycle, CommandsAccepted, Awake, InTransition
  <2>2. /\ discovery' \in {"none", "unsent", "sent"}
        /\ cycles' \in 0 .. MaxCycles
    BY <1>1, <1>2, Shapes, ShellConstants DEF IInv, TypeOK, Tried, ProfileCycle,
         CommandsAccepted, Awake, InTransition
  <2> QED
    BY <1>1, <1>2, <2>1, <2>2 DEF IInv, TypeOK, Tried
<1>5. Remembered'
  BY <1>1, <1>2, Shapes, ShellConstants, Fields DEF IInv, Remembered, Selecting,
       Releasing, NotReleasing, Underway, Tried, ProfileCycle, CommandsAccepted, Awake,
       InTransition
<1>6. Underway'
  BY <1>1, <1>2 DEF IInv, Underway, Pending, NotSaving, Tried, ProfileCycle,
       CommandsAccepted, Awake, InTransition
<1>7. Selecting'
  <2>1. /\ selection = NoProfile /\ replaced = NoProfile /\ ~shutdown
        /\ discovery' # "none" => TRUE
    BY DEF ProfileCycle, CommandsAccepted, InTransition
  <2>2. rejected = NoProfile /\ releasing = NotReleasing /\ ~unsent /\ replacement = NoProfile
    BY <2>1, Shapes DEF IInv, Releasing, Selecting, Purpose, NotReleasing
  <2> QED
    BY <1>1, <2>1, <2>2 DEF IInv, Selecting
<1>8. Locked'
  BY <1>1, <1>2, Shapes, ShellConstants, Fields DEF IInv, Locked, Selecting, Releasing,
       NotReleasing, Remembered, Underway, Tried, ProfileCycle, CommandsAccepted, Awake,
       InTransition
<1>9. Exited'
  BY <1>1, <1>2 DEF IInv, Exited, Tried, ProfileCycle, CommandsAccepted, Awake,
       InTransition
<1>10. Waking'
  BY <1>1, <1>2 DEF IInv, Waking, Dirty, Pending, NotSaving, At, Tried, ProfileCycle,
       CommandsAccepted, Awake, InTransition
<1>11. NoLostWakeup'
  BY <1>1, <1>2 DEF IInv, NoLostWakeup, Dirty, At, Tried, ProfileCycle,
       CommandsAccepted, Awake, InTransition
<1> QED
  BY <1>2, <1>3, <1>4, <1>5, <1>6, <1>7, <1>8, <1>9, <1>10, <1>11 DEF IInv, Tried

LEMMA StopRequestedKeeps ==
    ASSUME IInv, StopRequested
    PROVE  IInv'
<1>1. /\ UNCHANGED <<queue, busy, done, locked, stored, ioFailed, active, content,
               durable, saving, replaced, releasing, windows, cycles>>
      /\ loop.phase \notin {"starting", "exited"} /\ loop'.phase \notin {"starting", "exited"}
  BY Shapes DEF IInv, StopRequested, Awake, ShutdownNow, Shutdown, BeginShutdown,
       Driving, worker, runtime, locks, session
<1>2. InFlight' = InFlight /\ Answers' = Answers /\ Outstanding' = Outstanding /\ Distinct'
  BY <1>1, Keeps DEF IInv
<1>3. OnDisk' /\ Failures' /\ Exited'
  BY <1>1, <1>2 DEF IInv, OnDisk, NoLostMutation, SaveAnswered, Failures, Exited
<1>4. TypeOK'
  <2>1. loop' \in LoopType
    BY Shapes, PlaceTypes DEF IInv, StopRequested, Awake, ShutdownNow, Shutdown,
         BeginShutdown
  <2>2. /\ selection' \in Profile \cup {NoProfile}
        /\ replacement' \in Profile \cup {NoProfile}
        /\ rejected' \in Profile \cup {NoProfile}
        /\ discovery' \in {"none", "unsent", "sent"}
        /\ unsent' \in BOOLEAN
        /\ resetting' \in BOOLEAN
        /\ browsing' \in BOOLEAN
        /\ shutdown' \in BOOLEAN
    BY <1>1, <1>2, Shapes, ShellConstants DEF IInv, TypeOK, StopRequested, Awake,
         ShutdownNow, Shutdown, BeginShutdown
  <2> QED
    BY <1>1, <1>2, <2>1, <2>2 DEF IInv, TypeOK
<1>5. Remembered'
  BY <1>1, <1>2 DEF IInv, Remembered, StopRequested, Awake, ShutdownNow, Shutdown,
       BeginShutdown
<1>6. Underway'
  BY <1>1, <1>2 DEF IInv, Underway, Pending, NotSaving, StopRequested, Awake,
       ShutdownNow, Shutdown, BeginShutdown
<1>7. Selecting'
  BY <1>1, <1>2 DEF IInv, Selecting, NotReleasing, StopRequested, Awake, ShutdownNow,
       Shutdown, BeginShutdown
<1>8. Releasing'
  BY <1>1, <1>2, Shapes, ShellConstants DEF IInv, Releasing, Flushed, Dirty, Pending,
       NotSaving, NotReleasing, Selecting, StopRequested, Awake, ShutdownNow, Shutdown,
       BeginShutdown
<1>9. Browsing'
  BY <1>1, <1>2 DEF IInv, Browsing, StopRequested, Awake, ShutdownNow, Shutdown,
       BeginShutdown
<1>10. Locked'
  BY <1>1, <1>2 DEF IInv, Locked, StopRequested, Awake, ShutdownNow, Shutdown,
       BeginShutdown
<1>11. Custody'
  BY <1>1, <1>2, Shapes, ShellConstants DEF IInv, Custody, Selecting, StopRequested,
       Awake, ShutdownNow, Shutdown, BeginShutdown
<1>12. Waking'
  BY <1>1, <1>2 DEF IInv, Waking, Dirty, Pending, NotSaving, Driving, StopRequested,
       Awake, ShutdownNow, Shutdown, BeginShutdown
<1>13. NoLostWakeup'
  BY <1>1, <1>2, Shapes, ShellConstants DEF IInv, NoLostWakeup, Dirty, Driving,
       Selecting, StopRequested, Awake, ShutdownNow, Shutdown, BeginShutdown
<1> QED
  BY <1>2, <1>3, <1>4, <1>5, <1>6, <1>7, <1>8, <1>9, <1>10, <1>11, <1>12, <1>13 DEF IInv

LEMMA PollCleanKeeps ==
    ASSUME IInv, NEW s \in Store, PollClean(s)
    PROVE  IInv'
<1>1. /\ UNCHANGED <<queue, busy, done, locked, stored, ioFailed, active, selection,
               content, durable, saving, replacement, rejected, replaced, releasing,
               discovery, unsent, resetting, browsing, shutdown, cycles>>
      /\ loop.phase \notin {"starting", "exited"} /\ loop'.phase \notin {"starting", "exited"}
  BY Shapes, PassIs DEF IInv, PollClean, Drives, worker, runtime, locks, session
<1>2. InFlight' = InFlight /\ Answers' = Answers /\ Outstanding' = Outstanding /\ Distinct'
  BY <1>1, Keeps DEF IInv
<1>3. Remembered' /\ Underway' /\ Selecting' /\ Releasing' /\ Browsing' /\ OnDisk' /\
       Failures' /\ Locked' /\ Custody' /\ Exited'
  BY <1>1, <1>2 DEF IInv, Remembered, Underway, Pending, Selecting, Releasing, Flushed,
       Dirty, Browsing, OnDisk, NoLostMutation, SaveAnswered, Failures, Locked, Custody,
       Exited
<1>4. TypeOK'
  <2>1. loop' \in LoopType
    BY Shapes, PlaceTypes, PassIs DEF IInv, PollClean, Drives
  <2>2. /\ windows' \subseteq Store
    BY <1>1, <1>2, Shapes, ShellConstants DEF IInv, TypeOK, PollClean, Drives
  <2> QED
    BY <1>1, <1>2, <2>1, <2>2 DEF IInv, TypeOK
<1>5. Waking'
  BY <1>1, <1>2, PassIs, Shapes, ShellConstants DEF IInv, Waking, Dirty, Pending,
       NotSaving, Selecting, PollClean, Drives
<1>6. NoLostWakeup'
  BY <1>1, <1>2, PassIs, Shapes, ShellConstants DEF IInv, NoLostWakeup, Dirty,
       Selecting, PollClean, Drives
<1> QED
  BY <1>2, <1>3, <1>4, <1>5, <1>6 DEF IInv

LEMMA PollPendingKeeps ==
    ASSUME IInv, NEW s \in Store, PollPending(s)
    PROVE  IInv'
<1>1. /\ UNCHANGED <<queue, busy, done, locked, stored, ioFailed, active, selection,
               content, durable, saving, replacement, rejected, replaced, releasing,
               discovery, unsent, resetting, browsing, shutdown, windows, cycles>>
      /\ loop.phase \notin {"starting", "exited"} /\ loop'.phase \notin {"starting", "exited"}
  BY Shapes, PassIs DEF IInv, PollPending, Drives, worker, runtime, locks, session
<1>2. InFlight' = InFlight /\ Answers' = Answers /\ Outstanding' = Outstanding /\ Distinct'
  BY <1>1, Keeps DEF IInv
<1>3. Remembered' /\ Underway' /\ Selecting' /\ Releasing' /\ Browsing' /\ OnDisk' /\
       Failures' /\ Locked' /\ Custody' /\ Exited'
  BY <1>1, <1>2 DEF IInv, Remembered, Underway, Pending, Selecting, Releasing, Flushed,
       Dirty, Browsing, OnDisk, NoLostMutation, SaveAnswered, Failures, Locked, Custody,
       Exited
<1>4. TypeOK'
  <2>1. loop' \in LoopType
    BY Shapes, PlaceTypes, PassIs DEF IInv, PollPending, Drives
  <2> QED
    BY <1>1, <1>2, <2>1 DEF IInv, TypeOK
<1>5. Waking'
  BY <1>1, <1>2, PassIs, Shapes, ShellConstants DEF IInv, Waking, Dirty, Pending,
       NotSaving, Selecting, PollPending, Drives
<1>6. NoLostWakeup'
  BY <1>1, <1>2, PassIs, Shapes, ShellConstants DEF IInv, NoLostWakeup, Dirty,
       Selecting, PollPending, Drives
<1> QED
  BY <1>2, <1>3, <1>4, <1>5, <1>6 DEF IInv

LEMMA PollEarlyKeeps ==
    ASSUME IInv, NEW s \in Store, PollEarly(s)
    PROVE  IInv'
<1>1. /\ UNCHANGED <<queue, busy, done, locked, stored, ioFailed, active, selection,
               content, durable, saving, replacement, rejected, replaced, releasing,
               discovery, unsent, resetting, browsing, shutdown, cycles>>
      /\ loop.phase \notin {"starting", "exited"} /\ loop'.phase \notin {"starting", "exited"}
  BY Shapes, PassIs DEF IInv, PollEarly, Drives, worker, runtime, locks, session
<1>2. InFlight' = InFlight /\ Answers' = Answers /\ Outstanding' = Outstanding /\ Distinct'
  BY <1>1, Keeps DEF IInv
<1>3. Remembered' /\ Underway' /\ Selecting' /\ Releasing' /\ Browsing' /\ OnDisk' /\
       Failures' /\ Locked' /\ Custody' /\ Exited'
  BY <1>1, <1>2 DEF IInv, Remembered, Underway, Pending, Selecting, Releasing, Flushed,
       Dirty, Browsing, OnDisk, NoLostMutation, SaveAnswered, Failures, Locked, Custody,
       Exited
<1>4. TypeOK'
  <2>1. loop' \in LoopType
    BY Shapes, PlaceTypes, PassIs DEF IInv, PollEarly, Drives
  <2>2. /\ windows' \subseteq Store
    BY <1>1, <1>2, Shapes, ShellConstants DEF IInv, TypeOK, PollEarly, Drives
  <2> QED
    BY <1>1, <1>2, <2>1, <2>2 DEF IInv, TypeOK
<1>5. Waking'
  BY <1>1, <1>2, PassIs, Shapes, ShellConstants DEF IInv, Waking, Dirty, Pending,
       NotSaving, Selecting, PollEarly, Drives
<1>6. NoLostWakeup'
  BY <1>1, <1>2, PassIs, Shapes, ShellConstants DEF IInv, NoLostWakeup, Dirty,
       Selecting, PollEarly, Drives
<1> QED
  BY <1>2, <1>3, <1>4, <1>5, <1>6 DEF IInv

LEMMA PollDueKeeps ==
    ASSUME IInv, NEW s \in Store, PollDue(s)
    PROVE  IInv'
<1>1. /\ UNCHANGED <<busy, done, locked, stored, ioFailed, active, selection, content,
               durable, replacement, rejected, replaced, releasing, discovery, unsent,
               resetting, browsing, shutdown, cycles>>
      /\ loop.phase \notin {"starting", "exited"} /\ loop'.phase \notin {"starting", "exited"}
  BY Shapes, PassIs DEF IInv, PollDue, Drives, Dirty, worker, runtime, locks, session
<1>2. Tried(Save(active, s, content[active][s])) /\ \A e \in Outstanding : ~Same(Save(active, s, content[active][s]), e)
  <2>1. Save(active, s, content[active][s]) \in Command
    BY Shapes, Commands, ShellConstants DEF IInv, Selecting, PollDue, Drives, Dirty
  <2>2. \A e \in Outstanding : ~Same(Save(active, s, content[active][s]), e)
    BY Shapes, Fields, Unasked, ShellConstants DEF IInv, Selecting, Releasing, Same,
         PollDue, Drives, Dirty
  <2>3. TrySend(Save(active, s, content[active][s]))
    BY DEF PollDue, Drives, Dirty
  <2> QED
    BY <1>1, <2>1, <2>2, <2>3, Sends DEF IInv
<1>3. Selecting' /\ Browsing' /\ Failures' /\ Custody'
  BY <1>1, <1>2 DEF IInv, Selecting, Browsing, Failures, Custody, Tried
<1>4. TypeOK'
  <2>1. loop' \in LoopType
    BY Shapes, PlaceTypes, PassIs DEF IInv, PollDue, Drives, Dirty
  <2>2. /\ windows' \subseteq Store
    BY <1>1, <1>2, Shapes, ShellConstants DEF IInv, TypeOK, Tried, PollDue, Drives,
         Dirty
  <2>3. saving' \in [Store -> 0 .. NotSaving]
    BY <1>1, <1>2, Shapes, WorkerConstants DEF IInv, TypeOK, NotSaving, Purpose,
         NotReleasing, Tried, PollDue, Drives, Dirty
  <2> QED
    BY <1>1, <1>2, <2>1, <2>2, <2>3 DEF IInv, TypeOK, Tried
<1>5. Remembered'
  <2>1. \A e \in Outstanding : e.kind = "save" => e.store # s
    BY <1>2, Fields DEF Same
  <2>2. \A e \in Outstanding : e \in Command
    BY OnTheWay DEF IInv, TypeOK
  <2>3. \A t \in Store : t # s => saving'[t] = saving[t]
    BY DEF IInv, TypeOK, PollDue
  <2>4. ~QueueFull => saving'[s] = content[active][s]
    BY DEF IInv, TypeOK, PollDue
  <2> QED
    BY <1>1, <1>2, <2>1, <2>2, <2>3, <2>4, CommandIs, Fields DEF Tried, IInv, Remembered
<1>6. Underway'
  BY <1>1, <1>2 DEF IInv, Underway, Pending, NotSaving, Tried, PollDue, Drives, Dirty
<1>7. Releasing'
  BY <1>1, <1>2 DEF IInv, Releasing, Flushed, Dirty, Pending, NotSaving, NotReleasing,
       Tried, PollDue, Drives
<1>8. OnDisk'
  <2>1. \A t \in Store : t # s => saving'[t] = saving[t]
    BY DEF IInv, TypeOK, PollDue
  <2>2. \A n : SaveDone(active, s, n) \notin Answers
    <3>1. \A e \in Outstanding : e.kind = "save" => e.store # s
      BY <1>2, Fields DEF Same
    <3> QED
      BY <3>1, Way, Fields
  <2>3. \A t \in Store : SaveAnswered(t)' <=> SaveAnswered(t)
    BY <1>1, <1>2, <2>1, <2>2 DEF SaveAnswered, Tried
  <2>4. \A t \in Store : SaveAnswered(t) => t # s
    BY <2>2 DEF SaveAnswered
  <2> QED
    BY <1>1, <2>1, <2>3, <2>4 DEF IInv, OnDisk, NoLostMutation
<1>9. Locked'
  BY <1>1, <1>2, Shapes, ShellConstants, Fields, CommandIs, OnTheWay, CompletionIs, Way
       DEF IInv, Locked, Selecting, Releasing, NotReleasing, Remembered, Underway,
       Waking, Pending, Dirty, Flushed, Tried, PollDue, Drives
<1>10. Exited'
  BY <1>1, <1>2 DEF IInv, Exited, Tried, PollDue, Drives, Dirty
<1>11. Waking'
  BY <1>1, <1>2, PassIs, Shapes, ShellConstants, Fields, CommandIs, OnTheWay,
       CompletionIs, Way DEF IInv, Waking, Dirty, Pending, NotSaving, Selecting,
       Releasing, NotReleasing, Remembered, Underway, Tried, PollDue, Drives
<1>12. NoLostWakeup'
  BY <1>1, <1>2, PassIs DEF IInv, NoLostWakeup, Dirty, Tried, PollDue, Drives
<1> QED
  BY <1>2, <1>3, <1>4, <1>5, <1>6, <1>7, <1>8, <1>9, <1>10, <1>11, <1>12 DEF IInv, Tried

LEMMA RestKeeps ==
    ASSUME IInv, Rest
    PROVE  IInv'
<1>1. /\ UNCHANGED <<queue, busy, done, locked, stored, ioFailed, active, selection,
               content, durable, saving, replacement, rejected, replaced, releasing,
               discovery, unsent, resetting, browsing, shutdown, windows, cycles>>
      /\ loop.phase \notin {"starting", "exited"} /\ loop'.phase \notin {"starting", "exited"}
  BY Shapes, YieldIs DEF IInv, Rest, Settling, NothingToSettle, WaitsForDeadline, At,
       worker, runtime, locks, session
<1>2. InFlight' = InFlight /\ Answers' = Answers /\ Outstanding' = Outstanding /\ Distinct'
  BY <1>1, Keeps DEF IInv
<1>3. Remembered' /\ Underway' /\ Selecting' /\ Releasing' /\ Browsing' /\ OnDisk' /\
       Failures' /\ Locked' /\ Custody' /\ Exited'
  BY <1>1, <1>2 DEF IInv, Remembered, Underway, Pending, Selecting, Releasing, Flushed,
       Dirty, Browsing, OnDisk, NoLostMutation, SaveAnswered, Failures, Locked, Custody,
       Exited
<1>4. TypeOK'
  <2>1. loop' \in LoopType
    BY Shapes, PlaceTypes, YieldIs DEF IInv, Rest, Settling, NothingToSettle,
         WaitsForDeadline
  <2> QED
    BY <1>1, <1>2, <2>1 DEF IInv, TypeOK
<1>5. Waking'
  BY <1>1, <1>2, YieldIs DEF IInv, Waking, Dirty, Pending, NotSaving, At, Rest,
       Settling, NothingToSettle, WaitsForDeadline
<1>6. NoLostWakeup'
  <2>1. SUFFICES ASSUME loop'.phase = "waiting",
                        \/ shutdown \/ discovery # "none" \/ selection # NoProfile
                        \/ replaced # NoProfile \/ \E s \in Store : Dirty(s)
                 PROVE  Outstanding # {} \/ browsing \/ resetting
    <3>1. Outstanding # {} <=> InFlight # {} \/ done # <<>>
      BY OnTheWay DEF IInv, TypeOK
    <3> QED
      BY <1>1, <1>2, <3>1 DEF NoLostWakeup, Dirty
  <2>2. Settling /\ NothingToSettle /\ loop.after = "wait" /\ ~WaitsForDeadline
    BY <2>1, YieldIs DEF Rest, At
  <2>3. \A s \in Store : Pending(s) => Outstanding # {}
    BY DEF IInv, Underway
  <2>4. discovery # "none" => Outstanding # {}
    BY <2>2, Shapes DEF IInv, Underway, Waking, Settling
  <2>5. releasing.purpose # "none" => Outstanding # {}
    BY DEF IInv, Underway, Releasing
  <2>6. shutdown \/ replacement # NoProfile =>
           \A s \in Store : Dirty(s) => Outstanding # {}
    BY <2>2, <2>3 DEF IInv, Waking, Settling
  <2>7. ~Flushed /\ (shutdown \/ replacement # NoProfile) => Outstanding # {}
    BY <2>3, <2>6 DEF Flushed
  <2>8. replacement # NoProfile => Outstanding # {} \/ browsing
    BY <2>2, <2>7 DEF IInv, Selecting, NothingToSettle
  <2>9. selection # NoProfile => Outstanding # {} \/ browsing
    BY <1>1, <2>2, <2>8 DEF IInv, Underway, Waking, Settling
  <2>10. shutdown => Outstanding # {} \/ browsing
    BY <2>2, <2>4, <2>5, <2>7, <2>9 DEF NothingToSettle, WaitsForWorker
  <2>11. replaced # NoProfile => Outstanding # {} \/ browsing
    BY <2>2, <2>5, <2>8, <2>10 DEF NothingToSettle
  <2>12. ASSUME NEW s \in Store, Dirty(s)
         PROVE  Outstanding # {} \/ browsing
    BY <2>2, <2>3, <2>8, <2>10, <2>11, <2>12 DEF IInv, Waking, Settling, WaitsForDeadline
  <2> QED
    BY <2>1, <2>4, <2>9, <2>10, <2>11, <2>12
<1> QED
  BY <1>2, <1>3, <1>4, <1>5, <1>6 DEF IInv

LEMMA ReleaseReplacedKeeps ==
    ASSUME IInv, ReleaseReplaced
    PROVE  IInv'
<1>1. /\ UNCHANGED <<busy, done, locked, stored, ioFailed, active, selection, content,
               durable, saving, replacement, rejected, replaced, discovery, unsent,
               resetting, browsing, shutdown, windows, cycles>>
      /\ loop.phase \notin {"starting", "exited"} /\ loop'.phase \notin {"starting", "exited"}
  BY Shapes, YieldIs DEF IInv, ReleaseReplaced, Settling, ShutdownSettles,
       WaitsForWorker, ReleaseSent, At, worker, runtime, locks, session
<1>2. Tried(Release(replaced)) /\ \A e \in Outstanding : ~Same(Release(replaced), e)
  <2>1. releasing.profile = NoProfile /\ replaced \in Profile
    BY Shapes DEF IInv, Selecting, Releasing, Purpose, NotReleasing, ReleaseReplaced, ShutdownSettles, WaitsForWorker
  <2>2. \A e \in Outstanding : ~Same(Release(replaced), e)
    BY <2>1, Unasked, Fields DEF Same
  <2>3. TrySend(Release(replaced))
    BY DEF ReleaseReplaced, ReleaseSent
  <2> QED
    BY <1>1, <2>1, <2>2, <2>3, Sends, Commands DEF IInv
<1>3. Browsing' /\ OnDisk' /\ Failures'
  BY <1>1, <1>2 DEF IInv, Browsing, OnDisk, NoLostMutation, SaveAnswered, Failures,
       Tried
<1>4. TypeOK'
  <2>1. loop' \in LoopType
    BY Shapes, PlaceTypes, YieldIs DEF IInv, ReleaseReplaced, Settling, ShutdownSettles,
         WaitsForWorker, ReleaseSent
  <2>2. releasing' \in [profile : Profile \cup {NoProfile}, purpose : Purpose]
    BY <1>1, <1>2, Shapes, WorkerConstants DEF IInv, TypeOK, NotSaving, Purpose,
         NotReleasing, Tried, ReleaseReplaced, Settling, ShutdownSettles,
         WaitsForWorker, ReleaseSent
  <2> QED
    BY <1>1, <1>2, <2>1, <2>2 DEF IInv, TypeOK, Tried
<1>5. Remembered'
  <2>1. \A e \in Outstanding : e.kind # "release"
    BY <1>2, Fields DEF Same
  <2>2. ~QueueFull => releasing'.profile = replaced
    BY DEF ReleaseReplaced, ReleaseSent
  <2>3. ASSUME NEW e \in Outstanding
        PROVE  /\ e.kind = "prepare" => selection' = e.profile /\ ~unsent' /\ replacement' = NoProfile
               /\ e.kind = "save" => active' = e.profile /\ saving'[e.store] = e.content
               /\ e.kind = "discover" => discovery' = "sent"
    BY <1>1 DEF IInv, Remembered
  <2> QED
    BY <1>2, <2>1, <2>2, <2>3, Fields DEF Tried, Remembered
<1>6. Underway'
  BY <1>1, <1>2 DEF IInv, Underway, Pending, NotSaving, Tried, ReleaseReplaced,
       Settling, ShutdownSettles, WaitsForWorker, ReleaseSent
<1>7. Selecting'
  BY <1>1, <1>2 DEF IInv, Selecting, NotReleasing, Tried, ReleaseReplaced, Settling,
       ShutdownSettles, WaitsForWorker, ReleaseSent
<1>8. Releasing'
  BY <1>1, <1>2 DEF IInv, Releasing, Flushed, Dirty, Pending, NotSaving, NotReleasing,
       Tried, ReleaseReplaced, Settling, ShutdownSettles, WaitsForWorker, ReleaseSent
<1>9. Locked'
  BY <1>1, <1>2, Shapes, ShellConstants, Fields DEF IInv, Locked, Selecting, Releasing,
       NotReleasing, Remembered, Underway, Tried, ReleaseReplaced, Settling,
       ShutdownSettles, WaitsForWorker, ReleaseSent
<1>10. Custody'
  BY <1>1, <1>2, Shapes, ShellConstants, Fields DEF IInv, Custody, Selecting, Releasing,
       NotReleasing, Remembered, Underway, Tried, ReleaseReplaced, Settling,
       ShutdownSettles, WaitsForWorker, ReleaseSent
<1>11. Exited'
  BY <1>1, <1>2 DEF IInv, Exited, Tried, ReleaseReplaced, Settling, ShutdownSettles,
       WaitsForWorker, ReleaseSent
<1>12. Waking'
  BY <1>1, <1>2, YieldIs DEF IInv, Waking, Dirty, Pending, NotSaving, At, Tried,
       ReleaseReplaced, Settling, ShutdownSettles, WaitsForWorker, ReleaseSent
<1>13. NoLostWakeup'
  BY <1>1, <1>2, YieldIs DEF IInv, NoLostWakeup, Dirty, At, Tried, ReleaseReplaced,
       Settling, ShutdownSettles, WaitsForWorker, ReleaseSent
<1> QED
  BY <1>2, <1>3, <1>4, <1>5, <1>6, <1>7, <1>8, <1>9, <1>10, <1>11, <1>12, <1>13 DEF
       IInv, Tried

LEMMA ReleaseRejectedKeeps ==
    ASSUME IInv, ReleaseRejected
    PROVE  IInv'
<1>1. /\ UNCHANGED <<busy, done, locked, stored, ioFailed, active, selection, content,
               durable, saving, replacement, replaced, discovery, unsent, resetting,
               browsing, shutdown, windows, cycles>>
      /\ loop.phase \notin {"starting", "exited"} /\ loop'.phase \notin {"starting", "exited"}
  BY Shapes, YieldIs DEF IInv, ReleaseRejected, Settling, ShutdownSettles,
       WaitsForWorker, ReleaseSent, At, worker, runtime, locks, session
<1>2. Tried(Release(rejected)) /\ \A e \in Outstanding : ~Same(Release(rejected), e)
  <2>1. releasing.profile = NoProfile /\ rejected \in Profile
    BY Shapes DEF IInv, Selecting, Releasing, Purpose, NotReleasing, ReleaseRejected, ShutdownSettles, WaitsForWorker
  <2>2. \A e \in Outstanding : ~Same(Release(rejected), e)
    BY <2>1, Unasked, Fields DEF Same
  <2>3. TrySend(Release(rejected))
    BY DEF ReleaseRejected, ReleaseSent
  <2> QED
    BY <1>1, <2>1, <2>2, <2>3, Sends, Commands DEF IInv
<1>3. Browsing' /\ OnDisk' /\ Failures'
  BY <1>1, <1>2 DEF IInv, Browsing, OnDisk, NoLostMutation, SaveAnswered, Failures,
       Tried
<1>4. TypeOK'
  <2>1. loop' \in LoopType
    BY Shapes, PlaceTypes, YieldIs DEF IInv, ReleaseRejected, Settling, ShutdownSettles,
         WaitsForWorker, ReleaseSent
  <2>2. /\ rejected' \in Profile \cup {NoProfile}
    BY <1>1, <1>2, Shapes, ShellConstants DEF IInv, TypeOK, Tried, ReleaseRejected,
         Settling, ShutdownSettles, WaitsForWorker, ReleaseSent
  <2>3. releasing' \in [profile : Profile \cup {NoProfile}, purpose : Purpose]
    BY <1>1, <1>2, Shapes, WorkerConstants DEF IInv, TypeOK, NotSaving, Purpose,
         NotReleasing, Tried, ReleaseRejected, Settling, ShutdownSettles,
         WaitsForWorker, ReleaseSent
  <2> QED
    BY <1>1, <1>2, <2>1, <2>2, <2>3 DEF IInv, TypeOK, Tried
<1>5. Remembered'
  <2>1. \A e \in Outstanding : e.kind # "release"
    BY <1>2, Fields DEF Same
  <2>2. ~QueueFull => releasing'.profile = rejected
    BY DEF ReleaseRejected, ReleaseSent
  <2>3. ASSUME NEW e \in Outstanding
        PROVE  /\ e.kind = "prepare" => selection' = e.profile /\ ~unsent' /\ replacement' = NoProfile
               /\ e.kind = "save" => active' = e.profile /\ saving'[e.store] = e.content
               /\ e.kind = "discover" => discovery' = "sent"
    BY <1>1 DEF IInv, Remembered
  <2> QED
    BY <1>2, <2>1, <2>2, <2>3, Fields DEF Tried, Remembered
<1>6. Underway'
  BY <1>1, <1>2 DEF IInv, Underway, Pending, NotSaving, Tried, ReleaseRejected,
       Settling, ShutdownSettles, WaitsForWorker, ReleaseSent
<1>7. Selecting'
  BY <1>1, <1>2 DEF IInv, Selecting, NotReleasing, Tried, ReleaseRejected, Settling,
       ShutdownSettles, WaitsForWorker, ReleaseSent
<1>8. Releasing'
  BY <1>1, <1>2 DEF IInv, Releasing, Flushed, Dirty, Pending, NotSaving, NotReleasing,
       Tried, ReleaseRejected, Settling, ShutdownSettles, WaitsForWorker, ReleaseSent
<1>9. Locked'
  BY <1>1, <1>2, Shapes, ShellConstants, Fields DEF IInv, Locked, Selecting, Releasing,
       NotReleasing, Remembered, Underway, Tried, ReleaseRejected, Settling,
       ShutdownSettles, WaitsForWorker, ReleaseSent
<1>10. Custody'
  BY <1>1, <1>2 DEF IInv, Custody, Tried, ReleaseRejected, Settling, ShutdownSettles,
       WaitsForWorker, ReleaseSent
<1>11. Exited'
  BY <1>1, <1>2 DEF IInv, Exited, Tried, ReleaseRejected, Settling, ShutdownSettles,
       WaitsForWorker, ReleaseSent
<1>12. Waking'
  BY <1>1, <1>2, YieldIs DEF IInv, Waking, Dirty, Pending, NotSaving, At, Tried,
       ReleaseRejected, Settling, ShutdownSettles, WaitsForWorker, ReleaseSent
<1>13. NoLostWakeup'
  BY <1>1, <1>2, YieldIs DEF IInv, NoLostWakeup, Dirty, At, Tried, ReleaseRejected,
       Settling, ShutdownSettles, WaitsForWorker, ReleaseSent
<1> QED
  BY <1>2, <1>3, <1>4, <1>5, <1>6, <1>7, <1>8, <1>9, <1>10, <1>11, <1>12, <1>13 DEF
       IInv, Tried

LEMMA ReleaseActiveKeeps ==
    ASSUME IInv, ReleaseActive
    PROVE  IInv'
<1>1. /\ UNCHANGED <<busy, done, locked, stored, ioFailed, active, selection, content,
               durable, saving, replacement, rejected, replaced, discovery, unsent,
               resetting, browsing, shutdown, windows, cycles>>
      /\ loop.phase \notin {"starting", "exited"} /\ loop'.phase \notin {"starting", "exited"}
  BY Shapes, YieldIs DEF IInv, ReleaseActive, Settling, ShutdownSettles, WaitsForWorker,
       ReleaseSent, At, worker, runtime, locks, session
<1>2. Tried(Release(active)) /\ \A e \in Outstanding : ~Same(Release(active), e)
  <2>1. releasing.profile = NoProfile /\ active \in Profile
    BY Shapes DEF IInv, Selecting, Releasing, Purpose, NotReleasing, ReleaseActive, ShutdownSettles, WaitsForWorker
  <2>2. \A e \in Outstanding : ~Same(Release(active), e)
    BY <2>1, Unasked, Fields DEF Same
  <2>3. TrySend(Release(active))
    BY DEF ReleaseActive, ReleaseSent
  <2> QED
    BY <1>1, <2>1, <2>2, <2>3, Sends, Commands DEF IInv
<1>3. Browsing' /\ OnDisk' /\ Failures'
  BY <1>1, <1>2 DEF IInv, Browsing, OnDisk, NoLostMutation, SaveAnswered, Failures,
       Tried
<1>4. TypeOK'
  <2>1. loop' \in LoopType
    BY Shapes, PlaceTypes, YieldIs DEF IInv, ReleaseActive, Settling, ShutdownSettles,
         WaitsForWorker, ReleaseSent
  <2>2. releasing' \in [profile : Profile \cup {NoProfile}, purpose : Purpose]
    BY <1>1, <1>2, Shapes, WorkerConstants DEF IInv, TypeOK, NotSaving, Purpose,
         NotReleasing, Tried, ReleaseActive, Settling, ShutdownSettles, WaitsForWorker,
         ReleaseSent
  <2> QED
    BY <1>1, <1>2, <2>1, <2>2 DEF IInv, TypeOK, Tried
<1>5. Remembered'
  <2>1. \A e \in Outstanding : e.kind # "release"
    BY <1>2, Fields DEF Same
  <2>2. ~QueueFull => releasing'.profile = active
    BY DEF ReleaseActive, ReleaseSent
  <2>3. ASSUME NEW e \in Outstanding
        PROVE  /\ e.kind = "prepare" => selection' = e.profile /\ ~unsent' /\ replacement' = NoProfile
               /\ e.kind = "save" => active' = e.profile /\ saving'[e.store] = e.content
               /\ e.kind = "discover" => discovery' = "sent"
    BY <1>1 DEF IInv, Remembered
  <2> QED
    BY <1>2, <2>1, <2>2, <2>3, Fields DEF Tried, Remembered
<1>6. Underway'
  BY <1>1, <1>2 DEF IInv, Underway, Pending, NotSaving, Tried, ReleaseActive, Settling,
       ShutdownSettles, WaitsForWorker, ReleaseSent
<1>7. Selecting'
  BY <1>1, <1>2 DEF IInv, Selecting, NotReleasing, Tried, ReleaseActive, Settling,
       ShutdownSettles, WaitsForWorker, ReleaseSent
<1>8. Releasing'
  BY <1>1, <1>2 DEF IInv, Releasing, Flushed, Dirty, Pending, NotSaving, NotReleasing,
       Tried, ReleaseActive, Settling, ShutdownSettles, WaitsForWorker, ReleaseSent
<1>9. Locked'
  BY <1>1, <1>2 DEF IInv, Locked, Tried, ReleaseActive, Settling, ShutdownSettles,
       WaitsForWorker, ReleaseSent
<1>10. Custody'
  BY <1>1, <1>2 DEF IInv, Custody, Tried, ReleaseActive, Settling, ShutdownSettles,
       WaitsForWorker, ReleaseSent
<1>11. Exited'
  BY <1>1, <1>2 DEF IInv, Exited, Tried, ReleaseActive, Settling, ShutdownSettles,
       WaitsForWorker, ReleaseSent
<1>12. Waking'
  BY <1>1, <1>2, YieldIs DEF IInv, Waking, Dirty, Pending, NotSaving, At, Tried,
       ReleaseActive, Settling, ShutdownSettles, WaitsForWorker, ReleaseSent
<1>13. NoLostWakeup'
  BY <1>1, <1>2, YieldIs DEF IInv, NoLostWakeup, Dirty, At, Tried, ReleaseActive,
       Settling, ShutdownSettles, WaitsForWorker, ReleaseSent
<1> QED
  BY <1>2, <1>3, <1>4, <1>5, <1>6, <1>7, <1>8, <1>9, <1>10, <1>11, <1>12, <1>13 DEF
       IInv, Tried

LEMMA ExitWithoutProfileKeeps ==
    ASSUME IInv, ExitWithoutProfile
    PROVE  IInv'
<1>1. /\ UNCHANGED <<queue, busy, done, locked, stored, ioFailed, active, selection,
               content, durable, saving, replacement, rejected, replaced, releasing,
               discovery, unsent, resetting, browsing, shutdown, windows, cycles>>
      /\ loop.phase \notin {"starting", "exited"} /\ loop'.phase = "exited"
  BY Shapes DEF IInv, ExitWithoutProfile, Settling, ShutdownSettles, WaitsForWorker, At,
       worker, runtime, locks, session
<1>2. InFlight' = InFlight /\ Answers' = Answers /\ Outstanding' = Outstanding /\ Distinct'
  BY <1>1, Keeps DEF IInv
<1>3. Remembered' /\ Releasing' /\ Browsing' /\ OnDisk' /\ Failures' /\ Custody'
  BY <1>1, <1>2 DEF IInv, Remembered, Releasing, Flushed, Dirty, Pending, Browsing,
       OnDisk, NoLostMutation, SaveAnswered, Failures, Custody
<1>4. TypeOK'
  <2>1. loop' \in LoopType
    BY Shapes, PlaceTypes DEF IInv, ExitWithoutProfile, Settling, ShutdownSettles,
         WaitsForWorker
  <2> QED
    BY <1>1, <1>2, <2>1 DEF IInv, TypeOK
<1>5. Underway'
  BY <1>1, <1>2 DEF IInv, Underway, Pending, NotSaving, ExitWithoutProfile, Settling,
       ShutdownSettles, WaitsForWorker
<1>6. Selecting'
  BY <1>1, <1>2 DEF IInv, Selecting, NotReleasing, ExitWithoutProfile, Settling,
       ShutdownSettles, WaitsForWorker
<1>7. Locked'
  BY <1>1, <1>2 DEF IInv, Locked, ExitWithoutProfile, Settling, ShutdownSettles,
       WaitsForWorker
<1>8. Exited'
  <2>1. /\ active = NoProfile /\ replaced = NoProfile /\ rejected = NoProfile
        /\ shutdown /\ Flushed /\ selection = NoProfile /\ discovery = "none"
        /\ releasing.purpose = "none"
    BY DEF ExitWithoutProfile, ShutdownSettles, WaitsForWorker
  <2>2. replacement = NoProfile /\ releasing.profile = NoProfile
    BY <2>1 DEF IInv, Selecting, Releasing
  <2>3. Outstanding = {}
    <3>1. \A e \in Outstanding : e \in Command
      BY OnTheWay DEF IInv, TypeOK
    <3> QED
      BY <2>1, <2>2, <3>1, Unasked, CommandIs
  <2>4. \A p \in locked : ioFailed
    <3>1. \A p : PrepareDone(p) \notin Answers
      BY <2>3, Way
    <3> QED
      BY <2>1, <2>2, <3>1, Shapes DEF IInv, Custody
  <2>5. stored = content
    BY <2>1, Idle
  <2> QED
    BY <1>1, <1>2, <2>3, <2>4, <2>5 DEF Exited
<1>9. Waking'
  BY <1>1, <1>2 DEF IInv, Waking, Dirty, Pending, NotSaving, At, ExitWithoutProfile,
       Settling, ShutdownSettles, WaitsForWorker
<1>10. NoLostWakeup'
  BY <1>1, <1>2 DEF IInv, NoLostWakeup, Dirty, At, ExitWithoutProfile, Settling,
       ShutdownSettles, WaitsForWorker
<1> QED
  BY <1>2, <1>3, <1>4, <1>5, <1>6, <1>7, <1>8, <1>9, <1>10 DEF IInv

LEMMA ReplaceProfileKeeps ==
    ASSUME IInv, ReplaceProfile
    PROVE  IInv'
<1>a. /\ active' = replacement /\ replaced' = active /\ content' = content
      /\ replacement \in Profile /\ replacement # active
      /\ durable' = content[replacement] /\ durable' \in [Store -> 0 .. MaxContent]
      /\ stored = content /\ \A s \in Store : ~Pending(s)
      /\ \A e \in Outstanding : e.kind # "save"
      /\ \A p, s, n : SaveDone(p, s, n) \notin Answers
  <2>1. replacement \in Profile /\ replacement # active
    BY Shapes DEF IInv, Selecting, ReplacementSettles, ReplaceProfile
  <2>2. ActivateProfile(replacement) /\ Flushed
    BY DEF ReplaceProfile, ReplacementSettles, Settling, CommitReplacement, ReleaseSent
  <2> QED
    BY <2>1, <2>2, Activating, Idle DEF IInv, OnDisk
<1>1. /\ UNCHANGED <<busy, done, locked, stored, ioFailed, content, saving, rejected,
               discovery, unsent, shutdown, windows, cycles>>
      /\ loop.phase \notin {"starting", "exited"} /\ loop'.phase \notin {"starting", "exited"}
  BY Shapes, YieldIs, <1>a DEF IInv, ReplaceProfile, ReplacementSettles, Settling,
       CommitReplacement, ReleaseSent, At, worker, runtime, locks, session
<1>2. Tried(Release(active)) /\ \A e \in Outstanding : ~Same(Release(active), e)
  <2>1. releasing.profile = NoProfile /\ active \in Profile
    BY Shapes DEF IInv, Selecting, Releasing, Purpose, NotReleasing, ReplaceProfile, ReplacementSettles
  <2>2. \A e \in Outstanding : ~Same(Release(active), e)
    BY <2>1, Unasked, Fields DEF Same
  <2>3. TrySend(Release(active))
    BY DEF ReplaceProfile, CommitReplacement, ReleaseSent
  <2> QED
    BY <1>1, <2>1, <2>2, <2>3, Sends, Commands DEF IInv
<1>3. Failures'
  BY <1>1, <1>2 DEF IInv, Failures, Tried
<1>4. TypeOK'
  <2>1. loop' \in LoopType
    BY Shapes, PlaceTypes, YieldIs DEF IInv, ReplaceProfile, ReplacementSettles,
         Settling, CommitReplacement, ReleaseSent
  <2>2. /\ active' \in Profile \cup {NoProfile}
        /\ selection' \in Profile \cup {NoProfile}
        /\ replacement' \in Profile \cup {NoProfile}
        /\ replaced' \in Profile \cup {NoProfile}
        /\ resetting' \in BOOLEAN
        /\ browsing' \in BOOLEAN
    BY <1>1, <1>2, Shapes, ShellConstants, <1>a DEF IInv, TypeOK, Tried, ReplaceProfile,
         ReplacementSettles, Settling, CommitReplacement, ReleaseSent
  <2>3. durable' \in [Store -> 0 .. MaxContent]
    BY <1>1, <1>2, Shapes, WorkerConstants, <1>a DEF IInv, TypeOK, NotSaving, Purpose,
         NotReleasing, Tried, ReplaceProfile, ReplacementSettles, Settling,
         CommitReplacement, ReleaseSent
  <2>4. releasing' \in [profile : Profile \cup {NoProfile}, purpose : Purpose]
    BY <1>1, <1>2, Shapes, WorkerConstants, <1>a DEF IInv, TypeOK, NotSaving, Purpose,
         NotReleasing, Tried, ReplaceProfile, ReplacementSettles, Settling,
         CommitReplacement, ReleaseSent
  <2> QED
    BY <1>1, <1>2, <2>1, <2>2, <2>3, <2>4 DEF IInv, TypeOK, Tried
<1>5. Remembered'
  <2>1. \A e \in Outstanding : e.kind = "discover"
    <3>1. \A e \in Outstanding : e \in Command
      BY OnTheWay DEF IInv, TypeOK
    <3>2. replacement # NoProfile
      BY DEF ReplaceProfile, ReplacementSettles
    <3>3. \A e \in Outstanding : e.kind # "prepare"
      BY <3>2 DEF IInv, Remembered
    <3>4. \A e \in Outstanding : e.kind # "release"
      BY <1>2, Fields DEF Same
    <3> QED
      BY <1>a, <3>1, <3>3, <3>4, CommandIs
  <2>2. ~QueueFull => releasing'.profile = active
    BY DEF ReplaceProfile, CommitReplacement, ReleaseSent
  <2> QED
    BY <1>1, <1>2, <2>1, <2>2, Fields DEF Tried, IInv, Remembered
<1>6. Underway'
  BY <1>1, <1>2, Shapes, ShellConstants, Fields, CommandIs, OnTheWay, CompletionIs, Way,
       <1>a DEF IInv, Underway, Pending, NotSaving, Selecting, Releasing, NotReleasing,
       Remembered, Waking, Locked, Dirty, Flushed, Tried, ReplaceProfile,
       ReplacementSettles, Settling, CommitReplacement, ReleaseSent
<1>7. Selecting'
  BY <1>1, <1>2, <1>a DEF IInv, Selecting, NotReleasing, Tried, ReplaceProfile,
       ReplacementSettles, Settling, CommitReplacement, ReleaseSent
<1>8. Releasing'
  BY <1>1, <1>2, Shapes, ShellConstants, <1>a DEF IInv, Releasing, Flushed, Dirty,
       Pending, NotSaving, NotReleasing, Selecting, Tried, ReplaceProfile,
       ReplacementSettles, Settling, CommitReplacement, ReleaseSent
<1>9. Browsing'
  BY <1>1, <1>2, <1>a DEF IInv, Browsing, Tried, ReplaceProfile, ReplacementSettles,
       Settling, CommitReplacement, ReleaseSent
<1>10. OnDisk'
  <2>1. \A p, s, n : SaveDone(p, s, n) \notin Answers'
    BY <1>a, <1>2 DEF Tried
  <2>2. NoLostMutation'
    BY <1>1, <1>a DEF NoLostMutation
  <2>3. \A s \in Store : stored'[active'][s] = durable'[s]
    BY <1>1, <1>a
  <2> QED
    BY <2>1, <2>2, <2>3 DEF OnDisk, SaveAnswered
<1>11. Locked'
  BY <1>1, <1>2, <1>a DEF IInv, Locked, Tried, ReplaceProfile, ReplacementSettles,
       Settling, CommitReplacement, ReleaseSent
<1>12. Custody'
  BY <1>1, <1>2, Shapes, ShellConstants, Fields, <1>a DEF IInv, Custody, Selecting,
       Releasing, NotReleasing, Remembered, Underway, Tried, ReplaceProfile,
       ReplacementSettles, Settling, CommitReplacement, ReleaseSent
<1>13. Exited'
  BY <1>1, <1>2, <1>a DEF IInv, Exited, Tried, ReplaceProfile, ReplacementSettles,
       Settling, CommitReplacement, ReleaseSent
<1>14. Waking'
  BY <1>1, <1>2, YieldIs, <1>a DEF IInv, Waking, Dirty, Pending, NotSaving, At, Tried,
       ReplaceProfile, ReplacementSettles, Settling, CommitReplacement, ReleaseSent
<1>15. NoLostWakeup'
  BY <1>1, <1>2, YieldIs, <1>a DEF IInv, NoLostWakeup, Dirty, At, Tried, ReplaceProfile,
       ReplacementSettles, Settling, CommitReplacement, ReleaseSent
<1> QED
  BY <1>2, <1>3, <1>4, <1>5, <1>6, <1>7, <1>8, <1>9, <1>10, <1>11, <1>12, <1>13, <1>14,
       <1>15 DEF IInv, Tried

LEMMA ReplacementRejectedKeeps ==
    ASSUME IInv, ReplacementRejected
    PROVE  IInv'
<1>1. /\ UNCHANGED <<queue, busy, done, locked, stored, ioFailed, active, content,
               durable, saving, replaced, releasing, windows, cycles>>
      /\ loop.phase \notin {"starting", "exited"} /\ loop'.phase \notin {"starting", "exited"}
  BY Shapes DEF IInv, ReplacementRejected, ReplacementSettles, Settling, RejectProfile,
       Shutdown, BeginShutdown, Driving, worker, runtime, locks, session
<1>2. InFlight' = InFlight /\ Answers' = Answers /\ Outstanding' = Outstanding /\ Distinct'
  BY <1>1, Keeps DEF IInv
<1>3. OnDisk' /\ Failures' /\ Exited'
  BY <1>1, <1>2 DEF IInv, OnDisk, NoLostMutation, SaveAnswered, Failures, Exited
<1>4. TypeOK'
  <2>1. loop' \in LoopType
    BY Shapes, PlaceTypes DEF IInv, ReplacementRejected, ReplacementSettles, Settling,
         RejectProfile, Shutdown, BeginShutdown
  <2>2. /\ selection' \in Profile \cup {NoProfile}
        /\ replacement' \in Profile \cup {NoProfile}
        /\ rejected' \in Profile \cup {NoProfile}
        /\ discovery' \in {"none", "unsent", "sent"}
        /\ unsent' \in BOOLEAN
        /\ resetting' \in BOOLEAN
        /\ browsing' \in BOOLEAN
        /\ shutdown' \in BOOLEAN
    BY <1>1, <1>2, Shapes, ShellConstants DEF IInv, TypeOK, ReplacementRejected,
         ReplacementSettles, Settling, RejectProfile, Shutdown, BeginShutdown
  <2> QED
    BY <1>1, <1>2, <2>1, <2>2 DEF IInv, TypeOK
<1>5. Remembered'
  BY <1>1, <1>2 DEF IInv, Remembered, ReplacementRejected, ReplacementSettles, Settling,
       RejectProfile, Shutdown, BeginShutdown
<1>6. Underway'
  BY <1>1, <1>2 DEF IInv, Underway, Pending, NotSaving, ReplacementRejected,
       ReplacementSettles, Settling, RejectProfile, Shutdown, BeginShutdown
<1>7. Selecting'
  BY <1>1, <1>2 DEF IInv, Selecting, NotReleasing, ReplacementRejected,
       ReplacementSettles, Settling, RejectProfile, Shutdown, BeginShutdown
<1>8. Releasing'
  BY <1>1, <1>2, Shapes, ShellConstants DEF IInv, Releasing, Flushed, Dirty, Pending,
       NotSaving, NotReleasing, Selecting, ReplacementRejected, ReplacementSettles,
       Settling, RejectProfile, Shutdown, BeginShutdown
<1>9. Browsing'
  BY <1>1, <1>2 DEF IInv, Browsing, ReplacementRejected, ReplacementSettles, Settling,
       RejectProfile, Shutdown, BeginShutdown
<1>10. Locked'
  BY <1>1, <1>2 DEF IInv, Locked, ReplacementRejected, ReplacementSettles, Settling,
       RejectProfile, Shutdown, BeginShutdown
<1>11. Custody'
  BY <1>1, <1>2, Shapes, ShellConstants DEF IInv, Custody, Selecting,
       ReplacementRejected, ReplacementSettles, Settling, RejectProfile, Shutdown,
       BeginShutdown
<1>12. Waking'
  <2>1. loop'.todo = Store /\ loop'.urgent
    <3>1. loop' = Driving(Store, TRUE, loop.after, {})
      BY DEF ReplacementRejected, RejectProfile, Shutdown, BeginShutdown
    <3> QED
      BY <3>1 DEF Driving
  <2>2. ~unsent' /\ discovery' # "unsent"
    BY DEF ReplacementRejected, RejectProfile, Shutdown, BeginShutdown
  <2>3. ASSUME NEW s \in Store
        PROVE  s \in loop'.todo
    BY <2>1
  <2> QED
    BY <2>1, <2>2, <2>3 DEF Waking
<1>13. NoLostWakeup'
  BY <1>1, <1>2, Shapes, ShellConstants DEF IInv, NoLostWakeup, Dirty, Driving,
       Selecting, ReplacementRejected, ReplacementSettles, Settling, RejectProfile,
       Shutdown, BeginShutdown
<1> QED
  BY <1>2, <1>3, <1>4, <1>5, <1>6, <1>7, <1>8, <1>9, <1>10, <1>11, <1>12, <1>13 DEF IInv

LEMMA ReplacementFailsKeeps ==
    ASSUME IInv, ReplacementFails
    PROVE  IInv'
<1>a. /\ active' = replacement /\ replaced' = active /\ content' = content
      /\ replacement \in Profile /\ replacement # active
      /\ durable' = content[replacement] /\ durable' \in [Store -> 0 .. MaxContent]
      /\ stored = content /\ \A s \in Store : ~Pending(s)
      /\ \A e \in Outstanding : e.kind # "save"
      /\ \A p, s, n : SaveDone(p, s, n) \notin Answers
  <2>1. replacement \in Profile /\ replacement # active
    BY Shapes DEF IInv, Selecting, ReplacementSettles, ReplacementFails
  <2>2. ActivateProfile(replacement) /\ Flushed
    BY DEF ReplacementFails, ReplacementSettles, Settling, Shutdown, BeginShutdown
  <2> QED
    BY <2>1, <2>2, Activating, Idle DEF IInv, OnDisk
<1>1. /\ UNCHANGED <<queue, busy, done, locked, stored, ioFailed, content, saving,
               releasing, windows, cycles>>
      /\ loop.phase \notin {"starting", "exited"} /\ loop'.phase \notin {"starting", "exited"}
  BY Shapes, <1>a DEF IInv, ReplacementFails, ReplacementSettles, Settling, Shutdown,
       BeginShutdown, Driving, worker, runtime, locks, session
<1>2. InFlight' = InFlight /\ Answers' = Answers /\ Outstanding' = Outstanding /\ Distinct'
  BY <1>1, Keeps DEF IInv
<1>3. Failures' /\ Exited'
  BY <1>1, <1>2 DEF IInv, Failures, Exited
<1>4. TypeOK'
  <2>1. loop' \in LoopType
    BY Shapes, PlaceTypes DEF IInv, ReplacementFails, ReplacementSettles, Settling,
         Shutdown, BeginShutdown
  <2>2. /\ active' \in Profile \cup {NoProfile}
        /\ selection' \in Profile \cup {NoProfile}
        /\ replacement' \in Profile \cup {NoProfile}
        /\ rejected' \in Profile \cup {NoProfile}
        /\ replaced' \in Profile \cup {NoProfile}
        /\ discovery' \in {"none", "unsent", "sent"}
        /\ unsent' \in BOOLEAN
        /\ resetting' \in BOOLEAN
        /\ browsing' \in BOOLEAN
        /\ shutdown' \in BOOLEAN
    BY <1>1, <1>2, Shapes, ShellConstants, <1>a DEF IInv, TypeOK, ReplacementFails,
         ReplacementSettles, Settling, Shutdown, BeginShutdown
  <2>3. durable' \in [Store -> 0 .. MaxContent]
    BY <1>1, <1>2, Shapes, WorkerConstants, <1>a DEF IInv, TypeOK, NotSaving, Purpose,
         NotReleasing, ReplacementFails, ReplacementSettles, Settling, Shutdown,
         BeginShutdown
  <2> QED
    BY <1>1, <1>2, <2>1, <2>2, <2>3 DEF IInv, TypeOK
<1>5. Remembered'
  <2>1. \A e \in Outstanding' : e \in Outstanding /\ e.kind # "save"
    BY <1>a, <1>2
  <2> QED
    BY <1>1, <1>2, <2>1, Unasked DEF IInv, Remembered, BeginShutdown, Shutdown, ReplacementFails, ReplacementSettles
<1>6. Underway'
  BY <1>1, <1>2, Shapes, ShellConstants, Fields, CommandIs, OnTheWay, CompletionIs, Way,
       <1>a DEF IInv, Underway, Pending, NotSaving, Selecting, Releasing, NotReleasing,
       Remembered, Waking, Locked, Dirty, Flushed, ReplacementFails, ReplacementSettles,
       Settling, Shutdown, BeginShutdown
<1>7. Selecting'
  BY <1>1, <1>2, <1>a DEF IInv, Selecting, NotReleasing, ReplacementFails,
       ReplacementSettles, Settling, Shutdown, BeginShutdown
<1>8. Releasing'
  BY <1>1, <1>2, Shapes, ShellConstants, <1>a DEF IInv, Releasing, Flushed, Dirty,
       Pending, NotSaving, NotReleasing, Selecting, ReplacementFails,
       ReplacementSettles, Settling, Shutdown, BeginShutdown
<1>9. Browsing'
  BY <1>1, <1>2, <1>a DEF IInv, Browsing, ReplacementFails, ReplacementSettles,
       Settling, Shutdown, BeginShutdown
<1>10. OnDisk'
  <2>1. \A p, s, n : SaveDone(p, s, n) \notin Answers'
    BY <1>a, <1>2
  <2>2. NoLostMutation'
    BY <1>1, <1>a DEF NoLostMutation
  <2>3. \A s \in Store : stored'[active'][s] = durable'[s]
    BY <1>1, <1>a
  <2> QED
    BY <2>1, <2>2, <2>3 DEF OnDisk, SaveAnswered
<1>11. Locked'
  BY <1>1, <1>2, <1>a DEF IInv, Locked, ReplacementFails, ReplacementSettles, Settling,
       Shutdown, BeginShutdown
<1>12. Custody'
  BY <1>1, <1>2, Shapes, ShellConstants, <1>a DEF IInv, Custody, Selecting,
       ReplacementFails, ReplacementSettles, Settling, Shutdown, BeginShutdown
<1>13. Waking'
  <2>1. loop'.todo = Store /\ loop'.urgent
    <3>1. loop' = Driving(Store, TRUE, loop.after, {})
      BY DEF ReplacementFails, Shutdown, BeginShutdown
    <3> QED
      BY <3>1 DEF Driving
  <2>2. ~unsent' /\ discovery' # "unsent"
    BY DEF ReplacementFails, Shutdown, BeginShutdown
  <2>3. ASSUME NEW s \in Store
        PROVE  s \in loop'.todo
    BY <2>1
  <2> QED
    BY <2>1, <2>2, <2>3 DEF Waking
<1>14. NoLostWakeup'
  BY <1>1, <1>2, Shapes, ShellConstants, <1>a DEF IInv, NoLostWakeup, Dirty, Driving,
       Selecting, ReplacementFails, ReplacementSettles, Settling, Shutdown,
       BeginShutdown
<1> QED
  BY <1>2, <1>3, <1>4, <1>5, <1>6, <1>7, <1>8, <1>9, <1>10, <1>11, <1>12, <1>13, <1>14
       DEF IInv

LEMMA PreparedTooLateKeeps ==
    ASSUME IInv, PreparedTooLate
    PROVE  IInv'
<1>0. Completes("prepare", TRUE)
  BY DEF PreparedTooLate
<1>1. /\ UNCHANGED <<queue, busy, locked, stored, ioFailed, active, content, durable,
               saving, replacement, replaced, releasing, discovery, unsent, resetting,
               browsing, shutdown, windows, cycles>>
      /\ loop.phase \notin {"starting", "exited"} /\ loop'.phase \notin {"starting", "exited"}
  BY <1>0, Completing DEF PreparedTooLate, Driving, worker, runtime, locks, session
<1>2. Handled /\ PrepareHandled(TRUE)
  BY <1>0, <1>1, Handling, PrepareEnds
<1>3. Browsing' /\ OnDisk'
  BY <1>1, <1>2 DEF IInv, Browsing, OnDisk, NoLostMutation, SaveAnswered, SameSaves,
       SameLocks, Handled, PrepareHandled
<1>4. TypeOK'
  <2>1. loop' \in LoopType
    BY Shapes, PlaceTypes DEF IInv, PreparedTooLate
  <2>2. /\ selection' \in Profile \cup {NoProfile}
        /\ rejected' \in Profile \cup {NoProfile}
    BY <1>1, <1>2, Shapes, ShellConstants DEF IInv, TypeOK, Handled, PrepareHandled,
         PreparedTooLate
  <2> QED
    BY <1>1, <1>2, <2>1, <2>2 DEF IInv, TypeOK, Handled, PrepareHandled
<1>5. Remembered'
  BY <1>1, <1>2 DEF IInv, Remembered, Handled, PrepareHandled, PreparedTooLate
<1>6. Underway'
  BY <1>1, <1>2, Shapes, ShellConstants, Fields DEF IInv, Underway, Pending, NotSaving,
       Selecting, Releasing, NotReleasing, Remembered, Handled, PrepareHandled,
       PreparedTooLate
<1>7. Selecting'
  BY <1>1, <1>2 DEF IInv, Selecting, NotReleasing, Handled, PrepareHandled,
       PreparedTooLate
<1>8. Releasing'
  BY <1>1, <1>2 DEF IInv, Releasing, Flushed, Dirty, Pending, NotSaving, NotReleasing,
       Handled, PrepareHandled, PreparedTooLate
<1>9. Failures'
  BY <1>1, <1>2 DEF IInv, Failures, Handled, PrepareHandled, PreparedTooLate
<1>10. Locked'
  BY <1>1, <1>2 DEF IInv, Locked, Handled, PrepareHandled, PreparedTooLate
<1>11. Custody'
  BY <1>1, <1>2 DEF IInv, Custody, SameSaves, SameLocks, Handled, PrepareHandled,
       PreparedTooLate
<1>12. Exited'
  BY <1>1, <1>2 DEF IInv, Exited, Handled, PrepareHandled, PreparedTooLate
<1>13. Waking'
  BY <1>1, <1>2 DEF IInv, Waking, Dirty, Pending, NotSaving, Driving, Handled,
       PrepareHandled, PreparedTooLate
<1>14. NoLostWakeup'
  BY <1>1, <1>2, Shapes, ShellConstants DEF IInv, NoLostWakeup, Dirty, Driving,
       Selecting, Handled, PrepareHandled, PreparedTooLate
<1> QED
  BY <1>2, <1>3, <1>4, <1>5, <1>6, <1>7, <1>8, <1>9, <1>10, <1>11, <1>12, <1>13, <1>14
       DEF IInv, Handled

LEMMA PreparedInitialKeeps ==
    ASSUME IInv, PreparedInitial
    PROVE  IInv'
<1>0. Completes("prepare", TRUE)
  BY DEF PreparedInitial
<1>a. /\ active' = selection /\ replaced' = active /\ content' = content
      /\ selection \in Profile /\ selection # active
      /\ durable' = content[selection] /\ durable' \in [Store -> 0 .. MaxContent]
      /\ stored = content /\ \A s \in Store : ~Pending(s)
      /\ \A e \in Outstanding : e.kind # "save"
      /\ \A p, s, n : SaveDone(p, s, n) \notin Answers
  <2>1. PrepareHandled(TRUE)
    BY <1>0, PrepareEnds
  <2>2. ActivateProfile(selection)
    BY <2>1 DEF PrepareHandled, PreparedInitial
  <2>3. Flushed
    BY DEF Flushed, PreparedInitial
  <2> QED
    BY <2>1, <2>2, <2>3, Activating, Idle DEF IInv, OnDisk, PrepareHandled
<1>1. /\ UNCHANGED <<queue, busy, locked, stored, ioFailed, content, saving,
               replacement, rejected, releasing, discovery, unsent, resetting, shutdown,
               windows, cycles>>
      /\ loop.phase \notin {"starting", "exited"} /\ loop'.phase \notin {"starting", "exited"}
  BY <1>0, Completing, <1>a DEF PreparedInitial, At, worker, runtime, locks, session
<1>2. Handled /\ PrepareHandled(TRUE)
  BY <1>0, <1>1, Handling, PrepareEnds
<1>3. TypeOK'
  <2>1. loop' \in LoopType
    BY Shapes, PlaceTypes DEF IInv, PreparedInitial
  <2>2. /\ active' \in Profile \cup {NoProfile}
        /\ selection' \in Profile \cup {NoProfile}
        /\ replaced' \in Profile \cup {NoProfile}
        /\ browsing' \in BOOLEAN
    BY <1>1, <1>2, Shapes, ShellConstants, <1>a DEF IInv, TypeOK, Handled,
         PrepareHandled, PreparedInitial
  <2>3. durable' \in [Store -> 0 .. MaxContent]
    BY <1>1, <1>2, Shapes, WorkerConstants, <1>a DEF IInv, TypeOK, NotSaving, Purpose,
         NotReleasing, Handled, PrepareHandled, PreparedInitial
  <2> QED
    BY <1>1, <1>2, <2>1, <2>2, <2>3 DEF IInv, TypeOK, Handled, PrepareHandled
<1>4. Remembered'
  <2>1. \A e \in Outstanding' : e \in Outstanding /\ e.kind # "save"
    BY <1>a, <1>2 DEF Handled
  <2> QED
    BY <1>1, <1>2, <2>1 DEF IInv, Remembered, Handled, PrepareHandled, PreparedInitial
<1>5. Underway'
  <2>1. \A s \in Store : ~Pending(s)'
    BY <1>1, <1>a DEF Pending
  <2>2. selection' = NoProfile
    BY DEF PreparedInitial
  <2>3. discovery' # "sent" /\ releasing'.profile = NoProfile
    BY <1>1, <1>2 DEF PrepareHandled, NotReleasing, PreparedInitial
  <2> QED
    BY <2>1, <2>2, <2>3 DEF Underway
<1>6. Selecting'
  BY <1>1, <1>2, <1>a DEF IInv, Selecting, NotReleasing, Handled, PrepareHandled,
       PreparedInitial
<1>7. Releasing'
  BY <1>1, <1>2, <1>a DEF IInv, Releasing, Flushed, Dirty, Pending, NotSaving,
       NotReleasing, Handled, PrepareHandled, PreparedInitial
<1>8. Browsing'
  BY <1>1, <1>2, <1>a DEF IInv, Browsing, Handled, PrepareHandled, PreparedInitial
<1>9. OnDisk'
  <2>1. \A p, s, n : SaveDone(p, s, n) \notin Answers'
    BY <1>a, <1>2 DEF Handled
  <2>2. NoLostMutation'
    BY <1>1, <1>a DEF NoLostMutation
  <2>3. \A s \in Store : stored'[active'][s] = durable'[s]
    BY <1>1, <1>a
  <2> QED
    BY <2>1, <2>2, <2>3 DEF OnDisk, SaveAnswered
<1>10. Failures'
  BY <1>1, <1>2, <1>a DEF IInv, Failures, Handled, PrepareHandled, PreparedInitial
<1>11. Locked'
  BY <1>1, <1>2, <1>a DEF IInv, Locked, Handled, PrepareHandled, PreparedInitial
<1>12. Custody'
  BY <1>1, <1>2, <1>a DEF IInv, Custody, SameSaves, SameLocks, Handled, PrepareHandled,
       PreparedInitial
<1>13. Exited'
  BY <1>1, <1>2, <1>a DEF IInv, Exited, Handled, PrepareHandled, PreparedInitial
<1>14. Waking'
  BY <1>1, <1>2, <1>a DEF IInv, Waking, Dirty, Pending, NotSaving, At, Handled,
       PrepareHandled, PreparedInitial
<1>15. NoLostWakeup'
  BY <1>1, <1>2, <1>a DEF IInv, NoLostWakeup, Dirty, At, Handled, PrepareHandled,
       PreparedInitial
<1> QED
  BY <1>2, <1>3, <1>4, <1>5, <1>6, <1>7, <1>8, <1>9, <1>10, <1>11, <1>12, <1>13, <1>14,
       <1>15 DEF IInv, Handled

LEMMA PreparedInitialFailsKeeps ==
    ASSUME IInv, PreparedInitialFails
    PROVE  IInv'
<1>0. Completes("prepare", TRUE)
  BY DEF PreparedInitialFails, Shutdown, BeginShutdown
<1>a. /\ active' = selection /\ replaced' = active /\ content' = content
      /\ selection \in Profile /\ selection # active
      /\ durable' = content[selection] /\ durable' \in [Store -> 0 .. MaxContent]
      /\ stored = content /\ \A s \in Store : ~Pending(s)
      /\ \A e \in Outstanding : e.kind # "save"
      /\ \A p, s, n : SaveDone(p, s, n) \notin Answers
  <2>1. PrepareHandled(TRUE)
    BY <1>0, PrepareEnds
  <2>2. ActivateProfile(selection)
    BY <2>1 DEF PrepareHandled, PreparedInitialFails, Shutdown, BeginShutdown
  <2>3. Flushed
    BY DEF Flushed, PreparedInitialFails, Shutdown, BeginShutdown
  <2> QED
    BY <2>1, <2>2, <2>3, Activating, Idle DEF IInv, OnDisk, PrepareHandled
<1>1. /\ UNCHANGED <<queue, busy, locked, stored, ioFailed, content, saving, releasing,
               windows, cycles>>
      /\ loop.phase \notin {"starting", "exited"} /\ loop'.phase \notin {"starting", "exited"}
  BY <1>0, Completing, <1>a DEF PreparedInitialFails, Shutdown, BeginShutdown, Driving,
       worker, runtime, locks, session
<1>2. Handled /\ PrepareHandled(TRUE)
  BY <1>0, <1>1, Handling, PrepareEnds
<1>3. TypeOK'
  <2>1. loop' \in LoopType
    BY Shapes, PlaceTypes DEF IInv, PreparedInitialFails, Shutdown, BeginShutdown
  <2>2. /\ active' \in Profile \cup {NoProfile}
        /\ selection' \in Profile \cup {NoProfile}
        /\ replacement' \in Profile \cup {NoProfile}
        /\ rejected' \in Profile \cup {NoProfile}
        /\ replaced' \in Profile \cup {NoProfile}
        /\ discovery' \in {"none", "unsent", "sent"}
        /\ unsent' \in BOOLEAN
        /\ resetting' \in BOOLEAN
        /\ browsing' \in BOOLEAN
        /\ shutdown' \in BOOLEAN
    BY <1>1, <1>2, Shapes, ShellConstants, <1>a DEF IInv, TypeOK, Handled,
         PrepareHandled, PreparedInitialFails, Shutdown, BeginShutdown
  <2>3. durable' \in [Store -> 0 .. MaxContent]
    BY <1>1, <1>2, Shapes, WorkerConstants, <1>a DEF IInv, TypeOK, NotSaving, Purpose,
         NotReleasing, Handled, PrepareHandled, PreparedInitialFails, Shutdown,
         BeginShutdown
  <2> QED
    BY <1>1, <1>2, <2>1, <2>2, <2>3 DEF IInv, TypeOK, Handled, PrepareHandled
<1>4. Remembered'
  <2>1. \A e \in Outstanding' : e \in Outstanding /\ e.kind # "save"
    BY <1>a, <1>2 DEF Handled
  <2> QED
    BY <1>1, <1>2, <2>1 DEF IInv, Remembered, Handled, PrepareHandled, PreparedInitialFails, Shutdown, BeginShutdown
<1>5. Underway'
  <2>1. \A s \in Store : ~Pending(s)'
    BY <1>1, <1>a DEF Pending
  <2>2. selection' = NoProfile
    BY DEF PreparedInitialFails, Shutdown, BeginShutdown
  <2>3. discovery' # "sent" /\ releasing'.profile = NoProfile
    BY <1>1, <1>2 DEF PrepareHandled, NotReleasing, PreparedInitialFails, Shutdown, BeginShutdown
  <2> QED
    BY <2>1, <2>2, <2>3 DEF Underway
<1>6. Selecting'
  BY <1>1, <1>2, <1>a DEF IInv, Selecting, NotReleasing, Handled, PrepareHandled,
       PreparedInitialFails, Shutdown, BeginShutdown
<1>7. Releasing'
  BY <1>1, <1>2, <1>a DEF IInv, Releasing, Flushed, Dirty, Pending, NotSaving,
       NotReleasing, Handled, PrepareHandled, PreparedInitialFails, Shutdown,
       BeginShutdown
<1>8. Browsing'
  BY <1>1, <1>2, <1>a DEF IInv, Browsing, Handled, PrepareHandled, PreparedInitialFails,
       Shutdown, BeginShutdown
<1>9. OnDisk'
  <2>1. \A p, s, n : SaveDone(p, s, n) \notin Answers'
    BY <1>a, <1>2 DEF Handled
  <2>2. NoLostMutation'
    BY <1>1, <1>a DEF NoLostMutation
  <2>3. \A s \in Store : stored'[active'][s] = durable'[s]
    BY <1>1, <1>a
  <2> QED
    BY <2>1, <2>2, <2>3 DEF OnDisk, SaveAnswered
<1>10. Failures'
  BY <1>1, <1>2, <1>a DEF IInv, Failures, Handled, PrepareHandled, PreparedInitialFails,
       Shutdown, BeginShutdown
<1>11. Locked'
  BY <1>1, <1>2, <1>a DEF IInv, Locked, Handled, PrepareHandled, PreparedInitialFails,
       Shutdown, BeginShutdown
<1>12. Custody'
  BY <1>1, <1>2, <1>a DEF IInv, Custody, SameSaves, SameLocks, Handled, PrepareHandled,
       PreparedInitialFails, Shutdown, BeginShutdown
<1>13. Exited'
  BY <1>1, <1>2, <1>a DEF IInv, Exited, Handled, PrepareHandled, PreparedInitialFails,
       Shutdown, BeginShutdown
<1>14. Waking'
  BY <1>1, <1>2, <1>a DEF IInv, Waking, Dirty, Pending, NotSaving, Driving, Handled,
       PrepareHandled, PreparedInitialFails, Shutdown, BeginShutdown
<1>15. NoLostWakeup'
  BY <1>1, <1>2, <1>a DEF IInv, NoLostWakeup, Dirty, Driving, Handled, PrepareHandled,
       PreparedInitialFails, Shutdown, BeginShutdown
<1> QED
  BY <1>2, <1>3, <1>4, <1>5, <1>6, <1>7, <1>8, <1>9, <1>10, <1>11, <1>12, <1>13, <1>14,
       <1>15 DEF IInv, Handled

LEMMA PreparedWhileBrowsingKeeps ==
    ASSUME IInv, PreparedWhileBrowsing
    PROVE  IInv'
<1>0. Completes("prepare", TRUE)
  BY DEF PreparedWhileBrowsing
<1>1. /\ UNCHANGED <<queue, busy, locked, stored, ioFailed, active, selection, content,
               durable, saving, rejected, replaced, releasing, discovery, unsent,
               resetting, browsing, shutdown, windows, cycles>>
      /\ loop.phase \notin {"starting", "exited"} /\ loop'.phase \notin {"starting", "exited"}
  BY <1>0, Completing DEF PreparedWhileBrowsing, At, worker, runtime, locks, session
<1>2. Handled /\ PrepareHandled(TRUE)
  BY <1>0, <1>1, Handling, PrepareEnds
<1>3. Releasing' /\ Browsing' /\ OnDisk'
  BY <1>1, <1>2 DEF IInv, Releasing, Flushed, Dirty, Pending, Browsing, OnDisk,
       NoLostMutation, SaveAnswered, SameSaves, SameLocks, Handled, PrepareHandled
<1>4. TypeOK'
  <2>1. loop' \in LoopType
    BY Shapes, PlaceTypes DEF IInv, PreparedWhileBrowsing
  <2>2. /\ replacement' \in Profile \cup {NoProfile}
    BY <1>1, <1>2, Shapes, ShellConstants DEF IInv, TypeOK, Handled, PrepareHandled,
         PreparedWhileBrowsing
  <2> QED
    BY <1>1, <1>2, <2>1, <2>2 DEF IInv, TypeOK, Handled, PrepareHandled
<1>5. Remembered'
  BY <1>1, <1>2 DEF IInv, Remembered, Handled, PrepareHandled, PreparedWhileBrowsing
<1>6. Underway'
  BY <1>1, <1>2, Shapes, ShellConstants, Fields DEF IInv, Underway, Pending, NotSaving,
       Selecting, Releasing, NotReleasing, Remembered, Handled, PrepareHandled,
       PreparedWhileBrowsing
<1>7. Selecting'
  BY <1>1, <1>2 DEF IInv, Selecting, NotReleasing, Handled, PrepareHandled,
       PreparedWhileBrowsing
<1>8. Failures'
  BY <1>1, <1>2 DEF IInv, Failures, Handled, PrepareHandled, PreparedWhileBrowsing
<1>9. Locked'
  BY <1>1, <1>2 DEF IInv, Locked, Handled, PrepareHandled, PreparedWhileBrowsing
<1>10. Custody'
  BY <1>1, <1>2 DEF IInv, Custody, SameSaves, SameLocks, Handled, PrepareHandled,
       PreparedWhileBrowsing
<1>11. Exited'
  BY <1>1, <1>2 DEF IInv, Exited, Handled, PrepareHandled, PreparedWhileBrowsing
<1>12. Waking'
  BY <1>1, <1>2 DEF IInv, Waking, Dirty, Pending, NotSaving, At, Handled,
       PrepareHandled, PreparedWhileBrowsing
<1>13. NoLostWakeup'
  BY <1>1, <1>2 DEF IInv, NoLostWakeup, Dirty, At, Handled, PrepareHandled,
       PreparedWhileBrowsing
<1> QED
  BY <1>2, <1>3, <1>4, <1>5, <1>6, <1>7, <1>8, <1>9, <1>10, <1>11, <1>12, <1>13 DEF
       IInv, Handled

LEMMA PreparedWhileDirtyKeeps ==
    ASSUME IInv, PreparedWhileDirty
    PROVE  IInv'
<1>0. Completes("prepare", TRUE)
  BY DEF PreparedWhileDirty, PreparedQuietly
<1>1. /\ UNCHANGED <<queue, busy, locked, stored, ioFailed, active, selection, content,
               durable, saving, rejected, replaced, releasing, discovery, unsent,
               resetting, browsing, shutdown, windows, cycles>>
      /\ loop.phase \notin {"starting", "exited"} /\ loop'.phase \notin {"starting", "exited"}
  BY <1>0, Completing DEF PreparedWhileDirty, PreparedQuietly, Driving, worker, runtime,
       locks, session
<1>2. Handled /\ PrepareHandled(TRUE)
  BY <1>0, <1>1, Handling, PrepareEnds
<1>3. Releasing' /\ Browsing' /\ OnDisk'
  BY <1>1, <1>2 DEF IInv, Releasing, Flushed, Dirty, Pending, Browsing, OnDisk,
       NoLostMutation, SaveAnswered, SameSaves, SameLocks, Handled, PrepareHandled
<1>4. TypeOK'
  <2>1. loop' \in LoopType
    BY Shapes, PlaceTypes DEF IInv, PreparedWhileDirty, PreparedQuietly
  <2>2. /\ replacement' \in Profile \cup {NoProfile}
    BY <1>1, <1>2, Shapes, ShellConstants DEF IInv, TypeOK, Handled, PrepareHandled,
         PreparedWhileDirty, PreparedQuietly
  <2> QED
    BY <1>1, <1>2, <2>1, <2>2 DEF IInv, TypeOK, Handled, PrepareHandled
<1>5. Remembered'
  BY <1>1, <1>2 DEF IInv, Remembered, Handled, PrepareHandled, PreparedWhileDirty,
       PreparedQuietly
<1>6. Underway'
  <2>1. replacement' # NoProfile
    BY <1>2, ShellConstants DEF PrepareHandled, PreparedWhileDirty
  <2>2. discovery # "sent" /\ releasing.profile = NoProfile
    BY <1>2 DEF PrepareHandled, NotReleasing
  <2>3. \A e \in Outstanding : e.kind = "save" => e \in Outstanding'
    BY <1>2, Fields DEF Handled, PrepareHandled
  <2> QED
    BY <1>1, <2>1, <2>2, <2>3, Fields DEF IInv, Underway, Pending
<1>7. Selecting'
  BY <1>1, <1>2 DEF IInv, Selecting, NotReleasing, Handled, PrepareHandled,
       PreparedWhileDirty, PreparedQuietly
<1>8. Failures'
  BY <1>1, <1>2 DEF IInv, Failures, Handled, PrepareHandled, PreparedWhileDirty,
       PreparedQuietly
<1>9. Locked'
  BY <1>1, <1>2 DEF IInv, Locked, Handled, PrepareHandled, PreparedWhileDirty,
       PreparedQuietly
<1>10. Custody'
  BY <1>1, <1>2 DEF IInv, Custody, SameSaves, SameLocks, Handled, PrepareHandled,
       PreparedWhileDirty, PreparedQuietly
<1>11. Exited'
  BY <1>1, <1>2 DEF IInv, Exited, Handled, PrepareHandled, PreparedWhileDirty,
       PreparedQuietly
<1>12. Waking'
  BY <1>1, <1>2 DEF IInv, Waking, Dirty, Pending, NotSaving, Driving, Handled,
       PrepareHandled, PreparedWhileDirty, PreparedQuietly
<1>13. NoLostWakeup'
  BY <1>1, <1>2 DEF IInv, NoLostWakeup, Dirty, Driving, Handled, PrepareHandled,
       PreparedWhileDirty, PreparedQuietly
<1> QED
  BY <1>2, <1>3, <1>4, <1>5, <1>6, <1>7, <1>8, <1>9, <1>10, <1>11, <1>12, <1>13 DEF
       IInv, Handled

LEMMA PreparedRejectedKeeps ==
    ASSUME IInv, PreparedRejected
    PROVE  IInv'
<1>0. Completes("prepare", TRUE)
  BY DEF PreparedRejected, PreparedQuietly, RejectProfile, Shutdown, BeginShutdown
<1>1. /\ UNCHANGED <<queue, busy, locked, stored, ioFailed, active, content, durable,
               saving, replaced, releasing, windows, cycles>>
      /\ loop.phase \notin {"starting", "exited"} /\ loop'.phase \notin {"starting", "exited"}
  BY <1>0, Completing DEF PreparedRejected, PreparedQuietly, RejectProfile, Shutdown,
       BeginShutdown, Driving, worker, runtime, locks, session
<1>2. Handled /\ PrepareHandled(TRUE)
  BY <1>0, <1>1, Handling, PrepareEnds
<1>3. OnDisk'
  BY <1>1, <1>2 DEF IInv, OnDisk, NoLostMutation, SaveAnswered, SameSaves, SameLocks,
       Handled, PrepareHandled
<1>4. TypeOK'
  <2>1. loop' \in LoopType
    BY Shapes, PlaceTypes DEF IInv, PreparedRejected, PreparedQuietly, RejectProfile,
         Shutdown, BeginShutdown
  <2>2. /\ selection' \in Profile \cup {NoProfile}
        /\ replacement' \in Profile \cup {NoProfile}
        /\ rejected' \in Profile \cup {NoProfile}
        /\ discovery' \in {"none", "unsent", "sent"}
        /\ unsent' \in BOOLEAN
        /\ resetting' \in BOOLEAN
        /\ browsing' \in BOOLEAN
        /\ shutdown' \in BOOLEAN
    BY <1>1, <1>2, Shapes, ShellConstants DEF IInv, TypeOK, Handled, PrepareHandled,
         PreparedRejected, PreparedQuietly, RejectProfile, Shutdown, BeginShutdown
  <2> QED
    BY <1>1, <1>2, <2>1, <2>2 DEF IInv, TypeOK, Handled, PrepareHandled
<1>5. Remembered'
  BY <1>1, <1>2 DEF IInv, Remembered, Handled, PrepareHandled, PreparedRejected,
       PreparedQuietly, RejectProfile, Shutdown, BeginShutdown
<1>6. Underway'
  BY <1>1, <1>2, Shapes, ShellConstants, Fields DEF IInv, Underway, Pending, NotSaving,
       Selecting, Releasing, NotReleasing, Remembered, Handled, PrepareHandled,
       PreparedRejected, PreparedQuietly, RejectProfile, Shutdown, BeginShutdown
<1>7. Selecting'
  BY <1>1, <1>2 DEF IInv, Selecting, NotReleasing, Handled, PrepareHandled,
       PreparedRejected, PreparedQuietly, RejectProfile, Shutdown, BeginShutdown
<1>8. Releasing'
  BY <1>1, <1>2 DEF IInv, Releasing, Flushed, Dirty, Pending, NotSaving, NotReleasing,
       Handled, PrepareHandled, PreparedRejected, PreparedQuietly, RejectProfile,
       Shutdown, BeginShutdown
<1>9. Browsing'
  BY <1>1, <1>2 DEF IInv, Browsing, Handled, PrepareHandled, PreparedRejected,
       PreparedQuietly, RejectProfile, Shutdown, BeginShutdown
<1>10. Failures'
  BY <1>1, <1>2 DEF IInv, Failures, Handled, PrepareHandled, PreparedRejected,
       PreparedQuietly, RejectProfile, Shutdown, BeginShutdown
<1>11. Locked'
  BY <1>1, <1>2 DEF IInv, Locked, Handled, PrepareHandled, PreparedRejected,
       PreparedQuietly, RejectProfile, Shutdown, BeginShutdown
<1>12. Custody'
  BY <1>1, <1>2 DEF IInv, Custody, SameSaves, SameLocks, Handled, PrepareHandled,
       PreparedRejected, PreparedQuietly, RejectProfile, Shutdown, BeginShutdown
<1>13. Exited'
  BY <1>1, <1>2 DEF IInv, Exited, Handled, PrepareHandled, PreparedRejected,
       PreparedQuietly, RejectProfile, Shutdown, BeginShutdown
<1>14. Waking'
  BY <1>1, <1>2 DEF IInv, Waking, Dirty, Pending, NotSaving, Driving, Handled,
       PrepareHandled, PreparedRejected, PreparedQuietly, RejectProfile, Shutdown,
       BeginShutdown
<1>15. NoLostWakeup'
  BY <1>1, <1>2, Shapes, ShellConstants DEF IInv, NoLostWakeup, Dirty, Driving,
       Selecting, Handled, PrepareHandled, PreparedRejected, PreparedQuietly,
       RejectProfile, Shutdown, BeginShutdown
<1> QED
  BY <1>2, <1>3, <1>4, <1>5, <1>6, <1>7, <1>8, <1>9, <1>10, <1>11, <1>12, <1>13, <1>14,
       <1>15 DEF IInv, Handled

LEMMA PreparedReplacesAndFailsKeeps ==
    ASSUME IInv, PreparedReplacesAndFails
    PROVE  IInv'
<1>0. Completes("prepare", TRUE)
  BY DEF PreparedReplacesAndFails, PreparedQuietly, Shutdown, BeginShutdown
<1>a. /\ active' = selection /\ replaced' = active /\ content' = content
      /\ selection \in Profile /\ selection # active
      /\ durable' = content[selection] /\ durable' \in [Store -> 0 .. MaxContent]
      /\ stored = content /\ \A s \in Store : ~Pending(s)
      /\ \A e \in Outstanding : e.kind # "save"
      /\ \A p, s, n : SaveDone(p, s, n) \notin Answers
  <2>1. PrepareHandled(TRUE)
    BY <1>0, PrepareEnds
  <2>2. ActivateProfile(selection)
    BY <2>1 DEF PrepareHandled, PreparedReplacesAndFails, PreparedQuietly, Shutdown, BeginShutdown
  <2>3. Flushed
    BY DEF Flushed, PreparedReplacesAndFails, PreparedQuietly, Shutdown, BeginShutdown
  <2> QED
    BY <2>1, <2>2, <2>3, Activating, Idle DEF IInv, OnDisk, PrepareHandled
<1>1. /\ UNCHANGED <<queue, busy, locked, stored, ioFailed, content, saving, releasing,
               windows, cycles>>
      /\ loop.phase \notin {"starting", "exited"} /\ loop'.phase \notin {"starting", "exited"}
  BY <1>0, Completing, <1>a DEF PreparedReplacesAndFails, PreparedQuietly, Shutdown,
       BeginShutdown, Driving, worker, runtime, locks, session
<1>2. Handled /\ PrepareHandled(TRUE)
  BY <1>0, <1>1, Handling, PrepareEnds
<1>3. TypeOK'
  <2>1. loop' \in LoopType
    BY Shapes, PlaceTypes DEF IInv, PreparedReplacesAndFails, PreparedQuietly, Shutdown,
         BeginShutdown
  <2>2. /\ active' \in Profile \cup {NoProfile}
        /\ selection' \in Profile \cup {NoProfile}
        /\ replacement' \in Profile \cup {NoProfile}
        /\ rejected' \in Profile \cup {NoProfile}
        /\ replaced' \in Profile \cup {NoProfile}
        /\ discovery' \in {"none", "unsent", "sent"}
        /\ unsent' \in BOOLEAN
        /\ resetting' \in BOOLEAN
        /\ browsing' \in BOOLEAN
        /\ shutdown' \in BOOLEAN
    BY <1>1, <1>2, Shapes, ShellConstants, <1>a DEF IInv, TypeOK, Handled,
         PrepareHandled, PreparedReplacesAndFails, PreparedQuietly, Shutdown,
         BeginShutdown
  <2>3. durable' \in [Store -> 0 .. MaxContent]
    BY <1>1, <1>2, Shapes, WorkerConstants, <1>a DEF IInv, TypeOK, NotSaving, Purpose,
         NotReleasing, Handled, PrepareHandled, PreparedReplacesAndFails,
         PreparedQuietly, Shutdown, BeginShutdown
  <2> QED
    BY <1>1, <1>2, <2>1, <2>2, <2>3 DEF IInv, TypeOK, Handled, PrepareHandled
<1>4. Remembered'
  <2>1. \A e \in Outstanding' : e \in Outstanding /\ e.kind # "save"
    BY <1>a, <1>2 DEF Handled
  <2> QED
    BY <1>1, <1>2, <2>1 DEF IInv, Remembered, Handled, PrepareHandled, PreparedReplacesAndFails, Shutdown, BeginShutdown, PreparedQuietly
<1>5. Underway'
  <2>1. \A s \in Store : ~Pending(s)'
    BY <1>1, <1>a DEF Pending
  <2>2. selection' = NoProfile
    BY DEF PreparedReplacesAndFails, Shutdown, BeginShutdown, PreparedQuietly
  <2>3. discovery' # "sent" /\ releasing'.profile = NoProfile
    BY <1>1, <1>2 DEF PrepareHandled, NotReleasing, PreparedReplacesAndFails, Shutdown, BeginShutdown, PreparedQuietly
  <2> QED
    BY <2>1, <2>2, <2>3 DEF Underway
<1>6. Selecting'
  BY <1>1, <1>2, <1>a DEF IInv, Selecting, NotReleasing, Handled, PrepareHandled,
       PreparedReplacesAndFails, PreparedQuietly, Shutdown, BeginShutdown
<1>7. Releasing'
  BY <1>1, <1>2, Shapes, ShellConstants, <1>a DEF IInv, Releasing, Flushed, Dirty,
       Pending, NotSaving, NotReleasing, Selecting, Handled, PrepareHandled,
       PreparedReplacesAndFails, PreparedQuietly, Shutdown, BeginShutdown
<1>8. Browsing'
  BY <1>1, <1>2, <1>a DEF IInv, Browsing, Handled, PrepareHandled,
       PreparedReplacesAndFails, PreparedQuietly, Shutdown, BeginShutdown
<1>9. OnDisk'
  <2>1. \A p, s, n : SaveDone(p, s, n) \notin Answers'
    BY <1>a, <1>2 DEF Handled
  <2>2. NoLostMutation'
    BY <1>1, <1>a DEF NoLostMutation
  <2>3. \A s \in Store : stored'[active'][s] = durable'[s]
    BY <1>1, <1>a
  <2> QED
    BY <2>1, <2>2, <2>3 DEF OnDisk, SaveAnswered
<1>10. Failures'
  BY <1>1, <1>2, <1>a DEF IInv, Failures, Handled, PrepareHandled,
       PreparedReplacesAndFails, PreparedQuietly, Shutdown, BeginShutdown
<1>11. Locked'
  BY <1>1, <1>2, <1>a DEF IInv, Locked, Handled, PrepareHandled,
       PreparedReplacesAndFails, PreparedQuietly, Shutdown, BeginShutdown
<1>12. Custody'
  BY <1>1, <1>2, <1>a DEF IInv, Custody, SameSaves, SameLocks, Handled, PrepareHandled,
       PreparedReplacesAndFails, PreparedQuietly, Shutdown, BeginShutdown
<1>13. Exited'
  BY <1>1, <1>2, <1>a DEF IInv, Exited, Handled, PrepareHandled,
       PreparedReplacesAndFails, PreparedQuietly, Shutdown, BeginShutdown
<1>14. Waking'
  BY <1>1, <1>2, <1>a DEF IInv, Waking, Dirty, Pending, NotSaving, Driving, Handled,
       PrepareHandled, PreparedReplacesAndFails, PreparedQuietly, Shutdown,
       BeginShutdown
<1>15. NoLostWakeup'
  BY <1>1, <1>2, <1>a DEF IInv, NoLostWakeup, Dirty, Driving, Handled, PrepareHandled,
       PreparedReplacesAndFails, PreparedQuietly, Shutdown, BeginShutdown
<1> QED
  BY <1>2, <1>3, <1>4, <1>5, <1>6, <1>7, <1>8, <1>9, <1>10, <1>11, <1>12, <1>13, <1>14,
       <1>15 DEF IInv, Handled

LEMMA NotPreparedKeeps ==
    ASSUME IInv, NotPrepared
    PROVE  IInv'
<1>0. Completes("prepare", FALSE)
  BY DEF NotPrepared, Shutdown, BeginShutdown
<1>1. /\ UNCHANGED <<queue, busy, locked, stored, ioFailed, active, content, durable,
               saving, replaced, releasing, windows, cycles>>
      /\ loop.phase \notin {"starting", "exited"} /\ loop'.phase \notin {"starting", "exited"}
  BY <1>0, Completing DEF NotPrepared, Shutdown, BeginShutdown, Driving, worker,
       runtime, locks, session
<1>2. Handled /\ PrepareHandled(FALSE)
  BY <1>0, <1>1, Handling, PrepareEnds
<1>3. OnDisk'
  BY <1>1, <1>2 DEF IInv, OnDisk, NoLostMutation, SaveAnswered, SameSaves, SameLocks,
       Handled, PrepareHandled
<1>4. TypeOK'
  <2>1. loop' \in LoopType
    BY Shapes, PlaceTypes DEF IInv, NotPrepared, Shutdown, BeginShutdown
  <2>2. /\ selection' \in Profile \cup {NoProfile}
        /\ replacement' \in Profile \cup {NoProfile}
        /\ rejected' \in Profile \cup {NoProfile}
        /\ discovery' \in {"none", "unsent", "sent"}
        /\ unsent' \in BOOLEAN
        /\ resetting' \in BOOLEAN
        /\ browsing' \in BOOLEAN
        /\ shutdown' \in BOOLEAN
    BY <1>1, <1>2, Shapes, ShellConstants DEF IInv, TypeOK, Handled, PrepareHandled,
         NotPrepared, Shutdown, BeginShutdown
  <2> QED
    BY <1>1, <1>2, <2>1, <2>2 DEF IInv, TypeOK, Handled, PrepareHandled
<1>5. Remembered'
  BY <1>1, <1>2 DEF IInv, Remembered, Handled, PrepareHandled, NotPrepared, Shutdown,
       BeginShutdown
<1>6. Underway'
  BY <1>1, <1>2, Shapes, ShellConstants, Fields DEF IInv, Underway, Pending, NotSaving,
       Selecting, Releasing, NotReleasing, Remembered, Handled, PrepareHandled,
       NotPrepared, Shutdown, BeginShutdown
<1>7. Selecting'
  BY <1>1, <1>2 DEF IInv, Selecting, NotReleasing, Handled, PrepareHandled, NotPrepared,
       Shutdown, BeginShutdown
<1>8. Releasing'
  BY <1>1, <1>2 DEF IInv, Releasing, Flushed, Dirty, Pending, NotSaving, NotReleasing,
       Handled, PrepareHandled, NotPrepared, Shutdown, BeginShutdown
<1>9. Browsing'
  BY <1>1, <1>2 DEF IInv, Browsing, Handled, PrepareHandled, NotPrepared, Shutdown,
       BeginShutdown
<1>10. Failures'
  BY <1>1, <1>2 DEF IInv, Failures, Handled, PrepareHandled, NotPrepared, Shutdown,
       BeginShutdown
<1>11. Locked'
  BY <1>1, <1>2 DEF IInv, Locked, Handled, PrepareHandled, NotPrepared, Shutdown,
       BeginShutdown
<1>12. Custody'
  BY <1>1, <1>2 DEF IInv, Custody, Handled, PrepareHandled, NotReleasing, NotPrepared,
       Shutdown, BeginShutdown
<1>13. Exited'
  BY <1>1, <1>2 DEF IInv, Exited, Handled, PrepareHandled, NotPrepared, Shutdown,
       BeginShutdown
<1>14. Waking'
  BY <1>1, <1>2 DEF IInv, Waking, Dirty, Pending, NotSaving, Driving, Handled,
       PrepareHandled, NotPrepared, Shutdown, BeginShutdown
<1>15. NoLostWakeup'
  BY <1>1, <1>2, Shapes, ShellConstants DEF IInv, NoLostWakeup, Dirty, Driving,
       Selecting, Handled, PrepareHandled, NotPrepared, Shutdown, BeginShutdown
<1> QED
  BY <1>2, <1>3, <1>4, <1>5, <1>6, <1>7, <1>8, <1>9, <1>10, <1>11, <1>12, <1>13, <1>14,
       <1>15 DEF IInv, Handled

LEMMA SavedKeeps ==
    ASSUME IInv, Saved
    PROVE  IInv'
<1>0. Completes("save", TRUE)
  BY DEF Saved
<1>1. /\ UNCHANGED <<queue, busy, locked, stored, ioFailed, active, selection, content,
               replacement, rejected, replaced, releasing, discovery, unsent, resetting,
               browsing, shutdown, windows, cycles>>
      /\ loop.phase \notin {"starting", "exited"} /\ loop'.phase \notin {"starting", "exited"}
  BY <1>0, Completing DEF Saved, Driving, worker, runtime, locks, session
<1>2. Handled /\ SaveHandled(TRUE)
  BY <1>0, <1>1, Handling, SaveEnds
<1>3. Selecting' /\ Browsing' /\ Custody'
  BY <1>1, <1>2 DEF IInv, Selecting, Browsing, Custody, SameSaves, SameLocks, Handled,
       SaveHandled
<1>4. TypeOK'
  <2>1. loop' \in LoopType
    BY Shapes, PlaceTypes DEF IInv, Saved
  <2>2. durable' \in [Store -> 0 .. MaxContent]
    BY <1>1, <1>2, Shapes, WorkerConstants DEF IInv, TypeOK, NotSaving, Purpose,
         NotReleasing, Handled, SaveHandled, Saved
  <2>3. saving' \in [Store -> 0 .. NotSaving]
    BY <1>1, <1>2, Shapes, WorkerConstants DEF IInv, TypeOK, NotSaving, Purpose,
         NotReleasing, Handled, SaveHandled, Saved
  <2> QED
    BY <1>1, <1>2, <2>1, <2>2, <2>3 DEF IInv, TypeOK, Handled, SaveHandled
<1>5. Remembered'
  BY <1>1, <1>2 DEF IInv, Remembered, Handled, SaveHandled, Saved
<1>6. Underway'
  <2>1. \A e \in Outstanding : e.kind # "save" => e \in Outstanding'
    BY <1>2, Fields DEF Handled, SaveHandled
  <2>2. ASSUME NEW s \in Store, Pending(s)'
        PROVE  Save(active', s, saving'[s]) \in Outstanding'
    <3>1. s # Answered.store /\ saving'[s] = saving[s] /\ Pending(s)
      BY <2>2, <1>2, Shapes DEF IInv, TypeOK, SaveHandled, Pending, Saved
    <3>2. Save(active, s, saving[s]) \in Outstanding /\ Save(active, s, saving[s]) # Answered
      BY <1>2, <3>1, Fields DEF IInv, Underway, SaveHandled
    <3> QED
      BY <1>1, <1>2, <3>1, <3>2 DEF Handled
  <2> QED
    BY <1>1, <2>1, <2>2, Fields DEF IInv, Underway
<1>7. Releasing'
  BY <1>1, <1>2, Shapes, ShellConstants DEF IInv, Releasing, Flushed, Dirty, Pending,
       NotSaving, NotReleasing, Selecting, Handled, SaveHandled, Saved
<1>8. OnDisk'
  <2>1. NoLostMutation'
    BY <1>1 DEF IInv, OnDisk, NoLostMutation
  <2>2. ASSUME NEW s \in Store
        PROVE  stored[active][s] = IF SaveAnswered(s)' THEN saving'[s] ELSE durable'[s]
    <3>1. stored[active][s] = IF SaveAnswered(s) THEN saving[s] ELSE durable[s]
      BY <1>2, ShellConstants DEF IInv, OnDisk, SaveHandled
    <3>2. CASE s = Answered.store
      <4>1. ~SaveAnswered(s)'
        BY <1>1, <1>2, <3>2 DEF SaveAnswered, SaveHandled
      <4>2. stored[active][s] = durable'[s]
        BY <1>1, <1>2, <3>1, <3>2 DEF IInv, TypeOK, SaveHandled, Saved
      <4> QED
        BY <4>1, <4>2
    <3>3. CASE s # Answered.store
      <4>1. saving'[s] = saving[s] /\ durable'[s] = durable[s]
        BY <1>1, <3>3 DEF IInv, TypeOK, Saved
      <4>2. SaveAnswered(s)' <=> SaveAnswered(s)
        BY <1>1, <1>2, <3>3, <4>1 DEF SaveAnswered, SaveHandled
      <4> QED
        BY <3>1, <4>1, <4>2
    <3> QED
      BY <3>2, <3>3
  <2> QED
    BY <1>1, <2>1, <2>2 DEF OnDisk
<1>9. Failures'
  BY <1>1, <1>2 DEF IInv, Failures, Handled, SaveHandled, Saved
<1>10. Locked'
  BY <1>1, <1>2 DEF IInv, Locked, Handled, SaveHandled, Saved
<1>11. Exited'
  BY <1>1, <1>2 DEF IInv, Exited, Handled, SaveHandled, Saved
<1>12. Waking'
  BY <1>1, <1>2 DEF IInv, Waking, Dirty, Pending, NotSaving, Driving, Handled,
       SaveHandled, Saved
<1>13. NoLostWakeup'
  BY <1>1, <1>2, Shapes, ShellConstants DEF IInv, NoLostWakeup, Dirty, Driving,
       Selecting, Handled, SaveHandled, Saved
<1> QED
  BY <1>2, <1>3, <1>4, <1>5, <1>6, <1>7, <1>8, <1>9, <1>10, <1>11, <1>12, <1>13 DEF
       IInv, Handled

LEMMA NotSavedKeeps ==
    ASSUME IInv, NotSaved
    PROVE  IInv'
<1>0. Completes("save", FALSE)
  BY DEF NotSaved, BeginShutdown
<1>1. /\ UNCHANGED <<queue, busy, locked, stored, ioFailed, active, content, durable,
               replaced, releasing, windows, cycles>>
      /\ loop.phase \notin {"starting", "exited"} /\ loop'.phase = "exited"
  BY <1>0, Completing DEF NotSaved, BeginShutdown, At, worker, runtime, locks, session
<1>2. Handled /\ SaveHandled(FALSE)
  BY <1>0, <1>1, Handling, SaveEnds
<1>3. TypeOK'
  <2>1. loop' \in LoopType
    BY Shapes, PlaceTypes DEF IInv, NotSaved, BeginShutdown
  <2>2. /\ selection' \in Profile \cup {NoProfile}
        /\ replacement' \in Profile \cup {NoProfile}
        /\ rejected' \in Profile \cup {NoProfile}
        /\ discovery' \in {"none", "unsent", "sent"}
        /\ unsent' \in BOOLEAN
        /\ resetting' \in BOOLEAN
        /\ browsing' \in BOOLEAN
        /\ shutdown' \in BOOLEAN
    BY <1>1, <1>2, Shapes, ShellConstants DEF IInv, TypeOK, Handled, SaveHandled,
         NotSaved, BeginShutdown
  <2>3. saving' \in [Store -> 0 .. NotSaving]
    BY <1>1, <1>2, Shapes, WorkerConstants DEF IInv, TypeOK, NotSaving, Purpose,
         NotReleasing, Handled, SaveHandled, NotSaved, BeginShutdown
  <2> QED
    BY <1>1, <1>2, <2>1, <2>2, <2>3 DEF IInv, TypeOK, Handled, SaveHandled
<1>4. Remembered'
  BY <1>1, <1>2 DEF IInv, Remembered, Handled, SaveHandled, NotSaved, BeginShutdown
<1>5. Underway'
  <2>1. \A e \in Outstanding : e.kind # "save" => e \in Outstanding'
    BY <1>2, Fields DEF Handled, SaveHandled
  <2>2. ASSUME NEW s \in Store, Pending(s)'
        PROVE  Save(active', s, saving'[s]) \in Outstanding'
    <3>1. s # Answered.store /\ saving'[s] = saving[s] /\ Pending(s)
      BY <2>2, <1>2, Shapes DEF IInv, TypeOK, SaveHandled, Pending, NotSaved
    <3>2. Save(active, s, saving[s]) \in Outstanding /\ Save(active, s, saving[s]) # Answered
      BY <1>2, <3>1, Fields DEF IInv, Underway, SaveHandled
    <3> QED
      BY <1>1, <1>2, <3>1, <3>2 DEF Handled
  <2> QED
    BY <1>1, <2>1, <2>2, Fields DEF IInv, Underway, NotSaved, BeginShutdown
<1>6. Selecting'
  BY <1>1, <1>2 DEF IInv, Selecting, NotReleasing, Handled, SaveHandled, NotSaved,
       BeginShutdown
<1>7. Releasing'
  BY <1>1, <1>2, Shapes, ShellConstants DEF IInv, Releasing, Flushed, Dirty, Pending,
       NotSaving, NotReleasing, Selecting, Handled, SaveHandled, NotSaved, BeginShutdown
<1>8. Browsing'
  BY <1>1, <1>2 DEF IInv, Browsing, Handled, SaveHandled, NotSaved, BeginShutdown
<1>9. OnDisk'
  <2>1. NoLostMutation'
    BY <1>1 DEF IInv, OnDisk, NoLostMutation
  <2>2. ASSUME NEW s \in Store
        PROVE  stored[active][s] = IF SaveAnswered(s)' THEN saving'[s] ELSE durable'[s]
    <3>1. stored[active][s] = IF SaveAnswered(s) THEN saving[s] ELSE durable[s]
      BY <1>2, ShellConstants DEF IInv, OnDisk, SaveHandled
    <3>2. CASE s = Answered.store
      <4>1. ~SaveAnswered(s)'
        BY <1>1, <1>2, <3>2 DEF SaveAnswered, SaveHandled
      <4>2. stored[active][s] = durable'[s]
        BY <1>1, <1>2, <3>1, <3>2 DEF IInv, TypeOK, SaveHandled
      <4> QED
        BY <4>1, <4>2
    <3>3. CASE s # Answered.store
      <4>1. saving'[s] = saving[s] /\ durable'[s] = durable[s]
        BY <1>1, <3>3 DEF IInv, TypeOK, NotSaved
      <4>2. SaveAnswered(s)' <=> SaveAnswered(s)
        BY <1>1, <1>2, <3>3, <4>1 DEF SaveAnswered, SaveHandled
      <4> QED
        BY <3>1, <4>1, <4>2
    <3> QED
      BY <3>2, <3>3
  <2> QED
    BY <1>1, <2>1, <2>2 DEF OnDisk
<1>10. Failures'
  BY <1>1, <1>2 DEF IInv, Failures, Handled, SaveHandled, NotSaved, BeginShutdown
<1>11. Locked'
  BY <1>1, <1>2 DEF IInv, Locked, Handled, SaveHandled, NotSaved, BeginShutdown
<1>12. Custody'
  BY <1>1, <1>2 DEF IInv, Custody, SameSaves, SameLocks, Handled, SaveHandled, NotSaved,
       BeginShutdown
<1>13. Exited'
  BY <1>1, <1>2 DEF IInv, Exited, Handled, SaveHandled, NotSaved, BeginShutdown
<1>14. Waking'
  BY <1>1, <1>2 DEF IInv, Waking, Dirty, Pending, NotSaving, At, Handled, SaveHandled,
       NotSaved, BeginShutdown
<1>15. NoLostWakeup'
  BY <1>1, <1>2 DEF IInv, NoLostWakeup, Dirty, At, Handled, SaveHandled, NotSaved,
       BeginShutdown
<1> QED
  BY <1>2, <1>3, <1>4, <1>5, <1>6, <1>7, <1>8, <1>9, <1>10, <1>11, <1>12, <1>13, <1>14,
       <1>15 DEF IInv, Handled

LEMMA DiscoveredTooLateKeeps ==
    ASSUME IInv, DiscoveredTooLate
    PROVE  IInv'
<1>0. \E ok \in BOOLEAN : Completes("discover", ok)
  BY DEF DiscoveredTooLate
<1>1. /\ UNCHANGED <<queue, busy, locked, stored, ioFailed, active, selection, content,
               durable, saving, replacement, rejected, replaced, releasing, unsent,
               resetting, browsing, shutdown, windows, cycles>>
      /\ loop.phase \notin {"starting", "exited"} /\ loop'.phase \notin {"starting", "exited"}
  BY <1>0, Completing DEF DiscoveredTooLate, Driving, worker, runtime, locks, session
<1>2. Handled /\ DiscoveryHandled
  BY <1>0, <1>1, Handling, DiscoveryEnds
<1>3. Releasing' /\ Browsing' /\ OnDisk' /\ Custody'
  BY <1>1, <1>2 DEF IInv, Releasing, Flushed, Dirty, Pending, Browsing, OnDisk,
       NoLostMutation, SaveAnswered, Custody, SameSaves, SameLocks, Handled,
       DiscoveryHandled
<1>4. TypeOK'
  <2>1. loop' \in LoopType
    BY Shapes, PlaceTypes DEF IInv, DiscoveredTooLate
  <2>2. /\ discovery' \in {"none", "unsent", "sent"}
    BY <1>1, <1>2, Shapes, ShellConstants DEF IInv, TypeOK, Handled, DiscoveryHandled,
         DiscoveredTooLate
  <2> QED
    BY <1>1, <1>2, <2>1, <2>2 DEF IInv, TypeOK, Handled, DiscoveryHandled
<1>5. Remembered'
  BY <1>1, <1>2 DEF IInv, Remembered, Handled, DiscoveryHandled, DiscoveredTooLate
<1>6. Underway'
  BY <1>1, <1>2, Shapes, ShellConstants, Fields DEF IInv, Underway, Pending, NotSaving,
       Selecting, Releasing, NotReleasing, Remembered, Handled, DiscoveryHandled,
       DiscoveredTooLate
<1>7. Selecting'
  <2>1. discovery' = "none"
    BY DEF DiscoveredTooLate
  <2> QED
    BY <1>1, <1>2, <2>1 DEF IInv, Selecting, DiscoveryHandled
<1>8. Failures'
  BY <1>1, <1>2 DEF IInv, Failures, Handled, DiscoveryHandled, DiscoveredTooLate
<1>9. Locked'
  BY <1>1, <1>2 DEF IInv, Locked, Handled, DiscoveryHandled, DiscoveredTooLate
<1>10. Exited'
  BY <1>1, <1>2 DEF IInv, Exited, Handled, DiscoveryHandled, DiscoveredTooLate
<1>11. Waking'
  BY <1>1, <1>2 DEF IInv, Waking, Dirty, Pending, NotSaving, Driving, Handled,
       DiscoveryHandled, DiscoveredTooLate
<1>12. NoLostWakeup'
  BY <1>1, <1>2, Shapes, ShellConstants DEF IInv, NoLostWakeup, Dirty, Driving,
       Selecting, Handled, DiscoveryHandled, DiscoveredTooLate
<1> QED
  BY <1>2, <1>3, <1>4, <1>5, <1>6, <1>7, <1>8, <1>9, <1>10, <1>11, <1>12 DEF IInv,
       Handled

LEMMA DiscoveredAloneKeeps ==
    ASSUME IInv, DiscoveredAlone
    PROVE  IInv'
<1>0. \E ok \in BOOLEAN : Completes("discover", ok)
  BY DEF DiscoveredAlone
<1>1. /\ UNCHANGED <<queue, busy, locked, stored, ioFailed, active, selection, content,
               durable, saving, replacement, rejected, replaced, releasing, unsent,
               resetting, browsing, shutdown, windows, cycles>>
      /\ loop.phase \notin {"starting", "exited"} /\ loop'.phase \notin {"starting", "exited"}
  BY <1>0, Completing DEF DiscoveredAlone, At, worker, runtime, locks, session
<1>2. Handled /\ DiscoveryHandled
  BY <1>0, <1>1, Handling, DiscoveryEnds
<1>3. Releasing' /\ Browsing' /\ OnDisk' /\ Custody'
  BY <1>1, <1>2 DEF IInv, Releasing, Flushed, Dirty, Pending, Browsing, OnDisk,
       NoLostMutation, SaveAnswered, Custody, SameSaves, SameLocks, Handled,
       DiscoveryHandled
<1>4. TypeOK'
  <2>1. loop' \in LoopType
    BY Shapes, PlaceTypes DEF IInv, DiscoveredAlone
  <2>2. /\ discovery' \in {"none", "unsent", "sent"}
    BY <1>1, <1>2, Shapes, ShellConstants DEF IInv, TypeOK, Handled, DiscoveryHandled,
         DiscoveredAlone
  <2> QED
    BY <1>1, <1>2, <2>1, <2>2 DEF IInv, TypeOK, Handled, DiscoveryHandled
<1>5. Remembered'
  BY <1>1, <1>2 DEF IInv, Remembered, Handled, DiscoveryHandled, DiscoveredAlone
<1>6. Underway'
  BY <1>1, <1>2, Shapes, ShellConstants, Fields DEF IInv, Underway, Pending, NotSaving,
       Selecting, Releasing, NotReleasing, Remembered, Handled, DiscoveryHandled,
       DiscoveredAlone
<1>7. Selecting'
  BY <1>1, <1>2 DEF IInv, Selecting, NotReleasing, Handled, DiscoveryHandled,
       DiscoveredAlone
<1>8. Failures'
  BY <1>1, <1>2 DEF IInv, Failures, Handled, DiscoveryHandled, DiscoveredAlone
<1>9. Locked'
  BY <1>1, <1>2 DEF IInv, Locked, Handled, DiscoveryHandled, DiscoveredAlone
<1>10. Exited'
  BY <1>1, <1>2 DEF IInv, Exited, Handled, DiscoveryHandled, DiscoveredAlone
<1>11. Waking'
  BY <1>1, <1>2 DEF IInv, Waking, Dirty, Pending, NotSaving, At, Handled,
       DiscoveryHandled, DiscoveredAlone
<1>12. NoLostWakeup'
  BY <1>1, <1>2 DEF IInv, NoLostWakeup, Dirty, At, Handled, DiscoveryHandled,
       DiscoveredAlone
<1> QED
  BY <1>2, <1>3, <1>4, <1>5, <1>6, <1>7, <1>8, <1>9, <1>10, <1>11, <1>12 DEF IInv,
       Handled

LEMMA NotDiscoveredKeeps ==
    ASSUME IInv, NotDiscovered
    PROVE  IInv'
<1>0. \E ok \in BOOLEAN : Completes("discover", ok)
  BY DEF NotDiscovered, Shutdown, BeginShutdown
<1>1. /\ UNCHANGED <<queue, busy, locked, stored, ioFailed, active, content, durable,
               saving, replaced, releasing, windows, cycles>>
      /\ loop.phase \notin {"starting", "exited"} /\ loop'.phase \notin {"starting", "exited"}
  BY <1>0, Completing DEF NotDiscovered, Shutdown, BeginShutdown, Driving, worker,
       runtime, locks, session
<1>2. Handled /\ DiscoveryHandled
  BY <1>0, <1>1, Handling, DiscoveryEnds
<1>3. OnDisk'
  BY <1>1, <1>2 DEF IInv, OnDisk, NoLostMutation, SaveAnswered, SameSaves, SameLocks,
       Handled, DiscoveryHandled
<1>4. TypeOK'
  <2>1. loop' \in LoopType
    BY Shapes, PlaceTypes DEF IInv, NotDiscovered, Shutdown, BeginShutdown
  <2>2. /\ selection' \in Profile \cup {NoProfile}
        /\ replacement' \in Profile \cup {NoProfile}
        /\ rejected' \in Profile \cup {NoProfile}
        /\ discovery' \in {"none", "unsent", "sent"}
        /\ unsent' \in BOOLEAN
        /\ resetting' \in BOOLEAN
        /\ browsing' \in BOOLEAN
        /\ shutdown' \in BOOLEAN
    BY <1>1, <1>2, Shapes, ShellConstants DEF IInv, TypeOK, Handled, DiscoveryHandled,
         NotDiscovered, Shutdown, BeginShutdown
  <2> QED
    BY <1>1, <1>2, <2>1, <2>2 DEF IInv, TypeOK, Handled, DiscoveryHandled
<1>5. Remembered'
  BY <1>1, <1>2 DEF IInv, Remembered, Handled, DiscoveryHandled, NotDiscovered,
       Shutdown, BeginShutdown
<1>6. Underway'
  BY <1>1, <1>2, Shapes, ShellConstants, Fields DEF IInv, Underway, Pending, NotSaving,
       Selecting, Releasing, NotReleasing, Remembered, Handled, DiscoveryHandled,
       NotDiscovered, Shutdown, BeginShutdown
<1>7. Selecting'
  BY <1>1, <1>2 DEF IInv, Selecting, NotReleasing, Handled, DiscoveryHandled,
       NotDiscovered, Shutdown, BeginShutdown
<1>8. Releasing'
  BY <1>1, <1>2 DEF IInv, Releasing, Flushed, Dirty, Pending, NotSaving, NotReleasing,
       Handled, DiscoveryHandled, NotDiscovered, Shutdown, BeginShutdown
<1>9. Browsing'
  BY <1>1, <1>2 DEF IInv, Browsing, Handled, DiscoveryHandled, NotDiscovered, Shutdown,
       BeginShutdown
<1>10. Failures'
  BY <1>1, <1>2 DEF IInv, Failures, Handled, DiscoveryHandled, NotDiscovered, Shutdown,
       BeginShutdown
<1>11. Locked'
  BY <1>1, <1>2 DEF IInv, Locked, Handled, DiscoveryHandled, NotDiscovered, Shutdown,
       BeginShutdown
<1>12. Custody'
  BY <1>1, <1>2 DEF IInv, Custody, SameSaves, SameLocks, Handled, DiscoveryHandled,
       NotDiscovered, Shutdown, BeginShutdown
<1>13. Exited'
  BY <1>1, <1>2 DEF IInv, Exited, Handled, DiscoveryHandled, NotDiscovered, Shutdown,
       BeginShutdown
<1>14. Waking'
  BY <1>1, <1>2 DEF IInv, Waking, Dirty, Pending, NotSaving, Driving, Handled,
       DiscoveryHandled, NotDiscovered, Shutdown, BeginShutdown
<1>15. NoLostWakeup'
  BY <1>1, <1>2, Shapes, ShellConstants DEF IInv, NoLostWakeup, Dirty, Driving,
       Selecting, Handled, DiscoveryHandled, NotDiscovered, Shutdown, BeginShutdown
<1> QED
  BY <1>2, <1>3, <1>4, <1>5, <1>6, <1>7, <1>8, <1>9, <1>10, <1>11, <1>12, <1>13, <1>14,
       <1>15 DEF IInv, Handled

LEMMA WaitKeeps ==
    ASSUME IInv, NEW w \in SUBSET Store, AboutToWait(w),
           loop.phase \notin {"starting", "exited"},
           shutdown \/ (discovery # "unsent" /\ ~unsent)
    PROVE  IInv'
<1>1. /\ UNCHANGED <<queue, busy, done, locked, stored, ioFailed, active, selection,
               content, durable, saving, replacement, rejected, replaced, releasing,
               discovery, unsent, resetting, browsing, shutdown, windows, cycles>>
      /\ loop.phase \notin {"starting", "exited"} /\ loop'.phase \notin {"starting", "exited"}
  BY Shapes DEF IInv, AboutToWait, Driving, worker, runtime, locks, session
<1>2. InFlight' = InFlight /\ Answers' = Answers /\ Outstanding' = Outstanding /\ Distinct'
  BY <1>1, Keeps DEF IInv
<1>3. Remembered' /\ Underway' /\ Selecting' /\ Releasing' /\ Browsing' /\ OnDisk' /\
       Failures' /\ Locked' /\ Custody' /\ Exited'
  BY <1>1, <1>2 DEF IInv, Remembered, Underway, Pending, Selecting, Releasing, Flushed,
       Dirty, Browsing, OnDisk, NoLostMutation, SaveAnswered, Failures, Locked, Custody,
       Exited
<1>4. TypeOK'
  <2>1. loop' \in LoopType
    BY Shapes, PlaceTypes DEF IInv, AboutToWait
  <2> QED
    BY <1>1, <1>2, <2>1 DEF IInv, TypeOK
<1>5. Waking'
  <2>1. ~unsent /\ discovery # "unsent"
    BY DEF IInv, Selecting
  <2>2. loop'.todo = Store /\ (loop'.urgent <=> shutdown \/ replacement # NoProfile)
    BY DEF AboutToWait, Driving
  <2> QED
    BY <1>1, <2>1, <2>2 DEF Waking
<1>6. NoLostWakeup'
  BY <1>1, <1>2 DEF IInv, NoLostWakeup, Dirty, Driving, AboutToWait
<1> QED
  BY <1>2, <1>3, <1>4, <1>5, <1>6 DEF IInv

LEMMA WaitSendsDiscovery ==
    ASSUME IInv, NEW w \in SUBSET Store, AboutToWait(w),
           loop.phase \notin {"starting", "exited"}, ~shutdown, discovery = "unsent"
    PROVE  IInv'
<1>1. /\ UNCHANGED <<busy, done, locked, stored, ioFailed, active, selection, content,
               durable, saving, replacement, rejected, replaced, releasing, unsent,
               resetting, browsing, shutdown, windows, cycles>>
      /\ loop.phase \notin {"starting", "exited"} /\ loop'.phase \notin {"starting", "exited"}
  <2>1. unsent = FALSE
    BY Shapes DEF IInv, Selecting
  <2> QED
    BY <2>1 DEF AboutToWait, SendUnsent, Driving, worker, runtime, locks, session
<1>2. Tried(Discover) /\ \A e \in Outstanding : ~Same(Discover, e)
  <2>1. Discover \in Command
    BY Shapes, Commands, ShellConstants DEF IInv, Selecting, AboutToWait, SendUnsent
  <2>2. \A e \in Outstanding : ~Same(Discover, e)
    BY Shapes, Fields, Unasked, ShellConstants DEF IInv, Selecting, Releasing, Same,
         AboutToWait, SendUnsent
  <2>3. TrySend(Discover)
    BY DEF AboutToWait, SendUnsent
  <2> QED
    BY <1>1, <2>1, <2>2, <2>3, Sends DEF IInv
<1>3. Releasing' /\ Browsing' /\ OnDisk' /\ Failures' /\ Custody'
  BY <1>1, <1>2 DEF IInv, Releasing, Flushed, Dirty, Pending, Browsing, OnDisk,
       NoLostMutation, SaveAnswered, Failures, Custody, Tried
<1>4. TypeOK'
  <2>1. loop' \in LoopType
    BY Shapes, PlaceTypes DEF IInv, AboutToWait, SendUnsent
  <2>2. /\ discovery' \in {"none", "unsent", "sent"}
    BY <1>1, <1>2, Shapes, ShellConstants DEF IInv, TypeOK, Tried, AboutToWait,
         SendUnsent
  <2> QED
    BY <1>1, <1>2, <2>1, <2>2 DEF IInv, TypeOK, Tried
<1>5. Remembered'
  BY <1>1, <1>2, Shapes, ShellConstants, Fields DEF IInv, Remembered, Selecting,
       Releasing, NotReleasing, Underway, Tried, AboutToWait, SendUnsent
<1>6. Underway'
  BY <1>1, <1>2 DEF IInv, Underway, Pending, NotSaving, Tried, AboutToWait, SendUnsent
<1>7. Selecting'
  BY <1>1, <1>2 DEF IInv, Selecting, NotReleasing, Tried, AboutToWait, SendUnsent
<1>8. Locked'
  BY <1>1, <1>2, Shapes, ShellConstants, Fields DEF IInv, Locked, Selecting, Releasing,
       NotReleasing, Remembered, Underway, Tried, AboutToWait, SendUnsent
<1>9. Exited'
  BY <1>1, <1>2 DEF IInv, Exited, Tried, AboutToWait, SendUnsent
<1>10. Waking'
  <2>1. unsent' \/ discovery' = "unsent" => Outstanding' # {}
    BY <1>2, Way, WayNext DEF IInv, Selecting, Tried, AboutToWait, SendUnsent
  <2>2. loop'.todo = Store /\ (loop'.urgent <=> shutdown \/ replacement # NoProfile)
    BY DEF AboutToWait, Driving
  <2> QED
    BY <1>1, <2>1, <2>2 DEF Waking
<1>11. NoLostWakeup'
  BY <1>1, <1>2 DEF IInv, NoLostWakeup, Dirty, Driving, Tried, AboutToWait, SendUnsent
<1> QED
  BY <1>2, <1>3, <1>4, <1>5, <1>6, <1>7, <1>8, <1>9, <1>10, <1>11 DEF IInv, Tried

LEMMA WaitSendsSelection ==
    ASSUME IInv, NEW w \in SUBSET Store, AboutToWait(w),
           loop.phase \notin {"starting", "exited"}, ~shutdown, discovery # "unsent", unsent
    PROVE  IInv'
<1>1. /\ UNCHANGED <<busy, done, locked, stored, ioFailed, active, selection, content,
               durable, saving, replacement, rejected, replaced, releasing, discovery,
               resetting, browsing, shutdown, windows, cycles>>
      /\ loop.phase \notin {"starting", "exited"} /\ loop'.phase \notin {"starting", "exited"}
  BY DEF AboutToWait, SendUnsent, Driving, worker, runtime, locks, session
<1>2. Tried(Prepare(selection)) /\ \A e \in Outstanding : ~Same(Prepare(selection), e)
  <2>1. Prepare(selection) \in Command
    BY Shapes, Commands, ShellConstants DEF IInv, Selecting, AboutToWait, SendUnsent
  <2>2. \A e \in Outstanding : ~Same(Prepare(selection), e)
    BY Shapes, Fields, Unasked, ShellConstants DEF IInv, Selecting, Releasing, Same,
         AboutToWait, SendUnsent
  <2>3. TrySend(Prepare(selection))
    BY DEF AboutToWait, SendUnsent
  <2> QED
    BY <1>1, <2>1, <2>2, <2>3, Sends DEF IInv
<1>3. Releasing' /\ Browsing' /\ OnDisk' /\ Failures' /\ Custody'
  BY <1>1, <1>2 DEF IInv, Releasing, Flushed, Dirty, Pending, Browsing, OnDisk,
       NoLostMutation, SaveAnswered, Failures, Custody, Tried
<1>4. TypeOK'
  <2>1. loop' \in LoopType
    BY Shapes, PlaceTypes DEF IInv, AboutToWait, SendUnsent
  <2>2. /\ unsent' \in BOOLEAN
    BY <1>1, <1>2, Shapes, ShellConstants DEF IInv, TypeOK, Tried, AboutToWait,
         SendUnsent
  <2> QED
    BY <1>1, <1>2, <2>1, <2>2 DEF IInv, TypeOK, Tried
<1>5. Remembered'
  BY <1>1, <1>2, Shapes, ShellConstants, Fields DEF IInv, Remembered, Selecting,
       Releasing, NotReleasing, Underway, Tried, AboutToWait, SendUnsent
<1>6. Underway'
  BY <1>1, <1>2 DEF IInv, Underway, Pending, NotSaving, Tried, AboutToWait, SendUnsent
<1>7. Selecting'
  BY <1>1, <1>2 DEF IInv, Selecting, NotReleasing, Tried, AboutToWait, SendUnsent
<1>8. Locked'
  BY <1>1, <1>2, Shapes, ShellConstants, Fields DEF IInv, Locked, Selecting, Releasing,
       NotReleasing, Remembered, Underway, Tried, AboutToWait, SendUnsent
<1>9. Exited'
  BY <1>1, <1>2 DEF IInv, Exited, Tried, AboutToWait, SendUnsent
<1>10. Waking'
  <2>1. unsent' \/ discovery' = "unsent" => Outstanding' # {}
    BY <1>2, Way, WayNext DEF IInv, Selecting, Tried, AboutToWait, SendUnsent
  <2>2. loop'.todo = Store /\ (loop'.urgent <=> shutdown \/ replacement # NoProfile)
    BY DEF AboutToWait, Driving
  <2> QED
    BY <1>1, <2>1, <2>2 DEF Waking
<1>11. NoLostWakeup'
  BY <1>1, <1>2 DEF IInv, NoLostWakeup, Dirty, Driving, Tried, AboutToWait, SendUnsent
<1> QED
  BY <1>2, <1>3, <1>4, <1>5, <1>6, <1>7, <1>8, <1>9, <1>10, <1>11 DEF IInv, Tried

LEMMA PreparedReplacesKeeps ==
    ASSUME IInv, PreparedReplaces
    PROVE  IInv'
<1>0. Completes("prepare", TRUE)
  BY DEF PreparedReplaces, PreparedQuietly, CommitReplacement, ReleaseSent
<1>a. /\ active' = selection /\ replaced' = active /\ content' = content
      /\ selection \in Profile /\ selection # active /\ active \in Profile
      /\ durable' = content[selection] /\ durable' \in [Store -> 0 .. MaxContent]
      /\ stored = content /\ \A s \in Store : ~Pending(s)
      /\ \A e \in Outstanding : e.kind # "save"
      /\ \A p, s, n : SaveDone(p, s, n) \notin Answers
  <2>1. PrepareHandled(TRUE)
    BY <1>0, PrepareEnds
  <2>2. ActivateProfile(selection) /\ Flushed /\ active # NoProfile
    BY <2>1 DEF PrepareHandled, PreparedReplaces, PreparedQuietly, CommitReplacement
  <2> QED
    BY <2>1, <2>2, Activating, Idle, Shapes DEF IInv, OnDisk, PrepareHandled
<1>1. /\ UNCHANGED <<busy, locked, stored, ioFailed, content, saving, rejected,
               discovery, unsent, shutdown, windows, cycles>>
      /\ loop.phase \notin {"starting", "exited"} /\ loop'.phase \notin {"starting", "exited"}
  BY <1>0, Completing, <1>a DEF PreparedReplaces, PreparedQuietly, CommitReplacement,
       ReleaseSent, At, worker, runtime, locks, session
<1>2. HandledAndTried(Release(active)) /\ PrepareHandled(TRUE)
  <2>1. PrepareHandled(TRUE)
    BY <1>0, PrepareEnds
  <2>2. TrySend(Release(active))
    BY DEF PreparedReplaces, CommitReplacement, ReleaseSent
  <2>3. \A e \in Outstanding : e.kind # "release"
    BY <2>1, Unasked DEF PrepareHandled, NotReleasing
  <2>4. Release(active) \in Command /\ \A e \in Outstanding : ~Same(Release(active), e)
    BY <1>a, <2>3, Commands, Fields DEF Same
  <2> QED
    BY <1>0, <2>1, <2>2, <2>4, HandlingAndSending
<1>3. TypeOK'
  <2>1. loop' \in LoopType
    BY Shapes, PlaceTypes DEF IInv, PreparedReplaces, PreparedQuietly,
         CommitReplacement, ReleaseSent
  <2>2. /\ active' \in Profile \cup {NoProfile}
        /\ selection' \in Profile \cup {NoProfile}
        /\ replacement' \in Profile \cup {NoProfile}
        /\ replaced' \in Profile \cup {NoProfile}
        /\ resetting' \in BOOLEAN
        /\ browsing' \in BOOLEAN
    BY <1>1, <1>2, Shapes, ShellConstants, <1>a DEF IInv, TypeOK, HandledAndTried,
         PrepareHandled, PreparedReplaces, PreparedQuietly, CommitReplacement,
         ReleaseSent
  <2>3. durable' \in [Store -> 0 .. MaxContent]
    BY <1>1, <1>2, Shapes, WorkerConstants, <1>a DEF IInv, TypeOK, NotSaving, Purpose,
         NotReleasing, HandledAndTried, PrepareHandled, PreparedReplaces,
         PreparedQuietly, CommitReplacement, ReleaseSent
  <2>4. releasing' \in [profile : Profile \cup {NoProfile}, purpose : Purpose]
    BY <1>1, <1>2, Shapes, WorkerConstants, <1>a DEF IInv, TypeOK, NotSaving, Purpose,
         NotReleasing, HandledAndTried, PrepareHandled, PreparedReplaces,
         PreparedQuietly, CommitReplacement, ReleaseSent
  <2> QED
    BY <1>1, <1>2, <2>1, <2>2, <2>3, <2>4 DEF IInv, TypeOK, HandledAndTried,
         PrepareHandled
<1>4. Remembered'
  <2>1. Outstanding \ {Answered} = {}
    <3>1. \A e \in Outstanding : e \in Command
      BY OnTheWay DEF IInv, TypeOK
    <3>2. \A e \in Outstanding : e.kind # "release" /\ e.kind # "discover"
      BY <1>2, Unasked DEF PrepareHandled, NotReleasing
    <3> QED
      BY <1>2, <1>a, <3>1, <3>2, CommandIs DEF PrepareHandled
  <2>2. ~QueueFull => releasing'.profile = active
    BY DEF PreparedReplaces, CommitReplacement, ReleaseSent
  <2> QED
    BY <1>2, <2>1, <2>2, Fields DEF HandledAndTried, Remembered
<1>5. Underway'
  BY <1>1, <1>2, Shapes, ShellConstants, Fields, <1>a DEF IInv, Underway, Pending,
       NotSaving, Selecting, Releasing, NotReleasing, Remembered, HandledAndTried,
       PrepareHandled, PreparedReplaces, PreparedQuietly, CommitReplacement, ReleaseSent
<1>6. Selecting'
  BY <1>1, <1>2, <1>a DEF IInv, Selecting, NotReleasing, HandledAndTried,
       PrepareHandled, PreparedReplaces, PreparedQuietly, CommitReplacement, ReleaseSent
<1>7. Releasing'
  BY <1>1, <1>2, Shapes, ShellConstants, <1>a DEF IInv, Releasing, Flushed, Dirty,
       Pending, NotSaving, NotReleasing, Selecting, HandledAndTried, PrepareHandled,
       PreparedReplaces, PreparedQuietly, CommitReplacement, ReleaseSent
<1>8. Browsing'
  BY <1>1, <1>2, Shapes, ShellConstants, <1>a DEF IInv, Browsing, Selecting,
       HandledAndTried, PrepareHandled, PreparedReplaces, PreparedQuietly,
       CommitReplacement, ReleaseSent
<1>9. OnDisk'
  <2>1. \A p, s, n : SaveDone(p, s, n) \notin Answers'
    BY <1>a, <1>2 DEF HandledAndTried
  <2>2. NoLostMutation'
    BY <1>1, <1>a DEF NoLostMutation
  <2>3. \A s \in Store : stored'[active'][s] = durable'[s]
    BY <1>1, <1>a
  <2> QED
    BY <2>1, <2>2, <2>3 DEF OnDisk, SaveAnswered
<1>10. Failures'
  BY <1>1, <1>2, <1>a DEF IInv, Failures, HandledAndTried, PrepareHandled,
       PreparedReplaces, PreparedQuietly, CommitReplacement, ReleaseSent
<1>11. Locked'
  BY <1>1, <1>2, <1>a DEF IInv, Locked, HandledAndTried, PrepareHandled,
       PreparedReplaces, PreparedQuietly, CommitReplacement, ReleaseSent
<1>12. Custody'
  BY <1>1, <1>2, Shapes, ShellConstants, Fields, <1>a DEF IInv, Custody, SameSaves,
       SameLocks, Selecting, Releasing, NotReleasing, Remembered, Underway,
       HandledAndTried, PrepareHandled, PreparedReplaces, PreparedQuietly,
       CommitReplacement, ReleaseSent
<1>13. Exited'
  BY <1>1, <1>2, <1>a DEF IInv, Exited, HandledAndTried, PrepareHandled,
       PreparedReplaces, PreparedQuietly, CommitReplacement, ReleaseSent
<1>14. Waking'
  BY <1>1, <1>2, <1>a DEF IInv, Waking, Dirty, Pending, NotSaving, At, HandledAndTried,
       PrepareHandled, PreparedReplaces, PreparedQuietly, CommitReplacement, ReleaseSent
<1>15. NoLostWakeup'
  BY <1>1, <1>2, <1>a DEF IInv, NoLostWakeup, Dirty, At, HandledAndTried,
       PrepareHandled, PreparedReplaces, PreparedQuietly, CommitReplacement, ReleaseSent
<1> QED
  BY <1>2, <1>3, <1>4, <1>5, <1>6, <1>7, <1>8, <1>9, <1>10, <1>11, <1>12, <1>13, <1>14,
       <1>15 DEF IInv, HandledAndTried

LEMMA DiscoveredNextKeeps ==
    ASSUME IInv, DiscoveredNext
    PROVE  IInv'
<1>0. \E ok \in BOOLEAN : Completes("discover", ok)
  BY DEF DiscoveredNext
<1>p. PICK p \in Profile \ {active} : selection' = p /\ TrySend(Prepare(p))
  BY DEF DiscoveredNext
<1>1. /\ UNCHANGED <<busy, locked, stored, ioFailed, active, content, durable, saving,
               replacement, rejected, replaced, releasing, resetting, browsing,
               shutdown, windows, cycles>>
      /\ loop.phase \notin {"starting", "exited"} /\ loop'.phase \notin {"starting", "exited"}
  BY <1>0, Completing DEF DiscoveredNext, At, worker, runtime, locks, session
<1>2. HandledAndTried(Prepare(p)) /\ DiscoveryHandled
  <2>1. DiscoveryHandled
    BY <1>0, DiscoveryEnds
  <2>2. \A e \in Outstanding : e.kind # "prepare"
    BY <2>1, Unasked DEF DiscoveryHandled
  <2>3. Prepare(p) \in Command /\ \A e \in Outstanding : ~Same(Prepare(p), e)
    BY <1>p, <2>2, Commands, Fields DEF Same
  <2> QED
    BY <1>0, <1>p, <2>1, <2>3, HandlingAndSending
<1>3. Releasing' /\ Browsing' /\ OnDisk' /\ Custody'
  BY <1>1, <1>2, <1>p DEF IInv, Releasing, Flushed, Dirty, Pending, Browsing, OnDisk,
       NoLostMutation, SaveAnswered, Custody, SameSaves, SameLocks, HandledAndTried,
       DiscoveryHandled
<1>4. TypeOK'
  <2>1. loop' \in LoopType
    BY Shapes, PlaceTypes DEF IInv, DiscoveredNext
  <2>2. selection' \in Profile \cup {NoProfile}
    BY <1>p
  <2>3. discovery' \in {"none", "unsent", "sent"} /\ unsent' \in BOOLEAN
    BY DEF DiscoveredNext, QueueFull
  <2> QED
    BY <1>1, <1>2, <2>1, <2>2, <2>3 DEF IInv, TypeOK, HandledAndTried
<1>5. Remembered'
  BY <1>1, <1>2, <1>p, Shapes, ShellConstants, Fields DEF IInv, Remembered, Selecting,
       Releasing, NotReleasing, Underway, HandledAndTried, DiscoveryHandled,
       DiscoveredNext
<1>6. Underway'
  BY <1>1, <1>2, <1>p, Shapes, ShellConstants, Fields DEF IInv, Underway, Pending,
       NotSaving, Selecting, Releasing, NotReleasing, Remembered, HandledAndTried,
       DiscoveryHandled, DiscoveredNext
<1>7. Selecting'
  BY <1>1, <1>2, <1>p, Shapes, ShellConstants DEF IInv, Selecting, NotReleasing,
       HandledAndTried, DiscoveryHandled, DiscoveredNext
<1>8. Failures'
  BY <1>1, <1>2, <1>p DEF IInv, Failures, HandledAndTried, DiscoveryHandled,
       DiscoveredNext
<1>9. Locked'
  BY <1>1, <1>2, <1>p, Shapes, ShellConstants, Fields DEF IInv, Locked, Selecting,
       Releasing, NotReleasing, Remembered, Underway, HandledAndTried, DiscoveryHandled,
       DiscoveredNext
<1>10. Exited'
  BY <1>1, <1>2, <1>p DEF IInv, Exited, HandledAndTried, DiscoveryHandled,
       DiscoveredNext
<1>11. Waking'
  BY <1>1, <1>2, <1>p DEF IInv, Waking, Dirty, Pending, NotSaving, At, HandledAndTried,
       DiscoveryHandled, DiscoveredNext
<1>12. NoLostWakeup'
  BY <1>1, <1>2, <1>p DEF IInv, NoLostWakeup, Dirty, At, HandledAndTried,
       DiscoveryHandled, DiscoveredNext
<1> QED
  BY <1>2, <1>3, <1>4, <1>5, <1>6, <1>7, <1>8, <1>9, <1>10, <1>11, <1>12 DEF IInv,
       HandledAndTried

LEMMA ReplacedReleasedKeeps ==
    ASSUME IInv, ReplacedReleased
    PROVE  IInv'
<1>0. Completes("release", TRUE)
  BY DEF ReplacedReleased, ReleaseCompletes, MayRestartAfter
<1>1. /\ UNCHANGED <<queue, busy, locked, stored, ioFailed, active, selection, content,
               durable, saving, replacement, rejected, discovery, unsent, resetting,
               shutdown, windows, cycles>>
      /\ loop.phase \notin {"starting", "exited"} /\ loop'.phase \notin {"starting", "exited"}
  <2>1. UNCHANGED <<queue, busy, locked, stored, ioFailed, active, selection, content,
                    durable, saving, replacement, rejected, discovery, unsent, resetting,
                    shutdown, windows, cycles>>
    BY <1>0, Completing DEF ReplacedReleased, runtime
  <2>2. loop' = Driving({}, FALSE, "settle", {}) \/ loop' = At("handling")
    BY DEF ReplacedReleased
  <2>3. loop'.phase \in {"driving", "handling"}
    BY <2>2 DEF At, Driving
  <2>4. loop.phase \notin {"starting", "exited"}
    BY <1>0, Completing
  <2> QED
    BY <2>1, <2>3, <2>4
<1>2. Handled /\ ReleaseHandled(TRUE)
  BY <1>0, <1>1, Handling, ReleaseEnds
<1>3. OnDisk'
  BY <1>1, <1>2 DEF IInv, OnDisk, NoLostMutation, SaveAnswered, SameSaves, SameLocks,
       Handled, ReleaseHandled
<1>4. TypeOK'
  <2>1. loop' \in LoopType
    BY PlaceTypes DEF ReplacedReleased
  <2>2. /\ replaced' \in Profile \cup {NoProfile}
        /\ browsing' \in BOOLEAN
    BY <1>1, <1>2, Shapes, ShellConstants DEF IInv, TypeOK, Handled, ReleaseHandled,
         ReplacedReleased, ReleaseCompletes, MayRestartAfter
  <2>3. releasing' \in [profile : Profile \cup {NoProfile}, purpose : Purpose]
    BY <1>1, <1>2, Shapes, WorkerConstants DEF IInv, TypeOK, NotSaving, Purpose,
         NotReleasing, Handled, ReleaseHandled, ReplacedReleased, ReleaseCompletes,
         MayRestartAfter
  <2> QED
    BY <1>1, <1>2, <2>1, <2>2, <2>3 DEF IInv, TypeOK, Handled, ReleaseHandled
<1>5. Remembered'
  BY <1>1, <1>2 DEF IInv, Remembered, Handled, ReleaseHandled, ReplacedReleased,
       ReleaseCompletes, MayRestartAfter
<1>6. Underway'
  BY <1>1, <1>2, Shapes, ShellConstants, Fields DEF IInv, Underway, Pending, NotSaving,
       Selecting, Releasing, NotReleasing, Remembered, Handled, ReleaseHandled,
       ReplacedReleased, ReleaseCompletes, MayRestartAfter
<1>7. Selecting'
  BY <1>1, <1>2 DEF IInv, Selecting, NotReleasing, Handled, ReleaseHandled,
       ReplacedReleased, ReleaseCompletes, MayRestartAfter
<1>8. Releasing'
  BY <1>1, <1>2 DEF IInv, Releasing, Flushed, Dirty, Pending, NotSaving, NotReleasing,
       Handled, ReleaseHandled, ReplacedReleased, ReleaseCompletes, MayRestartAfter
<1>9. Browsing'
  <2>1. browsing' # browsing => ~shutdown
    BY DEF ReplacedReleased
  <2>2. replaced = releasing.profile
    BY DEF IInv, Releasing, ReplacedReleased, ReleaseCompletes
  <2>3. active # NoProfile
    BY <1>2, <2>2, ShellConstants DEF IInv, Releasing, ReleaseHandled
  <2> QED
    BY <1>1, <2>1, <2>3, Shapes DEF IInv, Browsing
<1>10. Failures'
  BY <1>1, <1>2 DEF IInv, Failures, Handled, ReleaseHandled, ReplacedReleased,
       ReleaseCompletes, MayRestartAfter
<1>11. Locked'
  BY <1>1, <1>2 DEF IInv, Locked, Handled, ReleaseHandled, ReplacedReleased,
       ReleaseCompletes, MayRestartAfter
<1>12. Custody'
  BY <1>1, <1>2, Shapes, ShellConstants, Fields DEF IInv, Custody, SameSaves, SameLocks,
       Selecting, Releasing, NotReleasing, Remembered, Underway, Handled,
       ReleaseHandled, ReplacedReleased, ReleaseCompletes, MayRestartAfter
<1>13. Exited'
  BY <1>1, <1>2 DEF IInv, Exited, Handled, ReleaseHandled, ReplacedReleased,
       ReleaseCompletes, MayRestartAfter
<1>14. Waking'
  <2>1. loop' = Driving({}, FALSE, "settle", {}) \/ loop' = At("handling")
    BY DEF ReplacedReleased
  <2> QED
    BY <2>1 DEF Waking, At, Driving
<1>15. NoLostWakeup'
  <2>1. loop' = Driving({}, FALSE, "settle", {}) \/ loop' = At("handling")
    BY DEF ReplacedReleased
  <2> QED
    BY <2>1 DEF NoLostWakeup, At, Driving
<1> QED
  BY <1>2, <1>3, <1>4, <1>5, <1>6, <1>7, <1>8, <1>9, <1>10, <1>11, <1>12, <1>13, <1>14,
       <1>15 DEF IInv, Handled

LEMMA ReplacedNotReleasedKeeps ==
    ASSUME IInv, ReplacedNotReleased
    PROVE  IInv'
<1>0. Completes("release", FALSE)
  BY DEF ReplacedNotReleased, ReleaseCompletes, ShutdownNow, Shutdown, BeginShutdown
<1>1. /\ UNCHANGED <<queue, busy, locked, stored, ioFailed, active, content, durable,
               saving, windows, cycles>>
      /\ loop.phase \notin {"starting", "exited"} /\ loop'.phase \notin {"starting", "exited"}
  BY <1>0, Completing DEF ReplacedNotReleased, ReleaseCompletes, ShutdownNow, Shutdown,
       BeginShutdown, Driving, worker, runtime, locks, session
<1>2. Handled /\ ReleaseHandled(FALSE)
  BY <1>0, <1>1, Handling, ReleaseEnds
<1>3. OnDisk'
  BY <1>1, <1>2 DEF IInv, OnDisk, NoLostMutation, SaveAnswered, SameSaves, SameLocks,
       Handled, ReleaseHandled
<1>4. TypeOK'
  <2>1. loop' \in LoopType
    BY Shapes, PlaceTypes DEF IInv, ReplacedNotReleased, ReleaseCompletes, ShutdownNow,
         Shutdown, BeginShutdown
  <2>2. /\ selection' \in Profile \cup {NoProfile}
        /\ replacement' \in Profile \cup {NoProfile}
        /\ rejected' \in Profile \cup {NoProfile}
        /\ replaced' \in Profile \cup {NoProfile}
        /\ discovery' \in {"none", "unsent", "sent"}
        /\ unsent' \in BOOLEAN
        /\ resetting' \in BOOLEAN
        /\ browsing' \in BOOLEAN
        /\ shutdown' \in BOOLEAN
    BY <1>1, <1>2, Shapes, ShellConstants DEF IInv, TypeOK, Handled, ReleaseHandled,
         ReplacedNotReleased, ReleaseCompletes, ShutdownNow, Shutdown, BeginShutdown
  <2>3. releasing' \in [profile : Profile \cup {NoProfile}, purpose : Purpose]
    BY <1>1, <1>2, Shapes, WorkerConstants DEF IInv, TypeOK, NotSaving, Purpose,
         NotReleasing, Handled, ReleaseHandled, ReplacedNotReleased, ReleaseCompletes,
         ShutdownNow, Shutdown, BeginShutdown
  <2> QED
    BY <1>1, <1>2, <2>1, <2>2, <2>3 DEF IInv, TypeOK, Handled, ReleaseHandled
<1>5. Remembered'
  BY <1>1, <1>2 DEF IInv, Remembered, Handled, ReleaseHandled, ReplacedNotReleased,
       ReleaseCompletes, ShutdownNow, Shutdown, BeginShutdown
<1>6. Underway'
  BY <1>1, <1>2, Shapes, ShellConstants, Fields DEF IInv, Underway, Pending, NotSaving,
       Selecting, Releasing, NotReleasing, Remembered, Handled, ReleaseHandled,
       ReplacedNotReleased, ReleaseCompletes, ShutdownNow, Shutdown, BeginShutdown
<1>7. Selecting'
  BY <1>1, <1>2 DEF IInv, Selecting, NotReleasing, Handled, ReleaseHandled,
       ReplacedNotReleased, ReleaseCompletes, ShutdownNow, Shutdown, BeginShutdown
<1>8. Releasing'
  BY <1>1, <1>2 DEF IInv, Releasing, Flushed, Dirty, Pending, NotSaving, NotReleasing,
       Handled, ReleaseHandled, ReplacedNotReleased, ReleaseCompletes, ShutdownNow,
       Shutdown, BeginShutdown
<1>9. Browsing'
  BY <1>1, <1>2 DEF IInv, Browsing, Handled, ReleaseHandled, ReplacedNotReleased,
       ReleaseCompletes, ShutdownNow, Shutdown, BeginShutdown
<1>10. Failures'
  BY <1>1, <1>2 DEF IInv, Failures, Handled, ReleaseHandled, ReplacedNotReleased,
       ReleaseCompletes, ShutdownNow, Shutdown, BeginShutdown
<1>11. Locked'
  BY <1>1, <1>2 DEF IInv, Locked, Handled, ReleaseHandled, ReplacedNotReleased,
       ReleaseCompletes, ShutdownNow, Shutdown, BeginShutdown
<1>12. Custody'
  BY <1>1, <1>2 DEF IInv, Custody, SameSaves, SameLocks, Handled, ReleaseHandled,
       ReplacedNotReleased, ReleaseCompletes, ShutdownNow, Shutdown, BeginShutdown
<1>13. Exited'
  BY <1>1, <1>2 DEF IInv, Exited, Handled, ReleaseHandled, ReplacedNotReleased,
       ReleaseCompletes, ShutdownNow, Shutdown, BeginShutdown
<1>14. Waking'
  BY <1>1, <1>2 DEF IInv, Waking, Dirty, Pending, NotSaving, Driving, Handled,
       ReleaseHandled, ReplacedNotReleased, ReleaseCompletes, ShutdownNow, Shutdown,
       BeginShutdown
<1>15. NoLostWakeup'
  BY <1>1, <1>2 DEF IInv, NoLostWakeup, Dirty, Driving, Handled, ReleaseHandled,
       ReplacedNotReleased, ReleaseCompletes, ShutdownNow, Shutdown, BeginShutdown
<1> QED
  BY <1>2, <1>3, <1>4, <1>5, <1>6, <1>7, <1>8, <1>9, <1>10, <1>11, <1>12, <1>13, <1>14,
       <1>15 DEF IInv, Handled

LEMMA RejectedReleaseEndsKeeps ==
    ASSUME IInv, RejectedReleaseEnds
    PROVE  IInv'
<1>0. PICK ok \in BOOLEAN : Completes("release", ok)
  BY DEF RejectedReleaseEnds, ReleaseCompletes
<1>1. /\ UNCHANGED <<queue, busy, locked, stored, ioFailed, active, selection, content,
               durable, saving, replacement, rejected, replaced, discovery, unsent,
               resetting, browsing, shutdown, windows, cycles>>
      /\ loop.phase \notin {"starting", "exited"} /\ loop'.phase \notin {"starting", "exited"}
  BY <1>0, Completing DEF RejectedReleaseEnds, ReleaseCompletes, Driving, worker,
       runtime, locks, session
<1>2. Handled /\ ReleaseHandled(ok)
  BY <1>0, <1>1, Handling, ReleaseEnds
<1>3. Browsing' /\ OnDisk'
  BY <1>1, <1>2 DEF IInv, Browsing, OnDisk, NoLostMutation, SaveAnswered, SameSaves,
       SameLocks, Handled, ReleaseHandled
<1>4. TypeOK'
  <2>1. loop' \in LoopType
    BY Shapes, PlaceTypes DEF IInv, RejectedReleaseEnds, ReleaseCompletes
  <2>2. releasing' \in [profile : Profile \cup {NoProfile}, purpose : Purpose]
    BY <1>1, <1>2, Shapes, WorkerConstants DEF IInv, TypeOK, NotSaving, Purpose,
         NotReleasing, Handled, ReleaseHandled, RejectedReleaseEnds, ReleaseCompletes
  <2> QED
    BY <1>1, <1>2, <2>1, <2>2 DEF IInv, TypeOK, Handled, ReleaseHandled
<1>5. Remembered'
  BY <1>1, <1>2 DEF IInv, Remembered, Handled, ReleaseHandled, RejectedReleaseEnds,
       ReleaseCompletes
<1>6. Underway'
  BY <1>1, <1>2, Shapes, ShellConstants, Fields DEF IInv, Underway, Pending, NotSaving,
       Selecting, Releasing, NotReleasing, Remembered, Handled, ReleaseHandled,
       RejectedReleaseEnds, ReleaseCompletes
<1>7. Selecting'
  BY <1>1, <1>2 DEF IInv, Selecting, NotReleasing, Handled, ReleaseHandled,
       RejectedReleaseEnds, ReleaseCompletes
<1>8. Releasing'
  BY <1>1, <1>2 DEF IInv, Releasing, Flushed, Dirty, Pending, NotSaving, NotReleasing,
       Handled, ReleaseHandled, RejectedReleaseEnds, ReleaseCompletes
<1>9. Failures'
  BY <1>1, <1>2 DEF IInv, Failures, Handled, ReleaseHandled, RejectedReleaseEnds,
       ReleaseCompletes
<1>10. Locked'
  BY <1>1, <1>2 DEF IInv, Locked, Handled, ReleaseHandled, RejectedReleaseEnds,
       ReleaseCompletes
<1>11. Custody'
  BY <1>1, <1>2 DEF IInv, Custody, SameSaves, SameLocks, Handled, ReleaseHandled,
       RejectedReleaseEnds, ReleaseCompletes
<1>12. Exited'
  BY <1>1, <1>2 DEF IInv, Exited, Handled, ReleaseHandled, RejectedReleaseEnds,
       ReleaseCompletes
<1>13. Waking'
  BY <1>1, <1>2 DEF IInv, Waking, Dirty, Pending, NotSaving, Driving, Handled,
       ReleaseHandled, RejectedReleaseEnds, ReleaseCompletes
<1>14. NoLostWakeup'
  BY <1>1, <1>2 DEF IInv, NoLostWakeup, Dirty, Driving, Handled, ReleaseHandled,
       RejectedReleaseEnds, ReleaseCompletes
<1> QED
  BY <1>2, <1>3, <1>4, <1>5, <1>6, <1>7, <1>8, <1>9, <1>10, <1>11, <1>12, <1>13, <1>14
       DEF IInv, Handled

LEMMA ActiveReleaseEndsKeeps ==
    ASSUME IInv, ActiveReleaseEnds
    PROVE  IInv'
<1>0. PICK ok \in BOOLEAN : Completes("release", ok)
  BY DEF ActiveReleaseEnds, ReleaseCompletes
<1>1. /\ UNCHANGED <<queue, busy, locked, stored, ioFailed, active, selection, content,
               durable, saving, replacement, rejected, replaced, discovery, unsent,
               resetting, browsing, shutdown, windows, cycles>>
      /\ loop.phase \notin {"starting", "exited"} /\ loop'.phase = "exited"
  BY <1>0, Completing DEF ActiveReleaseEnds, ReleaseCompletes, At, worker, runtime,
       locks, session
<1>2. Handled /\ ReleaseHandled(ok)
  BY <1>0, <1>1, Handling, ReleaseEnds
<1>3. Browsing' /\ OnDisk'
  BY <1>1, <1>2 DEF IInv, Browsing, OnDisk, NoLostMutation, SaveAnswered, SameSaves,
       SameLocks, Handled, ReleaseHandled
<1>4. TypeOK'
  <2>1. loop' \in LoopType
    BY Shapes, PlaceTypes DEF IInv, ActiveReleaseEnds, ReleaseCompletes
  <2>2. releasing' \in [profile : Profile \cup {NoProfile}, purpose : Purpose]
    BY <1>1, <1>2, Shapes, WorkerConstants DEF IInv, TypeOK, NotSaving, Purpose,
         NotReleasing, Handled, ReleaseHandled, ActiveReleaseEnds, ReleaseCompletes
  <2> QED
    BY <1>1, <1>2, <2>1, <2>2 DEF IInv, TypeOK, Handled, ReleaseHandled
<1>5. Remembered'
  BY <1>1, <1>2 DEF IInv, Remembered, Handled, ReleaseHandled, ActiveReleaseEnds,
       ReleaseCompletes
<1>6. Underway'
  BY <1>1, <1>2, Shapes, ShellConstants, Fields, CommandIs, OnTheWay, CompletionIs, Way
       DEF IInv, Underway, Pending, NotSaving, Selecting, Releasing, NotReleasing,
       Remembered, Handled, ReleaseHandled, ActiveReleaseEnds, ReleaseCompletes
<1>7. Selecting'
  BY <1>1, <1>2 DEF IInv, Selecting, NotReleasing, Handled, ReleaseHandled,
       ActiveReleaseEnds, ReleaseCompletes
<1>8. Releasing'
  BY <1>1, <1>2 DEF IInv, Releasing, Flushed, Dirty, Pending, NotSaving, NotReleasing,
       Handled, ReleaseHandled, ActiveReleaseEnds, ReleaseCompletes
<1>9. Failures'
  BY <1>1, <1>2 DEF IInv, Failures, Handled, ReleaseHandled, ActiveReleaseEnds,
       ReleaseCompletes
<1>10. Locked'
  BY <1>1, <1>2 DEF IInv, Locked, Handled, ReleaseHandled, ActiveReleaseEnds,
       ReleaseCompletes
<1>11. Custody'
  BY <1>1, <1>2 DEF IInv, Custody, SameSaves, SameLocks, Handled, ReleaseHandled,
       ActiveReleaseEnds, ReleaseCompletes
<1>12. Exited'
  <2>1. SUFFICES ASSUME ~ioFailed
                 PROVE  locked = {} /\ stored = content /\ Outstanding' = {}
    BY <1>1 DEF Exited
  <2>2. /\ releasing.purpose = "active" /\ releasing.profile = active /\ Flushed
        /\ replaced = NoProfile /\ rejected = NoProfile /\ replacement = NoProfile
        /\ active \notin locked
    BY <1>2, <2>1 DEF IInv, Releasing, ReleaseHandled, ActiveReleaseEnds, ReleaseCompletes
  <2>3. locked = {}
    BY <1>2, <2>1, <2>2, Shapes DEF IInv, Custody, ReleaseHandled
  <2>4. Outstanding' = {}
    BY <1>2, <2>2, Idle DEF Handled, ReleaseHandled
  <2> QED
    BY <2>2, <2>3, <2>4, Idle
<1>13. Waking'
  BY <1>1, <1>2 DEF IInv, Waking, Dirty, Pending, NotSaving, At, Handled,
       ReleaseHandled, ActiveReleaseEnds, ReleaseCompletes
<1>14. NoLostWakeup'
  BY <1>1, <1>2 DEF IInv, NoLostWakeup, Dirty, At, Handled, ReleaseHandled,
       ActiveReleaseEnds, ReleaseCompletes
<1> QED
  BY <1>2, <1>3, <1>4, <1>5, <1>6, <1>7, <1>8, <1>9, <1>10, <1>11, <1>12, <1>13, <1>14
       DEF IInv, Handled


-----------------------------------------------------------------------------
(* The worker's steps: a command goes from the queue to its execution and  *)
(* from there to its answer, so what is outstanding stays the same.        *)

\* What the shell keeps to itself.
Shell == <<runtime, locks, session, windows, loop, cycles>>

LEMMA ReceiveKeeps ==
    ASSUME IInv, Receive, UNCHANGED Shell
    PROVE  IInv'
<1>1. /\ UNCHANGED <<done, locked, stored, ioFailed, active, selection, content, durable,
               saving, replacement, rejected, replaced, releasing, discovery, unsent,
               resetting, browsing, shutdown, windows, loop, cycles>>
      /\ busy = <<>> /\ queue # <<>> /\ busy' = <<Head(queue)>> /\ queue' = Tail(queue)
      /\ queue \in Seq(Command) /\ Len(queue) <= 1 /\ done \in Seq(Completion)
  BY DEF Receive, Shell, runtime, locks, session, IInv, TypeOK, QueueCapacity
<1>2. /\ Tail(queue) = <<>> /\ Head(queue) \in Command
      /\ DistinctIn(<<>>, <<Head(queue)>>, done)
      /\ InFlightIn(<<>>, <<Head(queue)>>) = InFlightIn(queue, <<>>)
      /\ OutstandingIn(<<>>, <<Head(queue)>>, done) = OutstandingIn(queue, <<>>, done)
  BY <1>1, Receiving DEF IInv, Distinct
<1>3. InFlight' = InFlight /\ Answers' = Answers /\ Outstanding' = Outstanding
  BY <1>1, <1>2, Way, WayNext DEF Outstanding
<1>4. Distinct'
  BY <1>1, <1>2 DEF Distinct
<1>5. queue' \in Seq(Command) /\ Len(queue') <= QueueCapacity
  BY <1>1, <1>2 DEF QueueCapacity
<1>6. busy' \in Seq(Command) /\ Len(busy') <= 1
  BY <1>1, <1>2
<1>7. TypeOK'
  BY <1>1, <1>5, <1>6 DEF IInv, TypeOK
<1>8. queue = <<>> => queue' = <<>>
  BY <1>1
<1>9. Remembered' /\ Underway' /\ Selecting' /\ Releasing' /\ Browsing'
  BY <1>1, <1>3, <1>8 DEF IInv, Remembered, Underway, Pending, Selecting, Releasing,
       Flushed, Dirty, Browsing
<1>10. OnDisk' /\ Failures' /\ Locked' /\ Custody'
  BY <1>1, <1>3 DEF IInv, OnDisk, NoLostMutation, SaveAnswered, Failures, Locked, Custody
<1>11. Exited' /\ Waking' /\ NoLostWakeup'
  BY <1>1, <1>3 DEF IInv, Exited, Waking, NoLostWakeup, Dirty, Pending
<1> QED
  BY <1>4, <1>7, <1>9, <1>10, <1>11 DEF IInv

\* An execution of c ends with the answer d.
Executed(c, d) ==
    /\ c \in Command /\ c \in InFlight /\ c \in Outstanding
    /\ d \in Completion /\ d.command = c
    /\ busy' = <<>> /\ done' \in Seq(Completion) /\ UNCHANGED queue
    /\ Distinct' /\ Outstanding' = Outstanding
    /\ Answers' = Answers \cup {d}
    /\ \A e \in Answers : e.command \in Command /\ ~Same(c, e.command)
    /\ \A e \in InFlight' : e \in InFlight /\ e \in Command /\ ~Same(c, e)

LEMMA AnswerIs ==
    ASSUME IInv, NEW k, Executing(k), NEW ok \in BOOLEAN, Answer(ok)
    PROVE  Executed(busy[1], [command |-> busy[1], ok |-> ok]) /\ busy[1].kind = k
<1> DEFINE c == busy[1]
           d == [command |-> busy[1], ok |-> ok]
<1>1. /\ busy \in Seq(Command) /\ Len(busy) <= 1 /\ busy # <<>> /\ c.kind = k
      /\ done \in Seq(Completion) /\ queue \in Seq(Command)
      /\ busy' = <<>> /\ done' = Append(done, d) /\ UNCHANGED queue
      /\ DistinctIn(queue, busy, done)
  BY DEF IInv, TypeOK, Executing, Answer, Distinct
<1>2. /\ c \in Command /\ c \in InFlightIn(queue, busy)
      /\ d \in Completion /\ Append(done, d) \in Seq(Completion)
      /\ DistinctIn(queue, <<>>, Append(done, d))
      /\ AnswersIn(Append(done, d)) = AnswersIn(done) \cup {d}
      /\ InFlightIn(queue, <<>>) \subseteq InFlightIn(queue, busy)
      /\ OutstandingIn(queue, <<>>, Append(done, d)) = OutstandingIn(queue, busy, done)
      /\ \A e \in AnswersIn(done) : ~Same(c, e.command)
      /\ \A e \in InFlightIn(queue, <<>>) : ~Same(e, c)
  BY <1>1, Answering
<1>3. d.command = c
  OBVIOUS
<1> HIDE DEF c, d
<1>4. /\ InFlight' = InFlightIn(queue, <<>>) /\ Answers' = Answers \cup {d}
      /\ Outstanding' = Outstanding
  BY <1>1, <1>2, Way, WayNext DEF Outstanding
<1>5. Distinct'
  BY <1>1, <1>2 DEF Distinct
<1>6. /\ \A e \in Outstanding : e \in Command
      /\ \A e \in Answers : e.command \in Outstanding
      /\ \A e \in InFlight : e \in Outstanding
  BY OnTheWay DEF IInv, TypeOK
<1>7. Executed(c, d)
  BY <1>1, <1>2, <1>3, <1>4, <1>5, <1>6, Way DEF Executed, Same
<1> QED
  BY <1>1, <1>7 DEF c, d

\* What every answer leaves as it was.
LEMMA AnswerKeeps ==
    ASSUME IInv, UNCHANGED Shell, NEW c, NEW d, Executed(c, d), ioFailed => ioFailed'
    PROVE  /\ Distinct' /\ Remembered' /\ Underway'
           /\ Selecting' /\ Releasing' /\ Browsing'
           /\ Exited' /\ Waking' /\ NoLostWakeup'
           /\ (locked' \subseteq Profile /\ ioFailed' \in BOOLEAN
                 /\ stored' \in [Profile -> [Store -> 0 .. MaxContent]] => TypeOK')
           /\ (stored' = stored /\ SameSaves => OnDisk')
           /\ (d.ok \/ ioFailed' \/ d.command.kind \in {"prepare", "discover"} => Failures')
           /\ (locked' = locked /\ (~d.ok \/ d.command.kind \in {"save", "discover"}) => Locked')
           /\ (locked' = locked /\ SameLocks => Custody')
           /\ (ioFailed' => Custody')
<1>1. UNCHANGED <<queue, active, selection, content, durable, saving, replacement, rejected,
               replaced, releasing, discovery, unsent, resetting, browsing, shutdown,
               windows, loop, cycles>>
  BY DEF Shell, runtime, locks, session, Executed
<1>2. /\ c \in InFlight /\ c \in Outstanding /\ d.command = c
      /\ busy' = <<>> /\ done' \in Seq(Completion)
      /\ Distinct' /\ Outstanding' = Outstanding
      /\ Answers' = Answers \cup {d} /\ d \in Answers'
      /\ \A e \in InFlight' : e \in InFlight
  BY DEF Executed
<1>3. done' # <<>>
  BY <1>2 DEF Answers
<1>4. Remembered' /\ Underway' /\ Selecting' /\ Releasing' /\ Browsing'
  BY <1>1, <1>2 DEF IInv, Remembered, Underway, Pending, Selecting, Releasing, Flushed,
       Dirty, Browsing
<1>5. Waking' /\ NoLostWakeup'
  BY <1>1, <1>2, <1>3 DEF IInv, Waking, NoLostWakeup, Dirty, Pending
<1>6. Exited'
  BY <1>1, <1>2 DEF IInv, Exited
<1>7. busy' \in Seq(Command) /\ Len(busy') <= 1
  BY <1>2
<1>8. ASSUME locked' \subseteq Profile, ioFailed' \in BOOLEAN,
             stored' \in [Profile -> [Store -> 0 .. MaxContent]]
      PROVE  TypeOK'
  <2>1. queue' \in Seq(Command) /\ Len(queue') <= QueueCapacity
    BY <1>1 DEF IInv, TypeOK
  <2>2. /\ active' \in Profile \cup {NoProfile} /\ selection' \in Profile \cup {NoProfile}
        /\ content' \in [Profile -> [Store -> 0 .. MaxContent]]
        /\ durable' \in [Store -> 0 .. MaxContent]
        /\ saving' \in [Store -> 0 .. NotSaving]
    BY <1>1 DEF IInv, TypeOK
  <2>3. /\ discovery' \in {"none", "unsent", "sent"}
        /\ replacement' \in Profile \cup {NoProfile}
        /\ rejected' \in Profile \cup {NoProfile}
        /\ replaced' \in Profile \cup {NoProfile}
        /\ releasing' \in [profile : Profile \cup {NoProfile}, purpose : Purpose]
        /\ {unsent, resetting, browsing, shutdown}' \subseteq BOOLEAN
    BY <1>1 DEF IInv, TypeOK
  <2>4. windows' \subseteq Store /\ loop' \in LoopType /\ cycles' \in 0 .. MaxCycles
    BY <1>1 DEF IInv, TypeOK
  <2> QED
    BY <1>2, <1>7, <1>8, <2>1, <2>2, <2>3, <2>4 DEF TypeOK
<1>9. stored' = stored /\ SameSaves => OnDisk'
  BY <1>1 DEF IInv, OnDisk, NoLostMutation, SaveAnswered, SameSaves
<1>10. d.ok \/ ioFailed' \/ d.command.kind \in {"prepare", "discover"} => Failures'
  BY <1>2 DEF IInv, Failures
<1>11. locked' = locked /\ (~d.ok \/ d.command.kind \in {"save", "discover"}) => Locked'
  BY <1>1, <1>2 DEF IInv, Locked
<1>12. locked' = locked /\ SameLocks => Custody'
  BY <1>1 DEF IInv, Custody, SameLocks
<1>13. ioFailed' => Custody'
  BY DEF Custody
<1> QED
  BY <1>2, <1>4, <1>5, <1>6, <1>8, <1>9, <1>10, <1>11, <1>12, <1>13

\* An answer that is not that of a save, or not of a preparation.
LEMMA AnswerOfAnother ==
    ASSUME NEW c, NEW d, Executed(c, d)
    PROVE  /\ c.kind # "save" \/ ~d.ok => SameSaves
           /\ c.kind # "prepare" \/ ~d.ok => SameLocks
BY Fields DEF Executed, SameSaves, SameLocks

\* A profile is prepared only when no lock is on its way back.
LEMMA Preparing ==
    ASSUME IInv, NEW c, NEW d, Executed(c, d), c.kind = "prepare"
    PROVE  /\ c.profile \in Profile /\ c = Prepare(c.profile)
           /\ \A e \in Answers : e.command.kind # "release"
<1>1. c \in Command /\ c \in Outstanding
  BY DEF Executed
<1>2. c.profile \in Profile /\ c = Prepare(c.profile)
  BY <1>1, CommandIs
<1>3. selection = c.profile
  BY <1>1 DEF IInv, Remembered
<1>4. releasing = NotReleasing
  BY <1>2, <1>3, ShellConstants DEF IInv, Selecting
<1>5. \A e \in Outstanding : e.kind # "release"
  BY <1>4, Unasked DEF NotReleasing
<1> QED
  BY <1>2, <1>5, Way

LEMMA PrepareOkKeeps ==
    ASSUME IInv, PrepareOk, UNCHANGED Shell
    PROVE  IInv'
<1> DEFINE c == busy[1]
           d == [command |-> busy[1], ok |-> TRUE]
<1>1. /\ c.profile \notin locked /\ locked' = locked \cup {c.profile}
      /\ UNCHANGED <<stored, ioFailed>> /\ d.ok /\ d.command = c
  BY DEF PrepareOk
<1>2. Executed(c, d) /\ c.kind = "prepare"
  BY AnswerIs DEF PrepareOk
<1> HIDE DEF c
<1>3. /\ c.profile \in Profile /\ c = Prepare(c.profile)
      /\ \A e \in Answers : e.command.kind # "release"
  BY <1>2, Preparing
<1>4. d = PrepareDone(c.profile)
  BY <1>1, <1>3 DEF PrepareDone, c
<1> HIDE DEF d
<1>5. SameSaves
  BY <1>2, AnswerOfAnother
<1>6. UNCHANGED <<active, replacement, rejected, replaced, releasing, loop>>
  BY DEF Shell, runtime, locks
<1>7. /\ d.command = c /\ Answers' = Answers \cup {d} /\ \A e \in InFlight' : e \in InFlight
  BY <1>2 DEF Executed
<1>8. Locked'
  BY <1>1, <1>2, <1>3, <1>6, <1>7 DEF IInv, Locked
<1>9. Custody'
  BY <1>1, <1>4, <1>6, <1>7 DEF IInv, Custody
<1>10. TypeOK'
  <2>1. /\ locked' \subseteq Profile /\ ioFailed' \in BOOLEAN
        /\ stored' \in [Profile -> [Store -> 0 .. MaxContent]]
    BY <1>1, <1>3 DEF IInv, TypeOK
  <2> QED
    BY <1>1, <1>2, <2>1, AnswerKeeps
<1>11. OnDisk' /\ Failures'
  BY <1>1, <1>2, <1>5, AnswerKeeps
<1> QED
  BY <1>1, <1>2, <1>8, <1>9, <1>10, <1>11, AnswerKeeps DEF IInv

LEMMA PrepareLeaksLockKeeps ==
    ASSUME IInv, PrepareLeaksLock, UNCHANGED Shell
    PROVE  IInv'
<1> DEFINE c == busy[1]
           d == [command |-> busy[1], ok |-> FALSE]
<1>1. /\ locked' = locked \cup {c.profile}
      /\ ioFailed' /\ ioFailed' = TRUE /\ UNCHANGED stored /\ ~d.ok /\ d.command = c
  BY DEF PrepareLeaksLock
<1>2. Executed(c, d) /\ c.kind = "prepare"
  BY AnswerIs DEF PrepareLeaksLock
<1> HIDE DEF c, d
<1>3. /\ c.profile \in Profile
      /\ \A e \in Answers : e.command.kind # "release"
  BY <1>2, Preparing
<1>4. SameSaves
  BY <1>1, <1>2, AnswerOfAnother
<1>5. UNCHANGED <<active, replacement, rejected, replaced, releasing, loop>>
  BY DEF Shell, runtime, locks
<1>6. Answers' = Answers \cup {d} /\ \A e \in InFlight' : e \in InFlight
  BY <1>2 DEF Executed
<1>7. Locked'
  BY <1>1, <1>3, <1>5, <1>6 DEF IInv, Locked
<1>8. TypeOK'
  <2>1. /\ locked' \subseteq Profile /\ ioFailed' \in BOOLEAN
        /\ stored' \in [Profile -> [Store -> 0 .. MaxContent]]
    BY <1>1, <1>3 DEF IInv, TypeOK
  <2> QED
    BY <1>1, <1>2, <2>1, AnswerKeeps
<1> QED
  BY <1>1, <1>2, <1>4, <1>7, <1>8, AnswerKeeps DEF IInv

\* A failure, and what discovery finds, leave the disk as it was.
LEMMA FailureKeeps ==
    ASSUME IInv, UNCHANGED Shell, NEW k, Executing(k), NEW ok \in BOOLEAN, Answer(ok),
           UNCHANGED <<locked, stored>>, ioFailed' \in BOOLEAN,
           ioFailed => ioFailed', ~ok \/ k = "discover",
           ioFailed' \/ k \in {"prepare", "discover"}
    PROVE  IInv'
<1> DEFINE c == busy[1]
           d == [command |-> busy[1], ok |-> ok]
<1>1. Executed(c, d) /\ c.kind = k /\ d.ok = ok /\ d.command = c
  BY AnswerIs
<1> HIDE DEF c, d
<1>2. SameSaves /\ SameLocks
  BY <1>1, AnswerOfAnother
<1>3. locked' \subseteq Profile /\ stored' \in [Profile -> [Store -> 0 .. MaxContent]]
  BY DEF IInv, TypeOK
<1> QED
  BY <1>1, <1>2, <1>3, AnswerKeeps DEF IInv

LEMMA FailuresKeep ==
    ASSUME IInv, UNCHANGED Shell, PrepareFails \/ SaveFails \/ ReleaseFails \/ DiscoverEnds
    PROVE  IInv'
<1>1. ioFailed \in BOOLEAN
  BY DEF IInv, TypeOK
<1>2. CASE PrepareFails
  BY <1>1, <1>2, FailureKeeps DEF PrepareFails
<1>3. CASE SaveFails
  BY <1>1, <1>3, FailureKeeps DEF SaveFails
<1>4. CASE ReleaseFails
  BY <1>1, <1>4, FailureKeeps DEF ReleaseFails
<1>5. CASE DiscoverEnds
  <2>1. PICK ok \in BOOLEAN : Answer(ok)
    BY <1>5 DEF DiscoverEnds
  <2> QED
    BY <1>1, <1>5, <2>1, FailureKeeps DEF DiscoverEnds
<1> QED
  BY <1>2, <1>3, <1>4, <1>5

LEMMA SaveOkKeeps ==
    ASSUME IInv, SaveOk, UNCHANGED Shell
    PROVE  IInv'
<1> DEFINE c == busy[1]
           d == [command |-> busy[1], ok |-> TRUE]
<1>1. /\ stored' = [stored EXCEPT ![c.profile][c.store] = c.content]
      /\ UNCHANGED <<locked, ioFailed>> /\ d.ok /\ d.command = c
  BY DEF SaveOk
<1>2. Executed(c, d) /\ c.kind = "save"
  BY AnswerIs DEF SaveOk
<1> HIDE DEF c
<1>3. c \in Command /\ c \in Outstanding /\ Answers' = Answers \cup {d}
  BY <1>2 DEF Executed
<1>4. /\ c.profile \in Profile /\ c.store \in Store /\ c.content \in 0 .. MaxContent
      /\ c = Save(c.profile, c.store, c.content)
  BY <1>2, <1>3, CommandIs
<1>5. active = c.profile /\ saving[c.store] = c.content
  BY <1>2, <1>3 DEF IInv, Remembered
<1>6. d = SaveDone(active, c.store, saving[c.store])
  BY <1>1, <1>4, <1>5 DEF SaveDone, c
<1> HIDE DEF d
<1>7. SameLocks
  BY <1>2, AnswerOfAnother
<1>8. UNCHANGED <<active, content, durable, saving>>
  BY DEF Shell, runtime
<1>9. stored \in [Profile -> [Store -> 0 .. MaxContent]]
  BY DEF IInv, TypeOK
<1>10. /\ stored' \in [Profile -> [Store -> 0 .. MaxContent]]
       /\ \A p \in Profile : p # active => stored'[p] = stored[p]
       /\ stored'[active][c.store] = saving[c.store]
       /\ \A s \in Store : s # c.store => stored'[active][s] = stored[active][s]
  BY <1>1, <1>4, <1>5, <1>9
<1>11. OnDisk'
  <2>1. NoLostMutation'
    BY <1>8, <1>10 DEF IInv, OnDisk, NoLostMutation
  <2>2. ASSUME NEW s \in Store
        PROVE  stored'[active][s]
                  = IF SaveDone(active, s, saving[s]) \in Answers' THEN saving[s] ELSE durable[s]
    <3>1. CASE s = c.store
      BY <1>3, <1>6, <1>10, <3>1
    <3>2. CASE s # c.store
      <4>1. SaveDone(active, s, saving[s]) # d
        BY <1>6, <3>2, Fields
      <4>2. stored[active][s]
               = IF SaveDone(active, s, saving[s]) \in Answers THEN saving[s] ELSE durable[s]
        BY <1>4, <1>5, ShellConstants DEF IInv, OnDisk, SaveAnswered
      <4> QED
        BY <1>3, <1>10, <3>2, <4>1, <4>2
    <3> QED
      BY <3>1, <3>2
  <2> QED
    BY <1>8, <2>1, <2>2 DEF OnDisk, SaveAnswered
<1>12. TypeOK'
  <2>1. locked' \subseteq Profile /\ ioFailed' \in BOOLEAN
    BY <1>1 DEF IInv, TypeOK
  <2> QED
    BY <1>1, <1>2, <1>10, <2>1, AnswerKeeps
<1>13. Failures' /\ Locked' /\ Custody'
  <2>1. d.command.kind = "save"
    BY <1>2 DEF Executed
  <2> QED
    BY <1>1, <1>2, <1>6, <1>7, <2>1, Fields, AnswerKeeps
<1> QED
  BY <1>1, <1>2, <1>11, <1>12, <1>13, AnswerKeeps DEF IInv

LEMMA ReleaseOkKeeps ==
    ASSUME IInv, ReleaseOk, UNCHANGED Shell
    PROVE  IInv'
<1> DEFINE c == busy[1]
           d == [command |-> busy[1], ok |-> TRUE]
<1>1. /\ locked' = locked \ {c.profile}
      /\ UNCHANGED <<stored, ioFailed>> /\ d.ok /\ d.command = c
  BY DEF ReleaseOk
<1>2. Executed(c, d) /\ c.kind = "release"
  BY AnswerIs DEF ReleaseOk
<1> HIDE DEF c, d
<1>3. /\ c \in Command /\ c \in Outstanding /\ Answers' = Answers \cup {d}
      /\ \A e \in InFlight' : e \in InFlight
      /\ \A e \in InFlight : e \in Outstanding
  BY <1>2, Way DEF Executed
<1>4. c.profile \in Profile /\ releasing.profile = c.profile
  BY <1>2, <1>3, CommandIs DEF IInv, Remembered
<1>5. SameSaves /\ SameLocks
  BY <1>2, AnswerOfAnother
<1>6. UNCHANGED <<active, replacement, rejected, replaced, releasing, loop>>
  BY DEF Shell, runtime, locks
<1>7. releasing.purpose # "none" /\ releasing # NotReleasing
  BY <1>4, ShellConstants DEF IInv, Releasing, NotReleasing
<1>8. selection = NoProfile /\ replacement = NoProfile
  BY <1>7 DEF IInv, Selecting
<1>9. \A e \in Answers : e.command.kind # "prepare"
  <2>1. \A e \in Outstanding : e.kind # "prepare"
    BY <1>8, Unasked
  <2> QED
    BY <2>1, Way
<1>10. releasing.purpose # "active" => c.profile # active
  BY <1>4, <1>7, Shapes DEF IInv, Releasing, Purpose
<1>11. releasing.purpose = "active" => \A e \in InFlight : e.kind # "save"
  <2>1. releasing.purpose = "active" => Flushed
    BY DEF IInv, Releasing
  <2> QED
    BY <1>3, <2>1, Idle
<1>12. \A e \in InFlight : e.kind = "save" => active \in locked /\ active # c.profile
  BY <1>10, <1>11 DEF IInv, Locked
<1>13. Locked'
  BY <1>1, <1>2, <1>3, <1>6, <1>8, <1>9, <1>10, <1>12 DEF IInv, Locked
<1>14. Custody'
  BY <1>1, <1>5, <1>6 DEF IInv, Custody, SameLocks
<1>15. TypeOK'
  <2>1. /\ locked' \subseteq Profile /\ ioFailed' \in BOOLEAN
        /\ stored' \in [Profile -> [Store -> 0 .. MaxContent]]
    BY <1>1 DEF IInv, TypeOK
  <2> QED
    BY <1>1, <1>2, <2>1, AnswerKeeps
<1>16. OnDisk' /\ Failures'
  BY <1>1, <1>2, <1>5, AnswerKeeps
<1> QED
  BY <1>1, <1>2, <1>13, <1>14, <1>15, <1>16, AnswerKeeps DEF IInv

-----------------------------------------------------------------------------
(* The invariant is inductive.                                             *)

LEMMA AboutToWaitKeeps ==
    ASSUME IInv, NEW w \in SUBSET Store, AboutToWait(w),
           loop.phase \notin {"starting", "exited"}
    PROVE  IInv'
BY Shapes, WaitKeeps, WaitSendsDiscovery, WaitSendsSelection DEF IInv

LEMMA EventsHandledKeeps ==
    ASSUME IInv, EventsHandled
    PROVE  IInv'
<1>1. {} \in SUBSET Store
  OBVIOUS
<1> QED
  BY <1>1, AboutToWaitKeeps DEF EventsHandled

LEMMA DeadlinePassesKeeps ==
    ASSUME IInv, DeadlinePasses
    PROVE  IInv'
<1>1. PICK s \in windows : AboutToWait({s})
  BY DEF DeadlinePasses
<1>2. {s} \in SUBSET Store
  BY DEF IInv, TypeOK
<1> QED
  BY <1>1, <1>2, AboutToWaitKeeps DEF DeadlinePasses

LEMMA WorkerKeeps ==
    ASSUME IInv, Worker
    PROVE  IInv'
<1>1. Work /\ UNCHANGED Shell
  BY DEF Worker, Shell
<1> QED
  BY <1>1, ReceiveKeeps, PrepareOkKeeps, PrepareLeaksLockKeeps, FailuresKeep, SaveOkKeeps,
     ReleaseOkKeeps DEF Work

LEMMA InitInductive == Init => IInv
<1> SUFFICES ASSUME Init PROVE IInv
  OBVIOUS
<1>1. /\ queue = <<>> /\ busy = <<>> /\ done = <<>> /\ locked = {} /\ ioFailed = FALSE
      /\ stored = [p \in Profile |-> [s \in Store |-> 0]] /\ content = stored
      /\ active = NoProfile /\ selection \in Profile
      /\ durable = [s \in Store |-> 0] /\ saving = [s \in Store |-> NotSaving]
      /\ discovery = "none" /\ unsent = FALSE
      /\ replacement = NoProfile /\ rejected = NoProfile /\ replaced = NoProfile
      /\ releasing = NotReleasing
      /\ resetting = FALSE /\ browsing = FALSE /\ shutdown = FALSE
      /\ windows = {} /\ loop = At("starting") /\ cycles = 0
  BY DEF Init, WorkerInit
<1>2. InFlight = {} /\ Answers = {} /\ Outstanding = {}
  <2>1. DOMAIN queue = {} /\ DOMAIN busy = {} /\ DOMAIN done = {}
    BY <1>1
  <2> QED
    BY <2>1, Way DEF InFlight, Answers
<1>3. TypeOK
  <2>1. /\ queue \in Seq(Command) /\ Len(queue) <= QueueCapacity
        /\ busy \in Seq(Command) /\ Len(busy) <= 1 /\ done \in Seq(Completion)
    BY <1>1 DEF QueueCapacity
  <2>2. /\ stored \in [Profile -> [Store -> 0 .. MaxContent]]
        /\ content \in [Profile -> [Store -> 0 .. MaxContent]]
        /\ durable \in [Store -> 0 .. MaxContent] /\ saving \in [Store -> 0 .. NotSaving]
    BY <1>1, WorkerConstants DEF NotSaving
  <2>3. loop \in LoopType
    BY <1>1, PlaceTypes
  <2>4. releasing \in [profile : Profile \cup {NoProfile}, purpose : Purpose]
    BY <1>1 DEF NotReleasing, Purpose
  <2>5. cycles \in 0 .. MaxCycles
    BY <1>1, ShellConstants DEF ShellConstants
  <2> QED
    BY <1>1, <2>1, <2>2, <2>3, <2>4, <2>5 DEF TypeOK
<1>4. Distinct
  <2>1. DOMAIN queue = {} /\ DOMAIN busy = {} /\ DOMAIN done = {}
    BY <1>1
  <2> QED
    BY <2>1 DEF Distinct, DistinctIn
<1>5. Remembered /\ Failures /\ Custody
  BY <1>1, <1>2 DEF Remembered, Failures, Custody
<1>6. loop.phase = "starting"
  BY <1>1 DEF At
<1>7. \A s \in Store : ~Pending(s)
  BY <1>1 DEF Pending
<1>8. selection # NoProfile /\ active # selection
  BY <1>1, ShellConstants DEF ShellConstants
<1>9. Underway /\ Selecting
  BY <1>1, <1>2, <1>6, <1>7, <1>8 DEF Underway, Selecting, NotReleasing
<1>10. Releasing /\ Browsing
  BY <1>1 DEF Releasing, Browsing, NotReleasing
<1>11. OnDisk /\ Locked
  BY <1>1, <1>2 DEF OnDisk, NoLostMutation, Locked
<1>12. Exited /\ Waking /\ NoLostWakeup
  BY <1>6 DEF Exited, Waking, NoLostWakeup
<1> QED
  BY <1>3, <1>4, <1>5, <1>9, <1>10, <1>11, <1>12 DEF IInv

LEMMA NextInductive == IInv /\ [Next]_vars => IInv'
<1>1. ASSUME IInv, UNCHANGED vars PROVE IInv'
  <2>1. UNCHANGED <<queue, busy, done, locked, stored, ioFailed, active, selection, content,
               durable, saving, replacement, rejected, replaced, releasing, discovery,
               unsent, resetting, browsing, shutdown, windows, loop, cycles>>
    BY <1>1 DEF vars, worker, runtime, locks, session
  <2>2. /\ InFlight' = InFlight /\ Answers' = Answers /\ Outstanding' = Outstanding
        /\ Distinct'
    BY <1>1, <2>1, Keeps DEF IInv
  <2>3. TypeOK'
    BY <1>1, <2>1 DEF IInv, TypeOK
  <2>4. Remembered' /\ Underway' /\ Selecting' /\ Releasing' /\ Browsing'
    BY <1>1, <2>1, <2>2 DEF IInv, Remembered, Underway, Pending, Selecting, Releasing,
         Flushed, Dirty, Browsing
  <2>5. OnDisk' /\ Failures' /\ Locked' /\ Custody'
    BY <1>1, <2>1, <2>2 DEF IInv, OnDisk, NoLostMutation, SaveAnswered, Failures, Locked,
         Custody
  <2>6. Exited' /\ Waking' /\ NoLostWakeup'
    BY <1>1, <2>1, <2>2 DEF IInv, Exited, Waking, NoLostWakeup, Dirty, Pending
  <2> QED
    BY <2>2, <2>3, <2>4, <2>5, <2>6 DEF IInv
<1>2. ASSUME IInv, UserActs \/ BrowsingEnds \/ ResetEnds PROVE IInv'
  BY <1>2, KeyboardCommandKeeps, ProfileCycleKeeps, StopRequestedKeeps, FinishBrowsingKeeps,
     SessionResetKeeps DEF UserActs, BrowsingEnds, ResetEnds
<1>3. ASSUME IInv, Drive PROVE IInv'
  BY <1>3, PollCleanKeeps, PollPendingKeeps, PollEarlyKeeps, PollDueKeeps DEF Drive
<1>4. ASSUME IInv, Settle PROVE IInv'
  BY <1>4, RestKeeps, ReleaseReplacedKeeps, ReleaseRejectedKeeps, ReleaseActiveKeeps,
     ExitWithoutProfileKeeps, ReplaceProfileKeeps, ReplacementRejectedKeeps,
     ReplacementFailsKeeps DEF Settle
<1>5. ASSUME IInv, HandleCompletion PROVE IInv'
  BY <1>5, PreparedTooLateKeeps, PreparedInitialKeeps, PreparedInitialFailsKeeps,
     PreparedWhileBrowsingKeeps, PreparedWhileDirtyKeeps, PreparedReplacesKeeps,
     PreparedRejectedKeeps, PreparedReplacesAndFailsKeeps, NotPreparedKeeps, SavedKeeps,
     NotSavedKeeps, DiscoveredTooLateKeeps, DiscoveredNextKeeps, DiscoveredAloneKeeps,
     NotDiscoveredKeeps, ReplacedReleasedKeeps, ReplacedNotReleasedKeeps,
     RejectedReleaseEndsKeeps, ActiveReleaseEndsKeeps DEF HandleCompletion
<1> QED
  BY <1>1, <1>2, <1>3, <1>4, <1>5, WorkerKeeps, ResumedKeeps, EventsHandledKeeps,
     DeadlinePassesKeeps DEF Next

-----------------------------------------------------------------------------
(* The theorems.                                                           *)

\* What ties the shell to its worker holds always.
THEOREM Invariance == Spec => []IInv
BY InitInductive, NextInductive, PTL DEF Spec

\* The lock that is released is the active profile's only at the end of a
\* shutdown, when no save is on its way.
LEMMA ReleasedActive ==
    ASSUME IInv, active # NoProfile, releasing.profile = active
    PROVE  /\ releasing.purpose = "active" /\ shutdown /\ Flushed
           /\ replaced = NoProfile /\ rejected = NoProfile
           /\ selection = NoProfile /\ replacement = NoProfile
<1>1. releasing.purpose = "active"
  BY Shapes DEF IInv, Releasing, Purpose
<1>2. shutdown /\ Flushed /\ replaced = NoProfile /\ rejected = NoProfile
  BY <1>1 DEF IInv, Releasing
<1>3. releasing # NotReleasing
  BY <1>1 DEF NotReleasing
<1>4. selection = NoProfile
  BY <1>3 DEF IInv, Selecting
<1>5. replacement = NoProfile
  BY <1>4, Shapes DEF IInv, Selecting
<1> QED
  BY <1>1, <1>2, <1>4, <1>5

\* A lock's places exclude each other.
LEMMA OneCustodian ==
    ASSUME IInv, ~ioFailed, NEW p \in locked
    PROVE  Cardinality(Custodians(p)) = 1
<1>1. p \in Profile /\ p # NoProfile
  BY Shapes DEF IInv
<1>2. PrepareDone(p) \in Answers =>
         selection = p /\ replacement = NoProfile
  BY Way, Fields DEF IInv, Remembered
<1>3. replacement = p => selection = p
  BY <1>1 DEF IInv, Selecting
<1>4. selection = p => active # p /\ replaced = NoProfile /\ rejected = NoProfile
                       /\ releasing = NotReleasing
  BY <1>1 DEF IInv, Selecting
<1>5. /\ rejected = p => replaced = NoProfile /\ active # p
      /\ replaced = p => active # p
      /\ releasing.purpose = "rejected" =>
            replaced = NoProfile /\ rejected = NoProfile /\ releasing.profile # active
  BY <1>1 DEF IInv, Releasing
<1>6. releasing = NotReleasing => releasing.purpose # "rejected"
  BY DEF NotReleasing
<1>7. \/ active = p \/ replacement = p \/ rejected = p \/ replaced = p
      \/ releasing.purpose = "rejected" /\ releasing.profile = p
      \/ PrepareDone(p) \in Answers
  BY DEF IInv, Custody
<1>8. PICK r : Custodians(p) = {r}
  <2> DEFINE A == active = p
             B == replacement = p
             C == rejected = p
             D == replaced = p
             E == releasing.purpose = "rejected" /\ releasing.profile = p
             F == PrepareDone(p) \in Answers
  <2>1. /\ A \/ B \/ C \/ D \/ E \/ F
        /\ A => ~B /\ ~C /\ ~D /\ ~E /\ ~F
        /\ B => ~C /\ ~D /\ ~E /\ ~F
        /\ C => ~D /\ ~E /\ ~F
        /\ D => ~E /\ ~F
        /\ E => ~F
    BY <1>1, <1>2, <1>3, <1>4, <1>5, <1>6, <1>7
  <2>2. \A r : r \in Custodians(p) <=>
           \/ (r = "active" /\ A) \/ (r = "replacement" /\ B)
           \/ (r = "rejected" /\ C) \/ (r = "replaced" /\ D)
           \/ (r = "releasing" /\ E) \/ (r = "prepared" /\ F)
    BY DEF Custodians, PrepareDone
  <2> HIDE DEF A, B, C, D, E, F
  <2>3. A => Custodians(p) = {"active"}
    BY <2>1, <2>2
  <2>4. B => Custodians(p) = {"replacement"}
    BY <2>1, <2>2
  <2>5. C => Custodians(p) = {"rejected"}
    BY <2>1, <2>2
  <2>6. D => Custodians(p) = {"replaced"}
    BY <2>1, <2>2
  <2>7. E => Custodians(p) = {"releasing"}
    BY <2>1, <2>2
  <2>8. F => Custodians(p) = {"prepared"}
    BY <2>1, <2>2
  <2> QED
    BY <2>1, <2>3, <2>4, <2>5, <2>6, <2>7, <2>8
<1> QED
  BY <1>8, FS_Singleton

\* Every lock has one place from which it is released, and none is given back
\* under a save.
THEOREM LocksInCustody == Spec => []LockCustody
<1>1. IInv => LockCustody
  <2> SUFFICES ASSUME IInv PROVE LockCustody
    OBVIOUS
  <2>1. ioFailed \/ \A p \in locked : Cardinality(Custodians(p)) = 1
    BY OneCustodian
  <2>2. ASSUME NEW c \in InFlight, c.kind = "save"
        PROVE  c.profile \in locked /\ c.profile = active /\ releasing.profile # c.profile
    <3>1. c \in Outstanding /\ c \in Command
      BY OnTheWay DEF IInv, TypeOK
    <3>2. c.profile = active /\ active \in locked
      BY <2>2, <3>1 DEF IInv, Remembered, Locked
    <3>3. active # NoProfile
      BY <2>2, <3>1, <3>2, CommandIs, ShellConstants DEF ShellConstants
    <3>4. releasing.profile # active
      BY <2>2, <3>1, <3>3, ReleasedActive, Idle
    <3> QED
      BY <3>2, <3>4
  <2> QED
    BY <2>1, <2>2 DEF LockCustody, IInv
<1> QED
  BY <1>1, Invariance, PTL

\* A completion finds the work it answers still pending.
THEOREM CompletionsInTime == Spec => []NoStaleCompletion
<1>1. IInv => NoStaleCompletion
  <2> SUFFICES ASSUME IInv, NEW d \in Answers
               PROVE  LET c == d.command IN
                      CASE c.kind = "prepare" -> /\ selection = c.profile
                                                 /\ ~unsent
                                                 /\ replacement = NoProfile
                                                 /\ rejected = NoProfile
                                                 /\ replaced = NoProfile
                        [] c.kind = "save" -> active = c.profile /\ saving[c.store] = c.content
                        [] c.kind = "release" -> releasing.profile = c.profile
                        [] c.kind = "discover" -> discovery = "sent"
    BY DEF NoStaleCompletion
  <2> DEFINE c == d.command
  <2>1. c \in Outstanding /\ c \in Command
    BY OnTheWay DEF IInv, TypeOK
  <2> HIDE DEF c
  <2>2. CASE c.kind = "prepare"
    <3>1. selection = c.profile /\ ~unsent /\ replacement = NoProfile
      BY <2>1, <2>2 DEF IInv, Remembered
    <3>2. c.profile \in Profile
      BY <2>1, <2>2, CommandIs
    <3>3. rejected = NoProfile /\ replaced = NoProfile
      BY <3>1, <3>2, ShellConstants DEF IInv, Selecting, ShellConstants
    <3> QED
      BY <2>2, <3>1, <3>3 DEF c
  <2>3. CASE c.kind = "save"
    BY <2>1, <2>3 DEF IInv, Remembered, c
  <2>4. CASE c.kind = "release"
    BY <2>1, <2>4 DEF IInv, Remembered, c
  <2>5. CASE c.kind = "discover"
    BY <2>1, <2>5 DEF IInv, Remembered, c
  <2> QED
    BY <2>1, <2>2, <2>3, <2>4, <2>5, CommandIs
<1> QED
  BY <1>1, Invariance, PTL

\* Replacing a profile loses none of its mutations.
THEOREM MutationsKept == Spec => []NoLostMutation
<1>1. IInv => NoLostMutation
  BY DEF IInv, OnDisk
<1> QED
  BY <1>1, Invariance, PTL

\* A loop that waits with something left to do is going to be woken.
THEOREM WakeupsKept == Spec => []NoLostWakeup
<1>1. IInv => NoLostWakeup
  BY DEF IInv
<1> QED
  BY <1>1, Invariance, PTL

LEMMA LocksGivenBack ==
    ASSUME IInv, Next
    PROVE  \/ locked \subseteq locked'
           \/ ReleaseOk
<1>1. ASSUME Worker
      PROVE  locked \subseteq locked' \/ ReleaseOk
  BY <1>1 DEF Worker, Work, Receive, PrepareOk, PrepareFails, PrepareLeaksLock, SaveOk,
       SaveFails, DiscoverEnds, ReleaseFails
<1>2. ASSUME Resumed \/ UserActs \/ BrowsingEnds \/ ResetEnds \/ Drive
      PROVE  locked' = locked
  BY <1>2 DEF Resumed, UserActs, BrowsingEnds, ResetEnds, Drive, KeyboardCommand,
       ProfileCycle, StopRequested, FinishBrowsing, SessionReset, PollClean, PollPending,
       PollEarly, PollDue, worker
<1>3. ASSUME Settle
      PROVE  locked' = locked
  BY <1>3 DEF Settle, Rest, ReleaseReplaced, ReleaseRejected, ReleaseActive,
       ExitWithoutProfile, ReplaceProfile, ReplacementRejected, ReplacementFails, worker
<1>4. ASSUME EventsHandled \/ DeadlinePasses
      PROVE  locked' = locked
  BY <1>4 DEF EventsHandled, DeadlinePasses, AboutToWait
<1>5. ASSUME HandleCompletion
      PROVE  locked' = locked
  <2>1. \A k, ok : Completes(k, ok) => locked' = locked
    BY DEF Completes
  <2> QED
    BY <1>5, <2>1 DEF HandleCompletion, PreparedTooLate, PreparedInitial,
         PreparedInitialFails, PreparedWhileBrowsing, PreparedQuietly, PreparedWhileDirty,
         PreparedReplaces, PreparedRejected, PreparedReplacesAndFails, NotPrepared, Saved,
         NotSaved, DiscoveredTooLate, DiscoveredNext, DiscoveredAlone, NotDiscovered,
         ReleaseCompletes, ReplacedReleased, ReplacedNotReleased, RejectedReleaseEnds,
         ActiveReleaseEnds
<1> QED
  BY <1>1, <1>2, <1>3, <1>4, <1>5 DEF Next

\* Unless an I/O operation fails, everything is saved and released at exit, and
\* the active profile's lock is the last one given back.
THEOREM ShutdownInOrder == Spec => ShutdownIsOrderly
<1>1. IInv /\ IInv' /\ [Next]_vars =>
        [ /\ loop'.phase = "exited" /\ ~ioFailed' => locked' = {} /\ stored' = content'
          /\ active \in locked /\ active \notin locked' =>
                ioFailed \/ (locked' = {} /\ shutdown) ]_vars
  <2> SUFFICES ASSUME IInv, IInv', Next
               PROVE  /\ loop'.phase = "exited" /\ ~ioFailed' =>
                            locked' = {} /\ stored' = content'
                      /\ active \in locked /\ active \notin locked' =>
                            ioFailed \/ (locked' = {} /\ shutdown)
    OBVIOUS
  <2>1. loop'.phase = "exited" /\ ~ioFailed' => locked' = {} /\ stored' = content'
    BY DEF IInv, Exited
  <2>2. ASSUME active \in locked, active \notin locked', ~ioFailed
        PROVE  locked' = {} /\ shutdown
    <3>1. ReleaseOk
      BY <2>2, LocksGivenBack
    <3>2. busy[1].profile = active /\ locked' = locked \ {active}
      BY <2>2, <3>1 DEF ReleaseOk
    <3>3. active # NoProfile
      BY <2>2, Shapes DEF IInv
    <3>4. busy[1] \in Outstanding /\ busy[1].kind = "release"
      <4>1. Executed(busy[1], [command |-> busy[1], ok |-> TRUE]) /\ busy[1].kind = "release"
        BY <3>1, AnswerIs DEF ReleaseOk
      <4> QED
        BY <4>1 DEF Executed
    <3>5. releasing.profile = active
      BY <3>2, <3>4 DEF IInv, Remembered
    <3>6. /\ releasing.purpose = "active" /\ shutdown
          /\ replaced = NoProfile /\ rejected = NoProfile
          /\ selection = NoProfile /\ replacement = NoProfile
      BY <3>3, <3>5, ReleasedActive
    <3>7. \A p : PrepareDone(p) \notin Answers
      BY <3>6, Unasked, Way, Fields
    <3>8. \A p \in locked : p # NoProfile
      BY Shapes DEF IInv
    <3>9. \A p \in locked : p = active
      BY <2>2, <3>6, <3>7, <3>8 DEF IInv, Custody
    <3> QED
      BY <3>2, <3>6, <3>9
  <2> QED
    BY <2>1, <2>2
<1> QED
  BY <1>1, Invariance, PTL DEF Spec, ShutdownIsOrderly
=============================================================================
