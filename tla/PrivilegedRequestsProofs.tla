---------------------- MODULE PrivilegedRequestsProofs ----------------------
(***************************************************************************)
(* What the engine's host and the tracker of privileged requests keep      *)
(* true, for every set of tabs and sites, every limit and every number of  *)
(* hosts and trackers: the authority of the views and the host's are one   *)
(* to one (NothingLeaks), it is that of the document shown                 *)
(* (AuthorityFollowsDocument), a capability still held is for the document *)
(* shown (CapabilitiesAreCurrent), a request is taken once (AnsweredOnce)  *)
(* and the tracker's counters are what it retains (AccountsAreExact).      *)
(*                                                                         *)
(* Every action of a tab is of one of four kinds: it releases what the     *)
(* view had (Releases), begins a navigation (Begins), commits one          *)
(* (Commits) or leaves views and host alone (Rests).  Each kind is shown   *)
(* to preserve the inductive invariant, and each action to be of a kind.   *)
(* The accounts are an invariant of their own, relative to that one: the   *)
(* totals are written as sums that any term can be taken out of            *)
(* (SumWithout), which is shown by induction over finite sets.             *)
(***************************************************************************)
EXTENDS PrivilegedRequests, Integers, FiniteSetTheorems, TLAPS

Shape == [instance : 1..MaxHosts, contexts : SUBSET [id : Ticket, site : Site],
          nextContext : Nat \ {0},
          capabilities : SUBSET [id : Nat \ {0}, context : Ticket],
          nextCapability : Nat \ {0}]
View == [open : BOOLEAN, pending : {None} \cup Ticket, capability : Nat,
         loading : {None} \cup Ticket, committed : {None} \cup Ticket,
         internal : BOOLEAN, document : Document]
Network == [built : BOOLEAN, active : SUBSET Ticket,
            ready : SUBSET (Ticket \X Result), wire : [Ticket -> Place]]

Typed == host \in Shape /\ views \in [Tab -> View] /\ network \in Network

\* Numbers are used in order, each once.
Numbered ==
    /\ \A x \in host.contexts : x.id < host.nextContext
    /\ \A x, y \in host.contexts : x.id = y.id => x = y
    /\ \A x \in host.capabilities : x.id < host.nextCapability
    /\ \A x, y \in host.capabilities : x.id = y.id => x = y

\* A view by itself.
Single ==
    \A t \in Tab :
        /\ ~views[t].open => views[t].pending = None /\ views[t].committed = None
        /\ views[t].loading = views[t].pending
        /\ views[t].pending # None => views[t].pending # views[t].committed

\* No context is of two views.
Apart ==
    \A t, u \in Tab :
        t # u =>
            /\ views[t].pending # None =>
                  views[t].pending \notin {views[u].pending, views[u].committed}
            /\ views[t].committed # None => views[t].committed # views[u].committed

\* Every reference is to something live.
Backed ==
    \A t \in Tab :
        views[t].pending # None =>
            /\ views[t].pending \in network.active
            /\ [id |-> views[t].capability, context |-> views[t].pending]
                  \in host.capabilities
            /\ \E x \in host.contexts : x.id = views[t].pending

\* Everything live is referred to.
Owned ==
    /\ \A c \in network.active : \E t \in Tab : views[t].pending = c
    /\ \A e \in network.ready : e[1] \in network.active
    /\ \A x \in host.contexts :
          \E t \in Tab : x.id \in {views[t].pending, views[t].committed}
    /\ \A x \in host.capabilities : \E c \in host.contexts : x.context = c.id

\* Nothing is under way in a transport that was not built.
Unbuilt == ~network.built => network.active = {}

EInv ==
    /\ Typed
    /\ Unbuilt
    /\ Numbered
    /\ Single
    /\ Apart
    /\ Backed
    /\ Owned
    /\ AuthorityFollowsDocument

-----------------------------------------------------------------------------
LEMMA NoneIsNoTicket == None \notin Ticket /\ Ticket \subseteq Nat
  BY TransportConstants DEF TransportConstants, None, Ticket

LEMMA Documents == "local" \notin Site /\ "internal" \notin Site
  BY HostConstants DEF HostConstants

LEMMA EInvLeaks == ASSUME EInv PROVE NothingLeaks
  <1> USE NoneIsNoTicket DEF EInv
  <1>1. \A t \in Tab : views[t].pending \in {None} \cup Ticket
                       /\ views[t].committed \in {None} \cup Ticket
    BY DEF Typed, View
  <1>2. network.active \subseteq Ticket /\ host.contexts \subseteq [id : Ticket, site : Site]
    BY DEF Typed, Network, Shape
  <1>3. \A t \in Tab :
          /\ views[t].loading = views[t].pending
          /\ views[t].pending # None =>
                [id |-> views[t].capability, context |-> views[t].pending]
                    \in host.capabilities
    BY DEF Single, Backed
  <1>4. network.active = {views[t].pending : t \in Tab} \ {None}
    <2>1. \A c \in network.active : c # None /\ \E t \in Tab : views[t].pending = c
      BY <1>2 DEF Owned
    <2>2. \A t \in Tab : views[t].pending # None => views[t].pending \in network.active
      BY DEF Backed
    <2>. QED BY ONLY <2>1, <2>2
  <1>5. {x.id : x \in host.contexts} =
           (UNION {{views[t].pending, views[t].committed} : t \in Tab}) \ {None}
    <2>1. ASSUME NEW c \in {x.id : x \in host.contexts}
          PROVE c \in (UNION {{views[t].pending, views[t].committed} : t \in Tab}) \ {None}
      <3>1. PICK x \in host.contexts : c = x.id
        BY <2>1
      <3>2. PICK t \in Tab : x.id \in {views[t].pending, views[t].committed}
        BY DEF Owned
      <3>3. x.id # None
        BY <1>2
      <3>. QED BY <3>1, <3>2, <3>3
    <2>2. ASSUME NEW t \in Tab, NEW c \in {views[t].pending, views[t].committed},
                 c # None
          PROVE c \in {x.id : x \in host.contexts}
      <3>1. CASE c = views[t].pending
        BY <2>2, <3>1 DEF Backed
      <3>2. CASE c = views[t].committed
        <4>1. [id |-> c, site |-> views[t].document] \in host.contexts
          BY <2>2, <3>2 DEF AuthorityFollowsDocument
        <4>. QED BY <4>1
      <3>. QED BY <2>2, <3>1, <3>2
    <2>3. ASSUME NEW c \in (UNION {{views[t].pending, views[t].committed} : t \in Tab}) \ {None}
          PROVE c \in {x.id : x \in host.contexts}
      <3>1. c # None /\ \E t \in Tab : c \in {views[t].pending, views[t].committed}
        BY ONLY <2>3
      <3>. QED BY ONLY <2>2, <3>1
    <2>. QED BY ONLY <2>1, <2>3
  <1>6. \A t, u \in Tab :
          {views[t].pending, views[t].committed} \cap
          {views[u].pending, views[u].committed} \subseteq {None} \/ t = u
    BY <1>1 DEF Apart
  <1>. QED BY <1>3, <1>4, <1>5, <1>6 DEF NothingLeaks, Owned

-----------------------------------------------------------------------------
(* The four kinds of step.                                                 *)

SameView(v, w) ==
    v.open = w.open /\ v.committed = w.committed /\ v.document = w.document
    /\ v.internal = w.internal

\* A view without a document of the network, by itself.
Plain(w) ==
    /\ w.pending = None /\ w.committed = None /\ w.loading = None
    /\ w.document \notin Site
    /\ w.internal <=> w.document = "internal"

Grown ==
    /\ host'.instance = host.instance
    /\ host'.nextContext >= host.nextContext
    /\ host'.nextCapability >= host.nextCapability

\* What is live after the contexts of C are given up.
GivesUp(C) ==
    /\ host'.contexts = {x \in host.contexts : x.id \notin C}
    /\ host'.capabilities = {x \in host.capabilities : x.context \notin C}

Settled ==
    /\ \A e \in network'.ready : e[1] \in network'.active
    /\ Unbuilt'

Releases(t) ==
    /\ Typed' /\ Grown /\ Settled
    /\ network'.active = network.active \ {views[t].pending}
    /\ \E w \in View, C \in {{views[t].pending},
                             {views[t].pending, views[t].committed}} :
          /\ views' = [views EXCEPT ![t] = w]
          /\ w.pending = None /\ w.loading = None
          /\ GivesUp(C)
          /\ \/ Plain(w) /\ C = {views[t].pending, views[t].committed}
             \/ SameView(w, views[t]) /\ C = {views[t].pending}

Begins(t) ==
    /\ Typed' /\ Grown /\ Settled
    /\ \E w \in View, site \in Site :
          LET id == host.nextContext
              k == host.nextCapability
          IN /\ views[t].open
             /\ views' = [views EXCEPT ![t] = w]
             /\ SameView(w, views[t])
             /\ w.pending = id /\ w.loading = id /\ w.capability = k
             /\ id \in Ticket
             /\ network'.active = (network.active \ {views[t].pending}) \cup {id}
             /\ host'.nextContext = id + 1 /\ host'.nextCapability = k + 1
             /\ host'.contexts =
                   {x \in host.contexts : x.id # views[t].pending}
                       \cup {[id |-> id, site |-> site]}
             /\ host'.capabilities =
                   {x \in host.capabilities : x.context # views[t].pending}
                       \cup {[id |-> k, context |-> id]}

Commits(t) ==
    /\ Typed' /\ Grown /\ Settled
    /\ views[t].pending # None
    /\ network'.active = network.active \ {views[t].pending}
    /\ host'.contexts = {x \in host.contexts : x.id # views[t].committed}
    /\ host'.capabilities =
          {x \in host.capabilities : x.id # views[t].capability
                                     /\ x.context # views[t].committed}
    /\ \E w \in View :
          /\ views' = [views EXCEPT ![t] = w]
          /\ w.open /\ ~w.internal
          /\ w.pending = None /\ w.loading = None
          /\ w.committed = views[t].pending
          /\ w.document = SiteOf(views[t].pending)

Rests ==
    /\ Typed' /\ Settled
    /\ UNCHANGED <<host, views>>
    /\ network'.active = network.active

-----------------------------------------------------------------------------
LEMMA ReleasesPreserves ==
    ASSUME EInv, NEW t \in Tab, Releases(t) PROVE EInv'
  <1> USE NoneIsNoTicket
  <1> DEFINE v == views[t]
  <1>1. PICK w \in View, C \in {{v.pending}, {v.pending, v.committed}} :
          /\ views' = [views EXCEPT ![t] = w]
          /\ w.pending = None /\ w.loading = None
          /\ GivesUp(C)
          /\ \/ Plain(w) /\ C = {v.pending, v.committed}
             \/ SameView(w, v) /\ C = {v.pending}
    BY DEF Releases
  <1>2. Typed /\ Typed' /\ Grown /\ Settled
    BY DEF Releases, EInv
  <1>3. /\ views'[t] = w
        /\ \A u \in Tab : u # t => views'[u] = views[u]
    BY <1>1, <1>2 DEF Typed
  <1>4. /\ host'.contexts = {x \in host.contexts : x.id \notin C}
        /\ host'.capabilities = {x \in host.capabilities : x.context \notin C}
    BY <1>1 DEF GivesUp
  <1>5. network'.active = network.active \ {v.pending}
    BY DEF Releases
  <1>6. /\ \A u \in Tab : views[u] \in View /\ views'[u] \in View
        /\ host \in Shape /\ host' \in Shape
        /\ host.contexts \subseteq [id : Ticket, site : Site]
        /\ host.capabilities \subseteq [id : Nat \ {0}, context : Ticket]
        /\ network.active \subseteq Ticket
    BY <1>2 DEF Typed, Shape, Network
  <1>7. Numbered'
    <2>1. host.nextContext \in Nat /\ host'.nextContext \in Nat
          /\ host.nextCapability \in Nat /\ host'.nextCapability \in Nat
          /\ (\A x \in host.contexts : x.id \in Nat)
          /\ (\A x \in host.capabilities : x.id \in Nat)
      BY <1>6 DEF Shape
    <2>. QED BY <1>2, <1>4, <2>1 DEF Numbered, Grown, EInv
  <1>8. Single'
    BY <1>1, <1>3 DEF Single, EInv, Plain, SameView
  <1>9. w.committed \in {None, v.committed}
    BY <1>1 DEF Plain, SameView
  <1>10. Apart'
    BY <1>1, <1>3, <1>9 DEF Apart, EInv
  <1>11. \A u \in Tab :
            u # t => /\ views[u].pending # None => views[u].pending \notin C
                     /\ views[u].committed # None => views[u].committed \notin C
    BY <1>1 DEF Apart, EInv
  <1>12. Backed'
    <2> SUFFICES ASSUME NEW u \in Tab, views'[u].pending # None
                 PROVE /\ views'[u].pending \in network'.active
                       /\ [id |-> views'[u].capability, context |-> views'[u].pending]
                             \in host'.capabilities
                       /\ \E x \in host'.contexts : x.id = views'[u].pending
      BY DEF Backed
    <2>1. u # t /\ views'[u] = views[u]
      BY <1>1, <1>3
    <2>2. views[u].pending \notin C /\ views[u].pending # v.pending
      BY <1>11, <2>1 DEF Apart, EInv
    <2>3. /\ views[u].pending \in network.active
          /\ [id |-> views[u].capability, context |-> views[u].pending] \in host.capabilities
          /\ \E x \in host.contexts : x.id = views[u].pending
      BY <2>1 DEF Backed, EInv
    <2>. QED BY <1>4, <1>5, <2>1, <2>2, <2>3
  <1>13. Owned'
    <2>1. ASSUME NEW c \in network'.active PROVE \E u \in Tab : views'[u].pending = c
      BY <1>3, <1>5 DEF Owned, EInv
    <2>2. ASSUME NEW x \in host'.contexts
          PROVE \E u \in Tab : x.id \in {views'[u].pending, views'[u].committed}
      <3>1. x \in host.contexts /\ x.id \notin C /\ x.id # None
        BY <1>4, <1>6
      <3>2. PICK u \in Tab : x.id \in {views[u].pending, views[u].committed}
        BY <3>1 DEF Owned, EInv
      <3>3. CASE u # t
        BY <1>3, <3>2, <3>3
      <3>4. CASE u = t
        BY <1>1, <1>3, <3>1, <3>2, <3>4 DEF SameView
      <3>. QED BY <3>3, <3>4
    <2>3. ASSUME NEW x \in host'.capabilities
          PROVE \E c \in host'.contexts : x.context = c.id
      <3>1. x \in host.capabilities /\ x.context \notin C
        BY <1>4
      <3>2. PICK c \in host.contexts : x.context = c.id
        BY <3>1 DEF Owned, EInv
      <3>. QED BY <1>4, <3>1, <3>2
    <2>. QED BY <1>2, <2>1, <2>2, <2>3 DEF Owned, Settled
  <1>14. AuthorityFollowsDocument'
    <2> SUFFICES ASSUME NEW u \in Tab
                 PROVE /\ views'[u].internal <=> views'[u].document = "internal"
                       /\ views'[u].committed # None <=> views'[u].document \in Site
                       /\ views'[u].committed # None =>
                             [id |-> views'[u].committed, site |-> views'[u].document]
                                 \in host'.contexts
      BY DEF AuthorityFollowsDocument
    <2>1. CASE u # t
      <3>1. views'[u] = views[u] /\ (views[u].committed # None => views[u].committed \notin C)
        <4>1. u # t
          BY <2>1
        <4>. QED BY <1>3, <1>11, <4>1
      <3>2. /\ views[u].internal <=> views[u].document = "internal"
            /\ views[u].committed # None <=> views[u].document \in Site
            /\ views[u].committed # None =>
                  [id |-> views[u].committed, site |-> views[u].document] \in host.contexts
        BY DEF AuthorityFollowsDocument, EInv
      <3>. QED BY <1>4, <3>1, <3>2
    <2>2. CASE u = t /\ Plain(w)
      BY <1>3, <2>2 DEF Plain
    <2>3. CASE u = t /\ ~Plain(w)
      <3>1. SameView(w, v) /\ C = {v.pending}
        BY <1>1, <2>3
      <3>2. v.committed # None => v.committed \notin C
        BY <3>1 DEF Single, EInv
      <3>. QED BY <1>3, <1>4, <2>3, <3>1, <3>2 DEF SameView, AuthorityFollowsDocument, EInv
    <2>. QED BY <2>1, <2>2, <2>3
  <1>. QED BY <1>2, <1>7, <1>8, <1>10, <1>12, <1>13, <1>14 DEF EInv, Settled

LEMMA BeginsPreserves ==
    ASSUME EInv, NEW t \in Tab, Begins(t) PROVE EInv'
  <1> USE NoneIsNoTicket
  <1> DEFINE v == views[t]
             id == host.nextContext
             k == host.nextCapability
  <1>1. PICK w \in View, site \in Site :
          /\ v.open
          /\ views' = [views EXCEPT ![t] = w]
          /\ SameView(w, v)
          /\ w.pending = id /\ w.loading = id /\ w.capability = k
          /\ id \in Ticket
          /\ network'.active = (network.active \ {v.pending}) \cup {id}
          /\ host'.nextContext = id + 1 /\ host'.nextCapability = k + 1
          /\ host'.contexts = {x \in host.contexts : x.id # v.pending}
                                 \cup {[id |-> id, site |-> site]}
          /\ host'.capabilities = {x \in host.capabilities : x.context # v.pending}
                                     \cup {[id |-> k, context |-> id]}
    BY DEF Begins
  <1>2. Typed /\ Typed' /\ Grown /\ Settled
    BY DEF Begins, EInv
  <1>3. /\ views'[t] = w
        /\ \A u \in Tab : u # t => views'[u] = views[u]
    BY <1>1, <1>2 DEF Typed
  <1>4. /\ \A u \in Tab : views[u] \in View /\ views'[u] \in View
        /\ host.contexts \subseteq [id : Ticket, site : Site]
        /\ host.capabilities \subseteq [id : Nat \ {0}, context : Ticket]
        /\ network.active \subseteq Ticket
        /\ id \in Nat \ {0} /\ k \in Nat \ {0}
    BY <1>2 DEF Typed, Shape, Network
  <1>5. /\ \A x \in host.contexts : x.id < id
        /\ \A x \in host.capabilities : x.id < k
    BY DEF Numbered, EInv
  <1>6. Numbered'
    <2>1. (\A x \in host.contexts : x.id \in Nat)
          /\ (\A x \in host.capabilities : x.id \in Nat)
      BY <1>4
    <2>2. \A x \in host'.contexts :
            x = [id |-> id, site |-> site] \/ x \in host.contexts
      BY <1>1
    <2>3. \A x \in host'.capabilities :
            x = [id |-> k, context |-> id] \/ x \in host.capabilities
      BY <1>1
    <2>4. /\ \A x \in host'.contexts : x.id < host'.nextContext
          /\ \A x \in host'.capabilities : x.id < host'.nextCapability
      BY <1>1, <1>4, <1>5, <2>1, <2>2, <2>3
    <2>5. \A x, y \in host'.contexts : x.id = y.id => x = y
      BY <1>4, <1>5, <2>1, <2>2 DEF Numbered, EInv
    <2>6. \A x, y \in host'.capabilities : x.id = y.id => x = y
      BY <1>4, <1>5, <2>1, <2>3 DEF Numbered, EInv
    <2>. QED BY <2>4, <2>5, <2>6 DEF Numbered
  <1>7. \A u \in Tab : views[u].pending # id /\ views[u].committed # id
    <2> SUFFICES ASSUME NEW u \in Tab
                 PROVE views[u].pending # id /\ views[u].committed # id
      OBVIOUS
    <2>. \A x \in host.contexts : x.id # id
      <3> SUFFICES ASSUME NEW x \in host.contexts PROVE x.id # id
        OBVIOUS
      <3>1. x.id \in Nat /\ x.id < id
        BY <1>4, <1>5
      <3>. QED BY <1>4, <3>1
    <2>1. CASE views[u].pending = id
      <3>1. views[u].pending # None
        BY <1>4, <2>1 DEF None
      <3>2. PICK x \in host.contexts : x.id = id
        BY <2>1, <3>1 DEF Backed, EInv
      <3>. QED BY <3>2
    <2>2. CASE views[u].committed = id
      <3>1. views[u].committed # None
        BY <1>4, <2>2 DEF None
      <3>2. [id |-> id, site |-> views[u].document] \in host.contexts
        BY <2>2, <3>1 DEF AuthorityFollowsDocument, EInv
      <3>. QED BY <3>2
    <2>. QED BY <2>1, <2>2
  <1>8. Single'
    <2> SUFFICES ASSUME NEW u \in Tab
                 PROVE /\ ~views'[u].open =>
                             views'[u].pending = None /\ views'[u].committed = None
                       /\ views'[u].loading = views'[u].pending
                       /\ views'[u].pending # None =>
                             views'[u].pending # views'[u].committed
      BY DEF Single
    <2>1. CASE u = t
      <3>1. w.open /\ w.committed = v.committed
        BY <1>1 DEF SameView
      <3>. QED BY <1>1, <1>3, <1>7, <2>1, <3>1
    <2>2. CASE u # t
      BY <1>3, <2>2 DEF Single, EInv
    <2>. QED BY <2>1, <2>2
  <1>9. Apart'
    <2>1. w.committed = v.committed /\ w.pending = id
      BY <1>1 DEF SameView
    <2>2. \A u \in Tab :
            /\ views'[u].committed = views[u].committed
            /\ views'[u].pending = IF u = t THEN id ELSE views[u].pending
      BY <1>3, <2>1
    <2> SUFFICES ASSUME NEW p \in Tab, NEW q \in Tab, p # q
                 PROVE /\ views'[p].pending # None =>
                             views'[p].pending \notin {views'[q].pending, views'[q].committed}
                       /\ views'[p].committed # None =>
                             views'[p].committed # views'[q].committed
      BY DEF Apart
    <2>3. /\ views[p].pending # None =>
                views[p].pending \notin {views[q].pending, views[q].committed}
          /\ views[p].committed # None => views[p].committed # views[q].committed
      BY DEF Apart, EInv
    <2>. QED BY <1>7, <2>2, <2>3
  <1>10. Backed'
    <2> SUFFICES ASSUME NEW u \in Tab, views'[u].pending # None
                 PROVE /\ views'[u].pending \in network'.active
                       /\ [id |-> views'[u].capability, context |-> views'[u].pending]
                             \in host'.capabilities
                       /\ \E x \in host'.contexts : x.id = views'[u].pending
      BY DEF Backed
    <2>1. CASE u = t
      <3>1. [id |-> id, site |-> site] \in host'.contexts
        BY <1>1
      <3>. QED BY <1>1, <1>3, <2>1, <3>1
    <2>2. CASE u # t
      <3>1. views'[u] = views[u] /\ views[u].pending # v.pending
        BY <1>3, <2>2 DEF Apart, EInv
      <3>2. /\ views[u].pending \in network.active
            /\ [id |-> views[u].capability, context |-> views[u].pending] \in host.capabilities
            /\ \E x \in host.contexts : x.id = views[u].pending
        BY <3>1 DEF Backed, EInv
      <3>. QED BY <1>1, <3>1, <3>2
    <2>. QED BY <2>1, <2>2
  <1>11. Owned'
    <2>1. ASSUME NEW c \in network'.active PROVE \E u \in Tab : views'[u].pending = c
      BY <1>1, <1>3 DEF Owned, EInv
    <2>2. ASSUME NEW x \in host'.contexts
          PROVE \E u \in Tab : x.id \in {views'[u].pending, views'[u].committed}
      <3>1. CASE x = [id |-> id, site |-> site]
        BY <1>1, <1>3, <3>1
      <3>2. CASE x \in host.contexts /\ x.id # v.pending
        <4>1. PICK u \in Tab : x.id \in {views[u].pending, views[u].committed}
          BY <3>2 DEF Owned, EInv
        <4>. QED BY <1>1, <1>3, <3>2, <4>1 DEF SameView
      <3>. QED BY <1>1, <3>1, <3>2
    <2>3. ASSUME NEW x \in host'.capabilities
          PROVE \E c \in host'.contexts : x.context = c.id
      <3>1. CASE x = [id |-> k, context |-> id]
        <4>1. [id |-> id, site |-> site] \in host'.contexts
          BY <1>1
        <4>. QED BY <3>1, <4>1
      <3>2. CASE x \in host.capabilities /\ x.context # v.pending
        <4>1. PICK c \in host.contexts : x.context = c.id
          BY <3>2 DEF Owned, EInv
        <4>. QED BY <1>1, <3>2, <4>1
      <3>. QED BY <1>1, <3>1, <3>2
    <2>. QED BY <1>2, <2>1, <2>2, <2>3 DEF Owned, Settled
  <1>12. AuthorityFollowsDocument'
    <2> SUFFICES ASSUME NEW u \in Tab
                 PROVE /\ views'[u].internal <=> views'[u].document = "internal"
                       /\ views'[u].committed # None <=> views'[u].document \in Site
                       /\ views'[u].committed # None =>
                             [id |-> views'[u].committed, site |-> views'[u].document]
                                 \in host'.contexts
      BY DEF AuthorityFollowsDocument
    <2>1. /\ views'[u].internal = views[u].internal
          /\ views'[u].committed = views[u].committed
          /\ views'[u].document = views[u].document
      BY <1>1, <1>3 DEF SameView
    <2>2. views[u].committed # None => views[u].committed # v.pending
      BY DEF Apart, Single, EInv
    <2>. QED BY <1>1, <2>1, <2>2 DEF AuthorityFollowsDocument, EInv
  <1>. QED BY <1>2, <1>6, <1>8, <1>9, <1>10, <1>11, <1>12 DEF EInv, Settled

LEMMA CommitsPreserves ==
    ASSUME EInv, NEW t \in Tab, Commits(t) PROVE EInv'
  <1> USE NoneIsNoTicket
  <1> DEFINE v == views[t]
  <1>1. PICK w \in View :
          /\ views' = [views EXCEPT ![t] = w]
          /\ w.open /\ ~w.internal
          /\ w.pending = None /\ w.loading = None
          /\ w.committed = v.pending
          /\ w.document = SiteOf(v.pending)
    BY DEF Commits
  <1>2. Typed /\ Typed' /\ Grown /\ Settled
    BY DEF Commits, EInv
  <1>3. /\ views'[t] = w
        /\ \A u \in Tab : u # t => views'[u] = views[u]
    BY <1>1, <1>2 DEF Typed
  <1>4. /\ v.pending # None
        /\ network'.active = network.active \ {v.pending}
        /\ host'.contexts = {x \in host.contexts : x.id # v.committed}
        /\ host'.capabilities =
              {x \in host.capabilities : x.id # v.capability /\ x.context # v.committed}
    BY DEF Commits
  <1>5. /\ \A u \in Tab : views[u] \in View /\ views'[u] \in View
        /\ host.contexts \subseteq [id : Ticket, site : Site]
        /\ host.capabilities \subseteq [id : Nat \ {0}, context : Ticket]
        /\ network.active \subseteq Ticket
    BY <1>2 DEF Typed, Shape, Network
  <1>6. v.pending # v.committed
    BY <1>4 DEF Single, EInv
  <1>7. PICK c \in host.contexts : c.id = v.pending /\ SiteOf(v.pending) = c.site
    <2>1. PICK c \in host.contexts : c.id = v.pending
      BY <1>4 DEF Backed, EInv
    <2>2. \A x \in host.contexts : x.id = v.pending => x = c
      BY <2>1 DEF Numbered, EInv
    <2>3. (CHOOSE x \in host.contexts : x.id = v.pending) = c
      BY <2>1, <2>2
    <2>. QED BY <2>1, <2>3 DEF SiteOf
  <1>8. w.document \in Site /\ w.document # "internal"
    BY <1>1, <1>5, <1>7, Documents
  <1>9. \A p, q \in Tab : p # q =>
          /\ views[p].pending # None =>
                views[p].pending \notin {views[q].pending, views[q].committed}
          /\ views[p].committed # None => views[p].committed # views[q].committed
    BY DEF Apart, EInv
  <1>10. [id |-> v.capability, context |-> v.pending] \in host.capabilities
    BY <1>4 DEF Backed, EInv
  <1>11. Numbered'
    <2>1. host.nextContext \in Nat /\ host'.nextContext \in Nat
          /\ host.nextCapability \in Nat /\ host'.nextCapability \in Nat
          /\ (\A x \in host.contexts : x.id \in Nat)
          /\ (\A x \in host.capabilities : x.id \in Nat)
      BY <1>2, <1>5 DEF Typed, Shape
    <2>. QED BY <1>2, <1>4, <2>1 DEF Numbered, Grown, EInv
  <1>12. Single'
    BY <1>1, <1>3 DEF Single, EInv
  <1>13. Apart'
    <2>1. \A u \in Tab :
            /\ views'[u].pending = IF u = t THEN None ELSE views[u].pending
            /\ views'[u].committed = IF u = t THEN v.pending ELSE views[u].committed
      BY <1>1, <1>3
    <2> SUFFICES ASSUME NEW p \in Tab, NEW q \in Tab, p # q
                 PROVE /\ views'[p].pending # None =>
                             views'[p].pending \notin {views'[q].pending, views'[q].committed}
                       /\ views'[p].committed # None =>
                             views'[p].committed # views'[q].committed
      BY DEF Apart
    <2>. QED BY <1>4, <1>9, <2>1
  <1>14. Backed'
    <2> SUFFICES ASSUME NEW u \in Tab, views'[u].pending # None
                 PROVE /\ views'[u].pending \in network'.active
                       /\ [id |-> views'[u].capability, context |-> views'[u].pending]
                             \in host'.capabilities
                       /\ \E x \in host'.contexts : x.id = views'[u].pending
      BY DEF Backed
    <2>1. u # t /\ views'[u] = views[u]
      BY <1>1, <1>3
    <2>2. views[u].pending # v.pending /\ views[u].pending # v.committed
      BY <1>9, <2>1
    <2>3. /\ views[u].pending \in network.active
          /\ [id |-> views[u].capability, context |-> views[u].pending] \in host.capabilities
          /\ \E x \in host.contexts : x.id = views[u].pending
      BY <2>1 DEF Backed, EInv
    <2>4. views[u].capability # v.capability
      <3>1. ASSUME views[u].capability = v.capability PROVE FALSE
        <4>1. [id |-> views[u].capability, context |-> views[u].pending]
                 = [id |-> v.capability, context |-> v.pending]
          BY <1>10, <2>3, <3>1 DEF Numbered, EInv
        <4>. QED BY <2>2, <4>1
      <3>. QED BY <3>1
    <2>. QED BY <1>4, <2>1, <2>2, <2>3, <2>4
  <1>15. Owned'
    <2>1. ASSUME NEW x \in network'.active PROVE \E u \in Tab : views'[u].pending = x
      BY <1>3, <1>4 DEF Owned, EInv
    <2>2. ASSUME NEW x \in host'.contexts
          PROVE \E u \in Tab : x.id \in {views'[u].pending, views'[u].committed}
      <3>1. x \in host.contexts /\ x.id # v.committed
        BY <1>4
      <3>2. PICK u \in Tab : x.id \in {views[u].pending, views[u].committed}
        BY <3>1 DEF Owned, EInv
      <3>. QED BY <1>1, <1>3, <3>1, <3>2
    <2>3. ASSUME NEW x \in host'.capabilities
          PROVE \E y \in host'.contexts : x.context = y.id
      <3>1. x \in host.capabilities /\ x.context # v.committed
        BY <1>4
      <3>2. PICK y \in host.contexts : x.context = y.id
        BY <3>1 DEF Owned, EInv
      <3>. QED BY <1>4, <3>1, <3>2
    <2>. QED BY <1>2, <2>1, <2>2, <2>3 DEF Owned, Settled
  <1>16. AuthorityFollowsDocument'
    <2> SUFFICES ASSUME NEW u \in Tab
                 PROVE /\ views'[u].internal <=> views'[u].document = "internal"
                       /\ views'[u].committed # None <=> views'[u].document \in Site
                       /\ views'[u].committed # None =>
                             [id |-> views'[u].committed, site |-> views'[u].document]
                                 \in host'.contexts
      BY DEF AuthorityFollowsDocument
    <2>1. CASE u = t
      <3>1. c = [id |-> v.pending, site |-> w.document]
        BY <1>1, <1>5, <1>7
      <3>2. c \in host'.contexts
        BY <1>4, <1>6, <1>7
      <3>. QED BY <1>1, <1>3, <1>4, <1>8, <2>1, <3>1, <3>2
    <2>2. CASE u # t
      <3>1. views'[u] = views[u]
        BY <1>3, <2>2
      <3>2. views[u].committed # None => views[u].committed # v.committed
        BY <1>9, <2>2
      <3>3. /\ views[u].internal <=> views[u].document = "internal"
            /\ views[u].committed # None <=> views[u].document \in Site
            /\ views[u].committed # None =>
                  [id |-> views[u].committed, site |-> views[u].document] \in host.contexts
        BY DEF AuthorityFollowsDocument, EInv
      <3>. QED BY <1>4, <3>1, <3>2, <3>3
    <2>. QED BY <2>1, <2>2
  <1>. QED BY <1>2, <1>11, <1>12, <1>13, <1>14, <1>15, <1>16 DEF EInv, Settled

LEMMA RestsPreserves == ASSUME EInv, Rests PROVE EInv'
  <1> USE DEF Rests
  <1>1. Typed' /\ Numbered' /\ Single' /\ Apart'
    BY DEF EInv, Numbered, Single, Apart
  <1>2. Backed'
    BY DEF EInv, Backed
  <1>3. Owned'
    BY DEF EInv, Owned, Settled
  <1>4. AuthorityFollowsDocument'
    BY DEF EInv, AuthorityFollowsDocument
  <1>. QED BY <1>1, <1>2, <1>3, <1>4 DEF EInv, Settled

-----------------------------------------------------------------------------
(* The helpers of the host and of the transport.                           *)

LEMMA ClosedIs ==
    ASSUME NEW h \in Shape, NEW c
    PROVE /\ Closed(h, c) \in Shape
          /\ Closed(h, c).instance = h.instance
          /\ Closed(h, c).nextContext = h.nextContext
          /\ Closed(h, c).nextCapability = h.nextCapability
          /\ Closed(h, c).contexts = {x \in h.contexts : x.id # c}
          /\ Closed(h, c).capabilities = {x \in h.capabilities : x.context # c}
  BY DEF Closed, Shape

LEMMA RevokedIs ==
    ASSUME NEW h \in Shape, NEW k
    PROVE /\ Revoked(h, k) \in Shape
          /\ Revoked(h, k).instance = h.instance
          /\ Revoked(h, k).nextContext = h.nextContext
          /\ Revoked(h, k).nextCapability = h.nextCapability
          /\ Revoked(h, k).contexts = h.contexts
          /\ Revoked(h, k).capabilities = {x \in h.capabilities : x.id # k}
  BY DEF Revoked, Shape

LEMMA OpenedIs ==
    ASSUME NEW h \in Shape, NEW site \in Site, h.nextContext \in Ticket
    PROVE /\ Opened(h, site) \in Shape
          /\ Opened(h, site).instance = h.instance
          /\ Opened(h, site).nextContext = h.nextContext + 1
          /\ Opened(h, site).nextCapability = h.nextCapability
          /\ Opened(h, site).contexts =
                h.contexts \cup {[id |-> h.nextContext, site |-> site]}
          /\ Opened(h, site).capabilities = h.capabilities
  <1>1. h.nextContext + 1 \in Nat \ {0}
    BY DEF Shape
  <1>2. h.contexts \cup {[id |-> h.nextContext, site |-> site]}
           \in SUBSET [id : Ticket, site : Site]
    BY DEF Shape
  <1>. QED BY <1>1, <1>2 DEF Opened, Shape

LEMMA GrantedIs ==
    ASSUME NEW h \in Shape, NEW c \in Ticket
    PROVE /\ Granted(h, c) \in Shape
          /\ Granted(h, c).instance = h.instance
          /\ Granted(h, c).nextContext = h.nextContext
          /\ Granted(h, c).nextCapability = h.nextCapability + 1
          /\ Granted(h, c).contexts = h.contexts
          /\ Granted(h, c).capabilities =
                h.capabilities \cup {[id |-> h.nextCapability, context |-> c]}
  <1>1. h.nextCapability \in Nat \ {0} /\ h.nextCapability + 1 \in Nat \ {0}
    BY DEF Shape
  <1>2. h.capabilities \cup {[id |-> h.nextCapability, context |-> c]}
           \in SUBSET [id : Nat \ {0}, context : Ticket]
    BY <1>1 DEF Shape
  <1>. QED BY <1>1, <1>2 DEF Granted, Shape

\* The network's own values.
Sound(n) ==
    /\ n \in Network
    /\ \A e \in n.ready : e[1] \in n.active
    /\ ~n.built => n.active = {}

LEMMA Places ==
    /\ {Idle, Queued, Running} \subseteq Place
    /\ \A r \in Result : <<"finished", r>> \in Place /\ <<"sent", r>> \in Place
  BY DEF Place

LEMMA ForgottenIs ==
    ASSUME NEW n, Sound(n), NEW c
    PROVE /\ Sound(Forgotten(n, c))
          /\ Forgotten(n, c).active = n.active \ {c}
          /\ Forgotten(n, c).built = n.built
  <1>1. /\ Forgotten(n, c).active = n.active \ {c}
        /\ Forgotten(n, c).ready = n.ready \ ({c} \X Result)
        /\ Forgotten(n, c).built = n.built
        /\ Forgotten(n, c) \in Network
    BY DEF Forgotten, Sound, Network
  <1>2. ASSUME NEW e \in n.ready \ ({c} \X Result) PROVE e[1] \in n.active \ {c}
    <2>1. e \in Ticket \X Result /\ e[1] \in n.active
      BY <1>2 DEF Sound, Network
    <2>2. e[1] # c
      BY <1>2, <2>1
    <2>. QED BY <2>1, <2>2
  <1>. QED BY <1>1, <1>2 DEF Sound

LEMMA DrainedIs ==
    ASSUME NEW n, Sound(n)
    PROVE /\ Sound(Drained(n))
          /\ Drained(n).active = n.active
          /\ Drained(n).built = n.built
  <1> DEFINE arrived == {<<t, n.wire[t][2]>> : t \in Sent(n) \cap n.active}
             wire == [t \in Ticket |-> IF t \in Sent(n) THEN Idle ELSE n.wire[t]]
  <1>1. n \in Network
    BY DEF Sound
  <1>2. arrived \subseteq Ticket \X Result /\ \A e \in arrived : e[1] \in n.active
    <2> SUFFICES ASSUME NEW t \in Sent(n) \cap n.active
                 PROVE <<t, n.wire[t][2]>> \in Ticket \X Result
      OBVIOUS
    <2>1. t \in Ticket /\ n.wire[t] \in {"sent"} \X Result
      BY DEF Sent
    <2>. QED BY <2>1
  <1>3. wire \in [Ticket -> Place]
    BY <1>1, Places DEF Network
  <1>4. Drained(n) = [n EXCEPT !.ready = n.ready \cup arrived, !.wire = wire]
    BY <1>1 DEF Drained, Network
  <1> HIDE DEF arrived, wire
  <1>5. /\ Drained(n) \in Network
        /\ Drained(n).ready = n.ready \cup arrived
        /\ Drained(n).active = n.active
        /\ Drained(n).built = n.built
    BY <1>1, <1>2, <1>3, <1>4 DEF Network
  <1>. QED BY <1>2, <1>5 DEF Sound

LEMMA StartedIs ==
    ASSUME NEW n, Sound(n), n.built, NEW t \in Ticket
    PROVE /\ Sound(Started(n, t))
          /\ Started(n, t).active = n.active \cup {t}
  BY Places DEF Started, Sound, Network

LEMMA NewIs ==
    /\ Sound(NewTransport) /\ NewTransport.active = {} /\ NewTransport.built
    /\ Sound(NoTransport) /\ NoTransport.active = {}
  BY Places DEF NewTransport, NoTransport, Sound, Network

-----------------------------------------------------------------------------
(* Each action is of a kind.                                               *)

LEMMA EngineTyped == EInv => Sound(network) /\ host \in Shape
  BY DEF EInv, Typed, Owned, Unbuilt, Sound

\* The kinds ask for these of every step.
LEMMA KindTyped ==
    ASSUME host' \in Shape, views \in [Tab -> View], NEW t \in Tab, NEW w \in View,
           views' = [views EXCEPT ![t] = w], Sound(network)'
    PROVE Typed' /\ Settled
  BY DEF Typed, Settled, Sound, Unbuilt

LEMMA ViewsTyped ==
    ASSUME EInv, NEW t \in Tab
    PROVE /\ views \in [Tab -> View] /\ views[t] \in View
          /\ NoView \in View /\ NewView \in View /\ StartPage \in View
          /\ NewView.open /\ Plain(NoView) /\ Plain(NewView) /\ Plain(StartPage)
          /\ Still(views[t]) \in View
          /\ Still(views[t]).pending = None /\ Still(views[t]).loading = None
          /\ SameView(Still(views[t]), views[t])
  <1>1. views \in [Tab -> View] /\ views[t] \in View
    BY DEF EInv, Typed
  <1>2. /\ NoView \in View /\ NewView \in View /\ StartPage \in View
        /\ NewView.open /\ Plain(NoView) /\ Plain(NewView) /\ Plain(StartPage)
    BY Documents DEF NoView, NewView, StartPage, View, Plain, Document, None
  <1>3. /\ Still(views[t]) \in View
        /\ Still(views[t]).pending = None /\ Still(views[t]).loading = None
        /\ SameView(Still(views[t]), views[t])
    BY <1>1 DEF Still, View, SameView, None
  <1>. QED BY <1>1, <1>2, <1>3

\* What is given back, in terms of what is live.
LEMMA WithoutPendingIs ==
    ASSUME EInv, NEW t \in Tab
    PROVE LET h == WithoutPending(host, views[t]) IN
          /\ h \in Shape
          /\ h.instance = host.instance
          /\ h.nextContext = host.nextContext
          /\ h.nextCapability = host.nextCapability
          /\ h.contexts = {x \in host.contexts : x.id # views[t].pending}
          /\ h.capabilities = {x \in host.capabilities : x.context # views[t].pending}
  BY EngineTyped, ClosedIs DEF WithoutPending

LEMMA WithoutBothIs ==
    ASSUME EInv, NEW t \in Tab
    PROVE LET h == WithoutBoth(host, views[t])
              C == {views[t].pending, views[t].committed} IN
          /\ h \in Shape
          /\ h.instance = host.instance
          /\ h.nextContext = host.nextContext
          /\ h.nextCapability = host.nextCapability
          /\ h.contexts = {x \in host.contexts : x.id \notin C}
          /\ h.capabilities = {x \in host.capabilities : x.context \notin C}
  <1> DEFINE a == WithoutPending(host, views[t])
             c == views[t].committed
  <1>1. /\ a \in Shape
        /\ a.instance = host.instance
        /\ a.nextContext = host.nextContext
        /\ a.nextCapability = host.nextCapability
        /\ a.contexts = {x \in host.contexts : x.id # views[t].pending}
        /\ a.capabilities = {x \in host.capabilities : x.context # views[t].pending}
    BY WithoutPendingIs
  <1>2. WithoutBoth(host, views[t]) = Closed(a, c)
    BY DEF WithoutBoth
  <1> HIDE DEF a
  <1>3. /\ Closed(a, c) \in Shape
        /\ Closed(a, c).instance = a.instance
        /\ Closed(a, c).nextContext = a.nextContext
        /\ Closed(a, c).nextCapability = a.nextCapability
        /\ Closed(a, c).contexts = {x \in a.contexts : x.id # c}
        /\ Closed(a, c).capabilities = {x \in a.capabilities : x.context # c}
    BY <1>1, ClosedIs
  <1>. QED BY <1>1, <1>2, <1>3

\* A view that gives back all it had and shows a plain document.
LEMMA ReleaseAll ==
    ASSUME EInv, NEW t \in Tab, NEW w \in View, Plain(w),
           views' = [views EXCEPT ![t] = w],
           host' = WithoutBoth(host, views[t]),
           network' = Forgotten(network, views[t].pending)
    PROVE Releases(t)
  <1>1. /\ Sound(network)'
        /\ network'.active = network.active \ {views[t].pending}
    BY EngineTyped, ForgottenIs DEF Sound
  <1>2. host' \in Shape /\ Grown /\ GivesUp({views[t].pending, views[t].committed})
    <2>1. host.nextContext \in Nat /\ host.nextCapability \in Nat
      BY EngineTyped DEF Shape
    <2>. QED BY <2>1, WithoutBothIs DEF Grown, GivesUp
  <1>3. Typed' /\ Settled
    BY <1>1, <1>2, KindTyped, ViewsTyped
  <1>. QED BY <1>1, <1>2, <1>3 DEF Releases, Plain

\* A view that gives its navigation up.
LEMMA ReleasePending ==
    ASSUME EInv, NEW t \in Tab,
           views' = [views EXCEPT ![t] = Still(views[t])],
           host' \in Shape, Grown, GivesUp({views[t].pending}),
           Sound(network)', network'.active = network.active \ {views[t].pending}
    PROVE Releases(t)
  <1>1. Typed' /\ Settled
    BY KindTyped, ViewsTyped
  <1>. QED BY <1>1, ViewsTyped DEF Releases

LEMMA CreateViewIs == ASSUME EInv, NEW t \in Tab, CreateView(t) PROVE Releases(t)
  <1> DEFINE C == {views[t].pending, views[t].committed}
  <1>1. /\ views' = [views EXCEPT ![t] = NewView]
        /\ host' = host /\ network' = network
        /\ views[t].pending = None /\ views[t].committed = None
    BY DEF CreateView, EInv, Single
  <1>2. host' \in Shape /\ Grown /\ GivesUp(C)
    <2>1. /\ host.nextContext \in Nat /\ host.nextCapability \in Nat
          /\ host.contexts \subseteq [id : Ticket, site : Site]
          /\ host.capabilities \subseteq [id : Nat \ {0}, context : Ticket]
      BY EngineTyped DEF Shape
    <2>2. /\ host.contexts = {x \in host.contexts : x.id \notin C}
          /\ host.capabilities = {x \in host.capabilities : x.context \notin C}
      BY <1>1, <2>1, NoneIsNoTicket
    <2>. QED BY <1>1, <2>1, <2>2, EngineTyped DEF Grown, GivesUp
  <1>3. /\ Sound(network)'
        /\ network'.active = network.active \ {views[t].pending}
    <2>1. network.active \subseteq Ticket
      BY EngineTyped DEF Sound, Network
    <2>. QED BY <1>1, <2>1, EngineTyped, NoneIsNoTicket DEF Sound
  <1>4. Typed' /\ Settled
    BY <1>1, <1>2, <1>3, KindTyped, ViewsTyped
  <1>. QED BY <1>1, <1>2, <1>3, <1>4, ViewsTyped DEF Releases, Plain

LEMMA CloseViewIs == ASSUME EInv, NEW t \in Tab, CloseView(t) PROVE Releases(t)
  BY ReleaseAll, ViewsTyped DEF CloseView

LEMMA LoadDocumentIs == ASSUME EInv, NEW t \in Tab, LoadDocument(t) PROVE Releases(t)
  BY ReleaseAll, ViewsTyped DEF LoadDocument

LEMMA DropIs ==
    ASSUME EInv, NEW t \in Tab, DropNavigation(t),
           Sound(network)', network'.active = network.active \ {views[t].pending}
    PROVE Releases(t)
  <1>1. host' \in Shape /\ Grown /\ GivesUp({views[t].pending})
    <2>1. host.nextContext \in Nat /\ host.nextCapability \in Nat
      BY EngineTyped DEF Shape
    <2>2. host' = WithoutPending(host, views[t])
      BY DEF DropNavigation
    <2>. QED BY <2>1, <2>2, WithoutPendingIs DEF Grown, GivesUp
  <1>2. views' = [views EXCEPT ![t] = Still(views[t])]
    BY DEF DropNavigation
  <1>. QED BY <1>1, <1>2, ReleasePending

LEMMA CancelNavigationIs ==
    ASSUME EInv, NEW t \in Tab, CancelNavigation(t) PROVE Releases(t)
  <1>1. /\ Sound(network)'
        /\ network'.active = network.active \ {views[t].pending}
    BY EngineTyped, ForgottenIs DEF CancelNavigation, Sound
  <1>. QED BY <1>1, DropIs DEF CancelNavigation

LEMMA CommitIs ==
    ASSUME EInv, NEW t \in Tab, CommitDocument(t), views[t].pending # None,
           Sound(network)', network'.active = network.active \ {views[t].pending}
    PROVE Commits(t)
  <1> DEFINE v == views[t]
             r == Revoked(host, v.capability)
             w == [NewView EXCEPT !.committed = v.pending, !.document = SiteOf(v.pending)]
  <1>1. /\ host' = Closed(r, v.committed)
        /\ views' = [views EXCEPT ![t] = w]
    BY DEF CommitDocument
  <1>2. /\ r \in Shape
        /\ r.instance = host.instance
        /\ r.nextContext = host.nextContext
        /\ r.nextCapability = host.nextCapability
        /\ r.contexts = host.contexts
        /\ r.capabilities = {x \in host.capabilities : x.id # v.capability}
    BY EngineTyped, RevokedIs
  <1> HIDE DEF r
  <1>3. /\ host' \in Shape
        /\ host'.instance = host.instance
        /\ host'.nextContext = host.nextContext
        /\ host'.nextCapability = host.nextCapability
        /\ host'.contexts = {x \in host.contexts : x.id # v.committed}
        /\ host'.capabilities =
              {x \in host.capabilities : x.id # v.capability /\ x.context # v.committed}
    BY <1>1, <1>2, ClosedIs
  <1>4. Grown
    <2>1. host.nextContext \in Nat /\ host.nextCapability \in Nat
      BY EngineTyped DEF Shape
    <2>. QED BY <1>3, <2>1 DEF Grown
  <1>5. v.pending \in Ticket /\ SiteOf(v.pending) \in Site
    <2>1. PICK c \in host.contexts : c.id = v.pending
      BY DEF EInv, Backed
    <2>2. \A x \in host.contexts : x.id = v.pending => x = c
      BY <2>1 DEF Numbered, EInv
    <2>3. (CHOOSE x \in host.contexts : x.id = v.pending) = c
      BY <2>1, <2>2
    <2>4. c \in [id : Ticket, site : Site]
      BY EngineTyped DEF Shape
    <2>. QED BY <2>1, <2>3, <2>4 DEF SiteOf
  <1>6. /\ w \in View /\ w.open /\ ~w.internal
        /\ w.pending = None /\ w.loading = None
        /\ w.committed = v.pending
        /\ w.document = SiteOf(v.pending)
    BY <1>5 DEF NewView, NoView, View, Document, None
  <1> HIDE DEF w
  <1>7. Typed' /\ Settled
    BY <1>1, <1>3, <1>6, KindTyped, ViewsTyped
  <1>. QED BY <1>1, <1>3, <1>4, <1>6, <1>7 DEF Commits

LEMMA PollNavigationIs ==
    ASSUME EInv, NEW t \in Tab, PollNavigation(t)
    PROVE Releases(t) \/ Commits(t) \/ Rests
  <1> DEFINE net == Drained(network)
             results == ReadyResults(net, views[t].pending)
  <1>1. Sound(net) /\ net.active = network.active
    BY EngineTyped, DrainedIs
  <1>2. /\ views[t].pending # None
        /\ \/ network' = net /\ UNCHANGED <<host, views>>
           \/ /\ network' = Forgotten(net, views[t].pending)
              /\ CommitDocument(t) \/ DropNavigation(t)
    BY DEF PollNavigation
  <1> HIDE DEF net, results
  <1>3. CASE network' = net /\ UNCHANGED <<host, views>>
    <2>1. Typed' /\ Settled
      BY <1>1, <1>3 DEF EInv, Typed, Settled, Sound, Unbuilt
    <2>. QED BY <1>1, <1>3, <2>1 DEF Rests
  <1>4. CASE network' = Forgotten(net, views[t].pending)
    <2>1. /\ Sound(network)'
          /\ network'.active = network.active \ {views[t].pending}
      BY <1>1, <1>4, ForgottenIs DEF Sound
    <2>2. CASE CommitDocument(t)
      BY <1>2, <2>1, <2>2, CommitIs
    <2>3. CASE DropNavigation(t)
      BY <2>1, <2>3, DropIs
    <2>4. CASE network' = net /\ UNCHANGED <<host, views>>
      BY <1>3, <2>4
    <2>. QED BY <1>2, <2>2, <2>3, <2>4
  <1>. QED BY <1>2, <1>3, <1>4

LEMMA WorkerIs == ASSUME EInv, Worker PROVE Rests
  <1>1. UNCHANGED <<host, views>> /\ TransportNext
    BY DEF Worker
  <1>2. network \in Network /\ \A e \in network.ready : e[1] \in network.active
    BY EngineTyped DEF Sound
  <1>3. ASSUME NEW n, NEW t \in Ticket, NEW place \in Place,
               n = [network EXCEPT !.wire[t] = place]
        PROVE /\ n \in Network /\ n.active = network.active /\ n.ready = network.ready
              /\ n.built = network.built
    BY <1>2, <1>3 DEF Network
  <1>4. \E t \in Ticket, place \in Place : network' = [network EXCEPT !.wire[t] = place]
    <2>1. CASE TakeCommand
      BY <2>1, Places DEF TakeCommand, At
    <2>2. CASE Respond
      BY <2>2, Places DEF Respond, At
    <2>3. CASE SeeCancellation
      BY <2>3, Places DEF SeeCancellation, At
    <2>4. CASE SendCompletion
      BY <2>4, Places DEF SendCompletion
    <2>. QED BY <1>1, <2>1, <2>2, <2>3, <2>4 DEF TransportNext
  <1>5. network' \in Network /\ network'.active = network.active
        /\ network'.ready = network.ready /\ network'.built = network.built
    BY <1>3, <1>4
  <1>. QED BY <1>1, <1>2, <1>5 DEF Rests, Typed, Settled, EInv, Unbuilt

LEMMA BeginNavigationIs ==
    ASSUME EInv, NEW t \in Tab, NEW site \in Site, BeginNavigation(t, site)
    PROVE Releases(t) \/ Begins(t)
  <1> DEFINE v == views[t]
             before == WithoutPending(host, v)
             cleared == Forgotten(network, v.pending)
             id == before.nextContext
             opened == Opened(before, site)
             granted == Granted(opened, id)
             failed == Closed(granted, id)
  <1>1. /\ v.open /\ id \in Ticket
        /\ \/ /\ TransportTakes(cleared, id)
              /\ host' = granted
              /\ views' = [views EXCEPT ![t].pending = id,
                                       ![t].capability = opened.nextCapability,
                                       ![t].loading = id]
           \/ /\ \/ /\ host' \in {before, failed}
                    /\ network' = cleared
                 \/ /\ host' = failed
                    /\ TransportRefuses(cleared)
              /\ views' = [views EXCEPT ![t] = Still(v)]
    BY DEF BeginNavigation
  <1>2. /\ before \in Shape
        /\ before.instance = host.instance
        /\ before.nextContext = host.nextContext
        /\ before.nextCapability = host.nextCapability
        /\ before.contexts = {x \in host.contexts : x.id # v.pending}
        /\ before.capabilities = {x \in host.capabilities : x.context # v.pending}
    BY WithoutPendingIs
  <1>3. Sound(cleared) /\ cleared.active = network.active \ {v.pending}
        /\ cleared.built = network.built
    BY EngineTyped, ForgottenIs
  <1> HIDE DEF before, cleared
  <1>4. /\ opened \in Shape
        /\ opened.instance = before.instance
        /\ opened.nextContext = before.nextContext + 1
        /\ opened.nextCapability = before.nextCapability
        /\ opened.contexts = before.contexts \cup {[id |-> id, site |-> site]}
        /\ opened.capabilities = before.capabilities
    BY <1>1, <1>2, OpenedIs
  <1> HIDE DEF opened
  <1>5. /\ granted \in Shape
        /\ granted.instance = opened.instance
        /\ granted.nextContext = opened.nextContext
        /\ granted.nextCapability = opened.nextCapability + 1
        /\ granted.contexts = opened.contexts
        /\ granted.capabilities =
              opened.capabilities \cup {[id |-> opened.nextCapability, context |-> id]}
    BY <1>1, <1>4, GrantedIs
  <1> HIDE DEF granted
  <1>6. /\ failed \in Shape
        /\ failed.instance = granted.instance
        /\ failed.nextContext = granted.nextContext
        /\ failed.nextCapability = granted.nextCapability
        /\ failed.contexts = {x \in granted.contexts : x.id # id}
        /\ failed.capabilities = {x \in granted.capabilities : x.context # id}
    BY <1>5, ClosedIs
  <1> HIDE DEF failed
  <1>7. /\ host.nextContext \in Nat \ {0} /\ host.nextCapability \in Nat \ {0}
        /\ host.contexts \subseteq [id : Ticket, site : Site]
        /\ host.capabilities \subseteq [id : Nat \ {0}, context : Ticket]
        /\ id = host.nextContext
    BY <1>2, EngineTyped DEF Shape
  <1>8. \A n : n \in {cleared, Drained(cleared)} =>
                 Sound(n) /\ n.active = network.active \ {v.pending}
    BY <1>3, DrainedIs
  <1>9. CASE /\ TransportTakes(cleared, id)
             /\ host' = granted
             /\ views' = [views EXCEPT ![t].pending = id,
                                      ![t].capability = opened.nextCapability,
                                      ![t].loading = id]
    <2> DEFINE w == [v EXCEPT !.pending = id, !.capability = opened.nextCapability,
                              !.loading = id]
               k == host.nextCapability
    <2>1. v \in View /\ views \in [Tab -> View]
      BY ViewsTyped
    <2>2. views' = [views EXCEPT ![t] = w]
      BY <1>9, <2>1
    <2>3. /\ w \in View /\ SameView(w, v)
          /\ w.pending = id /\ w.loading = id /\ w.capability = k
      BY <1>1, <1>2, <1>4, <1>7, <2>1 DEF View, SameView
    <2> HIDE DEF w
    <2>4. /\ Sound(network)'
          /\ network'.active = (network.active \ {v.pending}) \cup {id}
      <3> DEFINE net == IF cleared.built THEN Drained(cleared) ELSE NewTransport
      <3>1. network' = Started(net, id)
        BY <1>9 DEF TransportTakes
      <3>2. Sound(net) /\ net.built /\ net.active = network.active \ {v.pending}
        <4>1. CASE cleared.built
          BY <1>3, <1>8, <4>1, DrainedIs
        <4>2. CASE ~cleared.built
          <5>1. network.active = {}
            BY <1>3, <4>2 DEF EInv, Unbuilt
          <5>. QED BY <4>2, <5>1, NewIs
        <4>. QED BY <4>1, <4>2
      <3> HIDE DEF net
      <3>. QED BY <1>1, <3>1, <3>2, StartedIs DEF Sound
    <2>5. /\ host'.nextContext = id + 1 /\ host'.nextCapability = k + 1
          /\ host'.contexts = {x \in host.contexts : x.id # v.pending}
                                 \cup {[id |-> id, site |-> site]}
          /\ host'.capabilities = {x \in host.capabilities : x.context # v.pending}
                                     \cup {[id |-> k, context |-> id]}
          /\ host' \in Shape
      BY <1>2, <1>4, <1>5, <1>9
    <2>6. Grown
      BY <1>2, <1>4, <1>5, <1>7, <1>9 DEF Grown
    <2>7. Typed' /\ Settled
      BY <2>1, <2>2, <2>3, <2>4, <2>5, KindTyped
    <2>. QED BY <1>1, <1>7, <2>2, <2>3, <2>4, <2>5, <2>6, <2>7 DEF Begins
  <1>10. CASE /\ \/ host' \in {before, failed} /\ network' = cleared
                 \/ host' = failed /\ TransportRefuses(cleared)
              /\ views' = [views EXCEPT ![t] = Still(v)]
    <2>1. /\ Sound(network)'
          /\ network'.active = network.active \ {v.pending}
      <3>1. network' \in {cleared, Drained(cleared)}
        BY <1>10 DEF TransportRefuses
      <3>. QED BY <1>8, <3>1 DEF Sound
    <2>2. host' \in {before, failed}
      BY <1>10
    <2>3. /\ failed.contexts = before.contexts
          /\ failed.capabilities = before.capabilities
      <3>1. /\ \A x \in before.contexts : x.id # id
            /\ \A x \in before.capabilities : x.context # id
        <4>1. \A x \in host.contexts : x.id # id
          <5> SUFFICES ASSUME NEW x \in host.contexts PROVE x.id # id
            OBVIOUS
          <5>1. x.id < id /\ x.id \in Nat
            BY <1>7, NoneIsNoTicket DEF EInv, Numbered
          <5>. QED BY <1>7, <5>1
        <4>2. \A x \in host.capabilities : x.context # id
          BY <4>1 DEF EInv, Owned
        <4>. QED BY <1>2, <4>1, <4>2
      <3>. QED BY <1>4, <1>5, <1>6, <3>1
    <2>4. host' \in Shape /\ Grown /\ GivesUp({v.pending})
      <3>1. GivesUp({v.pending})
        BY <1>2, <2>2, <2>3 DEF GivesUp
      <3>. QED BY <1>2, <1>4, <1>5, <1>6, <1>7, <2>2, <3>1 DEF Grown
    <2>. QED BY <1>10, <2>1, <2>4, ReleasePending
  <1>. QED BY <1>1, <1>9, <1>10

-----------------------------------------------------------------------------
(* The engine's invariant, and what a step of the engine leaves of the     *)
(* authority given before it.                                              *)

Kinds == Rests \/ \E t \in Tab : Releases(t) \/ Begins(t) \/ Commits(t)

LEMMA EngineKinds == ASSUME EInv, EngineNext PROVE ReplaceHost \/ Kinds
  <1>1. CASE ReplaceHost
    BY <1>1
  <1>2. CASE Worker
    BY <1>2, WorkerIs DEF Kinds
  <1>3. ASSUME NEW t \in Tab, CreateView(t) \/ CloseView(t) \/ LoadDocument(t)
        PROVE Kinds
    BY <1>3, CreateViewIs, CloseViewIs, LoadDocumentIs DEF Kinds
  <1>4. ASSUME NEW t \in Tab, NEW site \in Site, BeginNavigation(t, site)
        PROVE Kinds
    BY <1>4, BeginNavigationIs DEF Kinds
  <1>5. ASSUME NEW t \in Tab, PollNavigation(t) \/ CancelNavigation(t)
        PROVE Kinds
    BY <1>5, PollNavigationIs, CancelNavigationIs DEF Kinds
  <1>. QED BY <1>1, <1>2, <1>3, <1>4, <1>5 DEF EngineNext

LEMMA KindsPreserve == ASSUME EInv, Kinds PROVE EInv'
  BY RestsPreserves, ReleasesPreserves, BeginsPreserves, CommitsPreserves DEF Kinds

\* A host as it is made, with its views and its transport.
Fresh ==
    /\ \E n \in 1..MaxHosts : host = NewHost(n)
    /\ views = [t \in Tab |-> NoView]
    /\ network = NoTransport

LEMMA FreshHolds == Fresh => EInv
  <1> SUFFICES ASSUME Fresh PROVE EInv
    OBVIOUS
  <1>1. PICK n \in 1..MaxHosts : host = NewHost(n)
    BY DEF Fresh
  <1>2. /\ host \in Shape /\ host.contexts = {} /\ host.capabilities = {}
    BY <1>1 DEF NewHost, Shape
  <1>3. /\ views \in [Tab -> View]
        /\ \A t \in Tab : views[t] = NoView
    BY DEF Fresh, NoView, View, Document, None
  <1>4. Sound(network) /\ network.active = {}
    BY NewIs DEF Fresh
  <1>5. Typed /\ Numbered /\ Unbuilt
    BY <1>2, <1>3, <1>4 DEF Typed, Numbered, Unbuilt, Sound
  <1>6. Single /\ Apart /\ Backed
    BY <1>3 DEF Single, Apart, Backed, NoView
  <1>7. Owned
    BY <1>2, <1>4 DEF Owned, Sound
  <1>8. AuthorityFollowsDocument
    BY <1>3, Documents DEF AuthorityFollowsDocument, NoView
  <1>. QED BY <1>5, <1>6, <1>7, <1>8 DEF EInv

LEMMA ReplaceHostIsFresh ==
    ASSUME EInv, ReplaceHost PROVE Fresh' /\ host'.instance = host.instance + 1
  <1>1. host.instance \in 1..MaxHosts /\ MaxHosts \in Nat \ {0}
    BY HostConstants, EngineTyped DEF HostConstants, Shape
  <1>2. host.instance + 1 \in 1..MaxHosts
    BY <1>1 DEF ReplaceHost
  <1>. QED BY <1>2 DEF ReplaceHost, Fresh, NewHost

LEMMA EnginePreserves == ASSUME EInv, EngineNext PROVE EInv'
  <1>1. CASE ReplaceHost
    <2>1. Fresh'
      BY <1>1, ReplaceHostIsFresh
    <2>2. Fresh' => EInv'
      BY FreshHolds, PTL
    <2>. QED BY <2>1, <2>2
  <1>. QED BY <1>1, EngineKinds, KindsPreserve

\* A tab keeps the document it showed or loses every capability for it.
Inherits ==
    /\ host'.instance = host.instance
    /\ host'.nextCapability >= host.nextCapability
    /\ \A x \in host'.capabilities :
          x \in host.capabilities \/ x.id >= host.nextCapability
    /\ \A t \in Tab :
          \/ SameView(views[t], views'[t])
          \/ \A x \in host'.capabilities :
                x.context # None => x.context # views[t].committed

LEMMA KindsInherit == ASSUME EInv, Kinds PROVE Inherits
  <1> USE NoneIsNoTicket
  <1>1. host \in Shape /\ views \in [Tab -> View]
    BY DEF EInv, Typed
  <1>2. host.nextCapability \in Nat
    BY <1>1 DEF Shape
  <1>3. CASE Rests
    BY <1>2, <1>3 DEF Rests, Inherits, SameView
  <1>4. ASSUME NEW t \in Tab, Releases(t) PROVE Inherits
    <2>1. PICK w \in View, C \in {{views[t].pending},
                                  {views[t].pending, views[t].committed}} :
            /\ views' = [views EXCEPT ![t] = w]
            /\ GivesUp(C)
            /\ \/ C = {views[t].pending, views[t].committed}
               \/ SameView(w, views[t])
      BY <1>4 DEF Releases
    <2>2. views'[t] = w /\ \A u \in Tab : u # t => views'[u] = views[u]
      BY <1>1, <2>1
    <2>3. Grown
      BY <1>4 DEF Releases
    <2>4. \A x \in host'.capabilities : x \in host.capabilities /\ x.context \notin C
      BY <2>1 DEF GivesUp
    <2>5. \A u \in Tab : u # t => SameView(views[u], views'[u])
      BY <2>2 DEF SameView
    <2>6. \/ SameView(views[t], views'[t])
          \/ \A x \in host'.capabilities : x.context # views[t].committed
      BY <2>1, <2>2, <2>4 DEF SameView
    <2>. QED BY <2>3, <2>4, <2>5, <2>6 DEF Inherits, Grown
  <1>5. ASSUME NEW t \in Tab, Begins(t) PROVE Inherits
    <2>1. PICK w \in View :
            /\ views' = [views EXCEPT ![t] = w]
            /\ SameView(w, views[t])
            /\ host'.capabilities =
                  {x \in host.capabilities : x.context # views[t].pending}
                     \cup {[id |-> host.nextCapability, context |-> host.nextContext]}
      BY <1>5 DEF Begins
    <2>2. views'[t] = w /\ \A u \in Tab : u # t => views'[u] = views[u]
      BY <1>1, <2>1
    <2>3. Grown /\ \A x \in host'.capabilities :
                     x \in host.capabilities \/ x.id = host.nextCapability
      BY <1>5, <2>1 DEF Begins
    <2>. QED BY <1>2, <2>1, <2>2, <2>3 DEF Inherits, SameView, Grown
  <1>6. ASSUME NEW t \in Tab, Commits(t) PROVE Inherits
    <2>1. PICK w \in View : views' = [views EXCEPT ![t] = w]
      BY <1>6 DEF Commits
    <2>2. views'[t] = w /\ \A u \in Tab : u # t => views'[u] = views[u]
      BY <1>1, <2>1
    <2>3. Grown /\ \A x \in host'.capabilities :
                     x \in host.capabilities /\ x.context # views[t].committed
      BY <1>6 DEF Commits
    <2>. QED BY <2>2, <2>3 DEF Inherits, SameView, Grown
  <1>. QED BY <1>3, <1>4, <1>5, <1>6 DEF Kinds

-----------------------------------------------------------------------------
(* The requests and what was granted for them.                             *)

\* The counters are only numbers here: what they add up to is said by Accounts.
TrackerShape ==
    [instance : 1..MaxTrackers, pending : SUBSET Request, bodyBytes : Int,
     textBytes : Int, outstanding : Int, writeBytes : Int]

Holders ==
    /\ authorizations \subseteq Authorization
    /\ \A a \in authorizations :
          /\ a.source.host <= host.instance
          /\ Ours(a) => a.capability < host.nextCapability
    /\ CapabilitiesAreCurrent

\* An identity is given out once, and a request is answered or pending.
Identities ==
    /\ tracker \in TrackerShape
    /\ questions \subseteq Question
    /\ nextRequest \in Nat \ {0} /\ answered \subseteq Nat
    /\ \A r \in tracker.pending : r.id < nextRequest /\ r.id \notin answered
    /\ \A r, s \in tracker.pending : r.id = s.id => r = s
    /\ \A i \in answered : i < nextRequest

IInv == EInv /\ Holders /\ Identities

\* A capability still held by an authorization of this host.
LEMMA HeldIs ==
    ASSUME IInv, NEW a \in authorizations, Ours(a), NEW x \in host.capabilities,
           x.id = a.capability
    PROVE /\ IsCurrent(a.source)
          /\ x.context = a.source.context
          /\ x.context = views[a.source.tab].committed
          /\ x.context # None
          /\ a.source.tab \in Tab
  <1>1. /\ IsCurrent(a.source)
        /\ [id |-> a.capability, context |-> a.source.context] \in host.capabilities
    BY DEF IInv, Holders, CapabilitiesAreCurrent
  <1>2. x = [id |-> a.capability, context |-> a.source.context]
    BY <1>1 DEF IInv, EInv, Numbered
  <1>3. a.source.tab \in Tab
    BY DEF IInv, Holders, Authorization, Source
  <1>4. /\ a.source.context = views[a.source.tab].committed
        /\ views[a.source.tab].committed # None
    BY <1>1 DEF IsCurrent, HasSource, SourceOf
  <1>. QED BY <1>1, <1>2, <1>3, <1>4

LEMMA EngineKeepsHolders ==
    ASSUME IInv, EngineNext, UNCHANGED authorizations PROVE Holders'
  <1>1. /\ host.instance \in Nat /\ host.nextCapability \in Nat
        /\ \A x \in host.capabilities : x.id \in Nat
        /\ \A a \in authorizations : a.source.host \in Nat /\ a.capability \in Nat
                                     /\ a.source.tab \in Tab
    BY EngineTyped, HostConstants
       DEF IInv, Holders, Shape, Authorization, Source, HostConstants
  <1>2. CASE ReplaceHost
    <2>1. host'.instance = host.instance + 1
      BY <1>2, ReplaceHostIsFresh DEF IInv
    <2>2. \A a \in authorizations : ~Ours(a)' /\ a.source.host <= host'.instance
      BY <1>1, <2>1 DEF Ours, IInv, Holders
    <2>. QED BY <2>2 DEF IInv, Holders, CapabilitiesAreCurrent, Ours
  <1>3. CASE Kinds
    <2>1. Inherits
      BY <1>3, KindsInherit DEF IInv
    <2>2. host'.nextCapability \in Nat
      BY EnginePreserves, EngineTyped DEF IInv, EInv, Typed, Shape
    <2>3. \A a \in authorizations :
            /\ a.source.host <= host'.instance
            /\ Ours(a)' => Ours(a) /\ a.capability < host'.nextCapability
      BY <1>1, <2>1, <2>2 DEF Inherits, Ours, IInv, Holders
    <2>4. ASSUME NEW a \in authorizations, Ours(a), NEW x \in host'.capabilities,
                 x.id = a.capability
          PROVE /\ IsCurrent(a.source)'
                /\ [id |-> a.capability, context |-> a.source.context]
                       \in host'.capabilities
      <3>1. a.capability < host.nextCapability
        BY <2>4 DEF IInv, Holders
      <3>2. x \in host.capabilities
        BY <1>1, <2>1, <2>4, <3>1 DEF Inherits
      <3>3. /\ IsCurrent(a.source)
            /\ x.context = a.source.context
            /\ x.context = views[a.source.tab].committed
            /\ x.context # None
            /\ a.source.tab \in Tab
        BY <2>4, <3>2, HeldIs
      <3>4. SameView(views[a.source.tab], views'[a.source.tab])
        BY <2>1, <2>4, <3>3 DEF Inherits
      <3>5. IsCurrent(a.source)'
        BY <2>1, <3>3, <3>4 DEF IsCurrent, HasSource, SourceOf, SameView, Inherits
      <3>6. x = [id |-> a.capability, context |-> a.source.context]
        <4>1. x \in [id : Nat \ {0}, context : Ticket]
          BY <3>2, EngineTyped DEF IInv, Shape
        <4>. QED BY <2>4, <3>3, <4>1
      <3>. QED BY <2>4, <3>5, <3>6
    <2>5. CapabilitiesAreCurrent'
      BY <2>3, <2>4 DEF CapabilitiesAreCurrent
    <2>. QED BY <2>3, <2>5 DEF IInv, Holders
  <1>. QED BY <1>2, <1>3, EngineKinds DEF IInv

\* A capability for the document of a tab disturbs no other.
LEMMA GrantPreserves ==
    ASSUME EInv, NEW t \in Tab, views[t].committed # None,
           host' = Granted(host, views[t].committed), UNCHANGED <<views, network>>
    PROVE EInv'
  <1> DEFINE c == views[t].committed
             k == host.nextCapability
  <1>1. host \in Shape /\ k \in Nat /\ (\A x \in host.capabilities : x.id \in Nat)
    BY EngineTyped DEF Shape
  <1>2. c \in Ticket /\ \E x \in host.contexts : x.id = c
    <2>1. [id |-> c, site |-> views[t].document] \in host.contexts
      BY DEF EInv, AuthorityFollowsDocument
    <2>2. views[t] \in View
      BY DEF EInv, Typed
    <2>. QED BY <2>1, <2>2 DEF View
  <1>3. /\ host' \in Shape
        /\ host'.nextContext = host.nextContext
        /\ host'.nextCapability = k + 1
        /\ host'.contexts = host.contexts
        /\ host'.capabilities = host.capabilities \cup {[id |-> k, context |-> c]}
    BY <1>1, <1>2, GrantedIs
  <1>4. Typed' /\ Unbuilt' /\ Single' /\ Apart'
    BY <1>3 DEF EInv, Typed, Unbuilt, Single, Apart
  <1>5. Numbered'
    <2>1. \A x \in host'.capabilities :
            x = [id |-> k, context |-> c] \/ (x \in host.capabilities /\ x.id < k)
      BY <1>3 DEF EInv, Numbered
    <2>2. \A x \in host'.capabilities : x.id < host'.nextCapability
      BY <1>1, <1>3, <2>1
    <2>3. \A x, y \in host'.capabilities : x.id = y.id => x = y
      BY <1>1, <2>1 DEF EInv, Numbered
    <2>. QED BY <1>3, <2>2, <2>3 DEF EInv, Numbered
  <1>6. Backed'
    BY <1>3 DEF EInv, Backed
  <1>7. Owned'
    <2>1. \A x \in host'.capabilities : \E y \in host'.contexts : x.context = y.id
      BY <1>2, <1>3 DEF EInv, Owned
    <2>. QED BY <1>3, <2>1 DEF EInv, Owned
  <1>8. AuthorityFollowsDocument'
    BY <1>3 DEF EInv, AuthorityFollowsDocument
  <1>. QED BY <1>4, <1>5, <1>6, <1>7, <1>8 DEF EInv

LEMMA RevokePreserves ==
    ASSUME IInv, NEW a \in authorizations, Ours(a),
           host' = Revoked(host, a.capability), UNCHANGED <<views, network>>
    PROVE EInv'
  <1>1. host \in Shape
    BY EngineTyped DEF IInv
  <1>2. /\ host' \in Shape
        /\ host'.nextContext = host.nextContext
        /\ host'.nextCapability = host.nextCapability
        /\ host'.contexts = host.contexts
        /\ host'.capabilities = {x \in host.capabilities : x.id # a.capability}
    BY <1>1, RevokedIs
  <1>3. Typed' /\ Unbuilt' /\ Single' /\ Apart' /\ Numbered' /\ Owned'
    BY <1>2 DEF IInv, EInv, Typed, Unbuilt, Single, Apart, Numbered, Owned
  <1>4. Backed'
    <2> SUFFICES ASSUME NEW u \in Tab, views[u].pending # None
                 PROVE /\ views[u].pending \in network.active
                       /\ [id |-> views[u].capability, context |-> views[u].pending]
                             \in host'.capabilities
                       /\ \E x \in host'.contexts : x.id = views[u].pending
      BY DEF Backed
    <2> DEFINE y == [id |-> views[u].capability, context |-> views[u].pending]
    <2>1. /\ views[u].pending \in network.active
          /\ y \in host.capabilities
          /\ \E x \in host.contexts : x.id = views[u].pending
      BY DEF IInv, EInv, Backed
    <2>2. y.id # a.capability
      <3>1. ASSUME y.id = a.capability PROVE FALSE
        <4>1. /\ y.context = views[a.source.tab].committed
              /\ a.source.tab \in Tab
          BY <2>1, <3>1, HeldIs
        <4>2. views[u].pending # views[a.source.tab].committed
          BY <4>1 DEF IInv, EInv, Apart, Single
        <4>. QED BY <4>1, <4>2
      <3>. QED BY <3>1
    <2>. QED BY <1>2, <2>1, <2>2
  <1>5. AuthorityFollowsDocument'
    BY <1>2 DEF IInv, EInv, AuthorityFollowsDocument
  <1>. QED BY <1>3, <1>4, <1>5 DEF EInv

LEMMA EngineUnchanged == EInv /\ UNCHANGED engine => EInv'
  BY DEF engine, EInv, Typed, Numbered, Unbuilt, Single, Apart, Backed, Owned,
         AuthorityFollowsDocument

\* Holding less, or holding the same otherwise, changes nothing.
LEMMA HoldersKept ==
    ASSUME IInv, UNCHANGED engine, authorizations' \subseteq Authorization,
           \A b \in authorizations' : \E a \in authorizations :
               b.source = a.source /\ b.capability = a.capability
    PROVE Holders'
  <1>1. \A b \in authorizations' :
          /\ b.source.host <= host.instance
          /\ Ours(b) => b.capability < host.nextCapability
          /\ Ours(b) /\ (\E x \in host.capabilities : x.id = b.capability) =>
                /\ IsCurrent(b.source)
                /\ [id |-> b.capability, context |-> b.source.context]
                      \in host.capabilities
    BY DEF IInv, Holders, CapabilitiesAreCurrent, Ours
  <1>. QED BY <1>1 DEF Holders, CapabilitiesAreCurrent, Ours, engine, IsCurrent,
                       HasSource, SourceOf

LEMMA RevokeKeepsHolders ==
    ASSUME IInv, NEW a \in authorizations, Revoke(a) PROVE EInv' /\ Holders'
  <1>1. /\ authorizations' = authorizations \ {a}
        /\ UNCHANGED <<views, network>>
    BY DEF Revoke
  <1>2. CASE Ours(a)
    <2>1. host' = Revoked(host, a.capability)
      BY <1>2 DEF Revoke
    <2>2. EInv'
      BY <1>1, <1>2, <2>1, RevokePreserves
    <2>3. /\ host'.instance = host.instance
          /\ host'.nextCapability = host.nextCapability
          /\ host'.capabilities = {x \in host.capabilities : x.id # a.capability}
      BY <2>1, EngineTyped, RevokedIs DEF IInv
    <2>4. ASSUME NEW b \in authorizations', Ours(b),
                 NEW x \in host'.capabilities, x.id = b.capability
          PROVE /\ IsCurrent(b.source)'
                /\ [id |-> b.capability, context |-> b.source.context]
                      \in host'.capabilities
      <3>1. /\ IsCurrent(b.source)
            /\ [id |-> b.capability, context |-> b.source.context] \in host.capabilities
        BY <1>1, <2>3, <2>4 DEF IInv, Holders, CapabilitiesAreCurrent
      <3>2. IsCurrent(b.source)'
        BY <1>1, <2>3, <3>1 DEF IsCurrent, HasSource, SourceOf
      <3>. QED BY <2>3, <2>4, <3>1, <3>2
    <2>5. CapabilitiesAreCurrent'
      BY <2>3, <2>4 DEF CapabilitiesAreCurrent, Ours
    <2>6. /\ authorizations' \subseteq Authorization
          /\ \A b \in authorizations' :
                /\ b.source.host <= host'.instance
                /\ Ours(b)' => b.capability < host'.nextCapability
      BY <1>1, <2>3 DEF IInv, Holders, Ours
    <2>. QED BY <2>2, <2>5, <2>6 DEF Holders
  <1>3. CASE ~Ours(a)
    <2>1. UNCHANGED engine
      BY <1>1, <1>3 DEF Revoke, engine
    <2>. QED BY <1>1, <2>1, EngineUnchanged, HoldersKept DEF IInv, Holders
  <1>. QED BY <1>2, <1>3

LEMMA SourceTyped ==
    ASSUME IInv, NEW t \in Tab, HasSource(t) PROVE SourceOf(t) \in Source
  <1>1. host.instance \in 1..MaxHosts /\ views[t] \in View
    BY DEF IInv, EInv, Typed, Shape
  <1>2. views[t].committed \in Ticket /\ views[t].document \in Site
    BY <1>1 DEF HasSource, View, IInv, EInv, AuthorityFollowsDocument
  <1>. QED BY <1>1, <1>2 DEF SourceOf, Source

LEMMA BytesAreNumbers ==
    ASSUME NEW r \in Request PROVE BodyOf(r) \in Nat /\ TextOf(r) \in Nat
  BY DEF BodyOf, TextOf, Request

LEMMA RemovedIs ==
    ASSUME NEW tr \in TrackerShape, NEW r \in Request
    PROVE /\ Removed(tr, r) \in TrackerShape
          /\ Removed(tr, r).pending = tr.pending \ {r}
          /\ Removed(tr, r).instance = tr.instance
  <1>1. /\ tr.bodyBytes - BodyOf(r) \in Int /\ tr.textBytes - TextOf(r) \in Int
        /\ tr.pending \ {r} \in SUBSET Request
    BY BytesAreNumbers DEF TrackerShape
  <1>. QED BY <1>1 DEF Removed, TrackerShape

\* What is taken out is answered.
LEMMA TakenOut ==
    ASSUME IInv, NEW r \in tracker.pending, tracker' \in TrackerShape,
           tracker'.pending = tracker.pending \ {r},
           answered' = answered \cup {r.id}, nextRequest' = nextRequest,
           questions' \subseteq Question
    PROVE Identities'
  <1>1. r \in Request /\ r.id \in Nat
    BY RequestConstants DEF IInv, Identities, TrackerShape, Request, RequestConstants
  <1>2. \A s \in tracker'.pending : s.id < nextRequest /\ s.id \notin answered'
    BY DEF IInv, Identities
  <1>. QED BY <1>1, <1>2 DEF IInv, Identities

\* The rest of an action that leaves the engine and what is held alone.
LEMMA OnlyTracker ==
    ASSUME IInv, UNCHANGED <<engine, authorizations>>, Identities' PROVE IInv'
  <1>1. EInv'
    BY EngineUnchanged DEF IInv
  <1>2. Holders'
    BY HoldersKept DEF IInv, Holders
  <1>. QED BY <1>1, <1>2 DEF IInv

LEMMA RegisterPreserves == ASSUME IInv, NEW t \in Tab, Register(t) PROVE IInv'
  <1>1. PICK kind \in Kind, bytes \in Payload :
          tracker' = Inserted(tracker, [id |-> nextRequest, kind |-> kind,
                        source |-> SourceOf(t),
                        bytes |-> IF kind = "read" THEN 0 ELSE bytes])
    BY DEF Register
  <1> DEFINE r == [id |-> nextRequest, kind |-> kind, source |-> SourceOf(t),
                   bytes |-> IF kind = "read" THEN 0 ELSE bytes]
  <1>2. tracker \in TrackerShape /\ nextRequest \in Nat
    BY DEF IInv, Identities
  <1>3. \A s \in tracker.pending : s.id \in Nat /\ s.id < nextRequest
    BY RequestConstants
       DEF IInv, Identities, TrackerShape, Request, RequestConstants
  <1>4. r \in Request /\ r.id = nextRequest
    <2>1. MaxRequests \in Nat /\ bytes \in Nat
      BY RequestConstants DEF RequestConstants
    <2>2. SourceOf(t) \in Source
      BY SourceTyped DEF Register
    <2>3. nextRequest \in 1..MaxRequests
      <3>1. nextRequest # 0 /\ nextRequest <= MaxRequests
        BY DEF Register, IInv, Identities
      <3>. QED BY <1>2, <2>1, <3>1
    <2>. QED BY <2>1, <2>2, <2>3 DEF Request
  <1> HIDE DEF r
  <1>5. /\ tracker' \in TrackerShape
        /\ tracker'.pending = tracker.pending \cup {r}
    <2>1. tracker' = Inserted(tracker, r)
      BY <1>1 DEF r
    <2>2. /\ tracker.bodyBytes + BodyOf(r) \in Int /\ tracker.textBytes + TextOf(r) \in Int
          /\ tracker.pending \cup {r} \in SUBSET Request
      BY <1>2, <1>4, BytesAreNumbers DEF TrackerShape
    <2>. QED BY <1>2, <2>1, <2>2 DEF Inserted, TrackerShape
  <1>6. /\ nextRequest' = nextRequest + 1
        /\ UNCHANGED <<engine, authorizations, questions, answered>>
    BY DEF Register
  <1>7. Identities'
    <2>1. \A i \in answered : i \in Nat /\ i < nextRequest
      BY DEF IInv, Identities
    <2>2. \A s \in tracker'.pending : s = r \/ s \in tracker.pending
      BY <1>5
    <2>3. /\ nextRequest' \in Nat
          /\ \A s \in tracker'.pending : s.id < nextRequest' /\ s.id \notin answered'
      BY <1>2, <1>3, <1>4, <1>6, <2>1, <2>2 DEF IInv, Identities
    <2>4. \A s, u \in tracker'.pending : s.id = u.id => s = u
      BY <1>2, <1>3, <1>4, <2>2 DEF IInv, Identities
    <2>5. \A i \in answered' : i < nextRequest'
      BY <1>2, <1>6, <2>1
    <2>. QED BY <1>5, <1>6, <2>3, <2>4, <2>5 DEF IInv, Identities
  <1>. QED BY <1>6, <1>7, OnlyTracker

LEMMA DiscardPreserves ==
    ASSUME IInv, NEW r \in tracker.pending, Discard(r) PROVE IInv'
  <1>1. tracker \in TrackerShape /\ r \in Request /\ questions \subseteq Question
    BY DEF IInv, Identities, TrackerShape
  <1>2. Identities'
    BY <1>1, RemovedIs, TakenOut DEF Discard
  <1>. QED BY <1>2, OnlyTracker DEF Discard

LEMMA AskPermissionPreserves ==
    ASSUME IInv, NEW r \in tracker.pending, AskPermission(r) PROVE IInv'
  <1> DEFINE tr == Removed(tracker, r)
  <1>1. tracker \in TrackerShape /\ r \in Request /\ questions \subseteq Question
        /\ tracker.instance \in 1..MaxTrackers
    BY DEF IInv, Identities, TrackerShape
  <1>2. tr \in TrackerShape /\ tr.pending = tracker.pending \ {r}
    BY <1>1, RemovedIs
  <1>3. /\ tracker' = [tr EXCEPT !.outstanding = @ + 1, !.writeBytes = @ + TextOf(r)]
        /\ answered' = answered \cup {r.id}
        /\ questions' = questions \cup {[request |-> r, of |-> tracker.instance]}
        /\ UNCHANGED <<engine, nextRequest, authorizations>>
    BY DEF AskPermission
  <1> HIDE DEF tr
  <1>4. tracker' \in TrackerShape /\ tracker'.pending = tracker.pending \ {r}
    <2>1. tr.outstanding + 1 \in Int /\ tr.writeBytes + TextOf(r) \in Int
      BY <1>1, <1>2, BytesAreNumbers DEF TrackerShape
    <2>. QED BY <1>2, <1>3, <2>1 DEF TrackerShape
  <1>5. questions' \subseteq Question
    BY <1>1, <1>3 DEF Question
  <1>6. Identities'
    BY <1>3, <1>4, <1>5, TakenOut
  <1>. QED BY <1>3, <1>6, OnlyTracker

LEMMA AuthorizePreserves ==
    ASSUME IInv, NEW r \in tracker.pending, AuthorizeNetwork(r) PROVE IInv'
  <1> DEFINE k == host.nextCapability
             c == r.source.context
  <1>1. tracker \in TrackerShape /\ r \in Request /\ questions \subseteq Question
    BY DEF IInv, Identities, TrackerShape
  <1>2. /\ IsCurrent(r.source)
        /\ tracker' = Removed(tracker, r)
        /\ answered' = answered \cup {r.id}
        /\ host' = Granted(host, c)
        /\ authorizations' = authorizations \cup
              {[id |-> r.id, source |-> r.source, capability |-> k, prepared |-> FALSE]}
        /\ UNCHANGED <<views, network, nextRequest, questions>>
    BY DEF AuthorizeNetwork, MayGrant
  <1>3. Identities'
    BY <1>1, <1>2, RemovedIs, TakenOut
  <1>4. /\ r.source.tab \in Tab /\ r.source.host = host.instance
        /\ c = views[r.source.tab].committed /\ c # None
    <2>1. r.source \in Source
      BY <1>1 DEF Request
    <2>. QED BY <1>2, <2>1 DEF IsCurrent, HasSource, SourceOf, Source
  <1>5. EInv'
    BY <1>2, <1>4, GrantPreserves DEF IInv
  <1>6. /\ host \in Shape /\ c \in Ticket /\ k \in Nat /\ host.instance \in Nat
    <2>1. r.source \in Source
      BY <1>1 DEF Request
    <2>. QED BY <2>1, EngineTyped, HostConstants DEF IInv, Shape, Source, HostConstants
  <1>7. /\ host'.instance = host.instance
        /\ host'.nextCapability = k + 1
        /\ host'.capabilities = host.capabilities \cup {[id |-> k, context |-> c]}
    BY <1>2, <1>6, GrantedIs
  <1>8. \A s : IsCurrent(s)' <=> IsCurrent(s)
    BY <1>2, <1>7 DEF IsCurrent, HasSource, SourceOf
  <1>9. PICK new \in Authorization :
          /\ authorizations' = authorizations \cup {new}
          /\ new.source = r.source /\ new.capability = k
    <2>1. r.id \in 1..MaxRequests /\ r.source \in Source
      BY <1>1 DEF Request
    <2>2. [id |-> r.id, source |-> r.source, capability |-> k, prepared |-> FALSE]
             \in Authorization
      BY <1>6, <2>1 DEF Authorization
    <2>. QED BY <1>2, <2>2
  <1>10. ASSUME NEW a \in authorizations
         PROVE /\ a.source.host <= host'.instance
               /\ Ours(a)' => a.capability < host'.nextCapability
               /\ Ours(a)' /\ (\E x \in host'.capabilities : x.id = a.capability) =>
                     /\ IsCurrent(a.source)'
                     /\ [id |-> a.capability, context |-> a.source.context]
                           \in host'.capabilities
    <2>1. /\ a.source.host <= host.instance
          /\ Ours(a) => a.capability < k
          /\ a.capability \in Nat
      BY DEF IInv, Holders, Authorization
    <2>2. Ours(a)' <=> Ours(a)
      BY <1>7 DEF Ours
    <2>3. ASSUME Ours(a), NEW x \in host'.capabilities, x.id = a.capability
          PROVE x \in host.capabilities
      <3>1. x.id # k
        BY <1>6, <2>1, <2>3
      <3>. QED BY <1>7, <3>1
    <2>4. ASSUME Ours(a), NEW x \in host.capabilities, x.id = a.capability
          PROVE /\ IsCurrent(a.source)
                /\ [id |-> a.capability, context |-> a.source.context]
                      \in host.capabilities
      BY <2>4 DEF IInv, Holders, CapabilitiesAreCurrent
    <2>5. a.source.host <= host'.instance
      BY <1>7, <2>1
    <2>6. Ours(a)' => a.capability < host'.nextCapability
      BY <1>6, <1>7, <2>1, <2>2
    <2>7. ASSUME Ours(a)', NEW x \in host'.capabilities, x.id = a.capability
          PROVE /\ IsCurrent(a.source)'
                /\ [id |-> a.capability, context |-> a.source.context]
                      \in host'.capabilities
      <3>1. Ours(a) /\ x \in host.capabilities
        BY <2>2, <2>3, <2>7
      <3>2. /\ IsCurrent(a.source)
            /\ [id |-> a.capability, context |-> a.source.context] \in host.capabilities
        BY <2>4, <2>7, <3>1
      <3>. QED BY <1>7, <1>8, <3>2
    <2>. QED BY <2>5, <2>6, <2>7
  <1>11. /\ new.source.host <= host'.instance
         /\ new.capability < host'.nextCapability
         /\ IsCurrent(new.source)'
         /\ [id |-> new.capability, context |-> new.source.context] \in host'.capabilities
    <2>1. IsCurrent(new.source)'
      BY <1>2, <1>8, <1>9
    <2>2. new.source.host <= host'.instance /\ new.capability < host'.nextCapability
      BY <1>4, <1>6, <1>7, <1>9
    <2>. QED BY <1>7, <1>9, <2>1, <2>2
  <1>12. Holders'
    BY <1>2, <1>9, <1>10, <1>11 DEF IInv, Holders, CapabilitiesAreCurrent
  <1>. QED BY <1>3, <1>5, <1>12 DEF IInv

LEMMA AnswerPreserves ==
    ASSUME IInv, NEW q \in questions, AnswerQuestion(q) PROVE IInv'
  <1>1. /\ tracker \in TrackerShape /\ q.request \in Request
        /\ questions' = questions \ {q}
        /\ tracker' = Released(tracker, q)
        /\ UNCHANGED <<engine, nextRequest, authorizations, answered>>
    BY DEF IInv, Identities, Question, AnswerQuestion
  <1>2. tracker' \in TrackerShape /\ tracker'.pending = tracker.pending
    <2>1. tracker.outstanding - 1 \in Int
          /\ tracker.writeBytes - TextOf(q.request) \in Int
      BY <1>1, BytesAreNumbers DEF TrackerShape
    <2>. QED BY <1>1, <2>1 DEF Released, TrackerShape
  <1>3. Identities'
    BY <1>1, <1>2 DEF IInv, Identities
  <1>. QED BY <1>1, <1>3, OnlyTracker

LEMMA HolderActionPreserves ==
    ASSUME IInv, NEW a \in authorizations, Revoke(a) \/ Prepare(a) \/ Abandon(a)
    PROVE IInv'
  <1>1. UNCHANGED <<tracker, nextRequest, questions, answered>>
    BY DEF Revoke, Prepare, Abandon
  <1>2. Identities'
    BY <1>1 DEF IInv, Identities
  <1>3. CASE Revoke(a)
    BY <1>2, <1>3, RevokeKeepsHolders DEF IInv
  <1>4. CASE Abandon(a)
    <2>1. UNCHANGED engine /\ authorizations' = authorizations \ {a}
      BY <1>4 DEF Abandon
    <2>2. Holders'
      BY <2>1, HoldersKept DEF IInv, Holders
    <2>. QED BY <1>2, <2>1, <2>2, EngineUnchanged DEF IInv
  <1>5. CASE UNCHANGED engine /\ authorizations' =
                (authorizations \ {a}) \cup {[a EXCEPT !.prepared = TRUE]}
    <2>1. a \in Authorization
      BY DEF IInv, Holders
    <2>2. PICK b \in Authorization :
            /\ b.source = a.source /\ b.capability = a.capability
            /\ authorizations' = (authorizations \ {a}) \cup {b}
      <3>1. [a EXCEPT !.prepared = TRUE] \in Authorization
        BY <2>1 DEF Authorization
      <3>2. /\ [a EXCEPT !.prepared = TRUE].source = a.source
            /\ [a EXCEPT !.prepared = TRUE].capability = a.capability
        BY <2>1 DEF Authorization
      <3>. QED BY <1>5, <3>1, <3>2
    <2>3. Holders'
      BY <1>5, <2>2, HoldersKept DEF IInv, Holders
    <2>. QED BY <1>2, <1>5, <2>3, EngineUnchanged DEF IInv
  <1>. QED BY <1>3, <1>4, <1>5 DEF Prepare, engine

LEMMA ReplaceTrackerPreserves == ASSUME IInv, ReplaceTracker PROVE IInv'
  <1>1. tracker' = NewTracker(tracker.instance + 1) /\ nextRequest' = nextRequest
        /\ UNCHANGED <<engine, authorizations, questions, answered>>
    BY DEF ReplaceTracker, NextIdentity
  <1>2. tracker' \in TrackerShape /\ tracker'.pending = {}
    <2>1. tracker.instance \in 1..MaxTrackers /\ MaxTrackers \in Nat
      BY RequestConstants DEF IInv, Identities, TrackerShape, RequestConstants
    <2>2. tracker.instance + 1 \in 1..MaxTrackers
      BY <2>1 DEF ReplaceTracker
    <2>. QED BY <1>1, <2>2 DEF NewTracker, TrackerShape
  <1>3. Identities'
    BY <1>1, <1>2 DEF IInv, Identities
  <1>. QED BY <1>1, <1>3, OnlyTracker

LEMMA EngineStepPreserves ==
    ASSUME IInv, EngineNext, UNCHANGED requests PROVE IInv'
  <1>1. UNCHANGED <<tracker, nextRequest, authorizations, questions, answered>>
    BY DEF requests
  <1>2. Identities'
    BY <1>1 DEF IInv, Identities
  <1>3. EInv' /\ Holders'
    BY <1>1, EnginePreserves, EngineKeepsHolders DEF IInv
  <1>. QED BY <1>2, <1>3 DEF IInv

LEMMA StutterPreserves == IInv /\ UNCHANGED vars => IInv'
  <1> SUFFICES ASSUME IInv, UNCHANGED vars PROVE IInv'
    OBVIOUS
  <1>1. UNCHANGED <<tracker, nextRequest, authorizations, questions, answered>>
        /\ UNCHANGED engine
    BY DEF vars, requests
  <1>2. Identities'
    BY <1>1 DEF IInv, Identities
  <1>. QED BY <1>1, <1>2, OnlyTracker

LEMMA InitHolds == Init => IInv
  <1> SUFFICES ASSUME Init PROVE IInv
    OBVIOUS
  <1>1. Fresh
    BY HostConstants DEF Init, EngineInit, Fresh, HostConstants
  <1>2. Holders
    BY DEF Init, Holders, CapabilitiesAreCurrent
  <1>3. Identities
    <2>1. 1 \in 1..MaxTrackers
      BY RequestConstants DEF RequestConstants
    <2>2. tracker \in TrackerShape /\ tracker.pending = {}
      BY <2>1 DEF Init, NewTracker, TrackerShape
    <2>. QED BY <2>2 DEF Init, Identities
  <1>. QED BY <1>1, <1>2, <1>3, FreshHolds DEF IInv

LEMMA NextPreserves == IInv /\ [Next]_vars => IInv'
  <1> SUFFICES ASSUME IInv, [Next]_vars PROVE IInv'
    OBVIOUS
  <1>1. CASE EngineNext /\ UNCHANGED requests
    BY <1>1, EngineStepPreserves
  <1>2. ASSUME NEW t \in Tab, Register(t) PROVE IInv'
    BY <1>2, RegisterPreserves
  <1>3. ASSUME NEW r \in tracker.pending,
               Discard(r) \/ AuthorizeNetwork(r) \/ AskPermission(r)
        PROVE IInv'
    BY <1>3, DiscardPreserves, AuthorizePreserves, AskPermissionPreserves
  <1>4. ASSUME NEW q \in questions, AnswerQuestion(q) PROVE IInv'
    BY <1>4, AnswerPreserves
  <1>5. ASSUME NEW a \in authorizations, Revoke(a) \/ Prepare(a) \/ Abandon(a)
        PROVE IInv'
    BY <1>5, HolderActionPreserves
  <1>6. CASE ReplaceTracker
    BY <1>6, ReplaceTrackerPreserves
  <1>7. CASE UNCHANGED vars
    BY <1>7, StutterPreserves
  <1>. QED BY <1>1, <1>2, <1>3, <1>4, <1>5, <1>6, <1>7 DEF Next

LEMMA Invariance == Spec => []IInv
  BY InitHolds, NextPreserves, PTL DEF Spec

-----------------------------------------------------------------------------
(* Sums over finite sets, which do not depend on the order of their terms. *)

LEMMA SubsetsAreWellFounded ==
    ASSUME NEW S, IsFiniteSet(S)
    PROVE  IsWellFoundedOn(StrictSubsetOrdering(S), SUBSET S)
  <1>1. FiniteSubsetsOf(S) = SUBSET S
    BY FS_FiniteSubsetsOfFinite
  <1>. QED BY <1>1, FS_StrictSubsetOrderingWellFounded

\* Induction over the subsets of a finite set, with the claim given as the set of
\* those it holds for.
LEMMA SubsetInduction ==
    ASSUME NEW S, IsFiniteSet(S), NEW Holds,
           \A T \in SUBSET S :
               (\A U \in SUBSET T : U # T => U \in Holds) => T \in Holds
    PROVE  S \in Holds
  <1> SUFFICES ASSUME S \notin Holds PROVE FALSE
    OBVIOUS
  <1> DEFINE Fails == {T \in SUBSET S : T \notin Holds}
  <1>1. IsWellFoundedOn(StrictSubsetOrdering(S), SUBSET S)
    BY SubsetsAreWellFounded
  <1>2. Fails \subseteq SUBSET S /\ Fails # {}
    OBVIOUS
  <1>3. PICK T \in Fails : \A U \in Fails : ~(<<U, T>> \in StrictSubsetOrdering(S))
    <2> HIDE DEF Fails
    <2>. QED BY <1>1, <1>2, WFMin
  <1>4. \A U \in SUBSET T : U # T => U \in Holds
    BY <1>3 DEF StrictSubsetOrdering
  <1>. QED BY <1>3, <1>4

Some(s) == CHOOSE x \in s : TRUE

IsSum(f, S, w) ==
    f = [s \in SUBSET S |-> IF s = {} THEN 0 ELSE w[Some(s)] + f[s \ {Some(s)}]]

SumFcn(S, w) == CHOOSE f : IsSum(f, S, w)

SumOver(S, w) == SumFcn(S, w)[S]

LEMMA SomeIs == ASSUME NEW s, s # {} PROVE Some(s) \in s
  BY DEF Some

LEMMA SumIs ==
    ASSUME NEW S, NEW w, NEW f, IsSum(f, S, w), NEW s \in SUBSET S
    PROVE  f[s] = IF s = {} THEN 0 ELSE w[Some(s)] + f[s \ {Some(s)}]
  BY DEF IsSum

LEMMA SumUnique ==
    ASSUME NEW S, NEW T, NEW w, IsFiniteSet(T), T \subseteq S,
           NEW f, IsSum(f, S, w), NEW g, IsSum(g, T, w)
    PROVE  f[T] = g[T]
  <1> DEFINE Holds == {s \in SUBSET T : f[s] = g[s]}
  <1>1. ASSUME NEW s \in SUBSET T, \A u \in SUBSET s : u # s => u \in Holds
        PROVE  s \in Holds
    <2>1. /\ f[s] = IF s = {} THEN 0 ELSE w[Some(s)] + f[s \ {Some(s)}]
          /\ g[s] = IF s = {} THEN 0 ELSE w[Some(s)] + g[s \ {Some(s)}]
      BY SumIs
    <2>2. s # {} => s \ {Some(s)} \in SUBSET s /\ s \ {Some(s)} # s
      BY SomeIs
    <2>3. s # {} => f[s \ {Some(s)}] = g[s \ {Some(s)}]
      BY <1>1, <2>2
    <2>. QED BY <2>1, <2>3
  <1>2. T \in Holds
    <2> HIDE DEF Holds
    <2>. QED BY <1>1, SubsetInduction
  <1>. QED BY <1>2

LEMMA SumExists ==
    ASSUME NEW S, NEW w, IsFiniteSet(S)
    PROVE  IsSum(SumFcn(S, w), S, w)
  <1> DEFINE Holds == {T \in SUBSET S : \E f : IsSum(f, T, w)}
  <1>1. ASSUME NEW T \in SUBSET S, \A U \in SUBSET T : U # T => U \in Holds
        PROVE  T \in Holds
    <2> DEFINE Part(s) == s \ {Some(s)}
               f == [s \in SUBSET T |->
                        IF s = {} THEN 0 ELSE w[Some(s)] + SumOver(Part(s), w)]
    <2>1. ASSUME NEW s \in SUBSET T, s # {}
          PROVE  /\ Part(s) \in SUBSET T /\ Part(s) # T
                 /\ IsSum(SumFcn(Part(s), w), Part(s), w)
                 /\ IsFiniteSet(Part(s))
      <3>1. Part(s) \in SUBSET T /\ Part(s) # T
        BY <2>1, SomeIs
      <3>2. \E g : IsSum(g, Part(s), w)
        BY <1>1, <3>1
      <3>3. IsFiniteSet(Part(s))
        BY <3>1, FS_Subset
      <3>. QED BY <3>1, <3>2, <3>3 DEF SumFcn
    <2>2. ASSUME NEW s \in SUBSET T, s # {}
          PROVE  f[Part(s)] = SumOver(Part(s), w)
      <3> DEFINE p == Part(s)
      <3>1. p \in SUBSET T /\ IsSum(SumFcn(p, w), p, w)
        BY <2>1, <2>2
      <3>2. SumOver(p, w) = IF p = {} THEN 0 ELSE w[Some(p)] + SumFcn(p, w)[Part(p)]
        <4>1. p \in SUBSET p
          OBVIOUS
        <4> HIDE DEF p
        <4>. QED BY <3>1, <4>1, SumIs DEF SumOver
      <3>3. p # {} => SumFcn(p, w)[Part(p)] = SumOver(Part(p), w)
        <4> SUFFICES ASSUME p # {} PROVE SumFcn(p, w)[Part(p)] = SumOver(Part(p), w)
          OBVIOUS
        <4>1. /\ IsFiniteSet(Part(p)) /\ Part(p) \subseteq p
              /\ IsSum(SumFcn(Part(p), w), Part(p), w)
          BY <2>1, <3>1
        <4> HIDE DEF p, Part
        <4>. QED BY <3>1, <4>1, SumUnique DEF SumOver
      <3> HIDE DEF p, Part
      <3>4. f[p] = IF p = {} THEN 0 ELSE w[Some(p)] + SumOver(Part(p), w)
        BY <3>1
      <3>5. f[p] = SumOver(p, w)
        <4> HIDE DEF f
        <4>. QED BY <3>2, <3>3, <3>4
      <3>. QED BY <3>5 DEF p
    <2>3. IsSum(f, T, w)
      <3>1. \A s \in SUBSET T : s # {} => f[Part(s)] = SumOver(Part(s), w)
        BY <2>2
      <3>2. f = [s \in SUBSET T |-> IF s = {} THEN 0 ELSE w[Some(s)] + f[Part(s)]]
        BY <3>1
      <3>. QED BY <3>2 DEF IsSum
    <2> HIDE DEF f
    <2>. QED BY <2>3
  <1>2. S \in Holds
    <2> HIDE DEF Holds
    <2>. QED BY <1>1, SubsetInduction
  <1>. QED BY <1>2 DEF SumFcn

LEMMA SumStep ==
    ASSUME NEW S, NEW w, IsFiniteSet(S)
    PROVE  SumOver(S, w) =
               IF S = {} THEN 0 ELSE w[Some(S)] + SumOver(S \ {Some(S)}, w)
  <1> DEFINE rest == S \ {Some(S)}
  <1>1. IsFiniteSet(rest) /\ rest \subseteq S
    BY FS_Subset
  <1> HIDE DEF rest
  <1>2. IsSum(SumFcn(S, w), S, w) /\ IsSum(SumFcn(rest, w), rest, w)
    BY <1>1, SumExists
  <1>3. SumFcn(S, w)[S] = IF S = {} THEN 0 ELSE w[Some(S)] + SumFcn(S, w)[rest]
    <2>1. S \in SUBSET S
      OBVIOUS
    <2>. QED BY <1>2, <2>1, SumIs DEF rest
  <1>4. SumFcn(S, w)[rest] = SumFcn(rest, w)[rest]
    BY <1>1, <1>2, SumUnique
  <1>. QED BY <1>3, <1>4 DEF SumOver, rest

LEMMA SumType ==
    ASSUME NEW U, NEW w \in [U -> Nat], NEW S \in SUBSET U, IsFiniteSet(S)
    PROVE  SumOver(S, w) \in Nat
  <1> DEFINE Holds == {T \in SUBSET S : SumOver(T, w) \in Nat}
  <1>1. ASSUME NEW T \in SUBSET S, \A V \in SUBSET T : V # T => V \in Holds
        PROVE  T \in Holds
    <2>1. SumOver(T, w) = IF T = {} THEN 0 ELSE w[Some(T)] + SumOver(T \ {Some(T)}, w)
      BY FS_Subset, SumStep
    <2>2. T # {} => Some(T) \in U /\ T \ {Some(T)} \in SUBSET T /\ T \ {Some(T)} # T
      BY SomeIs
    <2>3. T # {} => w[Some(T)] \in Nat /\ SumOver(T \ {Some(T)}, w) \in Nat
      BY <1>1, <2>2
    <2>. QED BY <2>1, <2>3
  <1>2. S \in Holds
    <2> HIDE DEF Holds
    <2>. QED BY <1>1, SubsetInduction
  <1>. QED BY <1>2

\* Any term can be taken out of a sum.
LEMMA SumWithout ==
    ASSUME NEW U, NEW w \in [U -> Nat], NEW S \in SUBSET U, IsFiniteSet(S), NEW x \in S
    PROVE  SumOver(S, w) = w[x] + SumOver(S \ {x}, w)
  <1> DEFINE Holds == {T \in SUBSET S : \A y \in T : SumOver(T, w) = w[y] + SumOver(T \ {y}, w)}
  <1>1. ASSUME NEW T \in SUBSET S, \A V \in SUBSET T : V # T => V \in Holds
        PROVE  T \in Holds
    <2> SUFFICES ASSUME NEW y \in T PROVE SumOver(T, w) = w[y] + SumOver(T \ {y}, w)
      OBVIOUS
    <2> DEFINE c == Some(T)
               both == (T \ {c}) \ {y}
    <2>1. IsFiniteSet(T) /\ c \in T /\ T # {} /\ T \in SUBSET U
      BY SomeIs, FS_Subset
    <2>2. SumOver(T, w) = w[c] + SumOver(T \ {c}, w)
      BY <2>1, SumStep
    <2> HIDE DEF c
    <2>3. CASE y = c
      BY <2>2, <2>3
    <2>4. CASE y # c
      <3>1. T \ {c} \in Holds /\ T \ {y} \in Holds
        BY <1>1, <2>1
      <3>2. SumOver(T \ {c}, w) = w[y] + SumOver(both, w)
        BY <2>4, <3>1
      <3>3. (T \ {y}) \ {c} = both
        OBVIOUS
      <3>4. SumOver(T \ {y}, w) = w[c] + SumOver(both, w)
        BY <2>1, <2>4, <3>1, <3>3
      <3>5. w[c] \in Nat /\ w[y] \in Nat
        BY <2>1
      <3>6. SumOver(both, w) \in Nat
        <4>1. IsFiniteSet(both) /\ both \in SUBSET U
          BY <2>1, FS_Subset
        <4> HIDE DEF both
        <4>. QED BY <4>1, SumType
      <3> HIDE DEF both
      <3>. QED BY <2>2, <3>2, <3>4, <3>5, <3>6
    <2>. QED BY <2>3, <2>4
  <1>2. S \in Holds
    <2> HIDE DEF Holds
    <2>. QED BY <1>1, SubsetInduction
  <1>. QED BY <1>2

Bodies == [r \in Request |-> BodyOf(r)]
Texts == [r \in Request |-> TextOf(r)]

\* The totals of the tracker's accounts are such sums.
LEMMA TotalIs ==
    ASSUME NEW S \in SUBSET Request
    PROVE  /\ Total(S, BodyOf) = SumOver(S, Bodies)
           /\ Total(S, TextOf) = SumOver(S, Texts)
  <1>1. ASSUME NEW f
        PROVE  /\ IsSum(f, S, Bodies) <=>
                    f = [s \in SUBSET S |-> IF s = {} THEN 0
                          ELSE BodyOf(Some(s)) + f[s \ {Some(s)}]]
               /\ IsSum(f, S, Texts) <=>
                    f = [s \in SUBSET S |-> IF s = {} THEN 0
                          ELSE TextOf(Some(s)) + f[s \ {Some(s)}]]
    <2>1. \A s \in SUBSET S : s # {} => Some(s) \in Request
      BY SomeIs
    <2>2. \A s \in SUBSET S : s # {} => Bodies[Some(s)] = BodyOf(Some(s))
                                        /\ Texts[Some(s)] = TextOf(Some(s))
      BY <2>1 DEF Bodies, Texts
    <2>3. [s \in SUBSET S |-> IF s = {} THEN 0 ELSE Bodies[Some(s)] + f[s \ {Some(s)}]]
          = [s \in SUBSET S |-> IF s = {} THEN 0 ELSE BodyOf(Some(s)) + f[s \ {Some(s)}]]
      BY <2>2
    <2>4. [s \in SUBSET S |-> IF s = {} THEN 0 ELSE Texts[Some(s)] + f[s \ {Some(s)}]]
          = [s \in SUBSET S |-> IF s = {} THEN 0 ELSE TextOf(Some(s)) + f[s \ {Some(s)}]]
      BY <2>2
    <2>. QED BY <2>3, <2>4 DEF IsSum
  <1>2. SumFcn(S, Bodies) = CHOOSE f :
            f = [s \in SUBSET S |-> IF s = {} THEN 0
                    ELSE BodyOf(Some(s)) + f[s \ {Some(s)}]]
    BY <1>1 DEF SumFcn
  <1>3. SumFcn(S, Texts) = CHOOSE f :
            f = [s \in SUBSET S |-> IF s = {} THEN 0
                    ELSE TextOf(Some(s)) + f[s \ {Some(s)}]]
    BY <1>1 DEF SumFcn
  <1>4. Total(S, BodyOf) = SumOver(S, Bodies)
    BY <1>2 DEF Total, MapThenSumSet, MapThenFoldSet, SumOver, Some
  <1>5. Total(S, TextOf) = SumOver(S, Texts)
    BY <1>3 DEF Total, MapThenSumSet, MapThenFoldSet, SumOver, Some
  <1>. QED BY <1>4, <1>5

-----------------------------------------------------------------------------
(* The accounts of the tracker.                                            *)

Asked == {q.request : q \in Own}

Accounts ==
    /\ IsFiniteSet(tracker.pending) /\ IsFiniteSet(questions)
    /\ tracker.bodyBytes = SumOver(tracker.pending, Bodies)
    /\ tracker.textBytes = SumOver(tracker.pending, Texts)
    /\ tracker.outstanding = Cardinality(Own)
    /\ tracker.writeBytes = SumOver(Asked, Texts)
    /\ Cardinality(tracker.pending) + tracker.outstanding <= MaxPending
    /\ tracker.bodyBytes <= BodyBudget
    /\ tracker.textBytes + tracker.writeBytes <= TextBudget
    /\ \A q \in questions :
          q.request.id \in answered /\ q.of <= tracker.instance
    /\ nextRequest <= MaxRequests + 1
    /\ answered \subseteq 1..MaxRequests

LEMMA WeightsAre == Bodies \in [Request -> Nat] /\ Texts \in [Request -> Nat]
  BY BytesAreNumbers DEF Bodies, Texts

LEMMA Added ==
    ASSUME NEW S \in SUBSET Request, IsFiniteSet(S), NEW r \in Request, r \notin S,
           NEW w \in [Request -> Nat]
    PROVE  /\ IsFiniteSet(S \cup {r})
           /\ SumOver(S \cup {r}, w) = SumOver(S, w) + w[r]
           /\ SumOver(S, w) \in Nat /\ w[r] \in Nat
           /\ Cardinality(S \cup {r}) = Cardinality(S) + 1
           /\ Cardinality(S) \in Nat
  <1> DEFINE T == S \cup {r}
  <1>1. IsFiniteSet(T) /\ Cardinality(T) = Cardinality(S) + 1
        /\ Cardinality(S) \in Nat
    BY FS_AddElement, FS_CardinalityType
  <1>2. T \in SUBSET Request /\ r \in T /\ T \ {r} = S
    OBVIOUS
  <1>3. SumOver(S, w) \in Nat
    BY SumType
  <1>4. SumOver(T, w) = w[r] + SumOver(S, w)
    <2> HIDE DEF T
    <2>. QED BY <1>1, <1>2, SumWithout
  <1>. QED BY <1>1, <1>3, <1>4

LEMMA TakenFrom ==
    ASSUME NEW S \in SUBSET Request, IsFiniteSet(S), NEW r \in S,
           NEW w \in [Request -> Nat]
    PROVE  /\ IsFiniteSet(S \ {r})
           /\ SumOver(S \ {r}, w) = SumOver(S, w) - w[r]
           /\ SumOver(S \ {r}, w) \in Nat /\ SumOver(S, w) \in Nat /\ w[r] \in Nat
           /\ Cardinality(S \ {r}) = Cardinality(S) - 1
           /\ Cardinality(S) \in Nat
  <1> DEFINE T == S \ {r}
  <1>1. IsFiniteSet(T) /\ Cardinality(T) = Cardinality(S) - 1
        /\ Cardinality(S) \in Nat
    BY FS_RemoveElement, FS_CardinalityType
  <1>2. T \in SUBSET Request /\ w[r] \in Nat
    OBVIOUS
  <1>3. SumOver(S, w) \in Nat
    BY SumType
  <1>4. SumOver(T, w) \in Nat
    <2> HIDE DEF T
    <2>. QED BY <1>1, <1>2, SumType
  <1>5. SumOver(S, w) = w[r] + SumOver(T, w)
    BY SumWithout
  <1>. QED BY <1>1, <1>2, <1>3, <1>4, <1>5

\* No question of this tracker is for a request still pending, and no two
\* questions of it are for the same request.
LEMMA AskedAre ==
    ASSUME IInv, Accounts
    PROVE  /\ tracker \in TrackerShape /\ tracker.pending \in SUBSET Request
           /\ Own \subseteq questions /\ IsFiniteSet(Own)
           /\ Asked \in SUBSET Request /\ IsFiniteSet(Asked)
           /\ \A q \in Own : \A p \in Own : q.request = p.request => q = p
           /\ \A r \in tracker.pending : r \notin Asked
           /\ Cardinality(Own) \in Nat /\ Cardinality(tracker.pending) \in Nat
           /\ \A S \in {tracker.pending, Asked} :
                 SumOver(S, Bodies) \in Nat /\ SumOver(S, Texts) \in Nat
  <1>1. tracker \in TrackerShape /\ questions \subseteq Question
    BY DEF IInv, Identities
  <1>2. tracker.pending \in SUBSET Request
    BY <1>1 DEF TrackerShape
  <1>3. Own \subseteq questions /\ IsFiniteSet(Own)
    <2>1. Own \subseteq questions
      BY DEF Own
    <2>. QED BY <2>1, FS_Subset DEF Accounts
  <1>4. Asked \in SUBSET Request /\ IsFiniteSet(Asked)
    <2>1. Asked \subseteq Request
      BY <1>1, <1>3 DEF Asked, Question
    <2> DEFINE f == [q \in Own |-> q.request]
    <2>2. f \in Surjection(Own, Asked)
      BY DEF Asked, Surjection
    <2> HIDE DEF f
    <2>. QED BY <1>3, <2>1, <2>2, FS_Surjection
  <1>5. \A q \in Own : \A p \in Own : q.request = p.request => q = p
    BY <1>1 DEF Own, Question
  <1>6. \A r \in tracker.pending : r \notin Asked
    <2>1. \A q \in Own : q.request.id \in answered
      BY <1>3 DEF Accounts
    <2>2. \A r \in tracker.pending : r.id \notin answered
      BY DEF IInv, Identities
    <2>. QED BY <2>1, <2>2 DEF Asked
  <1>7. Cardinality(Own) \in Nat /\ Cardinality(tracker.pending) \in Nat
    BY <1>3, FS_CardinalityType DEF Accounts
  <1>8. \A S \in {tracker.pending, Asked} :
          SumOver(S, Bodies) \in Nat /\ SumOver(S, Texts) \in Nat
    <2>1. IsFiniteSet(tracker.pending)
      BY DEF Accounts
    <2>. QED BY <1>2, <1>4, <2>1, WeightsAre, SumType
  <1>. QED BY <1>1, <1>2, <1>3, <1>4, <1>5, <1>6, <1>7, <1>8

\* What leaves the pending requests gives back what it took.
LEMMA RemovedBalances ==
    ASSUME IInv, Accounts, NEW r \in tracker.pending
    PROVE  /\ IsFiniteSet(tracker.pending \ {r})
           /\ Removed(tracker, r).pending = tracker.pending \ {r}
           /\ Removed(tracker, r).bodyBytes = SumOver(tracker.pending \ {r}, Bodies)
           /\ Removed(tracker, r).textBytes = SumOver(tracker.pending \ {r}, Texts)
           /\ Removed(tracker, r).bodyBytes \in Nat
           /\ Removed(tracker, r).textBytes \in Nat
           /\ Removed(tracker, r).bodyBytes <= tracker.bodyBytes
           /\ Removed(tracker, r).textBytes <= tracker.textBytes
           /\ Removed(tracker, r).outstanding = tracker.outstanding
           /\ Removed(tracker, r).writeBytes = tracker.writeBytes
           /\ Removed(tracker, r).instance = tracker.instance
           /\ Removed(tracker, r) \in TrackerShape
           /\ Cardinality(tracker.pending \ {r}) = Cardinality(tracker.pending) - 1
           /\ r \in Request /\ r.id \in 1..MaxRequests
  <1>1. tracker \in TrackerShape /\ tracker.pending \in SUBSET Request /\ r \in Request
    BY AskedAre
  <1>2. /\ Removed(tracker, r).pending = tracker.pending \ {r}
        /\ Removed(tracker, r).bodyBytes = tracker.bodyBytes - BodyOf(r)
        /\ Removed(tracker, r).textBytes = tracker.textBytes - TextOf(r)
        /\ Removed(tracker, r).outstanding = tracker.outstanding
        /\ Removed(tracker, r).writeBytes = tracker.writeBytes
        /\ Removed(tracker, r).instance = tracker.instance
    BY <1>1 DEF Removed, TrackerShape
  <1>3. BodyOf(r) = Bodies[r] /\ TextOf(r) = Texts[r]
    BY <1>1 DEF Bodies, Texts
  <1>4. IsFiniteSet(tracker.pending)
    BY DEF Accounts
  <1>5. /\ IsFiniteSet(tracker.pending \ {r})
        /\ SumOver(tracker.pending \ {r}, Bodies) =
              SumOver(tracker.pending, Bodies) - Bodies[r]
        /\ SumOver(tracker.pending \ {r}, Bodies) \in Nat
        /\ SumOver(tracker.pending, Bodies) \in Nat /\ Bodies[r] \in Nat
        /\ Cardinality(tracker.pending \ {r}) = Cardinality(tracker.pending) - 1
    BY <1>1, <1>4, WeightsAre, TakenFrom
  <1>6. /\ SumOver(tracker.pending \ {r}, Texts) =
              SumOver(tracker.pending, Texts) - Texts[r]
        /\ SumOver(tracker.pending \ {r}, Texts) \in Nat
        /\ SumOver(tracker.pending, Texts) \in Nat /\ Texts[r] \in Nat
    BY <1>1, <1>4, WeightsAre, TakenFrom
  <1>7. tracker.bodyBytes = SumOver(tracker.pending, Bodies)
        /\ tracker.textBytes = SumOver(tracker.pending, Texts)
    BY DEF Accounts
  <1>8. r.id \in 1..MaxRequests /\ Removed(tracker, r) \in TrackerShape
    BY <1>1, RemovedIs DEF Request
  <1>. QED BY <1>1, <1>2, <1>3, <1>5, <1>6, <1>7, <1>8

\* The questions of a tracker are its own as long as it is there.
LEMMA SameQuestions ==
    ASSUME questions' = questions, tracker'.instance = tracker.instance
    PROVE  Own' = Own /\ Asked' = Asked
  BY DEF Own, Asked

LEMMA TakeAccounts ==
    ASSUME IInv, Accounts, NEW r \in tracker.pending,
           tracker' = Removed(tracker, r), answered' = answered \cup {r.id},
           UNCHANGED <<nextRequest, questions>>
    PROVE  Accounts'
  <1> DEFINE tr == Removed(tracker, r)
             rest == tracker.pending \ {r}
  <1>1. /\ IsFiniteSet(rest) /\ tr.pending = rest
        /\ tr.bodyBytes = SumOver(rest, Bodies) /\ tr.textBytes = SumOver(rest, Texts)
        /\ tr.bodyBytes \in Nat /\ tr.textBytes \in Nat
        /\ tr.bodyBytes <= tracker.bodyBytes /\ tr.textBytes <= tracker.textBytes
        /\ tr.outstanding = tracker.outstanding /\ tr.writeBytes = tracker.writeBytes
        /\ tr.instance = tracker.instance
        /\ Cardinality(rest) = Cardinality(tracker.pending) - 1
        /\ r.id \in 1..MaxRequests
    BY RemovedBalances
  <1> HIDE DEF tr, rest
  <1>2. tracker' = tr
    BY DEF tr
  <1>3. Own' = Own /\ Asked' = Asked
    BY <1>1, <1>2, SameQuestions
  <1>4. /\ tracker.bodyBytes \in Int /\ tracker.textBytes \in Int
        /\ tracker.outstanding \in Int /\ tracker.writeBytes \in Int
        /\ Cardinality(tracker.pending) \in Nat
    BY AskedAre DEF TrackerShape
  <1>5. /\ tracker.outstanding = Cardinality(Own) /\ tracker.writeBytes = SumOver(Asked, Texts)
        /\ Cardinality(tracker.pending) + tracker.outstanding <= MaxPending
        /\ tracker.bodyBytes <= BodyBudget
        /\ tracker.textBytes + tracker.writeBytes <= TextBudget
        /\ IsFiniteSet(questions)
        /\ \A q \in questions : q.request.id \in answered /\ q.of <= tracker.instance
        /\ nextRequest <= MaxRequests + 1
        /\ answered \subseteq 1..MaxRequests
    BY DEF Accounts
  <1>6. {MaxPending, BodyBudget, TextBudget} \subseteq Nat
    BY RequestConstants DEF RequestConstants
  <1>7. Cardinality(rest) + tr.outstanding <= MaxPending
    BY <1>1, <1>4, <1>5, <1>6
  <1>8. tr.bodyBytes <= BodyBudget /\ tr.textBytes + tr.writeBytes <= TextBudget
    BY <1>1, <1>4, <1>5, <1>6
  <1>9. \A q \in questions' : q.request.id \in answered' /\ q.of <= tracker'.instance
    BY <1>1, <1>2, <1>5
  <1>. QED BY <1>1, <1>2, <1>3, <1>5, <1>7, <1>8, <1>9 DEF Accounts

LEMMA RegisterAccounts ==
    ASSUME IInv, Accounts, NEW t \in Tab, Register(t), IInv' PROVE Accounts'
  <1>1. PICK kind \in Kind, bytes \in Payload :
          LET r == [id |-> nextRequest, kind |-> kind, source |-> SourceOf(t),
                    bytes |-> IF kind = "read" THEN 0 ELSE bytes]
          IN WithinBudgets(tracker, r) /\ tracker' = Inserted(tracker, r)
    BY DEF Register
  <1> DEFINE r == [id |-> nextRequest, kind |-> kind, source |-> SourceOf(t),
                   bytes |-> IF kind = "read" THEN 0 ELSE bytes]
             S == tracker.pending
  <1>2. WithinBudgets(tracker, r) /\ tracker' = Inserted(tracker, r)
    BY <1>1
  <1>3. r \in Request /\ r.id = nextRequest
    <2>1. MaxRequests \in Nat /\ bytes \in Nat /\ nextRequest \in Nat \ {0}
      BY RequestConstants DEF RequestConstants, IInv, Identities
    <2>2. SourceOf(t) \in Source
      BY SourceTyped DEF Register
    <2>3. nextRequest \in 1..MaxRequests
      BY <2>1 DEF Register
    <2>. QED BY <2>1, <2>2, <2>3 DEF Request
  <1> HIDE DEF r
  <1>4. tracker \in TrackerShape /\ S \in SUBSET Request /\ IsFiniteSet(S)
    BY AskedAre DEF Accounts
  <1>5. r \notin S
    <2>1. \A s \in S : s.id < nextRequest /\ s.id \in Nat
      BY <1>4, RequestConstants DEF IInv, Identities, Request, RequestConstants
    <2>2. nextRequest \in Nat
      BY DEF IInv, Identities
    <2>. QED BY <1>3, <2>1, <2>2
  <1>6. /\ tracker'.pending = S \cup {r}
        /\ tracker'.bodyBytes = tracker.bodyBytes + Bodies[r]
        /\ tracker'.textBytes = tracker.textBytes + Texts[r]
        /\ tracker'.outstanding = tracker.outstanding
        /\ tracker'.writeBytes = tracker.writeBytes
        /\ tracker'.instance = tracker.instance
    BY <1>2, <1>3, <1>4 DEF Inserted, TrackerShape, Bodies, Texts
  <1>7. /\ IsFiniteSet(S \cup {r})
        /\ SumOver(S \cup {r}, Bodies) = SumOver(S, Bodies) + Bodies[r]
        /\ SumOver(S \cup {r}, Texts) = SumOver(S, Texts) + Texts[r]
        /\ Cardinality(S \cup {r}) = Cardinality(S) + 1
        /\ Cardinality(S) \in Nat
    BY <1>3, <1>4, <1>5, WeightsAre, Added
  <1>8. Own' = Own /\ Asked' = Asked
    BY <1>6, SameQuestions DEF Register
  <1>9. /\ tracker.bodyBytes \in Int /\ tracker.textBytes \in Int
        /\ tracker.outstanding \in Int /\ tracker.writeBytes \in Int
    BY <1>4 DEF TrackerShape
  <1>10. MaxPending \in Nat /\ BodyBudget \in Nat /\ TextBudget \in Nat
         /\ MaxRequests \in Nat /\ nextRequest \in Nat
    BY RequestConstants DEF RequestConstants, IInv, Identities
  <1>11. Cardinality(S \cup {r}) + tracker.outstanding <= MaxPending
    <2>1. Cardinality(S) + tracker.outstanding < MaxPending
      BY DEF Register, HasCapacity
    <2>. QED BY <1>7, <1>9, <1>10, <2>1
  <1>12. /\ tracker.bodyBytes + Bodies[r] <= BodyBudget
         /\ tracker.textBytes + Texts[r] + tracker.writeBytes <= TextBudget
    <2>1. /\ r.kind = "network" => tracker.bodyBytes + r.bytes <= BodyBudget
          /\ r.kind = "write" =>
                tracker.textBytes + tracker.writeBytes + r.bytes <= TextBudget
      BY <1>2 DEF WithinBudgets
    <2>2. /\ Bodies[r] = IF r.kind = "network" THEN r.bytes ELSE 0
          /\ Texts[r] = IF r.kind = "write" THEN r.bytes ELSE 0
          /\ r.bytes \in Nat
      BY <1>3 DEF Bodies, Texts, BodyOf, TextOf, Request
    <2>3. tracker.bodyBytes <= BodyBudget
          /\ tracker.textBytes + tracker.writeBytes <= TextBudget
      BY DEF Accounts
    <2>. QED BY <1>9, <1>10, <2>1, <2>2, <2>3
  <1>13. nextRequest' <= MaxRequests + 1 /\ UNCHANGED <<questions, answered>>
    BY <1>10 DEF Register
  <1>. QED BY <1>6, <1>7, <1>8, <1>11, <1>12, <1>13 DEF Accounts

LEMMA AskAccounts ==
    ASSUME IInv, Accounts, NEW r \in tracker.pending, AskPermission(r)
    PROVE  Accounts'
  <1> DEFINE tr == Removed(tracker, r)
             rest == tracker.pending \ {r}
             new == [request |-> r, of |-> tracker.instance]
  <1>1. /\ IsFiniteSet(rest) /\ tr.pending = rest
        /\ tr.bodyBytes = SumOver(rest, Bodies) /\ tr.textBytes = SumOver(rest, Texts)
        /\ tr.bodyBytes \in Nat /\ tr.textBytes \in Nat
        /\ tr.bodyBytes <= tracker.bodyBytes
        /\ tr.outstanding = tracker.outstanding /\ tr.writeBytes = tracker.writeBytes
        /\ tr.instance = tracker.instance /\ tr \in TrackerShape
        /\ r \in Request /\ r.id \in 1..MaxRequests
    BY RemovedBalances
  <1>2. /\ Cardinality(tr.pending) + tr.outstanding + 1 <= MaxPending
        /\ tr.textBytes + tr.writeBytes + TextOf(r) <= TextBudget
        /\ tracker' = [tr EXCEPT !.outstanding = @ + 1, !.writeBytes = @ + TextOf(r)]
        /\ answered' = answered \cup {r.id}
        /\ questions' = questions \cup {new}
        /\ UNCHANGED nextRequest
    BY DEF AskPermission
  <1> HIDE DEF tr, rest
  <1>3. /\ tracker'.pending = rest
        /\ tracker'.bodyBytes = tr.bodyBytes /\ tracker'.textBytes = tr.textBytes
        /\ tracker'.outstanding = tracker.outstanding + 1
        /\ tracker'.writeBytes = tracker.writeBytes + Texts[r]
        /\ tracker'.instance = tracker.instance
    BY <1>1, <1>2 DEF TrackerShape, Texts
  <1>4. /\ Own' = Own \cup {new} /\ Asked' = Asked \cup {r}
    <2>1. Own' = Own \cup {new}
      BY <1>2, <1>3 DEF Own
    <2>2. new.request = r
      OBVIOUS
    <2> HIDE DEF new
    <2>3. {q.request : q \in Own \cup {new}} = {q.request : q \in Own} \cup {new.request}
      OBVIOUS
    <2>. QED BY <2>1, <2>2, <2>3 DEF Asked
  <1>5. r \notin Asked /\ Asked \in SUBSET Request /\ IsFiniteSet(Asked)
        /\ IsFiniteSet(Own)
    BY AskedAre
  <1>6. new \notin Own
    BY <1>5 DEF Asked
  <1>7. SumOver(Asked \cup {r}, Texts) = SumOver(Asked, Texts) + Texts[r]
    BY <1>1, <1>5, WeightsAre, Added
  <1>8. Cardinality(Own \cup {new}) = Cardinality(Own) + 1
        /\ IsFiniteSet(questions \cup {new})
    <2>1. IsFiniteSet(questions)
      BY DEF Accounts
    <2> HIDE DEF new
    <2>. QED BY <1>5, <1>6, <2>1, FS_AddElement
  <1>9. /\ tracker.outstanding = Cardinality(Own)
        /\ tracker.writeBytes = SumOver(Asked, Texts)
        /\ tracker.bodyBytes <= BodyBudget
        /\ \A q \in questions : q.request.id \in answered /\ q.of <= tracker.instance
        /\ nextRequest <= MaxRequests + 1
        /\ answered \subseteq 1..MaxRequests
    BY DEF Accounts
  <1>10. /\ tracker.bodyBytes \in Int /\ tracker.outstanding \in Int
         /\ tracker.writeBytes \in Int /\ tracker.instance \in Nat
         /\ Cardinality(rest) \in Nat /\ Texts[r] \in Nat /\ TextOf(r) = Texts[r]
    <2>1. tracker \in TrackerShape
      BY AskedAre
    <2>2. tracker.instance \in Nat
      BY <2>1, RequestConstants DEF TrackerShape, RequestConstants
    <2>3. Cardinality(rest) \in Nat
      BY <1>1, FS_CardinalityType
    <2>4. TextOf(r) = Texts[r] /\ Texts[r] \in Nat
      BY <1>1, WeightsAre DEF Texts
    <2>. QED BY <2>1, <2>2, <2>3, <2>4 DEF TrackerShape
  <1>11. MaxPending \in Nat /\ BodyBudget \in Nat /\ TextBudget \in Nat
    BY RequestConstants DEF RequestConstants
  <1>12. Cardinality(rest) + (tracker.outstanding + 1) <= MaxPending
    BY <1>1, <1>2, <1>10, <1>11
  <1>13. /\ tr.bodyBytes <= BodyBudget
         /\ tr.textBytes + (tracker.writeBytes + Texts[r]) <= TextBudget
    BY <1>1, <1>2, <1>9, <1>10, <1>11
  <1>14. \A q \in questions' : q.request.id \in answered' /\ q.of <= tracker'.instance
    BY <1>2, <1>3, <1>9, <1>10
  <1>15. answered' \subseteq 1..MaxRequests
    BY <1>1, <1>2, <1>9
  <1> HIDE DEF new
  <1>. QED BY <1>1, <1>2, <1>3, <1>4, <1>7, <1>8, <1>9, <1>12, <1>13, <1>14, <1>15
           DEF Accounts

LEMMA AnswerAccounts ==
    ASSUME IInv, Accounts, NEW q \in questions, AnswerQuestion(q)
    PROVE  Accounts'
  <1>1. /\ tracker \in TrackerShape /\ q.request \in Request
        /\ questions' = questions \ {q}
        /\ tracker' = Released(tracker, q)
        /\ UNCHANGED <<nextRequest, answered>>
    BY DEF IInv, Identities, Question, AnswerQuestion
  <1>2. IsFiniteSet(questions \ {q})
    BY FS_RemoveElement DEF Accounts
  <1>3. CASE q.of # tracker.instance
    <2>1. tracker' = tracker
      BY <1>1, <1>3 DEF Released
    <2>2. Own' = Own
      BY <1>1, <1>3, <2>1 DEF Own
    <2>3. Asked' = Asked
      BY <2>2 DEF Asked
    <2>. QED BY <1>1, <1>2, <2>1, <2>2, <2>3 DEF Accounts
  <1>4. CASE q.of = tracker.instance
    <2> DEFINE r == q.request
    <2>1. /\ tracker'.pending = tracker.pending
          /\ tracker'.bodyBytes = tracker.bodyBytes
          /\ tracker'.textBytes = tracker.textBytes
          /\ tracker'.outstanding = tracker.outstanding - 1
          /\ tracker'.writeBytes = tracker.writeBytes - Texts[r]
          /\ tracker'.instance = tracker.instance
      BY <1>1, <1>4 DEF Released, TrackerShape, Texts
    <2>2. q \in Own /\ Own' = Own \ {q}
      BY <1>1, <1>4, <2>1 DEF Own
    <2>3. Asked' = Asked \ {r} /\ r \in Asked
      <3>1. \A p \in Own : p.request = r => p = q
        BY <2>2, AskedAre
      <3>. QED BY <2>2, <3>1 DEF Asked
    <2>4. /\ Asked \in SUBSET Request /\ IsFiniteSet(Asked) /\ IsFiniteSet(Own)
          /\ Cardinality(tracker.pending) \in Nat
      BY AskedAre
    <2>5. /\ SumOver(Asked \ {r}, Texts) = SumOver(Asked, Texts) - Texts[r]
          /\ Texts[r] \in Nat
      <3> HIDE DEF r
      <3>. QED BY <2>3, <2>4, WeightsAre, TakenFrom
    <2>6. Cardinality(Own \ {q}) = Cardinality(Own) - 1
      BY <2>2, <2>4, FS_RemoveElement
    <2>7. /\ tracker.outstanding = Cardinality(Own)
          /\ tracker.writeBytes = SumOver(Asked, Texts)
          /\ Cardinality(tracker.pending) + tracker.outstanding <= MaxPending
          /\ tracker.textBytes + tracker.writeBytes <= TextBudget
      BY DEF Accounts
    <2>8. /\ tracker.textBytes \in Int /\ tracker.outstanding \in Int
          /\ tracker.writeBytes \in Int
      BY <1>1 DEF TrackerShape
    <2>9. MaxPending \in Nat /\ TextBudget \in Nat
      BY RequestConstants DEF RequestConstants
    <2> HIDE DEF r
    <2>10. Cardinality(tracker.pending) + (tracker.outstanding - 1) <= MaxPending
      BY <2>4, <2>7, <2>8, <2>9
    <2>11. tracker.textBytes + (tracker.writeBytes - Texts[r]) <= TextBudget
      BY <2>5, <2>7, <2>8, <2>9
    <2>. QED BY <1>1, <1>2, <2>1, <2>2, <2>3, <2>5, <2>6, <2>7, <2>10, <2>11
             DEF Accounts
  <1>. QED BY <1>3, <1>4

\* A new tracker owes nothing: the questions of the old ones are not its own.
FreshTracker ==
    /\ tracker = NewTracker(tracker.instance)
    /\ IsFiniteSet(questions)
    /\ \A q \in questions :
          /\ q.request.id \in answered
          /\ q.of <= tracker.instance /\ q.of # tracker.instance
    /\ nextRequest <= MaxRequests + 1 /\ answered \subseteq 1..MaxRequests

LEMMA FreshAccounts == FreshTracker => Accounts
  <1> SUFFICES ASSUME FreshTracker PROVE Accounts
    OBVIOUS
  <1>1. /\ tracker.pending = {} /\ tracker.bodyBytes = 0 /\ tracker.textBytes = 0
        /\ tracker.outstanding = 0 /\ tracker.writeBytes = 0
    BY DEF FreshTracker, NewTracker
  <1>2. Own = {}
    BY DEF Own, FreshTracker
  <1>3. Asked = {}
    BY <1>2 DEF Asked
  <1>4. IsFiniteSet({}) /\ Cardinality({}) = 0
    BY FS_EmptySet
  <1>5. SumOver({}, Bodies) = 0 /\ SumOver({}, Texts) = 0
    BY <1>4, SumStep
  <1>6. MaxPending \in Nat /\ BodyBudget \in Nat /\ TextBudget \in Nat
    BY RequestConstants DEF RequestConstants
  <1>. QED BY <1>1, <1>2, <1>3, <1>4, <1>5, <1>6 DEF Accounts, FreshTracker

LEMMA ReplaceAccounts == ASSUME IInv, Accounts, ReplaceTracker PROVE Accounts'
  <1>1. /\ tracker' = NewTracker(tracker.instance + 1)
        /\ UNCHANGED <<nextRequest, questions, answered>>
    BY DEF ReplaceTracker, NextIdentity
  <1>2. tracker.instance \in Nat /\ \A q \in questions : q.of \in Nat
    BY RequestConstants DEF IInv, Identities, TrackerShape, Question, RequestConstants
  <1>3. tracker'.instance = tracker.instance + 1
    BY <1>1 DEF NewTracker
  <1>4. \A q \in questions : q.of <= tracker'.instance /\ q.of # tracker'.instance
    BY <1>2, <1>3 DEF Accounts
  <1>5. FreshTracker'
    BY <1>1, <1>3, <1>4 DEF FreshTracker, Accounts
  <1>6. FreshTracker' => Accounts'
    BY FreshAccounts, PTL
  <1>. QED BY <1>5, <1>6

LEMMA SameAccounts ==
    ASSUME Accounts, UNCHANGED <<tracker, questions, nextRequest, answered>>
    PROVE  Accounts'
  <1>1. Own' = Own /\ Asked' = Asked
    BY SameQuestions
  <1>. QED BY <1>1 DEF Accounts

LEMMA AccountsStep == IInv /\ Accounts /\ [Next]_vars => Accounts'
  <1> SUFFICES ASSUME IInv, Accounts, [Next]_vars PROVE Accounts'
    OBVIOUS
  <1>1. CASE EngineNext /\ UNCHANGED requests
    BY <1>1, SameAccounts DEF requests
  <1>2. ASSUME NEW t \in Tab, Register(t) PROVE Accounts'
    BY <1>2, RegisterAccounts, RegisterPreserves
  <1>3. ASSUME NEW r \in tracker.pending, Discard(r) \/ AuthorizeNetwork(r)
        PROVE Accounts'
    BY <1>3, TakeAccounts DEF Discard, AuthorizeNetwork
  <1>4. ASSUME NEW r \in tracker.pending, AskPermission(r) PROVE Accounts'
    BY <1>4, AskAccounts
  <1>5. ASSUME NEW q \in questions, AnswerQuestion(q) PROVE Accounts'
    BY <1>5, AnswerAccounts
  <1>6. ASSUME NEW a \in authorizations, Revoke(a) \/ Prepare(a) \/ Abandon(a)
        PROVE Accounts'
    <2>1. UNCHANGED <<tracker, questions, nextRequest, answered>>
      BY <1>6 DEF Revoke, Prepare, Abandon
    <2>. QED BY <2>1, SameAccounts
  <1>7. CASE ReplaceTracker
    BY <1>7, ReplaceAccounts
  <1>8. CASE UNCHANGED vars
    BY <1>8, SameAccounts DEF vars, requests
  <1>. QED BY <1>1, <1>2, <1>3, <1>4, <1>5, <1>6, <1>7, <1>8 DEF Next

LEMMA AccountsInit == Init => Accounts
  <1> SUFFICES ASSUME Init PROVE Accounts
    OBVIOUS
  <1>1. /\ tracker = NewTracker(1) /\ questions = {} /\ answered = {}
        /\ nextRequest = 1
    BY DEF Init
  <1>2. MaxRequests \in Nat /\ IsFiniteSet({})
    BY RequestConstants, FS_EmptySet DEF RequestConstants
  <1>3. FreshTracker
    BY <1>1, <1>2 DEF FreshTracker, NewTracker
  <1>. QED BY <1>3, FreshAccounts

LEMMA AccountsHold == IInv /\ Accounts => AccountsAreExact
  <1> SUFFICES ASSUME IInv, Accounts PROVE AccountsAreExact
    OBVIOUS
  <1>1. /\ tracker \in TrackerShape /\ tracker.pending \in SUBSET Request
        /\ Asked \in SUBSET Request
        /\ Cardinality(Own) \in Nat
        /\ \A S \in {tracker.pending, Asked} :
              SumOver(S, Bodies) \in Nat /\ SumOver(S, Texts) \in Nat
    BY AskedAre
  <1>2. TypeOK
    <2>1. TransportTypeOK
      BY DEF IInv, EInv, Typed, Network, TransportTypeOK
    <2>2. EngineTypeOK
      BY DEF IInv, EInv, Typed, Shape, View, EngineTypeOK
    <2>3. tracker \in [instance : 1..MaxTrackers, pending : SUBSET Request,
                       bodyBytes : Nat, textBytes : Nat,
                       outstanding : Nat, writeBytes : Nat]
      BY <1>1 DEF TrackerShape, Accounts
    <2>4. nextRequest \in 1..(MaxRequests + 1)
      BY RequestConstants DEF IInv, Identities, Accounts, RequestConstants
    <2>. QED BY <2>1, <2>2, <2>3, <2>4
             DEF TypeOK, IInv, Holders, Identities, Accounts
  <1>3. /\ Total(tracker.pending, BodyOf) = SumOver(tracker.pending, Bodies)
        /\ Total(tracker.pending, TextOf) = SumOver(tracker.pending, Texts)
    BY <1>1, TotalIs
  <1>4. Total({q.request : q \in Own}, TextOf) = SumOver(Asked, Texts)
    <2>1. Total(Asked, TextOf) = SumOver(Asked, Texts)
      BY <1>1, TotalIs
    <2>. QED BY <2>1 DEF Asked
  <1>. QED BY <1>2, <1>3, <1>4 DEF AccountsAreExact, Accounts

-----------------------------------------------------------------------------
(* Theorems.                                                               *)

\* Whatever order loads, navigations, failures, cancellations, closings and
\* replacements of the host come in, the references of the views and the live
\* contexts, capabilities and network operations correspond one to one.
THEOREM NoLeak == Spec => []NothingLeaks
  <1>1. IInv => NothingLeaks
    BY EInvLeaks DEF IInv
  <1>. QED BY <1>1, Invariance, PTL

\* A view speaks for the document it shows and for no other.
THEOREM AuthorityIsOfDocument == Spec => []AuthorityFollowsDocument
  <1>1. IInv => AuthorityFollowsDocument
    BY DEF IInv, EInv
  <1>. QED BY <1>1, Invariance, PTL

\* A capability that an authorization of this host still holds is for the document
\* its tab shows now.
THEOREM HeldIsCurrent == Spec => []CapabilitiesAreCurrent
  <1>1. IInv => CapabilitiesAreCurrent
    BY DEF IInv, Holders
  <1>. QED BY <1>1, Invariance, PTL

\* No request identity is taken out of a tracker twice.
THEOREM TakenOnce == Spec => AnsweredOnce
  <1>1. IInv => \A r \in tracker.pending : r.id \notin answered
    BY DEF IInv, Identities
  <1>2. IInv /\ [Next]_vars =>
           [\A r \in tracker.pending :
               tracker'.instance = tracker.instance /\ r \notin tracker'.pending =>
                   r.id \notin answered]_vars
    BY <1>1
  <1>. QED BY <1>2, Invariance, PTL DEF Spec, AnsweredOnce

\* The tracker's counters are the sums over what it retains, and within its
\* limits, whatever order registrations, answers and replacements come in.
THEOREM AccountsExact == Spec => []AccountsAreExact
  <1>1. IInv /\ Accounts => AccountsAreExact
    BY AccountsHold
  <1>2. Init => Accounts
    BY AccountsInit
  <1>3. IInv /\ Accounts /\ [Next]_vars => Accounts'
    BY AccountsStep
  <1>. QED BY <1>1, <1>2, <1>3, Invariance, PTL DEF Spec
=============================================================================
