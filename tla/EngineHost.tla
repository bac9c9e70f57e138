----------------------------- MODULE EngineHost -----------------------------
(***************************************************************************)
(* The engine's host (engine.rs): the views of the tabs, the navigations   *)
(* they have under way and the documents they show, with the authority     *)
(* each is given by the host control plane of the engine's library: a      *)
(* navigation context, and capabilities that live no longer than their     *)
(* context.  Every call is made by one thread and runs to its end; what    *)
(* moves between calls is the transport.                                   *)
(*                                                                         *)
(* The host control plane numbers contexts and capabilities from 1 in each *)
(* host, so that a replacement host uses the same numbers again; only its  *)
(* instance number is new.  A navigation and its network operation are     *)
(* named by the context opened for them.  A call for a navigation that is  *)
(* not the view's pending one is answered Stale and changes nothing.       *)
(***************************************************************************)
EXTENDS HttpTransport

CONSTANTS
    Tab,
    Site,               \* sites of remote documents, see WebUrl::site_identity
    MaxHosts            \* bound: hosts the process makes

ASSUME HostConstants ==
    /\ MaxHosts \in Nat \ {0}
    /\ Site \cap {"local", "internal"} = {}

VARIABLES
    host,               \* EngineHost's instance, and its HostControlPlane
    views               \* for each tab its HostedView

engine == <<host, views, network>>

\* A new view shows an empty local document.
Document == Site \cup {"local", "internal"}
None == 0               \* no context, no capability

\* loading is the navigation the engine's view itself believes pending.
NoView == [open |-> FALSE, pending |-> None, capability |-> None,
           loading |-> None, committed |-> None, internal |-> FALSE,
           document |-> "local"]
NewView == [NoView EXCEPT !.open = TRUE]
StartPage == [NewView EXCEPT !.internal = TRUE, !.document = "internal"]

NewHost(instance) ==
    [instance |-> instance, contexts |-> {}, nextContext |-> 1,
     capabilities |-> {}, nextCapability |-> 1]

EngineTypeOK ==
    /\ host \in [instance : 1..MaxHosts, contexts : SUBSET [id : Ticket, site : Site],
                 nextContext : Nat \ {0},
                 capabilities : SUBSET [id : Nat \ {0}, context : Ticket],
                 nextCapability : Nat \ {0}]
    /\ views \in [Tab -> [open : BOOLEAN, pending : {None} \cup Ticket,
                          capability : Nat, loading : {None} \cup Ticket,
                          committed : {None} \cup Ticket, internal : BOOLEAN,
                          document : Document]]

EngineInit ==
    /\ host = NewHost(1)
    /\ views = [t \in Tab |-> NoView]
    /\ network = NoTransport

-----------------------------------------------------------------------------
(* The host control plane, as the calls below use it.                      *)

\* open_navigation_context.
Opened(h, site) ==
    [h EXCEPT !.contexts = @ \cup {[id |-> h.nextContext, site |-> site]},
              !.nextContext = @ + 1]

\* close_navigation_context: the context's capabilities go with it.
Closed(h, c) ==
    [h EXCEPT !.contexts = {x \in @ : x.id # c},
              !.capabilities = {x \in @ : x.context # c}]

\* grant_navigation_context_network_capability.
Granted(h, c) ==
    [h EXCEPT !.capabilities = @ \cup {[id |-> h.nextCapability, context |-> c]},
              !.nextCapability = @ + 1]

Revoked(h, k) == [h EXCEPT !.capabilities = {x \in @ : x.id # k}]

-----------------------------------------------------------------------------
(* The committed document of a tab.                                        *)

\* EngineCommittedDocumentSource: the site stands for origin and process.
SourceOf(t) ==
    [host |-> host.instance, tab |-> t, context |-> views[t].committed,
     site |-> views[t].document]

\* committed_document_source yields one.
HasSource(t) == views[t].open /\ views[t].committed # None

\* validate_committed_document_source.
IsCurrent(s) == HasSource(s.tab) /\ SourceOf(s.tab) = s

-----------------------------------------------------------------------------
CreateView(t) ==
    /\ ~views[t].open
    /\ views' = [views EXCEPT ![t] = NewView]
    /\ UNCHANGED <<host, network>>

\* cancel_pending_authority: the operation ends before its context.
WithoutPending(h, v) == Closed(h, v.pending)

\* Mutation of WithoutBoth: the committed context stays open.
KeepsCommitted(h, v) == WithoutPending(h, v)

\* What a view that stops showing its document gives back.
WithoutBoth(h, v) == Closed(WithoutPending(h, v), v.committed)

CloseView(t) ==
    /\ views[t].open
    /\ views' = [views EXCEPT ![t] = NoView]
    /\ host' = WithoutBoth(host, views[t])
    /\ network' = Forgotten(network, views[t].pending)

\* load_local_html, and load_internal_page, which alone sets the token.
LoadDocument(t) ==
    /\ views[t].open
    /\ views' \in {[views EXCEPT ![t] = NewView], [views EXCEPT ![t] = StartPage]}
    /\ host' = WithoutBoth(host, views[t])
    /\ network' = Forgotten(network, views[t].pending)

\* Mutation of Still: the document's authority goes with the navigation.
StillWithout(v) ==
    [v EXCEPT !.pending = None, !.capability = None, !.loading = None,
              !.committed = None]

\* A view as it was before the navigation it no longer makes.
Still(v) == [v EXCEPT !.pending = None, !.capability = None, !.loading = None]

\* The transport is built for the first navigation and takes this one.
TransportTakes(cleared, id) ==
    LET net == IF cleared.built THEN Drained(cleared) ELSE NewTransport
    IN /\ Accepts(net)
       /\ network' = Started(net, id)

\* The transport could not be built, or refused: it may be full.
TransportRefuses(cleared) ==
    \/ /\ ~cleared.built
       /\ network' = cleared
    \/ /\ cleared.built
       /\ ~Accepts(Drained(cleared))
       /\ network' = Drained(cleared)

\* A location the policy blocks changes nothing.  Any other supersedes the
\* pending navigation first.  The control plane may refuse a context or a
\* capability; then, as when the transport refuses, what the navigation had
\* got is given back (its numbers are used up) and the view's own navigation
\* is cancelled.
BeginNavigation(t, site) ==
    LET before == WithoutPending(host, views[t])
        cleared == Forgotten(network, views[t].pending)
        id == before.nextContext
        opened == Opened(before, site)
        granted == Granted(opened, id)
    IN /\ views[t].open
       /\ id \in Ticket
       /\ \/ /\ TransportTakes(cleared, id)
             /\ host' = granted
             /\ views' = [views EXCEPT ![t].pending = id,
                                      ![t].capability = opened.nextCapability,
                                      ![t].loading = id]
          \/ /\ \/ /\ host' \in {before, Closed(granted, id)}
                   /\ network' = cleared
                \/ /\ host' = Closed(granted, id)
                   /\ TransportRefuses(cleared)
             /\ views' = [views EXCEPT ![t] = Still(@)]

SiteOf(c) == (CHOOSE x \in host.contexts : x.id = c).site

\* The document takes the place of the one the view showed.
CommitDocument(t) ==
    /\ host' = Closed(Revoked(host, views[t].capability), views[t].committed)
    /\ views' = [views EXCEPT
          ![t] = [NewView EXCEPT !.committed = views[t].pending,
                                 !.document = SiteOf(views[t].pending)]]

\* The engine or the transport gave the navigation up.
DropNavigation(t) ==
    /\ host' = WithoutPending(host, views[t])
    /\ views' = [views EXCEPT ![t] = Still(@)]

\* A complete response is committed or refused by the engine.
PollNavigation(t) ==
    LET net == Drained(network)
        results == ReadyResults(net, views[t].pending)
    IN /\ views[t].pending # None
       /\ \/ /\ results = {}
             /\ network' = net
             /\ UNCHANGED <<host, views>>
          \/ /\ results # {}
             /\ network' = Forgotten(net, views[t].pending)
             /\ \/ results = {"ok"} /\ CommitDocument(t)
                \/ DropNavigation(t)

CancelNavigation(t) ==
    /\ views[t].pending # None
    /\ DropNavigation(t)
    /\ network' = Forgotten(network, views[t].pending)

\* The worker makes a new host; the old one and its transport are dropped.
ReplaceHost ==
    /\ host.instance < MaxHosts
    /\ host' = NewHost(host.instance + 1)
    /\ views' = [t \in Tab |-> NoView]
    /\ network' = NoTransport

Worker == TransportNext /\ UNCHANGED <<host, views>>

EngineNext ==
    \/ \E t \in Tab :
          \/ CreateView(t) \/ CloseView(t) \/ LoadDocument(t)
          \/ \E site \in Site : BeginNavigation(t, site)
          \/ PollNavigation(t) \/ CancelNavigation(t)
    \/ ReplaceHost
    \/ Worker

-----------------------------------------------------------------------------
(***************************************************************************)
(* A view's references and the authority they name are one to one: the     *)
(* engine's view and the host agree on the pending navigation, its context *)
(* and capability are live and its operation is in the transport, the      *)
(* context of the committed document is live; and nothing else is.  So no  *)
(* cleanup call of engine.rs fails, whatever order loads, navigations,     *)
(* failures and closings come in, and nothing is left behind.              *)
(***************************************************************************)
NothingLeaks ==
    /\ \A t \in Tab :
          /\ views[t].loading = views[t].pending
          /\ views[t].pending # None =>
                [id |-> views[t].capability, context |-> views[t].pending]
                    \in host.capabilities
    /\ network.active = {views[t].pending : t \in Tab} \ {None}
    /\ \A e \in network.ready : e[1] \in network.active
    /\ {x.id : x \in host.contexts} =
           (UNION {{views[t].pending, views[t].committed} : t \in Tab}) \ {None}
    /\ \A t, u \in Tab :
          {views[t].pending, views[t].committed} \cap
          {views[u].pending, views[u].committed} \subseteq {None} \/ t = u
    /\ \A x \in host.capabilities : \E c \in host.contexts : x.context = c.id

(***************************************************************************)
(* What a view may speak for is what it shows: a remote document has the   *)
(* live context of its own site and no other has one, and only the bundled *)
(* page has an internal token.  Navigations that fail, are blocked,        *)
(* superseded or cancelled leave the document and its authority in place   *)
(* (docs/Z4_SECURITY_BOUNDARIES.md: "Internal and remote committed         *)
(* authority are mutually exclusive").                                     *)
(***************************************************************************)
AuthorityFollowsDocument ==
    \A t \in Tab :
        /\ views[t].internal <=> views[t].document = "internal"
        /\ views[t].committed # None <=> views[t].document \in Site
        /\ views[t].committed # None =>
              [id |-> views[t].committed, site |-> views[t].document]
                  \in host.contexts
=============================================================================
