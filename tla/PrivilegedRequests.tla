------------------------- MODULE PrivilegedRequests -------------------------
(***************************************************************************)
(* Privileged requests (privileged_request.rs, network_target_policy.rs)   *)
(* and what becomes of them: a document asks, through its source, for the  *)
(* network or for the clipboard; the tracker holds a bounded number of     *)
(* such requests within budgets for the bytes they retain; each is taken   *)
(* once, and judged against what the tab shows then.  A network request    *)
(* becomes an authorization with a capability of the host, a clipboard     *)
(* request a permission question that still counts against the tracker     *)
(* until it is answered or dropped.  Trackers and hosts may be replaced    *)
(* while copies of requests, authorizations and questions live on.         *)
(*                                                                         *)
(* A request is registered with the source as it was minted: what is stale *)
(* becomes so between registration and use.  A request over its own limits *)
(* or over the tracker's is refused and changes nothing.  The arguments a  *)
(* request carries besides its payload are judged by limits of their own   *)
(* and are left out.                                                       *)
(***************************************************************************)
EXTENDS EngineHost, FiniteSetsExt

CONSTANTS
    MaxPending,     \* max_pending
    BodyBudget,     \* max_pending_network_body_bytes
    TextBudget,     \* max_pending_clipboard_text_bytes
    Payload,        \* sizes of bodies and of texts to write
    MaxRequests,    \* bound: requests registered
    MaxTrackers     \* bound: trackers made

ASSUME RequestConstants ==
    /\ {MaxPending, BodyBudget, TextBudget} \subseteq Nat \ {0}
    /\ Payload \subseteq Nat
    /\ MaxRequests \in Nat /\ MaxTrackers \in Nat \ {0}

VARIABLES
    tracker,        \* EnginePrivilegedRequestTracker and its accounting
    nextRequest,    \* NEXT_ENGINE_PRIVILEGED_REQUEST_ID
    authorizations, \* network authorizations the product holds
    questions,      \* clipboard permission requests it holds
    answered        \* identities a tracker has taken out

requests == <<tracker, nextRequest, authorizations, questions, answered>>
vars == <<engine, requests>>

Kind == {"network", "read", "write"}
Source == [host : 1..MaxHosts, tab : Tab, context : Ticket, site : Site]
Request == [id : 1..MaxRequests, kind : Kind, source : Source, bytes : Nat]
Authorization ==
    [id : 1..MaxRequests, source : Source, capability : Nat, prepared : BOOLEAN]
Question == [request : Request, of : 1..MaxTrackers]

NewTracker(n) ==
    [instance |-> n, pending |-> {}, bodyBytes |-> 0, textBytes |-> 0,
     outstanding |-> 0, writeBytes |-> 0]

TypeOK ==
    /\ TransportTypeOK
    /\ EngineTypeOK
    /\ tracker \in [instance : 1..MaxTrackers, pending : SUBSET Request,
                    bodyBytes : Nat, textBytes : Nat,
                    outstanding : Nat, writeBytes : Nat]
    /\ nextRequest \in 1..(MaxRequests + 1)
    /\ authorizations \subseteq Authorization
    /\ questions \subseteq Question
    /\ answered \subseteq 1..MaxRequests

Init ==
    /\ EngineInit
    /\ tracker = NewTracker(1)
    /\ nextRequest = 1
    /\ authorizations = {}
    /\ questions = {}
    /\ answered = {}

-----------------------------------------------------------------------------
(* Registration.                                                           *)

BodyOf(r) == IF r.kind = "network" THEN r.bytes ELSE 0
TextOf(r) == IF r.kind = "write" THEN r.bytes ELSE 0

\* ensure_capacity: requests pending and questions not yet answered.
HasCapacity(tr) == Cardinality(tr.pending) + tr.outstanding < MaxPending

WithinBudgets(tr, r) ==
    /\ r.kind = "network" => tr.bodyBytes + r.bytes <= BodyBudget
    /\ r.kind = "write" => tr.textBytes + tr.writeBytes + r.bytes <= TextBudget

Inserted(tr, r) ==
    [tr EXCEPT !.pending = @ \cup {r}, !.bodyBytes = @ + BodyOf(r),
               !.textBytes = @ + TextOf(r)]

\* register_clipboard_read, register_clipboard_write and register_network.
Register(t) ==
    /\ HasSource(t)
    /\ nextRequest <= MaxRequests
    /\ HasCapacity(tracker)
    /\ \E kind \in Kind, bytes \in Payload :
          LET r == [id |-> nextRequest, kind |-> kind, source |-> SourceOf(t),
                    bytes |-> IF kind = "read" THEN 0 ELSE bytes]
          IN /\ WithinBudgets(tracker, r)
             /\ tracker' = Inserted(tracker, r)
    /\ nextRequest' = nextRequest + 1
    /\ UNCHANGED <<engine, authorizations, questions, answered>>

-----------------------------------------------------------------------------
(* Consumption.  A copy that is not in the tracker is UnknownRequest.      *)

\* remove_pending: out and off the accounts before anything is compared.
Removed(tr, r) ==
    [tr EXCEPT !.pending = @ \ {r}, !.bodyBytes = @ - BodyOf(r),
               !.textBytes = @ - TextOf(r)]

\* Mutation of MayGrant: the source is not looked at again.
SameHost(s) == s.host = host.instance

MayGrant(s) == IsCurrent(s)

\* discard_network_once and discard_clipboard_once; also a copy that does not
\* match what is stored under its identity, which burns the slot.
Discard(r) ==
    /\ tracker' = Removed(tracker, r)
    /\ answered' = answered \cup {r.id}
    /\ UNCHANGED <<engine, nextRequest, authorizations, questions>>

\* authorize_network_once: a stale source, a target of another site or of no
\* site, and a control plane that refuses end the request as Discard does.
AuthorizeNetwork(r) ==
    /\ r.kind = "network"
    /\ MayGrant(r.source)
    /\ tracker' = Removed(tracker, r)
    /\ answered' = answered \cup {r.id}
    /\ host' = Granted(host, r.source.context)
    /\ authorizations' = authorizations \cup
          {[id |-> r.id, source |-> r.source,
            capability |-> host.nextCapability, prepared |-> FALSE]}
    /\ UNCHANGED <<views, network, nextRequest, questions>>

\* request_clipboard_permission_once, with its lease.
AskPermission(r) ==
    LET tr == Removed(tracker, r)
    IN /\ r.kind # "network"
       /\ IsCurrent(r.source)
       /\ Cardinality(tr.pending) + tr.outstanding + 1 <= MaxPending
       /\ tr.textBytes + tr.writeBytes + TextOf(r) <= TextBudget
       /\ tracker' = [tr EXCEPT !.outstanding = @ + 1, !.writeBytes = @ + TextOf(r)]
       /\ answered' = answered \cup {r.id}
       /\ questions' = questions \cup {[request |-> r, of |-> tracker.instance]}
       /\ UNCHANGED <<engine, nextRequest, authorizations>>

-----------------------------------------------------------------------------
(* What the product does with what it was given.                           *)

\* Mutation of Released: a lease of an old tracker is taken off the new one.
ReleasedAnywhere(tr, q) ==
    [tr EXCEPT !.outstanding = @ - 1, !.writeBytes = @ - TextOf(q.request)]

\* The lease belongs to the tracker that gave it.
Released(tr, q) ==
    IF q.of = tr.instance
       THEN [tr EXCEPT !.outstanding = @ - 1, !.writeBytes = @ - TextOf(q.request)]
       ELSE tr

\* resolve_once with any choice, deny, and a question dropped unanswered.
AnswerQuestion(q) ==
    /\ questions' = questions \ {q}
    /\ tracker' = Released(tracker, q)
    /\ UNCHANGED <<engine, nextRequest, authorizations, answered>>

Ours(a) == a.source.host = host.instance

\* revoke_network_authorization and revoke_prepared_network_request; another
\* host's authorization is refused, and is gone.
Revoke(a) ==
    /\ authorizations' = authorizations \ {a}
    /\ host' = IF Ours(a) THEN Revoked(host, a.capability) ELSE host
    /\ UNCHANGED <<views, network, tracker, nextRequest, questions, answered>>

\* prepare_network_authorization: judged again, and the request rebuilt.
Prepare(a) ==
    /\ ~a.prepared
    /\ \/ /\ Ours(a) /\ IsCurrent(a.source)
          /\ authorizations' =
                (authorizations \ {a}) \cup {[a EXCEPT !.prepared = TRUE]}
          /\ UNCHANGED <<host, views, network>>
          /\ UNCHANGED <<tracker, nextRequest, questions, answered>>
       \/ Revoke(a)

\* An authorization dropped: its capability lives on with the context.
Abandon(a) ==
    /\ authorizations' = authorizations \ {a}
    /\ UNCHANGED <<engine, tracker, nextRequest, questions, answered>>

\* Mutation of NextIdentity: each tracker counts its own requests.
RestartedIdentity == 1

\* Identities are the process's: a new tracker goes on where the last stood.
NextIdentity == nextRequest

ReplaceTracker ==
    /\ tracker.instance < MaxTrackers
    /\ tracker' = NewTracker(tracker.instance + 1)
    /\ nextRequest' = NextIdentity
    /\ UNCHANGED <<engine, authorizations, questions, answered>>

Next ==
    \/ EngineNext /\ UNCHANGED requests
    \/ \E t \in Tab : Register(t)
    \/ \E r \in tracker.pending :
          Discard(r) \/ AuthorizeNetwork(r) \/ AskPermission(r)
    \/ \E q \in questions : AnswerQuestion(q)
    \/ \E a \in authorizations : Revoke(a) \/ Prepare(a) \/ Abandon(a)
    \/ ReplaceTracker

Spec == Init /\ [][Next]_vars

-----------------------------------------------------------------------------
(***************************************************************************)
(* The counters are what is retained: the bytes of the requests pending,   *)
(* the questions of this tracker that wait for an answer and their bytes;  *)
(* together within the tracker's limits.  Every way out of the tracker and *)
(* every answer, early, late or after a replacement, gives back exactly    *)
(* what its registration took.  The state keeps its types as well.         *)
(***************************************************************************)
Own == {q \in questions : q.of = tracker.instance}
Total(S, bytes(_)) == MapThenSumSet(bytes, S)

AccountsAreExact ==
    /\ TypeOK
    /\ tracker.bodyBytes = Total(tracker.pending, BodyOf)
    /\ tracker.textBytes = Total(tracker.pending, TextOf)
    /\ tracker.outstanding = Cardinality(Own)
    /\ tracker.writeBytes = Total({q.request : q \in Own}, TextOf)
    /\ Cardinality(tracker.pending) + tracker.outstanding <= MaxPending
    /\ tracker.bodyBytes <= BodyBudget
    /\ tracker.textBytes + tracker.writeBytes <= TextBudget

(***************************************************************************)
(* A capability that an authorization still holds in this host is for the  *)
(* document its tab shows now: when the document goes, by navigation,      *)
(* load, closing or a new host, so does every capability granted to it,    *)
(* prepared or not.  Authorizations of an earlier host are left aside      *)
(* (Ours): the new one gives their numbers out again.                      *)
(***************************************************************************)
CapabilitiesAreCurrent ==
    \A a \in authorizations :
        Ours(a) /\ (\E x \in host.capabilities : x.id = a.capability) =>
            /\ IsCurrent(a.source)
            /\ [id |-> a.capability, context |-> a.source.context]
                  \in host.capabilities

(***************************************************************************)
(* A request is taken once: no identity a tracker has taken out is taken   *)
(* out again, by a copy or by a request of a later tracker.                *)
(***************************************************************************)
AnsweredOnce ==
    [][\A r \in tracker.pending :
          tracker'.instance = tracker.instance /\ r \notin tracker'.pending =>
              r.id \notin answered]_vars
=============================================================================
