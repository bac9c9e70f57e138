----------------------------- MODULE TabHistory -----------------------------
(***************************************************************************)
(* The navigation state of a tab (navigation.rs), as functions of the      *)
(* state p: the entries a tab has been to, the one it shows, and the       *)
(* navigation it waits for.  Identities are positive; 0 stands for none.   *)
(* The location an intent asks for and the last failure are only shown,    *)
(* and are left out.                                                      *)
(***************************************************************************)
EXTENDS SequencesExt, Integers

CONSTANTS
    Location,
    MaxEntries      \* MAX_TAB_HISTORY_ENTRIES

ASSUME HistoryConstants == MaxEntries \in Nat \ {0}

\* NavigationIntent: a new document if entry is 0, else a reload or traversal.
Intent(id, entry) == [id |-> id, entry |-> entry]
NoIntent == Intent(0, 0)

Entry(id, location) == [id |-> id, location |-> location]

NewTab == [history |-> <<>>, current |-> 0, pending |-> NoIntent]

TabTypeOK(p) ==
    /\ \A i \in DOMAIN p.history :
          p.history[i].id \in Nat \ {0} /\ p.history[i].location \in Location
    /\ p.current \in Nat
    /\ p.pending.id \in Nat /\ p.pending.entry \in Nat

EntryIds(p) == {p.history[i].id : i \in DOMAIN p.history}

\* current_index, counted from 1; 0 if the current entry is not in the history.
CurrentIndex(p) ==
    SelectInSeq(p.history, LAMBDA e : e.id = p.current)

\* current_entry
Committed(p) == CurrentIndex(p) # 0
CurrentLocation(p) == p.history[CurrentIndex(p)].location

\* back_target, forward_target, reload_target: an entry, 0 if there is none.
EntryAt(p, i) == IF i \in DOMAIN p.history THEN p.history[i].id ELSE 0
BackTarget(p) == IF Committed(p) THEN EntryAt(p, CurrentIndex(p) - 1) ELSE 0
ForwardTarget(p) == IF Committed(p) THEN EntryAt(p, CurrentIndex(p) + 1) ELSE 0
ReloadTarget(p) == EntryAt(p, CurrentIndex(p))

Start(p, intent) == [p EXCEPT !.pending = intent]

\* stop, and fail
Stopped(p) == [p EXCEPT !.pending = NoIntent]

\* enforce_history_limit: the oldest entries go.
WithinLimit(h) == IF Len(h) > MaxEntries THEN SubSeq(h, Len(h) - MaxEntries + 1, Len(h)) ELSE h

\* commit_new: what was ahead of the current entry is forgotten.
CommitNew(p, entry) ==
    [history |-> WithinLimit(Append(SubSeq(p.history, 1, CurrentIndex(p)), entry)),
     current |-> entry.id, pending |-> NoIntent]

\* commit_existing: the entry is where the page turned out to be.
CommitExisting(p, entry, location) ==
    [p EXCEPT !.history = [i \in DOMAIN @ |->
                  IF @[i].id = entry THEN Entry(entry, location) ELSE @[i]],
              !.current = entry, !.pending = NoIntent]
=============================================================================
