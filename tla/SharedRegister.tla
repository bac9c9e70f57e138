---------------------------- MODULE SharedRegister ----------------------------
(***************************************************************************)
(* What a store of a profile promises to the sessions that use it: one     *)
(* numbered record that is replaced as a whole.  A session replaces the    *)
(* record only if it has seen the newest one, the numbers only grow, and a *)
(* session is told that its save succeeded only while its record is the    *)
(* newest one.  So no acknowledged save is ever lost or overwritten by     *)
(* somebody who has not read it, whatever crashes.                         *)
(***************************************************************************)
EXTENDS Naturals

CONSTANTS
    Session,
    Value,      \* what a save can store
    Default     \* the content of a store nothing was ever saved in

VARIABLES
    current,    \* the number of the newest record, 0 for none
    value,      \* its content
    seen,       \* the number of the record each session works from
    acked       \* the numbers of the saves reported as successful

register == <<current, value, seen, acked>>

Init ==
    /\ current = 0
    /\ value = Default
    /\ seen = [s \in Session |-> 0]
    /\ acked = {}

Read(s) ==
    /\ seen' = [seen EXCEPT ![s] = current]
    /\ UNCHANGED <<current, value, acked>>

Replace(s, v) ==
    /\ seen[s] = current
    /\ current' \in Nat
    /\ current' > current
    /\ value' = v
    /\ UNCHANGED <<seen, acked>>

Acknowledge(s) ==
    /\ current \notin acked
    /\ seen' = [seen EXCEPT ![s] = current]
    /\ acked' = acked \cup {current}
    /\ UNCHANGED <<current, value>>

Next == \E s \in Session :
    Read(s) \/ Acknowledge(s) \/ \E v \in Value : Replace(s, v)

Spec == Init /\ [][Next]_register
=============================================================================
