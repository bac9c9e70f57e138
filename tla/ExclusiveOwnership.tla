------------------------- MODULE ExclusiveOwnership -------------------------
(***************************************************************************)
(* What a profile-root lock promises, without its directory, its record    *)
(* and the steps that build and dismantle them.  An owner owns the profile *)
(* root during at most one interval of its life: once it has dropped the   *)
(* root (by its own release or by somebody's recovery), or has given up    *)
(* before owning it, that owner never owns the root again.  Between two    *)
(* owners the root is always free for a while.                             *)
(*                                                                         *)
(* ProfileLock implements this specification step by step; GenerationStore *)
(* uses these actions as its view of the lock.                             *)
(***************************************************************************)
CONSTANT Owner      \* the owner identities the lock can be given to

VARIABLES
    owning,     \* the owner of the root: nobody ({}) or one ({o})
    spent       \* owners that can never own the root (again)

ownership == <<owning, spent>>

Init == owning = {} /\ spent = {}

Take(o) ==
    /\ owning = {}
    /\ o \notin spent
    /\ owning' = {o}
    /\ spent' = spent

Drop(o) ==
    /\ owning = {o}
    /\ owning' = {}
    /\ spent' = spent \cup {o}

\* An owner that failed before it owned the root.
Forfeit(o) ==
    /\ o \notin owning
    /\ o \notin spent
    /\ owning' = owning
    /\ spent' = spent \cup {o}

Next == \E o \in Owner : Take(o) \/ Drop(o) \/ Forfeit(o)

Spec == Init /\ [][Next]_ownership
=============================================================================
