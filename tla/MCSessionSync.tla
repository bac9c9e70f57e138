---------------------------- MODULE MCSessionSync ----------------------------
EXTENDS SessionSync

Limit(w, t, a, n, b) ==
    [windows |-> w, tabs |-> t, activations |-> a, navigations |-> n, boots |-> b]

\* One long history; tabs that are activated and closed; a third tab that the
\* session refuses; two windows, or two tabs of one, saved and restored.
MCLimits == {Limit(1, 1, 1, 5, 1), Limit(1, 3, 2, 1, 1), Limit(1, 3, 0, 3, 1),
             Limit(2, 2, 0, 2, 2)}

\* The address bar is edited under the first two limits alone, and where three
\* tabs navigate they do so one after the other.
Narrow ==
    /\ limits.activations = 0 => \A w \in DOMAIN windows : windows[w].edit = 0
    /\ limits = Limit(1, 3, 0, 3, 1) => Cardinality(answers) <= 1

Symmetric == Permutations(Location)
=============================================================================
