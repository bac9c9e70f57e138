-------------------------- MODULE MCGenerationStore --------------------------
(* Instances of GenerationStore for TLC. *)
EXTENDS GenerationStore, TLC

Symmetry == Permutations(Session)

InSave(s) == pc[s] \in {"create", "write", "reverify", "link", "unlink", "clean"}

\* What a save keeps in local variables is gone when it returns; states that only
\* differ in the values it left there behave alike.
View ==
    <<disk, lock, pc, base, saves, acked,
      [s \in {k \in Session : InSave(k)} |-> <<listing[s], next[s], doomed[s]>>]>>
=============================================================================
