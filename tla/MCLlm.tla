--------------------------------- MODULE MCLlm ---------------------------------
(* Small instances of Llm for TLC. *)
EXTENDS Llm, TLC

CONSTANTS o1, o2

\* A batch of two, and one order of it once more.
Overlapping == {{o1, o2}, {o1}}

\* What order-core sends.
Single == {{o1}}

\* Handlers are interchangeable.
Symmetry == Permutations(Handlers)
================================================================================
