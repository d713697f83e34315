------------------------------ MODULE MCOrderCore ------------------------------
(* Small instances of OrderCore for TLC. *)
EXTENDS OrderCore, TLC

CONSTANTS o1, o2

\* Two polls that report the same orders in opposite order.
CrossedBatches == {<<o1, o2>>, <<o2, o1>>}

\* One order per poll.
SingleBatches == {<<o1>>}

\* Handlers and relays are interchangeable.
Symmetry == Permutations(Handlers) \cup Permutations(Relays)
================================================================================
