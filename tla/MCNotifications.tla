---------------------------- MODULE MCNotifications ----------------------------
(* Small instances of Notifications for TLC. *)
EXTENDS Notifications, TLC

\* Handlers are interchangeable.
Symmetry == Permutations(Handlers)
================================================================================
