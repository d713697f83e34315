----------------------------- MODULE MCAuthWorker -----------------------------
(* Instances of AuthWorker for TLC; a tick is 30 seconds. *)
EXTENDS AuthWorker

================================================================================
