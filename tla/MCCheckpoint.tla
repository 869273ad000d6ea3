---------------------------- MODULE MCCheckpoint ----------------------------
(* A run of four phases, the second of them checkpointed per candidate. *)
EXTENDS Checkpoint
CONSTANTS c1, c2
MCCandidates == {c1, c2}
=============================================================================
