---------------------------- MODULE MCWowConcert ----------------------------
(* Instance of WowConcert for TLC: the two clients of ParticipantId. *)
EXTENDS WowConcert

=============================================================================
