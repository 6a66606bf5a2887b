------------------------ MODULE MCSignalObservation ------------------------
(* TLC instances of SignalObservation. *)
EXTENDS SignalObservation, TLC

=============================================================================
