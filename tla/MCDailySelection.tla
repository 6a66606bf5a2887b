-------------------------- MODULE MCDailySelection --------------------------
(* TLC instances of DailySelection. *)
EXTENDS DailySelection, TLC

\* A Selection keeps, replaces, or empties the baseline.
MCSelections == {{}, {"a"}, {"b"}}
MCBaseline   == {"a"}

=============================================================================
