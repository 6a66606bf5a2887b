-------------------- MODULE MCSelectionMaterialization --------------------
(* TLC instances of SelectionMaterialization. *)
EXTENDS SelectionMaterialization, TLC

\* A Selection keeps, extends, or empties the first member set.
MCSelections == {{}, {"a"}, {"a", "b"}}
MCFirst      == {"a"}

=============================================================================
