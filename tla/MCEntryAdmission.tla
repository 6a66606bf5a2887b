--------------------------- MODULE MCEntryAdmission ---------------------------
(* Two scopes with their own or a common netting domain. *)
EXTENDS EntryAdmission

CONSTANTS a1, b1

MCScope == [s \in {a1, b1} |-> IF s = b1 THEN "B" ELSE "A"]
MCDomainMaps == {[k \in {"A", "B"} |-> IF k = "A" THEN "d1" ELSE d] : d \in {"d1", "d2"}}
MCFamilyOf == [k \in {"A", "B"} |-> "breakout"]
MCRank == [s \in {a1, b1} |-> IF s = b1 THEN 1 ELSE 2]
MCTicketLimit == <<2, 1>>
=============================================================================
