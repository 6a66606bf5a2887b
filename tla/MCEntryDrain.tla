---------------------------- MODULE MCEntryDrain ----------------------------
(* EntryDrain for TLC: the bounds are given in the configuration.          *)
EXTENDS EntryDrain
=============================================================================
