----------------------------- MODULE MCEntryLimits -----------------------------
(* EntryLimits on small sets. *)
EXTENDS EntryLimits
=============================================================================
