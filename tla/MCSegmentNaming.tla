--------------------------- MODULE MCSegmentNaming ---------------------------
(* Small instances of SegmentNaming. *)
EXTENDS SegmentNaming
=============================================================================
