---------------------------- MODULE SegmentFormat ----------------------------
(***************************************************************************)
(* What the writer and the reader of a log agree on: the layout of a data  *)
(* record and of the data section of a segment file.                       *)
(*                                                                         *)
(* A log has one Format.  A data record is a data header of HeaderLen      *)
(* bytes followed by its payload; records follow one another in the data   *)
(* sections of a session's segment files, each of which holds at most      *)
(* DataLen bytes.  Lengths are constants: data_header_len() gives 0, 4 or  *)
(* 18 by format, and an instance may scale it down, since behaviour        *)
(* depends only on where the boundaries fall.                              *)
(*                                                                         *)
(* A byte of data is abstracted to the pair <<r, o>>: byte o (counting     *)
(* from 1) of the r-th record that was ever offered to a writer.           *)
(***************************************************************************)
EXTENDS Naturals, Sequences

CONSTANTS
  Format,     \* "fixed", "simple" (VariableSimple) or "tsrc" (VariableTsRc)
  FixedLen,   \* the payload length of every record of a "fixed" log
  HeaderLen,  \* bytes of data header before each payload
  DataLen,    \* bytes a full data section holds: seg_size_max less the header
  SeqMax      \* the last sequence number: u64::MAX

\* What LogWrite::new demands: Fixed(0) is refused, and seg_size_max exceeds
\* the segment file header plus one data header.
ASSUME FormatAssumption ==
  /\ Format \in {"fixed", "simple", "tsrc"}
  /\ FixedLen \in Nat \ {0}
  /\ HeaderLen \in Nat
  /\ (HeaderLen = 0) <=> (Format = "fixed")
  /\ DataLen \in Nat
  /\ DataLen > HeaderLen
  /\ SeqMax \in Nat \ {0}

\* The bytes a record of payload length n occupies, its data header included.
TotalLen(n) == HeaderLen + n

\* Bytes a+1 to b of record r.
BytesOf(r, a, b) == [i \in 1 .. (b - a) |-> <<r, a + i>>]

Byte == Nat \X Nat

\* A mistake: the successor of the last sequence is that of a session's opener.
SeqNextWrapping(s) == (s + 1) % (SeqMax + 1)

\* SeqId::next: the sequence of the file after one with sequence s.
SeqNext(s) == IF s < SeqMax THEN s + 1 ELSE s

Lesser(a, b) == IF a <= b THEN a ELSE b
=============================================================================
