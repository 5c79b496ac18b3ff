---------------------------- MODULE MCSegmentFile ----------------------------
(* Small instances of SegmentFile: bytes of twelve values, identifiers of   *)
(* two groups of two digits, with an upper-case letter that is no digit.    *)
EXTENDS SegmentFile

MCMagic == <<9, 8, 7, 6, 5, 4, 3, 2>>
MCDigits == <<"0", "1", "a", "b">>
MCLetters == {"0", "1", "A", "-"}
MCLogs ==
  {[prefix |-> <<>>, suffix |-> <<>>], [prefix |-> <<>>, suffix |-> <<"-", "0">>],
   [prefix |-> <<"0", "-">>, suffix |-> <<>>],
   [prefix |-> <<"0", "1", "-">>, suffix |-> <<>>],
   [prefix |-> <<>>, suffix |-> <<"-", "0", "1">>],
   [prefix |-> <<"/">>, suffix |-> <<"0">>]}
MCFormats == {FixedFormat(2), VariableSimple, VariableTsRc}
Build(major, minor) == [major |-> major, minor |-> minor, patch |-> 0]
MCBuilds == {Build(0, 1), Build(1, 0), Build(1, 1), Build(1, 2), Build(2, 1)}
=============================================================================
