----------------------------- MODULE MCLogWriter -----------------------------
(* Small instances of LogWriter: payload lengths against a data section of  *)
(* three bytes, so that a record fits, fills, straddles and spans files.    *)
EXTENDS LogWriterInvariant

Both == {TRUE, FALSE}
Never == {FALSE}
Always == {TRUE}
=============================================================================
