------------------------------ MODULE QuerySQL ------------------------------
(***************************************************************************)
(* Queries with the parser of the program, and with what SQL says of their *)
(* tokens: ParseQuery is Parse, SQLHolds is Holds.                         *)
(***************************************************************************)
EXTENDS Query, Parser, SQLReference

-----------------------------------------------------------------------------
(***************************************************************************)
(* What the README says, and the code does not do.                         *)
(***************************************************************************)

\* README 3.4 gives INSERT with a column list as the form of the statement, and
\* README Day 3 says of what is stored: read it back.
EveryRowReadsBack == \A i \in 1 .. Len(heap) : ReadsBack(heap[i])
=============================================================================
