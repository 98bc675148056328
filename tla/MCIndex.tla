------------------------------ MODULE MCIndex ------------------------------
(***************************************************************************)
(* A small instance of the trivia index: two lines and two columns, so     *)
(* that a later line can hold an earlier column, and up to four entries.   *)
(***************************************************************************)
EXTENDS TriviaIndex

MCPlace == [line : 1..2, column : 1..2]
MCTokenKind == {"comment", "identifier"}
MCIndexedKind == {"comment"}
=============================================================================
