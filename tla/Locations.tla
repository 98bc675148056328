----------------------------- MODULE Locations -----------------------------
(***************************************************************************)
(* Source locations and their order, and what a list of entries placed at  *)
(* locations can be.                                                       *)
(***************************************************************************)
EXTENDS Naturals, Sequences, Functions

SourceLocation == [line : Nat, column : Nat]

(* compare_locations(a, b) < 0: the line decides, then the column.         *)
Before(a, b) ==
  \/ a.line < b.line
  \/ a.line = b.line /\ a.column < b.column

LocationsEqual(a, b) == a.line = b.line /\ a.column = b.column

(* No entry of the list lies before one that precedes it.                  *)
Ascending(s) ==
  \A i, j \in DOMAIN s : i < j => ~ Before(s[j].location, s[i].location)

(* The list holds exactly the entries of S, each once, in order.           *)
Lists(s, S) == Range(s) = S /\ IsInjective(s) /\ Ascending(s)
=============================================================================
