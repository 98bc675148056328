--------------------------- MODULE LocationIndex ---------------------------
(***************************************************************************)
(* What an index of trivia promises its users: a set of entries, each at a *)
(* location, and answers that depend on that set alone, whatever the order *)
(* in which the entries came in.                                           *)
(***************************************************************************)
EXTENDS Locations

CONSTANTS
  Place,      \* the locations entries are at and questions are asked about
  IndexedKind \* the kinds of token an entry can be made of

VARIABLES
  entries,  \* what has been added
  asked,    \* the last call
  found     \* what it returned, a sequence of entries

lvars == <<entries, asked, found>>

LInit == entries = {} /\ asked = <<"none">> /\ found = <<>>

LAdd ==
  /\ \E e \in entries' :
       /\ e \in [id : Nat, kind : IndexedKind, location : Place]
       /\ \A o \in entries : o.id # e.id
       /\ entries' = entries \cup {e}
  /\ asked' = <<"emplace">> /\ found' = <<>>

LRefuse == asked' = <<"invalid_argument">> /\ found' = <<>> /\ UNCHANGED entries

LFinalize == asked' = <<"finalize">> /\ found' = <<>> /\ UNCHANGED entries

(* An answer of at most one entry: one of S, or none when S is empty.      *)
OneOf(s, S) == \/ S = {} /\ s = <<>>
               \/ \E e \in S : s = <<e>>

LFindAt(l) ==
  /\ asked' = <<"find_at", l>>
  /\ OneOf(found', {e \in entries : LocationsEqual(e.location, l)})
  /\ UNCHANGED entries

LastBefore(l) ==
  {e \in entries : /\ Before(e.location, l)
                   /\ \A o \in entries : Before(o.location, l)
                                         => ~ Before(e.location, o.location)}

LFindBefore(l) ==
  asked' = <<"find_before", l>> /\ OneOf(found', LastBefore(l)) /\ UNCHANGED entries

FirstAfter(l) ==
  {e \in entries : /\ Before(l, e.location)
                   /\ \A o \in entries : Before(l, o.location)
                                         => ~ Before(o.location, e.location)}

LFindAfter(l) ==
  asked' = <<"find_after", l>> /\ OneOf(found', FirstAfter(l)) /\ UNCHANGED entries

(* A range of a vector whose end lies before its start cannot be copied,   *)
(* which is the case when entries lie strictly between the two ends.       *)
LFindInRange(s, e) ==
  LET within == {o \in entries : ~ Before(o.location, s) /\ ~ Before(e, o.location)}
      between == {o \in entries : Before(e, o.location) /\ Before(o.location, s)}
  IN  /\ IF between = {} THEN asked' = <<"find_in_range", s, e>>
                         ELSE asked' = <<"length_error">>
      /\ Lists(found', within)
      /\ UNCHANGED entries

LAll == asked' = <<"all">> /\ Lists(found', entries) /\ UNCHANGED entries

LNext ==
  \/ LAdd \/ LRefuse \/ LFinalize \/ LAll
  \/ \E l \in Place : LFindAt(l) \/ LFindBefore(l) \/ LFindAfter(l)
  \/ \E s, e \in Place : LFindInRange(s, e)

LSpec == LInit /\ [][LNext]_lvars
=============================================================================
