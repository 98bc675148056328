---------------------------- MODULE TriviaIndex ----------------------------
(***************************************************************************)
(* tscc::parse::filtered_token_index, the vector behind trivia_index: it   *)
(* is filled in any order, notes whether the order is still ascending, and *)
(* is sorted when a question is asked and the order was lost.              *)
(***************************************************************************)
EXTENDS Locations

CONSTANTS
  Place,       \* the locations tokens are at and questions are asked about
  TokenKind,   \* the kinds of token that are offered
  IndexedKind, \* those among AllowedTokenTypes
  MaxEntries   \* the size the model stops filling the vector at

ASSUME PlaceAssumption == Place \subseteq SourceLocation
ASSUME KindAssumption  == IndexedKind \subseteq TokenKind
ASSUME EntriesAssumption == MaxEntries \in Nat

VARIABLES
  tokens,    \* the vector of references
  is_sorted, \* whether it is known to be in order
  asked,     \* the last call, or the exception it ended with
  found      \* the references it returned

vars == <<tokens, is_sorted, asked, found>>

(* A reference to a token; id tells apart two references that look alike.  *)
Ref == [id : 1..MaxEntries, kind : IndexedKind, location : Place]

Init == tokens = <<>> /\ is_sorted = TRUE /\ asked = <<"none">> /\ found = <<>>

(* std::lower_bound and std::upper_bound on a vector in order.             *)
LowerBound(s, l) ==
  CHOOSE k \in 1..Len(s) + 1 :
    /\ \A i \in 1..k - 1 : Before(s[i].location, l)
    /\ k <= Len(s) => ~ Before(s[k].location, l)

UpperBound(s, l) ==
  CHOOSE k \in 1..Len(s) + 1 :
    /\ \A i \in 1..k - 1 : ~ Before(l, s[i].location)
    /\ k <= Len(s) => Before(l, s[k].location)

(* std::sort: the same references in an ascending order, not a stable one. *)
Sortings(s) ==
  {t \in {[i \in DOMAIN s |-> s[p[i]]] : p \in Bijection(DOMAIN s, DOMAIN s)} :
     Ascending(t)}

(* ensure_sorted and finalize: the vector the call leaves behind.          *)
Finalized == IF is_sorted THEN {tokens} ELSE Sortings(tokens)

(* Mutant: the order is checked against the first entry, not the last.     *)
EmplaceComparesFirst(kind, l) ==
  /\ kind \in IndexedKind /\ Len(tokens) < MaxEntries
  /\ tokens' = Append(tokens, [id |-> Len(tokens) + 1, kind |-> kind, location |-> l])
  /\ is_sorted' = (is_sorted /\ (Len(tokens) > 0 => ~ Before(l, tokens[1].location)))
  /\ asked' = <<"emplace">> /\ found' = <<>>

Emplace(kind, l) ==
  /\ kind \in IndexedKind /\ Len(tokens) < MaxEntries
  /\ tokens' = Append(tokens, [id |-> Len(tokens) + 1, kind |-> kind, location |-> l])
  /\ is_sorted' = (is_sorted /\ (Len(tokens) > 0 => ~ Before(l, tokens[Len(tokens)].location)))
  /\ asked' = <<"emplace">> /\ found' = <<>>

EmplaceRefused(kind) ==
  /\ kind \notin IndexedKind
  /\ asked' = <<"invalid_argument">> /\ found' = <<>>
  /\ UNCHANGED <<tokens, is_sorted>>

Finalize ==
  /\ tokens' \in Finalized /\ is_sorted' = TRUE
  /\ asked' = <<"finalize">> /\ found' = <<>>

FindAt(l) ==
  /\ tokens' \in Finalized /\ is_sorted' = TRUE
  /\ asked' = <<"find_at", l>>
  /\ LET it == LowerBound(tokens', l)
     IN  found' = IF it <= Len(tokens) /\ LocationsEqual(tokens'[it].location, l)
                  THEN <<tokens'[it]>> ELSE <<>>

FindBefore(l) ==
  /\ tokens' \in Finalized /\ is_sorted' = TRUE
  /\ asked' = <<"find_before", l>>
  /\ LET it == LowerBound(tokens', l)
     IN  found' = IF it # 1 THEN <<tokens'[it - 1]>> ELSE <<>>

(* Mutant: the search for what follows starts at the location itself.      *)
FindAfterInclusive(l) ==
  /\ tokens' \in Finalized /\ is_sorted' = TRUE
  /\ asked' = <<"find_after", l>>
  /\ LET it == LowerBound(tokens', l)
     IN  found' = IF it <= Len(tokens) THEN <<tokens'[it]>> ELSE <<>>

FindAfter(l) ==
  /\ tokens' \in Finalized /\ is_sorted' = TRUE
  /\ asked' = <<"find_after", l>>
  /\ LET it == UpperBound(tokens', l)
     IN  found' = IF it <= Len(tokens) THEN <<tokens'[it]>> ELSE <<>>

(* The copy of the range throws when its end precedes its start.           *)
FindInRange(s, e) ==
  /\ tokens' \in Finalized /\ is_sorted' = TRUE
  /\ LET start_it == LowerBound(tokens', s)
         end_it   == UpperBound(tokens', e)
     IN  IF end_it < start_it
         THEN asked' = <<"length_error">> /\ found' = <<>>
         ELSE /\ asked' = <<"find_in_range", s, e>>
              /\ found' = [i \in 1..end_it - start_it |-> tokens'[start_it + i - 1]]

All ==
  /\ tokens' \in Finalized /\ is_sorted' = TRUE
  /\ asked' = <<"all">> /\ found' = tokens'

Next ==
  \/ \E kind \in TokenKind, l \in Place : Emplace(kind, l)
  \/ \E kind \in TokenKind : EmplaceRefused(kind)
  \/ Finalize \/ All
  \/ \E l \in Place : FindAt(l) \/ FindBefore(l) \/ FindAfter(l)
  \/ \E s, e \in Place : FindInRange(s, e)

Spec == Init /\ [][Next]_vars

---------------------------------------------------------------------------

(* TypeOK: what the vector holds, and that the answer is taken from it.    *)
TypeOK ==
  /\ tokens \in Seq(Ref) /\ is_sorted \in BOOLEAN
  /\ found \in Seq(Ref) /\ Range(found) \subseteq Range(tokens)

(* Every reference keeps an identity of its own through the sorting.       *)
DistinctRefs ==
  /\ Len(tokens) <= MaxEntries
  /\ \A i \in DOMAIN tokens : tokens[i].id <= Len(tokens)
  /\ \A i, j \in DOMAIN tokens : tokens[i].id = tokens[j].id => i = j

(* The flag that saves the sorting may only be up while the vector is in   *)
(* order, although emplace compares no more than the last two entries.     *)
SortedIsAscending == is_sorted => Ascending(tokens)

(* The vector implements the index as its users see it: whatever the order *)
(* tokens were emplaced in and whenever it is asked, a lookup answers from *)
(* the set of what was emplaced (find_at, find_before, find_after,         *)
(* find_in_range and all of filtered_token_index).                         *)
Abstract == INSTANCE LocationIndex WITH entries <- Range(tokens)
ImplementsLocationIndex == Abstract!LSpec
=============================================================================
