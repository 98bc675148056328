------------------------- MODULE TriviaIndex_proofs -------------------------
(***************************************************************************)
(* Proofs about the index of trivia, for every set of places and any       *)
(* number of entries: the flag is_sorted is right, and each step of the    *)
(* vector is a step of the set that LocationIndex describes.               *)
(***************************************************************************)
EXTENDS TriviaIndex, WellFoundedInduction, TLAPS

(* A non-empty set of numbers has a least one.                             *)
LEMMA LeastNumber ==
  ASSUME NEW T \in SUBSET Nat, T # {}
  PROVE  \E x \in T : \A y \in T : x <= y
<1>1. PICK x \in T : \A y \in T : <<y, x>> \notin OpToRel(<, Nat)
  BY NatLessThanWellFounded, WFMin
<1>2. \A y \in T : ~ (y < x)
  BY <1>1 DEF OpToRel
<1> QED
  BY <1>2

(* compare_locations is a strict order, and what it does not separate it   *)
(* may be replaced by in a comparison.                                     *)
LEMMA BeforeIsOrder ==
  ASSUME NEW a \in SourceLocation, NEW b \in SourceLocation, NEW c \in SourceLocation
  PROVE  /\ ~ Before(a, a)
         /\ Before(a, b) => ~ Before(b, a)
         /\ Before(a, b) /\ Before(b, c) => Before(a, c)
         /\ ~ Before(b, a) /\ ~ Before(c, b) => ~ Before(c, a)
         /\ Before(a, b) /\ ~ Before(c, b) => Before(a, c)
         /\ ~ Before(b, a) /\ Before(b, c) => Before(a, c)
         /\ LocationsEqual(a, b) <=> ~ Before(a, b) /\ ~ Before(b, a)
BY DEF SourceLocation, Before, LocationsEqual

LEMMA RefLocation ==
  ASSUME NEW s \in Seq(Ref), NEW i \in DOMAIN s
  PROVE  s[i] \in Ref /\ s[i].location \in Place /\ s[i].location \in SourceLocation
<1>1. s[i] \in Ref
  OBVIOUS
<1> QED
  BY <1>1, PlaceAssumption DEF Ref

(* The position std::lower_bound returns exists.                           *)
LEMMA LowerBoundSplits ==
  ASSUME NEW s \in Seq(Ref), NEW l \in Place
  PROVE  /\ LowerBound(s, l) \in 1..Len(s) + 1
         /\ \A i \in 1..LowerBound(s, l) - 1 : Before(s[i].location, l)
         /\ LowerBound(s, l) <= Len(s) => ~ Before(s[LowerBound(s, l)].location, l)
<1> DEFINE T == {k \in 1..Len(s) + 1 : k <= Len(s) => ~ Before(s[k].location, l)}
<1>1. T \in SUBSET Nat /\ Len(s) + 1 \in T
  OBVIOUS
<1>2. PICK k \in T : \A y \in T : k <= y
  BY <1>1, LeastNumber
<1>3. \A i \in 1..k - 1 : i \notin T /\ i <= Len(s)
  BY <1>2
<1>4. \A i \in 1..k - 1 : Before(s[i].location, l)
  BY <1>3
<1> QED
  BY <1>2, <1>4 DEF LowerBound

(* The position std::upper_bound returns exists.                           *)
LEMMA UpperBoundSplits ==
  ASSUME NEW s \in Seq(Ref), NEW l \in Place
  PROVE  /\ UpperBound(s, l) \in 1..Len(s) + 1
         /\ \A i \in 1..UpperBound(s, l) - 1 : ~ Before(l, s[i].location)
         /\ UpperBound(s, l) <= Len(s) => Before(l, s[UpperBound(s, l)].location)
<1> DEFINE T == {k \in 1..Len(s) + 1 : k <= Len(s) => Before(l, s[k].location)}
<1>1. T \in SUBSET Nat /\ Len(s) + 1 \in T
  OBVIOUS
<1>2. PICK k \in T : \A y \in T : k <= y
  BY <1>1, LeastNumber
<1>3. \A i \in 1..k - 1 : i \notin T /\ i <= Len(s)
  BY <1>2
<1>4. \A i \in 1..k - 1 : ~ Before(l, s[i].location)
  BY <1>3
<1> QED
  BY <1>2, <1>4 DEF UpperBound

(* In a vector in order, what lower_bound returns parts the references     *)
(* before the location from all others.                                    *)
LEMMA LowerBoundParts ==
  ASSUME NEW s \in Seq(Ref), Ascending(s), NEW l \in Place
  PROVE  \A i \in DOMAIN s : i < LowerBound(s, l) <=> Before(s[i].location, l)
<1> DEFINE k == LowerBound(s, l)
<1>0. /\ k \in 1..Len(s) + 1
      /\ \A i \in 1..k - 1 : Before(s[i].location, l)
      /\ k <= Len(s) => ~ Before(s[k].location, l)
  BY LowerBoundSplits
<1> HIDE DEF k
<1> SUFFICES ASSUME NEW i \in DOMAIN s PROVE i < k <=> Before(s[i].location, l)
  BY DEF k
<1>1. i \in 1..Len(s) /\ DOMAIN s = 1..Len(s)
  OBVIOUS
<1>2. CASE i < k
  BY <1>0, <1>1, <1>2
<1>3. CASE ~ (i < k)
  <2>1. k \in DOMAIN s /\ ~ Before(s[k].location, l)
    BY <1>0, <1>1, <1>3
  <2>2. ~ Before(s[i].location, s[k].location)
    <3>1. CASE i = k
      BY <3>1, <2>1, RefLocation, BeforeIsOrder
    <3>2. CASE k < i
      BY <3>2, <2>1 DEF Ascending
    <3> QED
      BY <3>1, <3>2, <1>0, <1>1, <1>3
  <2>3. l \in SourceLocation /\ s[i].location \in SourceLocation /\ s[k].location \in SourceLocation
    BY <2>1, RefLocation, PlaceAssumption
  <2>4. ~ Before(s[i].location, l)
    BY <2>1, <2>2, <2>3, BeforeIsOrder
  <2> QED
    BY <2>4, <1>3
<1> QED
  BY <1>2, <1>3

LEMMA UpperBoundParts ==
  ASSUME NEW s \in Seq(Ref), Ascending(s), NEW l \in Place
  PROVE  \A i \in DOMAIN s : i < UpperBound(s, l) <=> ~ Before(l, s[i].location)
<1> DEFINE k == UpperBound(s, l)
<1>0. /\ k \in 1..Len(s) + 1
      /\ \A i \in 1..k - 1 : ~ Before(l, s[i].location)
      /\ k <= Len(s) => Before(l, s[k].location)
  BY UpperBoundSplits
<1> HIDE DEF k
<1> SUFFICES ASSUME NEW i \in DOMAIN s PROVE i < k <=> ~ Before(l, s[i].location)
  BY DEF k
<1>1. i \in 1..Len(s) /\ DOMAIN s = 1..Len(s)
  OBVIOUS
<1>2. CASE i < k
  BY <1>0, <1>1, <1>2
<1>3. CASE ~ (i < k)
  <2>1. k \in DOMAIN s /\ Before(l, s[k].location)
    BY <1>0, <1>1, <1>3
  <2>2. ~ Before(s[i].location, s[k].location)
    <3>1. CASE i = k
      BY <3>1, <2>1, RefLocation, BeforeIsOrder
    <3>2. CASE k < i
      BY <3>2, <2>1 DEF Ascending
    <3> QED
      BY <3>1, <3>2, <1>0, <1>1, <1>3
  <2>3. l \in SourceLocation /\ s[i].location \in SourceLocation /\ s[k].location \in SourceLocation
    BY <2>1, RefLocation, PlaceAssumption
  <2>4. Before(l, s[i].location)
    BY <2>1, <2>2, <2>3, BeforeIsOrder
  <2> QED
    BY <2>4, <1>3
<1> QED
  BY <1>2, <1>3

---------------------------------------------------------------------------
(* Sorting keeps the references and their number.                          *)

Distinct(s) ==
  /\ Len(s) <= MaxEntries
  /\ \A i \in DOMAIN s : s[i].id <= Len(s)
  /\ \A i, j \in DOMAIN s : s[i].id = s[j].id => i = j

LEMMA SortingKeeps ==
  ASSUME NEW s \in Seq(Ref), Distinct(s), NEW t \in Sortings(s)
  PROVE  /\ t \in Seq(Ref) /\ Len(t) = Len(s) /\ Range(t) = Range(s)
         /\ Ascending(t) /\ Distinct(t)
<1>1. PICK p \in Bijection(DOMAIN s, DOMAIN s) : t = [i \in DOMAIN s |-> s[p[i]]]
  BY DEF Sortings
<1>2. DOMAIN s = 1..Len(s) /\ Len(s) \in Nat
  OBVIOUS
<1>3. /\ p \in [DOMAIN s -> DOMAIN s]
      /\ \A i, j \in DOMAIN s : p[i] = p[j] => i = j
      /\ \A k \in DOMAIN s : \E i \in DOMAIN s : p[i] = k
  BY DEF Bijection, Injection, Surjection, IsInjective
<1>4. \A i \in DOMAIN s : p[i] \in DOMAIN s /\ s[p[i]] \in Ref /\ t[i] = s[p[i]]
  BY <1>1, <1>3
<1>5. t \in [1..Len(s) -> Ref]
  BY <1>1, <1>2, <1>4
<1>6. t \in Seq(Ref) /\ Len(t) = Len(s) /\ DOMAIN t = DOMAIN s
  BY <1>2, <1>5
<1>7. Range(t) = Range(s)
  BY <1>3, <1>4, <1>6 DEF Range
<1>8. Distinct(t)
  <2>1. \A i \in DOMAIN t : t[i].id <= Len(t)
    BY <1>4, <1>6 DEF Distinct
  <2>2. \A i, j \in DOMAIN t : t[i].id = t[j].id => i = j
    <3> SUFFICES ASSUME NEW i \in DOMAIN t, NEW j \in DOMAIN t, t[i].id = t[j].id
                 PROVE  i = j
      OBVIOUS
    <3>1. s[p[i]].id = s[p[j]].id /\ p[i] \in DOMAIN s /\ p[j] \in DOMAIN s
      BY <1>4, <1>6
    <3>2. p[i] = p[j]
      BY <3>1 DEF Distinct
    <3> QED
      BY <3>2, <1>3, <1>6
  <2> QED
    BY <2>1, <2>2, <1>6 DEF Distinct
<1> QED
  BY <1>6, <1>7, <1>8 DEF Sortings

---------------------------------------------------------------------------
(* The invariant: the flag is right, and references are told apart.        *)

IInv == TypeOK /\ DistinctRefs /\ SortedIsAscending

LEMMA InitInvariant == Init => IInv
<1> SUFFICES ASSUME Init PROVE IInv
  OBVIOUS
<1>1. tokens \in Seq(Ref) /\ found \in Seq(Ref) /\ DOMAIN tokens = {} /\ DOMAIN found = {}
  BY DEF Init
<1> QED
  BY <1>1, EntriesAssumption
     DEF Init, IInv, TypeOK, DistinctRefs, SortedIsAscending, Ascending, Range

(* What every call but emplace leaves in the vector.                       *)
LEMMA FinalizedKeeps ==
  ASSUME IInv, NEW t \in Finalized
  PROVE  /\ t \in Seq(Ref) /\ Len(t) = Len(tokens) /\ Range(t) = Range(tokens)
         /\ Ascending(t) /\ Distinct(t)
<1>1. tokens \in Seq(Ref) /\ Distinct(tokens)
  BY DEF IInv, TypeOK, DistinctRefs, Distinct
<1>2. CASE is_sorted
  BY <1>1, <1>2 DEF Finalized, IInv, SortedIsAscending
<1>3. CASE ~ is_sorted
  BY <1>1, <1>3, SortingKeeps DEF Finalized
<1> QED
  BY <1>2, <1>3

(* A lookup keeps the invariant when what it returns is in the vector.     *)
LEMMA LookupInvariant ==
  ASSUME IInv, tokens' \in Finalized, is_sorted' = TRUE,
         found' \in Seq(Ref), Range(found') \subseteq Range(tokens')
  PROVE  IInv'
<1>1. /\ tokens' \in Seq(Ref) /\ Ascending(tokens') /\ Distinct(tokens')
  BY FinalizedKeeps
<1> QED
  BY <1>1 DEF IInv, TypeOK, DistinctRefs, SortedIsAscending, Distinct

LEMMA EmptyFound == <<>> \in Seq(Ref) /\ Range(<<>>) = {}
BY DEF Range

(* One entry of the vector, as an answer.                                  *)
LEMMA OneFound ==
  ASSUME NEW s \in Seq(Ref), NEW i \in DOMAIN s
  PROVE  /\ <<s[i]>> \in Seq(Ref) /\ Range(<<s[i]>>) = {s[i]}
         /\ s[i] \in Range(s)
<1>1. s[i] \in Ref
  OBVIOUS
<1> QED
  BY <1>1 DEF Range

LEMMA EmplaceInvariant ==
  ASSUME IInv, NEW kind \in TokenKind, NEW l \in Place, Emplace(kind, l) PROVE IInv'
<1> DEFINE e == [id |-> Len(tokens) + 1, kind |-> kind, location |-> l]
<1>1. /\ tokens \in Seq(Ref) /\ is_sorted \in BOOLEAN /\ Distinct(tokens)
      /\ is_sorted => Ascending(tokens)
  BY DEF IInv, TypeOK, DistinctRefs, SortedIsAscending, Distinct
<1>2. Len(tokens) \in Nat /\ DOMAIN tokens = 1..Len(tokens)
  BY <1>1
<1>3. e \in Ref
  BY <1>2, EntriesAssumption DEF Emplace, Ref
<1>4. tokens' = Append(tokens, e) /\ found' = <<>>
  BY DEF Emplace
<1> HIDE DEF e
<1>5. /\ tokens' \in Seq(Ref) /\ Len(tokens') = Len(tokens) + 1
      /\ DOMAIN tokens' = 1..Len(tokens) + 1
      /\ \A i \in 1..Len(tokens) : tokens'[i] = tokens[i]
      /\ tokens'[Len(tokens) + 1] = e
  BY <1>1, <1>3, <1>4
<1>6. e.id = Len(tokens) + 1 /\ e.location = l
  BY DEF e
<1>7. Distinct(tokens')
  <2>1. Len(tokens') <= MaxEntries
    BY <1>2, <1>5, EntriesAssumption DEF Emplace
  <2>2. \A i \in DOMAIN tokens' : tokens'[i].id <= Len(tokens')
    <3> SUFFICES ASSUME NEW i \in DOMAIN tokens' PROVE tokens'[i].id <= Len(tokens')
      OBVIOUS
    <3>1. CASE i \in 1..Len(tokens)
      <4>1. tokens[i] \in Ref /\ tokens[i].id <= Len(tokens)
        BY <3>1, <1>1, <1>2 DEF Distinct
      <4>2. tokens[i].id \in Nat
        BY <4>1 DEF Ref
      <4> QED
        BY <4>1, <4>2, <3>1, <1>2, <1>5
    <3>2. CASE i = Len(tokens) + 1
      BY <3>2, <1>2, <1>5, <1>6
    <3> QED
      BY <3>1, <3>2, <1>2, <1>5
  <2>3. ASSUME NEW i \in DOMAIN tokens', NEW j \in DOMAIN tokens',
               tokens'[i].id = tokens'[j].id
        PROVE  i = j
    <3>1. \A k \in 1..Len(tokens) : tokens'[k].id # Len(tokens) + 1
      <4> SUFFICES ASSUME NEW k \in 1..Len(tokens) PROVE tokens[k].id # Len(tokens) + 1
        BY <1>5
      <4>1. tokens[k] \in Ref /\ tokens[k].id <= Len(tokens)
        BY <1>1, <1>2 DEF Distinct
      <4>2. tokens[k].id \in Nat
        BY <4>1 DEF Ref
      <4> QED
        BY <4>1, <4>2, <1>2
    <3>2. CASE i \in 1..Len(tokens) /\ j \in 1..Len(tokens)
      BY <3>2, <2>3, <1>1, <1>2, <1>5 DEF Distinct
    <3>3. CASE i = Len(tokens) + 1 \/ j = Len(tokens) + 1
      <4>1. i \in 1..Len(tokens) \/ i = Len(tokens) + 1
        BY <1>2, <1>5
      <4>2. j \in 1..Len(tokens) \/ j = Len(tokens) + 1
        BY <1>2, <1>5
      <4> QED
        BY <4>1, <4>2, <3>1, <3>3, <2>3, <1>5, <1>6
    <3> QED
      BY <3>2, <3>3, <1>2, <1>5
  <2> QED
    BY <2>1, <2>2, <2>3 DEF Distinct
<1>8. is_sorted' => Ascending(tokens')
  <2> SUFFICES ASSUME is_sorted', NEW i \in DOMAIN tokens', NEW j \in DOMAIN tokens', i < j
               PROVE  ~ Before(tokens'[j].location, tokens'[i].location)
    BY DEF Ascending
  <2>1. is_sorted /\ Ascending(tokens)
    BY <1>1 DEF Emplace
  <2>2. i \in 1..Len(tokens)
    BY <1>2, <1>5
  <2>3. CASE j \in 1..Len(tokens)
    BY <2>1, <2>2, <2>3, <1>2, <1>5 DEF Ascending
  <2>4. CASE j = Len(tokens) + 1
    <3> DEFINE last == tokens[Len(tokens)]
    <3>1. Len(tokens) > 0 /\ Len(tokens) \in DOMAIN tokens
      BY <2>2, <1>2
    <3>2. ~ Before(l, last.location)
      BY <3>1 DEF Emplace
    <3>3. ~ Before(last.location, tokens[i].location)
      <4>1. CASE i < Len(tokens)
        BY <4>1, <2>1, <2>2, <3>1, <1>2 DEF Ascending
      <4>2. CASE i = Len(tokens)
        BY <4>2, <3>1, <1>1, RefLocation, BeforeIsOrder
      <4> QED
        BY <4>1, <4>2, <2>2, <1>2
    <3>4. /\ l \in SourceLocation /\ last.location \in SourceLocation
          /\ tokens[i].location \in SourceLocation
      BY <3>1, <2>2, <1>1, <1>2, RefLocation, PlaceAssumption
    <3>5. ~ Before(l, tokens[i].location)
      BY <3>2, <3>3, <3>4, BeforeIsOrder
    <3> QED
      BY <3>5, <2>2, <2>4, <1>2, <1>5, <1>6
  <2> QED
    BY <2>3, <2>4, <1>2, <1>5
<1>9. is_sorted' \in BOOLEAN
  BY <1>1 DEF Emplace
<1> QED
  BY <1>4, <1>5, <1>7, <1>8, <1>9, EmptyFound
     DEF IInv, TypeOK, DistinctRefs, SortedIsAscending, Distinct

---------------------------------------------------------------------------
(* What each lookup finds in a vector in order.                            *)

(* find_at: the entry lower_bound stops at, if it is there at all.         *)
LEMMA FindAtFinds ==
  ASSUME NEW s \in Seq(Ref), Ascending(s), NEW l \in Place, NEW f,
         LET it == LowerBound(s, l)
         IN  f = IF it <= Len(s) /\ LocationsEqual(s[it].location, l) THEN <<s[it]>> ELSE <<>>
  PROVE  /\ f \in Seq(Ref) /\ Range(f) \subseteq Range(s)
         /\ Abstract!OneOf(f, {e \in Range(s) : LocationsEqual(e.location, l)})
<1> DEFINE it == LowerBound(s, l)
           S == {e \in Range(s) : LocationsEqual(e.location, l)}
<1>1. /\ it \in 1..Len(s) + 1
      /\ \A i \in DOMAIN s : i < it <=> Before(s[i].location, l)
      /\ it <= Len(s) => ~ Before(s[it].location, l)
  BY LowerBoundSplits, LowerBoundParts
<1>2. f = IF it <= Len(s) /\ LocationsEqual(s[it].location, l) THEN <<s[it]>> ELSE <<>>
  OBVIOUS
<1> HIDE DEF it
<1>3. CASE it <= Len(s) /\ LocationsEqual(s[it].location, l)
  <2>1. it \in DOMAIN s
    BY <1>1, <1>3
  <2>2. f = <<s[it]>> /\ s[it] \in S
    BY <1>2, <1>3, <2>1, OneFound
  <2> QED
    BY <2>1, <2>2, OneFound DEF Abstract!OneOf
<1>4. CASE ~ (it <= Len(s) /\ LocationsEqual(s[it].location, l))
  <2>1. f = <<>>
    BY <1>2, <1>4
  <2>2. ASSUME NEW i \in DOMAIN s, LocationsEqual(s[i].location, l) PROVE FALSE
    <3>1. l \in SourceLocation /\ s[i].location \in SourceLocation
      BY RefLocation, PlaceAssumption
    <3>2. ~ Before(s[i].location, l) /\ ~ Before(l, s[i].location)
      BY <2>2, <3>1, BeforeIsOrder
    <3>3. it <= i /\ it \in DOMAIN s
      BY <3>2, <1>1
    <3>4. ~ Before(s[i].location, s[it].location)
      <4>1. CASE it = i
        BY <4>1, <3>1, BeforeIsOrder
      <4>2. CASE it < i
        BY <4>2, <3>3 DEF Ascending
      <4> QED
        BY <4>1, <4>2, <3>3, <1>1
    <3>5. s[it].location \in SourceLocation /\ ~ Before(s[it].location, l)
      BY <3>3, <1>1, RefLocation
    <3>6. ~ Before(l, s[it].location)
      BY <3>1, <3>2, <3>4, <3>5, BeforeIsOrder
    <3> QED
      BY <1>4, <3>1, <3>3, <3>5, <3>6, BeforeIsOrder
  <2>3. S = {}
    BY <2>2 DEF Range
  <2> QED
    BY <2>1, <2>3, EmptyFound DEF Abstract!OneOf
<1> QED
  BY <1>3, <1>4

(* The entries of a set that lie before a place and are not exceeded there.*)
LastBeforeIn(S, l) ==
  {e \in S : /\ Before(e.location, l)
             /\ \A o \in S : Before(o.location, l) => ~ Before(e.location, o.location)}

FirstAfterIn(S, l) ==
  {e \in S : /\ Before(l, e.location)
             /\ \A o \in S : Before(l, o.location) => ~ Before(o.location, e.location)}

(* find_before: the entry in front of the one lower_bound stops at.        *)
LEMMA FindBeforeFinds ==
  ASSUME NEW s \in Seq(Ref), Ascending(s), NEW l \in Place, NEW f,
         LET it == LowerBound(s, l) IN f = IF it # 1 THEN <<s[it - 1]>> ELSE <<>>
  PROVE  /\ f \in Seq(Ref) /\ Range(f) \subseteq Range(s)
         /\ Abstract!OneOf(f, LastBeforeIn(Range(s), l))
<1> DEFINE it == LowerBound(s, l)
<1>1. it \in 1..Len(s) + 1 /\ \A i \in DOMAIN s : i < it <=> Before(s[i].location, l)
  BY LowerBoundSplits, LowerBoundParts
<1>2. f = IF it # 1 THEN <<s[it - 1]>> ELSE <<>>
  OBVIOUS
<1> HIDE DEF it
<1>3. DOMAIN s = 1..Len(s) /\ Len(s) \in Nat
  OBVIOUS
<1>4. CASE it # 1
  <2>1. it - 1 \in DOMAIN s /\ it - 1 < it
    BY <1>1, <1>3, <1>4
  <2>2. Before(s[it - 1].location, l)
    BY <2>1, <1>1
  <2>3. ASSUME NEW o \in Range(s), Before(o.location, l)
        PROVE  ~ Before(s[it - 1].location, o.location)
    <3>1. PICK i \in DOMAIN s : o = s[i]
      BY DEF Range
    <3>2. i < it
      BY <3>1, <2>3, <1>1
    <3>3. CASE i = it - 1
      BY <3>1, <3>3, <2>1, RefLocation, BeforeIsOrder
    <3>4. CASE i < it - 1
      BY <3>1, <3>4, <2>1 DEF Ascending
    <3> QED
      BY <3>2, <3>3, <3>4, <1>1, <1>3
  <2>4. s[it - 1] \in LastBeforeIn(Range(s), l)
    BY <2>1, <2>2, <2>3, OneFound DEF LastBeforeIn
  <2> QED
    BY <1>2, <1>4, <2>1, <2>4, OneFound DEF Abstract!OneOf
<1>5. CASE it = 1
  <2>1. \A i \in DOMAIN s : ~ Before(s[i].location, l)
    BY <1>1, <1>3, <1>5
  <2>2. LastBeforeIn(Range(s), l) = {}
    BY <2>1 DEF LastBeforeIn, Range
  <2> QED
    BY <1>2, <1>5, <2>2, EmptyFound DEF Abstract!OneOf
<1> QED
  BY <1>4, <1>5

(* find_after: the entry upper_bound stops at.                             *)
LEMMA FindAfterFinds ==
  ASSUME NEW s \in Seq(Ref), Ascending(s), NEW l \in Place, NEW f,
         LET it == UpperBound(s, l) IN f = IF it <= Len(s) THEN <<s[it]>> ELSE <<>>
  PROVE  /\ f \in Seq(Ref) /\ Range(f) \subseteq Range(s)
         /\ Abstract!OneOf(f, FirstAfterIn(Range(s), l))
<1> DEFINE it == UpperBound(s, l)
<1>1. it \in 1..Len(s) + 1 /\ \A i \in DOMAIN s : i < it <=> ~ Before(l, s[i].location)
  BY UpperBoundSplits, UpperBoundParts
<1>2. f = IF it <= Len(s) THEN <<s[it]>> ELSE <<>>
  OBVIOUS
<1> HIDE DEF it
<1>3. DOMAIN s = 1..Len(s) /\ Len(s) \in Nat
  OBVIOUS
<1>4. CASE it <= Len(s)
  <2>1. it \in DOMAIN s /\ ~ (it < it)
    BY <1>1, <1>3, <1>4
  <2>2. Before(l, s[it].location)
    BY <2>1, <1>1
  <2>3. ASSUME NEW o \in Range(s), Before(l, o.location)
        PROVE  ~ Before(o.location, s[it].location)
    <3>1. PICK i \in DOMAIN s : o = s[i]
      BY DEF Range
    <3>2. ~ (i < it)
      BY <3>1, <2>3, <1>1
    <3>3. CASE i = it
      BY <3>1, <3>3, <2>1, RefLocation, BeforeIsOrder
    <3>4. CASE it < i
      BY <3>1, <3>4, <2>1 DEF Ascending
    <3> QED
      BY <3>2, <3>3, <3>4, <1>1, <1>3
  <2>4. s[it] \in FirstAfterIn(Range(s), l)
    BY <2>1, <2>2, <2>3, OneFound DEF FirstAfterIn
  <2> QED
    BY <1>2, <1>4, <2>1, <2>4, OneFound DEF Abstract!OneOf
<1>5. CASE ~ (it <= Len(s))
  <2>1. \A i \in DOMAIN s : ~ Before(l, s[i].location)
    BY <1>1, <1>3, <1>5
  <2>2. FirstAfterIn(Range(s), l) = {}
    BY <2>1 DEF FirstAfterIn, Range
  <2> QED
    BY <1>2, <1>5, <2>2, EmptyFound DEF Abstract!OneOf
<1> QED
  BY <1>4, <1>5

LEMMA FunctionIsSequence ==
  ASSUME NEW n \in Nat, NEW S, NEW g \in [1..n -> S] PROVE g \in Seq(S)
OBVIOUS

(* find_in_range: what lies between lower_bound and upper_bound.           *)
LEMMA RangeFinds ==
  ASSUME NEW s \in Seq(Ref), Ascending(s), Distinct(s), NEW a \in Place, NEW b \in Place,
         NEW f,
         LowerBound(s, a) <= UpperBound(s, b),
         f = [i \in 1..UpperBound(s, b) - LowerBound(s, a) |-> s[LowerBound(s, a) + i - 1]]
  PROVE  /\ f \in Seq(Ref) /\ Range(f) \subseteq Range(s)
         /\ Lists(f, {o \in Range(s) : ~ Before(o.location, a) /\ ~ Before(b, o.location)})
         /\ {o \in Range(s) : Before(b, o.location) /\ Before(o.location, a)} = {}
<1> DEFINE lo == LowerBound(s, a)
           hi == UpperBound(s, b)
           W == {o \in Range(s) : ~ Before(o.location, a) /\ ~ Before(b, o.location)}
<1>1. /\ lo \in 1..Len(s) + 1 /\ hi \in 1..Len(s) + 1 /\ lo <= hi
      /\ \A i \in DOMAIN s : i < lo <=> Before(s[i].location, a)
      /\ \A i \in DOMAIN s : i < hi <=> ~ Before(b, s[i].location)
  BY LowerBoundSplits, LowerBoundParts, UpperBoundSplits, UpperBoundParts
<1>2. f = [i \in 1..hi - lo |-> s[lo + i - 1]]
  OBVIOUS
<1> HIDE DEF lo, hi
<1> DEFINE n == hi - lo
<1>3. /\ DOMAIN s = 1..Len(s) /\ Len(s) \in Nat /\ n \in Nat
      /\ lo \in Nat /\ hi \in Nat /\ hi = lo + n
  BY <1>1
<1> HIDE DEF n
<1>12. f = [i \in 1..n |-> s[lo + i - 1]]
  BY <1>2 DEF n
<1>4. \A i \in 1..n : lo + i - 1 \in DOMAIN s /\ s[lo + i - 1] \in Ref
  BY <1>1, <1>3
<1>5. /\ f \in Seq(Ref) /\ DOMAIN f = 1..n
      /\ \A i \in 1..n : f[i] = s[lo + i - 1]
  <2>1. \A i \in 1..n : f[i] = s[lo + i - 1]
    BY <1>12
  <2>2. f \in [1..n -> Ref]
    BY <1>12, <1>4, Zenon
  <2>3. f \in Seq(Ref)
    BY <2>2, <1>3, FunctionIsSequence
  <2> QED
    BY <2>1, <2>2, <2>3
<1>6. \A i \in 1..n : f[i] \in W
  <2> SUFFICES ASSUME NEW i \in 1..n PROVE f[i] \in W
    OBVIOUS
  <2>1. lo + i - 1 \in DOMAIN s /\ ~ (lo + i - 1 < lo) /\ lo + i - 1 < hi
    BY <1>1, <1>3, <1>4
  <2> QED
    BY <2>1, <1>1, <1>5 DEF Range
<1>7. ASSUME NEW o \in W PROVE \E i \in 1..n : f[i] = o
  <2>1. PICK k \in DOMAIN s : o = s[k]
    BY DEF Range
  <2>2. ~ (k < lo) /\ k < hi
    BY <2>1, <1>1
  <2>3. k - lo + 1 \in 1..n /\ lo + (k - lo + 1) - 1 = k
    BY <2>2, <1>1, <1>3
  <2> QED
    BY <2>1, <2>3, <1>5
<1>8. Range(f) = W
  <2> HIDE DEF W
  <2>1. Range(f) = {f[i] : i \in 1..n}
    BY <1>5 DEF Range
  <2>2. {f[i] : i \in 1..n} \subseteq W
    BY <1>6
  <2>3. W \subseteq {f[i] : i \in 1..n}
    BY <1>7
  <2> QED
    BY <2>1, <2>2, <2>3
<1>9. IsInjective(f)
  <2> SUFFICES ASSUME NEW i \in DOMAIN f, NEW j \in DOMAIN f, f[i] = f[j] PROVE i = j
    BY DEF IsInjective
  <2>1. lo + i - 1 \in DOMAIN s /\ lo + j - 1 \in DOMAIN s /\ s[lo + i - 1].id = s[lo + j - 1].id
    BY <1>4, <1>5
  <2>2. lo + i - 1 = lo + j - 1
    BY <2>1 DEF Distinct
  <2> QED
    BY <2>2, <1>1, <1>3, <1>5
<1>10. Ascending(f)
  <2> SUFFICES ASSUME NEW i \in DOMAIN f, NEW j \in DOMAIN f, i < j
               PROVE  ~ Before(f[j].location, f[i].location)
    BY DEF Ascending
  <2>1. /\ lo + i - 1 \in DOMAIN s /\ lo + j - 1 \in DOMAIN s
        /\ f[i] = s[lo + i - 1] /\ f[j] = s[lo + j - 1]
    BY <1>4, <1>5
  <2>2. i \in Nat /\ j \in Nat
    BY <1>5
  <2>3. lo + i - 1 < lo + j - 1
    BY <2>2, <1>3
  <2> QED
    BY <2>1, <2>3 DEF Ascending
<1>11. \A o \in Range(s) : ~ (Before(b, o.location) /\ Before(o.location, a))
  <2> SUFFICES ASSUME NEW k \in DOMAIN s, Before(b, s[k].location), Before(s[k].location, a)
               PROVE  FALSE
    BY DEF Range
  <2> QED
    BY <1>1, <1>3
<1> QED
  BY <1>5, <1>8, <1>9, <1>10, <1>11 DEF Lists

(* Two bounds the wrong way round: something lies strictly between them,   *)
(* and nothing in the range.                                               *)
LEMMA ReversedRange ==
  ASSUME NEW s \in Seq(Ref), Ascending(s), NEW a \in Place, NEW b \in Place,
         UpperBound(s, b) < LowerBound(s, a)
  PROVE  /\ {o \in Range(s) : Before(b, o.location) /\ Before(o.location, a)} # {}
         /\ Lists(<<>>, {o \in Range(s) : ~ Before(o.location, a) /\ ~ Before(b, o.location)})
<1> DEFINE lo == LowerBound(s, a)
           hi == UpperBound(s, b)
<1>1. /\ lo \in 1..Len(s) + 1 /\ hi \in 1..Len(s) + 1 /\ hi < lo
      /\ \A i \in DOMAIN s : i < lo <=> Before(s[i].location, a)
      /\ \A i \in DOMAIN s : i < hi <=> ~ Before(b, s[i].location)
  BY LowerBoundSplits, LowerBoundParts, UpperBoundSplits, UpperBoundParts
<1> HIDE DEF lo, hi
<1>2. DOMAIN s = 1..Len(s) /\ Len(s) \in Nat
  OBVIOUS
<1>3. hi \in DOMAIN s /\ Before(b, s[hi].location) /\ Before(s[hi].location, a)
  BY <1>1, <1>2
<1>4. \A o \in Range(s) : Before(o.location, a) \/ Before(b, o.location)
  <2> SUFFICES ASSUME NEW k \in DOMAIN s
               PROVE  Before(s[k].location, a) \/ Before(b, s[k].location)
    BY DEF Range
  <2> QED
    BY <1>1, <1>2
<1>5. Lists(<<>>, {})
  BY DEF Lists, Range, IsInjective, Ascending
<1>6. {o \in Range(s) : ~ Before(o.location, a) /\ ~ Before(b, o.location)} = {}
  BY <1>4
<1>7. s[hi] \in Range(s)
  BY <1>3 DEF Range
<1> QED
  BY <1>3, <1>5, <1>6, <1>7

---------------------------------------------------------------------------
(* Each call, as a step that keeps the invariant and as a step of the set. *)

Simulates == IInv' /\ [Abstract!LNext]_(Abstract!lvars)

LEMMA EmplaceSimulates ==
  ASSUME IInv, NEW kind \in TokenKind, NEW l \in Place, Emplace(kind, l)
  PROVE  Simulates
<1> DEFINE e == [id |-> Len(tokens) + 1, kind |-> kind, location |-> l]
<1>1. tokens \in Seq(Ref) /\ Distinct(tokens) /\ IInv'
  BY EmplaceInvariant DEF IInv, TypeOK, DistinctRefs, Distinct
<1>2. tokens' = Append(tokens, e)
  BY DEF Emplace
<1>3. e \in [id : Nat, kind : IndexedKind, location : Place]
  BY <1>1 DEF Emplace
<1>4. e.id = Len(tokens) + 1
  OBVIOUS
<1> HIDE DEF e
<1>5. /\ DOMAIN tokens' = 1..Len(tokens) + 1 /\ tokens'[Len(tokens) + 1] = e
      /\ \A i \in 1..Len(tokens) : tokens'[i] = tokens[i]
      /\ DOMAIN tokens = 1..Len(tokens) /\ Len(tokens) \in Nat
  BY <1>1, <1>2
<1>6. Range(tokens') = Range(tokens) \cup {e}
  BY <1>5 DEF Range
<1>7. \A o \in Range(tokens) : o.id # e.id
  <2> SUFFICES ASSUME NEW i \in 1..Len(tokens) PROVE tokens[i].id # e.id
    BY <1>5 DEF Range
  <2>1. tokens[i] \in Ref /\ tokens[i].id <= Len(tokens)
    BY <1>1, <1>5 DEF Distinct
  <2>2. tokens[i].id \in Nat
    BY <2>1 DEF Ref
  <2> QED
    BY <2>1, <2>2, <1>4, <1>5
<1>8. Abstract!LAdd
  BY <1>3, <1>6, <1>7 DEF Abstract!LAdd, Emplace
<1> QED
  BY <1>1, <1>8 DEF Simulates, Abstract!LNext

(* LocationIndex speaks of the same order of locations.                    *)
LEMMA SameOrder ==
  /\ \A x, y : Abstract!Before(x, y) <=> Before(x, y)
  /\ \A x, y : Abstract!LocationsEqual(x, y) <=> LocationsEqual(x, y)
  /\ \A q, S : Abstract!Lists(q, S) <=> Lists(q, S)
<1>1. \A x, y : Abstract!Before(x, y) <=> Before(x, y)
  BY DEF Abstract!Before, Before
<1>2. \A x, y : Abstract!LocationsEqual(x, y) <=> LocationsEqual(x, y)
  BY DEF Abstract!LocationsEqual, LocationsEqual
<1>3. \A q : Abstract!Ascending(q) <=> Ascending(q)
  BY <1>1 DEF Abstract!Ascending, Ascending
<1>4. \A q : Abstract!Range(q) = Range(q)
  BY DEF Abstract!Range, Range
<1>5. \A q : Abstract!IsInjective(q) <=> IsInjective(q)
  BY DEF Abstract!IsInjective, IsInjective
<1>6. \A q, S : Abstract!Lists(q, S) <=> Lists(q, S)
  BY <1>3, <1>4, <1>5 DEF Abstract!Lists, Lists
<1> QED
  BY <1>1, <1>2, <1>6

(* What is common to the calls that look at the vector.                    *)
LEMMA LookupSimulates ==
  ASSUME IInv, tokens' \in Finalized, is_sorted' = TRUE,
         found' \in Seq(Ref), Range(found') \subseteq Range(tokens'), Abstract!LNext
  PROVE  Simulates
BY LookupInvariant DEF Simulates

LEMMA FinalizeSimulates == ASSUME IInv, Finalize PROVE Simulates
<1>1. Range(tokens') = Range(tokens)
  BY FinalizedKeeps DEF Finalize
<1>2. Abstract!LFinalize
  BY <1>1 DEF Finalize, Abstract!LFinalize
<1>3. found' \in Seq(Ref) /\ Range(found') \subseteq Range(tokens')
  BY EmptyFound DEF Finalize
<1> QED
  BY <1>2, <1>3, LookupSimulates DEF Finalize, Abstract!LNext

LEMMA AllSimulates == ASSUME IInv, All PROVE Simulates
<1>1. /\ tokens' \in Seq(Ref) /\ Range(tokens') = Range(tokens)
      /\ Ascending(tokens') /\ Distinct(tokens')
  BY FinalizedKeeps DEF All
<1>2. IsInjective(tokens')
  BY <1>1 DEF Distinct, IsInjective
<1>3. Abstract!LAll
  BY <1>1, <1>2, SameOrder DEF All, Abstract!LAll, Lists
<1> QED
  BY <1>1, <1>3, LookupSimulates DEF All, Abstract!LNext

LEMMA FindAtSimulates == ASSUME IInv, NEW l \in Place, FindAt(l) PROVE Simulates
<1>1. /\ tokens' \in Seq(Ref) /\ Range(tokens') = Range(tokens) /\ Ascending(tokens')
      /\ Len(tokens') = Len(tokens)
  BY FinalizedKeeps DEF FindAt
<1>2. /\ found' \in Seq(Ref) /\ Range(found') \subseteq Range(tokens')
      /\ Abstract!OneOf(found', {e \in Range(tokens') : LocationsEqual(e.location, l)})
  BY <1>1, FindAtFinds DEF FindAt
<1>3. Abstract!LFindAt(l)
  BY <1>1, <1>2, SameOrder DEF FindAt, Abstract!LFindAt
<1> QED
  BY <1>2, <1>3, LookupSimulates DEF FindAt, Abstract!LNext

LEMMA FindBeforeSimulates == ASSUME IInv, NEW l \in Place, FindBefore(l) PROVE Simulates
<1>1. /\ tokens' \in Seq(Ref) /\ Range(tokens') = Range(tokens) /\ Ascending(tokens')
      /\ Len(tokens') = Len(tokens)
  BY FinalizedKeeps DEF FindBefore
<1>2. /\ found' \in Seq(Ref) /\ Range(found') \subseteq Range(tokens')
      /\ Abstract!OneOf(found', LastBeforeIn(Range(tokens'), l))
  BY <1>1, FindBeforeFinds DEF FindBefore
<1>3. Abstract!LFindBefore(l)
  BY <1>1, <1>2, SameOrder DEF FindBefore, Abstract!LFindBefore, Abstract!LastBefore, LastBeforeIn
<1> QED
  BY <1>2, <1>3, LookupSimulates DEF FindBefore, Abstract!LNext

LEMMA FindAfterSimulates == ASSUME IInv, NEW l \in Place, FindAfter(l) PROVE Simulates
<1>1. /\ tokens' \in Seq(Ref) /\ Range(tokens') = Range(tokens) /\ Ascending(tokens')
      /\ Len(tokens') = Len(tokens)
  BY FinalizedKeeps DEF FindAfter
<1>2. /\ found' \in Seq(Ref) /\ Range(found') \subseteq Range(tokens')
      /\ Abstract!OneOf(found', FirstAfterIn(Range(tokens'), l))
  BY <1>1, FindAfterFinds DEF FindAfter
<1>3. Abstract!LFindAfter(l)
  BY <1>1, <1>2, SameOrder DEF FindAfter, Abstract!LFindAfter, Abstract!FirstAfter, FirstAfterIn
<1> QED
  BY <1>2, <1>3, LookupSimulates DEF FindAfter, Abstract!LNext

LEMMA FindInRangeSimulates ==
  ASSUME IInv, NEW a \in Place, NEW b \in Place, FindInRange(a, b) PROVE Simulates
<1>1. /\ tokens' \in Seq(Ref) /\ Range(tokens') = Range(tokens) /\ Ascending(tokens')
      /\ Distinct(tokens')
  BY FinalizedKeeps DEF FindInRange
<1>2. LowerBound(tokens', a) \in Nat /\ UpperBound(tokens', b) \in Nat
  BY <1>1, LowerBoundSplits, UpperBoundSplits
<1>3. CASE UpperBound(tokens', b) < LowerBound(tokens', a)
  <2>1. asked' = <<"length_error">> /\ found' = <<>>
    BY <1>3 DEF FindInRange
  <2>2. Abstract!LFindInRange(a, b)
    BY <2>1, <1>1, <1>3, ReversedRange, SameOrder DEF Abstract!LFindInRange
  <2> QED
    BY <2>1, <2>2, EmptyFound, LookupSimulates DEF FindInRange, Abstract!LNext
<1>4. CASE ~ (UpperBound(tokens', b) < LowerBound(tokens', a))
  <2>1. /\ asked' = <<"find_in_range", a, b>>
        /\ found' = [i \in 1..UpperBound(tokens', b) - LowerBound(tokens', a)
                       |-> tokens'[LowerBound(tokens', a) + i - 1]]
    BY <1>4 DEF FindInRange
  <2>2. LowerBound(tokens', a) <= UpperBound(tokens', b)
    BY <1>2, <1>4
  <2>3. /\ found' \in Seq(Ref) /\ Range(found') \subseteq Range(tokens')
        /\ Lists(found', {o \in Range(tokens') : ~ Before(o.location, a) /\ ~ Before(b, o.location)})
        /\ {o \in Range(tokens') : Before(b, o.location) /\ Before(o.location, a)} = {}
    BY <2>1, <2>2, <1>1, RangeFinds
  <2>4. Abstract!LFindInRange(a, b)
    BY <2>1, <2>3, <1>1, SameOrder DEF Abstract!LFindInRange
  <2> QED
    BY <2>3, <2>4, LookupSimulates DEF FindInRange, Abstract!LNext
<1> QED
  BY <1>3, <1>4

LEMMA StepSimulates == ASSUME IInv, [Next]_vars PROVE Simulates
<1>1. ASSUME NEW kind \in TokenKind, EmplaceRefused(kind) PROVE Simulates
  <2>1. Abstract!LRefuse
    BY <1>1 DEF EmplaceRefused, Abstract!LRefuse
  <2> QED
    BY <1>1, <2>1, EmptyFound
       DEF EmplaceRefused, Simulates, Abstract!LNext, IInv, TypeOK, DistinctRefs,
           SortedIsAscending
<1>2. CASE UNCHANGED vars
  BY <1>2 DEF vars, Simulates, Abstract!lvars, IInv, TypeOK, DistinctRefs, SortedIsAscending
<1> QED
  BY <1>1, <1>2, EmplaceSimulates, FinalizeSimulates, AllSimulates, FindAtSimulates,
     FindBeforeSimulates, FindAfterSimulates, FindInRangeSimulates DEF Next

(* The flag that saves the sorting is up only while the vector is in order *)
(* (filtered_token_index::emplace, finalize and ensure_sorted).            *)
THEOREM Sorted == Spec => []SortedIsAscending
<1>1. IInv /\ [Next]_vars => IInv'
  BY StepSimulates DEF Simulates
<1>2. IInv => SortedIsAscending
  BY DEF IInv
<1> QED
  BY InitInvariant, <1>1, <1>2, PTL DEF Spec

(* filtered_token_index implements the set of entries its users see.       *)
THEOREM IndexRefinement == Spec => ImplementsLocationIndex
<1>1. Init => Abstract!LInit
  BY DEF Init, Abstract!LInit, Range
<1>2. IInv /\ [Next]_vars => IInv'
  BY StepSimulates DEF Simulates
<1>3. IInv /\ [Next]_vars => [Abstract!LNext]_(Abstract!lvars)
  BY StepSimulates DEF Simulates
<1> QED
  BY InitInvariant, <1>1, <1>2, <1>3, PTL DEF Spec, ImplementsLocationIndex, Abstract!LSpec
=============================================================================
