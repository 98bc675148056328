------------------------ MODULE TokenContents_proofs ------------------------
(***************************************************************************)
(* The input buffer loses no byte and doubles none.  Refilling moves the   *)
(* bytes behind the offset to the front and puts a prefix of the stream    *)
(* behind them; advancing drops bytes that were looked at, which are in    *)
(* the buffer.  That they are is what the invariant adds to the property.  *)
(* Once a byte was skipped that was not read, and is not in the buffer, no *)
(* more is looked at.                                                      *)
(***************************************************************************)
EXTENDS TokenContents, TLAPS, SequenceTheorems

---------------------------------------------------------------------------
(* Sequences without their first elements.                                 *)

Beyond(s, i) == SubSeq(s, i + 1, Len(s))

(* What a buffer behind its offset, and a stream, still give.              *)
Coming(s, i, t) == Beyond(s, i) \o t

LEMMA BeyondProperties ==
  ASSUME NEW S, NEW s \in Seq(S), NEW i \in 0..Len(s)
  PROVE  /\ Beyond(s, i) \in Seq(S) /\ Len(Beyond(s, i)) = Len(s) - i
         /\ \A k \in 1..Len(s) - i : Beyond(s, i)[k] = s[i + k]
<1>1. Len(s) \in Nat /\ \A k \in i + 1..Len(s) : s[k] \in S
  BY LenProperties, ElementOfSeq
<1> QED
  BY <1>1, SubSeqProperties DEF Beyond

LEMMA BeyondNone ==
  ASSUME NEW S, NEW s \in Seq(S) PROVE Beyond(s, 0) = s
<1>1. Len(s) \in Nat
  BY LenProperties
<1> QED
  BY <1>1, SubSeqFull DEF Beyond

(* A prefix of the stream in front of the rest of it is the stream.        *)
LEMMA PrefixAndBeyond ==
  ASSUME NEW S, NEW s \in Seq(S), NEW n \in 0..Len(s)
  PROVE  /\ SubSeq(s, 1, n) \in Seq(S) /\ Len(SubSeq(s, 1, n)) = n
         /\ SubSeq(s, 1, n) \o Beyond(s, n) = s
<1>1. Len(s) \in Nat /\ \A k \in 1..n : s[k] \in S
  BY LenProperties, ElementOfSeq
<1>2. SubSeq(s, 1, n) \in Seq(S) /\ Len(SubSeq(s, 1, n)) = n
  BY <1>1, SubSeqProperties
<1>3. SubSeq(s, 1, n) \o SubSeq(s, n + 1, Len(s)) = SubSeq(s, 1, Len(s))
  <2>1. 1 \in 1..Len(s) + 1 /\ n \in 1 - 1..Len(s) /\ Len(s) \in n..Len(s)
    BY <1>1
  <2> QED
    BY <2>1, ConcatAdjacentSubSeq
<1> QED
  BY <1>2, <1>3, SubSeqFull DEF Beyond

(* Refilling: what is taken from the front of t stays in front of its rest.*)
LEMMA Refilled ==
  ASSUME NEW S, NEW s \in Seq(S), NEW t \in Seq(S), NEW n \in 0..Len(t)
  PROVE  /\ s \o SubSeq(t, 1, n) \in Seq(S)
         /\ Len(s \o SubSeq(t, 1, n)) = Len(s) + n
         /\ \A k \in 1..Len(s) : (s \o SubSeq(t, 1, n))[k] = s[k]
         /\ Beyond(t, n) \in Seq(S)
         /\ Coming(s \o SubSeq(t, 1, n), 0, Beyond(t, n)) = s \o t
<1>1. /\ SubSeq(t, 1, n) \in Seq(S) /\ Len(SubSeq(t, 1, n)) = n
      /\ SubSeq(t, 1, n) \o Beyond(t, n) = t
  BY PrefixAndBeyond
<1>2. Beyond(t, n) \in Seq(S)
  BY BeyondProperties
<1>3. ASSUME NEW a \in Seq(S), NEW b \in Seq(S)
      PROVE  /\ s \o a \in Seq(S) /\ Len(s \o a) = Len(s) + Len(a)
             /\ \A k \in 1..Len(s) : (s \o a)[k] = s[k]
             /\ Beyond(s \o a, 0) = s \o a
             /\ (s \o a) \o b = s \o (a \o b)
  <2>1. Len(s) \in Nat /\ Len(a) \in Nat
    BY LenProperties
  <2>2. /\ s \o a \in Seq(S) /\ Len(s \o a) = Len(s) + Len(a)
        /\ \A k \in 1..Len(s) + Len(a) : (s \o a)[k] = IF k <= Len(s) THEN s[k] ELSE a[k - Len(s)]
    BY ConcatProperties
  <2>3. Beyond(s \o a, 0) = s \o a
    BY <2>2, BeyondNone
  <2>4. (s \o a) \o b = s \o (a \o b)
    BY ConcatAssociative
  <2> QED
    BY <2>1, <2>2, <2>3, <2>4
<1> DEFINE a == SubSeq(t, 1, n)
           b == Beyond(t, n)
<1>4. a \in Seq(S) /\ b \in Seq(S) /\ Len(a) = n /\ a \o b = t
  BY <1>1, <1>2
<1> HIDE DEF a, b
<1>5. a \in Seq(S) /\ b \in Seq(S)
  BY <1>4
<1>6. /\ s \o a \in Seq(S) /\ Len(s \o a) = Len(s) + Len(a)
      /\ \A k \in 1..Len(s) : (s \o a)[k] = s[k]
  BY <1>3, <1>5
<1>7. Beyond(s \o a, 0) = s \o a /\ (s \o a) \o b = s \o (a \o b)
  BY <1>3, <1>5
<1>8. Beyond(s \o a, 0) \o b = s \o t
  BY <1>4, <1>7
<1>9. Len(s \o a) = Len(s) + n
  BY <1>4, <1>6
<1> QED
  BY <1>2, <1>6, <1>8, <1>9 DEF Coming, a, b

---------------------------------------------------------------------------
(* The invariant.                                                          *)

(* The bytes that announce a size.                                         *)
Small == 0..253

BufferTyped ==
  /\ rbuffer \in Seq(Small) /\ stream \in Seq(Small)
  /\ buffer_offset \in Nat /\ advanced \in Nat /\ look_forward \in Nat /\ nc \in Nat
  /\ needed \in Nat /\ sn \in Nat
  /\ buffer_offset <= Len(rbuffer)

Kept ==
  /\ advanced <= Len(Bytes)
  /\ Coming(rbuffer, buffer_offset, stream) = Beyond(Bytes, advanced)

(* What next_code_point has looked at is in the buffer, wherever it is.    *)
SeenUpTo == buffer_offset + look_forward
LookedAt ==
  CASE pc = "lexer" -> nc > 0 => SeenUpTo + nc <= Len(rbuffer)
    [] pc = "first" -> SeenUpTo < Len(rbuffer)
    [] pc = "rest" -> /\ Announced(Byte(0)) \in 2..6
                      /\ SeenUpTo + Announced(Byte(0)) <= Len(rbuffer)
    [] pc = "read_more for first" -> sn = 1 /\ needed = 1 /\ SeenUpTo <= Len(rbuffer)
    [] pc = "read_more for rest" ->
         /\ Announced(Byte(0)) \in 2..6 /\ sn = Announced(Byte(0)) - 1 /\ needed \in 1..sn
         /\ SeenUpTo + 1 + (sn - needed) <= Len(rbuffer)
    [] OTHER -> FALSE

Accounted == BufferTyped /\ Kept /\ LookedAt

(* The offset is behind the buffer: the next byte that is asked for ends   *)
(* the run.                                                                *)
Overtaken ==
  /\ rbuffer \in Seq(Small) /\ buffer_offset \in Nat /\ buffer_offset > Len(rbuffer)
  /\ nc = 0 /\ look_forward = 0 /\ pc \in {"lexer", "read_more for first", "undefined"}

(* Every byte of the text announces a size.                               *)
SizesAnnounced == \A k \in DOMAIN Bytes : Bytes[k] < 254
BufferInv == Bytes \in Seq(Byte8) /\ (SizesAnnounced => Accounted \/ Overtaken)

LEMMA NothingLostFromInv == BufferInv => NothingLost
<1> SUFFICES ASSUME BufferInv, SizesAnnounced, buffer_offset <= Len(rbuffer) PROVE Kept
  BY DEF Kept, SizesAnnounced, NothingLost, Coming, Beyond
<1>1. ~ Overtaken
  <2>1. Overtaken => Len(rbuffer) \in Nat /\ buffer_offset \in Nat /\ buffer_offset > Len(rbuffer)
    BY LenProperties DEF Overtaken
  <2>2. \A i, j \in Nat : i > j => ~ (i <= j)
    OBVIOUS
  <2> QED
    BY <2>1, <2>2
<1> QED
  BY <1>1 DEF BufferInv, Accounted

(* A text without bytes that announce no size.                             *)
LEMMA AnnouncingBytes == ASSUME Bytes \in Seq(Byte8), SizesAnnounced PROVE Bytes \in Seq(Small)
<1> DEFINE b == Bytes
<1>1. b \in Seq(Byte8) /\ \A k \in DOMAIN b : b[k] < 254
  BY DEF SizesAnnounced
<1> HIDE DEF b
<1>2. \A k \in 1..Len(b) : b[k] \in Byte8 /\ b[k] < 254
  BY <1>1, ElementOfSeq, LenProperties
<1>3. \A c \in Byte8 : c < 254 => c \in Small
  BY DEF Small, Byte8
<1>5. \A k \in 1..Len(b) : b[k] \in Small
  BY <1>2, <1>3
<1>4. b \in Seq(Small)
  <2>1. b \in [1..Len(b) -> Byte8] /\ Len(b) \in Nat
    BY <1>1, LenProperties
  <2>2. b \in [1..Len(b) -> Small]
    BY <1>5, <2>1
  <2> QED
    BY <2>1, <2>2
<1> QED
  BY <1>4 DEF b

LEMMA InitInv == Init => BufferInv
<1> SUFFICES ASSUME Init PROVE BufferInv
  OBVIOUS
<1>1. CASE BufferIdle
  <2>1. Bytes = <<>>
    BY <1>1 DEF BufferIdle, Bytes, BytesIn, FlattenSeq
  <2>2. Bytes \in Seq(Byte8) /\ Len(Bytes) = 0
    BY <2>1
  <2> QED
    BY <1>1, <2>1, <2>2 DEF BufferIdle, BufferInv, Accounted, BufferTyped, Kept, LookedAt, Coming, Beyond, Small
<1>2. CASE BufferInit
  <2>1. Bytes \in Seq(Byte8)
    BY <1>2, SourcesAssumption DEF BufferInit, Bytes
  <2>2. ASSUME SizesAnnounced PROVE Accounted
    <3>1. Bytes \in Seq(Small) /\ Len(Bytes) \in Nat
      BY <2>1, <2>2, AnnouncingBytes, LenProperties
    <3>2. Beyond(Bytes, 0) = Bytes
      BY <3>1, BeyondNone
    <3>3. Coming(<<>>, 0, Bytes) = Bytes
      BY <3>1 DEF Coming, Beyond
    <3> QED
      BY <1>2, <3>1, <3>2, <3>3 DEF BufferInit, Accounted, BufferTyped, Kept, LookedAt
  <2> QED
    BY <2>1, <2>2 DEF BufferInv
<1> QED
  BY <1>1, <1>2 DEF Init

---------------------------------------------------------------------------
(* One lemma for each action of the buffer.                                *)

LEMMA Lengths == ASSUME BufferTyped PROVE Len(rbuffer) \in Nat /\ Len(stream) \in Nat
BY LenProperties DEF BufferTyped

LEMMA NextCodePointKeeps ==
  ASSUME Accounted, NextCodePoint, Bytes' = Bytes PROVE Accounted'
<1>1. Len(rbuffer) \in Nat
  BY Lengths DEF Accounted
<1>2. look_forward' \in Nat /\ SeenUpTo' <= Len(rbuffer)
  <2>1. pc = "lexer" /\ LookedAt /\ buffer_offset' = buffer_offset
    BY DEF Accounted, NextCodePoint
  <2>2. nc > 0 => SeenUpTo + nc <= Len(rbuffer)
    BY <2>1 DEF LookedAt
  <2>3. /\ buffer_offset \in Nat /\ look_forward \in Nat /\ nc \in Nat
        /\ buffer_offset <= Len(rbuffer)
    BY DEF Accounted, BufferTyped
  <2>4. look_forward' = 0 \/ (nc > 0 /\ look_forward' = look_forward + nc)
    BY DEF NextCodePoint
  <2> QED
    BY <1>1, <2>1, <2>2, <2>3, <2>4 DEF SeenUpTo
<1>3. BufferTyped'
  <2>1. (needed' = needed /\ sn' = sn) \/ (needed' = 1 /\ sn' = 1)
    BY Zenon DEF NextCodePoint
  <2>2. BufferTyped /\ UNCHANGED <<rbuffer, stream, buffer_offset, advanced, nc>>
    BY DEF Accounted, NextCodePoint
  <2> QED
    BY <1>2, <2>1, <2>2 DEF BufferTyped
<1>4. Kept'
  BY DEF Accounted, Kept, NextCodePoint
<1>5. LookedAt'
  BY <1>2 DEF LookedAt, SeenUpTo, NextCodePoint
<1> QED
  BY <1>3, <1>4, <1>5 DEF Accounted

(* Advancing drops the same number of bytes of the buffer and of the text. *)
LEMMA BeyondTogether ==
  ASSUME rbuffer \in Seq(Small), stream \in Seq(Small), Bytes \in Seq(Small),
         buffer_offset \in 0..Len(rbuffer), advanced \in 0..Len(Bytes),
         buffer_offset' \in buffer_offset..Len(rbuffer), advanced' \in advanced..Len(Bytes),
         buffer_offset' - buffer_offset = advanced' - advanced,
         Coming(rbuffer, buffer_offset, stream) = Beyond(Bytes, advanced)
  PROVE  Coming(rbuffer, buffer_offset', stream) = Beyond(Bytes, advanced')
<1> DEFINE s == rbuffer
           t == stream
           u == Bytes
           i == buffer_offset
           j == advanced
           e == buffer_offset'
           f == advanced'
<1>0. /\ s \in Seq(Small) /\ t \in Seq(Small) /\ u \in Seq(Small)
      /\ i \in 0..Len(s) /\ j \in 0..Len(u) /\ e \in i..Len(s) /\ f \in j..Len(u)
      /\ e - i = f - j /\ Coming(s, i, t) = Beyond(u, j)
  OBVIOUS
<1>a. (Coming(s, e, t) = Beyond(u, f)) => (Coming(rbuffer, buffer_offset', stream) = Beyond(Bytes, advanced'))
  OBVIOUS
<1> HIDE DEF s, t, u, i, j, e, f
<1> DEFINE x == Beyond(s, i)
           y == Beyond(s, e)
           v == Beyond(u, j)
           w == Beyond(u, f)
           k == e - i
<1>1. Len(s) \in Nat /\ Len(t) \in Nat /\ Len(u) \in Nat
  BY <1>0, LenProperties
<1>2. /\ e \in 0..Len(s) /\ f \in 0..Len(u) /\ k \in Nat
      /\ e = i + k /\ f = j + k
  BY <1>0, <1>1
<1>3. x \in Seq(Small) /\ Len(x) = Len(s) - i /\ \A m \in 1..Len(s) - i : x[m] = s[i + m]
  BY <1>0, BeyondProperties
<1>4. v \in Seq(Small) /\ Len(v) = Len(u) - j /\ \A m \in 1..Len(u) - j : v[m] = u[j + m]
  BY <1>0, BeyondProperties
<1>5. /\ y \in Seq(Small) /\ Len(y) = Len(s) - e
      /\ \A m \in 1..Len(s) - e : y[m] = s[e + m]
  BY <1>0, <1>2, BeyondProperties
<1>6. /\ w \in Seq(Small) /\ Len(w) = Len(u) - f
      /\ \A m \in 1..Len(u) - f : w[m] = u[f + m]
  BY <1>0, <1>2, BeyondProperties
<1>7. x \o t = v
  BY <1>0 DEF Coming
<1>8. x \in Seq(Small) /\ y \in Seq(Small) /\ v \in Seq(Small) /\ w \in Seq(Small)
  BY <1>3, <1>4, <1>5, <1>6
<1> HIDE DEF x, y, v, w, k
<1>9. /\ Len(x \o t) = Len(x) + Len(t)
      /\ \A m \in 1..Len(x) + Len(t) :
           (x \o t)[m] = IF m <= Len(x) THEN x[m] ELSE t[m - Len(x)]
  BY <1>0, <1>8, ConcatProperties
<1>10. /\ y \o t \in Seq(Small) /\ Len(y \o t) = Len(y) + Len(t)
       /\ \A m \in 1..Len(y) + Len(t) :
            (y \o t)[m] = IF m <= Len(y) THEN y[m] ELSE t[m - Len(y)]
  BY <1>0, <1>8, ConcatProperties
<1>11. /\ Len(x) = Len(y) + k /\ Len(v) = Len(w) + k /\ Len(v) = Len(x) + Len(t)
       /\ Len(x) \in Nat /\ Len(y) \in Nat /\ Len(v) \in Nat /\ Len(w) \in Nat
       /\ i \in Nat /\ j \in Nat /\ k \in Nat
  <2>1. i \in Nat /\ j \in Nat /\ k \in Nat
    BY <1>0, <1>1, <1>2
  <2>2. Len(x) \in Nat /\ Len(y) \in Nat /\ Len(v) \in Nat /\ Len(w) \in Nat
    BY <1>8, LenProperties
  <2>3. Len(x) = Len(s) - i /\ Len(y) = Len(s) - e /\ Len(v) = Len(u) - j /\ Len(w) = Len(u) - f
    BY <1>3, <1>4, <1>5, <1>6
  <2>4. Len(x) = Len(y) + k /\ Len(v) = Len(w) + k
    BY <1>1, <1>2, <2>1, <2>3
  <2>5. Len(v) = Len(x) + Len(t)
    BY <1>7, <1>9
  <2> QED
    BY <2>1, <2>2, <2>4, <2>5
<1>12. Len(y \o t) = Len(w) /\ Len(y \o t) = Len(y) + Len(t)
  <2>1. Len(y \o t) = Len(y) + Len(t)
    BY <1>10
  <2>2. Len(w) = Len(y) + Len(t)
    BY <1>1, <1>11, SMTT(60)
  <2> QED
    BY <2>1, <2>2
<1>13. ASSUME NEW m \in 1..Len(w) PROVE w[m] = v[m + k]
  <2>1. m \in Int /\ m + k \in 1..Len(u) - j /\ m \in 1..Len(u) - f
    <3>1. Len(v) = Len(u) - j /\ Len(w) = Len(u) - f
      BY <1>4, <1>6
    <3> QED
      BY <1>1, <1>2, <1>11, <3>1
  <2>2. w[m] = u[f + m]
    BY <1>6, <2>1
  <2>3. v[m + k] = u[j + (m + k)]
    BY <1>4, <2>1
  <2>4. f + m = j + (m + k)
    BY <1>2, <1>11, <2>1
  <2> QED
    BY <2>2, <2>3, <2>4
<1>14. ASSUME NEW m \in 1..Len(y) PROVE y[m] = x[m + k]
  <2>1. m \in Int /\ m + k \in 1..Len(s) - i /\ m \in 1..Len(s) - e
    <3>1. Len(x) = Len(s) - i /\ Len(y) = Len(s) - e
      BY <1>3, <1>5
    <3> QED
      BY <1>1, <1>2, <1>11, <3>1
  <2>2. y[m] = s[e + m]
    BY <1>5, <2>1
  <2>3. x[m + k] = s[i + (m + k)]
    BY <1>3, <2>1
  <2>4. e + m = i + (m + k)
    BY <1>2, <1>11, <2>1
  <2> QED
    BY <2>2, <2>3, <2>4
<1>15. ASSUME NEW m \in 1..Len(y \o t) PROVE (y \o t)[m] = w[m]
  <2>1. /\ m \in 1..Len(y) + Len(t) /\ m \in 1..Len(w) /\ m + k \in 1..Len(x) + Len(t)
        /\ m \in Nat
    BY <1>1, <1>11, <1>12
  <2>2. w[m] = (x \o t)[m + k]
    BY <1>7, <1>13, <2>1
  <2>3. (x \o t)[m + k] = IF m + k <= Len(x) THEN x[m + k] ELSE t[(m + k) - Len(x)]
    BY <1>9, <2>1
  <2>4. (y \o t)[m] = IF m <= Len(y) THEN y[m] ELSE t[m - Len(y)]
    BY <1>10, <2>1
  <2>5. CASE m <= Len(y)
    <3>1. m + k <= Len(x) /\ m \in 1..Len(y)
      BY <1>11, <2>1, <2>5
    <3> QED
      BY <1>14, <2>2, <2>3, <2>4, <2>5, <3>1
  <2>6. CASE ~ (m <= Len(y))
    <3>1. ~ (m + k <= Len(x)) /\ (m + k) - Len(x) = m - Len(y)
      BY <1>11, <2>1, <2>6
    <3> QED
      BY <2>2, <2>3, <2>4, <2>6, <3>1
  <2> QED
    BY <2>5, <2>6
<1>16. y \o t = w
  BY <1>8, <1>10, <1>12, <1>15, SeqEqual
<1> QED
  BY <1>a, <1>16 DEF Coming, y, w

(* What is in the buffer, and what is in the stream, is of the text.       *)
LEMMA ComingLengths ==
  ASSUME Accounted, Bytes \in Seq(Small)
  PROVE  /\ Len(rbuffer) \in Nat /\ Len(stream) \in Nat /\ Len(Bytes) \in Nat
         /\ Len(rbuffer) - buffer_offset + Len(stream) = Len(Bytes) - advanced
<1> DEFINE u == Bytes
<1>1. /\ rbuffer \in Seq(Small) /\ stream \in Seq(Small) /\ u \in Seq(Small)
      /\ buffer_offset \in Nat /\ advanced \in Nat
      /\ buffer_offset <= Len(rbuffer) /\ advanced <= Len(u)
      /\ Beyond(rbuffer, buffer_offset) \o stream = Beyond(u, advanced)
  BY DEF Accounted, BufferTyped, Kept, Coming
<1>a. /\ Len(rbuffer) \in Nat /\ Len(stream) \in Nat /\ Len(u) \in Nat
      /\ Len(rbuffer) - buffer_offset + Len(stream) = Len(u) - advanced
      => /\ Len(rbuffer) \in Nat /\ Len(stream) \in Nat /\ Len(Bytes) \in Nat
         /\ Len(rbuffer) - buffer_offset + Len(stream) = Len(Bytes) - advanced
  OBVIOUS
<1> HIDE DEF u
<1>2. Len(rbuffer) \in Nat /\ Len(stream) \in Nat /\ Len(u) \in Nat
  BY <1>1, LenProperties
<1>3. buffer_offset \in 0..Len(rbuffer) /\ advanced \in 0..Len(u)
  BY <1>1, <1>2
<1>4. /\ Beyond(rbuffer, buffer_offset) \in Seq(Small)
      /\ Len(Beyond(rbuffer, buffer_offset)) = Len(rbuffer) - buffer_offset
      /\ Len(Beyond(u, advanced)) = Len(u) - advanced
  BY <1>1, <1>3, BeyondProperties
<1>5. Len(Beyond(rbuffer, buffer_offset) \o stream)
        = Len(Beyond(rbuffer, buffer_offset)) + Len(stream)
  BY <1>1, <1>4, ConcatProperties
<1>6. Len(rbuffer) - buffer_offset + Len(stream) = Len(u) - advanced
  BY <1>1, <1>4, <1>5
<1> QED
  BY <1>2, <1>6, <1>a

LEMMA AdvanceKeeps ==
  ASSUME Accounted, Advance, Bytes \in Seq(Small), Bytes' = Bytes PROVE Accounted' \/ Overtaken'
<1>1. PICK unread \in 0..MaxUnread :
        /\ buffer_offset' = buffer_offset + look_forward + nc + unread
        /\ advanced' = advanced + look_forward + nc + unread
  BY DEF Advance
<1> DEFINE k == look_forward + nc + unread
<1>2. /\ Len(rbuffer) \in Nat /\ Len(stream) \in Nat /\ Len(Bytes) \in Nat
      /\ Len(rbuffer) - buffer_offset + Len(stream) = Len(Bytes) - advanced
  BY ComingLengths
<1>3. /\ rbuffer \in Seq(Small) /\ stream \in Seq(Small)
      /\ buffer_offset \in 0..Len(rbuffer) /\ advanced \in 0..Len(Bytes)
      /\ Coming(rbuffer, buffer_offset, stream) = Beyond(Bytes, advanced)
  BY <1>2 DEF Accounted, BufferTyped, Kept
<1>4. k \in Nat /\ buffer_offset' = buffer_offset + k /\ advanced' = advanced + k
  BY <1>1, MaxUnreadAssumption DEF Accounted, BufferTyped
<1>5. /\ UNCHANGED <<stream, rbuffer, pc, needed, sn>> /\ pc = "lexer"
      /\ look_forward' = 0 /\ nc' = 0
  BY DEF Advance
<1> HIDE DEF k
<1>6. CASE buffer_offset' <= Len(rbuffer)
  <2>1. /\ buffer_offset' \in buffer_offset..Len(rbuffer) /\ advanced' \in advanced..Len(Bytes)
        /\ buffer_offset' - buffer_offset = advanced' - advanced
    <3> DEFINE length == Len(Bytes)
    <3>1. /\ length \in Nat /\ advanced \in 0..length
          /\ Len(rbuffer) - buffer_offset + Len(stream) = length - advanced
      BY <1>2, <1>3
    <3>2. (/\ buffer_offset' \in buffer_offset..Len(rbuffer) /\ advanced' \in advanced..length
           /\ buffer_offset' - buffer_offset = advanced' - advanced) => <2>1!1
      OBVIOUS
    <3> HIDE DEF length
    <3> QED
      BY <1>2, <1>3, <1>4, <1>6, <3>1
  <2>2. Coming(rbuffer, buffer_offset', stream) = Beyond(Bytes, advanced')
    BY <1>3, <2>1, BeyondTogether
  <2>3. BufferTyped'
    BY <1>3, <1>4, <1>5, <1>6 DEF Accounted, BufferTyped
  <2>4. Kept'
    BY <1>5, <2>1, <2>2, <1>2 DEF Kept
  <2>5. LookedAt'
    BY <1>5 DEF LookedAt
  <2> QED
    BY <2>3, <2>4, <2>5 DEF Accounted
<1>7. CASE ~ (buffer_offset' <= Len(rbuffer))
  BY <1>2, <1>3, <1>4, <1>5, <1>7 DEF Overtaken
<1> QED
  BY <1>6, <1>7

(* Nothing is read out of bounds, while what is looked at is in the buffer.*)
LEMMA InBuffer == ASSUME Accounted PROVE ~ MoveBehind /\ ~ FirstBehind
<1>1. /\ Len(rbuffer) \in Nat /\ buffer_offset \in Nat /\ look_forward \in Nat
      /\ buffer_offset <= Len(rbuffer)
  BY Lengths DEF Accounted, BufferTyped
<1>2. ~ MoveBehind
  BY <1>1 DEF MoveBehind
<1>3. ASSUME pc = "first" PROVE Has(0)
  <2>1. SeenUpTo < Len(rbuffer)
    BY <1>3 DEF Accounted, LookedAt
  <2> QED
    BY <1>1, <2>1 DEF SeenUpTo, Has
<1> QED
  BY <1>2, <1>3 DEF FirstBehind

(* The next byte that is asked for is not there, and none behind it.       *)
LEMMA OvertakenKeeps ==
  ASSUME Overtaken, BufferNext PROVE Overtaken'
<1>1. Len(rbuffer) \in Nat /\ buffer_offset \in Nat /\ buffer_offset > Len(rbuffer) /\ nc = 0
  BY LenProperties DEF Overtaken
<1>2. CASE NextCodePoint
  <2>0. ~ (nc > 0)
    BY <1>1
  <2>1. look_forward' = 0
    BY <1>2, <2>0, Zenon DEF NextCodePoint
  <2>2. ~ (buffer_offset + look_forward' < Len(rbuffer))
    BY <1>1, <2>1
  <2>3. pc' = "read_more for first" /\ UNCHANGED <<rbuffer, buffer_offset, nc>>
    BY <1>2, <2>2, Zenon DEF NextCodePoint
  <2> QED
    BY <2>1, <2>3 DEF Overtaken
<1>3. CASE MoveBehind
  BY <1>3 DEF Overtaken, MoveBehind
<1>4. ~ Advance /\ ~ ReadMore /\ ~ First /\ ~ FirstBehind /\ ~ Rest
  <2>1. ~ (nc > 0) /\ ~ (buffer_offset <= Len(rbuffer))
    BY <1>1
  <2>2. ~ Advance
    BY <2>1, Zenon DEF Advance
  <2>3. ~ ReadMore
    BY <2>1, Zenon DEF ReadMore, Refilling
  <2>4. pc # "first" /\ pc # "rest"
    BY DEF Overtaken
  <2>5. ~ First /\ ~ FirstBehind /\ ~ Rest
    BY <2>4, Zenon DEF First, FirstBehind, Rest
  <2> QED
    BY <2>2, <2>3, <2>5
<1> QED
  BY <1>2, <1>3, <1>4 DEF BufferNext, GoesOn

LEMMA AnnouncedSize == \A b \in Small : Announced(b) \in 1..6
BY DEF Announced, Small

(* The byte that is looked at is one of the buffer.                        *)
LEMMA LookedAtByte ==
  ASSUME BufferTyped, SeenUpTo < Len(rbuffer)
  PROVE  Byte(0) = rbuffer[SeenUpTo + 1] /\ Byte(0) \in Small
<1>1. SeenUpTo + 1 \in 1..Len(rbuffer) /\ SeenUpTo + 0 + 1 = SeenUpTo + 1
  BY Lengths DEF BufferTyped, SeenUpTo
<1>2. Byte(0) = rbuffer[SeenUpTo + 1]
  BY <1>1 DEF Byte, SeenUpTo
<1> QED
  BY <1>1, <1>2, ElementOfSeq DEF BufferTyped

LEMMA FirstKeeps ==
  ASSUME Accounted, First, Bytes' = Bytes PROVE Accounted'
<1> DEFINE n == Announced(Byte(0))
<1>0. BufferTyped /\ LookedAt /\ pc = "first"
  BY DEF Accounted, First
<1>1. Len(rbuffer) \in Nat /\ BufferTyped /\ SeenUpTo < Len(rbuffer) /\ SeenUpTo \in Nat
  <2>1. SeenUpTo < Len(rbuffer)
    BY <1>0 DEF LookedAt
  <2>2. SeenUpTo \in Nat
    BY <1>0 DEF BufferTyped, SeenUpTo
  <2> QED
    BY <1>0, <2>1, <2>2, Lengths
<1>2. Byte(0) \in Small /\ n \in 1..6
  BY <1>1, LookedAtByte, AnnouncedSize
<1>3. UNCHANGED <<text, stream, rbuffer, buffer_offset, advanced, look_forward>>
  BY DEF First
<1>4. SeenUpTo' = SeenUpTo /\ Byte(0)' = Byte(0) /\ n' = n
  BY <1>3 DEF SeenUpTo, Byte
<1>5. Kept'
  BY <1>3 DEF Accounted, Kept
<1>6. Has(n - 1) <=> SeenUpTo + n <= Len(rbuffer)
  BY <1>1, <1>2 DEF Has, SeenUpTo
<1>7. CASE n = 1
  <2>0. ~ (n = 0) /\ ~ (n > 1)
    BY <1>7
  <2>1. pc' = "lexer" /\ nc' = 1 /\ UNCHANGED <<needed, sn>>
    BY <1>7, <2>0, Zenon DEF First, Return
  <2>2. BufferTyped'
    BY <1>1, <1>3, <2>1 DEF BufferTyped
  <2>3. LookedAt'
    BY <1>1, <1>3, <1>4, <2>1 DEF LookedAt
  <2> QED
    BY <1>5, <2>2, <2>3 DEF Accounted
<1>8. CASE n > 1 /\ Has(n - 1)
  <2>0. ~ (n = 0) /\ ~ (n = 1)
    BY <1>2, <1>8
  <2>1. pc' = "rest" /\ UNCHANGED <<needed, sn, into, nc>>
    BY <1>8, <2>0, Zenon DEF First
  <2>2. BufferTyped'
    BY <1>1, <1>3, <2>1 DEF BufferTyped
  <2>3. LookedAt'
    BY <1>2, <1>3, <1>4, <1>6, <1>8, <2>1 DEF LookedAt
  <2> QED
    BY <1>5, <2>2, <2>3 DEF Accounted
<1>9. CASE n > 1 /\ ~ Has(n - 1)
  <2>0. ~ (n = 0) /\ ~ (n = 1)
    BY <1>2, <1>9
  <2>1. pc' = "read_more for rest" /\ needed' = n - 1 /\ sn' = n - 1 /\ UNCHANGED nc
    BY <1>9, <2>0, Zenon DEF First
  <2>2. n \in 2..6 /\ n - 1 \in 1..n - 1 /\ (n - 1) - (n - 1) = 0 /\ n - 1 \in Nat
    BY <1>2, <1>9
  <2>3. SeenUpTo' + 1 + (sn' - needed') <= Len(rbuffer') /\ needed' \in 1..sn'
    <3>1. needed' \in 1..sn' /\ sn' - needed' = 0
      BY <2>1, <2>2
    <3>2. SeenUpTo + 1 + 0 <= Len(rbuffer)
      BY <1>1
    <3> QED
      BY <1>3, <1>4, <3>1, <3>2
  <2>4. BufferTyped'
    <3>1. needed' \in Nat /\ sn' \in Nat
      BY <2>1, <2>2
    <3> QED
      BY <1>1, <1>3, <2>1, <3>1 DEF BufferTyped
  <2>5. LookedAt'
    BY <1>4, <2>1, <2>2, <2>3, Zenon DEF LookedAt
  <2> QED
    BY <1>5, <2>4, <2>5 DEF Accounted
<1> QED
  BY <1>2, <1>7, <1>8, <1>9

LEMMA RestKeeps ==
  ASSUME Accounted, Rest, Bytes' = Bytes PROVE Accounted'
<1> DEFINE n == Announced(Byte(0))
<1>0. BufferTyped /\ LookedAt /\ pc = "rest"
  BY DEF Accounted, Rest
<1>1. Len(rbuffer) \in Nat /\ n \in 2..6 /\ SeenUpTo + n <= Len(rbuffer) /\ SeenUpTo \in Nat
  <2>1. n \in 2..6 /\ SeenUpTo + n <= Len(rbuffer)
    BY <1>0 DEF LookedAt
  <2>2. SeenUpTo \in Nat
    BY <1>0 DEF BufferTyped, SeenUpTo
  <2> QED
    BY <1>0, <2>1, <2>2, Lengths
<1>2. /\ UNCHANGED <<text, stream, rbuffer, buffer_offset, advanced, look_forward, needed, sn>>
      /\ pc' = "lexer" /\ nc' \in {1, n}
  BY DEF Rest, Return
<1>3. SeenUpTo' = SeenUpTo
  BY <1>2 DEF SeenUpTo
<1>4. BufferTyped'
  BY <1>1, <1>2 DEF Accounted, BufferTyped
<1>5. Kept'
  BY <1>2 DEF Accounted, Kept
<1>6. LookedAt'
  BY <1>1, <1>2, <1>3 DEF LookedAt
<1> QED
  BY <1>4, <1>5, <1>6 DEF Accounted

(* What is not advanced over, when it is moved to the front.               *)
LEMMA Preserved ==
  ASSUME Accounted, SeenUpTo <= Len(rbuffer)
  PROVE  LET preserved == Beyond(rbuffer, buffer_offset)
         IN  /\ preserved \in Seq(Small) /\ Len(preserved) = Len(rbuffer) - buffer_offset
             /\ \A k \in 1..Len(preserved) : preserved[k] = rbuffer[buffer_offset + k]
             /\ preserved \o stream = Beyond(Bytes, advanced)
             /\ look_forward <= Len(preserved)
<1>1. rbuffer \in Seq(Small) /\ buffer_offset \in 0..Len(rbuffer) /\ Len(rbuffer) \in Nat
      /\ look_forward \in Nat
  BY Lengths DEF Accounted, BufferTyped
<1>2. /\ Beyond(rbuffer, buffer_offset) \in Seq(Small)
      /\ Len(Beyond(rbuffer, buffer_offset)) = Len(rbuffer) - buffer_offset
      /\ \A k \in 1..Len(rbuffer) - buffer_offset :
           Beyond(rbuffer, buffer_offset)[k] = rbuffer[buffer_offset + k]
  BY <1>1, BeyondProperties
<1>3. Beyond(rbuffer, buffer_offset) \o stream = Beyond(Bytes, advanced)
  BY DEF Accounted, Kept, Coming
<1>4. look_forward <= Len(rbuffer) - buffer_offset
  BY <1>1 DEF SeenUpTo
<1> QED
  BY <1>2, <1>3, <1>4

LEMMA ReadMoreKeeps ==
  ASSUME Accounted, ReadMore, Bytes' = Bytes PROVE Accounted'
<1> DEFINE preserved == Beyond(rbuffer, buffer_offset)
           room == BufferSize - Len(preserved)
           available == IF room < Len(stream) THEN room ELSE Len(stream)
           chr0 == Byte(0)
<1>1. pc \in {"read_more for first", "read_more for rest"} /\ BufferTyped /\ LookedAt /\ Kept
  BY DEF Accounted, ReadMore, Refilling, InReadMore
<1>2. /\ Len(rbuffer) \in Nat /\ Len(stream) \in Nat /\ buffer_offset \in Nat /\ look_forward \in Nat
      /\ advanced \in Nat /\ nc \in Nat /\ stream \in Seq(Small)
  BY <1>1, Lengths DEF BufferTyped
<1>3. SeenUpTo <= Len(rbuffer) /\ needed \in 1..sn /\ sn \in 1..5
  <2>1. CASE pc = "read_more for first"
    <3>1. sn = 1 /\ needed = 1 /\ SeenUpTo <= Len(rbuffer)
      BY <1>1, <2>1 DEF LookedAt
    <3> QED
      BY <3>1
  <2>2. CASE pc = "read_more for rest"
    <3>1. /\ Announced(Byte(0)) \in 2..6 /\ sn = Announced(Byte(0)) - 1 /\ needed \in 1..sn
          /\ SeenUpTo + 1 + (sn - needed) <= Len(rbuffer)
      BY <1>1, <2>2 DEF LookedAt
    <3>2. sn \in 1..5 /\ SeenUpTo \in Nat
      BY <1>2, <3>1 DEF SeenUpTo
    <3> QED
      BY <1>2, <3>1, <3>2
  <2> QED
    BY <1>1, <2>1, <2>2
<1>4. /\ preserved \in Seq(Small) /\ Len(preserved) = Len(rbuffer) - buffer_offset
      /\ \A k \in 1..Len(preserved) : preserved[k] = rbuffer[buffer_offset + k]
      /\ preserved \o stream = Beyond(Bytes, advanced)
      /\ look_forward <= Len(preserved)
  BY <1>3, Preserved
<1>5. /\ preserved \in Seq(Small) /\ Len(preserved) \in Nat
      /\ Len(preserved) = Len(rbuffer) - buffer_offset /\ look_forward <= Len(preserved)
  <2>1. preserved \in Seq(Small) /\ Len(preserved) = Len(rbuffer) - buffer_offset /\ look_forward <= Len(preserved)
    BY <1>4
  <2> QED
    BY <2>1, LenProperties
<1>6. \/ available > 0 /\ \E n \in 1..available : Readsome(preserved, 0, n)
      \/ available = 0 /\ ReadNothing(preserved, 0)
  BY DEF ReadMore, Beyond
(* What is known of a first byte that announced others.                    *)
<1>7. ASSUME pc = "read_more for rest"
      PROVE  /\ Announced(chr0) \in 2..6 /\ sn = Announced(chr0) - 1
             /\ look_forward + 1 + (sn - needed) <= Len(preserved)
             /\ chr0 = preserved[look_forward + 1] /\ look_forward + 1 \in 1..Len(preserved)
  <2>1. /\ Announced(chr0) \in 2..6 /\ sn = Announced(chr0) - 1
        /\ SeenUpTo + 1 + (sn - needed) <= Len(rbuffer)
    BY <1>1, <1>7 DEF LookedAt
  <2>2. look_forward + 1 + (sn - needed) <= Len(preserved)
    BY <1>2, <1>3, <1>5, <2>1 DEF SeenUpTo
  <2>3. look_forward + 1 \in 1..Len(preserved) /\ SeenUpTo < Len(rbuffer)
    BY <1>2, <1>3, <1>5, <2>2 DEF SeenUpTo
  <2>4. SeenUpTo + 1 = buffer_offset + (look_forward + 1)
    BY <1>2 DEF SeenUpTo
  <2>5. chr0 = rbuffer[SeenUpTo + 1]
    BY <1>1, <2>3, LookedAtByte
  <2> QED
    BY <1>4, <2>1, <2>2, <2>3, <2>4, <2>5
<1>8. CASE available > 0 /\ \E n \in 1..available : Readsome(preserved, 0, n)
  <2>1. PICK n \in 1..available : Readsome(preserved, 0, n)
    BY <1>8
  <2>2. n \in 1..Len(stream) /\ n \in 0..Len(stream)
    BY <1>2, <1>5, BufferSizeAssumption
  <2>3. /\ rbuffer' = preserved \o SubSeq(stream, 1, n) /\ buffer_offset' = 0
        /\ stream' = Beyond(stream, n)
        /\ needed' = (IF n < needed THEN needed - n ELSE 0)
        /\ IF n < needed THEN UNCHANGED <<pc, into, nc>> ELSE Resume(sn, 0)
        /\ UNCHANGED <<advanced, look_forward, sn>>
    BY <2>1 DEF Readsome, Beyond
  <2>4. /\ rbuffer' \in Seq(Small) /\ Len(rbuffer') = Len(preserved) + n
        /\ \A k \in 1..Len(preserved) : rbuffer'[k] = preserved[k]
        /\ stream' \in Seq(Small)
        /\ Coming(rbuffer', 0, stream') = preserved \o stream
    <3> HIDE DEF preserved, available
    <3>1. /\ preserved \o SubSeq(stream, 1, n) \in Seq(Small)
          /\ Len(preserved \o SubSeq(stream, 1, n)) = Len(preserved) + n
          /\ \A k \in 1..Len(preserved) : (preserved \o SubSeq(stream, 1, n))[k] = preserved[k]
          /\ Beyond(stream, n) \in Seq(Small)
          /\ Coming(preserved \o SubSeq(stream, 1, n), 0, Beyond(stream, n)) = preserved \o stream
      BY <1>2, <1>5, <2>2, Refilled
    <3> QED
      BY <2>3, <3>1
  <2>5. Kept'
    BY <1>1, <1>4, <2>3, <2>4 DEF Kept
  <2>6. SeenUpTo' = look_forward /\ Len(rbuffer') \in Nat
    BY <1>2, <1>5, <2>2, <2>3, <2>4 DEF SeenUpTo
  <2>7. Byte(0)' = rbuffer'[look_forward + 1]
    <3>1. Byte(0)' = rbuffer'[buffer_offset' + look_forward' + 0 + 1]
      BY DEF Byte
    <3>2. buffer_offset' + look_forward' + 0 + 1 = look_forward + 1
      BY <1>2, <2>3
    <3> QED
      BY <3>1, <3>2
  <2>8. pc = "read_more for rest" => Byte(0)' = chr0
    BY <1>7, <2>4, <2>7
  <2>9. /\ rbuffer' \in Seq(Small) /\ stream' \in Seq(Small) /\ 0 <= Len(rbuffer')
        /\ buffer_offset' = 0 /\ sn \in Nat /\ UNCHANGED <<advanced, look_forward, sn>>
    BY <1>3, <2>3, <2>4, <2>6
  <2>10. CASE n < needed
    <3>1. needed' = needed - n /\ pc' = pc /\ nc' = nc /\ needed' \in 1..sn /\ needed' \in Nat
      BY <1>3, <2>2, <2>3, <2>10
    <3>2. pc = "read_more for rest"
      <4>1. CASE pc = "read_more for first"
        <5>1. needed = 1
          BY <1>1, <4>1 DEF LookedAt
        <5>2. ~ (n < 1)
          BY <2>2
        <5> QED
          BY <2>10, <5>1, <5>2
      <4> QED
        BY <1>1, <4>1
    <3>3. Announced(chr0) \in 2..6 /\ sn = Announced(chr0) - 1
          /\ look_forward + 1 + (sn - needed) <= Len(preserved) /\ Byte(0)' = chr0
      BY <1>7, <2>8, <3>2
    <3>4. SeenUpTo' + 1 + (sn' - needed') <= Len(rbuffer')
      <4>1. look_forward + 1 + (sn - (needed - n)) <= Len(preserved) + n
        BY <1>2, <1>3, <1>5, <2>2, <3>3
      <4>2. Len(rbuffer') = Len(preserved) + n /\ sn' = sn
        BY <2>3, <2>4
      <4> QED
        BY <2>6, <3>1, <4>1, <4>2
    <3>5. BufferTyped'
      BY <1>2, <2>9, <3>1 DEF BufferTyped
    <3>6. LookedAt'
      BY <2>3, <3>1, <3>2, <3>3, <3>4, Zenon DEF LookedAt
    <3> QED
      BY <2>5, <3>5, <3>6 DEF Accounted
  <2>11. CASE ~ (n < needed)
    <3>1. needed' = 0 /\ UNCHANGED nc
          /\ pc' = (IF pc = "read_more for first" THEN "first" ELSE "rest")
      <4>1. needed' = 0 /\ Resume(sn, 0)
        BY <2>3, <2>11
      <4>2. ~ (sn < sn)
        BY <1>3
      <4> QED
        BY <4>1, <4>2, Zenon DEF Resume
    <3>2. BufferTyped'
      BY <1>2, <2>9, <3>1 DEF BufferTyped
    <3>3. CASE pc = "read_more for first"
      <4>1. SeenUpTo' < Len(rbuffer')
        BY <1>2, <1>5, <2>2, <2>4, <2>6
      <4>2. LookedAt'
        BY <3>1, <3>3, <4>1 DEF LookedAt
      <4> QED
        BY <2>5, <3>2, <4>2 DEF Accounted
    <3>4. CASE pc = "read_more for rest"
      <4>1. Announced(chr0) \in 2..6 /\ sn = Announced(chr0) - 1
            /\ look_forward + 1 + (sn - needed) <= Len(preserved) /\ Byte(0)' = chr0
        BY <1>7, <2>8, <3>4
      <4>2. look_forward + Announced(chr0) <= Len(preserved) + n
        <5>1. Announced(chr0) = sn + 1 /\ needed <= n /\ n \in Nat
          BY <1>3, <2>2, <2>11, <4>1
        <5> HIDE DEF chr0, preserved
        <5> QED
          BY <1>2, <1>3, <1>5, <4>1, <5>1
      <4>3. SeenUpTo' + Announced(chr0) <= Len(rbuffer')
        BY <2>4, <2>6, <4>2
      <4>4. LookedAt'
        <5>1. pc' = "rest"
          BY <3>1, <3>4
        <5> QED
          BY <4>1, <4>3, <5>1, Zenon DEF LookedAt
      <4> QED
        BY <2>5, <3>2, <4>4 DEF Accounted
    <3> QED
      BY <1>1, <3>3, <3>4
  <2> QED
    BY <2>10, <2>11
<1>9. CASE available = 0 /\ ReadNothing(preserved, 0)
  <2>1. /\ rbuffer' = preserved /\ buffer_offset' = 0
        /\ UNCHANGED <<stream, advanced, look_forward, needed, sn>>
    BY <1>9 DEF ReadNothing
  <2>2. \/ pc = "read_more for first" /\ Return(into, 0)
        \/ pc = "read_more for rest" /\ \E point : Return(point, 1)
    <3> DEFINE got == sn - needed
    <3>1. \E point : Resume(got, point)
      BY <1>9 DEF ReadNothing
    <3>2. got < sn /\ got # sn
      BY <1>3
    <3> HIDE DEF got
    <3>3. CASE pc = "read_more for first"
      BY <3>1, <3>2, <3>3 DEF Resume
    <3>4. CASE pc = "read_more for rest"
      <4>1. pc # "read_more for first"
        BY <3>4
      <4> QED
        BY <3>1, <3>2, <3>4, <4>1 DEF Resume
    <3> QED
      BY <1>1, <3>3, <3>4
  <2>3. Coming(preserved, 0, stream) = preserved \o stream
    <3>1. Beyond(preserved, 0) = preserved
      BY <1>5, BeyondNone
    <3> QED
      BY <3>1 DEF Coming
  <2>4. Kept'
    BY <1>1, <1>4, <2>1, <2>3 DEF Kept
  <2>5. pc' = "lexer"
    BY <2>2 DEF Return
  <2>6. nc' = 0 \/ nc' = 1
    BY <2>2 DEF Return
  <2>7. nc' \in Nat
    BY <2>6
  <2>8. BufferTyped'
    <3>1. /\ rbuffer' \in Seq(Small) /\ stream' \in Seq(Small) /\ buffer_offset' = 0
          /\ 0 <= Len(rbuffer')
      BY <1>2, <1>5, <2>1
    <3>2. needed' \in Nat /\ sn' \in Nat /\ advanced' \in Nat /\ look_forward' \in Nat
      BY <1>2, <1>3, <2>1
    <3> QED
      BY <2>7, <3>1, <3>2 DEF BufferTyped
  <2>9. nc' > 0 => SeenUpTo' + nc' <= Len(rbuffer')
    <3>1. SeenUpTo' = look_forward
      BY <1>2, <2>1 DEF SeenUpTo
    <3>2. CASE pc = "read_more for rest"
      <4>1. look_forward + 1 \in 1..Len(preserved)
        BY <1>7, <3>2
      <4>2. look_forward + 1 <= Len(rbuffer')
        BY <1>5, <2>1, <4>1
      <4>3. look_forward + 0 <= Len(rbuffer')
        BY <1>2, <1>5, <2>1
      <4> QED
        BY <2>6, <3>1, <4>2, <4>3
    <3>3. CASE pc = "read_more for first"
      <4>1. nc' = 0
        BY <2>2, <3>3 DEF Return
      <4> QED
        BY <4>1
    <3> QED
      BY <1>1, <3>2, <3>3
  <2> QED
    BY <2>4, <2>5, <2>8, <2>9 DEF Accounted, LookedAt
<1> QED
  BY <1>6, <1>8, <1>9

---------------------------------------------------------------------------
(* What the other tokens are made of is not the buffer's.                  *)

LEMMA NextOfBuffer == Next => BufferNext \/ UNCHANGED bufferVars
BY DEF Next, EmplaceToken, Contents, Jsdoc, JsxText, Number, Source, Spelling, Ended, vars

LEMMA InvKept == BufferInv /\ [Next]_vars => BufferInv'
<1> SUFFICES ASSUME BufferInv, [Next]_vars PROVE BufferInv'
  OBVIOUS
<1>1. BufferNext \/ UNCHANGED bufferVars
  BY NextOfBuffer DEF vars
<1>2. CASE UNCHANGED bufferVars
  BY <1>2 DEF bufferVars, BufferInv, SizesAnnounced, Accounted, Overtaken, BufferTyped, Kept, LookedAt, SeenUpTo, Byte, Bytes
<1>3. CASE BufferNext
  <2>1. text' = text
    BY <1>3 DEF BufferNext, GoesOn, NextCodePoint, Advance, ReadMore, Readsome, ReadNothing, MoveBehind,
                First, FirstBehind, Rest
  <2>2. Bytes' = Bytes /\ (SizesAnnounced' <=> SizesAnnounced)
    BY <2>1 DEF Bytes, SizesAnnounced
  <2>3. ASSUME SizesAnnounced, Accounted PROVE Accounted' \/ Overtaken'
    <3>1. Bytes \in Seq(Small)
      BY <2>3, AnnouncingBytes DEF BufferInv
    <3>2. ~ MoveBehind /\ ~ FirstBehind
      BY <2>3, InBuffer
    <3> QED
      BY <1>3, <2>2, <2>3, <3>1, <3>2, NextCodePointKeeps, AdvanceKeeps, ReadMoreKeeps, FirstKeeps, RestKeeps
      DEF BufferNext, GoesOn
  <2>4. Overtaken => Overtaken'
    BY <1>3, OvertakenKeeps
  <2> QED
    BY <2>2, <2>3, <2>4 DEF BufferInv
<1> QED
  BY <1>1, <1>2, <1>3

(* However the stream cuts a text into chunks, and however far the lexer   *)
(* looks ahead in it, the buffer behind its offset and the stream are what *)
(* the lexer has not advanced over, for every text and size of the buffer, *)
(* while the offset is in the buffer: however many bytes are skipped that  *)
(* were not read, nothing else takes it out.                               *)
THEOREM BufferKeepsAll == Spec => []NothingLost
<1>1. Init => BufferInv
  BY InitInv
<1>2. BufferInv /\ [Next]_vars => BufferInv'
  BY InvKept
<1>3. BufferInv => NothingLost
  BY NothingLostFromInv
<1> QED
  BY <1>1, <1>2, <1>3, PTL DEF Spec
=============================================================================
