-------------------------- MODULE CodePointBuffer --------------------------
(***************************************************************************)
(* lexer::next_code_point over its buffer: the bytes of a text come from a *)
(* stream in chunks, a code point is put together from one to six of them, *)
(* and the lexer looks ahead as far as it likes before it advances.        *)
(***************************************************************************)
EXTENDS Integers, Sequences, SequencesExt

CONSTANTS
  Sources,    \* the texts, as sequences of code points and of stray bytes
  BufferSize, \* buffer_size
  MaxUnread   \* how many bytes the lexer skips at a time without having read them

ASSUME BufferSizeAssumption == BufferSize \in Nat \ {0}
ASSUME MaxUnreadAssumption == MaxUnread \in Nat

---------------------------------------------------------------------------
(* tscc::utf8_size and tscc::utf8_encode, for code points of up to 31 bits.*)

(* The largest code point of one byte, of two bytes, and so on.            *)
Largest == <<127, 2047, 65535, 2097151, 67108863, 2147483647>>

(* The bits that mark the first byte of so many.                           *)
Lead == <<0, 192, 224, 240, 248, 252>>

EncodedLength(ch) == CHOOSE n \in 1..6 : ch <= Largest[n] /\ (n > 1 => ch > Largest[n - 1])

(* The bytes of ch: six bits in each but the first.                        *)
Encoded8(ch) ==
  LET n == EncodedLength(ch)
  IN  [k \in 1..n |-> IF k = 1 THEN Lead[n] + (ch \div 64 ^ (n - 1))
                               ELSE 128 + ((ch \div 64 ^ (n - k)) % 64)]

(* One byte, and another for each size that ch is too large for.           *)
Counted8(ch) == 1 + Len(SelectSeq(SubSeq(Largest, 1, 5), LAMBDA most : ch > most))

utf8_size(str) == FoldLeft(LAMBDA len, ch : len + Counted8(ch), 0, str)

(* A stray byte b is written as -b.                                        *)
BytesOf(point) == IF point < 0 THEN <<- point>> ELSE Encoded8(point)
BytesIn(points) == FlattenSeq([k \in DOMAIN points |-> BytesOf(points[k])])

Byte8 == 0..255
ASSUME SourcesAssumption == \A points \in Sources : BytesIn(points) \in Seq(Byte8)

---------------------------------------------------------------------------
VARIABLES
  text,          \* the code points
  stream,        \* what stream_ has left
  rbuffer,       \* rbuffer_
  buffer_offset, \* buffer_offset_
  advanced,      \* how many bytes were advanced over, a part of gpos_
  look_forward,  \* the parameter of next_code_point
  pc,            \* where next_code_point is, "lexer", or "undefined"
  needed,        \* needed, and sn, of read_more
  sn,
  into,          \* what next_code_point returned
  nc

bufferVars == <<text, stream, rbuffer, buffer_offset, advanced, look_forward, pc, needed, sn, into, nc>>

Bytes == BytesIn(text)

BufferIdle ==
  /\ text = <<>> /\ stream = <<>>
  /\ rbuffer = <<>> /\ buffer_offset = 0 /\ advanced = 0 /\ look_forward = 0
  /\ pc = "lexer" /\ needed = 0 /\ sn = 0 /\ into = 0 /\ nc = 0

BufferInit ==
  /\ text \in Sources /\ stream = Bytes
  /\ rbuffer = <<>> /\ buffer_offset = 0 /\ advanced = 0 /\ look_forward = 0
  /\ pc = "lexer" /\ needed = 0 /\ sn = 0 /\ into = 0 /\ nc = 0

Has(k) == buffer_offset + look_forward + k < Len(rbuffer)
Byte(k) == rbuffer[buffer_offset + look_forward + k + 1]

Return(point, size) == pc' = "lexer" /\ into' = point /\ nc' = size

(* The lexer looks at the next code point, or at the one behind the last.  *)
NextCodePoint ==
  /\ pc = "lexer"
  /\ \/ look_forward' = 0
     \/ nc > 0 /\ look_forward' = look_forward + nc
  /\ IF buffer_offset + look_forward' < Len(rbuffer)
     THEN pc' = "first" /\ UNCHANGED <<needed, sn>>
     ELSE pc' = "read_more for first" /\ needed' = 1 /\ sn' = 1
  /\ UNCHANGED <<text, stream, rbuffer, buffer_offset, advanced, into, nc>>

(* advance, over what was seen last, and at some places over a byte behind *)
(* it that was not.  That one need not be in the buffer, nor in the text,  *)
(* and a size that was no size takes the offset out of the buffer as well. *)
Advance ==
  /\ pc = "lexer" /\ nc > 0
  /\ \E unread \in 0..MaxUnread :
       /\ buffer_offset' = buffer_offset + look_forward + nc + unread
       /\ advanced' = advanced + look_forward + nc + unread
  /\ look_forward' = 0 /\ nc' = 0
  /\ UNCHANGED <<text, stream, rbuffer, pc, needed, sn, into>>

(* read_more returns to its caller: the first byte is there or not, all of *)
(* the others are there, or the first one is returned as it is.            *)
Resume(got, chr0) ==
  CASE got < sn /\ pc = "read_more for first" -> Return(into, 0)
    [] got < sn /\ pc = "read_more for rest" -> Return(chr0, 1)
    [] got = sn -> /\ pc' = (IF pc = "read_more for first" THEN "first" ELSE "rest")
                   /\ UNCHANGED <<into, nc>>

Readsome(preserved, start, n) ==
  /\ rbuffer' = preserved \o SubSeq(stream, 1, n) /\ buffer_offset' = start
  /\ stream' = SubSeq(stream, n + 1, Len(stream))
  /\ needed' = IF n < needed THEN needed - n ELSE 0
  /\ IF n < needed THEN UNCHANGED <<pc, into, nc>> ELSE Resume(sn, 0)
  /\ UNCHANGED <<text, advanced, look_forward, sn>>

ReadNothing(preserved, start) ==
  /\ rbuffer' = preserved /\ buffer_offset' = start
  /\ Resume(sn - needed, IF pc = "read_more for rest" THEN Byte(0) ELSE 0)
  /\ UNCHANGED <<text, stream, advanced, look_forward, needed, sn>>

InReadMore == pc \in {"read_more for first", "read_more for rest"}
Refilling == InReadMore /\ buffer_offset <= Len(rbuffer)

(* The offset is behind the bytes of the buffer: how many are to be moved  *)
(* is an underflow, and memmove does not return.                           *)
MoveBehind ==
  /\ InReadMore /\ buffer_offset > Len(rbuffer)
  /\ pc' = "undefined"
  /\ UNCHANGED <<text, stream, rbuffer, buffer_offset, advanced, look_forward, needed, sn, into, nc>>

(* Mutant: the offset is left when the bytes are moved.                    *)
ReadMoreOffsetKept ==
  /\ Refilling
  /\ LET preserved == SubSeq(rbuffer, buffer_offset + 1, Len(rbuffer))
         room == BufferSize - Len(preserved)
         available == IF room < Len(stream) THEN room ELSE Len(stream)
     IN  \/ available > 0 /\ \E n \in 1..available : Readsome(preserved, buffer_offset, n)
         \/ available = 0 /\ ReadNothing(preserved, 0)

(* Mutant: the bytes that were advanced over stay, and take up room.       *)
ReadMoreUnmoved ==
  /\ Refilling
  /\ LET room == BufferSize - Len(rbuffer)
         available == IF room < Len(stream) THEN room ELSE Len(stream)
     IN  \/ available > 0 /\ \E n \in 1..available : Readsome(rbuffer, buffer_offset, n)
         \/ available = 0 /\ ReadNothing(rbuffer, buffer_offset)

(* Mutant: the loop ends when readsome fails, not when it gives nothing.   *)
ReadMoreWaits ==
  /\ Refilling
  /\ LET preserved == SubSeq(rbuffer, buffer_offset + 1, Len(rbuffer))
         room == BufferSize - Len(preserved)
         available == IF room < Len(stream) THEN room ELSE Len(stream)
     IN  \/ available > 0 /\ \E n \in 1..available : Readsome(preserved, 0, n)
         \/ available = 0 /\ UNCHANGED bufferVars

(* One round of read_more: what is not advanced over moves to the start of *)
(* the buffer, and readsome fills some or all of the room behind.  It has  *)
(* nothing to give at the end of the text, or when there is no room.       *)
ReadMore ==
  /\ Refilling
  /\ LET preserved == SubSeq(rbuffer, buffer_offset + 1, Len(rbuffer))
         room == BufferSize - Len(preserved)
         available == IF room < Len(stream) THEN room ELSE Len(stream)
     IN  \/ available > 0 /\ \E n \in 1..available : Readsome(preserved, 0, n)
         \/ available = 0 /\ ReadNothing(preserved, 0)

(* How many bytes the first one announces; none for 0xfe and 0xff.         *)
Announced(chr0) ==
  CASE chr0 <= 191 -> 1 [] chr0 \in 192..223 -> 2 [] chr0 \in 224..239 -> 3
    [] chr0 \in 240..247 -> 4 [] chr0 \in 248..251 -> 5 [] chr0 \in 252..253 -> 6
    [] OTHER -> 0

(* A byte came, but not as many as would fill the buffer up to the one     *)
(* that is looked at: it is read out of bounds.                            *)
FirstBehind ==
  /\ pc = "first" /\ ~ Has(0)
  /\ pc' = "undefined"
  /\ UNCHANGED <<text, stream, rbuffer, buffer_offset, advanced, look_forward, needed, sn, into, nc>>

(* When one byte is missing, as many are asked for as come behind the      *)
(* first.  0xfe and 0xff are returned as a size, into is not written.      *)
First ==
  /\ pc = "first" /\ Has(0)
  /\ LET n == Announced(Byte(0))
     IN  CASE n = 0 -> Return(into, Byte(0)) /\ UNCHANGED <<needed, sn>>
           [] n = 1 -> Return(Byte(0), 1) /\ UNCHANGED <<needed, sn>>
           [] n > 1 /\ Has(n - 1) -> pc' = "rest" /\ UNCHANGED <<needed, sn, into, nc>>
           [] n > 1 /\ ~ Has(n - 1) ->
                /\ pc' = "read_more for rest" /\ needed' = n - 1 /\ sn' = n - 1
                /\ UNCHANGED <<into, nc>>
  /\ UNCHANGED <<text, stream, rbuffer, buffer_offset, advanced, look_forward>>

Rest ==
  /\ pc = "rest"
  /\ LET n == Announced(Byte(0))
         bits(k) == (Byte(k) - 128) * 64 ^ (n - 1 - k)
     IN  IF \A k \in 1..n - 1 : Byte(k) \in 128..191
         THEN Return((Byte(0) - Lead[n]) * 64 ^ (n - 1) + FoldLeft(LAMBDA sum, k : sum + bits(k), 0, [k \in 1..n - 1 |-> k]), n)
         ELSE Return(Byte(0), 1)
  /\ UNCHANGED <<text, stream, rbuffer, buffer_offset, advanced, look_forward, needed, sn>>

GoesOn == ReadMore \/ MoveBehind \/ First \/ FirstBehind \/ Rest
BufferNext == NextCodePoint \/ Advance \/ GoesOn

(* A call of next_code_point goes on until it returns.                     *)
BufferFairness == WF_bufferVars(GoesOn)

---------------------------------------------------------------------------

(* The buffer behind its offset and the stream are together what the lexer *)
(* has not advanced over: refilling loses no byte and doubles none,        *)
(* wherever a chunk ends and however far the lexer has looked ahead; for as*)
(* long as the offset is in the buffer, from where a byte that announces no*)
(* size, or a byte that is skipped before it is read, may take it.         *)
NothingLost ==
  ((\A k \in DOMAIN Bytes : Bytes[k] < 254) /\ buffer_offset <= Len(rbuffer))
    => SubSeq(rbuffer, buffer_offset + 1, Len(rbuffer)) \o stream
         = SubSeq(Bytes, advanced + 1, Len(Bytes))

(* Where the code point k of the text begins.                              *)
StartOf(k) == utf8_size(SubSeq([j \in DOMAIN text |-> IF text[j] < 0 THEN 0 ELSE text[j]], 1, k - 1))
Size(k) == Len(BytesOf(text[k]))
Behind(k) == Len(Bytes) - StartOf(k) - Size(k)
SeenNow(k) == pc = "lexer" /\ nc > 0 /\ StartOf(k) = advanced + look_forward /\ text[k] >= 0

(* A code point is read as the one that utf8_encode writes, however the    *)
(* chunks cut it, if as many bytes as are asked for are still to come, and *)
(* have room in the buffer (otherwise it may fall apart into bytes); and   *)
(* the text seems to end where it ends, or where the buffer is full of     *)
(* what was looked ahead over.                                             *)
ReadAsEncoded ==
  /\ \A k \in DOMAIN text :
       (SeenNow(k) /\ Behind(k) >= Size(k) - 2 /\ look_forward + 2 * Size(k) - 2 <= BufferSize)
         => into = text[k] /\ nc = Size(k)
  /\ (pc = "lexer" /\ nc = 0 /\ look_forward > 0)
       => advanced + look_forward = Len(Bytes) \/ look_forward >= BufferSize

(* Every call returns, where it is defined: read_more's loop ends, whatever*)
(* readsome gives.                                                         *)
CallsReturn == pc # "lexer" ~> pc \in {"lexer", "undefined"}
=============================================================================
