------------------------------- MODULE Text -------------------------------
(* internal/message: how a text is cut into segments of an SMS, what each     *)
(* segment's header (UDH) says, how segments are put together again whatever  *)
(* the order they come in, and the packing of seven-bit codes into bytes.     *)
(*                                                                            *)
(* A text is written letter by letter, then cut once, and its segments arrive *)
(* one at a time in any order.                                                *)
EXTENDS SequencesExt, Integers, Bitwise

CONSTANTS
  Letters,       \* what texts are written with
  DefaultCodes,  \* letter -> its septet, for the letters of the basic alphabet
  ExtCodes,      \* letter -> the septet after the escape, for the extension table
  Surrogates,    \* the letters that take two units in UTF-16
  Question,      \* the septet of '?'
  Encodings,     \* what the caller may ask for (none where only the codec is of interest)
  SingleLimit,   \* encoding -> what a text of one segment may hold (160, 140, 70)
  ConcatLimit,   \* encoding -> what a segment of several may hold (153, 134, 67)
  ByteSize,      \* 256 in the code: a header byte counts modulo this
  MaxLetters     \* bound: letters of a text

VARIABLES
  text,      \* the text
  encoding,  \* the encoding it was cut for, "" before Split
  segments,  \* Split's result
  got        \* the segments that arrived, in the order they did

vars == <<text, encoding, segments, got>>

Escape == 27
Basic == DOMAIN DefaultCodes
Extended == DOMAIN ExtCodes

DetectEncoding(t) == IF ToSet(t) \subseteq Basic \cup Extended THEN "gsm7" ELSE "ucs2"

\* What one letter takes of a segment: septets, UTF-16 units or letters.
Size(enc, c) ==
  IF \/ enc = "gsm7" /\ c \in Extended
     \/ enc = "ucs2" /\ c \in Surrogates
  THEN 2 ELSE 1

Length(enc, t) == FoldLeft(LAMBDA n, c : n + Size(enc, c), 0, t)

\* chunkGSM7, chunkUCS2, chunkRunes: fill a chunk, start another when a letter does not fit.
Place(enc, acc, c) ==
  IF acc.used > 0 /\ acc.used + Size(enc, c) > ConcatLimit[enc]
  THEN [done |-> Append(acc.done, acc.now), now |-> <<c>>, used |-> Size(enc, c)]
  ELSE [done |-> acc.done, now |-> Append(acc.now, c), used |-> acc.used + Size(enc, c)]

Chunks(enc, t) ==
  LET end == FoldLeft(LAMBDA acc, c : Place(enc, acc, c), [done |-> <<>>, now |-> <<>>, used |-> 0], t)
  IN IF end.now = <<>> THEN end.done ELSE Append(end.done, end.now)

\* The header's bytes that count the segments.
ConcatUDH(part, total) == [total |-> total % ByteSize, part |-> part % ByteSize]

Whole(t) == <<[part |-> 1, total |-> 1, text |-> t, udh |-> <<>>]>>

Cut(enc, t) ==
  LET chunks == Chunks(enc, t)
  IN [i \in DOMAIN chunks |->
        [part |-> i, total |-> Len(chunks), text |-> chunks[i], udh |-> <<ConcatUDH(i, Len(chunks))>>]]

\* The mutant counts letters where the code counts what they take.
SplitByLetters(enc, t) == IF Len(t) <= SingleLimit[enc] THEN Whole(t) ELSE Cut(enc, t)

Split(enc, t) == IF Length(enc, t) <= SingleLimit[enc] THEN Whole(t) ELSE Cut(enc, t)

\* Insertion sort by part, then the texts one after the other.
Join(segs) ==
  LET ordered == SortSeq(segs, LAMBDA a, b : a.part < b.part)
  IN FlattenSeq([i \in DOMAIN ordered |-> ordered[i].text])

----------------------------------------------------------------------------
(* The packed form of the seven-bit alphabet.                                 *)

Septets(t) ==
  FlattenSeq([i \in DOMAIN t |->
    IF t[i] \in Basic THEN <<DefaultCodes[t[i]]>>
    ELSE IF t[i] \in Extended THEN <<Escape, ExtCodes[t[i]]>>
    ELSE <<Question>>])

ByteOf(i) == (7 * i) \div 8
ShiftOf(i) == (7 * i) % 8

\* encodeGSM7Packed: septet i goes to byte ByteOf(i), what does not fit to the next.
EncodeGSM7Packed(t) ==
  LET s == Septets(t)
      size == (Len(s) * 7 + 7) \div 8
      put(out, i) ==
        LET low == [out EXCEPT ![ByteOf(i) + 1] = @ | ((s[i + 1] * 2^ShiftOf(i)) % 256)]
        IN IF ShiftOf(i) > 1 /\ ByteOf(i) + 1 < size
           THEN [low EXCEPT ![ByteOf(i) + 2] = @ | (s[i + 1] \div 2^(8 - ShiftOf(i)))]
           ELSE low
  IN FoldLeft(put, [j \in 1..size |-> 0], [i \in DOMAIN s |-> i - 1])

Unpacked(body) ==
  [k \in 1..((Len(body) * 8) \div 7) |->
    LET i == k - 1
        low == (body[ByteOf(i) + 1] \div 2^ShiftOf(i)) % 128
    IN IF ShiftOf(i) > 1 /\ ByteOf(i) + 1 < Len(body)
       THEN low | ((body[ByteOf(i) + 2] * 2^(8 - ShiftOf(i))) % 128)
       ELSE low]

\* The mutant leaves a septet of padding in the text.
UnpaddedNot(body) == Unpacked(body)

\* Seven spare bits at the end of the last byte are no letter.
Unpadded(body) ==
  LET s == Unpacked(body)
  IN IF Len(body) % 7 = 0 /\ s # <<>> /\ Last(s) = 0 THEN Front(s) ELSE s

LetterOf(codes, code) == {c \in DOMAIN codes : codes[c] = code}

\* An escape takes the septet after it; codes that stand for no letter are left out.
Decoded(acc, code) ==
  LET letter == IF acc.escaped THEN LetterOf(ExtCodes, code) ELSE LetterOf(DefaultCodes, code)
  IN IF ~acc.escaped /\ code = Escape THEN [acc EXCEPT !.escaped = TRUE]
     ELSE [escaped |-> FALSE, text |-> acc.text \o SetToSeq(letter)]

DecodeGSM7Packed(body) == FoldLeft(Decoded, [escaped |-> FALSE, text |-> <<>>], Unpadded(body)).text

----------------------------------------------------------------------------
Init ==
  /\ text = <<>>
  /\ encoding = ""
  /\ segments = <<>>
  /\ got = <<>>

\* The text comes from a client, letter by letter.
Write(c) ==
  /\ encoding = ""
  /\ Len(text) < MaxLetters
  /\ text' = Append(text, c)
  /\ UNCHANGED <<encoding, segments, got>>

\* Split for the encoding asked for, or for the one the text needs.
SplitText(asked) ==
  LET enc == IF asked = "auto" THEN DetectEncoding(text) ELSE asked
  IN /\ encoding = ""
     /\ encoding' = enc
     /\ segments' = Split(enc, text)
     /\ UNCHANGED <<text, got>>

\* A segment arrives, before or after the others.
Arrive(i) ==
  /\ segments[i] \notin ToSet(got)
  /\ got' = Append(got, segments[i])
  /\ UNCHANGED <<text, encoding, segments>>

Next ==
  \/ \E c \in Letters : Write(c)
  \/ \E asked \in Encodings : SplitText(asked)
  \/ \E i \in DOMAIN segments : Arrive(i)

Spec == Init /\ [][Next]_vars

----------------------------------------------------------------------------
(* Properties.                                                                *)

\* A text is cut into segments that fit, that it needs, and that give it back
\* (message.go:92-135).  Letters that take two septets or two UTF-16 units are
\* counted as such and never cut in two, so that a segment and its header stay
\* within 140 bytes.  What fits one segment is one, and no letter that begins a
\* segment would have fitted the one before: the daily quota counts segments.
\* Whatever the order they come in, together they are the text; and as long as a
\* byte can count them, the headers name every place once, under one total.
SegmentsExact ==
  /\ \A i \in DOMAIN segments :
       Length(encoding, segments[i].text)
         <= IF Len(segments) = 1 THEN SingleLimit[encoding] ELSE ConcatLimit[encoding]
  /\ Len(segments) > 1 =>
       /\ Length(encoding, text) > SingleLimit[encoding]
       /\ \A i \in 1..(Len(segments) - 1) :
            Length(encoding, Append(segments[i].text, Head(segments[i + 1].text))) > ConcatLimit[encoding]
  /\ segments # <<>> /\ Len(got) = Len(segments) =>
       /\ Join(got) = text
       /\ Len(segments) \in 2..(ByteSize - 1) =>
            /\ {s.udh[1].part : s \in ToSet(got)} = 1..Len(segments)
            /\ \A s \in ToSet(got) : s.udh[1].total = Len(segments)

\* Packing a text of the seven-bit alphabet and unpacking it gives the text
\* (codec.go:115, codec.go:232), but for a last '@' that ends on a byte
\* boundary, whose septet is the padding's.
PackedIsKept ==
  LET s == Septets(text)
      padding == Len(s) > 0 /\ Len(s) % 8 = 0 /\ Last(s) = 0
  IN DetectEncoding(text) = "gsm7" =>
       DecodeGSM7Packed(EncodeGSM7Packed(text)) = IF padding THEN Front(text) ELSE text

\* Packing and unpacking gives back every text of the seven-bit alphabet
\* (codec.go:134), as the round trip test of the codec has it.  The code does not keep
\* this: see the exception of PackedIsKept.
PackedRoundTrip ==
  DetectEncoding(text) = "gsm7" => DecodeGSM7Packed(EncodeGSM7Packed(text)) = text
=============================================================================
