------------------------------ MODULE HexText --------------------------------
(***************************************************************************)
(* Hexadecimal text: convert_utils.cpp, helper_utils.cpp and uuid.cpp of   *)
(* utils.  A character is a number: 0..15 the digits as CNV_hexChars has   *)
(* them, LowerCase above the letters' lower case, OtherChar any other one. *)
(* A buffer of the caller is its size; a text is what is in front of the   *)
(* terminator.                                                             *)
(***************************************************************************)
EXTENDS Integers, Sequences, SequencesExt

CONSTANTS HexBytes,     \* bytes of the input
          MaxHexBytes,  \* bound: bytes converted
          MaxHexText,   \* bound: characters parsed
          BufSizes,     \* sizes of the caller's buffers
          Delims,       \* texts between bytes
          UuidGroups    \* digits of a UUID between its hyphens: 8, 4, 4, 4, 12

LowerCase == 16
OtherChar == 99

VARIABLES
  hexBin,    \* bytes to be converted
  hexText    \* characters to be parsed

hexVars == <<hexBin, hexText>>
HexInit == hexBin = <<>> /\ hexText = <<>>

AtMost(a, b) == IF a < b THEN a ELSE b

------------------------------------------------------------------------------
\* From bytes to text.

CNV_BinByteToAscHexByte(b) == <<b \div 16, b % 16>>
HexOf(bin) == [i \in 1 .. 2 * Len(bin) |-> CNV_BinByteToAscHexByte(bin[(i + 1) \div 2])[2 - (i % 2)]]
ToLower(text) == [i \in 1 .. Len(text) |-> IF text[i] \in 10 .. 15 THEN text[i] + LowerCase ELSE text[i]]

CNV_BinToHex(bin, strLen) == HexOf(SubSeq(bin, 1, AtMost((strLen - 1) \div 2, Len(bin))))
CNV_BinToHexStr(bin, toUpper) ==
  LET hex == CNV_BinToHex(bin, 2 * Len(bin) + 1) IN IF toUpper THEN hex ELSE ToLower(hex)

\* Sizes are unsigned: a delimiter longer than the buffer seems to fit.
FitsBefore(s, room, n) == room < n \/ s < room - n
PutDelim(str, room, delim) ==
  IF delim # <<>> /\ FitsBefore(Len(str), room, Len(delim)) THEN str \o delim ELSE str
PutDigits_NoTest(str, room, b) == str \o CNV_BinByteToAscHexByte(b)  \* (variant: without a test in between)
PutDigits(str, room, b) ==
  IF room < 2 THEN Append(str, b \div 16)
  ELSE IF Len(str) <= room - 2 THEN str \o CNV_BinByteToAscHexByte(b) ELSE str
PutByte(str, room, pre, b, post) ==
  IF Len(str) < room
  THEN PutDelim(PutDigits(PutDelim(str, room, pre), room, b), room, post) ELSE str
CNV_BinToHexDelim(bin, pre, strLen, post) ==
  LET str[k \in 0 .. Len(bin)] ==
        IF k = 0 THEN <<>> ELSE PutByte(str[k - 1], strLen - 1, pre, bin[k], post)
  IN str[Len(bin)]
DelimLength(bin, pre, post) ==
  2 * Len(bin) + Len(bin) * Len(pre) + (IF bin = <<>> THEN 0 ELSE Len(bin) - 1) * Len(post) + 1
CNV_BinToHexDelimStr(bin, pre, post) ==
  CNV_BinToHexDelim(bin, pre, DelimLength(bin, pre, post), post)

\* Bytes with a colon before all but the first while four characters are free,
\* and a colon at the end if not all bytes are there.
Colon == <<OtherChar>>
PutColonByte(out, dstLen, b) ==
  IF dstLen - 1 - Len(out.str) > 3
  THEN [str |-> (IF out.str = <<>> THEN <<>> ELSE out.str \o Colon) \o CNV_BinByteToAscHexByte(b),
        done |-> out.done + 1]
  ELSE out
CNV_convertArrayToHexWithColons(bin, dstLen) ==
  LET out[k \in 0 .. Len(bin)] ==
        IF k = 0 THEN [str |-> <<>>, done |-> 0] ELSE PutColonByte(out[k - 1], dstLen, bin[k])
      all == out[Len(bin)]
  IN IF all.done < Len(bin) /\ Len(all.str) < dstLen - 1 THEN all.str \o Colon ELSE all.str

\* The address from its last byte to its first.
CNV_convertBdAddr2Str(bin, strLen) ==
  LET hex == HexOf(Reverse(bin)) IN SubSeq(hex, 1, AtMost(strLen, Len(hex)))

------------------------------------------------------------------------------
\* From text to bytes: everything that is no digit is skipped.

CNV_AscHexByteToBinNybble(c) ==
  IF c \in 0 .. 15 THEN c ELSE IF c - LowerCase \in 10 .. 15 THEN c - LowerCase ELSE -1
isHex(c) == CNV_AscHexByteToBinNybble(c) >= 0
Nybbles(text) ==
  LET found[k \in 0 .. Len(text)] ==
        IF k = 0 THEN <<>>
        ELSE IF isHex(text[k]) THEN Append(found[k - 1], CNV_AscHexByteToBinNybble(text[k]))
        ELSE found[k - 1]
  IN found[Len(text)]
CNV_CleanupAsciiHex(text) == Nybbles(text)
Paired(n) == [i \in 1 .. Len(n) \div 2 |-> 16 * n[2 * i - 1] + n[2 * i]]

CNV_AsciiHexToBinStr_PadEnd(text) ==  \* (variant: an odd digit is the high one of the last byte)
  LET n == Nybbles(text) IN Paired(IF Len(n) % 2 = 1 THEN Append(n, 0) ELSE n)
\* The digits from the last to the first, a zero after an odd number of them.
CNV_AsciiHexToBinStr(text) ==
  LET reversed == Reverse(Nybbles(text))
      even == IF Len(reversed) % 2 = 1 THEN Append(reversed, 0) ELSE reversed
  IN Paired(Reverse(even))

\* The digits from the first on, starting in the low half of a byte if they are odd.
HELPER_AsciiToHexBin(text, size) ==
  LET n == Nybbles(text)
      all == Paired(IF Len(n) % 2 = 1 THEN <<0>> \o n ELSE n)
  IN SubSeq(all, 1, AtMost(size, Len(all)))
HELPER_StrAsciiToHex(text) == HELPER_AsciiToHexBin(text, Len(text))

\* The digits of the first g groups, and those groups.
UuidEnd(g) ==
  LET end[h \in 0 .. g] == IF h = 0 THEN 0 ELSE end[h - 1] + UuidGroups[h] IN end[g]
Grouped(t, g) ==
  LET text[h \in 0 .. g] ==
        IF h = 0 THEN <<>>
        ELSE (IF h = 1 THEN <<>> ELSE text[h - 1] \o <<OtherChar>>)
               \o SubSeq(t, UuidEnd(h - 1) + 1, UuidEnd(h))
  IN text[g]
CNV_Uuidify(text) ==
  LET t == CNV_CleanupAsciiHex(text)
  IN IF Len(t) = UuidEnd(Len(UuidGroups)) THEN Grouped(t, Len(UuidGroups)) ELSE <<>>

\* Delimiters are no digits, sizes have eight bits, and a UUID has whole bytes.
ASSUME HexAssumption ==
  /\ HexBytes \subseteq 0 .. 255 /\ MaxHexBytes \in Nat
  /\ BufSizes \subseteq 1 .. 256
  /\ \A d \in Delims : d \in Seq(Nat) /\ \A i \in 1 .. Len(d) : ~isHex(d[i])
  /\ UuidGroups \in Seq(Nat \ {0}) /\ UuidEnd(Len(UuidGroups)) % 2 = 0

asc_to_uuid(text) == Paired(Nybbles(text))
reverse_uuid(bin) == [i \in 1 .. Len(bin) |-> bin[Len(bin) + 1 - i]]

------------------------------------------------------------------------------
HexNext ==
  \/ /\ Len(hexBin) < MaxHexBytes /\ UNCHANGED hexText
     /\ \E b \in HexBytes : hexBin' = Append(hexBin, b)
  \/ /\ Len(hexText) < MaxHexText /\ UNCHANGED hexBin
     /\ \E c \in {1, 10, 10 + LowerCase, OtherChar} : hexText' = Append(hexText, c)

DelimFits(bin, pre, post) == Len(post) < DelimLength(bin, pre, post)

\* Bytes printed with any delimiters that fit, in either case or byte by byte, are
\* the bytes that are read back, and a text of digits of every length, odd ones too,
\* is read as the same number by all three readers.
HexReadsBack ==
  /\ \A pre, post \in Delims : DelimFits(hexBin, pre, post) =>
       /\ CNV_AsciiHexToBinStr(CNV_BinToHexDelimStr(hexBin, pre, post)) = hexBin
       /\ Len(CNV_BinToHexDelimStr(hexBin, pre, post)) = DelimLength(hexBin, pre, post) - 1
  /\ \A toUpper \in BOOLEAN : HELPER_StrAsciiToHex(CNV_BinToHexStr(hexBin, toUpper)) = hexBin
  /\ reverse_uuid(CNV_AsciiHexToBinStr(CNV_convertBdAddr2Str(hexBin, 2 * MaxHexBytes))) = hexBin
  /\ CNV_AsciiHexToBinStr(hexText) = HELPER_StrAsciiToHex(hexText)
  /\ CNV_Uuidify(hexText) # <<>> => asc_to_uuid(CNV_Uuidify(hexText)) = CNV_AsciiHexToBinStr(hexText)

\* Whatever the size of the buffer, the text and its terminator stay in it, as
\* long as a delimiter alone would fit, and what is there is whole bytes from the
\* first one on.
HexStaysInBuffer ==
  \A size \in BufSizes :
    /\ \A pre, post \in Delims :
         Len(pre) < size /\ Len(post) < size =>
           /\ Len(CNV_BinToHexDelim(hexBin, pre, size, post)) < size
           /\ (pre = <<>> /\ post = <<>> /\ size > 2) =>
                IsPrefix(CNV_AsciiHexToBinStr(CNV_BinToHexDelim(hexBin, pre, size, post)), hexBin)
    /\ Len(CNV_BinToHex(hexBin, size)) < size
    /\ Len(CNV_convertArrayToHexWithColons(hexBin, size)) < size
    /\ IsPrefix(CNV_AsciiHexToBinStr(CNV_convertArrayToHexWithColons(hexBin, size)), hexBin)
=============================================================================
