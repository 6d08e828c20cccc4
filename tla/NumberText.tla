----------------------------- MODULE NumberText ------------------------------
(***************************************************************************)
(* Numbers as text: util_itoa, util_uitoa and util_vsnprintf of            *)
(* util_vsnprintf.cpp, CNV_atoi and CNV_htoi of convert_utils.cpp.  The    *)
(* characters are those of HexText; integers have NumMod values.  Buffers  *)
(* have room for a digit and what goes with it (util_itoa is always given  *)
(* seven or more bytes).                                                   *)
(***************************************************************************)
EXTENDS HexText

CONSTANTS NumMod,     \* 2 ^ 32; here words have two bytes
          NumValues,  \* the numbers that are looked at
          NumSizes,   \* sLen, three or more
          DstSizes,   \* dstSize, one or more
          Words       \* texts that %s prints

\* Words have two bytes, and each text room for a digit and what goes with it.
ASSUME NumAssumption ==
  /\ NumMod = 65536 /\ \A n \in NumValues : n \in Nat /\ n < NumMod
  /\ NumSizes \subseteq Nat \ 0 .. 2 /\ DstSizes \subseteq Nat \ {0}
  /\ Words \subseteq Seq(Nat)

VARIABLE numValue     \* the number that is converted, unsigned; NoNumber before the first

MinusSign == 98
Percent == 97
Backslash == 96

------------------------------------------------------------------------------
AsSigned(n) == IF 2 * n < NumMod THEN n ELSE n - NumMod

util_reverse(s) == [i \in 1 .. Len(s) |-> s[Len(s) + 1 - i]]

util_uitoa_intern_Late(n, maxLen) ==  \* (variant: one digit too many)
  LET more[k \in 0 .. maxLen + 1] == IF k = 0 THEN n ELSE more[k - 1] \div 10
      count == CHOOSE k \in 1 .. maxLen + 1 :
                 /\ more[k] = 0 \/ k = maxLen + 1
                 /\ \A j \in 1 .. k - 1 : more[j] > 0
  IN [i \in 1 .. count |-> more[i - 1] % 10]
\* At least one digit, the lowest first, until the rest is 0 or maxLen is reached.
util_uitoa_intern(n, maxLen) ==
  LET more[k \in 0 .. maxLen] == IF k = 0 THEN n ELSE more[k - 1] \div 10
      count == CHOOSE k \in 1 .. maxLen :
                 /\ more[k] = 0 \/ k = maxLen
                 /\ \A j \in 1 .. k - 1 : more[j] > 0
  IN [i \in 1 .. count |-> more[i - 1] % 10]

util_uitoa(n, sLen) == util_reverse(util_uitoa_intern(n, sLen - 1))
util_itoa(n, sLen) ==
  LET digits == util_uitoa_intern(IF n < 0 THEN -n ELSE n, sLen - 2)
  IN util_reverse(IF n < 0 THEN Append(digits, MinusSign) ELSE digits)

CNV_atoi(text) ==
  LET rval[k \in 0 .. Len(text)] ==
        IF k = 0 THEN 0
        ELSE IF text[k] \in 0 .. 9 THEN (rval[k - 1] * 10 + text[k]) % NumMod
        ELSE rval[k - 1]
  IN rval[Len(text)]
CNV_htoi(text) ==
  LET num == Nybbles(text)
      rval[k \in 0 .. Len(num)] == IF k = 0 THEN 0 ELSE (rval[k - 1] * 16 + num[k]) % NumMod
  IN rval[Len(num)]

------------------------------------------------------------------------------
\* A format is a sequence of items: a character, an escaped character, or a
\* conversion with its argument.  A text is copied as far as there is room.

copyStrToDst(dst, dEnd, text) == dst \o SubSeq(text, 1, AtMost(Len(text), dEnd - Len(dst)))

\* %d, %u and %zu go through an int; %x prints the bytes of the word in lower case.
NumBytes(n) == <<n \div 256, n % 256>>
Converted(item) ==
  CASE item.kind = "%u" -> util_itoa(AsSigned(item.arg), 32)
    [] item.kind = "%x" -> CNV_BinToHexStr(NumBytes(item.arg), FALSE)
    [] item.kind = "%s" -> item.arg
    [] item.kind = "%%" -> <<Percent>>
    [] item.kind = "\\" -> <<Backslash, item.arg>>
    [] item.kind = "c"  -> <<item.arg>>    \* a plain character, and %c
    [] item.kind = "%?" -> <<>>            \* an unknown one takes its argument

PutItem(dst, dEnd, item) == IF Len(dst) < dEnd THEN copyStrToDst(dst, dEnd, Converted(item)) ELSE dst
util_vsnprintf_LastByte(dstSize, format) ==  \* (variant: no room for the terminator)
  LET dst[k \in 0 .. Len(format)] == IF k = 0 THEN <<>> ELSE PutItem(dst[k - 1], dstSize, format[k])
  IN dst[Len(format)]
util_vsnprintf(dstSize, format) ==
  LET dst[k \in 0 .. Len(format)] == IF k = 0 THEN <<>> ELSE PutItem(dst[k - 1], dstSize - 1, format[k])
  IN dst[Len(format)]

------------------------------------------------------------------------------
NoNumber == -1
NumInit == HexInit /\ numValue = NoNumber
NumNext == numValue' \in NumValues /\ UNCHANGED hexVars
numVars == <<hexVars, numValue>>

\* 10 to the k, of which the first five are less than NumMod
Pow10(k) == <<1, 10, 100, 1000, 10000, 100000>>[AtMost(k, 5) + 1]
Formats ==
  LET items == {[kind |-> k, arg |-> numValue] : k \in {"%u", "%x", "%?"}}
                 \cup {[kind |-> "%s", arg |-> w] : w \in Words}
                 \cup {[kind |-> k, arg |-> OtherChar] : k \in {"c", "\\", "%%"}}
  IN {<<a, b>> : a, b \in items}

\* Every number printed with enough room is read back, from decimal and from
\* hexadecimal; with too little room there are some of its digits and the
\* terminator still fits.
NumbersReadBack == numValue # NoNumber =>
  /\ \A sLen \in NumSizes :
       LET text == util_uitoa(numValue, sLen)
           signed == util_itoa(AsSigned(numValue), sLen)
       IN /\ Len(text) \in 1 .. sLen - 1 /\ Len(signed) \in 1 .. sLen - 1
          /\ CNV_atoi(text) = numValue % Pow10(sLen - 1)
          /\ signed[1] = MinusSign <=> AsSigned(numValue) < 0
          /\ AsSigned(numValue) \in 0 .. Pow10(sLen - 2) - 1 => CNV_atoi(signed) = numValue
          /\ -AsSigned(numValue) \in 1 .. Pow10(sLen - 2) - 1 =>
               CNV_atoi(signed) = -AsSigned(numValue)
  /\ CNV_htoi(Converted([kind |-> "%x", arg |-> numValue])) = numValue

\* A formatted text that is cut off is the beginning of the whole one, as long as
\* the buffer allows with its terminator.
VsnprintfCutsOff == numValue # NoNumber =>
  \A size \in DstSizes, format \in Formats :
    LET whole == Converted(format[1]) \o Converted(format[2])
    IN util_vsnprintf(size, format) = SubSeq(whole, 1, AtMost(size - 1, Len(whole)))
=============================================================================
