------------------------------ MODULE LogSplit -------------------------------
(***************************************************************************)
(* How platform_log.cpp cuts a long text or buffer into lines: LOG_Hex and *)
(* LOG_Base64 at 70 characters, LOG_HexArr at 8 bytes, LOG_LargeStr at a   *)
(* length the caller gives.  A text is the numbers of its characters.      *)
(***************************************************************************)
EXTENDS Naturals, Sequences, SequencesExt

CONSTANTS SplitLens,      \* lengths of the texts
          LineSizes       \* 70, 8 and lineLen

ASSUME SplitAssumption == SplitLens \subseteq Nat /\ LineSizes \subseteq Nat \ {0}

VARIABLES splitFn, splitLen, splitSize, splitCrLf,
          splitIdx, splitLeft,      \* iter, written or idx; remaining
          splitLines,
          splitRead                 \* characters the function read from the buffer
splitArgs == <<splitFn, splitLen, splitSize, splitCrLf>>
splitVars == <<splitArgs, splitIdx, splitLeft, splitLines, splitRead>>

SplitMin(a, b) == IF a < b THEN a ELSE b
SplitInit ==
  /\ splitFn \in {"LOG_Hex", "LOG_Base64", "LOG_HexArr", "LOG_LargeStr"}
  /\ splitLen \in SplitLens /\ splitSize \in LineSizes
  /\ splitCrLf \in BOOLEAN /\ (splitCrLf => splitFn = "LOG_LargeStr")
  /\ splitIdx = 0 /\ splitLeft = splitLen /\ splitLines = <<>> /\ splitRead = {}

NextLine == [i \in 1 .. SplitMin(splitSize, splitLeft) |-> splitIdx + i]
PutLine ==
  /\ splitLines' = Append(splitLines, NextLine) /\ splitRead' = splitRead \cup Range(NextLine)
  /\ UNCHANGED splitArgs

LOG_Hex_ByLine ==                          \* (variant: a line forward, however long it was)
  /\ splitFn = "LOG_Hex" /\ splitLeft > 0 /\ PutLine
  /\ splitIdx' = splitIdx + splitSize /\ splitLeft' = splitLen - SplitMin(splitLen, splitIdx' + 1)
LOG_Hex ==
  /\ splitFn = "LOG_Hex" /\ splitLeft > 0 /\ PutLine
  /\ splitIdx' = splitIdx + Len(NextLine) /\ splitLeft' = splitLen - splitIdx'
LOG_Base64 ==
  /\ splitFn = "LOG_Base64" /\ splitLeft > 0 /\ PutLine
  /\ splitLeft' = splitLeft - Len(NextLine) /\ splitIdx' = splitIdx + Len(NextLine)
LOG_HexArr ==
  /\ splitFn = "LOG_HexArr" /\ splitLeft > 0 /\ PutLine
  /\ splitLeft' = splitLeft - Len(NextLine) /\ splitIdx' = splitIdx + Len(NextLine)
\* the terminator and the line end are counted as if they came from the text
LOG_LargeStr ==
  LET numChars == Len(NextLine) + (IF splitCrLf THEN 2 ELSE 0) + 1 IN
  /\ splitFn = "LOG_LargeStr" /\ splitLeft > 0 /\ PutLine
  /\ splitIdx' = splitIdx + numChars
  /\ splitLeft' = (IF numChars < splitLeft THEN splitLeft - numChars ELSE 0)

SplitNext == LOG_Hex \/ LOG_Base64 \/ LOG_HexArr \/ LOG_LargeStr
SplitSpec == SplitInit /\ [][SplitNext]_splitVars

\* The lines put together again.
Together(lines) ==
  LET text[k \in 0 .. Len(lines)] == IF k = 0 THEN <<>> ELSE text[k - 1] \o lines[k]
  IN text[Len(lines)]

\* The lines of a dump are the whole of it, in order and nothing twice; no function
\* reads past the end of its buffer (LOG_LargeStr, which skips a character or three
\* after each line, included).
LinesHoldText ==
  /\ splitRead \subseteq 1 .. splitLen
  /\ splitFn # "LOG_LargeStr" =>
       Together(splitLines) = [i \in 1 .. splitLen - splitLeft |-> i]
=============================================================================
