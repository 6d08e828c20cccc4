------------------------------- MODULE MCUtils ------------------------------
(***************************************************************************)
(* The utilities for TLC: as in MCOsal each behaviour is one component's,  *)
(* chosen at the start, while the others stay in one initial state.        *)
(***************************************************************************)
EXTENDS ByteQ, RingAccess, NodeLists, SimpleString, Dates, SimplePlot,
        NumberText, Crc, Endian, LogSplit

CONSTANTS a, b,  \* bytes
          w1, w2   \* waveforms
MCKey(n) == IF n = 1 THEN 0 ELSE 1
MCTexts == {<<>>, <<1>>, <<2, 0>>, <<1, 2, 1>>}
MCWaveId(w) == IF w = w1 THEN 0 ELSE 1
\* waveforms over the whole axis; and slopes and flat ones that are wider or narrower, or
\* have no value somewhere
MCCurves ==
  {[min |-> 0, max |-> 4, known |-> 0 .. 4,
    y |-> [x \in 0 .. 4 |-> IF x % 2 = 0 THEN v ELSE w]] : v, w \in 0 .. 4}
  \cup [min : {-1, 1}, max : {3, 5}, known : {0 .. 4, 0 .. 2, {0, 1, 3, 4}, 1 .. 4},
        y : {[x \in 0 .. 4 |-> x], [x \in 0 .. 4 |-> 2]}]
MCLimits == {-5, -2, 0, 1, 3, 4, 7, 9, 16, 19}
MCDelims == {<<>>, <<99>>, <<99, 99>>}
MCGroups == <<2, 1, 1>>
MCWords == {<<>>, <<99, 1, 99>>}
MCNumbers == 0 .. 130 \cup {255, 256, 999, 1000, 4095, 9999, 10000, 32767, 32768, 32769, 55536, 65535}
MCCrcBytes == {{}, 0 .. 7, {0}, {7, 5, 1}}

\* the component that runs
VARIABLE component

MCInit ==
  /\ component \in {"byteq", "rings", "lists", "strings", "dates",
                    "plot", "interpolator", "gridlines", "hex", "numbers",
                    "crc", "endian", "lines"}
  /\ Init /\ (component # "byteq" => \A i \in Cells : pfBuf[i] = a)
  /\ RingInit
  /\ ListInit
  /\ StrInit
  /\ DateInit /\ (component # "dates" => dayNumber = 0)
  /\ SpInit
  /\ LiInit
  /\ GdInit /\ (component # "gridlines" => ~gdLog /\ ~gdMinor /\ gdMin = 0 /\ gdMax = 1 /\ gdUnit = 2)
  /\ HexInit
  /\ numValue = NoNumber
  /\ CrcInit
  /\ EndInit
  /\ SplitInit /\ (component # "lines" => splitFn = "LOG_Hex" /\ splitLen = 0 /\ splitSize = 1)

\* The variables of the components up to the n-th, and from the n-th on.
UpTo1 == <<vars>>
UpTo2 == <<UpTo1, ringVars>>
UpTo3 == <<UpTo2, listVars>>
UpTo4 == <<UpTo3, strVars>>
UpTo5 == <<UpTo4, dateVars>>
UpTo6 == <<UpTo5, spVars>>
UpTo7 == <<UpTo6, liVars>>
UpTo8 == <<UpTo7, gdVars>>
UpTo9 == <<UpTo8, hexVars>>
UpTo10 == <<UpTo9, numValue>>
UpTo11 == <<UpTo10, crcVars>>
UpTo12 == <<UpTo11, endVars>>
From13 == <<splitVars>>
From12 == <<endVars, From13>>
From11 == <<crcVars, From12>>
From10 == <<numValue, From11>>
From9 == <<hexVars, From10>>
From8 == <<gdVars, From9>>
From7 == <<liVars, From8>>
From6 == <<spVars, From7>>
From5 == <<dateVars, From6>>
From4 == <<strVars, From5>>
From3 == <<listVars, From4>>
From2 == <<ringVars, From3>>

MCNext ==
  /\ UNCHANGED component
  /\ \/ component = "byteq" /\ Next /\ UNCHANGED <<From2>>
     \/ component = "rings" /\ RingNext /\ UNCHANGED <<UpTo1, From3>>
     \/ component = "lists" /\ ListNext /\ UNCHANGED <<UpTo2, From4>>
     \/ component = "strings" /\ StrNext /\ UNCHANGED <<UpTo3, From5>>
     \/ component = "dates" /\ NextDay /\ UNCHANGED <<UpTo4, From6>>
     \/ component = "plot" /\ SpNext /\ UNCHANGED <<UpTo5, From7>>
     \/ component = "interpolator" /\ LiNext /\ UNCHANGED <<UpTo6, From8>>
     \/ component = "gridlines" /\ GdNext /\ UNCHANGED <<UpTo7, From9>>
     \/ component = "hex" /\ HexNext /\ UNCHANGED <<UpTo8, From10>>
     \/ component = "numbers" /\ NumNext /\ UNCHANGED <<UpTo8, From11>>
     \/ component = "crc" /\ CrcNext /\ UNCHANGED <<UpTo10, From12>>
     \/ component = "endian" /\ EndNext /\ UNCHANGED <<UpTo11, From13>>
     \/ component = "lines" /\ SplitNext /\ UNCHANGED <<UpTo12>>
MCVars == <<component, UpTo12, From13>>
MCSpec == MCInit /\ [][MCNext]_MCVars /\ SpFairness

-----------------------------------------------------------------------------
(* Properties of several utilities that say the same of each.              *)

\* Both kinds of list are, link for link, the sequences that were put into them.
ListsHoldSequences == DllHoldsSequence /\ SllHoldsSequence

\* A string is the text it was given, wherever its buffer is, and every heap block
\* belongs to one string.
StringsHoldText == StringHoldsText /\ StringAnswers /\ OneBlockPerHeapString

\* A date is the calendar's, and the timestamp it came from can be had from it again.
DatesRight == DatesFollowCalendar /\ DatesConvertBack

\* What is coded one way is read the other way, by every reader: hexadecimal text,
\* numbers, byte order, and sums over a text in pieces or at once.
CodesReadBack == HexReadsBack /\ NumbersReadBack /\ BytesInOrder /\ CrcSumsAgree

\* Text ends where its buffer or its source does, cut where it must be.
TextFits == HexStaysInBuffer /\ VsnprintfCutsOff /\ LinesHoldText

\* A plot shows what it was given: every waveform once, a curve in every column, lines
\* through the points, gridlines where they belong.
PlotShows == RedrawDrawsEach /\ CurveInEveryColumn /\ InterpHitsPoints /\ GridLinesRight
=============================================================================
