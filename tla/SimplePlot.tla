----------------------------- MODULE SimplePlot ------------------------------
(***************************************************************************)
(* simple_plot.cpp: the table of waveforms and the loop that redraws them, *)
(* and the drawing of one waveform pixel by pixel.  Axes are linear,       *)
(* values integers and slopes exact fractions, where the code has doubles; *)
(* labels, colours and pens are left out.  Then the interpolator of its    *)
(* points and the gridlines of an axis.                                    *)
(***************************************************************************)
EXTENDS Integers, Sequences, FiniteSets, SequencesExt

CONSTANTS Waves,       \* SP_DataSetT objects
          NoWave,      \* a null pointer in the table
          WaveId(_),   \* nID of a waveform, a signed byte
          MaxSets,     \* SP_MAX_DATASETS
          Columns,     \* nWidth of the canvas
          Rows,        \* nHeight of the canvas
          XMax, YMax,  \* the axes go from 0 to these
          Curves       \* waveforms: fMinX, fMaxX, where GetYValue succeeds, its answers

VARIABLES
  spSets,      \* DataSets
  spCount,     \* nDataSets
  spLoop,      \* ForEachDataSet: NotDrawing, or its i and iDS
  spDrawn,     \* waveforms drawn since ReDraw was called
  spCurve      \* the curve of the waveform that is drawn

ASSUME SpAssumption ==
  /\ MaxSets \in Nat /\ NoWave \notin Waves
  /\ \A w \in Waves : WaveId(w) \in Nat   \* what a negative id does: see the README
  /\ Columns \in Nat /\ Rows \in Nat \ {0} /\ XMax \in Nat \ {0} /\ YMax \in Nat \ {0}
  /\ Curves # {}
  /\ Curves \subseteq [min : Int, max : Int, known : SUBSET (0 .. XMax), y : [0 .. XMax -> Int]]

spVars == <<spSets, spCount, spLoop, spDrawn, spCurve>>

NotDrawing == [i |-> -1, iDS |-> -1]
Slots == 0 .. MaxSets - 1

SpInit ==
  /\ spSets = [i \in Slots |-> NoWave] /\ spCount = 0
  /\ spLoop = NotDrawing /\ spDrawn = <<>>
  /\ spCurve = CHOOSE c \in Curves : TRUE

------------------------------------------------------------------------------
\* The table of waveforms.

AddWaveform(w) ==
  /\ spLoop = NotDrawing
  /\ spCount < MaxSets
  /\ spSets' = [spSets EXCEPT ![spCount] = w]
  /\ spCount' = spCount + 1
  /\ UNCHANGED <<spLoop, spDrawn, spCurve>>

Found(id) == {i \in Slots : spSets[i] # NoWave /\ WaveId(spSets[i]) = id}
RemoveWaveform_KeepCount(id) ==  \* (variant: the count stays)
  /\ spLoop = NotDrawing /\ Found(id) # {}
  /\ LET first == CHOOSE i \in Found(id) : \A j \in Found(id) : i <= j
     IN spSets' = [i \in Slots |-> IF i < first THEN spSets[i]
                                   ELSE IF i < spCount - 1 THEN spSets[i + 1] ELSE NoWave]
  /\ UNCHANGED <<spCount, spLoop, spDrawn, spCurve>>
RemoveWaveform_Swap(id) ==  \* (variant: the last one takes the free slot)
  /\ spLoop = NotDrawing /\ Found(id) # {}
  /\ LET first == CHOOSE i \in Found(id) : \A j \in Found(id) : i <= j
     IN spSets' = [spSets EXCEPT ![first] = spSets[spCount - 1], ![spCount - 1] = @]
  /\ spCount' = spCount - 1
  /\ UNCHANGED <<spLoop, spDrawn, spCurve>>
\* The first with this id goes, the later ones move down.
RemoveWaveform(id) ==
  /\ spLoop = NotDrawing /\ Found(id) # {}
  /\ LET first == CHOOSE i \in Found(id) : \A j \in Found(id) : i <= j
     IN spSets' = [i \in Slots |-> IF i < first THEN spSets[i]
                                   ELSE IF i < spCount - 1 THEN spSets[i + 1] ELSE NoWave]
  /\ spCount' = spCount - 1
  /\ UNCHANGED <<spLoop, spDrawn, spCurve>>

ReDraw ==
  /\ spLoop = NotDrawing
  /\ spLoop' = [i |-> 0, iDS |-> 0] /\ spDrawn' = <<>>
  /\ UNCHANGED <<spSets, spCount, spCurve>>

\* One round of the loop; at a null pointer it stays where it is.
ForEachDataSet ==
  /\ spLoop # NotDrawing
  /\ IF spLoop.iDS < spCount /\ spLoop.i < MaxSets
     THEN LET w == spSets[spLoop.i]
              valid == w # NoWave /\ WaveId(w) >= 0
          IN /\ spLoop' = [i |-> IF w # NoWave THEN spLoop.i + 1 ELSE spLoop.i,
                           iDS |-> IF valid THEN spLoop.iDS + 1 ELSE spLoop.iDS]
             /\ spDrawn' = IF valid THEN Append(spDrawn, w) ELSE spDrawn
             /\ IF valid THEN spCurve' \in Curves ELSE UNCHANGED spCurve
     ELSE spLoop' = NotDrawing /\ UNCHANGED <<spDrawn, spCurve>>
  /\ UNCHANGED <<spSets, spCount>>

------------------------------------------------------------------------------
\* Drawing.  Pixels are pairs of a column and a row.

sp_Abs(x) == IF x < 0 THEN -x ELSE x
sp_ValueToPixel(max, pixelRange, v) == IF v < 0 \/ v > max THEN -1 ELSE (v * pixelRange) \div max
sp_PixelToValue(max, pixelRange, p) ==
  IF p <= 0 THEN 0 ELSE IF p >= pixelRange THEN max ELSE (p * max) \div pixelRange

\* The rows (or columns) of a line that goes a cells one way for b of the other:
\* both count their end points.  The quotient is rounded down, as by sp_Round.
Along(a, b, k) == IF a < 0 THEN (-(b * k)) \div (-a) ELSE (b * k) \div a
Extent(d) == IF d < 0 THEN d - 1 ELSE d + 1
Between(a, b) == IF a <= b THEN a .. b ELSE b .. a

sp_DrawLine_YMajor(x0, y0, x1, y1) ==  \* (variant: a column for every row)
  {<<x0 + Along(Extent(y1 - y0), Extent(x1 - x0), y - y0), y>> : y \in Between(y0, y1)}
\* A row for every column if the line is at least as wide as high, else a column
\* for every row; only what is on the canvas.
sp_DrawLine(x0, y0, x1, y1) ==
  LET w == Extent(x1 - x0)
      h == Extent(y1 - y0)
      line == IF sp_Abs(w) >= sp_Abs(h)
              THEN {<<x, y0 + Along(w, h, x - x0)>> : x \in Between(x0, x1)}
              ELSE {<<x0 + Along(h, w, y - y0), y>> : y \in Between(y0, y1)}
  IN {p \in line : p[1] \in 0 .. Columns - 1 /\ p[2] \in 0 .. Rows - 1}

\* The row of the waveform's value at v, at column x, and whether it has one there.
YPixel(curve, v) == sp_ValueToPixel(YMax, Rows - 1, curve.y[v])
CurvePixel(curve, x) == YPixel(curve, sp_PixelToValue(XMax, Columns - 1, x))
Answered(curve, x) == sp_PixelToValue(XMax, Columns - 1, x) \in curve.known

\* A line from the last value, a pixel where the value comes back into range.
Segment(x0, last, x, this) ==
  IF this < 0 THEN {} ELSE IF last >= 0 THEN sp_DrawLine(x0, last, x, this) ELSE {<<x, this>>}

\* The pixels of a waveform, with drawGridlines off, as the source has it: none if it
\* begins before the axis or ends behind it; else from column to column until GetYValue
\* fails, and if it never does, on to the value at the end of the axis.
sp_ReDrawCallback(curve) ==
  LET fMinX == IF curve.min < 0 THEN curve.min ELSE 0
      fMaxX == IF curve.max > XMax THEN curve.max ELSE XMax
      start == sp_ValueToPixel(XMax, Columns - 1, fMinX)
      end   == sp_ValueToPixel(XMax, Columns - 1, fMaxX)
      reached == {x \in start .. end : \A z \in start .. x : Answered(curve, z)}
      FromLast(x) == IF x = start THEN Segment(x, YPixel(curve, fMinX), x, CurvePixel(curve, x))
                     ELSE Segment(x - 1, CurvePixel(curve, x - 1), x, CurvePixel(curve, x))
  IN IF start < 0 \/ end < 0 \/ fMinX \notin curve.known THEN {}
     ELSE UNION {FromLast(x) : x \in reached}
          \cup (IF end \in reached /\ fMaxX \in curve.known
                THEN Segment(end, CurvePixel(curve, end), end, YPixel(curve, fMaxX)) ELSE {})

SpNext ==
  \/ \E w \in Waves : AddWaveform(w) \/ RemoveWaveform(WaveId(w))
  \/ ReDraw
  \/ ForEachDataSet

\* ReDraw is a function: it goes on until it returns.
SpFairness == WF_spVars(ForEachDataSet)

------------------------------------------------------------------------------
\* A redraw draws the waveforms that were added and not removed, each once and in
\* the order of the table, and none is left in the table behind them.
RedrawDrawsEach ==
  /\ \A i \in Slots : spSets[i] = NoWave <=> i >= spCount
  /\ spLoop # NotDrawing =>
       spDrawn = [i \in 1 .. spLoop.iDS |-> spSets[i - 1]]

\* The loop over the table, which does not advance at a null pointer, ends.
RedrawReturns == (spLoop # NotDrawing) ~> (spLoop = NotDrawing)

\* A waveform within the limits of the axis shows its value in every column, up to the
\* first at which GetYValue fails, where that value is in range of the other axis.  Of
\* one that begins before the axis or ends behind it nothing is drawn.
CurveInEveryColumn ==
  0 <= spCurve.min /\ spCurve.max <= XMax =>
    \A x \in 0 .. Columns - 1 :
      (\A z \in 0 .. x : Answered(spCurve, z)) /\ CurvePixel(spCurve, x) >= 0 =>
        <<x, CurvePixel(spCurve, x)>> \in sp_ReDrawCallback(spCurve)

-----------------------------------------------------------------------------
(* SP_LinInterpT: points are added in any order, sorted and joined by      *)
(* lines, and GetYValue answers from the lines.                            *)

CONSTANTS MaxPoints,          \* nMaxPoints
          PointXs, PointYs    \* coordinates of the points that are added

ASSUME LiAssumption == MaxPoints \in Nat /\ PointXs \subseteq Int /\ PointYs \subseteq Int

VARIABLES
  liPoints,    \* pPoints, up to nPoints: fXi and fYi
  liLines,     \* per point: fM as a fraction and the point fB was computed from
  liFresh      \* Recalc was called after the last change

liVars == <<liPoints, liLines, liFresh>>

LiInit == liPoints = <<>> /\ liLines = <<>> /\ liFresh = FALSE

SP_LinInterpAddPoint(x, y) ==
  /\ Len(liPoints) < MaxPoints
  /\ x \notin {p[1] : p \in Range(liPoints)}   \* SP_ASSERT of sp_SortXYPoints
  /\ liPoints' = Append(liPoints, <<x, y>>)
  /\ liLines' = Append(liLines, <<0, 1, <<0, 0>>>>)   \* what was there is overwritten later
  /\ liFresh' = FALSE
SP_LinInterpClearPoints == liPoints' = <<>> /\ liLines' = <<>> /\ liFresh' = FALSE

\* The bubble sort leaves the points in the order of their x.
sp_SortXYPoints_Once(q) ==  \* (variant: goes over the points once)
  LET swapped[k \in 0 .. Len(q) - 1] ==
        IF k = 0 THEN q
        ELSE LET r == swapped[k - 1]
             IN IF r[k][1] > r[k + 1][1] THEN [r EXCEPT ![k] = r[k + 1], ![k + 1] = r[k]] ELSE r
  IN swapped[Len(q) - 1]
sp_SortXYPoints(q) ==
  CHOOSE r \in [1 .. Len(q) -> Range(q)] :
    Range(r) = Range(q) /\ \A i, j \in 1 .. Len(q) : i < j => r[i][1] < r[j][1]

\* The line through each point and the next; the last point keeps what it had.
SP_LinInterpRecalc ==
  /\ liPoints # <<>>
  /\ LET q == sp_SortXYPoints(liPoints)
     IN /\ liPoints' = q
        /\ liLines' = [i \in 1 .. Len(q) |->
                         IF i = Len(q) THEN liLines[i]
                         ELSE <<q[i + 1][2] - q[i][2], q[i + 1][1] - q[i][1], q[i]>>]
  /\ liFresh' = TRUE

\* y = fM x + fB of the first pair of points that has x between them, if there is one.
SP_LinInterpInitGetYValue(x) ==
  LET around == {i \in 1 .. Len(liPoints) - 1 : liPoints[i][1] <= x /\ x <= liPoints[i + 1][1]}
      i == CHOOSE j \in around : \A k \in around : j <= k
  IN IF around = {} THEN {}
     ELSE {liLines[i][3][2] + (liLines[i][1] * (x - liLines[i][3][1])) \div liLines[i][2]}

LiNext ==
  \/ \E x \in PointXs, y \in PointYs : SP_LinInterpAddPoint(x, y)
  \/ SP_LinInterpClearPoints
  \/ SP_LinInterpRecalc

------------------------------------------------------------------------------
\* In whatever order they were added, the curve goes through every point.
InterpHitsPoints ==
  liFresh /\ Len(liPoints) > 1 =>
    \A p \in Range(liPoints) : SP_LinInterpInitGetYValue(p[1]) = {p[2]}

-----------------------------------------------------------------------------
(* sp_ForEachGridLine walks the values of one grid of an axis, linear or   *)
(* logarithmic.  The minor unit of a logarithmic grid is a fraction        *)
(* 1/GdParts of the next major value.                                      *)

CONSTANTS GdLimits,     \* fMin, fMax of an axis are two of these
          GdUnits,      \* fUnit of a linear grid, base of a logarithmic one
          GdExponents,  \* a base to this power is more than any limit
          GdParts       \* 1 / MinorGrid.fUnit on a logarithmic axis, divides every base

VARIABLES gdLog, gdMin, gdMax, gdUnit,   \* the axis and its grid
          gdMinor,      \* the minor grid is drawn
          gdAt, gdMajor, gdValue,        \* fMajorGridValue, fGridValue or fMinorGridValue
          gdLines       \* values the callback got
gdAxis == <<gdLog, gdMin, gdMax, gdUnit, gdMinor>>
gdVars == <<gdAxis, gdAt, gdMajor, gdValue, gdLines>>

\* The powers of a base, by exponent.
GdPower(base) ==
  LET power[n \in 0 .. GdExponents] == IF n = 0 THEN 1 ELSE base * power[n - 1] IN power
GdPowers(base) == {GdPower(base)[n] : n \in 0 .. GdExponents}

ASSUME GdAssumption ==
  /\ GdLimits \subseteq Int /\ GdUnits \subseteq Nat \ {0}
  /\ GdExponents \in Nat /\ GdParts \in Nat \ {0}
  /\ \A unit \in GdUnits, max \in GdLimits : unit > 1 => max < GdPower(unit)[GdExponents]

CeilDiv(a, b) == -((-a) \div b)
\* fUnit to the power floor(log(fMin)), for fMin >= 1
GdFloorPower(base, min) == CHOOSE p \in GdPowers(base) : p <= min /\ min < p * base

GdInit ==
  /\ gdLog \in BOOLEAN /\ gdMinor \in BOOLEAN /\ gdUnit \in GdUnits
  /\ gdMin \in GdLimits /\ gdMax \in GdLimits /\ gdMin < gdMax
  /\ gdLog => gdMin >= 1 /\ gdUnit > 1 /\ gdUnit % GdParts = 0
  /\ gdAt = "start" /\ gdMajor = 0 /\ gdValue = 0 /\ gdLines = {}

GridStart_Floor ==                         \* (variant: the multiple below fMin)
  /\ gdAt = "start"
  /\ \/ ~gdLog /\ gdAt' = "linear" /\ gdValue' = gdUnit * (gdMin \div gdUnit) /\ gdMajor' = gdMajor
     \/ gdLog /\ gdAt' = (IF gdMinor THEN "minors" ELSE "find")
        /\ gdMajor' = GdFloorPower(gdUnit, gdMin) /\ gdValue' = gdValue
  /\ UNCHANGED <<gdAxis, gdLines>>
GridStart ==
  /\ gdAt = "start"
  /\ \/ ~gdLog /\ gdAt' = "linear" /\ gdValue' = gdUnit * CeilDiv(gdMin, gdUnit) /\ gdMajor' = gdMajor
     \/ gdLog /\ gdAt' = (IF gdMinor THEN "minors" ELSE "find")
        /\ gdMajor' = GdFloorPower(gdUnit, gdMin) /\ gdValue' = gdValue
  /\ UNCHANGED <<gdAxis, gdLines>>
GridLinear ==
  /\ gdAt = "linear"
  /\ IF gdValue < gdMax
     THEN gdLines' = gdLines \cup {gdValue} /\ gdValue' = gdValue + gdUnit /\ gdAt' = gdAt
     ELSE gdAt' = "done" /\ UNCHANGED <<gdLines, gdValue>>
  /\ UNCHANGED <<gdAxis, gdMajor>>
GridMajorFind ==
  /\ gdAt = "find"
  /\ IF gdMajor < gdMin THEN gdMajor' = gdMajor * gdUnit /\ gdAt' = gdAt
     ELSE gdAt' = "major" /\ gdMajor' = gdMajor
  /\ UNCHANGED <<gdAxis, gdValue, gdLines>>
GridMajor ==
  /\ gdAt = "major"
  /\ IF gdMajor <= gdMax
     THEN gdLines' = gdLines \cup {gdMajor} /\ gdMajor' = gdMajor * gdUnit /\ gdAt' = gdAt
     ELSE gdAt' = "done" /\ UNCHANGED <<gdLines, gdMajor>>
  /\ UNCHANGED <<gdAxis, gdValue>>
\* fMinorGridUnit is a part of the next major value, and the first minor value
MinorUnit == (gdMajor * gdUnit) \div GdParts
GridMinors ==
  /\ gdAt = "minors"
  /\ IF gdMajor <= gdMax THEN gdAt' = "minor" /\ gdValue' = MinorUnit
     ELSE gdAt' = "done" /\ gdValue' = gdValue
  /\ UNCHANGED <<gdAxis, gdMajor, gdLines>>
GridMinor ==
  /\ gdAt = "minor"
  /\ IF gdValue < gdMajor * gdUnit
     THEN gdLines' = gdLines \cup {gdValue} /\ gdValue' = gdValue + MinorUnit
          /\ UNCHANGED <<gdAt, gdMajor>>
     ELSE gdAt' = "minors" /\ gdMajor' = gdMajor * gdUnit /\ UNCHANGED <<gdLines, gdValue>>
  /\ UNCHANGED gdAxis

GdNext == GridStart \/ GridLinear \/ GridMajorFind \/ GridMajor \/ GridMinors \/ GridMinor
GdSpec == GdInit /\ [][GdNext]_gdVars

\* The gridlines of a linear axis are the multiples of the unit in [fMin, fMax), the
\* major ones of a logarithmic axis are the powers of the base in [fMin, fMax], and no
\* minor line inside the axis is missing (the code draws some outside of it as well).
GridLinesRight ==
  gdAt = "done" =>
    IF ~gdLog THEN gdLines = {v \in gdMin .. gdMax - 1 : v % gdUnit = 0}
    ELSE IF ~gdMinor THEN gdLines = GdPowers(gdUnit) \cap (gdMin .. gdMax)
    ELSE \A v \in gdMin .. gdMax : \A p \in GdPowers(gdUnit), k \in 1 .. GdParts - 1 :
           v = k * ((p * gdUnit) \div GdParts) => v \in gdLines
=============================================================================
