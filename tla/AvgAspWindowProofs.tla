------------------------- MODULE AvgAspWindowProofs -------------------------
(***************************************************************************)
(* The accumulator of the averaging ASP is what it should be, for a buffer *)
(* of any length, any windows, samples and configuration packets.          *)
(*                                                                         *)
(* That it is the sum of the cells is inductive once the cells are known   *)
(* to be small enough for the sum not to wrap. That it is the sum of the   *)
(* last samples needs to know where in the buffer each of them is: `Fits'  *)
(* says that the first `held' cells hold the last `held' samples, written  *)
(* around the pointer, and that the cells behind are still zero.           *)
(***************************************************************************)
EXTENDS AvgAspWindow, Sums

Cell == 0 .. MaxN - 1

(* A bound of the samples whose multiple still fits the accumulator. *)
IsTop(t) == MaxN * t < SumModulus /\ \A s \in RawSamples : s <= t
Top == CHOOSE t \in Nat : IsTop(t)

Fits(held) ==
  /\ ptr <= held
  /\ \A i \in Cell : buffer_reg[i] = IF i < ptr  THEN taken[ptr - i]
                                ELSE IF i < held THEN taken[(ptr + held) - i] ELSE 0
  /\ held < avg_window_size => since <= ptr
  /\ sum_acc = LastTaken(held)

WindowFits == ~ shrunk => ptr < avg_window_size /\ \E held \in 1 .. avg_window_size : Fits(held)

HistoryOK ==
  /\ buffer_reg \in [Cell -> 0 .. Top]
  /\ taken \in [1 .. MaxN -> 0 .. Top]
  /\ since \in Nat
  /\ shrunk \in BOOLEAN

WindowInv == CoreTypeOK /\ HistoryOK /\ SumIsBuffer /\ WindowFits

----------------------------------------------------------------------------
LEMMA TopExists == Top \in Nat /\ IsTop(Top)
<1> DEFINE Big == {n \in Nat : SumModulus <= MaxN * n}
<1>1. SumModulus \in Big
  BY MaxNAssumption, WidthAssumption
<1>2. PICK b \in Big : \A n \in Big : b <= n
  <2>1. Big \subseteq Nat OBVIOUS
  <2> HIDE DEF Big
  <2> QED BY <1>1, <2>1, LeastNumber
<1>3. MaxN * 0 = 0 /\ SumModulus > 0
  BY MaxNAssumption, WidthAssumption
<1>4. b # 0 /\ b - 1 \in Nat /\ b - 1 < b
  <2>1. b \in Nat /\ SumModulus <= MaxN * b OBVIOUS
  <2>2. b # 0 BY <1>3, <2>1, WidthAssumption
  <2> QED BY <2>1, <2>2
<1>5. ~ (SumModulus <= MaxN * (b - 1))
  BY <1>2, <1>4
<1>6. \A s \in RawSamples : s <= b - 1
  <2> SUFFICES ASSUME NEW s \in RawSamples, b <= s PROVE FALSE
    BY <1>4, SamplesAssumption
  <2>1. PICK d \in Nat : s = b + d
    <3>1. s \in Nat /\ s - b \in Nat BY SamplesAssumption
    <3> QED BY <3>1
  <2>2. MaxN * s = MaxN * b + MaxN * d /\ MaxN * d \in Nat /\ MaxN * b \in Nat
    BY <2>1, MaxNAssumption
  <2> QED BY <2>2, SamplesAssumption, WidthAssumption
<1>7. MaxN * (b - 1) \in Nat
  BY <1>4, MaxNAssumption
<1>8. \E t \in Nat : IsTop(t)
  BY <1>4, <1>5, <1>6, <1>7, WidthAssumption DEF IsTop
<1> QED BY <1>8 DEF Top

LEMMA CellsFinite == IsFiniteSet(Cell) /\ Cardinality(Cell) = MaxN
BY FS_Interval, MaxNAssumption DEF Cell

LEMMA NoneTaken ==
  ASSUME NEW n \in Nat, NEW f, \A k \in 1 .. n : f[k] = 0
  PROVE  SumFunctionOnSet(f, 1 .. n) = 0
<1>1. IsFiniteSet(1 .. n) /\ Cardinality(1 .. n) = n
  BY FS_Interval
<1>2. \A k \in 1 .. n : f[k] \in 0 .. 0
  OBVIOUS
<1>3. SumFunctionOnSet(f, 1 .. n) \in 0 .. n * 0
  BY <1>1, <1>2, SumBounds
<1> QED BY <1>3

(* What a sample is worth. *)
LEMMA SampleSmall ==
  ASSUME NEW word \in Words, IsSample(word)
  PROVE  SampleOf(word) \in 0 .. Top
<1>1. word.value \in RawSamples /\ word.kind = "sample"
  BY DEF IsSample, Words
<1>2. word.value \in 0 .. Top
  <2>1. word.value \in Nat BY <1>1, SamplesAssumption
  <2>2. word.value <= Top BY <1>1, TopExists DEF IsTop
  <2> QED BY <2>1, <2>2, TopExists
<1>3. word.value % EightBits \in 0 .. word.value
  BY <1>2, TopExists, WidthAssumption
<1> QED BY <1>2, <1>3, TopExists DEF SampleOf

(* The sum of the cells fits the accumulator. *)
LEMMA CellsFit ==
  ASSUME NEW b \in [Cell -> 0 .. Top]
  PROVE  SumFunction(b) \in 0 .. SumModulus - 1
<1>1. SumFunctionOnSet(b, Cell) \in 0 .. MaxN * Top
  BY CellsFinite, TopExists, SumBounds
<1>2. MaxN * Top < SumModulus /\ MaxN * Top \in Nat
  BY TopExists, MaxNAssumption DEF IsTop
<1> QED BY <1>1, <1>2, WidthAssumption DEF SumFunction

(* Adding the new sample and taking off the oldest is the same whether the *)
(* accumulator is read as a number or as its 16 bits.                      *)
LEMMA ReplaceAddsUp ==
  ASSUME WindowInv, NEW new \in 0 .. Top
  PROVE  /\ Replace(sum_acc, new, buffer_reg[ptr]) = (sum_acc + new) - buffer_reg[ptr]
         /\ Replace(sum_acc, new, buffer_reg[ptr])
              = SumFunction([buffer_reg EXCEPT ![ptr] = new])
<1> DEFINE b == [buffer_reg EXCEPT ![ptr] = new]
<1>0. buffer_reg \in [Cell -> 0 .. Top] /\ ptr \in Cell /\ Top \in Nat
  BY TopExists DEF WindowInv, HistoryOK, CoreTypeOK, Cell
<1>1. b \in [Cell -> 0 .. Top] /\ DOMAIN b = Cell /\ DOMAIN buffer_reg = Cell
  BY <1>0
<1>2. SumFunctionOnSet(b, Cell) = SumFunctionOnSet(buffer_reg, Cell) - buffer_reg[ptr] + b[ptr]
  <2>1. \A x \in Cell : buffer_reg[x] \in Int BY <1>0
  <2>2. b[ptr] \in Int /\ \A x \in Cell \ {ptr} : b[x] = buffer_reg[x] BY <1>0
  <2> HIDE DEF b
  <2> QED BY <1>0, <2>1, <2>2, CellsFinite, SumReplaces
<1>3. sum_acc = SumFunctionOnSet(buffer_reg, Cell) /\ sum_acc \in 0 .. SumModulus - 1
  BY <1>1 DEF WindowInv, SumIsBuffer, Cells, SumFunction, CoreTypeOK
<1>4. b[ptr] = new /\ SumFunction(b) = SumFunctionOnSet(b, Cell)
  BY <1>0, <1>1 DEF SumFunction
<1>5. SumFunction(b) \in 0 .. SumModulus - 1
  BY <1>1, CellsFit
<1>6. SumFunction(b) = (sum_acc + new) - buffer_reg[ptr] /\ buffer_reg[ptr] \in 0 .. Top
  BY <1>0, <1>2, <1>3, <1>4
<1>7. PICK r \in 0 .. SumModulus - 1 : r = SumFunction(b)
  BY <1>5
<1>8. Replace(sum_acc, new, buffer_reg[ptr]) = (r + SumModulus) % SumModulus
  <2>1. sum_acc + new + (SumModulus - buffer_reg[ptr]) = r + SumModulus
    BY <1>0, <1>3, <1>6, <1>7, WidthAssumption
  <2> QED BY <2>1 DEF Replace
<1>9. (r + SumModulus) % SumModulus = r
  BY WidthAssumption
<1> QED BY <1>6, <1>7, <1>8, <1>9

----------------------------------------------------------------------------
LEMMA InitWindowInv == WindowInit => WindowInv
<1> SUFFICES ASSUME WindowInit PROVE WindowInv
  OBVIOUS
<1> USE DEF WindowInit, AvgCoreInit
<1>0. Top \in Nat /\ MaxN \in Nat \ {0}
  BY TopExists, MaxNAssumption
<1>1. CoreTypeOK
  <2>1. buffer_reg \in [0 .. MaxN - 1 -> Nat] OBVIOUS
  <2>2. MaxN \in 1 .. MaxN /\ 0 \in 0 .. MaxN - 1 /\ 0 \in 0 .. SumModulus - 1
    BY <1>0, WidthAssumption
  <2>3. avg_ready \in BOOLEAN /\ corr_calculate \in BOOLEAN
    BY Zenon
  <2> QED BY <2>1, <2>2, <2>3 DEF CoreTypeOK
<1>2. HistoryOK
  <2>1. buffer_reg \in [Cell -> 0 .. Top] BY <1>0 DEF Cell
  <2>2. taken \in [1 .. MaxN -> 0 .. Top] BY <1>0
  <2> QED BY <2>1, <2>2 DEF HistoryOK
<1>3. SumFunctionOnSet(buffer_reg, Cell) = 0
  <2>1. \A i \in Cell : buffer_reg[i] \in 0 .. 0 BY DEF Cell
  <2>2. SumFunctionOnSet(buffer_reg, Cell) \in 0 .. MaxN * 0 BY <2>1, CellsFinite, SumBounds
  <2> QED BY <1>0, <2>2
<1>4. SumIsBuffer
  BY <1>3 DEF SumIsBuffer, Cells, SumFunction, Cell
<1>5. LastTaken(MaxN) = 0
  BY <1>0, NoneTaken DEF LastTaken
<1>6. Fits(MaxN)
  BY <1>0, <1>5 DEF Fits, Cell
<1>7. WindowFits
  BY <1>0, <1>6 DEF WindowFits
<1> QED BY <1>1, <1>2, <1>4, <1>7 DEF WindowInv

----------------------------------------------------------------------------
LEMMA CoreTypeStep ==
  ASSUME WindowInv, NEW word \in Words,
         TakeSample(word) \/ Reconfigure(word) \/ Pass(word)
  PROVE  CoreTypeOK' /\ HistoryOK'
<1>0. Top \in Nat /\ MaxN \in Nat \ {0}
  BY TopExists, MaxNAssumption
<1> USE DEF WindowInv
<1>1. CASE TakeSample(word)
  <2> USE <1>1 DEF TakeSample, AvgSample
  <2>1. SampleOf(word) \in 0 .. Top
    BY SampleSmall
  <2>2. buffer_reg' \in [Cell -> 0 .. Top]
    BY <2>1 DEF HistoryOK
  <2>3. taken' \in [1 .. MaxN -> 0 .. Top]
    <3>1. \A k \in 1 .. MaxN : k # 1 => k - 1 \in 1 .. MaxN BY <1>0
    <3> QED BY <2>1, <3>1 DEF HistoryOK
  <2>4. HistoryOK'
    BY <2>2, <2>3 DEF HistoryOK
  <2>5. sum_acc' \in 0 .. SumModulus - 1
    <3>1. sum_acc' = SumFunction([buffer_reg EXCEPT ![ptr] = SampleOf(word)])
      BY <2>1, ReplaceAddsUp
    <3> QED BY <2>2, <3>1, CellsFit
  <2>6. ptr' \in 0 .. MaxN - 1
    BY <1>0 DEF Advance, CoreTypeOK
  <2>7. buffer_reg' \in [0 .. MaxN - 1 -> Nat]
    BY <1>0, <2>2 DEF Cell
  <2>8. /\ corr_calculate' \in BOOLEAN
        /\ correlation_sample_interval_counter' \in 0 .. 255
        /\ correlation_sample_interval' \in 0 .. 255
    <3> DEFINE due == correlation_sample_interval_counter + 1 >= correlation_sample_interval
    <3>0. due \in BOOLEAN
      OBVIOUS
    <3>1. corr_calculate' \in BOOLEAN
      BY <3>0, Zenon
    <3>2. correlation_sample_interval_counter' =
            IF due THEN 0 ELSE correlation_sample_interval_counter + 1
      BY Zenon
    <3>3. correlation_sample_interval_counter' \in 0 .. 255
      BY <3>2 DEF CoreTypeOK
    <3> QED BY <3>1, <3>3 DEF CoreTypeOK
  <2> QED BY <2>4, <2>5, <2>6, <2>7, <2>8 DEF CoreTypeOK
<1>2. CASE Reconfigure(word)
  <2> USE <1>2 DEF Reconfigure, AvgConfig
  <2>1. word.interval \in 0 .. 255 /\ WindowSize[word.window] \in 1 .. MaxN
    <3>1. word.interval \in Intervals /\ word.window \in WindowCodes BY DEF Words
    <3> QED BY <3>1, PacketAssumption, WindowAssumption
  <2>2. CoreTypeOK'
    BY <2>1 DEF CoreTypeOK
  <2>3. HistoryOK'
    BY DEF HistoryOK
  <2> QED BY <2>2, <2>3
<1>3. CASE Pass(word)
  <2> USE <1>3 DEF Pass, AvgNoSample
  <2>1. CoreTypeOK'
    <3>1. avg_ready' \in BOOLEAN BY Zenon
    <3>2. avg_data' \in 0 .. SumModulus - 1 BY WidthAssumption
    <3> QED BY <3>1, <3>2 DEF CoreTypeOK
  <2>2. HistoryOK'
    BY DEF HistoryOK
  <2> QED BY <2>1, <2>2
<1> QED BY <1>1, <1>2, <1>3

LEMMA SumStep ==
  ASSUME WindowInv, NEW word \in Words,
         TakeSample(word) \/ Reconfigure(word) \/ Pass(word)
  PROVE  SumIsBuffer'
<1>1. CASE TakeSample(word)
  <2>1. SampleOf(word) \in 0 .. Top
    BY <1>1, SampleSmall DEF TakeSample, AvgSample
  <2> QED BY <1>1, <2>1, ReplaceAddsUp DEF TakeSample, AvgSample, SumIsBuffer, Cells
<1>2. CASE Reconfigure(word) \/ Pass(word)
  BY <1>2 DEF WindowInv, SumIsBuffer, Cells, Reconfigure, Pass, AvgConfig, AvgNoSample
<1> QED BY <1>1, <1>2

(* A sample goes where the pointer stands and takes the place of the       *)
(* oldest of the samples held, or of a zero while the buffer fills up.     *)
LEMMA FitsStep ==
  ASSUME WindowInv, ~ shrunk, NEW word \in Words, TakeSample(word)
  PROVE  WindowFits'
<1> DEFINE w == avg_window_size
           new == SampleOf(word)
<1>0. Top \in Nat /\ MaxN \in Nat \ {0}
  BY TopExists, MaxNAssumption
<1> USE DEF WindowInv
<1>1. PICK held \in 1 .. w : Fits(held)
  BY DEF WindowFits
<1>2. /\ w \in 1 .. MaxN /\ held \in Nat \ {0} /\ held <= w
      /\ ptr \in Nat /\ ptr < w /\ ptr <= held /\ since \in Nat
      /\ taken \in [1 .. MaxN -> 0 .. Top] /\ buffer_reg \in [Cell -> 0 .. Top]
  BY <1>0, <1>1 DEF Fits, WindowFits, CoreTypeOK, HistoryOK
<1>3. new \in 0 .. Top
  BY SampleSmall DEF TakeSample, AvgSample
<1>4. /\ w' = w /\ ~ shrunk'
      /\ buffer_reg' = [buffer_reg EXCEPT ![ptr] = new]
      /\ sum_acc' = (sum_acc + new) - buffer_reg[ptr]
      /\ taken' = [k \in 1 .. MaxN |-> IF k = 1 THEN new ELSE taken[k - 1]]
      /\ since' \in Nat /\ since' <= since + 1
  <2>1. sum_acc' = (sum_acc + new) - buffer_reg[ptr]
    BY <1>3, ReplaceAddsUp DEF TakeSample, AvgSample
  <2>2. since' \in Nat /\ since' <= since + 1
    BY <1>2 DEF TakeSample
  <2>3. ~ shrunk' /\ w' = w
    BY Zenon DEF TakeSample, AvgSample
  <2> QED BY <2>1, <2>2, <2>3 DEF TakeSample, AvgSample
<1>5. ptr' = IF ptr + 1 = w THEN 0 ELSE ptr + 1
  <2>1. ptr' = (ptr + 1) % w BY DEF TakeSample, AvgSample, Advance
  <2> QED BY <1>2, <2>1
<1>6. \A i \in Cell : buffer_reg[i] = IF i < ptr  THEN taken[ptr - i]
                                 ELSE IF i < held THEN taken[(ptr + held) - i] ELSE 0
  BY <1>1 DEF Fits
<1>7. sum_acc = LastTaken(held) /\ (held < w => since <= ptr)
  BY <1>1 DEF Fits
<1>8. /\ taken'[1] = new
      /\ \A k \in 1 .. MaxN : k + 1 <= MaxN => taken'[k + 1] = taken[k]
  <2>1. 1 \in 1 .. MaxN /\ \A k \in 1 .. MaxN : k + 1 <= MaxN => k + 1 \in 1 .. MaxN /\ k + 1 # 1 /\ (k + 1) - 1 = k
    BY <1>0
  <2> QED BY <1>4, <2>1
<1>9. \A i \in Cell : buffer_reg'[i] = IF i = ptr THEN new ELSE buffer_reg[i]
  BY <1>2, <1>4
(* The samples held after this one. *)
<1> DEFINE next == IF ptr < held THEN held ELSE held + 1
<1>10. next \in 1 .. w /\ next \in Nat \ {0}
  BY <1>2
<1>11. sum_acc' = SumFunctionOnSet(taken', 1 .. next)
  <2>1. \A m \in Nat : m + 1 <= MaxN =>
          SumFunctionOnSet(taken', 1 .. m + 1) = new + SumFunctionOnSet(taken, 1 .. m)
    <3> SUFFICES ASSUME NEW m \in Nat, m + 1 <= MaxN
                 PROVE  SumFunctionOnSet(taken', 1 .. m + 1)
                          = taken'[1] + SumFunctionOnSet(taken, 1 .. m)
      BY <1>8
    <3>1. \A k \in 1 .. m + 1 : taken'[k] \in Int
      <4>1. taken' \in [1 .. MaxN -> 0 .. Top] BY CoreTypeStep DEF HistoryOK
      <4> QED BY <1>0, <4>1
    <3>2. \A k \in 1 .. m : taken[k] = taken'[k + 1]
      BY <1>0, <1>8
    <3> QED BY <3>1, <3>2, SumShifts
  <2>2. CASE ptr < held
    <3>1. PICK m \in Nat : m + 1 = held /\ m + 1 <= MaxN
      <4>1. held - 1 \in Nat /\ (held - 1) + 1 = held /\ held <= MaxN BY <1>0, <1>2
      <4> QED BY <4>1
    <3>2. \A k \in 1 .. m + 1 : taken[k] \in Int
      BY <1>0, <1>2, <3>1
    <3>3. SumFunctionOnSet(taken, 1 .. m + 1) = taken[m + 1] + SumFunctionOnSet(taken, 1 .. m)
      BY <3>2, SumOfNext
    <3>4. IsFiniteSet(1 .. m) /\ \A k \in 1 .. m : taken[k] \in Int
      BY <3>2, FS_Interval
    <3>5. SumFunctionOnSet(taken, 1 .. m) \in Int
      BY <3>4, SumTakesOut
    <3>6. buffer_reg[ptr] = taken[held]
      <4>1. ptr \in Cell /\ (ptr + held) - ptr = held BY <1>0, <1>2 DEF Cell
      <4> QED BY <1>6, <2>2, <4>1, <1>2
    <3>7. taken[held] \in Int
      BY <3>1, <3>2
    <3>8. sum_acc = taken[held] + SumFunctionOnSet(taken, 1 .. m)
      BY <1>7, <3>1, <3>3 DEF LastTaken
    <3>9. sum_acc' = new + SumFunctionOnSet(taken, 1 .. m)
      BY <1>3, <1>4, <3>5, <3>6, <3>7, <3>8
    <3> QED BY <2>1, <2>2, <3>1, <3>9
  <2>3. CASE ~ (ptr < held)
    <3>1. buffer_reg[ptr] = 0 /\ held + 1 <= MaxN
      <4>1. ptr \in Cell /\ ~ (ptr < ptr) /\ held + 1 <= MaxN BY <1>0, <1>2, <2>3 DEF Cell
      <4> QED BY <1>6, <2>3, <4>1
    <3>2. sum_acc \in Int
      BY DEF CoreTypeOK
    <3>3. sum_acc' = new + SumFunctionOnSet(taken, 1 .. held)
      BY <1>3, <1>4, <1>7, <3>1, <3>2 DEF LastTaken
    <3> QED BY <1>2, <2>1, <2>3, <3>1, <3>3
  <2> QED BY <2>2, <2>3
<1>12. \A i \in Cell : buffer_reg'[i] = IF i < ptr'  THEN taken'[ptr' - i]
                                   ELSE IF i < next THEN taken'[(ptr' + next) - i] ELSE 0
  <2> SUFFICES ASSUME NEW i \in Cell
               PROVE  buffer_reg'[i] = IF i < ptr'  THEN taken'[ptr' - i]
                                  ELSE IF i < next THEN taken'[(ptr' + next) - i] ELSE 0
    OBVIOUS
  <2>0. i \in Nat /\ i < MaxN
    BY <1>0 DEF Cell
  <2>1. CASE i = ptr
    <3>1. buffer_reg'[i] = taken'[1] BY <1>8, <1>9, <2>1
    <3>2. CASE ptr + 1 = w
      <4>1. ptr' = 0 /\ next = w /\ i < next /\ (0 + next) - i = 1 /\ ~ (i < 0)
        BY <1>2, <1>5, <2>0, <2>1, <3>2
      <4> QED BY <3>1, <4>1
    <3>3. CASE ptr + 1 # w
      <4>1. i < ptr' /\ ptr' - i = 1
        BY <1>2, <1>5, <2>0, <2>1, <3>3
      <4> QED BY <3>1, <4>1
    <3> QED BY <3>2, <3>3
  <2>2. CASE i < ptr
    <3>1. buffer_reg'[i] = taken[ptr - i] BY <1>2, <1>6, <1>9, <2>0, <2>2
    <3>2. PICK k \in 1 .. MaxN : k = ptr - i /\ k + 1 <= MaxN
      <4>1. ptr - i \in 1 .. MaxN /\ (ptr - i) + 1 <= MaxN BY <1>0, <1>2, <2>0, <2>2
      <4> QED BY <4>1
    <3>3. buffer_reg'[i] = taken'[k + 1]
      BY <1>8, <3>1, <3>2
    <3>4. CASE ptr + 1 = w
      <4>1. ptr' = 0 /\ next = w /\ i < next /\ (0 + next) - i = k + 1 /\ ~ (i < 0)
        BY <1>2, <1>5, <2>0, <2>2, <3>2, <3>4
      <4> QED BY <3>3, <4>1
    <3>5. CASE ptr + 1 # w
      <4>1. i < ptr' /\ ptr' - i = k + 1
        BY <1>2, <1>5, <2>0, <2>2, <3>2, <3>5
      <4> QED BY <3>3, <4>1
    <3> QED BY <3>4, <3>5
  <2>3. CASE i > ptr /\ i < held
    <3>1. buffer_reg'[i] = taken[(ptr + held) - i] BY <1>2, <1>6, <1>9, <2>0, <2>3
    <3>2. PICK k \in 1 .. MaxN : k = (ptr + held) - i /\ k + 1 <= MaxN
      <4>1. (ptr + held) - i \in 1 .. MaxN /\ ((ptr + held) - i) + 1 <= MaxN
        BY <1>0, <1>2, <2>0, <2>3
      <4> QED BY <4>1
    <3>3. buffer_reg'[i] = taken'[k + 1]
      BY <1>8, <3>1, <3>2
    <3>4. ptr' = ptr + 1 /\ next = held /\ ~ (i < ptr') /\ (ptr' + next) - i = k + 1
      BY <1>2, <1>5, <2>0, <2>3, <3>2
    <3> QED BY <2>3, <3>3, <3>4
  <2>4. CASE i > ptr /\ ~ (i < held)
    <3>1. buffer_reg'[i] = 0 BY <1>2, <1>6, <1>9, <2>0, <2>4
    <3>2. ~ (i < ptr') /\ ~ (i < next)
      BY <1>2, <1>5, <2>0, <2>4
    <3> QED BY <3>1, <3>2
  <2> QED BY <1>2, <2>0, <2>1, <2>2, <2>3, <2>4
<1>13. ptr' <= next /\ ptr' < w /\ (next < w => since' <= ptr')
  BY <1>2, <1>4, <1>5, <1>7
<1>14. PICK n \in 1 .. w' : n = next
  BY <1>4, <1>10
<1>15. Fits(n)'
  BY <1>4, <1>11, <1>12, <1>13, <1>14 DEF Fits, LastTaken
<1> QED BY <1>4, <1>13, <1>15 DEF WindowFits

(* A packet that leaves the window at least as large as what is held       *)
(* changes nothing; one that makes it smaller finds nothing but zeros.     *)
LEMMA FitsReconfigured ==
  ASSUME WindowInv, NEW word \in Words, Reconfigure(word)
  PROVE  WindowFits'
<1> SUFFICES ASSUME ~ shrunk' PROVE WindowFits'
  BY DEF WindowFits
<1> DEFINE w == avg_window_size
<1> USE DEF WindowInv
<1>1. /\ ~ shrunk /\ ~ (w' <= ptr)
      /\ ~ (w' < w) \/ ~ (\E k \in 1 .. MaxN : taken[k] # 0)
  BY Zenon DEF Reconfigure
<1>2. PICK held \in 1 .. w : Fits(held)
  BY <1>1 DEF WindowFits
<1>3. /\ UNCHANGED <<buffer_reg, sum_acc, ptr, taken>> /\ since' = 0
      /\ w \in 1 .. MaxN /\ w' \in 1 .. MaxN /\ MaxN \in Nat /\ ptr \in Nat
  <2>1. w' \in 1 .. MaxN BY CoreTypeStep DEF CoreTypeOK
  <2> QED BY <2>1, MaxNAssumption DEF Reconfigure, AvgConfig, CoreTypeOK
<1>4. ptr' < w'
  BY <1>1, <1>3
<1>5. CASE ~ (w' < w)
  <2>1. held \in 1 .. w' BY <1>3, <1>5
  <2>2. Fits(held)' BY <1>2, <1>3 DEF Fits, LastTaken
  <2> QED BY <1>4, <2>1, <2>2 DEF WindowFits
<1>6. CASE \A k \in 1 .. MaxN : taken[k] = 0
  <2>1. \A i \in Cell : buffer_reg[i] = 0
    <3>1. \A i \in Cell : /\ i < ptr => ptr - i \in 1 .. MaxN
                          /\ ~ (i < ptr) /\ i < held => (ptr + held) - i \in 1 .. MaxN
      BY <1>2, <1>3 DEF Cell, Fits, CoreTypeOK
    <3> QED BY <1>2, <1>6, <3>1 DEF Fits
  <2>2. \A i \in Cell : /\ i < ptr => taken[ptr - i] = 0
                        /\ ~ (i < ptr) /\ i < w' => taken[(ptr + w') - i] = 0
    <3>1. \A i \in Cell : /\ i < ptr => ptr - i \in 1 .. MaxN
                          /\ ~ (i < ptr) /\ i < w' => (ptr + w') - i \in 1 .. MaxN
      <4> SUFFICES ASSUME NEW i \in Cell
                   PROVE  /\ i < ptr => ptr - i \in 1 .. MaxN
                          /\ ~ (i < ptr) /\ i < w' => (ptr + w') - i \in 1 .. MaxN
        OBVIOUS
      <4>1. i \in Nat /\ ptr \in 0 .. MaxN - 1 BY <1>3 DEF Cell, CoreTypeOK
      <4>2. PICK v \in 1 .. MaxN : v = w' BY <1>3
      <4>3. MaxN \in Nat BY <1>3
      <4>4. i < ptr => ptr - i \in 1 .. MaxN BY <4>1, <4>3
      <4>5. ASSUME ~ (i < ptr), i < v
            PROVE  (ptr + v) - i \in 1 .. MaxN
        <5>1. ptr <= i /\ ptr \in Nat /\ v \in Nat /\ v <= MaxN BY <4>1, <4>2, <4>3, <4>5
        <5>2. (ptr + v) - i \in Int /\ (ptr + v) - i >= 1 /\ (ptr + v) - i <= MaxN
          BY <4>1, <4>3, <4>5, <5>1
        <5> QED BY <4>3, <5>2
      <4> QED BY <4>2, <4>4, <4>5
    <3> QED BY <1>6, <3>1
  <2>3. LastTaken(held) = 0 /\ LastTaken(w') = 0
    <3>1. held \in Nat /\ w' \in Nat /\ \A k \in 1 .. held : taken[k] = 0
      BY <1>2, <1>3, <1>6
    <3>2. \A k \in 1 .. w' : taken[k] = 0
      BY <1>3, <1>6
    <3> QED BY <3>1, <3>2, NoneTaken DEF LastTaken
  <2>4. sum_acc = LastTaken(w')
    BY <1>2, <2>3 DEF Fits
  <2>5. PICK n \in 1 .. w' : n = w'
    BY <1>3
  <2>6. Fits(n)'
    BY <1>3, <1>4, <2>1, <2>2, <2>4, <2>5 DEF Fits, LastTaken
  <2> QED BY <1>4, <2>6 DEF WindowFits
<1> QED BY <1>1, <1>5, <1>6

LEMMA WindowInvStep == WindowInv /\ [WindowNext]_windowVars => WindowInv'
<1> SUFFICES ASSUME WindowInv, [WindowNext]_windowVars PROVE WindowInv'
  OBVIOUS
<1>1. ASSUME NEW word \in Words, TakeSample(word) \/ Reconfigure(word) \/ Pass(word)
      PROVE  WindowInv'
  <2>1. CoreTypeOK' /\ HistoryOK' /\ SumIsBuffer'
    BY <1>1, CoreTypeStep, SumStep
  <2>2. CASE TakeSample(word)
    <3>1. shrunk' = shrunk BY <2>2 DEF TakeSample
    <3>2. CASE shrunk
      BY <2>1, <3>1, <3>2 DEF WindowFits, WindowInv
    <3>3. CASE ~ shrunk
      BY <2>1, <2>2, <3>3, FitsStep DEF WindowInv
    <3> QED BY <3>2, <3>3
  <2>3. CASE Reconfigure(word)
    BY <2>1, <2>3, FitsReconfigured DEF WindowInv
  <2>4. CASE Pass(word)
    <3>1. WindowFits'
      BY <2>4 DEF WindowInv, WindowFits, Fits, LastTaken, Pass, AvgNoSample
    <3> QED BY <2>1, <3>1 DEF WindowInv
  <2> QED BY <1>1, <2>2, <2>3, <2>4
<1>2. CASE UNCHANGED windowVars
  BY <1>2 DEF WindowInv, CoreTypeOK, HistoryOK, SumIsBuffer, Cells, WindowFits, Fits,
              LastTaken, windowVars, avgCoreVars
<1> QED BY <1>1, <1>2 DEF WindowNext

----------------------------------------------------------------------------
THEOREM WindowInvariant == WindowSpec => []WindowInv
<1> QED BY InitWindowInv, WindowInvStep, PTL DEF WindowSpec

(* Every register of the core stays within its width, and the pointer      *)
(* within the buffer whatever window is set under it.                      *)
THEOREM CoreTypeCorrect == WindowSpec => []CoreTypeOK
<1>1. WindowInv => CoreTypeOK
  BY DEF WindowInv
<1> QED BY <1>1, WindowInvariant, PTL

(* The accumulator is the sum of all the cells: it never wraps and never   *)
(* loses count, for any order of samples and packets.                      *)
THEOREM AccumulatorIsSum == WindowSpec => []SumIsBuffer
<1>1. WindowInv => SumIsBuffer
  BY DEF WindowInv
<1> QED BY <1>1, WindowInvariant, PTL

(* The accumulator is the moving sum of the last samples, for as long as   *)
(* no packet has made the window smaller than what the buffer holds.       *)
THEOREM AccumulatorIsWindow == WindowSpec => []GrownWindowSum
<1>1. WindowInv => GrownWindowSum
  <2> SUFFICES ASSUME WindowInv, ~ shrunk, since >= avg_window_size
               PROVE  sum_acc = LastTaken(avg_window_size)
    BY DEF GrownWindowSum
  <2>1. PICK held \in 1 .. avg_window_size : ptr < avg_window_size /\ Fits(held)
    BY DEF WindowInv, WindowFits
  <2>2. held = avg_window_size
    BY <2>1, MaxNAssumption DEF WindowInv, CoreTypeOK, HistoryOK, Fits
  <2> QED BY <2>1, <2>2 DEF Fits
<1> QED BY <1>1, WindowInvariant, PTL
=============================================================================
