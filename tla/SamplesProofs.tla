---------------------------- MODULE SamplesProofs ----------------------------
(***************************************************************************)
(* Proofs about Samples for rings of any length, any number of channels,   *)
(* samples of any width and any client.                                    *)
(***************************************************************************)
EXTENDS Samples, TLAPS

-----------------------------------------------------------------------------
(* Arithmetic *)

\* A number has one quotient and one remainder.
LEMMA Division ==
    ASSUME NEW c \in Nat \ {0}, NEW q \in Int, NEW r \in 0 .. c - 1
    PROVE  (c * q + r) \div c = q /\ (c * q + r) % c = r
BY SMTT(30)

LEMMA Quotient ==
    ASSUME NEW c \in Nat \ {0}, NEW a \in Int
    PROVE  /\ a = c * (a \div c) + (a % c)
           /\ a \div c \in Int /\ a % c \in 0 .. c - 1
BY SMTT(30)

\* How far f lies ahead of e on the ring.
LEMMA RingDistance ==
    ASSUME NEW n \in Nat \ {0}, NEW e \in 0 .. n - 1, NEW f \in 0 .. n - 1
    PROVE  (f - e) % n = IF f >= e THEN f - e ELSE f - e + n
<1>1. CASE f >= e
  <2>1. f - e = n * 0 + (f - e) /\ f - e \in 0 .. n - 1
    BY <1>1
  <2>2. QED
    BY <1>1, <2>1, Division
<1>2. CASE f < e
  <2>1. f - e = n * (-1) + (f - e + n) /\ f - e + n \in 0 .. n - 1
    BY <1>2
  <2>2. QED
    BY <1>2, <2>1, Division
<1>3. QED
  BY <1>1, <1>2

\* The lengths get through their registers.
LEMMA LengthsFit ==
    ASSUME channels \in NumChannels
    PROVE  /\ PlaybackLength = BufferSize /\ RecLength = BufferSizeRec
           /\ BufferSize \in Nat \ {0} /\ BufferSizeRec = 2 * NumSampleFrames
<1>1. /\ NumSampleFrames \in Nat \ {0} /\ channels \in Nat \ {0}
      /\ Low \in Nat \ {0} /\ 2 * NumSampleFrames <= Low
      /\ NumSampleFrames * channels <= 256 * Low
  BY ConstantsAssumption DEF ConstantsAssumption
<1>2. BufferSize \in Nat \ {0} /\ BufferSizeRec = 2 * NumSampleFrames
  BY <1>1 DEF BufferSize, BufferSizeRec
<1> DEFINE less == BufferSize - 1
<1>3. PlaybackLength = BufferSize
  <2>1. less \in Nat /\ less < 256 * Low
    BY <1>1, <1>2 DEF BufferSize
  <2>2. PlaybackLength = (less % Low) + Low * ((less \div Low) % 256) + 1
    BY DEF PlaybackLength
  <2> HIDE DEF less
  <2> DEFINE q == less \div Low
             r == less % Low
  <2>3. less = Low * q + r /\ q \in Int /\ r \in 0 .. Low - 1
    BY <1>1, <2>1, Quotient, SMTT(30)
  <2> HIDE DEF q, r
  <2>4. q \in 0 .. 255
    <3>1. q < 0 => Low * q <= -Low
      BY <1>1, <2>3
    <3>2. q > 255 => Low * q >= 256 * Low
      BY <1>1, <2>3
    <3>3. QED
      BY <1>1, <2>1, <2>3, <3>1, <3>2
  <2>5. q % 256 = q
    BY <2>4
  <2>6. PlaybackLength = less + 1
    BY <1>1, <2>2, <2>3, <2>4, <2>5 DEF q, r
  <2>7. QED
    BY <1>2, <2>6 DEF less
<1>4. RecLength = BufferSizeRec
  <2> DEFINE last == BufferSizeRec - 1
  <2>1. last \in 0 .. Low - 1 /\ last = Low * 0 + last
    BY <1>1, <1>2
  <2> HIDE DEF last
  <2>2. last % Low = last
    <3>1. Low \in Nat \ {0} /\ 0 \in Int
      BY <1>1
    <3>2. (Low * 0 + last) % Low = last
      BY <2>1, <3>1, Division
    <3>3. QED
      BY <2>1, <3>2
  <2>3. QED
    BY <1>2, <2>2 DEF RecLength, last
<1>5. QED
  BY <1>2, <1>3, <1>4

\* Every sample is converted to one the ring has room for.
LEMMA ConversionInRange ==
    ASSUME NEW x \in Int
    PROVE  Float32ToSInt32(x) \in -Scale .. Scale - 1
<1>1. Scale \in Nat \ {0} /\ Round \in 1 .. Scale - 1
  BY ConstantsAssumption DEF ConstantsAssumption
<1>2. Clamped(x) \in -4 * Scale .. 4 * Scale
  BY <1>1 DEF Clamped
<1> DEFINE y == Clamped(x) + 4 * Round
<1>3. y \in Int /\ y >= -4 * Scale
  BY <1>1, <1>2
<1> HIDE DEF y
<1>4. FloatToInt32(y) \in -Scale .. Scale - 1
  BY <1>1, <1>3 DEF FloatToInt32, Cast
<1>5. QED
  BY <1>4 DEF Float32ToSInt32, y

\* What the whole steps of a 24-bit codec are worth, in quarters of a unit.
LEMMA StepsApart ==
    ASSUME NEW k \in Nat \ {0}, NEW q \in Int, NEW t \in Int
    PROVE  /\ t < q => k * t <= k * q - k
           /\ t > q => k * t >= k * q + k
           /\ k * t \in Int /\ k * q \in Int
<1>1. k * t \in Int /\ k * q \in Int
  OBVIOUS
<1>2. ASSUME t < q PROVE k * t <= k * q - k
  <2>1. k * (t + 1) <= k * q
    BY <1>2
  <2>2. QED
    BY <2>1
<1>3. ASSUME t > q PROVE k * t >= k * q + k
  <2>1. k * (q + 1) <= k * t
    BY <1>3
  <2>2. QED
    BY <2>1
<1>4. QED
  BY <1>1, <1>2, <1>3

\* A converted sample is a nearest one: for q, the step that the codec makes of
\* it, is at most half a step and a unit away.
LEMMA ConversionIsNear ==
    ASSUME NEW x \in Int
    PROVE  Near(Float32ToSInt32(x), Clamped(x))
<1> DEFINE z == Clamped(x)
           y == z + 4 * Round
           s == Float32ToSInt32(x)
           k == 2 * Round
           q == s \div k
<1>1. /\ Scale \in Nat \ {0} /\ Round \in 1 .. Scale - 1 /\ Scale % k = 0
  BY ConstantsAssumption DEF ConstantsAssumption
<1>2. z \in -4 * Scale .. 4 * Scale /\ s = FloatToInt32(y) /\ y \in Int
  BY <1>1 DEF Clamped, Float32ToSInt32
<1>3. s \in Int
  BY <1>1, ConversionInRange
<1>4. k \in Nat \ {0}
  BY <1>1
<1> HIDE DEF z, s
<1>5. q \in Int /\ k * q <= s /\ s <= k * q + k - 1
  <2>1. q \in Int /\ s % k \in 0 .. k - 1 /\ s = k * q + (s % k)
    BY <1>3, <1>4, Quotient
  <2> HIDE DEF q
  <2>2. k * q \in Int
    BY <1>4, <2>1
  <2>3. QED
    BY <1>4, <2>1, <2>2
<1> DEFINE top == Scale \div k
<1>6. top \in Int /\ Scale = k * top
  <2>1. Scale \in Int /\ Scale % k = 0
    BY <1>1
  <2> HIDE DEF k
  <2>2. Scale = k * top + (Scale % k) /\ top \in Int
    BY <1>4, <2>1, Quotient
  <2> HIDE DEF top
  <2>3. k * top \in Int
    BY <1>4, <2>2
  <2>4. QED
    BY <2>1, <2>2, <2>3
<1> HIDE DEF q, top
<1> DEFINE a == k * q
<1>7. a \in Int
  BY <1>4, <1>5
<1> SUFFICES ASSUME NEW t \in -Scale \div k .. top - 1
             PROVE  LET distance(u) == LET d == 8 * Round * u - z
                                       IN  IF d < 0 THEN -d ELSE d
                    IN  distance(q) < distance(t) + 8
  BY DEF Near, q, z, s, top
<1> DEFINE b == k * t
<1>8. t \in Int /\ b \in Int /\ b <= Scale - k
      /\ (t < q => b <= a - k) /\ (t > q => b >= a + k) /\ (t = q => b = a)
  <2>1. t \in Int /\ t < top
    BY <1>4, <1>6
  <2>2. b <= k * top - k
    BY <1>4, <1>6, <2>1, StepsApart
  <2>3. QED
    BY <1>4, <1>5, <1>6, <2>1, <2>2, StepsApart
<1>9. 8 * Round * q = 4 * a /\ 8 * Round * t = 4 * b
  BY <1>1, <1>5, <1>8
<1> HIDE DEF a, b
<1>10. CASE y >= 4 * (Scale - 1 - Round)
  <2>1. s = Scale - 1 /\ z >= 4 * Scale - 4 - 8 * Round
    BY <1>1, <1>2, <1>10 DEF FloatToInt32
  <2>2. a = Scale - k
    <3>1. a <= Scale - 1 /\ Scale <= a + k
      BY <1>1, <1>3, <1>5, <2>1 DEF a
    <3>2. q < top => a <= Scale - k
      BY <1>4, <1>5, <1>6, StepsApart DEF a
    <3>3. q >= top => a >= Scale
      BY <1>4, <1>5, <1>6, StepsApart DEF a
    <3>4. QED
      BY <1>1, <1>4, <1>5, <1>6, <1>7, <3>1, <3>2, <3>3
  <2>3. QED
    BY <1>1, <1>2, <1>7, <1>8, <1>9, <2>1, <2>2
<1>11. CASE y < 4 * (Scale - 1 - Round)
  <2>1. s = Cast(y)
    BY <1>1, <1>2, <1>11 DEF FloatToInt32
  <2>2. 4 * s <= y + 3 /\ y <= 4 * s + 3 /\ (y >= 0 => 4 * s <= y)
        /\ (y < 0 => y <= 4 * s)
    BY <1>2, <2>1 DEF Cast
  <2>3. a <= s /\ s <= a + k - 1
    BY <1>5 DEF a
  <2>4. t # q => (b <= a - k \/ b >= a + k)
    BY <1>5, <1>8
  <2>5. QED
    BY <1>1, <1>2, <1>3, <1>7, <1>8, <1>9, <2>2, <2>3, <2>4
<1>12. QED
  BY <1>1, <1>2, <1>10, <1>11

-----------------------------------------------------------------------------
(* The inductive invariant *)

\* The frame being played, and how far a frame is ahead of the erase head.
Now == GetCurrentSampleFrame
Ahead(f) == (f - erased) % NumSampleFrames

\* While the chip runs it has the lengths; all rings are at the same frame.
LengthsOK ==
    /\ \/ length = [play |-> BufferSize, rec |-> BufferSizeRec]
       \/ ~running /\ length = [play |-> 1, rec |-> 1] /\ pos = 0
    /\ RingsLoopTogether

\* The erase head is behind the chip, and what performErase was told between.
EraserOK ==
    /\ Ahead(Now) <= EraseEvery
    /\ pc # "idle" => running /\ Ahead(current) <= Ahead(Now)
    /\ pc = "toEnd" => current < erased
    /\ pc = "upTo" => erased <= current

\* From the chip on, up to the erase head, frames are fresh or silent, ...
SilenceOK == \A f \in Frames : f \in fresh \/ out[f] = 0 \/ Ahead(f) < Ahead(Now)

\* ... and fresh frames are as they were written.
FreshOK ==
    \A f \in fresh : Ahead(f) >= Ahead(Now) /\ out[f] = Float32ToSInt32(tone)

SamplesInv ==
    /\ TypeOK /\ LengthsOK /\ EraserOK /\ SilenceOK /\ FreshOK
    /\ SpdifErasedAlike

\* Where the chip and its frames are.
LEMMA Places ==
    ASSUME TypeOK
    PROVE  /\ NumSampleFrames \in Nat \ {0} /\ EraseEvery \in 1 .. NumSampleFrames - 1
           /\ channels \in Nat \ {0} /\ pos \in Nat
           /\ Now \in 0 .. NumSampleFrames - 1
           /\ pos = channels * Now + (pos % channels)
           /\ pos % channels \in 0 .. channels - 1
           /\ pos < NumSampleFrames * channels
<1>1. /\ NumSampleFrames \in Nat \ {0} /\ EraseEvery \in 1 .. NumSampleFrames - 1
      /\ channels \in Nat \ {0}
  BY ConstantsAssumption DEF ConstantsAssumption, TypeOK
<1>2. pos \in Nat /\ pos < NumSampleFrames * channels
  BY <1>1 DEF TypeOK, BufferSize
<1>3. /\ pos = channels * Now + (pos % channels)
      /\ Now \in Int /\ pos % channels \in 0 .. channels - 1
  BY <1>1, <1>2, Quotient DEF Now, GetCurrentSampleFrame
<1> DEFINE r == pos % channels
<1> HIDE DEF r
<1>4. Now \in 0 .. NumSampleFrames - 1
  <2>1. pos = channels * Now + r /\ Now \in Int /\ r \in 0 .. channels - 1
    BY <1>3 DEF r
  <2> HIDE DEF Now
  <2>2. Now < 0 => channels * Now <= -channels
    BY <1>1, <2>1
  <2>3. Now >= NumSampleFrames => channels * Now >= NumSampleFrames * channels
    BY <1>1, <2>1
  <2>4. QED
    BY <1>1, <1>2, <2>1, <2>2, <2>3
<1>5. QED
  BY <1>1, <1>2, <1>3, <1>4

LEMMA AheadIs ==
    ASSUME TypeOK
    PROVE  \A f \in Frames :
               Ahead(f) = IF f >= erased THEN f - erased
                          ELSE f - erased + NumSampleFrames
<1> SUFFICES ASSUME NEW f \in Frames
             PROVE  Ahead(f) = IF f >= erased THEN f - erased
                               ELSE f - erased + NumSampleFrames
  OBVIOUS
<1>1. NumSampleFrames \in Nat \ {0} /\ erased \in 0 .. NumSampleFrames - 1
  BY Places DEF TypeOK, Frames
<1>2. QED
  BY <1>1, RingDistance DEF Ahead, Frames

\* A dword on, the chip is at the same frame; a frame on, at the next one, in
\* all rings, and at the first after the last.
LEMMA PlayMoves ==
    ASSUME TypeOK, LengthsOK, Play
    PROVE  /\ pos' \in 0 .. BufferSize - 1 /\ pos2' \in 0 .. BufferSizeRec - 1
           /\ pos2' = 2 * Now'
           /\ \/ Now' = Now /\ fresh' = fresh
              \/ /\ Ahead(Now) < EraseEvery
                 /\ Now' = IF Now = NumSampleFrames - 1 THEN 0 ELSE Now + 1
                 /\ fresh' = fresh \ {Now}
<1> DEFINE c == channels
           r == pos % channels
           w == Now
           size == NumSampleFrames * c
<1>1. /\ NumSampleFrames \in Nat \ {0} /\ c \in Nat \ {0} /\ pos \in Nat
      /\ w \in 0 .. NumSampleFrames - 1
      /\ pos = c * w + r /\ r \in 0 .. c - 1 /\ pos < size
  BY Places
<1>2. /\ length.play = size /\ length.rec = 2 * NumSampleFrames
      /\ BufferSize = size /\ BufferSizeRec = 2 * NumSampleFrames
      /\ c' = c /\ pos' = (pos + 1) % size /\ pos2 = 2 * w
      /\ Now' = pos' \div c
  BY LengthsFit DEF TypeOK, LengthsOK, Play, BufferSize, RingsLoopTogether, Now,
     GetCurrentSampleFrame
<1>3. (pos + 1) % c = 0 =>
          /\ Ahead(w) < EraseEvery
          /\ pos2' = (pos2 + 2) % (2 * NumSampleFrames) /\ fresh' = fresh \ {w}
  BY <1>2 DEF Play, Ahead, Now, GetCurrentSampleFrame
<1>4. (pos + 1) % c # 0 => pos2' = pos2 /\ fresh' = fresh
  BY DEF Play
<1> HIDE DEF c, r, w, size
<1>5. size \in Nat \ {0}
  BY <1>1 DEF size
<1>6. CASE r < c - 1
  <2>1. pos + 1 = c * w + (r + 1) /\ r + 1 \in 0 .. c - 1
    BY <1>1, <1>6
  <2>2. (pos + 1) % c = r + 1 /\ (pos + 1) \div c = w
    BY <1>1, <2>1, Division
  <2>3. pos + 1 < size
    <3>1. c * w <= size - c
      <4>1. w + 1 <= NumSampleFrames
        BY <1>1
      <4>2. c * (w + 1) <= c * NumSampleFrames
        BY <1>1, <4>1
      <4>3. QED
        BY <1>1, <4>2 DEF size
    <3>2. QED
      BY <1>1, <1>5, <2>1, <3>1
  <2>4. pos' = pos + 1
    <3>1. pos + 1 = size * 0 + (pos + 1) /\ pos + 1 \in 0 .. size - 1
      BY <1>1, <1>5, <2>3
    <3>2. QED
      BY <1>2, <1>5, <3>1, Division
  <2>5. Now' = w /\ pos2' = pos2 /\ fresh' = fresh
    BY <1>1, <1>2, <1>4, <2>2, <2>4
  <2>6. QED
    BY <1>1, <1>2, <1>5, <2>3, <2>4, <2>5 DEF w
<1>7. CASE r = c - 1
  <2>1. pos + 1 = c * (w + 1) + 0
    BY <1>1, <1>7
  <2>2. (pos + 1) % c = 0 /\ (pos + 1) \div c = w + 1
    <3>1. w + 1 \in Int /\ 0 \in 0 .. c - 1
      BY <1>1
    <3>2. QED
      BY <1>1, <2>1, <3>1, Division
  <2>3. CASE w = NumSampleFrames - 1
    <3>1. pos + 1 = size * 1 + 0
      BY <1>1, <2>1, <2>3 DEF size
    <3>2. pos' = 0
      BY <1>2, <1>5, <3>1, Division
    <3>3. Now' = 0
      <4>1. 0 = c * 0 + 0 /\ 0 \in 0 .. c - 1
        BY <1>1
      <4>2. QED
        BY <1>1, <1>2, <3>2, <4>1, Division
    <3>4. pos2' = 0
      <4>1. pos2 + 2 = (2 * NumSampleFrames) * 1 + 0
        BY <1>1, <1>2, <2>3
      <4>2. QED
        BY <1>1, <1>3, <2>2, <4>1, Division
    <3>5. QED
      BY <1>1, <1>2, <1>3, <1>5, <2>2, <2>3, <3>2, <3>3, <3>4 DEF w
  <2>4. CASE w < NumSampleFrames - 1
    <3>1. pos + 1 < size
      <4>1. w + 2 <= NumSampleFrames
        BY <1>1, <2>4
      <4>2. c * (w + 2) <= c * NumSampleFrames
        BY <1>1, <4>1
      <4>3. QED
        BY <1>1, <2>1, <4>2 DEF size
    <3>2. pos' = pos + 1
      <4>1. pos + 1 = size * 0 + (pos + 1) /\ pos + 1 \in 0 .. size - 1
        BY <1>1, <1>5, <3>1
      <4>2. QED
        BY <1>2, <1>5, <4>1, Division
    <3>3. Now' = w + 1
      BY <1>2, <2>2, <3>2
    <3>4. pos2' = pos2 + 2
      <4>1. /\ pos2 + 2 = (2 * NumSampleFrames) * 0 + (pos2 + 2)
            /\ pos2 + 2 \in 0 .. 2 * NumSampleFrames - 1
        BY <1>1, <1>2, <2>4
      <4>2. QED
        BY <1>1, <1>3, <2>2, <4>1, Division
    <3>5. QED
      BY <1>1, <1>2, <1>3, <1>5, <2>2, <2>4, <3>1, <3>2, <3>3, <3>4 DEF w
  <2>5. QED
    BY <1>1, <2>3, <2>4
<1>8. QED
  BY <1>1, <1>6, <1>7

\* A whole number of frames is cleared in either ring.
LEMMA ErasedAlike ==
    ASSUME TypeOK, NEW first \in Frames, NEW num \in Nat,
           first + num <= NumSampleFrames
    PROVE  SpdifErased(first, num) =
               {d \in 0 .. BufferSizeRec - 1 : d \div 2 \in first .. first + num - 1}
<1> DEFINE skip == channels - 2 + 1
           steps == (num * channels + skip) \div (skip + 1)
<1>1. channels \in Nat \ {0} /\ NumSampleFrames \in Nat \ {0}
  BY Places
<1>2. skip + 1 = channels /\ skip \in 0 .. channels - 1
  BY <1>1
<1>3. num * channels + skip = channels * num + skip
  BY <1>1
<1>4. steps = num
  BY <1>1, <1>2, <1>3, Division
<1>5. SpdifErased(first, num) = 2 * first .. 2 * first + 2 * num - 1
  BY <1>4 DEF SpdifErased
<1>6. QED
  BY <1>1, <1>5 DEF BufferSizeRec, Frames

-----------------------------------------------------------------------------
(* The steps *)

LEMMA InitHolds == Init => SamplesInv
<1> SUFFICES ASSUME Init PROVE SamplesInv
  OBVIOUS
<1>1. /\ NumSampleFrames \in Nat \ {0} /\ EraseEvery \in 1 .. NumSampleFrames - 1
      /\ channels \in NumChannels /\ channels \in Nat \ {0} /\ Scale \in Nat \ {0}
  BY ConstantsAssumption DEF ConstantsAssumption, Init
<1>2. /\ BufferSize \in Nat \ {0} /\ BufferSizeRec = 2 * NumSampleFrames
  BY <1>1, LengthsFit
<1>3. TypeOK
  <2>1. 0 \in Frames /\ 0 \in -Scale .. Scale - 1
    BY <1>1 DEF Frames
  <2>2. running \in BOOLEAN /\ out \in [Frames -> -Scale .. Scale - 1]
    BY <2>1 DEF Init
  <2>3. length.play = 1 /\ length.rec = 1
    BY DEF Init
  <2>4. QED
    BY <1>1, <1>2, <2>1, <2>2, <2>3 DEF Init, TypeOK
<1>4. Now = 0 /\ Ahead(Now) = 0
  <2>1. 0 = channels * 0 + 0 /\ 0 \in 0 .. channels - 1 /\ 0 \in Frames
    BY <1>1 DEF Frames
  <2>2. Now = 0
    BY <1>1, <2>1, Division DEF Init, Now, GetCurrentSampleFrame
  <2>3. QED
    BY <1>3, <2>1, <2>2, AheadIs DEF Init
<1>5. LengthsOK
  BY <1>4 DEF Init, LengthsOK, RingsLoopTogether, Now, GetCurrentSampleFrame
<1>6. EraserOK
  BY <1>1, <1>4 DEF Init, EraserOK
<1>7. SilenceOK /\ FreshOK
  BY DEF Init, SilenceOK, FreshOK
<1>8. SpdifErasedAlike
  BY DEF Init, SpdifErasedAlike
<1>9. QED
  BY <1>3, <1>5, <1>6, <1>7, <1>8 DEF SamplesInv

LEMMA StartHolds ==
    ASSUME SamplesInv, Start
    PROVE  SamplesInv'
<1>1. TypeOK /\ SpdifErasedAlike
  BY DEF SamplesInv
<1>2. /\ NumSampleFrames \in Nat \ {0} /\ EraseEvery \in 1 .. NumSampleFrames - 1
      /\ channels \in NumChannels /\ channels \in Nat \ {0} /\ Scale \in Nat \ {0}
  BY <1>1, ConstantsAssumption DEF ConstantsAssumption, TypeOK
<1>3. /\ PlaybackLength = BufferSize /\ RecLength = BufferSizeRec
      /\ BufferSize \in Nat \ {0} /\ BufferSizeRec = 2 * NumSampleFrames
  BY <1>2, LengthsFit
<1>4. /\ BufferSize' = BufferSize /\ BufferSizeRec' = BufferSizeRec /\ Frames' = Frames
  BY DEF Start, BufferSize, BufferSizeRec, Frames
<1>5. TypeOK'
  BY <1>1, <1>2, <1>3, <1>4 DEF Start, TypeOK, Frames
<1>6. Now' = 0 /\ Ahead(Now)' = 0
  <2>1. 0 = channels * 0 + 0 /\ 0 \in 0 .. channels - 1
    BY <1>2
  <2>2. 0 = NumSampleFrames * 0 + 0 /\ 0 \in 0 .. NumSampleFrames - 1
    BY <1>2
  <2>3. Now' = 0
    BY <1>2, <2>1, Division DEF Start, Now, GetCurrentSampleFrame
  <2>4. 0 % NumSampleFrames = 0
    BY <1>2, <2>2, Division
  <2>5. QED
    BY <2>3, <2>4 DEF Start, Ahead
<1>7. LengthsOK'
  BY <1>3, <1>4, <1>6 DEF Start, LengthsOK, RingsLoopTogether, Now,
     GetCurrentSampleFrame
<1>8. EraserOK'
  BY <1>2, <1>6 DEF Start, EraserOK
<1>9. SilenceOK' /\ FreshOK' /\ SpdifErasedAlike'
  BY <1>1, <1>4 DEF Start, SilenceOK, FreshOK, SpdifErasedAlike
<1>10. QED
  BY <1>5, <1>7, <1>8, <1>9 DEF SamplesInv

LEMMA PlayHolds ==
    ASSUME SamplesInv, Play
    PROVE  SamplesInv'
<1>1. TypeOK /\ LengthsOK /\ EraserOK /\ SilenceOK /\ FreshOK /\ SpdifErasedAlike
  BY DEF SamplesInv
<1>2. /\ channels' = channels /\ running' = running /\ length' = length
      /\ tone' = tone /\ out' = out /\ erased' = erased /\ pc' = pc
      /\ current' = current /\ cleared' = cleared
      /\ BufferSize' = BufferSize /\ BufferSizeRec' = BufferSizeRec
  BY DEF Play, erase, BufferSize, BufferSizeRec
<1>3. running /\ length = [play |-> BufferSize, rec |-> BufferSizeRec]
  BY <1>1 DEF Play, LengthsOK
<1>4. /\ pos' \in 0 .. BufferSize - 1 /\ pos2' \in 0 .. BufferSizeRec - 1
      /\ pos2' = 2 * Now'
      /\ \/ Now' = Now /\ fresh' = fresh
         \/ /\ Ahead(Now) < EraseEvery
            /\ Now' = IF Now = NumSampleFrames - 1 THEN 0 ELSE Now + 1
            /\ fresh' = fresh \ {Now}
  BY <1>1, PlayMoves
<1>5. fresh' \subseteq fresh
  BY <1>4
<1>6. TypeOK'
  BY <1>1, <1>2, <1>4, <1>5 DEF TypeOK
<1>7. LengthsOK' /\ SpdifErasedAlike'
  BY <1>1, <1>2, <1>3, <1>4 DEF LengthsOK, RingsLoopTogether, Now,
     GetCurrentSampleFrame, SpdifErasedAlike
<1>8. /\ NumSampleFrames \in Nat \ {0} /\ EraseEvery \in 1 .. NumSampleFrames - 1
      /\ Now \in Frames /\ Now' \in Frames /\ erased \in Frames /\ current \in Frames
      /\ Frames = 0 .. NumSampleFrames - 1 /\ fresh \subseteq Frames
  <2>1. /\ NumSampleFrames \in Nat \ {0} /\ EraseEvery \in 1 .. NumSampleFrames - 1
        /\ Now \in 0 .. NumSampleFrames - 1
    BY <1>1, Places
  <2>2. Now' \in 0 .. NumSampleFrames - 1
    BY <1>4, <2>1
  <2>3. QED
    BY <1>1, <2>1, <2>2 DEF Frames, TypeOK
<1> DEFINE dist(f) == IF f >= erased THEN f - erased
                      ELSE f - erased + NumSampleFrames
<1>9. \A f \in Frames : Ahead(f) = dist(f) /\ Ahead(f)' = dist(f)
  BY <1>1, <1>2, AheadIs DEF Ahead
<1>10. Ahead(Now)' = dist(Now')
  BY <1>2, <1>8, <1>9 DEF Ahead
<1>11. \/ Now' = Now /\ fresh' = fresh
       \/ /\ dist(Now) < EraseEvery /\ dist(Now') = dist(Now) + 1
          /\ fresh' = fresh \ {Now}
  <2> SUFFICES ASSUME Ahead(Now) < EraseEvery,
                      Now' = IF Now = NumSampleFrames - 1 THEN 0 ELSE Now + 1
               PROVE  dist(Now) < EraseEvery /\ dist(Now') = dist(Now) + 1
    BY <1>4
  <2>1. dist(Now) < EraseEvery
    BY <1>8, <1>9
  <2>2. CASE Now = NumSampleFrames - 1
    <3>1. Now' = 0 /\ dist(Now) = NumSampleFrames - 1 - erased /\ erased > 0
      BY <1>8, <2>1, <2>2
    <3>2. QED
      BY <1>8, <2>1, <3>1
  <2>3. CASE Now # NumSampleFrames - 1
    <3>1. Now' = Now + 1 /\ Now' # erased
      BY <1>8, <2>1, <2>3
    <3>2. QED
      BY <1>8, <2>1, <3>1
  <2>4. QED
    BY <2>1, <2>2, <2>3
<1>12. \A f \in Frames : dist(f) = dist(Now) => f = Now
  BY <1>8
<1>13. dist(Now) \in Nat /\ \A f \in Frames : dist(f) \in Nat
  BY <1>8
<1> HIDE DEF dist
<1>14. EraserOK'
  <2>1. Ahead(Now) = dist(Now) /\ Ahead(current) = dist(current)
          /\ Ahead(current)' = dist(current)
    BY <1>2, <1>8, <1>9 DEF Ahead
  <2>2. dist(Now) <= dist(Now') /\ dist(Now') <= EraseEvery
    BY <1>1, <1>8, <1>11, <1>13, <2>1 DEF EraserOK
  <2>3. pc # "idle" => dist(current) <= dist(Now')
    BY <1>1, <1>8, <1>13, <2>1, <2>2 DEF EraserOK
  <2>4. QED
    BY <1>1, <1>2, <1>10, <2>1, <2>2, <2>3 DEF EraserOK
<1>15. SilenceOK'
  <2> SUFFICES ASSUME NEW f \in Frames, f \notin fresh', out[f] # 0
               PROVE  Ahead(f)' < Ahead(Now)'
    BY <1>2 DEF SilenceOK
  <2>1. CASE f \in fresh
    BY <1>8, <1>9, <1>10, <1>11, <1>13, <2>1
  <2>2. CASE f \notin fresh
    <3>1. dist(f) < dist(Now)
      BY <1>1, <1>8, <1>9, <2>2 DEF SilenceOK
    <3>2. QED
      BY <1>8, <1>9, <1>10, <1>11, <1>13, <3>1
  <2>3. QED
    BY <2>1, <2>2
<1>16. FreshOK'
  <2> SUFFICES ASSUME NEW f \in fresh'
               PROVE  Ahead(f)' >= Ahead(Now)' /\ out[f] = Float32ToSInt32(tone)
    BY <1>2 DEF FreshOK
  <2>1. f \in fresh /\ f \in Frames /\ dist(f) >= dist(Now)
          /\ out[f] = Float32ToSInt32(tone)
    BY <1>1, <1>5, <1>8, <1>9 DEF FreshOK
  <2>2. Ahead(f)' = dist(f)
    BY <1>9, <2>1
  <2>3. dist(f) >= dist(Now')
    BY <1>8, <1>11, <1>12, <1>13, <2>1
  <2>4. QED
    BY <1>10, <2>1, <2>2, <2>3
<1>17. QED
  BY <1>6, <1>7, <1>14, <1>15, <1>16 DEF SamplesInv

LEMMA StopHolds ==
    ASSUME SamplesInv, Stop
    PROVE  SamplesInv'
<1>1. TypeOK /\ LengthsOK /\ EraserOK /\ SilenceOK /\ FreshOK /\ SpdifErasedAlike
  BY DEF SamplesInv
<1>2. /\ channels' = channels /\ length' = length /\ pos' = pos /\ pos2' = pos2
      /\ tone' = tone /\ out' = out /\ fresh' = fresh /\ erased' = erased
      /\ pc' = pc /\ current' = current /\ cleared' = cleared
      /\ running /\ running' = FALSE /\ pc = "idle"
  BY DEF Stop, chip, erase
<1>3. Now' = Now /\ \A f : Ahead(f)' = Ahead(f)
  BY <1>2 DEF Now, GetCurrentSampleFrame, Ahead
<1>4. TypeOK'
  BY <1>1, <1>2 DEF TypeOK, BufferSize, BufferSizeRec
<1>5. LengthsOK' /\ SpdifErasedAlike'
  BY <1>1, <1>2 DEF LengthsOK, RingsLoopTogether, BufferSize, BufferSizeRec,
     SpdifErasedAlike
<1>6. Ahead(Now)' = Ahead(Now)
  BY <1>2, <1>3 DEF Ahead
<1>7. EraserOK'
  BY <1>1, <1>2, <1>6 DEF EraserOK
<1>8. SilenceOK' /\ FreshOK'
  BY <1>1, <1>2, <1>3, <1>6 DEF SilenceOK, FreshOK
<1>9. QED
  BY <1>4, <1>5, <1>7, <1>8 DEF SamplesInv

\* A frame that a client may write lies ahead of the chip, this side of the
\* erase head.
LEMMA WrittenAhead ==
    ASSUME TypeOK, EraserOK, NEW f \in Frames,
           (f - Now) % NumSampleFrames <= NumSampleFrames - 1 - EraseEvery
    PROVE  Ahead(f) >= Ahead(Now)
<1>1. /\ NumSampleFrames \in Nat \ {0} /\ EraseEvery \in 1 .. NumSampleFrames - 1
      /\ Now \in 0 .. NumSampleFrames - 1 /\ erased \in 0 .. NumSampleFrames - 1
      /\ f \in 0 .. NumSampleFrames - 1
  BY Places DEF TypeOK, Frames
<1>2. Ahead(f) = IF f >= erased THEN f - erased ELSE f - erased + NumSampleFrames
  BY <1>1, AheadIs DEF Frames
<1>3. Ahead(Now) = IF Now >= erased THEN Now - erased
                   ELSE Now - erased + NumSampleFrames
  BY <1>1, AheadIs DEF Frames
<1>4. (f - Now) % NumSampleFrames = IF f >= Now THEN f - Now
                                    ELSE f - Now + NumSampleFrames
  BY <1>1, RingDistance
<1>5. Ahead(Now) <= EraseEvery
  BY DEF EraserOK
<1>6. QED
  BY <1>1, <1>2, <1>3, <1>4, <1>5

LEMMA ClipOutputSamplesHolds ==
    ASSUME SamplesInv, ClipOutputSamples
    PROVE  SamplesInv'
<1>1. TypeOK /\ LengthsOK /\ EraserOK /\ SilenceOK /\ FreshOK /\ SpdifErasedAlike
  BY DEF SamplesInv
<1>2. /\ channels' = channels /\ running' = running /\ length' = length
      /\ pos' = pos /\ pos2' = pos2 /\ tone' = tone /\ erased' = erased
      /\ pc' = pc /\ current' = current /\ cleared' = cleared
  BY DEF ClipOutputSamples, chip, erase
<1>3. PICK first \in Frames : \E num \in 1 .. NumSampleFrames - first :
          LET written == first .. first + num - 1
          IN  /\ \A f \in written :
                    (f - pos \div channels) % NumSampleFrames
                        \in SampleOffset .. NumSampleFrames - 1 - EraseEvery
              /\ out' = [f \in Frames |->
                            IF f \in written THEN Float32ToSInt32(tone) ELSE out[f]]
              /\ fresh' = fresh \cup written
  BY DEF ClipOutputSamples
<1>4. PICK num \in 1 .. NumSampleFrames - first :
          LET written == first .. first + num - 1
          IN  /\ \A f \in written :
                    (f - pos \div channels) % NumSampleFrames
                        \in SampleOffset .. NumSampleFrames - 1 - EraseEvery
              /\ out' = [f \in Frames |->
                            IF f \in written THEN Float32ToSInt32(tone) ELSE out[f]]
              /\ fresh' = fresh \cup written
  BY <1>3
<1> DEFINE written == first .. first + num - 1
<1>5. /\ \A f \in written :
             (f - Now) % NumSampleFrames
                 \in SampleOffset .. NumSampleFrames - 1 - EraseEvery
      /\ out' = [f \in Frames |->
                    IF f \in written THEN Float32ToSInt32(tone) ELSE out[f]]
      /\ fresh' = fresh \cup written
  BY <1>4 DEF Now, GetCurrentSampleFrame
<1>6. written \subseteq Frames
  BY <1>1, Places DEF Frames
<1> HIDE DEF written
<1>7. Now' = Now /\ Ahead(Now)' = Ahead(Now) /\ \A f : Ahead(f)' = Ahead(f)
  BY <1>2 DEF Now, GetCurrentSampleFrame, Ahead
<1>8. \A f \in written : Ahead(f) >= Ahead(Now)
  <2> SUFFICES ASSUME NEW f \in written
               PROVE  Ahead(f) >= Ahead(Now)
    OBVIOUS
  <2>1. /\ NumSampleFrames \in Nat \ {0} /\ EraseEvery \in 1 .. NumSampleFrames - 1
        /\ SampleOffset \in Nat /\ f \in Frames
    BY <1>6, ConstantsAssumption DEF ConstantsAssumption
  <2>2. (f - Now) % NumSampleFrames <= NumSampleFrames - 1 - EraseEvery
    BY <1>5, <2>1
  <2>3. QED
    BY <1>1, <2>1, <2>2, WrittenAhead
<1>9. Float32ToSInt32(tone) \in -Scale .. Scale - 1
  BY <1>1, ConversionInRange, ConstantsAssumption DEF ConstantsAssumption, TypeOK
<1>10. TypeOK'
  <2>1. out' \in [Frames -> -Scale .. Scale - 1] /\ fresh' \subseteq Frames
    BY <1>1, <1>5, <1>6, <1>9 DEF TypeOK
  <2>2. Frames' = Frames /\ BufferSize' = BufferSize /\ BufferSizeRec' = BufferSizeRec
    BY <1>2 DEF Frames, BufferSize, BufferSizeRec
  <2>3. QED
    BY <1>1, <1>2, <2>1, <2>2 DEF TypeOK
<1>11. LengthsOK' /\ SpdifErasedAlike'
  BY <1>1, <1>2 DEF LengthsOK, RingsLoopTogether, BufferSize, BufferSizeRec,
     SpdifErasedAlike
<1>12. EraserOK'
  BY <1>1, <1>2, <1>7 DEF EraserOK, Ahead
<1>13. SilenceOK'
  BY <1>1, <1>5, <1>7 DEF SilenceOK, Frames
<1>14. FreshOK'
  BY <1>1, <1>2, <1>5, <1>6, <1>7, <1>8 DEF FreshOK, TypeOK
<1>15. QED
  BY <1>10, <1>11, <1>12, <1>13, <1>14 DEF SamplesInv

LEMMA ReadPositionHolds ==
    ASSUME SamplesInv, ReadPosition
    PROVE  SamplesInv'
<1>1. TypeOK /\ LengthsOK /\ EraserOK /\ SilenceOK /\ FreshOK /\ SpdifErasedAlike
  BY DEF SamplesInv
<1>2. /\ channels' = channels /\ running' = running /\ length' = length
      /\ pos' = pos /\ pos2' = pos2 /\ tone' = tone /\ out' = out
      /\ fresh' = fresh /\ erased' = erased /\ cleared' = cleared
      /\ running /\ current' = Now
      /\ pc' = IF current' < erased THEN "toEnd" ELSE "upTo"
  BY DEF ReadPosition, chip, Now
<1>3. Now' = Now /\ Ahead(Now)' = Ahead(Now) /\ \A f : Ahead(f)' = Ahead(f)
  BY <1>2 DEF Now, GetCurrentSampleFrame, Ahead
<1>4. Now \in Frames /\ Frames \subseteq Nat
  BY <1>1, Places DEF Frames
<1>5. TypeOK'
  BY <1>1, <1>2, <1>4 DEF TypeOK, BufferSize, BufferSizeRec
<1>6. LengthsOK' /\ SpdifErasedAlike'
  BY <1>1, <1>2 DEF LengthsOK, RingsLoopTogether, BufferSize, BufferSizeRec,
     SpdifErasedAlike
<1>7. EraserOK'
  <2>1. Ahead(current)' = Ahead(Now) /\ Ahead(Now) \in Int
    BY <1>1, <1>2, <1>4, AheadIs, Places DEF Ahead, TypeOK, Frames
  <2>2. pc' = "toEnd" => current' < erased'
    BY <1>2
  <2>3. pc' = "upTo" => erased' <= current'
    BY <1>1, <1>2, <1>4 DEF TypeOK
  <2>4. QED
    BY <1>1, <1>2, <1>3, <2>1, <2>2, <2>3 DEF EraserOK
<1>8. SilenceOK' /\ FreshOK'
  BY <1>1, <1>2, <1>3 DEF SilenceOK, FreshOK
<1>9. QED
  BY <1>5, <1>6, <1>7, <1>8 DEF SamplesInv

\* The erase head moves on to a frame that is not ahead of the chip, over
\* frames that are silent then.
LEMMA EraseHolds ==
    ASSUME SamplesInv, NEW first \in Frames, NEW num \in Nat,
           first + num <= NumSampleFrames, EraseOutputSamples(first, num),
           running, erased = first,
           erased' = IF first + num = NumSampleFrames THEN 0 ELSE first + num,
           num <= Ahead(Now), num < NumSampleFrames,
           UNCHANGED <<channels, running, chip, tone, fresh, current>>
    PROVE  /\ Ahead(Now)' = Ahead(Now) - num
           /\ SilenceOK' /\ FreshOK' /\ SpdifErasedAlike'
           /\ LengthsOK' /\ out' \in [Frames -> -Scale .. Scale - 1]
           /\ erased' \in Frames
<1>1. TypeOK /\ LengthsOK /\ EraserOK /\ SilenceOK /\ FreshOK /\ SpdifErasedAlike
  BY DEF SamplesInv
<1>2. /\ channels' = channels /\ running' = running /\ length' = length
      /\ pos' = pos /\ pos2' = pos2 /\ tone' = tone /\ fresh' = fresh
      /\ current' = current /\ Now' = Now
  BY DEF chip, Now, GetCurrentSampleFrame
<1> DEFINE frames == first .. first + num - 1
<1>3. /\ cleared' = [out |-> frames, spdif |-> SpdifErased(first, num)]
      /\ out' = [f \in Frames |-> IF f \in frames THEN 0 ELSE out[f]]
  BY DEF EraseOutputSamples
<1>4. /\ NumSampleFrames \in Nat \ {0} /\ Now \in 0 .. NumSampleFrames - 1
      /\ Now \in Frames /\ Frames = 0 .. NumSampleFrames - 1 /\ Scale \in Nat \ {0}
  BY <1>1, Places, ConstantsAssumption DEF ConstantsAssumption, Frames
<1>5. erased' \in Frames
  BY <1>4
<1>6. \A f \in Frames : Ahead(f) = IF f >= erased THEN f - erased
                                    ELSE f - erased + NumSampleFrames
  BY <1>1, AheadIs
<1>7. \A f \in Frames : Ahead(f)' = IF f >= erased' THEN f - erased'
                                    ELSE f - erased' + NumSampleFrames
  BY <1>4, <1>5, RingDistance DEF Ahead
<1>8. Ahead(Now)' = IF Now >= erased' THEN Now - erased'
                    ELSE Now - erased' + NumSampleFrames
  BY <1>2, <1>4, <1>5, RingDistance DEF Ahead
<1>9. \A f \in Frames :
          IF f \in frames THEN Ahead(f) < num ELSE Ahead(f)' = Ahead(f) - num
  <2> SUFFICES ASSUME NEW f \in Frames
               PROVE  IF f \in frames THEN Ahead(f) < num
                      ELSE Ahead(f)' = Ahead(f) - num
    OBVIOUS
  <2>1. /\ Ahead(f) = IF f >= first THEN f - first
                      ELSE f - first + NumSampleFrames
        /\ Ahead(f)' = IF f >= erased' THEN f - erased'
                       ELSE f - erased' + NumSampleFrames
    BY <1>6, <1>7
  <2>2. CASE first + num = NumSampleFrames
    <3>1. erased' = 0
      BY <2>2
    <3>2. QED
      BY <1>4, <2>1, <2>2, <3>1
  <2>3. CASE first + num < NumSampleFrames
    <3>1. erased' = first + num
      BY <1>4, <2>3
    <3>2. QED
      BY <1>4, <2>1, <2>3, <3>1
  <2>4. QED
    BY <1>4, <2>2, <2>3
<1>10. Ahead(Now)' = Ahead(Now) - num
  <2>1. Ahead(Now) = IF Now >= first THEN Now - first
                     ELSE Now - first + NumSampleFrames
    BY <1>4, <1>6
  <2>2. CASE first + num = NumSampleFrames
    <3>1. erased' = 0
      BY <2>2
    <3>2. QED
      BY <1>4, <1>8, <2>1, <2>2, <3>1
  <2>3. CASE first + num < NumSampleFrames
    <3>1. erased' = first + num
      BY <1>4, <2>3
    <3>2. QED
      BY <1>4, <1>8, <2>1, <2>3, <3>1
  <2>4. QED
    BY <1>4, <2>2, <2>3
<1>11. \A f \in Frames : Ahead(f) \in Int
  BY <1>4, <1>6
<1>12. SilenceOK'
  <2> SUFFICES ASSUME NEW f \in Frames, f \notin fresh, out'[f] # 0
               PROVE  Ahead(f)' < Ahead(Now)'
    BY <1>2, <1>4 DEF SilenceOK, Frames
  <2>1. f \notin frames /\ out[f] # 0
    BY <1>3
  <2>2. Ahead(f) < Ahead(Now)
    BY <1>1, <2>1 DEF SilenceOK
  <2> HIDE DEF frames
  <2>3. Ahead(f)' = Ahead(f) - num
    BY <1>9, <2>1
  <2>4. QED
    BY <1>4, <1>10, <1>11, <2>2, <2>3
<1>13. FreshOK'
  <2> SUFFICES ASSUME NEW f \in fresh
               PROVE  Ahead(f)' >= Ahead(Now)' /\ out'[f] = Float32ToSInt32(tone)
    BY <1>2 DEF FreshOK
  <2>1. f \in Frames /\ Ahead(f) >= Ahead(Now) /\ out[f] = Float32ToSInt32(tone)
    BY <1>1 DEF FreshOK, TypeOK
  <2> HIDE DEF frames
  <2>2. f \notin frames /\ Ahead(f)' = Ahead(f) - num
    BY <1>4, <1>9, <1>11, <2>1
  <2>3. QED
    BY <1>3, <1>4, <1>10, <1>11, <2>1, <2>2
<1>14. SpdifErasedAlike'
  BY <1>1, <1>2, <1>3, ErasedAlike DEF SpdifErasedAlike, BufferSizeRec
<1>15. LengthsOK'
  BY <1>1, <1>2 DEF LengthsOK, RingsLoopTogether, BufferSize, BufferSizeRec
<1>16. out' \in [Frames -> -Scale .. Scale - 1]
  <2>1. 0 \in -Scale .. Scale - 1
    BY <1>4
  <2>2. QED
    BY <1>1, <1>3, <2>1 DEF TypeOK
<1>17. QED
  BY <1>5, <1>10, <1>12, <1>13, <1>14, <1>15, <1>16

LEMMA EraseToEndHolds ==
    ASSUME SamplesInv, EraseToEnd
    PROVE  SamplesInv'
<1>1. TypeOK /\ EraserOK
  BY DEF SamplesInv
<1>2. /\ NumSampleFrames \in Nat \ {0} /\ Now \in Frames /\ erased \in Frames
      /\ current \in Frames /\ Frames = 0 .. NumSampleFrames - 1
      /\ EraseEvery \in 1 .. NumSampleFrames - 1
  BY <1>1, Places DEF TypeOK, Frames
<1> DEFINE num == NumSampleFrames - erased
<1>3. /\ running /\ current < erased /\ Ahead(current) <= Ahead(Now)
      /\ Ahead(Now) <= EraseEvery
  BY <1>1 DEF EraserOK, EraseToEnd
<1>4. Ahead(current) = current + num /\ Ahead(Now) \in Int
  BY <1>1, <1>2, <1>3, AheadIs
<1>5. num \in Nat /\ num <= Ahead(Now) /\ num < NumSampleFrames
  BY <1>2, <1>3, <1>4
<1>6. /\ EraseOutputSamples(erased, num) /\ erased' = 0 /\ pc' = "upTo"
      /\ UNCHANGED <<channels, running, chip, tone, fresh, current>>
  BY DEF EraseToEnd
<1>7. erased + num = NumSampleFrames
  BY <1>2
<1> HIDE DEF num
<1>8. /\ Ahead(Now)' = Ahead(Now) - num
      /\ SilenceOK' /\ FreshOK' /\ SpdifErasedAlike'
      /\ LengthsOK' /\ out' \in [Frames -> -Scale .. Scale - 1]
  BY <1>2, <1>3, <1>5, <1>6, <1>7, EraseHolds
<1>9. TypeOK'
  <2>1. erased' \in Frames' /\ Frames' = Frames
    BY <1>2, <1>6 DEF Frames
  <2>2. /\ channels' = channels /\ length' = length /\ pos' = pos /\ pos2' = pos2
        /\ BufferSize' = BufferSize /\ BufferSizeRec' = BufferSizeRec
        /\ running' = running /\ tone' = tone /\ fresh' = fresh /\ current' = current
    BY <1>6 DEF chip, BufferSize, BufferSizeRec
  <2>3. QED
    BY <1>1, <1>6, <1>8, <2>1, <2>2 DEF TypeOK
<1>10. EraserOK'
  <2>1. Ahead(current)' = current
    <3>1. current' = current /\ current = NumSampleFrames * 0 + current
            /\ current \in 0 .. NumSampleFrames - 1
      BY <1>2, <1>6
    <3>2. current % NumSampleFrames = current
      BY <1>2, <3>1, Division
    <3>3. QED
      BY <1>2, <1>6, <3>1, <3>2 DEF Ahead
  <2>2. current <= Ahead(Now)' /\ Ahead(Now)' <= EraseEvery /\ 0 <= current
    BY <1>2, <1>3, <1>4, <1>5, <1>8
  <2>3. QED
    BY <1>3, <1>6, <2>1, <2>2 DEF EraserOK
<1>11. QED
  BY <1>8, <1>9, <1>10 DEF SamplesInv

LEMMA EraseUpToHolds ==
    ASSUME SamplesInv, EraseUpTo
    PROVE  SamplesInv'
<1>1. TypeOK /\ EraserOK
  BY DEF SamplesInv
<1>2. /\ NumSampleFrames \in Nat \ {0} /\ Now \in Frames /\ erased \in Frames
      /\ current \in Frames /\ Frames = 0 .. NumSampleFrames - 1
      /\ EraseEvery \in 1 .. NumSampleFrames - 1
  BY <1>1, Places DEF TypeOK, Frames
<1> DEFINE num == current - erased
<1>3. /\ running /\ erased <= current /\ Ahead(current) <= Ahead(Now)
      /\ Ahead(Now) <= EraseEvery
  BY <1>1 DEF EraserOK, EraseUpTo
<1>4. Ahead(current) = num /\ Ahead(Now) \in Int
  BY <1>1, <1>2, <1>3, AheadIs
<1>5. num \in Nat /\ num <= Ahead(Now) /\ num < NumSampleFrames
  BY <1>2, <1>3, <1>4
<1>6. /\ EraseOutputSamples(erased, num) /\ erased' = current /\ pc' = "idle"
      /\ UNCHANGED <<channels, running, chip, tone, fresh, current>>
  BY DEF EraseUpTo
<1>7. erased + num = current /\ current < NumSampleFrames
  BY <1>2
<1> HIDE DEF num
<1>8. erased + num <= NumSampleFrames
        /\ erased' = IF erased + num = NumSampleFrames THEN 0 ELSE erased + num
  BY <1>2, <1>6, <1>7
<1>9. /\ Ahead(Now)' = Ahead(Now) - num
      /\ SilenceOK' /\ FreshOK' /\ SpdifErasedAlike'
      /\ LengthsOK' /\ out' \in [Frames -> -Scale .. Scale - 1]
  BY <1>2, <1>3, <1>5, <1>6, <1>8, EraseHolds
<1>10. TypeOK'
  BY <1>1, <1>2, <1>6, <1>9 DEF TypeOK, chip, Frames, BufferSize, BufferSizeRec
<1>11. EraserOK'
  <2>1. Ahead(Now)' <= EraseEvery
    BY <1>2, <1>3, <1>4, <1>5, <1>9
  <2>2. QED
    BY <1>6, <2>1 DEF EraserOK
<1>12. QED
  BY <1>9, <1>10, <1>11 DEF SamplesInv

LEMMA StepsHold == SamplesInv /\ [Next]_vars => SamplesInv'
<1> SUFFICES ASSUME SamplesInv, [Next]_vars
             PROVE  SamplesInv'
  OBVIOUS
<1>1. CASE Start
  BY <1>1, StartHolds
<1>2. CASE Stop
  BY <1>2, StopHolds
<1>3. CASE Play
  BY <1>3, PlayHolds
<1>4. CASE ClipOutputSamples
  BY <1>4, ClipOutputSamplesHolds
<1>5. CASE ReadPosition
  BY <1>5, ReadPositionHolds
<1>6. CASE EraseToEnd
  BY <1>6, EraseToEndHolds
<1>7. CASE EraseUpTo
  BY <1>7, EraseUpToHolds
<1>8. CASE UNCHANGED vars
  BY <1>8 DEF vars, chip, erase, SamplesInv, TypeOK, LengthsOK, EraserOK,
     SilenceOK, FreshOK, SpdifErasedAlike, RingsLoopTogether, Ahead, Now,
     GetCurrentSampleFrame, BufferSize, BufferSizeRec, Frames
<1>9. QED
  BY <1>1, <1>2, <1>3, <1>4, <1>5, <1>6, <1>7, <1>8 DEF Next

LEMMA InvHolds == Spec => []SamplesInv
BY InitHolds, StepsHold, PTL DEF Spec

-----------------------------------------------------------------------------
(* The theorems *)

\* The chip stays in its rings, getCurrentSampleFrame returns a frame there is,
\* and every sample written fits the ring.
THEOREM TypeCorrect == Spec => []TypeOK
<1>1. SamplesInv => TypeOK
  BY DEF SamplesInv
<1>2. QED
  BY <1>1, InvHolds, PTL

\* With the lengths performAudioEngineStart programs, the playback ring and the
\* rings of two channels stay at the same frame, whatever a card's channels are.
THEOREM RingsAlwaysLoopTogether == Spec => []RingsLoopTogether
<1>1. SamplesInv => RingsLoopTogether
  BY DEF SamplesInv, LengthsOK
<1>2. QED
  BY <1>1, InvHolds, PTL

\* eraseOutputSamples clears the same frames in the playback and the S/PDIF
\* ring.
THEOREM SpdifAlwaysErasedAlike == Spec => []SpdifErasedAlike
<1>1. SamplesInv => SpdifErasedAlike
  BY DEF SamplesInv
<1>2. QED
  BY <1>1, InvHolds, PTL

\* What a client wrote is in the ring, as the nearest value a codec can play,
\* until the chip has played it.
THEOREM UnplayedIsAlwaysKept == Spec => []UnplayedIsKept
<1>1. SamplesInv => UnplayedIsKept
  <2> SUFFICES ASSUME SamplesInv, NEW f \in fresh
               PROVE  Near(out[f], Clamped(tone))
    BY DEF UnplayedIsKept
  <2>1. out[f] = Float32ToSInt32(tone) /\ tone \in Inputs
    BY DEF SamplesInv, FreshOK, TypeOK
  <2>2. tone \in Int
    BY <2>1, ConstantsAssumption DEF ConstantsAssumption
  <2>3. QED
    BY <2>1, <2>2, ConversionIsNear
<1>2. QED
  BY <1>1, InvHolds, PTL

\* A frame that begins was written since it was last played, or is silent.
THEOREM NothingEverSoundsTwice == Spec => []NothingSoundsTwice
<1>1. SamplesInv => NothingSoundsTwice
  <2> SUFFICES ASSUME SamplesInv
               PROVE  Now \in fresh \/ out[Now] = 0
    BY DEF NothingSoundsTwice, Now, GetCurrentSampleFrame
  <2>1. Now \in Frames /\ Ahead(Now) \in Int
    <3>1. TypeOK
      BY DEF SamplesInv
    <3>2. /\ NumSampleFrames \in Nat /\ Now \in Frames
          /\ erased \in Frames /\ Frames \subseteq Int
      BY <3>1, Places DEF TypeOK, Frames
    <3>3. QED
      BY <3>1, <3>2, AheadIs
  <2>2. ~(Ahead(Now) < Ahead(Now))
    BY <2>1
  <2>3. QED
    BY <2>1, <2>2 DEF SamplesInv, SilenceOK
<1>2. QED
  BY <1>1, InvHolds, PTL
=============================================================================
