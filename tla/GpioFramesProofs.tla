-------------------------- MODULE GpioFramesProofs --------------------------
(***************************************************************************)
(* Lemmas about the frames of GpioFrames: of what accesses each consists,  *)
(* and how the bits of a word add up to it.                                *)
(***************************************************************************)
EXTENDS GpioFrames, SequenceTheorems, TLAPS

-----------------------------------------------------------------------------
(* Powers of two, which the provers know number by number *)

LEMMA Powers == \A i \in 0 .. 23 : 2^i \in Nat \ {0} /\ 2^(i + 1) = 2 * 2^i
<1> DEFINE P(i) == 2^i \in Nat \ {0} /\ 2^(i + 1) = 2 * 2^i
<1>1. P(0) /\ P(1) /\ P(2) /\ P(3)
  OBVIOUS
<1>2. P(4) /\ P(5) /\ P(6) /\ P(7)
  OBVIOUS
<1>3. P(8) /\ P(9) /\ P(10) /\ P(11)
  OBVIOUS
<1>4. P(12) /\ P(13) /\ P(14) /\ P(15)
  OBVIOUS
<1>5. P(16) /\ P(17) /\ P(18) /\ P(19)
  OBVIOUS
<1>6. P(20) /\ P(21) /\ P(22) /\ P(23)
  OBVIOUS
<1>7. TAKE i \in 0 .. 23
<1>8. \/ i = 0 \/ i = 1 \/ i = 2 \/ i = 3 \/ i = 4 \/ i = 5
      \/ i = 6 \/ i = 7 \/ i = 8 \/ i = 9 \/ i = 10 \/ i = 11
      \/ i = 12 \/ i = 13 \/ i = 14 \/ i = 15 \/ i = 16 \/ i = 17
      \/ i = 18 \/ i = 19 \/ i = 20 \/ i = 21 \/ i = 22 \/ i = 23
  OBVIOUS
<1>9. QED
  BY <1>8, <1>1, <1>2, <1>3, <1>4, <1>5, <1>6

\* A quotient by m is twice the quotient by 2m, and the bit between.
LEMMA Halves ==
    ASSUME NEW m \in Nat \ {0}, NEW x \in Nat
    PROVE  /\ x \div m \in Nat
           /\ x \div m = 2 * (x \div (2 * m)) + ((x \div m) % 2)
<1> DEFINE q == x \div m
           r == x % m
           h == q \div 2
           b == q % 2
<1>1. x = m * q + r /\ q \in Nat /\ r \in 0 .. m - 1
  BY SMTT(30)
<1>2. q = 2 * h + b /\ h \in Nat /\ b \in 0 .. 1
  BY <1>1
<1> HIDE DEF q, r, h, b
<1>3. x = (2 * m) * h + (m * b + r)
  BY <1>1, <1>2, SMTT(30)
<1>4. m * b + r \in 0 .. 2 * m - 1
  <2>1. CASE b = 0
    BY <2>1, <1>1
  <2>2. CASE b = 1
    BY <2>2, <1>1
  <2>3. QED
    BY <1>2, <2>1, <2>2
<1>5. x \div (2 * m) = h
  <2> DEFINE c == 2 * m
             s == m * b + r
  <2>1. c \in Nat \ {0} /\ s \in 0 .. c - 1 /\ x = c * h + s
    BY <1>3, <1>4
  <2> HIDE DEF c, s
  <2>2. x \div c = h
    BY <2>1, <1>2, SMTT(30)
  <2>3. QED
    BY <2>2 DEF c
<1>6. QED
  BY <1>1, <1>2, <1>5 DEF q, b

-----------------------------------------------------------------------------
(* Frames are sequences of accesses *)

Accesses ==
    [op : {"data", "mask", "lines", "save", "restore"}, out : SUBSET Pins,
     masked : SUBSET Pins, up : SUBSET Pins, down : SUBSET Pins]

\* The accesses that frames consist of.
LEMMA AccessTypes ==
    ASSUME NEW up \in SUBSET Pins, NEW down \in SUBSET Pins,
           NEW out \in SUBSET Pins, NEW keep \in SUBSET Pins
    PROVE  /\ Set(up, down) \in Accesses
           /\ Mask(keep, up, down) \in Accesses
           /\ Lines(out, keep, up, down) \in Accesses
           /\ SaveGPIO \in Accesses /\ RestoreGPIO \in Accesses
           /\ AllBut(up) \in SUBSET Pins
<1>1. \A op \in {"data", "mask", "lines", "save", "restore"} :
         \A o, m, u, d \in SUBSET Pins : Access(op, o, m, u, d) \in Accesses
  BY DEF Access, Accesses
<1>2. {} \in SUBSET Pins
  OBVIOUS
<1>3. /\ Set(up, down) \in Accesses /\ Mask(keep, up, down) \in Accesses
      /\ Lines(out, keep, up, down) \in Accesses
  BY <1>1, <1>2 DEF Set, Mask, Lines
<1>4. SaveGPIO \in Accesses /\ RestoreGPIO \in Accesses
  BY <1>1, <1>2 DEF SaveGPIO, RestoreGPIO
<1>5. AllBut(up) \in SUBSET Pins
  BY DEF AllBut, Pins
<1>6. QED
  BY <1>3, <1>4, <1>5

\* A function on 1 .. n is a sequence of n.
LEMMA Listed ==
    ASSUME NEW S, NEW n \in Nat, NEW f \in [1 .. n -> S]
    PROVE  f \in Seq(S) /\ Len(f) = n
<1>1. f \in Seq(S)
  BY SeqDef
<1>2. QED
  BY <1>1, LenProperties

\* What stands where in two sequences one after the other.
LEMMA Joined ==
    ASSUME NEW S, NEW a \in Seq(S), NEW b \in Seq(S), NEW F, F = a \o b
    PROVE  /\ F \in Seq(S) /\ Len(F) = Len(a) + Len(b)
           /\ \A i \in 1 .. Len(a) : F[i] = a[i]
           /\ \A i \in 1 .. Len(b) : F[Len(a) + i] = b[i]
<1>1. Len(a) \in Nat /\ Len(b) \in Nat
  BY LenProperties
<1>2. /\ F \in Seq(S) /\ Len(F) = Len(a) + Len(b)
      /\ \A i \in 1 .. Len(a) + Len(b) :
            F[i] = IF i <= Len(a) THEN a[i] ELSE b[i - Len(a)]
  BY ConcatProperties
<1>3. \A i \in 1 .. Len(b) : F[Len(a) + i] = b[i]
  <2> TAKE i \in 1 .. Len(b)
  <2>1. /\ Len(a) + i \in 1 .. Len(a) + Len(b) /\ ~(Len(a) + i <= Len(a))
        /\ (Len(a) + i) - Len(a) = i
    BY <1>1
  <2>2. QED
    BY <1>2, <2>1
<1>4. QED
  BY <1>1, <1>2, <1>3

\* In three.
LEMMA Between ==
    ASSUME NEW S, NEW a \in Seq(S), NEW b \in Seq(S), NEW c \in Seq(S),
           NEW F, F = a \o b \o c
    PROVE  /\ F \in Seq(S) /\ Len(F) = Len(a) + Len(b) + Len(c)
           /\ \A i \in 1 .. Len(a) : F[i] = a[i]
           /\ \A i \in 1 .. Len(b) : F[Len(a) + i] = b[i]
           /\ \A i \in 1 .. Len(c) : F[Len(a) + Len(b) + i] = c[i]
<1>1. Len(a) \in Nat /\ Len(b) \in Nat /\ Len(c) \in Nat
  BY LenProperties
<1>2. PICK ab : ab = a \o b
  OBVIOUS
<1>3. /\ ab \in Seq(S) /\ Len(ab) = Len(a) + Len(b)
      /\ \A i \in 1 .. Len(a) : ab[i] = a[i]
      /\ \A i \in 1 .. Len(b) : ab[Len(a) + i] = b[i]
  BY <1>2, Joined
<1>4. ab \in Seq(S) /\ F = ab \o c
  BY <1>2, <1>3
<1>5. /\ F \in Seq(S) /\ Len(F) = Len(ab) + Len(c)
      /\ \A i \in 1 .. Len(ab) : F[i] = ab[i]
      /\ \A i \in 1 .. Len(c) : F[Len(ab) + i] = c[i]
  BY <1>4, Joined
<1>6. \A i \in 1 .. Len(a) : F[i] = a[i]
  BY <1>1, <1>3, <1>5
<1>7. \A i \in 1 .. Len(b) : F[Len(a) + i] = b[i]
  BY <1>1, <1>3, <1>5
<1>8. QED
  BY <1>1, <1>3, <1>5, <1>6, <1>7

\* The clock and data pins of a serial port, and its width.
Port(c) == c.clk \in Pins /\ c.data \in Pins /\ c.cs \in Pins /\ c.width \in {16, 24}

\* Three accesses a bit.
LEMMA BitsListed ==
    ASSUME NEW c, Port(c), NEW word \in Nat
    PROVE  Bits(c, word) \in Seq(Accesses) /\ Len(Bits(c, word)) = 3 * c.width
<1> DEFINE N == 3 * c.width
           access(k) == CASE k % 3 = 1 -> Set({}, {c.clk})
                          [] k % 3 = 2 -> IF BitSet(word, c.width - 1 - ((k - 1) \div 3))
                                          THEN Set({c.data}, {}) ELSE Set({}, {c.data})
                          [] k % 3 = 0 -> Set({c.clk}, {})
<1>1. N \in Nat
  BY DEF Port
<1>2. /\ Set({}, {c.clk}) \in Accesses /\ Set({c.clk}, {}) \in Accesses
      /\ Set({}, {c.data}) \in Accesses /\ Set({c.data}, {}) \in Accesses
  BY AccessTypes DEF Port
<1>3. \A k \in 1 .. N : access(k) \in Accesses
  <2> TAKE k \in 1 .. N
  <2>1. k % 3 = 0 \/ k % 3 = 1 \/ k % 3 = 2
    BY <1>1
  <2>2. QED
    BY <1>2, <2>1
<1>4. Bits(c, word) = [k \in 1 .. N |-> access(k)]
  BY DEF Bits
<1> HIDE DEF N, access
<1>5. Bits(c, word) \in [1 .. N -> Accesses]
  BY <1>3, <1>4
<1>6. QED
  BY <1>1, <1>5, Listed DEF N

\* The three accesses of every bit.
LEMMA BitEntries ==
    ASSUME NEW c, Port(c), NEW word \in Nat, NEW j \in 1 .. 3 * c.width
    PROVE  /\ j % 3 = 1 => Bits(c, word)[j] = Set({}, {c.clk})
           /\ j % 3 = 2 => Bits(c, word)[j] =
                 IF BitSet(word, c.width - 1 - ((j - 1) \div 3))
                 THEN Set({c.data}, {}) ELSE Set({}, {c.data})
           /\ j % 3 = 0 => Bits(c, word)[j] = Set({c.clk}, {})
BY DEF Bits, Port

-----------------------------------------------------------------------------
(* The frames of serial codecs *)

\* A frame that sends word over c: a before the bits, d after them.
Sends(F, c, word, a, d) ==
    /\ F \in Seq(Accesses) /\ Len(F) = Len(a) + 3 * c.width + Len(d)
    /\ \A i \in 1 .. Len(a) : F[i] = a[i]
    /\ \A j \in 1 .. 3 * c.width : F[Len(a) + j] = Bits(c, word)[j]
    /\ \A i \in 1 .. Len(d) : F[Len(a) + 3 * c.width + i] = d[i]

LEMMA Framed ==
    ASSUME NEW c, Port(c), NEW word \in Nat,
           NEW a \in Seq(Accesses), NEW d \in Seq(Accesses)
    PROVE  Sends(a \o Bits(c, word) \o d, c, word, a, d)
<1>1. PICK b : b = Bits(c, word)
  OBVIOUS
<1>2. b \in Seq(Accesses)
  BY <1>1, BitsListed
<1>3. Len(b) = 3 * c.width
  BY <1>1, BitsListed
<1>4. PICK F : F = a \o b \o d
  OBVIOUS
<1>5. /\ F \in Seq(Accesses) /\ Len(F) = Len(a) + Len(b) + Len(d)
      /\ \A i \in 1 .. Len(a) : F[i] = a[i]
      /\ \A i \in 1 .. Len(b) : F[Len(a) + i] = b[i]
      /\ \A i \in 1 .. Len(d) : F[Len(a) + Len(b) + i] = d[i]
  BY <1>2, <1>4, Between
<1>6. Sends(F, c, word, a, d)
  BY <1>1, <1>3, <1>5 DEF Sends
<1>7. QED
  BY <1>1, <1>4, <1>6

LEMMA AkmFrameSends ==
    ASSUME NEW c, Port(c), c.cif = FALSE, NEW word \in Nat, NEW flags \in SUBSET Pins
    PROVE  Sends(AkmFrame(c, flags, word), c, word,
                 << Set(flags, {c.cs}) >>, << Set({c.cs}, {}) >>)
<1>1. Set(flags, {c.cs}) \in Accesses /\ Set({c.cs}, {}) \in Accesses
  BY AccessTypes DEF Port
<1>2. << Set(flags, {c.cs}) >> \in Seq(Accesses) /\ << Set({c.cs}, {}) >> \in Seq(Accesses)
  BY <1>1
<1>3. QED
  BY <1>2, Framed DEF AkmFrame

LEMMA AkmNewFrameSends ==
    ASSUME NEW c, Port(c), NEW word \in Nat, NEW flags \in SUBSET Pins,
           NEW mask \in SUBSET Pins, NEW high \in SUBSET Pins, NEW none \in SUBSET Pins
    PROVE  Sends(AkmNewFrame(c, mask, high, none, flags, word), c, word,
                 << Set(flags \cup high, mask \ high) >>, << Set(none, mask \ none) >>)
<1>1. /\ Set(flags \cup high, mask \ high) \in Accesses
      /\ Set(none, mask \ none) \in Accesses
  BY AccessTypes
<1>2. /\ << Set(flags \cup high, mask \ high) >> \in Seq(Accesses)
      /\ << Set(none, mask \ none) >> \in Seq(Accesses)
  BY <1>1
<1>3. QED
  BY <1>2, Framed DEF AkmNewFrame

LEMMA AP192FrameSends ==
    ASSUME NEW c, Port(c), NEW word \in Nat
    PROVE  Sends(AP192Frame(c, word), c, word,
                 << Set({}, {3}), Set({1}, {}), Set({4, 5} \ {c.cs}, {c.cs}) >>,
                 << Set({4, 5}, {}) >>)
<1>0. /\ {} \in SUBSET Pins /\ {1} \in SUBSET Pins /\ {3} \in SUBSET Pins
      /\ {4, 5} \in SUBSET Pins /\ {4, 5} \ {c.cs} \in SUBSET Pins
      /\ {c.cs} \in SUBSET Pins
  BY DEF Port, Pins
<1>1. /\ Set({}, {3}) \in Accesses /\ Set({1}, {}) \in Accesses
      /\ Set({4, 5} \ {c.cs}, {c.cs}) \in Accesses /\ Set({4, 5}, {}) \in Accesses
  BY <1>0, AccessTypes
<1>2. /\ << Set({}, {3}), Set({1}, {}), Set({4, 5} \ {c.cs}, {c.cs}) >> \in Seq(Accesses)
      /\ << Set({4, 5}, {}) >> \in Seq(Accesses)
  BY <1>1
<1>3. QED
  BY <1>2, Framed DEF AP192Frame

LEMMA AureonFrameSends ==
    ASSUME NEW c, Port(c), NEW word \in Nat
    PROVE  Sends(AureonFrame(c, word), c, word, << Mask({}, {17}, {c.cs}) >>,
                 << Set({c.cs}, {c.clk}), Set({c.clk}, {}) >>)
<1>0. /\ {} \in SUBSET Pins /\ {17} \in SUBSET Pins
      /\ {c.cs} \in SUBSET Pins /\ {c.clk} \in SUBSET Pins
  BY DEF Port, Pins
<1>1. /\ Mask({}, {17}, {c.cs}) \in Accesses
      /\ Set({c.cs}, {c.clk}) \in Accesses /\ Set({c.clk}, {}) \in Accesses
  BY <1>0, AccessTypes
<1>2. /\ << Mask({}, {17}, {c.cs}) >> \in Seq(Accesses)
      /\ << Set({c.cs}, {c.clk}), Set({c.clk}, {}) >> \in Seq(Accesses)
  BY <1>1
<1>3. QED
  BY <1>2, Framed DEF AureonFrame

Own(c) == {c.cs, c.clk, c.data}

LEMMA AK4396FrameSends ==
    ASSUME NEW c, Port(c), NEW word \in Nat
    PROVE  Sends(AK4396Frame(c, word), c, word,
                 << SaveGPIO, Lines(Own(c), AllBut(Own(c)), {}, {}), Set({}, {c.cs}) >>,
                 << Set({c.cs}, {}), RestoreGPIO >>)
<1>1. /\ SaveGPIO \in Accesses /\ RestoreGPIO \in Accesses
      /\ Set({}, {c.cs}) \in Accesses /\ Set({c.cs}, {}) \in Accesses
      /\ Lines(Own(c), AllBut(Own(c)), {}, {}) \in Accesses
  BY AccessTypes DEF Port, Own
<1>2. /\ << SaveGPIO, Lines(Own(c), AllBut(Own(c)), {}, {}), Set({}, {c.cs}) >>
            \in Seq(Accesses)
      /\ << Set({c.cs}, {}), RestoreGPIO >> \in Seq(Accesses)
  BY <1>1
<1>3. QED
  BY <1>2, Framed DEF AK4396Frame, Own

\* In cif mode the first access has the place of the first bit's first.
CifSends(F, c, word, flags) ==
    /\ F \in Seq(Accesses) /\ Len(F) = 3 * c.width + 2
    /\ F[1] = Set(flags \cup {c.cs}, {c.clk})
    /\ \A j \in 2 .. 3 * c.width : F[j] = Bits(c, word)[j]
    /\ F[3 * c.width + 1] = Set({}, {c.cs})
    /\ F[3 * c.width + 2] = Set({c.cs}, {})

LEMMA CifFrameSends ==
    ASSUME NEW c, Port(c), c.cif = TRUE, NEW word \in Nat, NEW flags \in SUBSET Pins,
           NEW F, F = AkmFrame(c, flags, word)
    PROVE  CifSends(F, c, word, flags)
<1>1. PICK a, b, d : /\ a = << Set(flags \cup {c.cs}, {c.clk}) >>
                     /\ b = Tail(Bits(c, word))
                     /\ d = << Set({}, {c.cs}), Set({c.cs}, {}) >>
  OBVIOUS
<1>2. a \in Seq(Accesses) /\ d \in Seq(Accesses)
  <2>1. /\ Set(flags \cup {c.cs}, {c.clk}) \in Accesses
        /\ Set({}, {c.cs}) \in Accesses /\ Set({c.cs}, {}) \in Accesses
    BY AccessTypes DEF Port
  <2>2. QED
    BY <1>1, <2>1
<1>3. Len(a) = 1 /\ Len(d) = 2
  BY <1>1
<1>4. /\ Bits(c, word) \in Seq(Accesses) /\ Len(Bits(c, word)) = 3 * c.width
      /\ Bits(c, word) # << >>
  <2>1. /\ Bits(c, word) \in Seq(Accesses) /\ Len(Bits(c, word)) = 3 * c.width
    BY BitsListed
  <2>2. Len(Bits(c, word)) # 0
    BY <2>1 DEF Port
  <2>3. QED
    BY <2>1, <2>2, EmptySeq
<1>5. b \in Seq(Accesses)
  BY <1>1, <1>4, HeadTailProperties
<1>6. /\ Len(b) = 3 * c.width - 1
      /\ \A i \in 1 .. Len(b) : b[i] = Bits(c, word)[i + 1]
  BY <1>1, <1>4, HeadTailProperties
<1>7. F = a \o b \o d
  BY <1>1 DEF AkmFrame
<1>8. /\ F \in Seq(Accesses) /\ Len(F) = Len(a) + Len(b) + Len(d)
      /\ \A i \in 1 .. Len(a) : F[i] = a[i]
      /\ \A i \in 1 .. Len(b) : F[Len(a) + i] = b[i]
      /\ \A i \in 1 .. Len(d) : F[Len(a) + Len(b) + i] = d[i]
  BY <1>2, <1>5, <1>7, Between
<1>9. /\ F[1] = a[1] /\ F[3 * c.width + 1] = d[1] /\ F[3 * c.width + 2] = d[2]
  BY <1>3, <1>6, <1>8, SMTT(30) DEF Port
<1>10. \A j \in 2 .. 3 * c.width : F[j] = Bits(c, word)[j]
  <2> TAKE j \in 2 .. 3 * c.width
  <2>a. Len(b) = 3 * c.width - 1 /\ 3 * c.width \in Int
    BY <1>6 DEF Port
  <2>1. PICK i \in 1 .. 3 * c.width - 1 : i + 1 = j /\ 1 + i = j
    BY <2>a
  <2>2. F[j] = b[i]
    <3>1. F[Len(a) + i] = b[i]
      BY <1>8, <2>a, <2>1, Zenon
    <3>2. Len(a) + i = j
      BY <1>3, <2>1
    <3>3. QED
      BY <3>1, <3>2, Zenon
  <2>3. b[i] = Bits(c, word)[j]
    BY <1>6, <2>a, <2>1, Zenon
  <2>4. QED
    BY <2>2, <2>3, Zenon
<1>11. Len(F) = 3 * c.width + 2
  <2>1. Len(F) = Len(a) + Len(b) + Len(d)
    BY <1>8
  <2>2. QED
    BY <1>3, <1>6, <2>1 DEF Port
<1>12. F[1] = Set(flags \cup {c.cs}, {c.clk})
  <2>1. F[1] = a[1]
    BY <1>9
  <2>2. QED
    BY <1>1, <2>1
<1>13. F[3 * c.width + 1] = Set({}, {c.cs}) /\ F[3 * c.width + 2] = Set({c.cs}, {})
  <2>1. d[1] = Set({}, {c.cs}) /\ d[2] = Set({c.cs}, {})
    BY <1>1
  <2>2. QED
    BY <1>9, <2>1, Zenon
<1>14. QED
  BY <1>8, <1>10, <1>11, <1>12, <1>13, Zenon DEF CifSends

-----------------------------------------------------------------------------
(* Messages to the PT2258, and words to the AC'97 codec *)

Bytes == 0 .. 255

\* The 24 accesses of a byte's bits.
I2CBits(byte) ==
    [k \in 1 .. 24 |-> I2CBit(BitSet(byte, 7 - ((k - 1) \div 3)))[((k - 1) % 3) + 1]]

LEMMA I2CLinesTyped ==
    ASSUME NEW high \in SUBSET {Sda, Scl}
    PROVE  I2CLines(high) \in Accesses /\ I2CDirection(high) \in Accesses
<1>1. /\ {Sda, Scl} \in SUBSET Pins /\ high \in SUBSET Pins
      /\ Pins \ high \in SUBSET Pins /\ {} \in SUBSET Pins
  BY DEF Sda, Scl, Pins
<1>2. AllBut({Sda, Scl}) \in SUBSET Pins
  BY <1>1, AccessTypes
<1>3. QED
  BY <1>1, <1>2, AccessTypes DEF I2CLines, I2CDirection

\* A byte is 24 accesses, then five for the acknowledgement.
LEMMA I2CByteIs ==
    ASSUME NEW byte \in Bytes
    PROVE  /\ I2CByte(byte) \in Seq(Accesses) /\ Len(I2CByte(byte)) = 29
           /\ \A k \in 1 .. 24 : I2CByte(byte)[k] = I2CBits(byte)[k]
           /\ \A k \in 1 .. 5 : I2CByte(byte)[24 + k] = I2CAck[k]
<1>1. \A high \in SUBSET {Sda, Scl} :
         I2CLines(high) \in Accesses /\ I2CDirection(high) \in Accesses
  BY I2CLinesTyped
<1>2. I2CAck \in Seq(Accesses)
  BY <1>1 DEF I2CAck
<1>3. Len(I2CAck) = 5
  BY DEF I2CAck
<1>4. \A k \in 1 .. 24 : I2CBits(byte)[k] \in Accesses
  <2> TAKE k \in 1 .. 24
  <2>1. ((k - 1) % 3) + 1 \in 1 .. 3
    OBVIOUS
  <2>2. \A b \in BOOLEAN : \A m \in 1 .. 3 : I2CBit(b)[m] \in Accesses
    BY <1>1 DEF I2CBit
  <2>3. BitSet(byte, 7 - ((k - 1) \div 3)) \in BOOLEAN
    BY DEF BitSet
  <2>4. QED
    BY <2>1, <2>2, <2>3 DEF I2CBits
<1>5. I2CBits(byte) \in [1 .. 24 -> Accesses]
  BY <1>4 DEF I2CBits
<1>6. I2CBits(byte) \in Seq(Accesses) /\ Len(I2CBits(byte)) = 24
  BY <1>5, Listed
<1>7. PICK b, a : b = I2CBits(byte) /\ a = I2CAck
  OBVIOUS
<1>8. b \in Seq(Accesses) /\ a \in Seq(Accesses)
  BY <1>2, <1>6, <1>7
<1>9. PICK F : F = b \o a
  OBVIOUS
<1>10. /\ F \in Seq(Accesses) /\ Len(F) = Len(b) + Len(a)
       /\ \A i \in 1 .. Len(b) : F[i] = b[i]
       /\ \A i \in 1 .. Len(a) : F[Len(b) + i] = a[i]
  BY <1>8, <1>9, Joined
<1>11. Len(b) = 24 /\ Len(a) = 5
  BY <1>3, <1>6, <1>7
<1>12. F = I2CByte(byte)
  BY <1>7, <1>9 DEF I2CByte, I2CBits
<1>13. QED
  BY <1>7, <1>10, <1>11, <1>12

\* The bytes of a message: the address, then one or two.
LastByte(message) == IF message < 256 THEN 1 ELSE 2

MessageByte(message, j) ==
    IF j = 0 THEN PT2258Address
    ELSE IF j = 1 /\ message >= 256 THEN message \div 256
    ELSE message % 256

LEMMA MessageBytes ==
    ASSUME NEW message \in Nat, message < 256 * 256
    PROVE  /\ LastByte(message) \in 1 .. 2
           /\ \A j \in 0 .. 2 : MessageByte(message, j) \in Bytes
           /\ PT2258Address \in Bytes /\ message % 256 \in Bytes
           /\ message \div 256 \in Bytes
<1>1. LastByte(message) \in 1 .. 2
  BY DEF LastByte
<1>2. \A j \in 0 .. 2 : MessageByte(message, j) \in Bytes
  BY DEF MessageByte, Bytes, PT2258Address
<1>3. /\ PT2258Address \in Bytes /\ message % 256 \in Bytes
      /\ message \div 256 \in Bytes
  BY DEF Bytes, PT2258Address
<1>4. QED
  BY <1>1, <1>2, <1>3

\* The entries of p stand in F after offset.
Piece(F, p, offset, n) == \A i \in 1 .. n : F[offset + i] = p[i]

\* Five sequences one after the other, and how long they are.
Five(a, b, c, d, e) == a \o b \o c \o d \o e

InFive(F, S, a, b, c, d, e) ==
    /\ F \in Seq(S)
    /\ Len(F) = Len(a) + Len(b) + Len(c) + Len(d) + Len(e)
    /\ Piece(F, a, 0, Len(a))
    /\ Piece(F, b, Len(a), Len(b))
    /\ Piece(F, c, Len(a) + Len(b), Len(c))
    /\ Piece(F, d, Len(a) + Len(b) + Len(c), Len(d))
    /\ Piece(F, e, Len(a) + Len(b) + Len(c) + Len(d), Len(e))

LEMMA InPieces ==
    ASSUME NEW S, NEW a \in Seq(S), NEW b \in Seq(S), NEW c \in Seq(S),
           NEW d \in Seq(S), NEW e \in Seq(S)
    PROVE  InFive(Five(a, b, c, d, e), S, a, b, c, d, e)
<1>1. PICK la, lb, lc, ld, le \in Nat :
         la = Len(a) /\ lb = Len(b) /\ lc = Len(c) /\ ld = Len(d) /\ le = Len(e)
  BY LenProperties
<1>2. PICK f : f = a \o b \o c
  OBVIOUS
<1>3. /\ f \in Seq(S) /\ Len(f) = la + lb + lc
      /\ \A i \in 1 .. la : f[i] = a[i]
      /\ \A i \in 1 .. lb : f[la + i] = b[i]
      /\ \A i \in 1 .. lc : f[la + lb + i] = c[i]
  BY <1>1, <1>2, Between
<1>4. PICK F : F = f \o d \o e
  OBVIOUS
<1>5. f \in Seq(S)
  BY <1>3
<1>6. /\ F \in Seq(S) /\ Len(F) = Len(f) + ld + le
      /\ \A i \in 1 .. Len(f) : F[i] = f[i]
      /\ \A i \in 1 .. ld : F[Len(f) + i] = d[i]
      /\ \A i \in 1 .. le : F[Len(f) + ld + i] = e[i]
  BY <1>1, <1>4, <1>5, Between
<1>7. Piece(F, a, 0, la)
  BY <1>3, <1>6 DEF Piece
<1>8. Piece(F, b, la, lb)
  BY <1>3, <1>6 DEF Piece
<1>9. Piece(F, c, la + lb, lc)
  BY <1>3, <1>6 DEF Piece
<1>10. Piece(F, d, la + lb + lc, ld)
  BY <1>3, <1>6 DEF Piece
<1>11. Piece(F, e, la + lb + lc + ld, le)
  BY <1>3, <1>6 DEF Piece
<1>12. F \in Seq(S) /\ Len(F) = la + lb + lc + ld + le
  BY <1>3, <1>6
<1>13. F = Five(a, b, c, d, e)
  BY <1>2, <1>4, Zenon DEF Five
<1>14. QED
  BY <1>1, <1>7, <1>8, <1>9, <1>10, <1>11, <1>12, <1>13, Zenon DEF InFive

LEMMA I2CStartStop ==
    /\ I2CStart \in Seq(Accesses) /\ Len(I2CStart) = 5
    /\ I2CStop \in Seq(Accesses) /\ Len(I2CStop) = 4
<1>1. \A high \in SUBSET {Sda, Scl} :
         I2CLines(high) \in Accesses /\ I2CDirection(high) \in Accesses
  BY I2CLinesTyped
<1>2. SaveGPIO \in Accesses /\ RestoreGPIO \in Accesses
  BY AccessTypes
<1>3. QED
  BY <1>1, <1>2 DEF I2CStart, I2CStop

\* A message is a start, its bytes and a stop.
MessageFrame(F, message) ==
    /\ F \in Seq(Accesses) /\ Len(F) = 9 + 29 * (LastByte(message) + 1)
    /\ Piece(F, I2CStart, 0, 5)
    /\ \A j \in 0 .. LastByte(message) :
          Piece(F, I2CByte(MessageByte(message, j)), 5 + 29 * j, 29)
    /\ Piece(F, I2CStop, 5 + 29 * (LastByte(message) + 1), 4)

LEMMA FrameInFive ==
    ASSUME NEW message, NEW mid,
           mid = IF message < 256 THEN <<>> ELSE I2CByte(message \div 256)
    PROVE  I2CFrame(message) =
              Five(I2CStart, I2CByte(PT2258Address), mid, I2CByte(message % 256), I2CStop)
BY Zenon DEF I2CFrame, Five

\* With the lengths that the pieces of a message have.
MessagePieces(F, start, first, mid, last, stop, m) ==
    /\ F \in Seq(Accesses) /\ Len(F) = 67 + m
    /\ Piece(F, start, 0, 5) /\ Piece(F, first, 5, 29) /\ Piece(F, mid, 34, m)
    /\ Piece(F, last, 34 + m, 29) /\ Piece(F, stop, 63 + m, 4)

LEMMA MessageInPieces ==
    ASSUME NEW start \in Seq(Accesses), NEW first \in Seq(Accesses),
           NEW mid \in Seq(Accesses), NEW last \in Seq(Accesses),
           NEW stop \in Seq(Accesses), NEW m \in Nat,
           Len(start) = 5, Len(first) = 29, Len(mid) = m, Len(last) = 29, Len(stop) = 4
    PROVE  MessagePieces(Five(start, first, mid, last, stop), start, first, mid, last, stop, m)
<1>1. PICK F : F = Five(start, first, mid, last, stop)
  OBVIOUS
<1>2. InFive(F, Accesses, start, first, mid, last, stop)
  BY <1>1, InPieces, Zenon
<1>3. MessagePieces(F, start, first, mid, last, stop, m)
  BY <1>2 DEF InFive, MessagePieces
<1>4. QED
  BY <1>1, <1>3, Zenon

LEMMA I2CFrameIs ==
    ASSUME NEW message \in Nat, message < 256 * 256
    PROVE  MessageFrame(I2CFrame(message), message)
<1>1. /\ I2CByte(PT2258Address) \in Seq(Accesses)
      /\ I2CByte(message % 256) \in Seq(Accesses)
      /\ I2CByte(message \div 256) \in Seq(Accesses)
  BY MessageBytes, I2CByteIs, Zenon
<1>2. /\ Len(I2CByte(PT2258Address)) = 29 /\ Len(I2CByte(message % 256)) = 29
      /\ Len(I2CByte(message \div 256)) = 29
  BY MessageBytes, I2CByteIs, ZenonT(40)
<1>3. PICK F : F = I2CFrame(message)
  OBVIOUS
<1>4. CASE message < 256
  <2>1. PICK mid : mid = << >>
    OBVIOUS
  <2>2. mid \in Seq(Accesses) /\ Len(mid) = 0
    BY <2>1
  <2>3. F = Five(I2CStart, I2CByte(PT2258Address), mid, I2CByte(message % 256), I2CStop)
    <3>1. mid = IF message < 256 THEN <<>> ELSE I2CByte(message \div 256)
      BY <1>4, <2>1, Zenon
    <3>2. QED
      BY <1>3, <3>1, FrameInFive, ZenonT(40)
  <2>4. /\ F \in Seq(Accesses) /\ Len(F) = 67 + 0
        /\ Piece(F, I2CStart, 0, 5) /\ Piece(F, I2CByte(PT2258Address), 5, 29)
        /\ Piece(F, I2CByte(message % 256), 34 + 0, 29) /\ Piece(F, I2CStop, 63 + 0, 4)
    <3>1. 0 \in Nat
      OBVIOUS
    <3>2. MessagePieces(F, I2CStart, I2CByte(PT2258Address), mid,
                        I2CByte(message % 256), I2CStop, 0)
      BY <1>1, <1>2, <2>2, <2>3, <3>1, MessageInPieces, I2CStartStop, ZenonT(40)
    <3>3. QED
      BY <3>2, Zenon DEF MessagePieces
  <2>5. LastByte(message) = 1
    BY <1>4 DEF LastByte
  <2>6. /\ MessageByte(message, 0) = PT2258Address
        /\ MessageByte(message, 1) = message % 256
    BY <1>4 DEF MessageByte
  <2>7. \A j \in 0 .. 1 : Piece(F, I2CByte(MessageByte(message, j)), 5 + 29 * j, 29)
    BY <2>4, <2>6
  <2>8. QED
    BY <1>3, <2>4, <2>5, <2>7 DEF MessageFrame
<1>5. CASE ~(message < 256)
  <2>1. PICK mid : mid = I2CByte(message \div 256)
    OBVIOUS
  <2>2. mid \in Seq(Accesses) /\ Len(mid) = 29
    BY <1>1, <1>2, <2>1, Zenon
  <2>3. F = Five(I2CStart, I2CByte(PT2258Address), mid, I2CByte(message % 256), I2CStop)
    <3>1. mid = IF message < 256 THEN <<>> ELSE I2CByte(message \div 256)
      BY <1>5, <2>1, Zenon
    <3>2. QED
      BY <1>3, <3>1, FrameInFive, Zenon
  <2>4. /\ F \in Seq(Accesses) /\ Len(F) = 67 + 29
        /\ Piece(F, I2CStart, 0, 5) /\ Piece(F, I2CByte(PT2258Address), 5, 29)
        /\ Piece(F, mid, 34, 29)
        /\ Piece(F, I2CByte(message % 256), 34 + 29, 29) /\ Piece(F, I2CStop, 63 + 29, 4)
    <3>1. 29 \in Nat
      OBVIOUS
    <3>2. MessagePieces(F, I2CStart, I2CByte(PT2258Address), mid,
                        I2CByte(message % 256), I2CStop, 29)
      BY <1>1, <1>2, <2>2, <2>3, <3>1, MessageInPieces, I2CStartStop, ZenonT(40)
    <3>3. QED
      BY <3>2, Zenon DEF MessagePieces
  <2>5. LastByte(message) = 2
    BY <1>5 DEF LastByte
  <2>6. /\ MessageByte(message, 0) = PT2258Address
        /\ MessageByte(message, 1) = message \div 256
        /\ MessageByte(message, 2) = message % 256
    BY <1>5 DEF MessageByte
  <2>7. \A j \in 0 .. 2 : Piece(F, I2CByte(MessageByte(message, j)), 5 + 29 * j, 29)
    BY <2>1, <2>4, <2>6
  <2>8. QED
    BY <1>3, <2>4, <2>5, <2>7 DEF MessageFrame
<1>6. QED
  BY <1>4, <1>5

\* A word to the AC'97 codec: its bytes on the data pins, with a pulse after
\* each, and a last one.
AC97Word(F, reg, low, high) ==
    /\ F \in Seq(Accesses) /\ Len(F) = 11
    /\ F[1] = OnDataPins(reg) /\ F[2] = Set({10}, {}) /\ F[3] = Set({}, {10})
    /\ F[4] = OnDataPins(low) /\ F[5] = Set({9}, {}) /\ F[6] = Set({}, {9})
    /\ F[7] = OnDataPins(high) /\ F[8] = Set({8}, {}) /\ F[9] = Set({}, {8})
    /\ F[10] = Set({11}, {}) /\ F[11] = Set({}, {11})

LEMMA PulseIs ==
    ASSUME NEW pin \in Pins, NEW P, P = Pulse(pin)
    PROVE  /\ P \in Seq(Accesses) /\ Len(P) = 2
           /\ P[1] = Set({pin}, {}) /\ P[2] = Set({}, {pin})
<1>1. Set({pin}, {}) \in Accesses /\ Set({}, {pin}) \in Accesses
  BY AccessTypes
<1>2. QED
  BY <1>1 DEF Pulse

LEMMA DataPinsTyped ==
    ASSUME NEW byte
    PROVE  OnDataPins(byte) \in Accesses
<1>1. PICK up : up = {i \in 0 .. 7 : BitSet(byte, i)}
  OBVIOUS
<1>2. up \in SUBSET Pins /\ 0 .. 7 \ up \in SUBSET Pins
  BY <1>1 DEF Pins
<1>3. Set(up, 0 .. 7 \ up) \in Accesses
  BY <1>2, AccessTypes
<1>4. QED
  BY <1>1, <1>3, Zenon DEF OnDataPins

LEMMA AC97FrameIs ==
    ASSUME NEW w
    PROVE  AC97Word(AC97Frame(w), w.reg % 128, w.data % 256, w.data \div 256)
<1>1. PICK reg, low, high :
         reg = w.reg % 128 /\ low = w.data % 256 /\ high = w.data \div 256
  OBVIOUS
<1>2. PICK p10, p9, p8, p11 :
         p10 = Pulse(10) /\ p9 = Pulse(9) /\ p8 = Pulse(8) /\ p11 = Pulse(11)
  OBVIOUS
<1>3. 10 \in Pins /\ 9 \in Pins /\ 8 \in Pins /\ 11 \in Pins
  BY DEF Pins
<1>4. /\ p10 \in Seq(Accesses) /\ p9 \in Seq(Accesses)
      /\ p8 \in Seq(Accesses) /\ p11 \in Seq(Accesses)
  BY <1>2, <1>3, PulseIs, Zenon
<1>5. /\ Len(p10) = 2 /\ p10[1] = Set({10}, {}) /\ p10[2] = Set({}, {10})
      /\ Len(p9) = 2 /\ p9[1] = Set({9}, {}) /\ p9[2] = Set({}, {9})
      /\ Len(p8) = 2 /\ p8[1] = Set({8}, {}) /\ p8[2] = Set({}, {8})
      /\ Len(p11) = 2 /\ p11[1] = Set({11}, {}) /\ p11[2] = Set({}, {11})
  BY <1>2, <1>3, PulseIs, Zenon
<1>6. PICK r, l, h : /\ r = << OnDataPins(reg) >> /\ l = << OnDataPins(low) >>
                     /\ h = << OnDataPins(high) >>
  OBVIOUS
<1>7. r \in Seq(Accesses) /\ l \in Seq(Accesses) /\ h \in Seq(Accesses)
  <2>1. /\ OnDataPins(reg) \in Accesses /\ OnDataPins(low) \in Accesses
        /\ OnDataPins(high) \in Accesses
    BY DataPinsTyped
  <2>2. QED
    BY <1>6, <2>1
<1>8. /\ Len(r) = 1 /\ r[1] = OnDataPins(reg) /\ Len(l) = 1 /\ l[1] = OnDataPins(low)
      /\ Len(h) = 1 /\ h[1] = OnDataPins(high)
  BY <1>6
<1>9. PICK x : x = r \o p10 \o l
  OBVIOUS
<1>10. /\ x \in Seq(Accesses) /\ Len(x) = Len(r) + Len(p10) + Len(l)
       /\ \A i \in 1 .. Len(r) : x[i] = r[i]
       /\ \A i \in 1 .. Len(p10) : x[Len(r) + i] = p10[i]
       /\ \A i \in 1 .. Len(l) : x[Len(r) + Len(p10) + i] = l[i]
  BY <1>4, <1>7, <1>9, Between
<1>11. /\ x \in Seq(Accesses) /\ Len(x) = 4 /\ x[1] = r[1]
       /\ x[2] = p10[1] /\ x[3] = p10[2] /\ x[4] = l[1]
  BY <1>5, <1>8, <1>10
<1>12. PICK y : y = x \o p9 \o h
  OBVIOUS
<1>13. x \in Seq(Accesses)
  BY <1>11
<1>14. /\ y \in Seq(Accesses) /\ Len(y) = Len(x) + Len(p9) + Len(h)
       /\ \A i \in 1 .. Len(x) : y[i] = x[i]
       /\ \A i \in 1 .. Len(p9) : y[Len(x) + i] = p9[i]
       /\ \A i \in 1 .. Len(h) : y[Len(x) + Len(p9) + i] = h[i]
  BY <1>4, <1>7, <1>12, <1>13, Between, SMTT(30)
<1>15. /\ y \in Seq(Accesses) /\ Len(y) = 7 /\ \A i \in 1 .. 4 : y[i] = x[i]
       /\ y[5] = p9[1] /\ y[6] = p9[2] /\ y[7] = h[1]
  BY <1>5, <1>8, <1>11, <1>14
<1>16. PICK F : F = y \o p8 \o p11
  OBVIOUS
<1>17. y \in Seq(Accesses)
  BY <1>15
<1>18. /\ F \in Seq(Accesses) /\ Len(F) = Len(y) + Len(p8) + Len(p11)
       /\ \A i \in 1 .. Len(y) : F[i] = y[i]
       /\ \A i \in 1 .. Len(p8) : F[Len(y) + i] = p8[i]
       /\ \A i \in 1 .. Len(p11) : F[Len(y) + Len(p8) + i] = p11[i]
  BY <1>4, <1>16, <1>17, Between, SMTT(30)
<1>19. /\ F \in Seq(Accesses) /\ Len(F) = 11 /\ \A i \in 1 .. 7 : F[i] = y[i]
       /\ F[8] = p8[1] /\ F[9] = p8[2] /\ F[10] = p11[1] /\ F[11] = p11[2]
  BY <1>5, <1>15, <1>18
<1>20. AC97Word(F, reg, low, high)
  BY <1>5, <1>8, <1>11, <1>15, <1>19 DEF AC97Word
<1>21. AC97Frame(w) = F
  <2>1. /\ AC97Pins.addr = 10 /\ AC97Pins.low = 9
        /\ AC97Pins.high = 8 /\ AC97Pins.commit = 11
    BY DEF AC97Pins
  <2>2. QED
    BY <1>1, <1>2, <1>6, <1>9, <1>12, <1>16, <2>1, ZenonT(40) DEF AC97Frame
<1>22. QED
  BY <1>1, <1>20, <1>21, Zenon

-----------------------------------------------------------------------------
(* Every frame of every card *)

GpioCards == {"Revo71", "Revo51", "Phase22", "AP192", "AureonSpace", "ProdigyHD2"}

\* The wiring, chip by chip.
LEMMA WiringIs ==
    /\ DOMAIN Wiring = GpioCards
    /\ Wiring["Revo71"] = [Front |-> Akm(5, 1, 3, 1, FALSE),
                           Surround |-> Akm(6, 1, 3, 3, FALSE)]
    /\ Wiring["Revo51"] = [Front |-> Akm(4, 1, 3, 2, FALSE),
                           Rec |-> Akm(5, 1, 3, 2, FALSE)]
    /\ Wiring["Phase22"] = [Front |-> Akm(10, 5, 4, 2, TRUE)]
    /\ Wiring["AP192"] = [AP192 |-> Akm(4, 1, 3, 2, FALSE),
                          AK4114 |-> Akm(5, 1, 3, 2, FALSE)]
    /\ Wiring["AureonSpace"] = [Aureon |-> Wired(12, 19, 18, FALSE, 16, 0, 128, 512),
                                CS8415 |-> Wired(22, 19, 18, FALSE, 24, 32, 256, 256)]
    /\ Wiring["ProdigyHD2"] = [AK4396 |-> Akm(8, 9, 10, 0, FALSE)]
BY DEF Wiring, GpioCards

ChipsWired ==
    [Revo71 |-> {"Front", "Surround"}, Revo51 |-> {"Front", "Rec"},
     Phase22 |-> {"Front"}, AP192 |-> {"AP192", "AK4114"},
     AureonSpace |-> {"Aureon", "CS8415"}, ProdigyHD2 |-> {"AK4396"}]

LEMMA ChipsAre ==
    ASSUME NEW card \in GpioCards
    PROVE  DOMAIN Wiring[card] = ChipsWired[card]
<1>1. CASE card = "Revo71"
  BY <1>1, WiringIs DEF ChipsWired
<1>2. CASE card = "Revo51"
  BY <1>2, WiringIs DEF ChipsWired
<1>3. CASE card = "Phase22"
  BY <1>3, WiringIs DEF ChipsWired
<1>4. CASE card = "AP192"
  BY <1>4, WiringIs DEF ChipsWired
<1>5. CASE card = "AureonSpace"
  BY <1>5, WiringIs DEF ChipsWired
<1>6. CASE card = "ProdigyHD2"
  BY <1>6, WiringIs DEF ChipsWired
<1>7. QED
  BY <1>1, <1>2, <1>3, <1>4, <1>5, <1>6 DEF GpioCards

\* How a word is made up of prefix, register and value.
Sized(c) ==
    \/ c.width = 16 /\ c.prefix \in 0 .. 7 /\ c.registers = 32 /\ c.values = 256
    \/ c.width = 16 /\ c.prefix = 0 /\ c.registers = 128 /\ c.values = 512
    \/ c.width = 24 /\ c.prefix = 32 /\ c.registers = 256 /\ c.values = 256

\* A codec on a serial port.
SerialPort(c) ==
    /\ Port(c) /\ c.cif \in BOOLEAN /\ Sized(c)
    /\ c.prefix \in 0 .. 32 /\ c.registers \in {32, 128, 256} /\ c.values \in {256, 512}
    /\ c.cs # c.clk /\ c.cs # c.data /\ c.clk # c.data

LEMMA Ports ==
    ASSUME NEW card \in GpioCards, NEW chip \in ChipsWired[card]
    PROVE  SerialPort(Wiring[card][chip])
<1>1. CASE card = "Revo71"
  <2>1. PICK p, q : p = Akm(5, 1, 3, 1, FALSE) /\ q = Akm(6, 1, 3, 3, FALSE)
    OBVIOUS
  <2>2. SerialPort(p) /\ SerialPort(q)
    BY <2>1 DEF Akm, Wired, SerialPort, Sized, Port, Pins
  <2>3. /\ Wiring["Revo71"]["Front"] = p
        /\ Wiring["Revo71"]["Surround"] = q
    BY <2>1, WiringIs
  <2>4. chip = "Front" \/ chip = "Surround"
    BY <1>1 DEF ChipsWired
  <2>5. QED
    BY <1>1, <2>2, <2>3, <2>4
<1>2. CASE card = "Revo51"
  <2>1. PICK p, q : p = Akm(4, 1, 3, 2, FALSE) /\ q = Akm(5, 1, 3, 2, FALSE)
    OBVIOUS
  <2>2. SerialPort(p) /\ SerialPort(q)
    BY <2>1 DEF Akm, Wired, SerialPort, Sized, Port, Pins
  <2>3. /\ Wiring["Revo51"]["Front"] = p
        /\ Wiring["Revo51"]["Rec"] = q
    BY <2>1, WiringIs
  <2>4. chip = "Front" \/ chip = "Rec"
    BY <1>2 DEF ChipsWired
  <2>5. QED
    BY <1>2, <2>2, <2>3, <2>4
<1>3. CASE card = "Phase22"
  <2>1. PICK p : p = Akm(10, 5, 4, 2, TRUE)
    OBVIOUS
  <2>2. SerialPort(p)
    BY <2>1 DEF Akm, Wired, SerialPort, Sized, Port, Pins
  <2>3. /\ Wiring["Phase22"]["Front"] = p
    BY <2>1, WiringIs
  <2>4. chip = "Front"
    BY <1>3 DEF ChipsWired
  <2>5. QED
    BY <1>3, <2>2, <2>3, <2>4
<1>4. CASE card = "AP192"
  <2>1. PICK p, q : p = Akm(4, 1, 3, 2, FALSE) /\ q = Akm(5, 1, 3, 2, FALSE)
    OBVIOUS
  <2>2. SerialPort(p) /\ SerialPort(q)
    BY <2>1 DEF Akm, Wired, SerialPort, Sized, Port, Pins
  <2>3. /\ Wiring["AP192"]["AP192"] = p
        /\ Wiring["AP192"]["AK4114"] = q
    BY <2>1, WiringIs
  <2>4. chip = "AP192" \/ chip = "AK4114"
    BY <1>4 DEF ChipsWired
  <2>5. QED
    BY <1>4, <2>2, <2>3, <2>4
<1>5. CASE card = "AureonSpace"
  <2>1. PICK p, q : p = Wired(12, 19, 18, FALSE, 16, 0, 128, 512) /\ q = Wired(22, 19, 18, FALSE, 24, 32, 256, 256)
    OBVIOUS
  <2>2. SerialPort(p) /\ SerialPort(q)
    BY <2>1 DEF Akm, Wired, SerialPort, Sized, Port, Pins
  <2>3. /\ Wiring["AureonSpace"]["Aureon"] = p
        /\ Wiring["AureonSpace"]["CS8415"] = q
    BY <2>1, WiringIs
  <2>4. chip = "Aureon" \/ chip = "CS8415"
    BY <1>5 DEF ChipsWired
  <2>5. QED
    BY <1>5, <2>2, <2>3, <2>4
<1>6. CASE card = "ProdigyHD2"
  <2>1. PICK p : p = Akm(8, 9, 10, 0, FALSE)
    OBVIOUS
  <2>2. SerialPort(p)
    BY <2>1 DEF Akm, Wired, SerialPort, Sized, Port, Pins
  <2>3. /\ Wiring["ProdigyHD2"]["AK4396"] = p
    BY <2>1, WiringIs
  <2>4. chip = "AK4396"
    BY <1>6 DEF ChipsWired
  <2>5. QED
    BY <1>6, <2>2, <2>3, <2>4
<1>7. QED
  BY <1>1, <1>2, <1>3, <1>4, <1>5, <1>6 DEF GpioCards

\* The steps of the set-up.
LEMMA SetUpFrames ==
    ASSUME NEW card \in GpioCards, NEW step \in SetUpSteps
    PROVE  /\ SetUpFrame(card, step) \in Seq(Accesses)
           /\ Len(SetUpFrame(card, step)) \in 1 .. 5
<1>1. Outputs[card] \in SUBSET Pins /\ Masked[card] \in SUBSET Pins
  BY DEF GpioCards, Outputs, Masked, Pins
<1>2. \A up, down \in SUBSET Pins : Set(up, down) \in Accesses
  BY AccessTypes
<1>3. CASE step = "boot"
  <2>1. PICK high : high = IF card \in Revolutions THEN {1, 4, 5, 6}
                           ELSE {0, 3, 4, 11, 12, 13}
    OBVIOUS
  <2>2. PICK low : low = (IF card \in Revolutions THEN Pins ELSE 0 .. 15) \ high
    OBVIOUS
  <2>3. high \in SUBSET Pins /\ low \in SUBSET Pins
    BY <2>1, <2>2 DEF Pins
  <2>4. Boot(card) = Lines(Outputs[card], Masked[card], high, low)
    BY <2>1, <2>2, Zenon DEF Boot
  <2>5. Boot(card) \in Accesses
    <3>1. PICK o, m \in SUBSET Pins : o = Outputs[card] /\ m = Masked[card]
      BY <1>1
    <3>2. Lines(o, m, high, low) \in Accesses
      BY <2>3, AccessTypes
    <3>3. QED
      BY <2>4, <3>1, <3>2, Zenon
  <2>6. SetUpFrame(card, step) = << Boot(card) >>
    BY <1>3 DEF SetUpFrame
  <2>7. QED
    BY <2>5, <2>6
<1>4. CASE step = "mute"
  <2>1. SetUpFrame(card, step) = << Set({}, {MutePin}) >>
    BY <1>4 DEF SetUpFrame, Mute
  <2>2. QED
    BY <1>2, <2>1 DEF MutePin, Pins
<1>5. CASE step = "unmute"
  <2>1. SetUpFrame(card, step) = << Set({MutePin}, {}) >>
    BY <1>5 DEF SetUpFrame, Unmute
  <2>2. QED
    BY <1>2, <2>1 DEF MutePin, Pins
<1>6. CASE step = "adc"
  <2>1. SetUpFrame(card, step) = AdcMode
    BY <1>6 DEF SetUpFrame
  <2>2. QED
      <3>1. /\ Set({}, {8}) \in Accesses /\ Set({}, {9}) \in Accesses
          /\ Set({}, {10}) \in Accesses /\ Set({}, {11}) \in Accesses
          /\ Set({11}, {}) \in Accesses
      BY <1>2 DEF Pins
    <3>2. QED
      BY <2>1, <3>1 DEF AdcMode
<1>7. CASE step = "mux"
  <2>1. SetUpFrame(card, step) = << Set({}, {5}) >>
    BY <1>7 DEF SetUpFrame, SelectMux
  <2>2. QED
    BY <1>2, <2>1 DEF Pins
<1>8. CASE step = "ac97"
  <2>1. SetUpFrame(card, step) = ColdReset
    BY <1>8 DEF SetUpFrame
  <2>2. QED
    BY <1>2, <2>1 DEF ColdReset, AC97Pins, Pins
<1>9. CASE step = "codecs"
  <2>1. SetUpFrame(card, step) =
           << Mask(AllBut({20, 12, 22}), {}, {20}), Set({12, 22}, {}), Set({20}, {}) >>
    BY <1>9 DEF SetUpFrame, ResetCodecs
  <2>2. /\ {} \in SUBSET Pins /\ {20} \in SUBSET Pins
        /\ {20, 12, 22} \in SUBSET Pins /\ {12, 22} \in SUBSET Pins
    BY DEF Pins
  <2>3. Mask(AllBut({20, 12, 22}), {}, {20}) \in Accesses
    BY <2>2, AccessTypes
  <2>4. Set({12, 22}, {}) \in Accesses /\ Set({20}, {}) \in Accesses
    BY <1>2, <2>2
  <2>5. QED
    BY <2>1, <2>3, <2>4
<1>10. QED
  BY <1>3, <1>4, <1>5, <1>6, <1>7, <1>8, <1>9 DEF SetUpSteps

LEMMA WordTyped ==
    ASSUME NEW c, SerialPort(c), NEW w, w.reg \in Nat, w.data \in Nat
    PROVE  Word(c, w) \in Nat
<1>1. PICK p, r, v \in Nat : /\ p = c.prefix /\ r = c.registers /\ v = c.values
                             /\ r # 0 /\ v # 0
  BY DEF SerialPort
<1>2. PICK x, y \in Nat : x = w.reg % r /\ y = w.data % v
  BY <1>1
<1>3. p * r \in Nat
  BY <1>1
<1>4. (p * r + x) * v \in Nat
  BY <1>1, <1>2, <1>3
<1>5. (p * r + x) * v + y \in Nat
  BY <1>2, <1>4
<1>6. QED
  BY <1>1, <1>2, <1>5, Zenon DEF Word

\* A chip that is wired is not a step of the set-up, nor one of the others.
LEMMA WiredChips ==
    ASSUME NEW card \in GpioCards, NEW chip \in ChipsWired[card]
    PROVE  chip \notin SetUpSteps /\ chip # "AC97" /\ chip # "PT2258" /\ chip # "EEPROM"
BY DEF GpioCards, ChipsWired, SetUpSteps

\* Which frame a write to a serial codec is.
SerialFrame(F, card, c, word) ==
    /\ card = "Revo71" => F = AkmFrame(c, {}, word)
    /\ card = "Phase22" => F = AkmFrame(c, {3}, word)
    /\ card = "Revo51" => F = AkmNewFrame(c, {4, 5}, {4, 5} \ {c.cs}, {4, 5}, {1}, word)
    /\ card = "AP192" => F = AP192Frame(c, word)
    /\ card = "AureonSpace" => F = AureonFrame(c, word)
    /\ card = "ProdigyHD2" => F = AK4396Frame(c, word)

LEMMA SerialFrameIs ==
    ASSUME NEW card \in GpioCards, NEW w, w.chip \in ChipsWired[card]
    PROVE  SerialFrame(Frame(card, w), card, Wiring[card][w.chip],
                       Word(Wiring[card][w.chip], w))
BY WiredChips DEF Frame, SerialFrame

LEMMA SendsTyped ==
    ASSUME NEW c, Port(c), NEW word, NEW F, NEW a, NEW d, Sends(F, c, word, a, d),
           Len(a) \in 1 .. 3, Len(d) \in 1 .. 2
    PROVE  F \in Seq(Accesses) /\ Len(F) \in 50 .. 77
<1>1. PICK la \in 1 .. 3, ld \in 1 .. 2 : la = Len(a) /\ ld = Len(d)
  OBVIOUS
<1>2. PICK k \in {16, 24} : k = c.width
  BY DEF Port
<1>3. F \in Seq(Accesses) /\ Len(F) = la + 3 * k + ld
  BY <1>1, <1>2, Zenon DEF Sends
<1>4. la + 3 * k + ld \in 50 .. 77
  <2>1. CASE k = 16
    BY <2>1
  <2>2. CASE k = 24
    BY <2>2
  <2>3. QED
    BY <2>1, <2>2
<1>5. QED
  BY <1>3, <1>4, ZenonT(40)

LEMMA SerialFrameTyped ==
    ASSUME NEW card \in GpioCards, NEW c, Port(c), c.cif = (card = "Phase22"),
           NEW word \in Nat, NEW F, SerialFrame(F, card, c, word)
    PROVE  F \in Seq(Accesses) /\ Len(F) \in 50 .. 77
<1>1. CASE card = "Revo71"
  <2>1. F = AkmFrame(c, {}, word) /\ c.cif = FALSE
    BY <1>1, Zenon DEF SerialFrame
  <2>2. Sends(F, c, word, << Set({}, {c.cs}) >>, << Set({c.cs}, {}) >>)
    BY <2>1, AkmFrameSends
  <2>3. PICK a, d : Sends(F, c, word, a, d) /\ Len(a) \in 1 .. 3 /\ Len(d) \in 1 .. 2
    BY <2>2
  <2>4. QED
    BY <2>3, SendsTyped
<1>2. CASE card = "Phase22"
  <2>1. F = AkmFrame(c, {3}, word) /\ c.cif = TRUE
    BY <1>2, Zenon DEF SerialFrame
  <2>2. PICK flags \in SUBSET Pins : flags = {3}
    <3>1. {3} \in SUBSET Pins
      BY DEF Pins
    <3>2. QED
      BY <3>1
  <2>3. F \in Seq(Accesses) /\ Len(F) = 3 * c.width + 2
    <3>1. F = AkmFrame(c, flags, word)
      BY <2>1, <2>2, Zenon
    <3>2. CifSends(F, c, word, flags)
      BY <2>1, <3>1, CifFrameSends, Zenon
    <3>3. QED
      BY <3>2, Zenon DEF CifSends
  <2>4. PICK k \in {16, 24} : k = c.width
    BY DEF Port
  <2>5. 3 * k + 2 \in 50 .. 77
    <3>1. CASE k = 16
      BY <3>1
    <3>2. CASE k = 24
      BY <3>2
    <3>3. QED
      BY <3>1, <3>2
  <2>6. Len(F) = 3 * k + 2
    BY <2>3, <2>4, Zenon
  <2>7. QED
    BY <2>3, <2>5, <2>6, Zenon
<1>3. CASE card = "Revo51"
  <2>1. PICK high, none, mask, flags \in SUBSET Pins :
           /\ high = {4, 5} \ {c.cs} /\ none = {4, 5} /\ mask = {4, 5} /\ flags = {1}
    <3>1. {4, 5} \in SUBSET Pins /\ {4, 5} \ {c.cs} \in SUBSET Pins /\ {1} \in SUBSET Pins
      BY DEF Pins
    <3>2. QED
      BY <3>1
  <2>2. F = AkmNewFrame(c, mask, high, none, flags, word)
    BY <1>3, <2>1, Zenon DEF SerialFrame
  <2>3. Sends(F, c, word, << Set(flags \cup high, mask \ high) >>,
              << Set(none, mask \ none) >>)
    BY <2>2, AkmNewFrameSends
  <2>4. PICK a, d : Sends(F, c, word, a, d) /\ Len(a) \in 1 .. 3 /\ Len(d) \in 1 .. 2
    BY <2>3
  <2>5. QED
    BY <2>4, SendsTyped
<1>4. CASE card = "AP192"
  <2>1. F = AP192Frame(c, word)
    BY <1>4, Zenon DEF SerialFrame
  <2>2. Sends(F, c, word, << Set({}, {3}), Set({1}, {}), Set({4, 5} \ {c.cs}, {c.cs}) >>,
              << Set({4, 5}, {}) >>)
    BY <2>1, AP192FrameSends
  <2>3. PICK a, d : Sends(F, c, word, a, d) /\ Len(a) \in 1 .. 3 /\ Len(d) \in 1 .. 2
    BY <2>2
  <2>4. QED
    BY <2>3, SendsTyped
<1>5. CASE card = "AureonSpace"
  <2>1. F = AureonFrame(c, word)
    BY <1>5, Zenon DEF SerialFrame
  <2>2. Sends(F, c, word, << Mask({}, {17}, {c.cs}) >>,
              << Set({c.cs}, {c.clk}), Set({c.clk}, {}) >>)
    BY <2>1, AureonFrameSends
  <2>3. PICK a, d : Sends(F, c, word, a, d) /\ Len(a) \in 1 .. 3 /\ Len(d) \in 1 .. 2
    BY <2>2
  <2>4. QED
    BY <2>3, SendsTyped
<1>6. CASE card = "ProdigyHD2"
  <2>1. F = AK4396Frame(c, word)
    BY <1>6, Zenon DEF SerialFrame
  <2>2. Sends(F, c, word,
              << SaveGPIO, Lines(Own(c), AllBut(Own(c)), {}, {}), Set({}, {c.cs}) >>,
              << Set({c.cs}, {}), RestoreGPIO >>)
    BY <2>1, AK4396FrameSends
  <2>3. PICK a, d : Sends(F, c, word, a, d) /\ Len(a) \in 1 .. 3 /\ Len(d) \in 1 .. 2
    BY <2>2
  <2>4. QED
    BY <2>3, SendsTyped
<1>7. QED
  BY <1>1, <1>2, <1>3, <1>4, <1>5, <1>6 DEF GpioCards

\* What a call that can be written is.
Writable(card, w) ==
    \/ w.chip \in SetUpSteps
    \/ w.chip = "AC97"
    \/ w.chip = "PT2258" /\ w.data \in Nat /\ w.data < 256 * 256
    \/ w.chip \in ChipsWired[card] /\ w.reg \in Nat /\ w.data \in Nat

\* Only the codec of the Phase 22 shifts while it is not selected.
LEMMA CifIs ==
    ASSUME NEW card \in GpioCards, NEW chip \in ChipsWired[card]
    PROVE  Wiring[card][chip].cif = (card = "Phase22")
<1>1. CASE card = "Revo71"
  <2>1. /\ Wiring["Revo71"]["Front"].cif = FALSE
        /\ Wiring["Revo71"]["Surround"].cif = FALSE
    BY WiringIs DEF Akm, Wired
  <2>2. QED
    BY <1>1, <2>1 DEF ChipsWired
<1>2. CASE card = "Revo51"
  <2>1. /\ Wiring["Revo51"]["Front"].cif = FALSE
        /\ Wiring["Revo51"]["Rec"].cif = FALSE
    BY WiringIs DEF Akm, Wired
  <2>2. QED
    BY <1>2, <2>1 DEF ChipsWired
<1>3. CASE card = "Phase22"
  <2>1. /\ Wiring["Phase22"]["Front"].cif = TRUE
    BY WiringIs DEF Akm, Wired
  <2>2. QED
    BY <1>3, <2>1 DEF ChipsWired
<1>4. CASE card = "AP192"
  <2>1. /\ Wiring["AP192"]["AP192"].cif = FALSE
        /\ Wiring["AP192"]["AK4114"].cif = FALSE
    BY WiringIs DEF Akm, Wired
  <2>2. QED
    BY <1>4, <2>1 DEF ChipsWired
<1>5. CASE card = "AureonSpace"
  <2>1. /\ Wiring["AureonSpace"]["Aureon"].cif = FALSE
        /\ Wiring["AureonSpace"]["CS8415"].cif = FALSE
    BY WiringIs DEF Akm, Wired
  <2>2. QED
    BY <1>5, <2>1 DEF ChipsWired
<1>6. CASE card = "ProdigyHD2"
  <2>1. /\ Wiring["ProdigyHD2"]["AK4396"].cif = FALSE
    BY WiringIs DEF Akm, Wired
  <2>2. QED
    BY <1>6, <2>1 DEF ChipsWired
<1>7. QED
  BY <1>1, <1>2, <1>3, <1>4, <1>5, <1>6 DEF GpioCards

LEMMA FrameTyped ==
    ASSUME NEW card \in GpioCards, NEW w, Writable(card, w)
    PROVE  Frame(card, w) \in Seq(Accesses) /\ Len(Frame(card, w)) \in 1 .. 96
<1>1. CASE w.chip \in SetUpSteps
  <2>1. Frame(card, w) = SetUpFrame(card, w.chip)
    BY <1>1 DEF Frame
  <2>2. /\ SetUpFrame(card, w.chip) \in Seq(Accesses)
        /\ Len(SetUpFrame(card, w.chip)) \in 1 .. 5
    BY <1>1, SetUpFrames
  <2>3. QED
    BY <2>1, <2>2
<1>2. CASE w.chip = "AC97"
  <2>1. "AC97" \notin SetUpSteps
    BY DEF SetUpSteps
  <2>2. Frame(card, w) = AC97Frame(w)
    BY <1>2, <2>1, Zenon DEF Frame
  <2>3. AC97Frame(w) \in Seq(Accesses) /\ Len(AC97Frame(w)) = 11
    BY AC97FrameIs, Zenon DEF AC97Word
  <2>4. QED
    BY <2>2, <2>3
<1>3. CASE w.chip = "PT2258" /\ w.data \in Nat /\ w.data < 256 * 256
  <2>1. "PT2258" \notin SetUpSteps /\ "PT2258" # "AC97"
    BY DEF SetUpSteps
  <2>2. Frame(card, w) = I2CFrame(w.data)
    BY <1>3, <2>1, Zenon DEF Frame
  <2>3. PICK m \in Nat : m = w.data /\ m < 256 * 256
    BY <1>3
  <2>4. MessageFrame(I2CFrame(m), m)
    BY <2>3, I2CFrameIs
  <2>5. PICK lb \in 1 .. 2 : lb = LastByte(m)
    BY DEF LastByte
  <2>6. I2CFrame(m) \in Seq(Accesses) /\ Len(I2CFrame(m)) = 9 + 29 * (lb + 1)
    BY <2>4, <2>5, Zenon DEF MessageFrame
  <2>7. 9 + 29 * (lb + 1) \in 1 .. 96
    OBVIOUS
  <2>8. QED
    BY <2>2, <2>3, <2>6, <2>7, Zenon
<1>4. CASE w.chip \in ChipsWired[card] /\ w.reg \in Nat /\ w.data \in Nat
  <2>1. PICK c : c = Wiring[card][w.chip]
    OBVIOUS
  <2>2. SerialPort(c)
    BY <1>4, <2>1, Ports, Zenon
  <2>3. Port(c) /\ c.cif \in BOOLEAN
    BY <2>2 DEF SerialPort
  <2>4. PICK word \in Nat : word = Word(c, w)
    BY <1>4, <2>2, WordTyped, Zenon
  <2>5. PICK F : F = Frame(card, w)
    OBVIOUS
  <2>6. SerialFrame(F, card, c, word)
    BY <1>4, <2>1, <2>4, <2>5, SerialFrameIs, Zenon
  <2>7. c.cif = (card = "Phase22")
    BY <1>4, <2>1, CifIs, Zenon
  <2>8. F \in Seq(Accesses) /\ Len(F) \in 50 .. 77
    BY <2>3, <2>4, <2>6, <2>7, SerialFrameTyped
  <2>9. QED
    BY <2>5, <2>8
<1>5. QED
  BY <1>1, <1>2, <1>3, <1>4 DEF Writable
=============================================================================
