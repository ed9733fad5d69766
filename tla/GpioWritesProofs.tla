---------------------------- MODULE GpioWritesProofs ----------------------------
(***************************************************************************)
(* What the accesses of a call do to the codecs on a card's GPIO pins:     *)
(* between the accesses of a write to a serial codec that codec holds the  *)
(* bits so far and the others none; at its end the write, and nothing      *)
(* else, lands; so for the AC'97 codec behind its latches; card_init's     *)
(* other accesses wake no codec.                                           *)
(***************************************************************************)
EXTENDS CodecBusProofs

-----------------------------------------------------------------------------
(* The cards on GPIO pins: when card_init makes which call *)

\* The call of card_init that resets the Aureon's serial codecs.
CodecsAt(c) == Len(Tables[c]["AC97"]) + 3

LEMMA AureonArranged ==
    ASSUME NEW c \in Cards, c = "AureonSpace"
    PROVE  /\ Arranged(AureonSetUp(c), FitCalls(c), CodecsAt(c), "codecs",
                       {"ac97", "AC97"}, {"Aureon", "CS8415"})
           /\ CodecsAt(c) \in Nat /\ CodecsAt(c) >= 3
<1> DEFINE S == FitCalls(c)
           before == {"ac97", "AC97"}
           after == {"Aureon", "CS8415"}
           r == Step("ac97")
           w == Codec(c, "AC97")
           u == Step("codecs")
           f == Codec(c, "Aureon")
           s == Codec(c, "CS8415")
<1>1. c \in OnGpio
  BY GpioCardsAre DEF GpioCards
<1>2. r \in Seq(S) /\ Len(r) = 1 /\ ChipsIn(r, 1, Len(r), before)
  BY <1>1, StepsAre DEF StepsOf
<1>3. u \in Seq(S) /\ Len(u) = 1 /\ u[1].chip = "codecs"
  BY <1>1, StepsAre DEF StepsOf
<1>4. /\ "AC97" \in ChipsOf[c] /\ "Aureon" \in ChipsOf[c] /\ "CS8415" \in ChipsOf[c]
      /\ "AC97" \in before /\ "Aureon" \in after /\ "CS8415" \in after
  BY DEF ChipsOf
<1>5. /\ w \in Seq(S) /\ ChipsIn(w, 1, Len(w), before)
      /\ Len(w) = Len(Tables[c]["AC97"]) /\ Len(Tables[c]["AC97"]) \in Nat
  BY <1>4, TablesAre, Zenon
<1>6. f \in Seq(S) /\ ChipsIn(f, 1, Len(f), after)
  BY <1>4, TablesAre, Zenon
<1>7. s \in Seq(S) /\ ChipsIn(s, 1, Len(s), after)
  BY <1>4, TablesAre, Zenon
<1>8. PICK X1 : X1 = Step("boot")
  OBVIOUS
<1>9. Opening(X1, S, before) /\ Len(X1) = 1
  BY <1>1, <1>8, Opened
<1> HIDE DEF S, before, after, r, w, u, f, s
<1>10. PICK X2 : X2 = X1 \o r
  OBVIOUS
<1>11. Opening(X2, S, before) /\ Grown(X2, X1, r)
  BY <1>2, <1>9, <1>10, OpeningGrows, Zenon
<1>12. PICK X3 : X3 = X2 \o w
  OBVIOUS
<1>13. Opening(X3, S, before) /\ Grown(X3, X2, w)
  BY <1>5, <1>11, <1>12, OpeningGrows, Zenon
<1>14. PICK X4 : X4 = X3 \o u
  OBVIOUS
<1>15. Arranged(X4, S, Len(X3) + 1, "codecs", before, after)
  BY <1>3, <1>13, <1>14, StepFollows, Zenon
<1>16. PICK X5 : X5 = X4 \o f
  OBVIOUS
<1>17. Arranged(X5, S, Len(X3) + 1, "codecs", before, after)
  BY <1>6, <1>15, <1>16, ClosingGrows, Zenon
<1>18. PICK X6 : X6 = X5 \o s
  OBVIOUS
<1>19. Arranged(X6, S, Len(X3) + 1, "codecs", before, after)
  BY <1>7, <1>17, <1>18, ClosingGrows, Zenon
<1>20. X6 = AureonSetUp(c)
  BY <1>8, <1>10, <1>12, <1>14, <1>16, <1>18, Zenon DEF AureonSetUp, r, w, u, f, s
<1>21. CodecsAt(c) = Len(X3) + 1 /\ CodecsAt(c) \in Nat /\ CodecsAt(c) >= 3
  <2>1. PICK k \in Nat : k = Len(w) /\ k = Len(Tables[c]["AC97"])
    BY <1>5
  <2>2. Len(X2) = 2 /\ Len(X3) = Len(X2) + k
    BY <1>2, <1>9, <1>11, <1>13, <2>1 DEF Grown
  <2>3. QED
    BY <2>1, <2>2 DEF CodecsAt
<1>22. QED
  BY <1>19, <1>20, <1>21, Zenon DEF S, before, after

\* card_init begins with the GPIO registers.
StartsWithBoot(F) == Len(F) \in Nat \ {0} /\ F[1].chip = "boot"

LEMMA FirstIsBoot ==
    ASSUME NEW c \in Cards, c \in OnGpio
    PROVE  StartsWithBoot(SetUp[c])
<1> DEFINE S == FitCalls(c)
<1>1. \/ c \in MuteCards \/ c = "AureonSpace" \/ c = "Phase22" \/ c = "ProdigyHD2"
  BY GpioCardsAre DEF GpioCards, MuteCards
<1>2. CASE c \in MuteCards
  <2>1. Arranged(SetUp[c], FitCalls(c), UnmuteAt(c), "unmute", Before(c), After(c))
    BY <1>2, SetUpArranged
  <2>2. Len(SetUp[c]) \in Nat \ {0} /\ SetUp[c][1].chip = "boot"
    BY <2>1 DEF Arranged
  <2>3. QED
    BY <2>2 DEF StartsWithBoot
<1>3. CASE c = "AureonSpace"
  <2>1. PICK F : F = SetUp[c] /\ F = AureonSetUp(c)
    BY <1>3, SetUpsAre
  <2>2. Len(F) \in Nat \ {0} /\ F[1].chip = "boot"
    BY <1>3, <2>1, AureonArranged DEF Arranged
  <2>3. QED
    BY <2>1, <2>2 DEF StartsWithBoot
<1>4. ASSUME NEW chip \in ChipsOf[c], NEW F, F = Step("boot") \o Codec(c, chip)
      PROVE  StartsWithBoot(F)
  <2>1. PICK X : X = Step("boot")
    OBVIOUS
  <2>2. Opening(X, S, {chip})
    BY <2>1, Opened
  <2>3. Codec(c, chip) \in Seq(S) /\ ChipsIn(Codec(c, chip), 1, Len(Codec(c, chip)), {chip})
    BY TablesAre
  <2>4. Opening(F, S, {chip})
    BY <1>4, <2>1, <2>2, <2>3, OpeningGrows, Zenon
  <2>5. QED
    BY <2>4 DEF Opening, StartsWithBoot
<1>5. CASE c = "Phase22"
  <2>1. SetUp[c] = Step("boot") \o Codec(c, "Front")
    BY <1>5, SetUpsAre DEF Phase22SetUp
  <2>2. "Front" \in ChipsOf[c]
    BY <1>5 DEF ChipsOf
  <2>3. QED
    BY <1>4, <2>1, <2>2, Zenon
<1>6. CASE c = "ProdigyHD2"
  <2>1. SetUp[c] = Step("boot") \o Codec(c, "AK4396")
    BY <1>6, SetUpsAre DEF ProdigyHD2SetUp
  <2>2. "AK4396" \in ChipsOf[c]
    BY <1>6 DEF ChipsOf
  <2>3. QED
    BY <1>4, <2>1, <2>2, Zenon
<1>7. QED
  BY <1>1, <1>2, <1>3, <1>5, <1>6

-----------------------------------------------------------------------------
(* What an access does *)

LEMMA SetIs ==
    ASSUME NEW up, NEW down, NEW a, a = Set(up, down)
    PROVE  /\ a.op = "data" /\ a.up = up /\ a.down = down
           /\ Directed(a) = dir /\ MaskOf(a) = masked /\ Saved(a) = saved
           /\ Levels(a) = (pins \cup (up \ masked)) \ (down \ masked)
<1>1. a.op = "data" /\ a.up = up /\ a.down = down
  BY DEF Set, Access
<1>2. Directed(a) = dir /\ MaskOf(a) = masked /\ Saved(a) = saved
  BY <1>1 DEF Directed, MaskOf, Saved
<1>3. QED
  BY <1>1, <1>2 DEF Levels

LEMMA MaskIs ==
    ASSUME NEW m, NEW up, NEW down, NEW a, a = Mask(m, up, down)
    PROVE  /\ Directed(a) = dir /\ MaskOf(a) = m /\ Saved(a) = saved
           /\ Levels(a) = (pins \cup (up \ m)) \ (down \ m)
<1>1. a.op = "mask" /\ a.up = up /\ a.down = down /\ a.masked = m
  BY DEF Mask, Access
<1>2. Directed(a) = dir /\ MaskOf(a) = m /\ Saved(a) = saved
  BY <1>1 DEF Directed, MaskOf, Saved
<1>3. QED
  BY <1>1, <1>2 DEF Levels

LEMMA LinesIs ==
    ASSUME NEW out, NEW m, NEW up, NEW down, NEW a, a = Lines(out, m, up, down)
    PROVE  /\ Directed(a) = out /\ MaskOf(a) = m /\ Saved(a) = saved
           /\ Levels(a) = (pins \cup (up \ m)) \ (down \ m)
<1>1. a.op = "lines" /\ a.up = up /\ a.down = down /\ a.masked = m /\ a.out = out
  BY DEF Lines, Access
<1>2. Directed(a) = out /\ MaskOf(a) = m /\ Saved(a) = saved
  BY <1>1 DEF Directed, MaskOf, Saved
<1>3. QED
  BY <1>1, <1>2 DEF Levels

LEMMA SaveIs ==
    /\ Directed(SaveGPIO) = dir /\ MaskOf(SaveGPIO) = masked
    /\ Saved(SaveGPIO) = [dir |-> dir, masked |-> masked \ (16 .. 22)]
    /\ Levels(SaveGPIO) = pins
<1>1. PICK a : a = SaveGPIO
  OBVIOUS
<1>2. a.op = "save" /\ a.up = {} /\ a.down = {}
  BY <1>1 DEF SaveGPIO, Access
<1>3. /\ Directed(a) = dir /\ MaskOf(a) = masked /\ Levels(a) = pins
      /\ Saved(a) = [dir |-> dir, masked |-> masked \ (16 .. 22)]
  BY <1>2 DEF Directed, MaskOf, Saved, Levels
<1>4. QED
  BY <1>1, <1>3

LEMMA RestoreIs ==
    /\ Directed(RestoreGPIO) = saved.dir
    /\ MaskOf(RestoreGPIO) = saved.masked \cup (masked \cap 16 .. 22)
    /\ Saved(RestoreGPIO) = saved /\ Levels(RestoreGPIO) = pins
<1>1. PICK a : a = RestoreGPIO
  OBVIOUS
<1>2. a.op = "restore" /\ a.up = {} /\ a.down = {}
  BY <1>1 DEF RestoreGPIO, Access
<1>3. /\ Directed(a) = saved.dir /\ MaskOf(a) = saved.masked \cup (masked \cap 16 .. 22)
      /\ Saved(a) = saved /\ Levels(a) = pins
  BY <1>2 DEF Directed, MaskOf, Saved, Levels
<1>4. QED
  BY <1>1, <1>3

\* The pins, directions, mask and saved registers after an access.
Makes(a) ==
    /\ Change(Levels(a), Directed(a)) /\ pins' = Levels(a) /\ dir' = Directed(a)
    /\ masked' = MaskOf(a) /\ saved' = Saved(a) /\ card' = card /\ at' = at

LEMMA AccessMakes ==
    ASSUME NEW F, NEW a, Accessed(F, a)
    PROVE  /\ F = Frame(card, call) /\ n \in 1 .. Len(F) /\ a = F[n] /\ Makes(a)
           /\ UNCHANGED <<late, transfer>>
           /\ \/ n < Len(F) /\ n' = n + 1 /\ pc' = pc /\ call' = call
              \/ n = Len(F) /\ n' = 0 /\ pc' = "idle" /\ call' = None
<1>1. /\ F = Frame(card, call) /\ Len(F) \in 1 .. 96 /\ n \in 1 .. Len(F) /\ a = F[n]
      /\ Change(Levels(a), Directed(a)) /\ masked' = MaskOf(a) /\ saved' = Saved(a)
      /\ IF n < Len(F)
         THEN n' = n + 1 /\ UNCHANGED <<pc, call>>
         ELSE n' = 0 /\ pc' = "idle" /\ call' = None
  BY DEF Accessed
<1>2. UNCHANGED <<late, transfer, card, at>>
  BY DEF Accessed, init, i2c
<1>3. pins' = Levels(a) /\ dir' = Directed(a)
  BY <1>1 DEF Change
<1>4. \/ n < Len(F) /\ n' = n + 1 /\ pc' = pc /\ call' = call
      \/ n = Len(F) /\ n' = 0 /\ pc' = "idle" /\ call' = None
  BY <1>1
<1>5. QED
  BY <1>1, <1>2, <1>3, <1>4, Zenon DEF Makes

\* The codecs on pins, that a card can have.
LEMMA WiredPorts ==
    ASSUME card \in OnGpio, NEW k \in Serial(card)
    PROVE  SerialPort(Wiring[card][k]) /\ Wiring[card][k].cif = (card = "Phase22")
BY GpioCardsAre, SerialIs, Ports, CifIs

-----------------------------------------------------------------------------
(* What lands *)

Still == \A k \in Serial(card) : shift[k] = NoBits

\* A codec that has no bits, and gets none as the pins change to new.
Idle(k, new) ==
    /\ shift[k] = NoBits
    /\ \/ Wiring[card][k].clk \notin new \ pins
       \/ Wiring[card][k].cs \in new /\ ~Wiring[card][k].cif

LEMMA IdleStays ==
    ASSUME card \in OnGpio, Devices, NEW k \in Serial(card), NEW new, NEW out,
           Change(new, out), Idle(k, new)
    PROVE  shift'[k] = NoBits /\ Decoded(k, shift[k]) = {}
<1>1. PICK w : w = Wiring[card][k]
  OBVIOUS
<1>2. DOMAIN shift = Serial(card)
  BY DEF Devices
<1>3. shift'[k] = IF k \in Latching(new) THEN NoBits ELSE Shifted(w, shift[k], new)
  BY <1>1, <1>2 DEF Change
<1>4. Shifted(w, shift[k], new) = NoBits
  BY <1>1 DEF Shifted, Idle
<1>5. Decoded(k, shift[k]) = {}
  <2>1. w.width # 0
    BY <1>1, WiredPorts DEF SerialPort, Port
  <2>2. NoBits.bits = 0
    BY DEF NoBits
  <2>3. QED
    BY <1>1, <2>1, <2>2 DEF Decoded, Idle
<1>6. QED
  BY <1>3, <1>4, <1>5

LEMMA AllIdle ==
    ASSUME card \in OnGpio, card' = card, Devices, NEW new, NEW out, Change(new, out),
           \A k \in Serial(card) : Idle(k, new)
    PROVE  Still' /\ FromCodecs(new) = {}
<1>1. \A k \in Serial(card) : shift'[k] = NoBits /\ Decoded(k, shift[k]) = {}
  BY IdleStays
<1>2. Latching(new) \subseteq Serial(card)
  BY DEF Latching, Devices
<1>3. Serial(card') = Serial(card)
  OBVIOUS
<1>4. QED
  BY <1>1, <1>2, <1>3 DEF Still, FromCodecs

\* Of the Aureon's latches and the PT2258 nothing lands.
NoneAside(new, out) ==
    /\ card = "AureonSpace" => Committed(new) = {}
    /\ card = "Revo51" => Stopped(new, out) = {}

LEMMA LandingIs ==
    ASSUME NEW new, NEW out, NoneAside(new, out)
    PROVE  Landing(new, out) = FromCodecs(new)
BY DEF Landing, NoneAside

\* The registers are a function.
Registers == regs = [r \in DOMAIN regs |-> regs[r]]

LEMMA NothingLands ==
    ASSUME Registers, NEW new, NEW out, Change(new, out), Landing(new, out) = {}
    PROVE  regs' = regs /\ (latched' <=> latched)
BY DEF Registers, Change

LEMMA OneLands ==
    ASSUME NEW new, NEW out, NEW l, Change(new, out), Landing(new, out) = {l}
    PROVE  regs' = [regs EXCEPT ![<<l.chip, l.reg>>] = l.data] /\ latched'
<1>1. PICK L : L = Landing(new, out) /\ L = {l}
  OBVIOUS
<1>2. \A r : (\E x \in L : <<x.chip, x.reg>> = r) = (<<l.chip, l.reg>> = r)
  BY <1>1
<1>3. ASSUME NEW r, r = <<l.chip, l.reg>>
      PROVE  (CHOOSE x \in L : <<x.chip, x.reg>> = r) = l
  BY <1>1, <1>3
<1>4. /\ regs' = [r \in DOMAIN regs |->
                    IF \E x \in L : <<x.chip, x.reg>> = r
                    THEN (CHOOSE x \in L : <<x.chip, x.reg>> = r).data ELSE regs[r]]
      /\ latched' = (latched \/ L # {})
  BY <1>1, Zenon DEF Change
<1>5. ASSUME NEW r \in DOMAIN regs
      PROVE  (IF \E x \in L : <<x.chip, x.reg>> = r
              THEN (CHOOSE x \in L : <<x.chip, x.reg>> = r).data ELSE regs[r])
                = [regs EXCEPT ![<<l.chip, l.reg>>] = l.data][r]
  <2>1. CASE r = <<l.chip, l.reg>>
    <3>1. (CHOOSE x \in L : <<x.chip, x.reg>> = r) = l
      BY <1>3, <2>1
    <3>2. \E x \in L : <<x.chip, x.reg>> = r
      BY <1>1, <2>1
    <3>3. [regs EXCEPT ![<<l.chip, l.reg>>] = l.data][r] = l.data
      BY <1>5, <2>1, Zenon
    <3>4. QED
      BY <3>1, <3>2, <3>3, Zenon
  <2>2. CASE r # <<l.chip, l.reg>>
    <3>1. ~ \E x \in L : <<x.chip, x.reg>> = r
      BY <1>1, <2>2
    <3>2. [regs EXCEPT ![<<l.chip, l.reg>>] = l.data][r] = regs[r]
      BY <1>5, <2>2, Zenon
    <3>3. QED
      BY <3>1, <3>2, Zenon
  <2>3. QED
    BY <2>1, <2>2
<1>6. regs' = [regs EXCEPT ![<<l.chip, l.reg>>] = l.data]
  <2>1. DOMAIN [regs EXCEPT ![<<l.chip, l.reg>>] = l.data] = DOMAIN regs
    BY Zenon
  <2>2. [regs EXCEPT ![<<l.chip, l.reg>>] = l.data]
            = [r \in DOMAIN regs |-> [regs EXCEPT ![<<l.chip, l.reg>>] = l.data][r]]
    BY Zenon
  <2>3. QED
    BY <1>4, <1>5, <2>2, Zenon
<1>7. QED
  BY <1>1, <1>4, <1>6

LEMMA RegistersStay ==
    ASSUME NEW new, NEW out, Change(new, out)
    PROVE  Registers'
BY DEF Change, Registers

\* What an access does to the write of its call.
Delivers(a) ==
    \/ /\ Landing(Levels(a), Directed(a)) = {}
       /\ n = Len(Frame(card, call)) => latched \/ ~IsWrite(call)
    \/ Landing(Levels(a), Directed(a)) = {call} /\ ~latched /\ IsWrite(call)

-----------------------------------------------------------------------------
(* Which call is made when *)

\* card_init has made its first access to the GPIO registers.
PastBoot == at = 0 \/ at > 2 \/ (at = 2 /\ pc = "idle")

\* What a call on GPIO pins can be.
GpioCall(c, w) ==
    \/ w.chip \in StepsOf[c]
    \/ /\ w.chip \in ChipsWired[c] /\ w.chip \in ChipsOf[c]
       /\ w.reg \in 0 .. Wiring[c][w.chip].registers - 1
       /\ w.data \in 0 .. Wiring[c][w.chip].values - 1
    \/ c = "Revo51" /\ w.chip = "PT2258" /\ w.reg = 0 /\ w.data \in Words16
    \/ c = "AureonSpace" /\ w.chip = "AC97" /\ w.reg \in 0 .. 127 /\ w.data \in Words16

LEMMA GpioCalls ==
    ASSUME NEW c \in Cards, c \in OnGpio, NEW w \in CallsOf[c]
    PROVE  GpioCall(c, w) /\ w # None
<1>1. Fitting(c, w) /\ w # None
  BY CallsFit
<1>2. QED
  BY <1>1, Zenon DEF Fitting, GpioCall

\* A call is what Call makes of its fields.
LEMMA CallIs ==
    ASSUME NEW c \in Cards, NEW w \in CallsOf[c]
    PROVE  w = Call(w.chip, w.reg, w.data)
<1>1. CallsOf[c] = WritesOf(c) \cup {SetUp[c][i] : i \in DOMAIN SetUp[c]}
  BY DEF CallsOf
<1>2. CASE w \in WritesOf(c)
  <2>1. PICK t \in Targets[c], d \in DataFor[c] : w = Call(t[1], t[2], d)
    BY <1>2 DEF WritesOf
  <2>2. QED
    BY <2>1 DEF Call
<1>3. CASE \E i \in DOMAIN SetUp[c] : w = SetUp[c][i]
  <2>1. PICK i \in DOMAIN SetUp[c] : w = SetUp[c][i]
    BY <1>3
  <2>2. SetUp[c] \in Seq(FitCalls(c))
    BY SetUpFits
  <2>3. w \in FitCalls(c)
    BY <2>1, <2>2
  <2>4. w \in [chip : Names, reg : Nat, data : Nat]
    BY <2>3 DEF FitCalls
  <2>5. QED
    BY <2>4 DEF Call
<1>4. QED
  BY <1>1, <1>2, <1>3

\* card_init's second call comes after the boot; the mixer writes to codecs
\* that have a serial port.
LEMMA CallTimes ==
    ASSUME card \in Cards, card \in OnGpio, CallsInOrder, pc = "gpio",
           at \in 0 .. Len(SetUp[card]) + 1
    PROVE  /\ at = 0 \/ at >= 2
           /\ at = 2 => call.chip = "boot"
           /\ at = 0 => call.chip \in ChipsWired[card] /\ call.chip \in ChipsOf[card]
<1>1. CASE at = 0
  <2>1. PICK t \in Targets[card], d \in DataFor[card] : call = Call(t[1], t[2], d)
    BY <1>1 DEF CallsInOrder, WritesOf
  <2>2. t[1] \in ChipsOf[card] /\ t[1] \in DOMAIN Wiring[card]
    BY <2>1, TablesAssumption
  <2>3. DOMAIN Wiring[card] = ChipsWired[card]
    BY GpioCardsAre, ChipsAre
  <2>4. call.chip = t[1]
    BY <2>1 DEF Call
  <2>5. QED
    BY <1>1, <2>2, <2>3, <2>4
<1>2. CASE at # 0
  <2>1. at > 1 /\ call = SetUp[card][at - 1]
    BY <1>2 DEF CallsInOrder
  <2>2. SetUp[card][1].chip = "boot" /\ Len(SetUp[card]) \in Nat
    BY FirstIsBoot DEF StartsWithBoot
  <2>3. at \in Nat /\ at >= 2 /\ (at = 2 => at - 1 = 1)
    BY <2>1, <2>2
  <2>4. QED
    BY <1>2, <2>1, <2>2, <2>3
<1>3. QED
  BY <1>1, <1>2

-----------------------------------------------------------------------------
(* A word on its way into a codec *)

\* Two codecs of a card share pins, but never a select.
LEMMA Apart ==
    ASSUME card \in OnGpio, NEW k \in Serial(card), NEW chip \in Serial(card), k # chip
    PROVE  /\ ~Wiring[card][k].cif
           /\ Wiring[card][k].cs \notin {Wiring[card][chip].cs, Wiring[card][chip].clk,
                                         Wiring[card][chip].data}
<1>1. card \in GpioCards /\ Serial(card) = ChipsWired[card]
  BY GpioCardsAre, SerialIs
<1>2. card # "Phase22"
  BY <1>1 DEF ChipsWired
<1>3. ~Wiring[card][k].cif
  BY <1>1, <1>2, CifIs
<1>4. CASE card = "Revo71"
  <2>1. {k, chip} = {"Front", "Surround"}
    BY <1>1, <1>4 DEF ChipsWired
  <2>2. QED
    BY <1>3, <1>4, <2>1, WiringIs, SMTT(30) DEF Akm, Wired
<1>5. CASE card = "Revo51"
  <2>1. {k, chip} = {"Front", "Rec"}
    BY <1>1, <1>5 DEF ChipsWired
  <2>2. QED
    BY <1>3, <1>5, <2>1, WiringIs, SMTT(30) DEF Akm, Wired
<1>6. CASE card = "AP192"
  <2>1. {k, chip} = {"AP192", "AK4114"}
    BY <1>1, <1>6 DEF ChipsWired
  <2>2. QED
    BY <1>3, <1>6, <2>1, WiringIs, SMTT(30) DEF Akm, Wired
<1>7. CASE card = "AureonSpace"
  <2>1. {k, chip} = {"Aureon", "CS8415"}
    BY <1>1, <1>7 DEF ChipsWired
  <2>2. QED
    BY <1>3, <1>7, <2>1, WiringIs DEF Wired
<1>8. card # "ProdigyHD2"
  BY <1>1 DEF ChipsWired
<1>9. QED
  BY <1>1, <1>2, <1>4, <1>5, <1>6, <1>7, <1>8 DEF GpioCards

\* j of the word's 3 * w.width accesses were made (and with cif one more): the
\* codec chip holds the bits so far, the others none.
Taking(chip, w, word, j) ==
    /\ {w.cs, w.clk, w.data} \cap masked = {}
    /\ \A k \in Serial(card) \ {chip} :
          shift[k] = NoBits /\ Wiring[card][k].cs \in pins
    /\ shift[chip] = [bits |-> j \div 3, word |-> word \div 2^(w.width - (j \div 3))]
    /\ ~w.cif \/ j > 3 * w.width => w.cs \notin pins
    /\ j % 3 = 0 /\ j > 0 => w.clk \in pins
    /\ j % 3 # 0 /\ j < 3 * w.width => w.clk \notin pins
    /\ j % 3 = 2 => (w.data \in pins <=> BitSet(word, w.width - 1 - (j \div 3)))

\* Nothing lands in a codec unless a select rises.
LEMMA NoneSelected ==
    ASSUME card \in OnGpio, Devices, NEW new,
           \A k \in Serial(card) : Wiring[card][k].cs \in new => Wiring[card][k].cs \in pins
    PROVE  Latching(new) = {} /\ FromCodecs(new) = {}
<1>1. DOMAIN shift = Serial(card)
  BY DEF Devices
<1>2. Latching(new) = {}
  BY <1>1 DEF Latching, Latches
<1>3. QED
  BY <1>2 DEF FromCodecs

\* A bit, taken as the clock rises.
LEMMA BitTaken ==
    ASSUME NEW w, SerialPort(w), NEW word \in Nat, word < 2^w.width,
           NEW t \in 0 .. w.width - 1, NEW bit, bit = IF BitSet(word, w.width - 1 - t) THEN 1 ELSE 0
    PROVE  (2 * (word \div 2^(w.width - t)) + bit) % 2^w.width = word \div 2^(w.width - (t + 1))
<1>1. w.width \in {16, 24}
  BY DEF SerialPort, Port
<1>2. PICK i \in 0 .. 23 : i = w.width - 1 - t
  BY <1>1
<1>3. PICK m \in Nat \ {0} : m = 2^i /\ 2^(i + 1) = 2 * m
  BY Powers
<1>4. w.width - t = i + 1 /\ w.width - (t + 1) = i
  BY <1>1, <1>2
<1>5. PICK q, b : q = word \div m /\ b = q % 2
  OBVIOUS
<1>6. q \in Nat /\ q = 2 * (word \div (2 * m)) + b /\ b \in 0 .. 1
  <2>1. /\ word \div m \in Nat
        /\ word \div m = 2 * (word \div (2 * m)) + ((word \div m) % 2)
    BY Halves
  <2>2. q \in Nat /\ q = 2 * (word \div (2 * m)) + b
    BY <1>5, <2>1, Zenon
  <2>3. QED
    BY <1>5, <2>2
<1>7. bit = b
  BY <1>2, <1>3, <1>5, <1>6 DEF BitSet
<1>8. q <= word
  BY <1>3, <1>5
<1>9. PICK p : p = 2^w.width
  OBVIOUS
<1>10. p \in Nat \ {0}
  <2>1. PICK l \in 0 .. 23 : w.width = l + 1
    BY <1>1
  <2>2. 2^(l + 1) = 2 * 2^l /\ 2^l \in Nat \ {0}
    BY Powers
  <2>3. PICK x \in Nat \ {0} : x = 2^l
    BY <2>2
  <2>4. QED
    BY <1>9, <2>1, <2>2, <2>3
<1>11. q % p = q
  BY <1>6, <1>8, <1>9, <1>10
<1>12. 2 * (word \div 2^(w.width - t)) + bit = q
  <2>1. word \div 2^(w.width - t) = word \div (2 * m)
    BY <1>3, <1>4
  <2>2. QED
    BY <1>6, <1>7, <2>1
<1>13. QED
  BY <1>3, <1>4, <1>2, <1>5, <1>9, <1>11, <1>12

\* One access of the bits takes the codec on by one access.
BitMade(chip, w, word, j, a) ==
    /\ Taking(chip, w, word, j + 1)' /\ FromCodecs(Levels(a)) = {}
    /\ \A p \in Pins \ {w.clk, w.data} : (p \in Levels(a)) = (p \in pins)
    /\ Directed(a) = dir /\ MaskOf(a) = masked

LEMMA BitStep ==
    ASSUME card \in OnGpio, Devices, NEW chip \in Serial(card), NEW w, w = Wiring[card][chip],
           NEW word \in Nat, word < 2^w.width, NEW j \in 0 .. 3 * w.width - 1,
           Taking(chip, w, word, j), NEW a, a = Bits(w, word)[j + 1], Makes(a)
    PROVE  BitMade(chip, w, word, j, a)
<1>1. SerialPort(w) /\ w.width \in {16, 24} /\ Serial(card') = Serial(card) /\ card' = card
  BY WiredPorts DEF Makes, SerialPort, Port
<1>2. PICK t \in 0 .. w.width - 1, r \in 0 .. 2 : j = 3 * t + r
  <2>1. PICK W : W = w.width /\ W \in {16, 24} /\ j \in 0 .. 3 * W - 1
    BY <1>1
  <2>2. PICK t, r : t = j \div 3 /\ r = j % 3
    OBVIOUS
  <2>3. t \in 0 .. W - 1 /\ r \in 0 .. 2 /\ j = 3 * t + r
    <3>1. CASE W = 16
      BY <2>1, <2>2, <3>1
    <3>2. CASE W = 24
      BY <2>1, <2>2, <3>2
    <3>3. QED
      BY <2>1, <3>1, <3>2
  <2>4. QED
    BY <2>1, <2>3
<1>3. j \div 3 = t /\ j % 3 = r
  BY <1>1, <1>2
<1>4. j < 3 * w.width /\ ~(j > 3 * w.width) /\ ~(j + 1 > 3 * w.width) /\ j + 1 > 0
  BY <1>1
<1>5. PICK new, b : new = Levels(a) /\ b = BitSet(word, w.width - 1 - t)
  OBVIOUS
<1>6. /\ r = 0 => a = Set({}, {w.clk})
      /\ r = 1 => a = IF b THEN Set({w.data}, {}) ELSE Set({}, {w.data})
      /\ r = 2 => a = Set({w.clk}, {})
  <2>1. j + 1 \in 1 .. 3 * w.width /\ (j + 1) % 3 = (r + 1) % 3 /\ (j + 1) - 1 = j
    BY <1>1, <1>2
  <2>2. Port(w)
    BY <1>1 DEF SerialPort
  <2>3. PICK i : i = j + 1 /\ i \in 1 .. 3 * w.width
    BY <2>1
  <2>4. /\ i % 3 = 1 => a = Set({}, {w.clk})
        /\ i % 3 = 2 => a = IF BitSet(word, w.width - 1 - ((i - 1) \div 3))
                            THEN Set({w.data}, {}) ELSE Set({}, {w.data})
        /\ i % 3 = 0 => a = Set({w.clk}, {})
    BY <2>2, <2>3, BitEntries
  <2>5. i - 1 = j /\ (r = 0 => i % 3 = 1) /\ (r = 1 => i % 3 = 2) /\ (r = 2 => i % 3 = 0)
    BY <1>2, <2>3
  <2>6. b = BitSet(word, w.width - 1 - ((i - 1) \div 3))
    BY <1>3, <1>5, <2>5
  <2>7. QED
    BY <2>4, <2>5, <2>6, Zenon
<1>7. /\ Directed(a) = dir /\ MaskOf(a) = masked
      /\ r = 0 => new = pins \ {w.clk}
      /\ r = 1 => new = IF b THEN pins \cup {w.data} ELSE pins \ {w.data}
      /\ r = 2 => new = pins \cup {w.clk}
  <2>1. w.clk \notin masked /\ w.data \notin masked /\ b \in BOOLEAN
    BY <1>5 DEF Taking, BitSet
  <2>2. ASSUME NEW up, NEW down, a = Set(up, down)
        PROVE  /\ Directed(a) = dir /\ MaskOf(a) = masked
               /\ new = (pins \cup (up \ masked)) \ (down \ masked)
    BY <1>5, <2>2, SetIs
  <2>3. CASE r = 0
    BY <1>6, <2>1, <2>2, <2>3
  <2>4. CASE r = 1 /\ b
    BY <1>6, <2>1, <2>2, <2>4
  <2>5. CASE r = 1 /\ ~b
    BY <1>6, <2>1, <2>2, <2>5
  <2>6. CASE r = 2
    BY <1>6, <2>1, <2>2, <2>6
  <2>7. QED
    BY <1>2, <2>1, <2>3, <2>4, <2>5, <2>6
<1>8. \A p \in Pins \ {w.clk, w.data} : (p \in new) = (p \in pins)
  BY <1>2, <1>7
<1>9. /\ \A k \in Serial(card) : (Wiring[card][k].cs \in new) = (Wiring[card][k].cs \in pins)
      /\ w.cs \in Pins /\ w.clk # w.data
  BY <1>1, <1>8, Apart, WiredPorts DEF SerialPort, Port
<1>10. Latching(new) = {} /\ FromCodecs(new) = {}
  BY <1>9, NoneSelected
<1>11. /\ Change(new, Directed(a)) /\ pins' = new /\ masked' = masked
  BY <1>5, <1>7 DEF Makes
<1>12. \A k \in Serial(card) : shift'[k] = Shifted(Wiring[card][k], shift[k], new)
  BY <1>10, <1>11 DEF Change, Devices
<1>13. \A k \in Serial(card) \ {chip} : shift'[k] = NoBits
  <2>1. TAKE k \in Serial(card) \ {chip}
  <2>2. shift[k] = NoBits /\ Wiring[card][k].cs \in pins /\ ~Wiring[card][k].cif
    BY Apart DEF Taking
  <2>3. Wiring[card][k].cs \in new
    BY <1>9, <2>2
  <2>4. QED
    BY <1>12, <2>2, <2>3 DEF Shifted
<1>14. PICK s : s = shift[chip] /\ s = [bits |-> t, word |-> word \div 2^(w.width - t)]
  BY <1>3 DEF Taking
<1>15. w.cif \/ w.cs \notin new
  BY <1>1, <1>9, <1>2 DEF Taking, SerialPort
<1>16. shift'[chip] = Shifted(w, s, new)
  BY <1>12, <1>14
<1>17. CASE r # 2
  <2>1. w.clk \notin new \ pins
    BY <1>2, <1>7, <1>9, <1>17
  <2>2. ~(w.cs \in pins /\ w.cs \notin new /\ ~w.cif)
    BY <1>9
  <2>3. shift'[chip] = s
    BY <1>16, <2>1, <2>2 DEF Shifted
  <2>4. (j + 1) \div 3 = t /\ (j + 1) % 3 = r + 1
    BY <1>1, <1>2, <1>17
  <2>5. (r = 0 \/ r = 1) /\ w.clk \notin new
    BY <1>2, <1>3, <1>7, <1>9, <1>17, <1>4 DEF Taking
  <2>6. r = 1 => (w.data \in new <=> b)
    BY <1>7
  <2>7. Taking(chip, w, word, j + 1)'
    BY <1>1, <1>2, <1>3, <1>5, <1>9, <1>11, <1>13, <1>14, <2>3, <2>4, <2>5, <2>6 DEF Taking
  <2>8. QED
    BY <1>5, <1>7, <1>8, <1>10, <2>7 DEF BitMade
<1>18. CASE r = 2
  <2>1. w.clk \in new \ pins /\ (w.cs \notin new \/ w.cif)
    BY <1>3, <1>7, <1>15, <1>18, <1>4 DEF Taking
  <2>2. w.data \in new <=> b
    BY <1>3, <1>5, <1>7, <1>9, <1>18 DEF Taking
  <2>3. ~(w.cs \in pins /\ w.cs \notin new /\ ~w.cif)
    BY <1>9
  <2>4. PICK bit : bit = IF b THEN 1 ELSE 0
    OBVIOUS
  <2>5. shift'[chip] = [bits |-> t + 1, word |-> (2 * (word \div 2^(w.width - t)) + bit) % 2^w.width]
    <3>1. Shifted(w, s, new) =
             [bits |-> IF s.bits <= w.width THEN s.bits + 1 ELSE s.bits,
              word |-> (2 * s.word + (IF w.data \in new THEN 1 ELSE 0)) % 2^w.width]
      BY <2>1, <2>3 DEF Shifted
    <3>2. s.bits = t /\ s.word = word \div 2^(w.width - t) /\ t <= w.width
      BY <1>1, <1>14
    <3>3. (IF w.data \in new THEN 1 ELSE 0) = bit
      BY <2>2, <2>4
    <3>4. QED
      BY <1>16, <3>1, <3>2, <3>3
  <2>6. (2 * (word \div 2^(w.width - t)) + bit) % 2^w.width = word \div 2^(w.width - (t + 1))
    BY <1>1, <1>5, <2>4, BitTaken
  <2>7. (j + 1) \div 3 = t + 1 /\ (j + 1) % 3 = 0
    BY <1>1, <1>2, <1>18
  <2>8. Taking(chip, w, word, j + 1)'
    <3>1. shift'[chip] = [bits |-> t + 1, word |-> word \div 2^(w.width - (t + 1))]
      BY <2>5, <2>6
    <3>2. QED
      BY <1>1, <1>2, <1>9, <1>11, <1>13, <2>1, <2>7, <3>1 DEF Taking
  <2>9. QED
    BY <1>5, <1>7, <1>8, <1>10, <2>8 DEF BitMade
<1>19. QED
  BY <1>2, <1>17, <1>18

-----------------------------------------------------------------------------
(* A whole word, and what its codec makes of it *)

\* Prefix, register and value can be had back from the word.
Made(c, reg, value, word) ==
    /\ word \in Nat /\ word < 2^c.width
    /\ word \div (c.registers * c.values) = c.prefix
    /\ (word \div c.values) % c.registers = reg
    /\ word % c.values = value

LEMMA WordMade ==
    ASSUME NEW c, SerialPort(c), NEW w, w.reg \in 0 .. c.registers - 1,
           w.data \in 0 .. c.values - 1
    PROVE  Made(c, w.reg, w.data, Word(c, w))
<1>1. PICK p, r, d, x : p = c.prefix /\ r = w.reg /\ d = w.data /\ x = Word(c, w)
  OBVIOUS
<1>2. x = (p * c.registers + (r % c.registers)) * c.values + (d % c.values)
  BY <1>1 DEF Word
<1>3. CASE c.width = 16 /\ p \in 0 .. 7 /\ c.registers = 32 /\ c.values = 256
  <2>1. r \in 0 .. 31 /\ d \in 0 .. 255 /\ r % 32 = r /\ d % 256 = d
    BY <1>1, <1>3
  <2>2. x = (p * 32 + r) * 256 + d
    BY <1>2, <1>3, <2>1
  <2>3. 2^16 = 256 * 256
    OBVIOUS
  <2>4. x \in Nat /\ x < 256 * 256
    BY <1>3, <2>1, <2>2
  <2>5. x % 256 = d /\ x \div 256 = p * 32 + r
    BY <1>3, <2>1, <2>2
  <2>6. (p * 32 + r) % 32 = r
    BY <1>3, <2>1
  <2>7. x \div (32 * 256) = p
    BY <1>3, <2>1, <2>2
  <2>8. QED
    BY <1>1, <1>3, <2>3, <2>4, <2>5, <2>6, <2>7 DEF Made
<1>4. CASE c.width = 16 /\ p = 0 /\ c.registers = 128 /\ c.values = 512
  <2>1. r \in 0 .. 127 /\ d \in 0 .. 511 /\ r % 128 = r /\ d % 512 = d
    BY <1>1, <1>4
  <2>2. x = r * 512 + d
    BY <1>2, <1>4, <2>1
  <2>3. 2^16 = 128 * 512
    OBVIOUS
  <2>4. x \in Nat /\ x < 128 * 512
    BY <2>1, <2>2
  <2>5. x % 512 = d /\ x \div 512 = r
    BY <2>1, <2>2
  <2>6. x \div (128 * 512) = p
    BY <1>4, <2>4
  <2>7. QED
    BY <1>1, <1>4, <2>1, <2>3, <2>4, <2>5, <2>6 DEF Made
<1>5. CASE c.width = 24 /\ p = 32 /\ c.registers = 256 /\ c.values = 256
  <2>1. r \in 0 .. 255 /\ d \in 0 .. 255 /\ r % 256 = r /\ d % 256 = d
    BY <1>1, <1>5
  <2>2. x = (32 * 256 + r) * 256 + d
    BY <1>2, <1>5, <2>1
  <2>3. 2^24 = 256 * 256 * 256
    OBVIOUS
  <2>4. x \in Nat /\ x < 256 * 256 * 256
    BY <2>1, <2>2
  <2>5. x % 256 = d /\ x \div 256 = 32 * 256 + r
    BY <2>1, <2>2
  <2>6. (32 * 256 + r) % 256 = r
    BY <2>1
  <2>7. x \div (256 * 256) = 32
    BY <2>1, <2>2
  <2>8. QED
    BY <1>1, <1>5, <2>3, <2>4, <2>5, <2>6, <2>7 DEF Made
<1>6. QED
  BY <1>1, <1>3, <1>4, <1>5 DEF SerialPort, Sized

Deselected == \A k \in Serial(card) : Wiring[card][k].cs \in pins

\* The access after which a word is complete.
Last(w) == IF w.cif THEN 3 * w.width + 1 ELSE 3 * w.width

\* The select rises: the word lands.
WordLands(chip, w, reg, value, new) ==
    FromCodecs(new) = {Call(chip, reg, value)} /\ Still' /\ Deselected'

LEMMA SelectRises ==
    ASSUME card \in OnGpio, card' = card, Devices, NEW chip \in Serial(card), NEW w,
           w = Wiring[card][chip], NEW reg, NEW value, NEW word, Made(w, reg, value, word),
           Taking(chip, w, word, Last(w)), NEW new, NEW out, Change(new, out),
           \A k \in Serial(card) : Wiring[card][k].cs \in new
    PROVE  WordLands(chip, w, reg, value, new)
<1>1. SerialPort(w) /\ w.width \in {16, 24} /\ w.cif \in BOOLEAN
  BY WiredPorts DEF SerialPort, Port
<1>2. PICK j : j = Last(w)
  OBVIOUS
<1>3. j \div 3 = w.width /\ w.width - j \div 3 = 0 /\ (w.cif => j > 3 * w.width)
  <2>1. CASE w.width = 16
    BY <1>1, <1>2, <2>1 DEF Last
  <2>2. CASE w.width = 24
    BY <1>1, <1>2, <2>2 DEF Last
  <2>3. QED
    BY <1>1, <2>1, <2>2
<1>4. w.cs \notin pins
  BY <1>1, <1>2, <1>3 DEF Taking
<1>5. shift[chip] = [bits |-> w.width, word |-> word]
  <2>1. shift[chip] = [bits |-> w.width, word |-> word \div 2^0]
    BY <1>2, <1>3 DEF Taking
  <2>2. word \in Nat /\ 2^0 = 1
    BY DEF Made
  <2>3. word \div 1 = word
    BY <2>2
  <2>4. QED
    BY <2>1, <2>2, <2>3
<1>6. DOMAIN shift = Serial(card)
  BY DEF Devices
<1>7. Latching(new) = {chip}
  <2>1. chip \in Latching(new)
    BY <1>4, <1>6 DEF Latching, Latches
  <2>2. ASSUME NEW k \in Serial(card), k # chip
        PROVE  k \notin Latching(new)
    BY <2>2 DEF Latching, Latches, Taking
  <2>3. QED
    BY <1>6, <2>1, <2>2 DEF Latching
<1>8. FromCodecs(new) = {Call(chip, reg, value)}
  <2>1. Decoded(chip, shift[chip]) = {Call(chip, reg, value)}
    <3>1. PICK s : s = shift[chip] /\ s = [bits |-> w.width, word |-> word]
      BY <1>5
    <3>2. Decoded(chip, s) = {Call(chip, reg, value)}
      BY <1>1, <3>1 DEF Decoded, Made
    <3>3. QED
      BY <3>1, <3>2
  <2>2. FromCodecs(new) = Decoded(chip, shift[chip])
    BY <1>7 DEF FromCodecs
  <2>3. QED
    BY <2>1, <2>2
<1>9. Still'
  <2>1. ASSUME NEW k \in Serial(card)
        PROVE  shift'[k] = NoBits
    <3>1. shift'[k] = IF k \in Latching(new) THEN NoBits ELSE Shifted(Wiring[card][k], shift[k], new)
      BY <1>6 DEF Change
    <3>2. CASE k = chip
      BY <1>7, <3>1, <3>2
    <3>3. CASE k # chip
      <4>1. shift[k] = NoBits /\ ~Wiring[card][k].cif /\ Wiring[card][k].cs \in new
        BY <3>3, Apart DEF Taking
      <4>2. Shifted(Wiring[card][k], shift[k], new) = NoBits
        BY <4>1 DEF Shifted
      <4>3. QED
        BY <3>1, <4>2
    <3>4. QED
      BY <3>2, <3>3
  <2>2. QED
    BY <2>1 DEF Still
<1>10. Deselected'
  BY DEF Deselected, Change
<1>11. QED
  BY <1>8, <1>9, <1>10 DEF WordLands

\* The codec is selected, if it has to be, and has no bits yet.
LEMMA WordBegins ==
    ASSUME card' \in OnGpio, NEW chip \in Serial(card'), NEW w, SerialPort(w), NEW word \in Nat,
           word < 2^w.width, Still', ({w.cs, w.clk, w.data} \cap masked = {})',
           \A k \in Serial(card') \ {chip} : Wiring[card'][k].cs \in pins',
           w.cif \/ w.cs \notin pins'
    PROVE  Taking(chip, w, word, 0)'
<1>1. w.width \in {16, 24}
  BY DEF SerialPort, Port
<1>2. word \div 2^w.width = 0
  <2>1. CASE w.width = 16
    BY <2>1
  <2>2. CASE w.width = 24
    BY <2>2
  <2>3. QED
    BY <1>1, <2>1, <2>2
<1>3. 0 \div 3 = 0 /\ 0 % 3 = 0 /\ w.width - 0 = w.width /\ ~(0 > 3 * w.width)
  BY <1>1
<1>4. shift'[chip] = [bits |-> 0 \div 3, word |-> word \div 2^(w.width - (0 \div 3))]
  BY <1>1, <1>2, <1>3 DEF Still, NoBits
<1>5. QED
  BY <1>3, <1>4 DEF Taking, Still

-----------------------------------------------------------------------------
(* A write to a serial codec *)

\* How many accesses of the frame precede those of the bits.
Lead(c) == CASE c \in {"AP192", "ProdigyHD2"} -> 3
             [] c = "Phase22" -> 0
             [] OTHER -> 1

\* How many of the bits' accesses were made.
Sent == n - 1 - Lead(card)

\* What stands at which place of a frame that is lead, bits and tail.
Places(F, w, word, lead, tail) ==
    /\ Len(F) = Len(lead) + 3 * w.width + Len(tail)
    /\ \A i \in 1 .. Len(F) :
          /\ i - 1 - Len(lead) < 0 => F[i] = lead[i]
          /\ i - 1 - Len(lead) \in 0 .. 3 * w.width - 1 =>
                F[i] = Bits(w, word)[i - 1 - Len(lead) + 1]
          /\ \A k \in 1 .. Len(tail) :
                i - 1 - Len(lead) = 3 * w.width - 1 + k => F[i] = tail[k]

LEMMA PlacesAre ==
    ASSUME NEW F, NEW w, w.width \in {16, 24}, NEW word, NEW lead, NEW tail, Len(lead) \in 1 .. 3,
           Len(tail) \in 1 .. 2, Sends(F, w, word, lead, tail)
    PROVE  Places(F, w, word, lead, tail)
<1>1. PICK p \in 1 .. 3, q \in 1 .. 2, b \in {48, 72} :
          p = Len(lead) /\ q = Len(tail) /\ b = 3 * w.width
  <2>1. 3 * w.width \in {48, 72}
    OBVIOUS
  <2>2. QED
    BY <2>1
<1>2. /\ Len(F) = p + b + q
      /\ \A i \in 1 .. p : F[i] = lead[i]
      /\ \A j \in 1 .. b : F[p + j] = Bits(w, word)[j]
      /\ \A k \in 1 .. q : F[p + b + k] = tail[k]
  BY <1>1, Zenon DEF Sends
<1>3. ASSUME NEW i \in 1 .. Len(F)
      PROVE  /\ i - 1 - p < 0 => F[i] = lead[i]
             /\ i - 1 - p \in 0 .. b - 1 => F[i] = Bits(w, word)[i - 1 - p + 1]
             /\ \A k \in 1 .. q : i - 1 - p = b - 1 + k => F[i] = tail[k]
  <2>1. ASSUME i - 1 - p < 0
        PROVE  F[i] = lead[i]
    <3>1. i \in 1 .. p
      BY <1>1, <1>2, <2>1
    <3>2. QED
      BY <1>2, <3>1
  <2>2. ASSUME i - 1 - p \in 0 .. b - 1
        PROVE  F[i] = Bits(w, word)[i - 1 - p + 1]
    <3>1. PICK j \in 1 .. b : j = i - 1 - p + 1 /\ p + j = i
      <4>1. i - 1 - p + 1 \in 1 .. b /\ p + (i - 1 - p + 1) = i
        BY <1>1, <1>2, <2>2
      <4>2. QED
        BY <4>1
    <3>2. F[p + j] = Bits(w, word)[j]
      BY <1>2
    <3>3. QED
      BY <3>1, <3>2, Zenon
  <2>3. ASSUME NEW k \in 1 .. q, i - 1 - p = b - 1 + k
        PROVE  F[i] = tail[k]
    <3>1. p \in Int /\ b \in Int /\ k \in Int /\ i \in Int
      BY <1>1, <1>2
    <3>2. i = p + b + k
      BY <2>3, <3>1
    <3>3. F[p + b + k] = tail[k]
      BY <1>2
    <3>4. QED
      BY <3>2, <3>3, Zenon
  <2>4. QED
    BY <2>1, <2>2, <2>3
<1>4. QED
  BY <1>1, <1>2, <1>3, ZenonT(40) DEF Places

\* What comes before and after the bits, of the cards whose codecs only shift
\* while they are selected.
LeadOf(c, w) ==
    CASE c = "Revo71" -> << Set({}, {w.cs}) >>
      [] c = "Revo51" -> << Set({1} \cup ({4, 5} \ {w.cs}), {4, 5} \ ({4, 5} \ {w.cs})) >>
      [] c = "AP192" -> << Set({}, {3}), Set({1}, {}), Set({4, 5} \ {w.cs}, {w.cs}) >>
      [] c = "AureonSpace" -> << Mask({}, {17}, {w.cs}) >>
      [] c = "ProdigyHD2" -> << SaveGPIO, Lines(Own(w), AllBut(Own(w)), {}, {}), Set({}, {w.cs}) >>

TailOf(c, w) ==
    CASE c = "Revo71" -> << Set({w.cs}, {}) >>
      [] c = "Revo51" -> << Set({4, 5}, {4, 5} \ {4, 5}) >>
      [] c = "AP192" -> << Set({4, 5}, {}) >>
      [] c = "AureonSpace" -> << Set({w.cs}, {w.clk}), Set({w.clk}, {}) >>
      [] c = "ProdigyHD2" -> << Set({w.cs}, {}), RestoreGPIO >>

\* The thread is at a write to the codec chip of port w.
Serving(chip, w, word) ==
    /\ card \in OnGpio /\ card \in GpioCards /\ pc = "gpio"
    /\ chip = call.chip /\ chip \in Serial(card) /\ chip \in ChipsOf[card]
    /\ w = Wiring[card][chip] /\ SerialPort(w) /\ w.width \in {16, 24}
    /\ w.cif = (card = "Phase22")
    /\ word = Word(w, call) /\ Made(w, call.reg, call.data, word)
    /\ call = Call(chip, call.reg, call.data) /\ IsWrite(call)

OnSerial == pc = "gpio" /\ call.chip \in Serial(card)

LEMMA ServingIs ==
    ASSUME TypeInv, card \in OnGpio, OnSerial
    PROVE  \E chip, w, word : Serving(chip, w, word)
<1>1. card \in Cards /\ call \in CallsOf[card] /\ card \in GpioCards
      /\ Serial(card) = ChipsWired[card]
  BY GpioCardsAre, SerialIs DEF TypeInv, ThreadTyped, OnSerial
<1>2. PICK chip, w, word : chip = call.chip /\ w = Wiring[card][chip] /\ word = Word(w, call)
  OBVIOUS
<1>3. chip \in Serial(card) /\ chip \in ChipsWired[card]
  BY <1>1, <1>2 DEF OnSerial
<1>4. chip \notin SetUpSteps /\ chip # "AC97" /\ chip # "PT2258" /\ chip # "EEPROM"
  BY <1>1, <1>3, WiredChips
<1>5. GpioCall(card, call)
  BY <1>1, GpioCalls
<1>6. /\ chip \in ChipsOf[card] /\ call.reg \in 0 .. w.registers - 1
      /\ call.data \in 0 .. w.values - 1
  BY <1>1, <1>2, <1>4, <1>5, StepsAreSteps, Zenon DEF GpioCall
<1>7. SerialPort(w) /\ w.cif = (card = "Phase22")
  BY <1>1, <1>2, <1>3, Ports, CifIs
<1>8. Made(w, call.reg, call.data, word)
  BY <1>2, <1>6, <1>7, WordMade
<1>9. call = Call(chip, call.reg, call.data) /\ IsWrite(call)
  BY <1>1, <1>2, <1>4, CallIs DEF IsWrite
<1>10. w.width \in {16, 24}
  BY <1>7 DEF SerialPort, Port
<1>11. QED
  BY <1>1, <1>2, <1>3, <1>6, <1>7, <1>8, <1>9, <1>10 DEF Serving, OnSerial

LEMMA LeadsAre ==
    ASSUME NEW c \in GpioCards, c # "Phase22", NEW w, SerialPort(w), w.cif = FALSE,
           NEW word \in Nat, NEW F, SerialFrame(F, c, w, word)
    PROVE  /\ Sends(F, w, word, LeadOf(c, w), TailOf(c, w))
           /\ Len(LeadOf(c, w)) = Lead(c) /\ Len(LeadOf(c, w)) \in 1 .. 3
           /\ Len(TailOf(c, w)) = (IF c \in {"AureonSpace", "ProdigyHD2"} THEN 2 ELSE 1)
           /\ Len(TailOf(c, w)) \in 1 .. 2
<1>1. Port(w) /\ w.cs \in Pins
  BY DEF SerialPort, Port
<1>2. {1} \in SUBSET Pins /\ {4, 5} \in SUBSET Pins /\ {4, 5} \ {w.cs} \in SUBSET Pins
      /\ {} \in SUBSET Pins
  BY DEF Pins
<1>3. CASE c = "Revo71"
  <2>1. Sends(F, w, word, << Set({}, {w.cs}) >>, << Set({w.cs}, {}) >>)
    BY <1>1, <1>2, <1>3, AkmFrameSends DEF SerialFrame
  <2>2. QED
    BY <1>3, <2>1 DEF LeadOf, TailOf, Lead
<1>4. CASE c = "Revo51"
  <2>1. PICK h : h = {4, 5} \ {w.cs} /\ h \in SUBSET Pins
    BY <1>2
  <2>2. F = AkmNewFrame(w, {4, 5}, h, {4, 5}, {1}, word)
    BY <1>4, <2>1 DEF SerialFrame
  <2>3. Sends(F, w, word, << Set({1} \cup h, {4, 5} \ h) >>, << Set({4, 5}, {4, 5} \ {4, 5}) >>)
    BY <1>1, <1>2, <2>1, <2>2, AkmNewFrameSends
  <2>4. QED
    BY <1>4, <2>1, <2>3 DEF LeadOf, TailOf, Lead
<1>5. CASE c = "AP192"
  <2>1. Sends(F, w, word, << Set({}, {3}), Set({1}, {}), Set({4, 5} \ {w.cs}, {w.cs}) >>,
              << Set({4, 5}, {}) >>)
    BY <1>1, <1>5, AP192FrameSends DEF SerialFrame
  <2>2. QED
    BY <1>5, <2>1 DEF LeadOf, TailOf, Lead
<1>6. CASE c = "AureonSpace"
  <2>1. Sends(F, w, word, << Mask({}, {17}, {w.cs}) >>,
              << Set({w.cs}, {w.clk}), Set({w.clk}, {}) >>)
    BY <1>1, <1>6, AureonFrameSends DEF SerialFrame
  <2>2. QED
    BY <1>6, <2>1 DEF LeadOf, TailOf, Lead
<1>7. CASE c = "ProdigyHD2"
  <2>1. Sends(F, w, word,
              << SaveGPIO, Lines(Own(w), AllBut(Own(w)), {}, {}), Set({}, {w.cs}) >>,
              << Set({w.cs}, {}), RestoreGPIO >>)
    BY <1>1, <1>7, AK4396FrameSends DEF SerialFrame
  <2>2. QED
    BY <1>7, <2>1 DEF LeadOf, TailOf, Lead
<1>8. QED
  BY <1>3, <1>4, <1>5, <1>6, <1>7 DEF GpioCards

\* Where the thread is in a frame.
LEMMA AtPlace ==
    ASSUME NEW chip, NEW w, NEW word, Serving(chip, w, word), card # "Phase22",
           NEW F, F = Frame(card, call)
    PROVE  Places(F, w, word, LeadOf(card, w), TailOf(card, w))
           /\ Len(LeadOf(card, w)) = Lead(card) /\ Lead(card) \in 1 .. 3
           /\ Len(TailOf(card, w)) = (IF card \in {"AureonSpace", "ProdigyHD2"} THEN 2 ELSE 1)
           /\ Len(F) = Lead(card) + 3 * w.width + Len(TailOf(card, w))
<1>1. PICK c : c = card /\ c \in GpioCards /\ c # "Phase22"
  BY DEF Serving
<1>2. SerialPort(w) /\ w.cif = FALSE /\ word \in Nat /\ w.width \in {16, 24}
  BY DEF Serving, Made
<1>3. call.chip \in ChipsWired[c] /\ w = Wiring[c][call.chip] /\ word = Word(w, call)
  BY <1>1, SerialIs DEF Serving
<1>4. SerialFrame(F, c, w, word)
  BY <1>1, <1>3, SerialFrameIs
<1>5. /\ Sends(F, w, word, LeadOf(c, w), TailOf(c, w))
      /\ Len(LeadOf(c, w)) = Lead(c) /\ Len(LeadOf(c, w)) \in 1 .. 3
      /\ Len(TailOf(c, w)) = (IF c \in {"AureonSpace", "ProdigyHD2"} THEN 2 ELSE 1)
      /\ Len(TailOf(c, w)) \in 1 .. 2
  BY <1>1, <1>2, <1>4, LeadsAre
<1>6. Places(F, w, word, LeadOf(c, w), TailOf(c, w))
  <2>1. PICK a, d : a = LeadOf(c, w) /\ d = TailOf(c, w)
    OBVIOUS
  <2>2. Sends(F, w, word, a, d) /\ Len(a) \in 1 .. 3 /\ Len(d) \in 1 .. 2
    BY <1>5, <2>1, Zenon
  <2>3. Places(F, w, word, a, d)
    BY <1>2, <2>2, PlacesAre
  <2>4. QED
    BY <2>1, <2>3, Zenon
<1>7. QED
  BY <1>1, <1>5, <1>6, Zenon DEF Places

-----------------------------------------------------------------------------
(* The accesses before the bits *)

\* The pins that are up between calls, and those that are never masked.
Up(c) ==
    CASE c = "Revo71"      -> {5, 6}
      [] c = "Revo51"      -> {1, 4, 5}
      [] c = "AP192"       -> {4}
      [] c = "AureonSpace" -> {12, 22}
      [] OTHER             -> {}

Open(c) ==
    CASE c = "Revo71"  -> {1, 3, 5, 6}
      [] c = "Revo51"  -> {1, 3, 4, 5}
      [] c = "AP192"   -> {1, 3, 4, 5}
      [] c = "Phase22" -> {3, 4, 5, 10}
      [] OTHER         -> {}

LEMMA PinsAre ==
    ASSUME card \in GpioCards, NEW k \in Serial(card), NEW w, w = Wiring[card][k]
    PROVE  /\ card = "Revo71" => w.clk = 1 /\ w.data = 3 /\ w.cs \in {5, 6}
           /\ card = "Revo51" => w.clk = 1 /\ w.data = 3 /\ w.cs \in {4, 5}
           /\ card = "AP192" => /\ w.clk = 1 /\ w.data = 3
                                /\ w.cs = IF k = "AP192" THEN 4 ELSE 5
                                /\ k \in {"AP192", "AK4114"}
           /\ card = "AureonSpace" => /\ w.clk = 19 /\ w.data = 18
                                      /\ w.cs = IF k = "Aureon" THEN 12 ELSE 22
           /\ card = "ProdigyHD2" => w.cs = 8 /\ w.clk = 9 /\ w.data = 10
           /\ card = "Phase22" => w.cs = 10 /\ w.clk = 5 /\ w.data = 4
<1>1. k \in ChipsWired[card]
  BY SerialIs, GpioCardsAre
<1>2. CASE card = "Revo71"
  BY <1>1, <1>2, WiringIs DEF ChipsWired, Akm, Wired
<1>3. CASE card = "Revo51"
  BY <1>1, <1>3, WiringIs DEF ChipsWired, Akm, Wired
<1>4. CASE card = "AP192"
  BY <1>1, <1>4, WiringIs DEF ChipsWired, Akm, Wired
<1>5. CASE card = "AureonSpace"
  BY <1>1, <1>5, WiringIs DEF ChipsWired, Wired
<1>6. CASE card = "ProdigyHD2"
  BY <1>1, <1>6, WiringIs DEF ChipsWired, Akm, Wired
<1>7. CASE card = "Phase22"
  BY <1>1, <1>7, WiringIs DEF ChipsWired, Akm, Wired
<1>8. QED
  BY <1>2, <1>3, <1>4, <1>5, <1>6, <1>7 DEF GpioCards

\* An access to pins that are not masked.
LEMMA OpenSet ==
    ASSUME NEW up, NEW down, (up \cup down) \cap masked = {}, NEW a, a = Set(up, down)
    PROVE  /\ Levels(a) = (pins \cup up) \ down
           /\ Directed(a) = dir /\ MaskOf(a) = masked /\ Saved(a) = saved
<1>1. /\ Directed(a) = dir /\ MaskOf(a) = masked /\ Saved(a) = saved
      /\ Levels(a) = (pins \cup (up \ masked)) \ (down \ masked)
  BY SetIs
<1>2. up \ masked = up /\ down \ masked = down
  OBVIOUS
<1>3. QED
  BY <1>1, <1>2

\* Before the word's bits.  On the Audiophile 192 the AK4114, which is never
\* written, may take a bit.
Leading ==
    /\ Up(card) \subseteq pins
    /\ card = "ProdigyHD2" /\ n = 3 => {8, 9, 10} \cap masked = {}
    /\ \A k \in Serial(card) :
          \/ shift[k] = NoBits
          \/ card = "AP192" /\ k = "AK4114" /\ n = 3 /\ shift[k].bits = 1 /\ 5 \notin pins

\* The access leaves the devices alone that the serial codecs share pins with.
Aside(a) ==
    card \in {"Revo51", "AureonSpace"} =>
        /\ \A p \in {6, 7, 11} : (p \in Levels(a)) = (p \in pins)
        /\ Directed(a) = dir

\* The last access before the bits selects the codec.
LEMMA Begins ==
    ASSUME TypeInv, NEW chip, NEW w, NEW word, Serving(chip, w, word), Still,
           NEW a, Makes(a), NEW new, new = Levels(a), w.cif \/ w.cs \notin new,
           \A k \in Serial(card) : Wiring[card][k].clk \notin new \ pins,
           \A k \in Serial(card) \ {chip} : Wiring[card][k].cs \in new,
           {w.cs, w.clk, w.data} \cap MaskOf(a) = {}
    PROVE  FromCodecs(new) = {} /\ Taking(chip, w, word, 0)'
<1>1. /\ card \in OnGpio /\ card' = card /\ Devices /\ Change(new, Directed(a))
      /\ pins' = new /\ masked' = MaskOf(a) /\ word \in Nat /\ word < 2^w.width
      /\ SerialPort(w) /\ chip \in Serial(card)
  BY DEF Makes, TypeInv, Serving, Made
<1>2. \A k \in Serial(card) : Idle(k, new)
  BY DEF Idle, Still
<1>3. Still' /\ FromCodecs(new) = {}
  BY <1>1, <1>2, AllIdle
<1>4. /\ card' \in OnGpio /\ chip \in Serial(card') /\ (w.cif \/ w.cs \notin pins')
      /\ \A k \in Serial(card') \ {chip} : Wiring[card'][k].cs \in pins'
      /\ ({w.cs, w.clk, w.data} \cap masked = {})'
  BY <1>1
<1>5. Taking(chip, w, word, 0)'
  BY <1>1, <1>3, <1>4, WordBegins
<1>6. QED
  BY <1>3, <1>5

\* What an access before the bits does.
LeadMade(chip, w, word, a) ==
    /\ FromCodecs(Levels(a)) = {} /\ Aside(a)
    /\ IF n = Lead(card) THEN Taking(chip, w, word, 0)' ELSE Leading'

LEMMA RevoLeads ==
    ASSUME TypeInv, NEW chip, NEW w, NEW word, Serving(chip, w, word), card \in Revolutions,
           Leading, Open(card) \cap masked = {}, n = 1, NEW a, a = LeadOf(card, w)[1], Makes(a)
    PROVE  LeadMade(chip, w, word, a) /\ masked' = masked
<1>1. /\ chip \in Serial(card) /\ card \in GpioCards /\ ~w.cif /\ w = Wiring[card][chip]
      /\ (card = "Revo71" \/ card = "Revo51")
  BY DEF Serving, Revolutions
<1>2. PICK up, down : up = (IF card = "Revo71" THEN {} ELSE {1} \cup ({4, 5} \ {w.cs}))
                   /\ down = IF card = "Revo71" THEN {w.cs} ELSE {4, 5} \ ({4, 5} \ {w.cs})
  OBVIOUS
<1>3. a = Set(up, down)
  <2>1. CASE card = "Revo71"
    BY <1>2, <2>1 DEF LeadOf
  <2>2. CASE card = "Revo51"
    BY <1>2, <2>2 DEF LeadOf
  <2>3. QED
    BY <1>1, <2>1, <2>2
<1>4. /\ \A k \in Serial(card) : Wiring[card][k].clk = 1 /\ Wiring[card][k].cs \in Up(card)
      /\ card = "Revo51" => w.cs \notin {6, 7, 11}
      /\ w.clk = 1 /\ w.data = 3 /\ w.cs \in Up(card)
      /\ down = {w.cs} /\ up \subseteq Up(card) \ {w.cs}
      /\ Up(card) \cup {1, 3} \subseteq Open(card)
  <2>1. CASE card = "Revo71"
    BY <1>1, <1>2, <2>1, PinsAre DEF Up, Open
  <2>2. CASE card = "Revo51"
    BY <1>1, <1>2, <2>2, PinsAre DEF Up, Open
  <2>3. QED
    BY <1>1, <2>1, <2>2
<1>5. /\ Levels(a) = (pins \cup up) \ down
      /\ Directed(a) = dir /\ MaskOf(a) = masked
  <2>1. (up \cup down) \cap masked = {}
    BY <1>4
  <2>2. QED
    BY <1>3, <2>1, OpenSet
<1>6. PICK new : new = Levels(a) /\ new = pins \ {w.cs}
  BY <1>4, <1>5 DEF Leading
<1>7. Still
  BY <1>1 DEF Leading, Still
<1>8. FromCodecs(new) = {} /\ Taking(chip, w, word, 0)'
  <2>1. \A k \in Serial(card) : Wiring[card][k].clk \notin new \ pins
    BY <1>6
  <2>2. \A k \in Serial(card) \ {chip} : Wiring[card][k].cs \in new
    <3>1. TAKE k \in Serial(card) \ {chip}
    <3>2. Wiring[card][k].cs # w.cs /\ Wiring[card][k].cs \in pins
      BY <1>1, <1>4, Apart DEF Leading, Serving
    <3>3. QED
      BY <1>6, <3>2
  <2>3. {w.cs, w.clk, w.data} \cap MaskOf(a) = {}
    BY <1>4, <1>5
  <2>4. QED
    BY <1>6, <1>7, <2>1, <2>2, <2>3, Begins
<1>9. Aside(a)
  BY <1>1, <1>4, <1>5, <1>6 DEF Aside, Up
<1>10. Lead(card) = 1 /\ masked' = masked
  BY <1>1, <1>5 DEF Lead, Makes
<1>11. QED
  BY <1>6, <1>8, <1>9, <1>10 DEF LeadMade

LEMMA AureonLeads ==
    ASSUME TypeInv, NEW chip, NEW w, NEW word, Serving(chip, w, word), card = "AureonSpace",
           Leading, n = 1, NEW a, a = LeadOf(card, w)[1], Makes(a)
    PROVE  LeadMade(chip, w, word, a)
<1>1. chip \in Serial(card) /\ card \in GpioCards /\ ~w.cif /\ w = Wiring[card][chip]
  BY DEF Serving
<1>2. a = Mask({}, {17}, {w.cs})
  BY DEF LeadOf
<1>3. /\ \A k \in Serial(card) : Wiring[card][k].clk = 19 /\ Wiring[card][k].cs \in {12, 22}
      /\ w.clk = 19 /\ w.data = 18 /\ w.cs \in {12, 22}
  BY <1>1, PinsAre
<1>4. Directed(a) = dir /\ MaskOf(a) = {} /\ Levels(a) = (pins \cup {17}) \ {w.cs}
  BY <1>2, MaskIs
<1>5. PICK new : new = Levels(a) /\ new = (pins \cup {17}) \ {w.cs}
  BY <1>4
<1>6. Still
  BY DEF Leading, Still
<1>7. FromCodecs(new) = {} /\ Taking(chip, w, word, 0)'
  <2>1. \A k \in Serial(card) : Wiring[card][k].clk \notin new \ pins
    BY <1>3, <1>5
  <2>2. \A k \in Serial(card) \ {chip} : Wiring[card][k].cs \in new
    <3>1. TAKE k \in Serial(card) \ {chip}
    <3>2. Wiring[card][k].cs # w.cs /\ Wiring[card][k].cs \in pins
      BY <1>1, <1>3, Apart DEF Leading, Serving, Up
    <3>3. QED
      BY <1>5, <3>2
  <2>3. {w.cs, w.clk, w.data} \cap MaskOf(a) = {}
    BY <1>4
  <2>4. QED
    BY <1>1, <1>5, <1>6, <2>1, <2>2, <2>3, Begins
<1>8. Aside(a) /\ Lead(card) = 1
  BY <1>3, <1>4 DEF Aside, Lead
<1>9. QED
  BY <1>5, <1>7, <1>8 DEF LeadMade

\* Data low and clock high, then all selects but the codec's.
LEMMA AP192Leads ==
    ASSUME TypeInv, NEW chip, NEW w, NEW word, Serving(chip, w, word), card = "AP192",
           Leading, Open(card) \cap masked = {}, n \in 1 .. 3, NEW a, a = LeadOf(card, w)[n],
           Makes(a), n < 3 => n' = n + 1
    PROVE  LeadMade(chip, w, word, a) /\ masked' = masked
<1>1. /\ chip \in Serial(card) /\ card \in GpioCards /\ card \in OnGpio /\ ~w.cif
      /\ w = Wiring[card][chip] /\ SerialPort(w) /\ word \in Nat /\ word < 2^w.width
      /\ card' = card /\ Devices /\ DOMAIN shift = Serial(card)
  BY DEF Serving, Makes, TypeInv, Devices, Made
<1>2. chip = "AP192" /\ w.cs = 4 /\ w.clk = 1 /\ w.data = 3
  <2>1. chip = "AP192"
    BY DEF Serving, ChipsOf
  <2>2. QED
    BY <1>1, <2>1, PinsAre
<1>3. \A k \in Serial(card) :
         /\ k \in {"AP192", "AK4114"} /\ Wiring[card][k].clk = 1 /\ ~Wiring[card][k].cif
         /\ Wiring[card][k].cs = IF k = "AP192" THEN 4 ELSE 5
  BY <1>1, PinsAre, WiredPorts
<1>4. {1, 3, 4, 5} \cap masked = {} /\ 4 \in pins /\ Up(card) = {4} /\ Lead(card) = 3
  BY DEF Open, Up, Leading, Lead
<1>5. PICK new, out : new = Levels(a) /\ out = Directed(a)
  OBVIOUS
<1>6. Change(new, out) /\ pins' = new /\ masked' = MaskOf(a)
  BY <1>5 DEF Makes
<1>7. \A k \in Serial(card) : shift'[k] = IF k \in Latching(new) THEN NoBits
                                          ELSE Shifted(Wiring[card][k], shift[k], new)
  BY <1>1, <1>6 DEF Change
<1>8. Aside(a)
  BY DEF Aside
<1>9. CASE n = 1
  <2>1. a = Set({}, {3})
    BY <1>9 DEF LeadOf
  <2>2. new = pins \ {3} /\ MaskOf(a) = masked
    <3>1. ({} \cup {3}) \cap masked = {}
      BY <1>4
    <3>2. Levels(a) = (pins \cup {}) \ {3} /\ MaskOf(a) = masked
      BY <2>1, <3>1, OpenSet
    <3>3. QED
      BY <1>5, <3>2
  <2>3. \A k \in Serial(card) : Idle(k, new)
    BY <1>3, <1>9, <2>2 DEF Leading, Idle
  <2>4. Still' /\ FromCodecs(new) = {}
    BY <1>1, <1>6, <2>3, AllIdle
  <2>5. Leading'
    BY <1>1, <1>4, <1>6, <2>2, <2>4 DEF Leading, Still
  <2>6. QED
    BY <1>4, <1>5, <1>6, <1>8, <1>9, <2>2, <2>4, <2>5 DEF LeadMade
<1>10. CASE n = 2
  <2>1. a = Set({1}, {})
    BY <1>10 DEF LeadOf
  <2>2. new = pins \cup {1} /\ MaskOf(a) = masked
    <3>1. ({1} \cup {}) \cap masked = {}
      BY <1>4
    <3>2. Levels(a) = (pins \cup {1}) \ {} /\ MaskOf(a) = masked
      BY <2>1, <3>1, OpenSet
    <3>3. QED
      BY <1>5, <3>2
  <2>3. \A k \in Serial(card) : (Wiring[card][k].cs \in new) = (Wiring[card][k].cs \in pins)
    BY <1>3, <2>2
  <2>4. Latching(new) = {} /\ FromCodecs(new) = {}
    BY <1>1, <2>3, NoneSelected
  <2>5. ASSUME NEW k \in Serial(card)
        PROVE  shift'[k] = NoBits \/ (k = "AK4114" /\ shift'[k].bits = 1 /\ 5 \notin pins')
    <3>1. shift[k] = NoBits /\ shift'[k] = Shifted(Wiring[card][k], NoBits, new)
      BY <1>7, <1>10, <2>4 DEF Leading
    <3>2. PICK v : v = Wiring[card][k] /\ v.clk = 1 /\ ~v.cif /\ v.width \in {16, 24}
      BY <1>1, <1>3, WiredPorts DEF SerialPort, Port
    <3>3. CASE v.cs \in new
      BY <3>1, <3>2, <3>3 DEF Shifted
    <3>4. CASE v.cs \notin new /\ 1 \notin new \ pins
      BY <2>3, <3>1, <3>2, <3>4 DEF Shifted
    <3>5. CASE v.cs \notin new /\ 1 \in new \ pins
      <4>1. k = "AK4114" /\ 5 \notin new
        BY <1>3, <1>4, <2>2, <3>2, <3>5
      <4>2. Shifted(v, NoBits, new).bits = 1
        BY <2>3, <3>2, <3>5 DEF Shifted, NoBits
      <4>3. QED
        BY <1>6, <3>1, <3>2, <4>1, <4>2
    <3>6. QED
      BY <3>3, <3>4, <3>5
  <2>6. Leading'
    BY <1>1, <1>4, <1>6, <1>10, <2>2, <2>5 DEF Leading
  <2>7. QED
    BY <1>4, <1>5, <1>6, <1>8, <1>10, <2>2, <2>4, <2>6 DEF LeadMade
<1>11. CASE n = 3
  <2>1. a = Set({5}, {4})
    <3>1. a = Set({4, 5} \ {w.cs}, {w.cs})
      BY <1>11 DEF LeadOf
    <3>2. {4, 5} \ {w.cs} = {5}
      BY <1>2
    <3>3. QED
      BY <1>2, <3>1, <3>2
  <2>2. new = (pins \cup {5}) \ {4} /\ MaskOf(a) = masked
    <3>1. ({5} \cup {4}) \cap masked = {}
      BY <1>4
    <3>2. QED
      BY <1>5, <2>1, <3>1, OpenSet
  <2>3. ASSUME NEW k \in Serial(card)
        PROVE  shift'[k] = NoBits /\ (k \in Latching(new) => Decoded(k, shift[k]) = {})
    <3>1. PICK v : v = Wiring[card][k] /\ v.clk = 1 /\ ~v.cif /\ v.width \in {16, 24}
                   /\ v.cs = IF k = "AP192" THEN 4 ELSE 5
      BY <1>1, <1>3, WiredPorts DEF SerialPort, Port
    <3>2. 1 \notin new \ pins
      BY <2>2
    <3>3. shift[k] = NoBits \/ (k # "AP192" /\ shift[k].bits = 1 /\ 5 \notin pins)
      BY <1>3 DEF Leading
    <3>4. shift[k].bits # v.width
      BY <3>1, <3>3 DEF NoBits
    <3>5. Decoded(k, shift[k]) = {}
      BY <3>1, <3>4 DEF Decoded
    <3>6. CASE shift[k] = NoBits
      <4>1. Shifted(v, shift[k], new) = NoBits
        BY <3>1, <3>2, <3>6 DEF Shifted
      <4>2. QED
        BY <1>7, <3>1, <3>5, <4>1
    <3>7. CASE k # "AP192" /\ shift[k].bits = 1 /\ 5 \notin pins
      <4>1. k \in Latching(new)
        BY <1>1, <2>2, <3>1, <3>7 DEF Latching, Latches
      <4>2. QED
        BY <1>7, <3>5, <4>1
    <3>8. QED
      BY <3>3, <3>6, <3>7
  <2>4. FromCodecs(new) = {}
    BY <1>1, <2>3 DEF FromCodecs, Latching
  <2>5. Taking(chip, w, word, 0)'
    <3>1. Still'
      BY <1>1, <2>3 DEF Still
    <3>2. \A k \in Serial(card') \ {chip} : Wiring[card'][k].cs \in pins'
      BY <1>1, <1>2, <1>3, <1>6, <2>2
    <3>3. ({w.cs, w.clk, w.data} \cap masked = {})' /\ w.cs \notin pins'
      BY <1>2, <1>4, <1>6, <2>2
    <3>4. QED
      BY <1>1, <3>1, <3>2, <3>3, WordBegins
  <2>6. QED
    BY <1>4, <1>5, <1>6, <1>8, <1>11, <2>2, <2>4, <2>5 DEF LeadMade
<1>12. QED
  BY <1>9, <1>10, <1>11

\* The other pins are masked, then the codec is selected.
LEMMA ProdigyLeads ==
    ASSUME TypeInv, NEW chip, NEW w, NEW word, Serving(chip, w, word), card = "ProdigyHD2",
           Leading, n \in 1 .. 3, NEW a, a = LeadOf(card, w)[n], Makes(a), n < 3 => n' = n + 1
    PROVE  LeadMade(chip, w, word, a)
<1>1. /\ chip \in Serial(card) /\ card \in GpioCards /\ card \in OnGpio
      /\ w = Wiring[card][chip] /\ card' = card /\ Devices
  BY DEF Serving, Makes, TypeInv
<1>2. /\ \A k \in Serial(card) : k = chip /\ Wiring[card][k].clk = 9
      /\ w.cs = 8 /\ w.clk = 9 /\ w.data = 10
  <2>1. Serial(card) = {"AK4396"}
    BY <1>1, SerialIs DEF ChipsWired
  <2>2. QED
    BY <1>1, <2>1, PinsAre
<1>3. Still
  BY DEF Leading, Still
<1>4. Lead(card) = 3 /\ Aside(a) /\ Up(card) = {}
  BY DEF Lead, Aside, Up
<1>5. PICK new, out : new = Levels(a) /\ out = Directed(a)
  OBVIOUS
<1>6. Change(new, out) /\ pins' = new /\ masked' = MaskOf(a)
  BY <1>5 DEF Makes
<1>7. ASSUME new = pins, n < 3, n = 2 => {8, 9, 10} \cap MaskOf(a) = {}
      PROVE  LeadMade(chip, w, word, a)
  <2>1. \A k \in Serial(card) : Idle(k, new)
    BY <1>3, <1>7 DEF Idle, Still
  <2>2. Still' /\ FromCodecs(new) = {}
    BY <1>1, <1>6, <2>1, AllIdle
  <2>3. n' = 3 => {8, 9, 10} \cap masked' = {}
    BY <1>6, <1>7
  <2>4. Leading'
    BY <1>1, <1>4, <2>2, <2>3 DEF Leading, Still
  <2>5. QED
    BY <1>4, <1>5, <1>7, <2>2, <2>4 DEF LeadMade
<1>8. CASE n = 1
  <2>1. a = SaveGPIO
    BY <1>8 DEF LeadOf
  <2>2. new = pins
    BY <1>5, <2>1, SaveIs
  <2>3. QED
    BY <1>7, <1>8, <2>2
<1>9. CASE n = 2
  <2>1. a = Lines(Own(w), AllBut(Own(w)), {}, {})
    BY <1>9 DEF LeadOf
  <2>2. new = (pins \cup ({} \ AllBut(Own(w)))) \ ({} \ AllBut(Own(w)))
    BY <1>5, <2>1, LinesIs
  <2>3. {8, 9, 10} \cap MaskOf(a) = {}
    BY <1>2, <2>1, LinesIs DEF AllBut, Own
  <2>4. QED
    BY <1>7, <1>9, <2>2, <2>3
<1>10. CASE n = 3
  <2>1. a = Set({}, {8}) /\ ({} \cup {8}) \cap masked = {}
    BY <1>2, <1>10 DEF LeadOf, Leading
  <2>2. new = pins \ {8} /\ MaskOf(a) = masked
    BY <1>5, <2>1, OpenSet
  <2>3. {w.cs, w.clk, w.data} \cap MaskOf(a) = {}
    BY <1>2, <1>10, <2>2 DEF Leading
  <2>4. FromCodecs(new) = {} /\ Taking(chip, w, word, 0)'
    BY <1>2, <1>3, <1>5, <2>2, <2>3, Begins
  <2>5. QED
    BY <1>4, <1>5, <1>10, <2>4 DEF LeadMade
<1>11. QED
  BY <1>8, <1>9, <1>10

\* The Phase 22 raises the select with the first bit's clock, and lowers it
\* after the last bit.
CifOpens(w) == Set({3} \cup {w.cs}, {w.clk})

LEMMA CifFirst ==
    ASSUME TypeInv, NEW chip, NEW w, NEW word, Serving(chip, w, word), card = "Phase22",
           Open(card) \cap masked = {}, Taking(chip, w, word, 0), NEW a,
           a = CifOpens(w), Makes(a)
    PROVE  FromCodecs(Levels(a)) = {} /\ Taking(chip, w, word, 1)' /\ masked' = masked
<1>1. /\ chip \in Serial(card) /\ card \in GpioCards /\ card \in OnGpio /\ w.cif
      /\ w = Wiring[card][chip] /\ card' = card /\ Devices /\ w.width \in {16, 24}
  BY DEF Serving, Makes, TypeInv
<1>2. Serial(card) = {chip} /\ w.cs = 10 /\ w.clk = 5 /\ w.data = 4
  <2>1. Serial(card) = {"Front"}
    BY <1>1, SerialIs DEF ChipsWired
  <2>2. QED
    BY <1>1, <2>1, PinsAre
<1>3. PICK new, out : new = Levels(a) /\ out = Directed(a)
  OBVIOUS
<1>4. new = (pins \cup {3, 10}) \ {5} /\ MaskOf(a) = masked
  <2>1. a = Set({3, 10}, {5})
    <3>1. {3} \cup {w.cs} = {3, 10} /\ {w.clk} = {5}
      BY <1>2
    <3>2. QED
      BY <3>1 DEF CifOpens
  <2>2. ({3, 10} \cup {5}) \cap masked = {}
    BY DEF Open
  <2>3. QED
    BY <1>3, <2>1, <2>2, OpenSet
<1>5. Change(new, out) /\ pins' = new /\ masked' = masked
  BY <1>3, <1>4 DEF Makes
<1>6. 0 \div 3 = 0 /\ 1 \div 3 = 0 /\ 1 % 3 = 1 /\ ~(0 > 3 * w.width) /\ ~(1 > 3 * w.width)
  BY <1>1
<1>7. shift[chip] = [bits |-> 0, word |-> word \div 2^(w.width - 0)]
  BY <1>6 DEF Taking
<1>8. shift[chip] = NoBits
  <2>1. word < 2^w.width /\ word \in Nat
    BY DEF Serving, Made
  <2>2. word \div 2^(w.width - 0) = 0
    <3>1. CASE w.width = 16
      BY <2>1, <3>1
    <3>2. CASE w.width = 24
      BY <2>1, <3>2
    <3>3. QED
      BY <1>1, <3>1, <3>2
  <2>3. QED
    BY <1>7, <2>2 DEF NoBits
<1>9. Still' /\ FromCodecs(new) = {}
  <2>1. \A k \in Serial(card) : Idle(k, new)
    BY <1>1, <1>2, <1>4, <1>8 DEF Idle
  <2>2. QED
    BY <1>1, <1>5, <2>1, AllIdle
<1>10. shift'[chip] = [bits |-> 1 \div 3, word |-> word \div 2^(w.width - (1 \div 3))]
  BY <1>1, <1>6, <1>7, <1>8, <1>9 DEF Still
<1>11. {w.cs, w.clk, w.data} \cap masked = {} /\ w.clk \notin new
  BY <1>2, <1>4 DEF Open
<1>12. Taking(chip, w, word, 1)'
  BY <1>1, <1>2, <1>5, <1>6, <1>10, <1>11 DEF Taking
<1>13. QED
  BY <1>3, <1>5, <1>9, <1>12

CifCloses(w) == Set({}, {w.cs})

LEMMA CifLast ==
    ASSUME TypeInv, NEW chip, NEW w, NEW word, Serving(chip, w, word), card = "Phase22",
           Taking(chip, w, word, 3 * w.width), NEW a, a = CifCloses(w), Makes(a)
    PROVE  FromCodecs(Levels(a)) = {} /\ Taking(chip, w, word, 3 * w.width + 1)' /\ masked' = masked
<1>1. /\ chip \in Serial(card) /\ card \in GpioCards /\ card \in OnGpio /\ w.cif
      /\ w = Wiring[card][chip] /\ card' = card /\ Devices /\ w.width \in {16, 24}
  BY DEF Serving, Makes, TypeInv
<1>2. Serial(card) = {chip} /\ w.cs = 10 /\ w.clk = 5 /\ w.data = 4
  <2>1. Serial(card) = {"Front"}
    BY <1>1, SerialIs DEF ChipsWired
  <2>2. QED
    BY <1>1, <2>1, PinsAre
<1>3. PICK new, out : new = Levels(a) /\ out = Directed(a)
  OBVIOUS
<1>4. new = pins \ {10} /\ MaskOf(a) = masked
  <2>1. a = Set({}, {10}) /\ ({} \cup {10}) \cap masked = {}
    BY <1>2 DEF Taking, CifCloses
  <2>2. QED
    BY <1>3, <2>1, OpenSet
<1>5. Change(new, out) /\ pins' = new /\ masked' = masked
  BY <1>3, <1>4 DEF Makes
<1>6. Latching(new) = {} /\ FromCodecs(new) = {}
  BY <1>1, <1>2, <1>4, NoneSelected
<1>7. shift'[chip] = shift[chip]
  <2>1. shift'[chip] = Shifted(w, shift[chip], new)
    BY <1>1, <1>5, <1>6 DEF Change, Devices
  <2>2. w.clk \notin new \ pins
    BY <1>4
  <2>3. QED
    BY <1>1, <2>1, <2>2 DEF Shifted
<1>8. PICK b : b = 3 * w.width /\ b \div 3 = w.width /\ (b + 1) \div 3 = w.width
               /\ (b + 1) % 3 = 1 /\ b + 1 > b /\ ~(b + 1 < b)
  BY <1>1
<1>9. Taking(chip, w, word, b + 1)'
  BY <1>1, <1>2, <1>4, <1>5, <1>7, <1>8 DEF Taking
<1>10. QED
  BY <1>3, <1>5, <1>6, <1>8, <1>9

-----------------------------------------------------------------------------
(* The accesses after the bits *)

\* The access that raises the select.
Raising(c, w) ==
    CASE c \in {"Revo51", "AP192"} -> Set({4, 5}, {})
      [] c = "AureonSpace" -> Set({w.cs}, {w.clk})
      [] OTHER -> Set({w.cs}, {})

LEMMA Finish ==
    ASSUME TypeInv, NEW chip, NEW w, NEW word, Serving(chip, w, word),
           Open(card) \cap masked = {}, Taking(chip, w, word, Last(w)),
           NEW a, a = Raising(card, w), Makes(a)
    PROVE  /\ FromCodecs(Levels(a)) = {call} /\ Still' /\ Deselected' /\ Up(card) \subseteq pins'
           /\ masked' = masked /\ Aside(a)
<1>1. /\ chip \in Serial(card) /\ card \in GpioCards /\ card \in OnGpio
      /\ w = Wiring[card][chip] /\ card' = card /\ Devices /\ w.width \in {16, 24}
      /\ Made(w, call.reg, call.data, word) /\ call = Call(chip, call.reg, call.data)
      /\ w.cif = (card = "Phase22")
  BY DEF Serving, Makes, TypeInv
<1>2. {w.cs, w.clk, w.data} \cap masked = {}
      /\ \A k \in Serial(card) \ {chip} : Wiring[card][k].cs \in pins
  BY DEF Taking
<1>3. PICK new, out : new = Levels(a) /\ out = Directed(a)
  OBVIOUS
<1>4. /\ w.cs \in new /\ pins \ {w.clk} \subseteq new /\ MaskOf(a) = masked /\ out = dir
      /\ new \subseteq pins \cup {4, 5, w.cs}
      /\ card # "AureonSpace" => pins \subseteq new
  <2>1. CASE card \in {"Revo51", "AP192"}
    <3>1. a = Set({4, 5}, {}) /\ ({4, 5} \cup {}) \cap masked = {}
      BY <2>1 DEF Raising, Open
    <3>2. new = (pins \cup {4, 5}) \ {} /\ MaskOf(a) = masked /\ out = dir
      BY <1>3, <3>1, OpenSet
    <3>3. w.cs \in {4, 5}
      BY <1>1, <2>1, PinsAre
    <3>4. QED
      BY <3>2, <3>3
  <2>2. CASE card = "AureonSpace"
    <3>1. a = Set({w.cs}, {w.clk}) /\ ({w.cs} \cup {w.clk}) \cap masked = {} /\ w.cs # w.clk
      BY <1>1, <1>2, <2>2, PinsAre DEF Raising
    <3>2. new = (pins \cup {w.cs}) \ {w.clk} /\ MaskOf(a) = masked /\ out = dir
      BY <1>3, <3>1, OpenSet
    <3>3. QED
      BY <2>2, <3>1, <3>2
  <2>3. CASE card \notin {"Revo51", "AP192"} /\ card # "AureonSpace"
    <3>1. a = Set({w.cs}, {}) /\ ({w.cs} \cup {}) \cap masked = {}
      BY <1>2, <2>3 DEF Raising
    <3>2. new = (pins \cup {w.cs}) \ {} /\ MaskOf(a) = masked /\ out = dir
      BY <1>3, <3>1, OpenSet
    <3>3. QED
      BY <3>2
  <2>4. QED
    BY <2>1, <2>2, <2>3
<1>5. Change(new, out) /\ pins' = new /\ masked' = masked
  BY <1>3, <1>4 DEF Makes
<1>6. \A k \in Serial(card) : Wiring[card][k].cs \in new
  <2>1. TAKE k \in Serial(card)
  <2>2. CASE k = chip
    BY <1>1, <1>4, <2>2
  <2>3. CASE k # chip
    BY <1>1, <1>2, <1>4, <2>3, Apart
  <2>4. QED
    BY <2>2, <2>3
<1>7. WordLands(chip, w, call.reg, call.data, new)
  BY <1>1, <1>5, <1>6, SelectRises
<1>8. Up(card) \subseteq new
  <2>1. CASE card \in {"Revo71", "AP192", "AureonSpace"}
    <3>1. \A p \in Up(card) : \E k \in Serial(card) : Wiring[card][k].cs = p
      <4>1. CASE card = "Revo71"
        BY <4>1, WiringIs, SerialIs, <1>1 DEF Up, ChipsWired, Akm, Wired
      <4>2. CASE card = "AP192"
        BY <4>2, WiringIs, SerialIs, <1>1 DEF Up, ChipsWired, Akm, Wired
      <4>3. CASE card = "AureonSpace"
        BY <4>3, WiringIs, SerialIs, <1>1 DEF Up, ChipsWired, Wired
      <4>4. QED
        BY <2>1, <4>1, <4>2, <4>3
    <3>2. QED
      BY <1>6, <3>1
  <2>2. CASE card = "Revo51"
    <3>1. 4 \in new /\ 5 \in new
      BY <1>1, <1>6, <2>2, WiringIs, SerialIs DEF ChipsWired, Akm, Wired
    <3>2. 1 \in pins
      <4>1. PICK j : j = Last(w) /\ j % 3 = 0 /\ j > 0
        <5>1. Last(w) = 3 * w.width
          BY <1>1, <2>2 DEF Last
        <5>2. 3 * w.width \in {48, 72}
          BY <1>1
        <5>3. QED
          BY <5>1, <5>2
      <4>2. w.clk = 1
        BY <1>1, <2>2, PinsAre
      <4>3. QED
        BY <4>1, <4>2 DEF Taking
    <3>3. QED
      BY <1>4, <2>2, <3>1, <3>2 DEF Up
  <2>3. CASE card = "Phase22" \/ card = "ProdigyHD2"
    BY <2>3 DEF Up
  <2>4. QED
    BY <1>1, <2>1, <2>2, <2>3 DEF GpioCards
<1>9. Aside(a)
  <2>1. card \in {"Revo51", "AureonSpace"} => w.clk \notin {6, 7, 11} /\ w.cs \notin {6, 7, 11}
    BY <1>1, PinsAre
  <2>2. QED
    BY <1>3, <1>4, <2>1 DEF Aside
<1>10. QED
  BY <1>1, <1>3, <1>5, <1>7, <1>8, <1>9 DEF WordLands

\* The word has landed.
Landed == Still /\ Deselected /\ Up(card) \subseteq pins

\* The last access of the Aureon and of the Prodigy.
Ending(c, w) == IF c = "AureonSpace" THEN Set({w.clk}, {}) ELSE RestoreGPIO

LEMMA Trails ==
    ASSUME TypeInv, NEW chip, NEW w, NEW word, Serving(chip, w, word), Landed, NEW a, Makes(a),
           card \in {"AureonSpace", "ProdigyHD2"}, a = Ending(card, w)
    PROVE  FromCodecs(Levels(a)) = {} /\ Landed' /\ Aside(a)
<1>1. /\ chip \in Serial(card) /\ card \in GpioCards /\ card \in OnGpio
      /\ w = Wiring[card][chip] /\ card' = card /\ Devices
  BY DEF Serving, Makes, TypeInv
<1>2. PICK new, out : new = Levels(a) /\ out = Directed(a)
  OBVIOUS
<1>3. /\ pins \subseteq new /\ new \subseteq pins \cup {w.clk}
      /\ card = "AureonSpace" => out = dir /\ w.clk = 19
  <2>1. CASE card = "AureonSpace" /\ a = Set({w.clk}, {})
    <3>1. new = (pins \cup ({w.clk} \ masked)) \ ({} \ masked) /\ out = dir
      BY <1>2, <2>1, SetIs
    <3>2. QED
      BY <1>1, <2>1, <3>1, PinsAre
  <2>2. CASE card = "ProdigyHD2" /\ a = RestoreGPIO
    BY <1>2, <2>2, RestoreIs
  <2>3. QED
    BY <2>1, <2>2 DEF Ending
<1>4. \A k \in Serial(card) : Idle(k, new)
  <2>1. TAKE k \in Serial(card)
  <2>2. ~Wiring[card][k].cif /\ Wiring[card][k].cs \in new /\ shift[k] = NoBits
    BY <1>1, <1>3, WiredPorts DEF Landed, Deselected, Still
  <2>3. QED
    BY <2>2 DEF Idle
<1>5. Change(new, out) /\ pins' = new
  BY <1>2 DEF Makes
<1>6. Still' /\ FromCodecs(new) = {}
  BY <1>1, <1>4, <1>5, AllIdle
<1>7. Landed'
  BY <1>1, <1>3, <1>5, <1>6 DEF Landed, Deselected
<1>8. Aside(a)
  BY <1>2, <1>3 DEF Aside
<1>9. QED
  BY <1>2, <1>6, <1>7, <1>8

-----------------------------------------------------------------------------
(* An access of a write to a serial codec *)

\* The devices that share pins with the serial codecs hear nothing.
LEMMA AsideStays ==
    ASSUME NEW a, Makes(a), Aside(a), card = "Revo51" => bus = Quiet
    PROVE  NoneAside(Levels(a), Directed(a)) /\ (card = "Revo51" => bus' = Quiet)
<1>1. PICK new, out : new = Levels(a) /\ out = Directed(a) /\ Change(new, out)
  BY DEF Makes
<1>2. CASE card = "Revo51"
  <2>1. bus = Quiet /\ ~bus.on /\ ~bus.pulls
    BY <1>2 DEF Quiet
  <2>2. Stopped(new, out) = {}
    BY <2>1 DEF Stopped
  <2>3. ~Starts(new, out)
    <3>1. out = dir /\ (6 \in new <=> 6 \in pins)
      BY <1>1, <1>2 DEF Aside
    <3>2. Level(Sda, pins, dir) <=> Level(Sda, new, out)
      BY <3>1 DEF Level, Sda
    <3>3. QED
      BY <3>2 DEF Starts
  <2>4. bus' = Heard(new, out)
    BY <1>1, <1>2 DEF Change
  <2>5. Heard(new, out) = Quiet
    BY <2>1, <2>3 DEF Heard
  <2>6. QED
    BY <1>1, <1>2, <2>2, <2>4, <2>5 DEF NoneAside
<1>3. CASE card = "AureonSpace"
  <2>1. 11 \in new <=> 11 \in pins
    BY <1>1, <1>3 DEF Aside
  <2>2. Committed(new) = {}
    BY <2>1 DEF Committed, AC97Pins
  <2>3. QED
    BY <1>1, <1>3, <2>2 DEF NoneAside
<1>4. QED
  BY <1>1, <1>2, <1>3 DEF NoneAside

\* What an access does, by where it stands.
Moved(chip, w, word, a) ==
    /\ Aside(a) /\ (card \notin {"AureonSpace", "ProdigyHD2"} => masked' = masked)
    /\ \/ Sent < 0 /\ LeadMade(chip, w, word, a)
       \/ /\ Sent \in 0 .. Last(w) - 1 /\ FromCodecs(Levels(a)) = {}
          /\ Taking(chip, w, word, Sent)'
       \/ Sent = Last(w) /\ FromCodecs(Levels(a)) = {call} /\ Landed'
       \/ Sent > Last(w) /\ FromCodecs(Levels(a)) = {} /\ Landed'
    /\ Sent < Last(w) => n < Len(Frame(card, call))

SerialNow(chip, w, word) ==
    /\ Sent <= Last(w) => ~latched
    /\ Sent < 0 => Leading
    /\ Sent \in 0 .. Last(w) => Taking(chip, w, word, Sent)
    /\ Sent > Last(w) => latched /\ Landed

\* The frame of the Phase 22.
LEMMA CifPlace ==
    ASSUME NEW chip, NEW w, NEW word, Serving(chip, w, word), card = "Phase22",
           NEW F, F = Frame(card, call)
    PROVE  CifSends(F, w, word, {3})
<1>1. Port(w) /\ w.cif = TRUE /\ word \in Nat
  BY DEF Serving, SerialPort, Made
<1>2. PICK flags : flags = {3}
  OBVIOUS
<1>3. flags \in SUBSET Pins
  BY <1>2 DEF Pins
<1>4. F = AkmFrame(w, flags, word)
  <2>1. call.chip \in ChipsWired[card] /\ card \in GpioCards
    BY SerialIs DEF Serving
  <2>2. QED
    BY <1>2, <2>1, SerialFrameIs DEF SerialFrame, Serving
<1>5. CifSends(F, w, word, flags)
  BY <1>1, <1>3, <1>4, CifFrameSends, Zenon
<1>6. QED
  BY <1>2, <1>5, Zenon

\* The lengths of a frame's parts.
Counted(F, w, L, b, t) ==
    /\ L = Lead(card) /\ b = 3 * w.width /\ Len(F) = L + b + t
    /\ (t = 2) = (card \in {"AureonSpace", "ProdigyHD2", "Phase22"})
    /\ Last(w) = IF card = "Phase22" THEN b + 1 ELSE b
    /\ (L = 0) = (card = "Phase22")

LEMMA CountedIs ==
    ASSUME NEW chip, NEW w, NEW word, Serving(chip, w, word), NEW F, F = Frame(card, call)
    PROVE  \E L \in 0 .. 3, b \in {48, 72}, t \in 1 .. 2 : Counted(F, w, L, b, t)
<1>1. PICK b \in {48, 72} : b = 3 * w.width
  <2>1. w.width \in {16, 24}
    BY DEF Serving
  <2>2. 3 * w.width \in {48, 72}
    BY <2>1
  <2>3. QED
    BY <2>2
<1>2. Last(w) = IF card = "Phase22" THEN b + 1 ELSE b
  BY <1>1 DEF Last, Serving
<1>3. CASE card = "Phase22"
  <2>1. Lead(card) = 0
    BY <1>3 DEF Lead
  <2>2. Len(F) = 3 * w.width + 2
    <3>1. CifSends(F, w, word, {3})
      BY <1>3, CifPlace, Zenon
    <3>2. QED
      BY <3>1, Zenon DEF CifSends
  <2>3. Len(F) = b + 2
    BY <1>1, <2>2
  <2>4. Len(F) = 0 + b + 2
    BY <2>3
  <2>5. Counted(F, w, 0, b, 2)
    BY <1>1, <1>2, <1>3, <2>1, <2>4 DEF Counted
  <2>6. QED
    BY <2>5
<1>4. CASE card # "Phase22"
  <2>1. PICK L \in 1 .. 3 : L = Lead(card)
    BY <1>4, AtPlace
  <2>2. /\ Len(F) = Lead(card) + 3 * w.width + Len(TailOf(card, w))
        /\ Len(TailOf(card, w)) = (IF card \in {"AureonSpace", "ProdigyHD2"} THEN 2 ELSE 1)
    BY <1>4, AtPlace
  <2>3. PICK t : /\ Len(F) = Lead(card) + 3 * w.width + t
                 /\ t = (IF card \in {"AureonSpace", "ProdigyHD2"} THEN 2 ELSE 1)
    BY <2>2
  <2>4. t \in 1 .. 2 /\ (t = 2) = (card \in {"AureonSpace", "ProdigyHD2", "Phase22"})
    BY <1>4, <2>3
  <2>5. Counted(F, w, L, b, t)
    BY <1>1, <1>2, <1>4, <2>1, <2>3, <2>4 DEF Counted
  <2>6. QED
    BY <2>1, <2>4, <2>5
<1>5. QED
  BY <1>3, <1>4

LEMMA LeadMoves ==
    ASSUME TypeInv, NEW chip, NEW w, NEW word, Serving(chip, w, word),
           SerialNow(chip, w, word), Open(card) \cap masked = {},
           NEW F, NEW a, Accessed(F, a), card # "Phase22", Sent < 0
    PROVE  Moved(chip, w, word, a)
<1>1. F = Frame(card, call) /\ n \in 1 .. Len(F) /\ a = F[n] /\ Makes(a)
      /\ (n < Len(F) => n' = n + 1)
  BY AccessMakes
<1>2. PICK L \in 0 .. 3, b \in {48, 72}, t \in 1 .. 2 : Counted(F, w, L, b, t)
  BY <1>1, CountedIs
<1>3. /\ L = Lead(card) /\ Len(F) = L + b + t /\ Last(w) = b /\ Sent = n - 1 - L
      /\ Len(LeadOf(card, w)) = L
  BY <1>1, <1>2, AtPlace DEF Counted, Sent
<1>4. n \in 1 .. L /\ n < Len(F) /\ n' = n + 1 /\ Sent < Last(w)
  BY <1>1, <1>2, <1>3
<1>5. a = LeadOf(card, w)[n]
  <2>1. Places(F, w, word, LeadOf(card, w), TailOf(card, w))
    BY <1>1, AtPlace
  <2>2. n - 1 - Len(LeadOf(card, w)) < 0
    BY <1>3
  <2>3. QED
    BY <1>1, <2>1, <2>2 DEF Places
<1>6. Leading
  BY DEF SerialNow
<1>7. LeadMade(chip, w, word, a) /\ (card \notin {"AureonSpace", "ProdigyHD2"} => masked' = masked)
  <2>1. CASE card \in Revolutions
    <3>1. n = 1
      BY <1>3, <1>4, <2>1 DEF Lead, Revolutions
    <3>2. QED
      BY <1>1, <1>5, <1>6, <2>1, <3>1, RevoLeads
  <2>2. CASE card = "AureonSpace"
    <3>1. n = 1
      BY <1>3, <1>4, <2>2 DEF Lead
    <3>2. QED
      BY <1>1, <1>5, <1>6, <2>2, <3>1, AureonLeads
  <2>3. CASE card = "AP192"
    <3>1. n \in 1 .. 3
      BY <1>4
    <3>2. QED
      BY <1>1, <1>4, <1>5, <1>6, <2>3, <3>1, AP192Leads
  <2>4. CASE card = "ProdigyHD2"
    <3>1. n \in 1 .. 3
      BY <1>4
    <3>2. QED
      BY <1>1, <1>4, <1>5, <1>6, <2>4, <3>1, ProdigyLeads
  <2>5. QED
    BY <2>1, <2>2, <2>3, <2>4 DEF Serving, GpioCards, Revolutions
<1>8. QED
  BY <1>1, <1>4, <1>7 DEF Moved, LeadMade

-----------------------------------------------------------------------------
(* The accesses of the bits, and those after them *)

\* A bit's access leaves the other devices alone.
LEMMA BitMoves ==
    ASSUME TypeInv, NEW chip, NEW w, NEW word, Serving(chip, w, word), NEW a, Makes(a),
           NEW j \in 0 .. 3 * w.width - 1, Taking(chip, w, word, j), a = Bits(w, word)[j + 1]
    PROVE  /\ Taking(chip, w, word, j + 1)' /\ FromCodecs(Levels(a)) = {}
           /\ Aside(a) /\ masked' = masked
<1>1. /\ card \in OnGpio /\ card \in GpioCards /\ Devices /\ chip \in Serial(card)
      /\ w = Wiring[card][chip] /\ word \in Nat /\ word < 2^w.width
  BY DEF Serving, Made, TypeInv
<1>2. /\ Taking(chip, w, word, j + 1)' /\ FromCodecs(Levels(a)) = {}
      /\ \A p \in Pins \ {w.clk, w.data} : (p \in Levels(a)) = (p \in pins)
      /\ Directed(a) = dir /\ MaskOf(a) = masked
  <2>1. BitMade(chip, w, word, j, a)
    BY <1>1, BitStep, Zenon
  <2>2. QED
    BY <2>1, Zenon DEF BitMade
<1>3. Aside(a)
  <2>1. card \in {"Revo51", "AureonSpace"} => \A p \in {6, 7, 11} : p \in Pins \ {w.clk, w.data}
    BY <1>1, PinsAre DEF Pins
  <2>2. QED
    BY <1>2, <2>1 DEF Aside
<1>4. QED
  BY <1>2, <1>3 DEF Makes

LEMMA SentMoves ==
    ASSUME TypeInv, NEW chip, NEW w, NEW word, Serving(chip, w, word),
           SerialNow(chip, w, word), NEW F, NEW a, Accessed(F, a), card # "Phase22",
           Sent \in 0 .. Last(w) - 1
    PROVE  Moved(chip, w, word, a)
<1>1. F = Frame(card, call) /\ n \in 1 .. Len(F) /\ a = F[n] /\ Makes(a) /\ card' = card
      /\ (n < Len(F) => n' = n + 1)
  BY AccessMakes DEF Makes
<1>2. PICK L \in 0 .. 3, b \in {48, 72}, t \in 1 .. 2 : Counted(F, w, L, b, t)
  BY <1>1, CountedIs
<1>3. /\ L = Lead(card) /\ b = 3 * w.width /\ Len(F) = L + b + t /\ Last(w) = b
      /\ Sent = n - 1 - L /\ Len(LeadOf(card, w)) = L
  BY <1>1, <1>2, AtPlace DEF Counted, Sent
<1>4. PICK j \in 0 .. b - 1 : j = n - 1 - L /\ Sent = j
  BY <1>3
<1>5. n \in Nat /\ n < Len(F) /\ n' = n + 1
  <2>1. PICK len : len = Len(F) /\ len = L + b + t
    BY <1>3
  <2>2. n \in 1 .. len
    BY <1>1, <2>1
  <2>3. n \in Nat /\ n < len
    BY <1>4, <2>1, <2>2
  <2>4. QED
    BY <1>1, <2>1, <2>3
<1>6. Sent' = j + 1
  <2>1. Sent' = n' - 1 - L
    BY <1>1, <1>3 DEF Sent
  <2>2. QED
    BY <1>2, <1>4, <1>5, <2>1
<1>7. a = Bits(w, word)[j + 1]
  <2>1. Places(F, w, word, LeadOf(card, w), TailOf(card, w))
    BY <1>1, AtPlace
  <2>2. n - 1 - Len(LeadOf(card, w)) = j /\ j \in 0 .. 3 * w.width - 1
    BY <1>3, <1>4
  <2>3. QED
    BY <1>1, <2>1, <2>2, Zenon DEF Places
<1>8. Taking(chip, w, word, j)
  BY <1>3, <1>4 DEF SerialNow
<1>9. /\ Taking(chip, w, word, j + 1)' /\ FromCodecs(Levels(a)) = {}
      /\ Aside(a) /\ masked' = masked
  BY <1>1, <1>3, <1>7, <1>8, BitMoves
<1>10. Taking(chip, w, word, Sent)'
  BY <1>6, <1>9
<1>11. Sent \in 0 .. Last(w) - 1 /\ n < Len(Frame(card, call))
  BY <1>1, <1>5
<1>12. QED
  BY <1>9, <1>10, <1>11, Zenon DEF Moved

LEMMA CifMoves ==
    ASSUME TypeInv, NEW chip, NEW w, NEW word, Serving(chip, w, word),
           SerialNow(chip, w, word), Open(card) \cap masked = {}, NEW F, NEW a,
           Accessed(F, a), card = "Phase22", Sent \in 0 .. Last(w) - 1
    PROVE  Moved(chip, w, word, a)
<1>1. F = Frame(card, call) /\ n \in 1 .. Len(F) /\ a = F[n] /\ Makes(a) /\ card' = card
      /\ (n < Len(F) => n' = n + 1)
  BY AccessMakes DEF Makes
<1>2. PICK L \in 0 .. 3, b \in {48, 72}, t \in 1 .. 2 : Counted(F, w, L, b, t)
  BY <1>1, CountedIs
<1>3. /\ L = 0 /\ 0 = Lead(card) /\ b = 3 * w.width /\ Len(F) = b + 2 /\ Last(w) = b + 1
      /\ Sent = n - 1
  BY <1>1, <1>2 DEF Counted, Sent
<1>4. PICK j \in 0 .. b : j = n - 1 /\ Sent = j
  BY <1>3
<1>5. n = j + 1 /\ n < Len(F) /\ n' = n + 1
  BY <1>1, <1>3, <1>4
<1>6. Sent' = j + 1
  <2>1. Sent' = n' - 1 - 0
    BY <1>1, <1>3 DEF Sent
  <2>2. QED
    BY <1>4, <1>5, <2>1
<1>7. /\ F[1] = Set({3} \cup {w.cs}, {w.clk})
      /\ \A i \in 2 .. b : F[i] = Bits(w, word)[i]
      /\ F[b + 1] = Set({}, {w.cs})
  <2>1. CifSends(F, w, word, {3})
    BY <1>1, CifPlace
  <2>2. QED
    BY <1>3, <2>1, Zenon DEF CifSends
<1>8. Taking(chip, w, word, j)
  BY <1>3, <1>4 DEF SerialNow
<1>9. /\ Taking(chip, w, word, j + 1)' /\ FromCodecs(Levels(a)) = {} /\ masked' = masked
  <2>1. CASE j = 0
    <3>1. a = Set({3} \cup {w.cs}, {w.clk}) /\ Taking(chip, w, word, 0)
      <4>1. n = 1 /\ a = F[1]
        BY <1>1, <1>5, <2>1
      <4>2. Taking(chip, w, word, 0)
        BY <1>8, <2>1
      <4>3. QED
        BY <1>7, <4>1, <4>2
    <3>2. FromCodecs(Levels(a)) = {} /\ Taking(chip, w, word, 1)' /\ masked' = masked
      <4>1. a = CifOpens(w)
        BY <3>1 DEF CifOpens
      <4>2. QED
        BY <1>1, <3>1, <4>1, CifFirst
    <3>3. QED
      BY <2>1, <3>2
  <2>2. CASE j \in 1 .. b - 1
    <3>1. j \in 0 .. 3 * w.width - 1 /\ n \in 2 .. b
      BY <1>3, <1>5, <2>2
    <3>2. a = Bits(w, word)[j + 1]
      BY <1>1, <1>5, <1>7, <3>1
    <3>3. QED
      BY <1>1, <1>8, <3>1, <3>2, BitMoves
  <2>3. CASE j = b
    <3>1. a = Set({}, {w.cs}) /\ Taking(chip, w, word, 3 * w.width)
      BY <1>1, <1>3, <1>5, <1>7, <1>8, <2>3
    <3>2. /\ FromCodecs(Levels(a)) = {} /\ Taking(chip, w, word, 3 * w.width + 1)'
          /\ masked' = masked
      <4>1. a = CifCloses(w)
        BY <3>1 DEF CifCloses
      <4>2. QED
        BY <1>1, <3>1, <4>1, CifLast
    <3>3. QED
      BY <1>3, <2>3, <3>2
  <2>4. QED
    <3>1. j = 0 \/ j \in 1 .. b - 1 \/ j = b
      <4>1. b \in Nat /\ j \in Nat /\ j <= b
        BY <1>2, <1>4
      <4>2. QED
        BY <4>1
    <3>2. QED
      BY <2>1, <2>2, <2>3, <3>1
<1>10. Taking(chip, w, word, Sent)' /\ Aside(a)
  BY <1>6, <1>9 DEF Aside
<1>11. Sent \in 0 .. Last(w) - 1 /\ n < Len(Frame(card, call))
  BY <1>1, <1>5
<1>12. QED
  BY <1>9, <1>10, <1>11, Zenon DEF Moved

LEMMA LastMoves ==
    ASSUME TypeInv, NEW chip, NEW w, NEW word, Serving(chip, w, word),
           SerialNow(chip, w, word), Open(card) \cap masked = {},
           NEW F, NEW a, Accessed(F, a), Sent = Last(w)
    PROVE  Moved(chip, w, word, a)
<1>1. F = Frame(card, call) /\ n \in 1 .. Len(F) /\ a = F[n] /\ Makes(a) /\ card' = card
  BY AccessMakes DEF Makes
<1>2. PICK L \in 0 .. 3, b \in {48, 72}, t \in 1 .. 2 : Counted(F, w, L, b, t)
  BY <1>1, CountedIs
<1>3. L = Lead(card) /\ b = 3 * w.width /\ Len(F) = L + b + t /\ Sent = n - 1 - L
      /\ n \in Nat /\ Last(w) = IF card = "Phase22" THEN b + 1 ELSE b
  BY <1>1, <1>2 DEF Counted, Sent
<1>4. a = Raising(card, w)
  <2>1. CASE card = "Phase22"
    <3>1. L = 0 /\ n = b + 2
      BY <1>2, <1>3, <2>1 DEF Counted
    <3>2. CifSends(F, w, word, {3})
      BY <1>1, <2>1, CifPlace
    <3>3. F[b + 2] = Set({w.cs}, {})
      BY <1>3, <3>2, Zenon DEF CifSends
    <3>4. QED
      BY <1>1, <2>1, <3>1, <3>3 DEF Raising
  <2>2. CASE card # "Phase22"
    <3>1. Places(F, w, word, LeadOf(card, w), TailOf(card, w)) /\ Len(LeadOf(card, w)) = L
          /\ Len(TailOf(card, w)) = (IF card \in {"AureonSpace", "ProdigyHD2"} THEN 2 ELSE 1)
      BY <1>1, <1>3, <2>2, AtPlace
    <3>2. n - 1 - L = 3 * w.width - 1 + 1 /\ 1 \in 1 .. Len(TailOf(card, w))
      <4>1. n - 1 - L = b
        BY <1>3, <2>2
      <4>2. b = b - 1 + 1
        BY <1>2
      <4>3. 1 \in 1 .. Len(TailOf(card, w))
        BY <3>1
      <4>4. QED
        BY <1>3, <4>1, <4>2, <4>3
    <3>3. F[n] = TailOf(card, w)[1]
      <4>1. PICK lead, tail : lead = LeadOf(card, w) /\ tail = TailOf(card, w)
        OBVIOUS
      <4>2. /\ Places(F, w, word, lead, tail) /\ 1 \in 1 .. Len(tail)
            /\ n - 1 - Len(lead) = 3 * w.width - 1 + 1
        BY <3>1, <3>2, <4>1, Zenon
      <4>3. F[n] = tail[1]
        BY <1>1, <4>2, Zenon DEF Places
      <4>4. QED
        BY <4>1, <4>3, Zenon
    <3>4. TailOf(card, w)[1] = Raising(card, w)
      <4>1. CASE card = "Revo71"
        BY <4>1 DEF TailOf, Raising
      <4>2. CASE card = "Revo51"
        <5>1. {4, 5} \ {4, 5} = {}
          OBVIOUS
        <5>2. QED
          BY <4>2, <5>1 DEF TailOf, Raising
      <4>3. CASE card = "AP192"
        BY <4>3 DEF TailOf, Raising
      <4>4. CASE card = "AureonSpace"
        BY <4>4 DEF TailOf, Raising
      <4>5. CASE card = "ProdigyHD2"
        BY <4>5 DEF TailOf, Raising
      <4>6. QED
        BY <2>2, <4>1, <4>2, <4>3, <4>4, <4>5 DEF Serving, GpioCards
    <3>5. QED
      BY <1>1, <3>3, <3>4
  <2>3. QED
    BY <2>1, <2>2
<1>5. Taking(chip, w, word, Last(w))
  <2>1. PICK e \in Nat : e = Last(w) /\ e = Sent
    <3>1. b \in Nat /\ b + 1 \in Nat
      BY <1>2
    <3>2. QED
      BY <1>3, <3>1
  <2>2. Sent \in 0 .. Last(w)
    BY <2>1
  <2>3. QED
    BY <2>2 DEF SerialNow
<1>6. /\ FromCodecs(Levels(a)) = {call} /\ Still' /\ Deselected' /\ Up(card) \subseteq pins'
      /\ masked' = masked /\ Aside(a)
  BY <1>1, <1>4, <1>5, Finish
<1>7. Landed'
  BY <1>1, <1>6 DEF Landed
<1>8. ~(Sent < Last(w))
  BY <1>2, <1>3
<1>9. QED
  BY <1>6, <1>7, <1>8 DEF Moved

LEMMA TrailMoves ==
    ASSUME TypeInv, NEW chip, NEW w, NEW word, Serving(chip, w, word),
           SerialNow(chip, w, word), NEW F, NEW a, Accessed(F, a), Sent > Last(w)
    PROVE  Moved(chip, w, word, a)
<1>1. F = Frame(card, call) /\ n \in 1 .. Len(F) /\ a = F[n] /\ Makes(a) /\ card' = card
  BY AccessMakes DEF Makes
<1>2. PICK L \in 0 .. 3, b \in {48, 72}, t \in 1 .. 2 : Counted(F, w, L, b, t)
  BY <1>1, CountedIs
<1>3. L = Lead(card) /\ b = 3 * w.width /\ Len(F) = L + b + t /\ Sent = n - 1 - L
      /\ n \in Nat /\ Last(w) = IF card = "Phase22" THEN b + 1 ELSE b
  BY <1>1, <1>2 DEF Counted, Sent
<1>4. card # "Phase22" /\ t = 2 /\ n - 1 - L = 3 * w.width - 1 + 2
  <2>1. card # "Phase22"
    <3>1. card = "Phase22" => L = 0 /\ n - 1 > b + 1 /\ n <= b + 2
      BY <1>1, <1>2, <1>3 DEF Counted
    <3>2. QED
      BY <1>2, <1>3, <3>1
  <2>2. n - 1 - L > b /\ n <= L + b + t
    BY <1>1, <1>3, <2>1
  <2>3. t = 2 /\ n - 1 - L = b - 1 + 2
    BY <1>2, <1>3, <2>1, <2>2, SMTT(30)
  <2>4. QED
    BY <1>3, <2>1, <2>3
<1>5. card \in {"AureonSpace", "ProdigyHD2"}
  BY <1>2, <1>4 DEF Counted
<1>6. a = TailOf(card, w)[2]
  <2>1. Places(F, w, word, LeadOf(card, w), TailOf(card, w)) /\ Len(LeadOf(card, w)) = L
        /\ Len(TailOf(card, w)) = 2
    BY <1>1, <1>3, <1>4, <1>5, AtPlace
  <2>2. 2 \in 1 .. Len(TailOf(card, w))
    BY <2>1
  <2>3. PICK lead, tail : lead = LeadOf(card, w) /\ tail = TailOf(card, w)
    OBVIOUS
  <2>4. /\ Places(F, w, word, lead, tail) /\ 2 \in 1 .. Len(tail)
        /\ n - 1 - Len(lead) = 3 * w.width - 1 + 2
    BY <1>4, <2>1, <2>2, <2>3, Zenon
  <2>5. F[n] = tail[2]
    BY <1>1, <2>4, Zenon DEF Places
  <2>6. QED
    BY <1>1, <2>3, <2>5, Zenon
<1>7. card \in {"AureonSpace", "ProdigyHD2"} /\ a = Ending(card, w)
  BY <1>5, <1>6 DEF TailOf, Ending
<1>8. FromCodecs(Levels(a)) = {} /\ Landed' /\ Aside(a)
  <2>1. Landed
    BY DEF SerialNow
  <2>2. QED
    BY <1>1, <1>7, <2>1, Trails
<1>9. ~(Sent < Last(w))
  BY <1>2, <1>3
<1>10. QED
  BY <1>5, <1>8, <1>9 DEF Moved

-----------------------------------------------------------------------------
(* A write to a serial codec, access by access *)

LEMMA SerialMoves ==
    ASSUME TypeInv, NEW chip, NEW w, NEW word, Serving(chip, w, word),
           SerialNow(chip, w, word), Open(card) \cap masked = {},
           NEW F, NEW a, Accessed(F, a)
    PROVE  Moved(chip, w, word, a)
<1>1. F = Frame(card, call) /\ n \in 1 .. Len(F)
  BY AccessMakes
<1>2. PICK L \in 0 .. 3, b \in {48, 72}, t \in 1 .. 2 : Counted(F, w, L, b, t)
  BY <1>1, CountedIs
<1>3. PICK m \in Nat, s \in Int, l \in {b, b + 1} :
          m = n /\ m >= 1 /\ s = m - 1 - L /\ Sent = s /\ l = Last(w)
  <2>1. Sent = n - 1 - L /\ Last(w) \in {b, b + 1}
    BY <1>2 DEF Counted, Sent
  <2>2. n \in Nat /\ n >= 1
    BY <1>1
  <2>3. QED
    BY <1>2, <2>1, <2>2
<1>4. l \in Nat
  BY <1>2, <1>3
<1>5. CASE s < 0
  <2>1. card # "Phase22"
    <3>1. card = "Phase22" => L = 0
      BY <1>2 DEF Counted
    <3>2. QED
      BY <1>3, <1>5, <3>1
  <2>2. Sent < 0
    BY <1>3, <1>5
  <2>3. QED
    BY <2>1, <2>2, LeadMoves
<1>6. CASE s \in 0 .. l - 1
  <2>1. Sent \in 0 .. Last(w) - 1
    BY <1>3, <1>6
  <2>2. QED
    BY <2>1, SentMoves, CifMoves
<1>7. CASE s = l
  BY <1>3, <1>7, LastMoves
<1>8. CASE s > l
  <2>1. Sent > Last(w)
    BY <1>3, <1>8
  <2>2. QED
    BY <2>1, TrailMoves
<1>9. s < 0 \/ s \in 0 .. l - 1 \/ s = l \/ s > l
  BY <1>3, <1>4
<1>10. QED
  BY <1>5, <1>6, <1>7, <1>8, <1>9

\* What an access of the frame leaves behind.
SerialMade(chip, w, word, a) ==
    /\ Delivers(a)
    /\ n < Len(Frame(card, call)) => SerialNow(chip, w, word)'
    /\ n = Len(Frame(card, call)) => Still' /\ Up(card) \subseteq pins'
    /\ card = "Revo51" => bus' = Quiet /\ dir' = dir
    /\ card \notin {"AureonSpace", "ProdigyHD2"} => masked' = masked

LEMMA SerialAccess ==
    ASSUME TypeInv, Registers, NEW chip, NEW w, NEW word, Serving(chip, w, word),
           SerialNow(chip, w, word), Open(card) \cap masked = {},
           card = "Revo51" => bus = Quiet, NEW F, NEW a, Accessed(F, a)
    PROVE  SerialMade(chip, w, word, a)
<1>1. /\ F = Frame(card, call) /\ n \in 1 .. Len(F) /\ Makes(a) /\ card' = card
      /\ (n < Len(F) => n' = n + 1)
  BY AccessMakes DEF Makes
<1>2. Moved(chip, w, word, a)
  BY SerialMoves
<1>3. PICK L \in 0 .. 3, b \in {48, 72}, t \in 1 .. 2 : Counted(F, w, L, b, t)
  BY <1>1, CountedIs
<1>4. PICK m \in Nat, s \in Int, l \in {b, b + 1} :
          m = n /\ m >= 1 /\ s = m - 1 - L /\ Sent = s /\ l = Last(w) /\ L = Lead(card)
  <2>1. Sent = n - 1 - L /\ Last(w) \in {b, b + 1} /\ L = Lead(card)
    BY <1>3 DEF Counted, Sent
  <2>2. n \in Nat /\ n >= 1
    BY <1>1
  <2>3. QED
    BY <1>3, <2>1, <2>2
<1>5. l \in Nat
  BY <1>3, <1>4
<1>6. PICK new, out : new = Levels(a) /\ out = Directed(a)
  OBVIOUS
<1>7. Change(new, out) /\ pins' = new /\ dir' = out
  BY <1>1, <1>6 DEF Makes
<1>8. Landing(new, out) = FromCodecs(new) /\ (card = "Revo51" => bus' = Quiet /\ dir' = dir)
  <2>1. Aside(a)
    BY <1>2 DEF Moved
  <2>2. NoneAside(new, out) /\ (card = "Revo51" => bus' = Quiet)
    BY <1>1, <1>6, <2>1, AsideStays
  <2>3. card = "Revo51" => dir' = dir
    BY <1>6, <1>7, <2>1 DEF Aside
  <2>4. QED
    BY <2>2, <2>3, LandingIs
<1>9. ASSUME FromCodecs(new) = {}
      PROVE  Landing(Levels(a), Directed(a)) = {} /\ (latched' <=> latched)
  BY <1>6, <1>7, <1>8, <1>9, NothingLands
<1>10. n < Len(F) => Sent' = s + 1
  <2>1. Sent' = n' - 1 - L
    BY <1>1, <1>4 DEF Sent
  <2>2. n < Len(F) => n' = m + 1
    BY <1>1, <1>4
  <2>3. QED
    BY <1>3, <1>4, <2>1, <2>2
<1>11. card \notin {"AureonSpace", "ProdigyHD2"} => masked' = masked
  BY <1>2 DEF Moved
<1>12. s < l => n < Len(F)
  <2>1. s < l => Sent < Last(w)
    BY <1>4
  <2>2. QED
    BY <1>1, <1>2, <2>1 DEF Moved
<1>13. ASSUME s < 0
       PROVE  SerialMade(chip, w, word, a)
  <2>1. Sent < 0 /\ Sent <= Last(w) /\ s < l /\ ~(Sent \in 0 .. Last(w) - 1)
        /\ ~(Sent = Last(w)) /\ ~(Sent > Last(w))
    BY <1>4, <1>5, <1>13
  <2>2. LeadMade(chip, w, word, a)
    BY <1>2, <2>1 DEF Moved
  <2>3. /\ FromCodecs(new) = {} /\ IF n = Lead(card) THEN Taking(chip, w, word, 0)' ELSE Leading'
    BY <1>6, <2>2 DEF LeadMade
  <2>4. ~latched /\ ~latched' /\ Landing(Levels(a), Directed(a)) = {}
    BY <1>9, <2>1, <2>3 DEF SerialNow
  <2>5. n < Len(F) /\ n # Len(F)
    BY <1>1, <1>12, <2>1
  <2>6. SerialNow(chip, w, word)'
    <3>1. CASE n = L
      <4>1. Sent' = 0
        BY <1>3, <1>4, <1>10, <2>5, <3>1
      <4>2. Taking(chip, w, word, Sent)'
        BY <1>4, <2>3, <3>1, <4>1
      <4>3. ~(Sent' < 0) /\ ~(Sent' > Last(w))
        BY <1>4, <1>5, <4>1
      <4>4. QED
        BY <2>4, <4>2, <4>3 DEF SerialNow
    <3>2. CASE n # L
      <4>1. Leading'
        BY <1>4, <2>3, <3>2
      <4>2. Sent' < 0
        <5>1. s + 1 < 0
          BY <1>3, <1>4, <1>13, <3>2
        <5>2. QED
          BY <1>10, <2>5, <5>1
      <4>3. ~(Sent' \in 0 .. Last(w)) /\ ~(Sent' > Last(w))
        BY <1>4, <1>5, <1>10, <2>5, <4>2
      <4>4. QED
        BY <2>4, <4>1, <4>3 DEF SerialNow
    <3>3. QED
      BY <3>1, <3>2
  <2>7. Delivers(a)
    BY <1>1, <2>4, <2>5 DEF Delivers
  <2>8. QED
    BY <1>1, <1>8, <1>11, <2>5, <2>6, <2>7 DEF SerialMade
<1>14. ASSUME s \in 0 .. l - 1
       PROVE  SerialMade(chip, w, word, a)
  <2>1. ~(Sent < 0) /\ Sent <= Last(w) /\ s < l /\ ~(Sent = Last(w)) /\ ~(Sent > Last(w))
    BY <1>4, <1>5, <1>14
  <2>2. FromCodecs(new) = {} /\ Taking(chip, w, word, Sent)'
    BY <1>2, <1>6, <2>1 DEF Moved
  <2>3. ~latched /\ ~latched' /\ Landing(Levels(a), Directed(a)) = {}
    BY <1>9, <2>1, <2>2 DEF SerialNow
  <2>4. n < Len(F) /\ n # Len(F)
    BY <1>1, <1>12, <2>1
  <2>5. SerialNow(chip, w, word)'
    <3>1. ~(Sent' < 0) /\ ~(Sent' > Last(w))
      BY <1>4, <1>5, <1>10, <1>14, <2>4
    <3>2. QED
      BY <2>2, <2>3, <3>1 DEF SerialNow
  <2>6. Delivers(a)
    BY <1>1, <2>3, <2>4 DEF Delivers
  <2>7. QED
    BY <1>1, <1>8, <1>11, <2>4, <2>5, <2>6 DEF SerialMade
<1>15. ASSUME s = l
       PROVE  SerialMade(chip, w, word, a)
  <2>1. ~(Sent < 0) /\ Sent <= Last(w) /\ Sent = Last(w) /\ ~(Sent \in 0 .. Last(w) - 1)
        /\ ~(Sent > Last(w))
    BY <1>4, <1>5, <1>15
  <2>2. FromCodecs(new) = {call} /\ Landed'
    BY <1>2, <1>6, <2>1 DEF Moved
  <2>3. ~latched /\ IsWrite(call)
    BY <2>1 DEF SerialNow, Serving
  <2>4. latched'
    BY <1>7, <1>8, <2>2, OneLands
  <2>5. n < Len(F) => SerialNow(chip, w, word)'
    <3>1. SUFFICES ASSUME n < Len(F)
                   PROVE  SerialNow(chip, w, word)'
      OBVIOUS
    <3>2. Sent' = l + 1
      BY <1>10, <1>15, <3>1
    <3>3. ~(Sent' <= Last(w)) /\ ~(Sent' < 0) /\ ~(Sent' \in 0 .. Last(w))
      BY <1>4, <1>5, <3>2
    <3>4. QED
      BY <2>2, <2>4, <3>3 DEF SerialNow
  <2>6. Delivers(a)
    BY <1>6, <1>8, <2>2, <2>3 DEF Delivers
  <2>7. Still' /\ Up(card) \subseteq pins'
    BY <1>1, <2>2 DEF Landed
  <2>8. QED
    BY <1>1, <1>8, <1>11, <2>5, <2>6, <2>7 DEF SerialMade
<1>16. ASSUME s > l
       PROVE  SerialMade(chip, w, word, a)
  <2>1. ~(Sent < 0) /\ Sent > Last(w) /\ ~(Sent = Last(w)) /\ ~(Sent \in 0 .. Last(w) - 1)
    BY <1>4, <1>5, <1>16
  <2>2. FromCodecs(new) = {} /\ Landed'
    BY <1>2, <1>6, <2>1 DEF Moved
  <2>3. latched /\ latched' /\ Landing(Levels(a), Directed(a)) = {}
    BY <1>9, <2>1, <2>2 DEF SerialNow
  <2>4. n < Len(F) => SerialNow(chip, w, word)'
    <3>1. SUFFICES ASSUME n < Len(F)
                   PROVE  SerialNow(chip, w, word)'
      OBVIOUS
    <3>2. ~(Sent' <= Last(w)) /\ ~(Sent' < 0) /\ ~(Sent' \in 0 .. Last(w))
      BY <1>4, <1>5, <1>10, <1>16, <3>1
    <3>3. QED
      BY <2>2, <2>3, <3>2 DEF SerialNow
  <2>5. Delivers(a)
    BY <2>3 DEF Delivers
  <2>6. Still' /\ Up(card) \subseteq pins'
    BY <1>1, <2>2 DEF Landed
  <2>7. QED
    BY <1>1, <1>8, <1>11, <2>4, <2>5, <2>6 DEF SerialMade
<1>17. s < 0 \/ s \in 0 .. l - 1 \/ s = l \/ s > l
  BY <1>4, <1>5
<1>18. QED
  BY <1>13, <1>14, <1>15, <1>16, <1>17

-----------------------------------------------------------------------------
(* The accesses that card_init makes between the writes *)

\* The clocks of the serial codecs do not rise, or do while none is selected.
Asleep(new) ==
    \A k \in Serial(card) :
        \/ Wiring[card][k].clk \notin new \ pins
        \/ Wiring[card][k].cs \in new /\ ~Wiring[card][k].cif

LEMMA StepAccess ==
    ASSUME TypeInv, card \in OnGpio, Still, pc = "gpio", ~IsWrite(call), NEW F, NEW a,
           Accessed(F, a), Asleep(Levels(a)), NoneAside(Levels(a), Directed(a))
    PROVE  Delivers(a) /\ Still'
<1>1. PICK new, out : new = Levels(a) /\ out = Directed(a)
  OBVIOUS
<1>2. Change(new, out) /\ card' = card /\ Devices
  BY <1>1, AccessMakes DEF Makes, TypeInv
<1>3. \A k \in Serial(card) : Idle(k, new)
  BY <1>1 DEF Idle, Still, Asleep
<1>4. Still' /\ FromCodecs(new) = {}
  BY <1>2, <1>3, AllIdle
<1>5. Landing(new, out) = {}
  BY <1>1, <1>4, LandingIs
<1>6. QED
  BY <1>1, <1>4, <1>5 DEF Delivers

LEMMA StepFramesAre ==
    ASSUME NEW c, NEW w
    PROVE  /\ w.chip = "boot" => Frame(c, w) = << Boot(c) >>
           /\ w.chip = "mute" => Frame(c, w) = << Set({}, {22}) >>
           /\ w.chip = "unmute" => Frame(c, w) = << Set({22}, {}) >>
           /\ w.chip = "mux" => Frame(c, w) = << Set({}, {5}) >>
           /\ w.chip = "adc" => Frame(c, w) = AdcMode
BY DEF Frame, SetUpSteps, SetUpFrame, Mute, Unmute, SelectMux, MutePin

\* What the first access does to masks, directions and levels.
BootHigh(c) == IF c \in Revolutions THEN {1, 4, 5, 6} ELSE {0, 3, 4, 11, 12, 13}
BootLow(c) == (IF c \in Revolutions THEN Pins ELSE 0 .. 15) \ BootHigh(c)

Booting(a) ==
    /\ Directed(a) = Outputs[card] /\ MaskOf(a) = Masked[card]
    /\ Levels(a) = (pins \cup (BootHigh(card) \ Masked[card]))
                       \ (BootLow(card) \ Masked[card])

LEMMA BootIs ==
    ASSUME NEW a, a = Boot(card)
    PROVE  Booting(a)
<1>1. a = Lines(Outputs[card], Masked[card], BootHigh(card), BootLow(card))
  BY Zenon DEF Boot, BootHigh, BootLow
<1>2. PICK out, m, up, down : /\ out = Outputs[card] /\ m = Masked[card]
                              /\ up = BootHigh(card) /\ down = BootLow(card)
  OBVIOUS
<1>3. a = Lines(out, m, up, down)
  BY <1>1, <1>2, Zenon
<1>4. /\ Directed(a) = out /\ MaskOf(a) = m
      /\ Levels(a) = (pins \cup (up \ m)) \ (down \ m)
  BY <1>3, LinesIs
<1>5. QED
  BY <1>2, <1>4, Zenon DEF Booting

BootMade(a) ==
    /\ Delivers(a) /\ Still' /\ Open(card) \cap masked' = {} /\ pc' = "idle"
    /\ card # "AureonSpace" => Up(card) \subseteq pins'
    /\ card = "AureonSpace" => masked' = {}
    /\ card = "Revo51" => bus' = Quiet /\ {6, 7} \subseteq dir'

LEMMA BootPins ==
    ASSUME card \in GpioCards, NEW a, Booting(a), NEW new, new = Levels(a)
    PROVE  /\ Asleep(new) /\ Open(card) \cap MaskOf(a) = {}
           /\ card # "AureonSpace" => Up(card) \subseteq new
           /\ card = "AureonSpace" => 11 \in new /\ MaskOf(a) = {}
           /\ card = "Revo51" => 7 \notin new /\ {6, 7} \subseteq Directed(a)
<1>1. PICK high, low, m : high = BootHigh(card) /\ low = BootLow(card) /\ m = Masked[card]
  OBVIOUS
<1>2. new = (pins \cup (high \ m)) \ (low \ m) /\ Directed(a) = Outputs[card] /\ MaskOf(a) = m
  BY <1>1, Zenon DEF Booting
<1>3. CASE card = "Revo71"
  <2>1. high = {1, 4, 5, 6} /\ m = {0, 2} \cup 7 .. 11 \cup 16 .. 21
    BY <1>1, <1>3 DEF BootHigh, Masked, Revolutions
  <2>2. 5 \notin low /\ 6 \notin low
    BY <1>1, <2>1 DEF BootLow, BootHigh
  <2>3. 5 \in new /\ 6 \in new
    BY <1>2, <2>1, <2>2
  <2>4. Asleep(new)
    BY <1>3, <2>3, PinsAre, WiredPorts, GpioCardsAre DEF Asleep
  <2>5. QED
    BY <1>2, <1>3, <2>1, <2>3, <2>4 DEF Open, Up
<1>4. CASE card = "Revo51"
  <2>1. high = {1, 4, 5, 6} /\ m = {0, 2} \cup 8 .. 11 \cup 16 .. 21
    BY <1>1, <1>4 DEF BootHigh, Masked, Revolutions
  <2>2. 1 \notin low /\ 4 \notin low /\ 5 \notin low /\ 7 \in low
    BY <1>1, <1>4, <2>1 DEF BootLow, BootHigh, Revolutions, Pins
  <2>3. 1 \in new /\ 4 \in new /\ 5 \in new /\ 7 \notin new
    BY <1>2, <2>1, <2>2
  <2>4. Asleep(new)
    BY <1>4, <2>3, PinsAre, WiredPorts, GpioCardsAre DEF Asleep
  <2>5. {6, 7} \subseteq Directed(a)
    BY <1>2, <1>4 DEF Outputs
  <2>6. QED
    BY <1>2, <1>4, <2>1, <2>3, <2>4, <2>5 DEF Open, Up
<1>5. CASE card \notin Revolutions
  <2>1. high = {0, 3, 4, 11, 12, 13} /\ m = {} /\ low = (0 .. 15) \ high
    BY <1>1, <1>5 DEF BootHigh, BootLow, Masked, Revolutions, GpioCards
  <2>2. /\ 1 \notin new /\ 4 \in new /\ 5 \notin new /\ 9 \notin new /\ 11 \in new
        /\ 19 \in new => 19 \in pins
    BY <1>2, <2>1
  <2>3. \A k \in Serial(card) : Wiring[card][k].clk \in {1, 5, 9, 19}
    BY <1>5, PinsAre DEF GpioCards, Revolutions
  <2>4. Asleep(new)
    BY <2>2, <2>3 DEF Asleep
  <2>5. QED
    BY <1>2, <1>5, <2>1, <2>2, <2>4 DEF Up, Revolutions, GpioCards
<1>6. QED
  BY <1>3, <1>4, <1>5 DEF Revolutions

\* The bus is quiet as long as SDA does not fall while SCL is high.
LEMMA StaysQuiet ==
    ASSUME bus = Quiet, NEW new, NEW out, ~Starts(new, out)
    PROVE  Heard(new, out) = Quiet /\ Stopped(new, out) = {}
<1>1. ~bus.on
  BY DEF Quiet
<1>2. QED
  BY <1>1 DEF Heard, Stopped

LEMMA BootAccess ==
    ASSUME TypeInv, card \in OnGpio, Still, pc = "gpio", call.chip = "boot",
           card = "Revo51" => bus = Quiet, NEW F, NEW a, Accessed(F, a)
    PROVE  BootMade(a)
<1>1. PICK new, out : new = Levels(a) /\ out = Directed(a)
  OBVIOUS
<1>2. /\ F = Frame(card, call) /\ n \in 1 .. Len(F) /\ a = F[n] /\ Makes(a)
      /\ \/ n < Len(F) /\ n' = n + 1 /\ pc' = pc /\ call' = call
         \/ n = Len(F) /\ n' = 0 /\ pc' = "idle" /\ call' = None
  BY AccessMakes
<1>3. F = << Boot(card) >>
  BY <1>2, StepFramesAre
<1>4. a = Boot(card) /\ pc' = "idle"
  <2>1. Len(F) = 1 /\ F[1] = Boot(card)
    BY <1>3
  <2>2. n = 1
    BY <1>2, <2>1
  <2>3. QED
    BY <1>2, <2>1, <2>2
<1>5. Booting(a) /\ card \in GpioCards
  BY <1>4, BootIs, GpioCardsAre
<1>6. /\ Asleep(new) /\ Open(card) \cap MaskOf(a) = {}
      /\ card # "AureonSpace" => Up(card) \subseteq new
      /\ card = "AureonSpace" => 11 \in new /\ MaskOf(a) = {}
      /\ card = "Revo51" => 7 \notin new /\ {6, 7} \subseteq out
  BY <1>1, <1>5, BootPins
<1>7. card = "Revo51" => ~Starts(new, out)
  BY <1>6 DEF Starts, Level, Scl, Sda
<1>8. NoneAside(new, out)
  BY <1>6, <1>7, StaysQuiet DEF NoneAside, Committed, AC97Pins
<1>9. ~IsWrite(call)
  BY DEF IsWrite, SetUpSteps
<1>10. Delivers(a) /\ Still'
  BY <1>1, <1>6, <1>8, <1>9, StepAccess
<1>11. pins' = new /\ dir' = out /\ masked' = MaskOf(a) /\ Change(new, out)
  BY <1>1, <1>2 DEF Makes
<1>12. card = "Revo51" => bus' = Quiet
  BY <1>7, <1>11, StaysQuiet DEF Change
<1>13. QED
  BY <1>4, <1>6, <1>10, <1>11, <1>12 DEF BootMade

\* The outputs' muting, the mode of the ADC, the S/PDIF output mux.
Simple == {"mute", "unmute", "adc", "mux"}
MovedBy(step) == IF step \in {"adc", "mux"} THEN {5, 8, 9, 10, 11} ELSE {22}

SimpleMade(a) ==
    /\ Delivers(a) /\ Still' /\ masked' = masked /\ dir' = dir
    /\ Up(card) \subseteq pins => Up(card) \subseteq pins'
    /\ card = "Revo51" => bus' = Quiet

LEMMA SimpleSets ==
    ASSUME NEW c, NEW w, w.chip \in Simple, NEW F, F = Frame(c, w), NEW i \in 1 .. Len(F)
    PROVE  \E up, down : F[i] = Set(up, down) /\ up \cup down \subseteq MovedBy(w.chip)
<1>1. CASE w.chip = "mute" \/ w.chip = "unmute" \/ w.chip = "mux"
  <2>1. PICK up, down : /\ F = << Set(up, down) >>
                        /\ up \cup down \subseteq MovedBy(w.chip)
    <3>1. CASE w.chip = "mute"
      <4>1. F = << Set({}, {22}) >> /\ {} \cup {22} \subseteq MovedBy(w.chip)
        BY <3>1, StepFramesAre DEF MovedBy
      <4>2. QED
        BY <4>1, Zenon
    <3>2. CASE w.chip = "unmute"
      <4>1. F = << Set({22}, {}) >> /\ {22} \cup {} \subseteq MovedBy(w.chip)
        BY <3>2, StepFramesAre DEF MovedBy
      <4>2. QED
        BY <4>1, Zenon
    <3>3. CASE w.chip = "mux"
      <4>1. F = << Set({}, {5}) >> /\ {} \cup {5} \subseteq MovedBy(w.chip)
        BY <3>3, StepFramesAre DEF MovedBy
      <4>2. QED
        BY <4>1, Zenon
    <3>4. QED
      BY <1>1, <3>1, <3>2, <3>3
  <2>2. Len(F) = 1 /\ F[1] = Set(up, down)
    BY <2>1
  <2>3. i = 1
    BY <2>2
  <2>4. QED
    BY <2>1, <2>2, <2>3
<1>2. CASE w.chip = "adc"
  <2>1. PICK x1, x2, x3, x4, x5 :
          /\ x1 = Set({}, {8}) /\ x2 = Set({}, {9}) /\ x3 = Set({}, {10})
          /\ x4 = Set({}, {11}) /\ x5 = Set({11}, {})
    OBVIOUS
  <2>2. F = << x1, x2, x3, x4, x5 >>
    BY <1>2, <2>1, StepFramesAre, Zenon DEF AdcMode
  <2>3. Len(F) = 5 /\ F[1] = x1 /\ F[2] = x2 /\ F[3] = x3 /\ F[4] = x4 /\ F[5] = x5
    BY <2>2
  <2>4. i = 1 \/ i = 2 \/ i = 3 \/ i = 4 \/ i = 5
    BY <2>3
  <2>5. PICK up, down : F[i] = Set(up, down) /\ up \cup down \subseteq {5, 8, 9, 10, 11}
    BY <2>1, <2>3, <2>4
  <2>6. QED
    BY <1>2, <2>5 DEF MovedBy
<1>3. QED
  BY <1>1, <1>2 DEF Simple

LEMMA SimpleAccess ==
    ASSUME TypeInv, card \in OnGpio, Still, pc = "gpio", call.chip \in Simple,
           card = "Revo51" => bus = Quiet, NEW F, NEW a, Accessed(F, a)
    PROVE  SimpleMade(a)
<1>1. PICK new, out : new = Levels(a) /\ out = Directed(a)
  OBVIOUS
<1>2. /\ F = Frame(card, call) /\ n \in 1 .. Len(F) /\ a = F[n] /\ Makes(a) /\ card \in GpioCards
      /\ call \in CallsOf[card] /\ card \in Cards
  BY AccessMakes, GpioCardsAre DEF TypeInv, ThreadTyped
<1>3. PICK up, down : /\ a = Set(up, down)
                      /\ up \cup down \subseteq MovedBy(call.chip)
  <2>1. F = Frame(card, call) /\ n \in 1 .. Len(F) /\ a = F[n]
    BY <1>2
  <2>2. \E up, down : F[n] = Set(up, down) /\ up \cup down \subseteq MovedBy(call.chip)
    BY <2>1, SimpleSets, SMTT(30)
  <2>3. QED
    BY <2>1, <2>2, Zenon
<1>4. /\ Directed(a) = dir /\ MaskOf(a) = masked
      /\ Levels(a) = (pins \cup (up \ masked)) \ (down \ masked)
  BY <1>3, SetIs
<1>5. call.chip \in StepsOf[card]
  <2>1. call.chip \notin ChipsWired[card] /\ call.chip # "PT2258" /\ call.chip # "AC97"
    BY <1>2 DEF Simple, ChipsWired, GpioCards
  <2>2. GpioCall(card, call)
    BY <1>2, GpioCalls
  <2>3. QED
    BY <2>1, <2>2, Zenon DEF GpioCall
<1>6. \/ card = "Revo71" /\ call.chip \notin {"adc", "mux"}
      \/ card = "Revo51" /\ call.chip \notin {"adc", "mux"}
      \/ card = "AP192"
  BY <1>2, <1>5 DEF StepsOf, GpioCards, Simple
<1>7. \A p \in {1, 4} : (p \in new) = (p \in pins)
  BY <1>1, <1>3, <1>4 DEF MovedBy
<1>8. card # "AP192" => \A p \in {5, 6, 7} : (p \in new) = (p \in pins)
  BY <1>1, <1>3, <1>4, <1>6 DEF MovedBy
<1>9. Asleep(new)
  BY <1>2, <1>6, <1>7, PinsAre DEF Asleep
<1>10. card = "Revo51" => ~Starts(new, out)
  BY <1>1, <1>4, <1>8 DEF Starts, Level, Scl, Sda
<1>11. NoneAside(new, out)
  BY <1>6, <1>10, StaysQuiet DEF NoneAside
<1>12. ~IsWrite(call)
  BY DEF IsWrite, SetUpSteps, Simple
<1>13. Delivers(a) /\ Still'
  BY <1>1, <1>9, <1>11, <1>12, StepAccess
<1>14. pins' = new /\ dir' = out /\ masked' = MaskOf(a) /\ Change(new, out)
  BY <1>1, <1>2 DEF Makes
<1>15. card = "Revo51" => bus' = Quiet
  BY <1>10, <1>14, StaysQuiet DEF Change
<1>16. Up(card) \subseteq pins => Up(card) \subseteq pins'
  BY <1>6, <1>7, <1>8, <1>14 DEF Up
<1>17. QED
  BY <1>1, <1>4, <1>13, <1>14, <1>15, <1>16 DEF SimpleMade

-----------------------------------------------------------------------------
(* The AC'97 codec of the Aureon *)

\* A byte is on the data pins.
Shown(byte) == \A i \in 0 .. 7 : (i \in pins) <=> BitSet(byte, i)

LEMMA Halved ==
    ASSUME NEW x \in Nat
    PROVE  \E q \in Nat, b \in {0, 1} : x = 2 * q + b /\ q = x \div 2 /\ b = x % 2
OBVIOUS

\* The bits of a byte.
InBits(byte, b0, b1, b2, b3, b4, b5, b6, b7) ==
    /\ byte = b0 + 2 * b1 + 4 * b2 + 8 * b3 + 16 * b4 + 32 * b5 + 64 * b6 + 128 * b7
    /\ BitSet(byte, 0) <=> b0 = 1
    /\ BitSet(byte, 1) <=> b1 = 1
    /\ BitSet(byte, 2) <=> b2 = 1
    /\ BitSet(byte, 3) <=> b3 = 1
    /\ BitSet(byte, 4) <=> b4 = 1
    /\ BitSet(byte, 5) <=> b5 = 1
    /\ BitSet(byte, 6) <=> b6 = 1
    /\ BitSet(byte, 7) <=> b7 = 1

LEMMA BitsOfByte ==
    ASSUME NEW byte \in 0 .. 255
    PROVE  \E b0, b1, b2, b3, b4, b5, b6, b7 \in {0, 1} : InBits(byte, b0, b1, b2, b3, b4, b5, b6, b7)
<1>1. byte \in Nat
  OBVIOUS
<1>2. PICK q1 \in Nat, b0 \in {0, 1} : byte = 2 * q1 + b0 /\ q1 = byte \div 2 /\ b0 = byte % 2
  BY <1>1, Halved
<1>3. PICK q2 \in Nat, b1 \in {0, 1} : q1 = 2 * q2 + b1 /\ q2 = q1 \div 2 /\ b1 = q1 % 2
  BY Halved
<1>4. PICK q3 \in Nat, b2 \in {0, 1} : q2 = 2 * q3 + b2 /\ q3 = q2 \div 2 /\ b2 = q2 % 2
  BY Halved
<1>5. PICK q4 \in Nat, b3 \in {0, 1} : q3 = 2 * q4 + b3 /\ q4 = q3 \div 2 /\ b3 = q3 % 2
  BY Halved
<1>6. PICK q5 \in Nat, b4 \in {0, 1} : q4 = 2 * q5 + b4 /\ q5 = q4 \div 2 /\ b4 = q4 % 2
  BY Halved
<1>7. PICK q6 \in Nat, b5 \in {0, 1} : q5 = 2 * q6 + b5 /\ q6 = q5 \div 2 /\ b5 = q5 % 2
  BY Halved
<1>8. PICK q7 \in Nat, b6 \in {0, 1} : q6 = 2 * q7 + b6 /\ q7 = q6 \div 2 /\ b6 = q6 % 2
  BY Halved
<1>9. /\ byte = 2 * q1 + b0 /\ q1 = 2 * q2 + b1 /\ q2 = 2 * q3 + b2 /\ q3 = 2 * q4 + b3
      /\ q4 = 2 * q5 + b4 /\ q5 = 2 * q6 + b5 /\ q6 = 2 * q7 + b6
  BY <1>2, <1>3, <1>4, <1>5, <1>6, <1>7, <1>8, Zenon
<1>10. PICK b7 \in {0, 1} : q7 = b7
  <2>1. q7 = 0 \/ q7 = 1
    BY <1>9
  <2>2. QED
    BY <2>1
<1>11. /\ byte \div 1 = byte /\ byte \div 2 = q1
  BY <1>2
<1>12. byte \div 4 = q2
  <2>1. PICK r \in 0 .. 3 : r = b0 + 2 * b1
    OBVIOUS
  <2>2. byte = 4 * q2 + r
    BY <1>9, <2>1
  <2>3. QED
    BY <2>2
<1>13. byte \div 8 = q3
  <2>1. PICK r \in 0 .. 7 : r = b0 + 2 * b1 + 4 * b2
    OBVIOUS
  <2>2. byte = 8 * q3 + r
    BY <1>9, <2>1
  <2>3. QED
    BY <2>2
<1>14. byte \div 16 = q4
  <2>1. PICK r \in 0 .. 15 : r = b0 + 2 * b1 + 4 * b2 + 8 * b3
    OBVIOUS
  <2>2. byte = 16 * q4 + r
    BY <1>9, <2>1
  <2>3. QED
    BY <2>2
<1>15. byte \div 32 = q5
  <2>1. PICK r \in 0 .. 31 : r = b0 + 2 * b1 + 4 * b2 + 8 * b3 + 16 * b4
    OBVIOUS
  <2>2. byte = 32 * q5 + r
    BY <1>9, <2>1
  <2>3. QED
    BY <2>2
<1>16. byte \div 64 = q6
  <2>1. PICK r \in 0 .. 63 : r = b0 + 2 * b1 + 4 * b2 + 8 * b3 + 16 * b4 + 32 * b5
    OBVIOUS
  <2>2. byte = 64 * q6 + r
    BY <1>9, <2>1
  <2>3. QED
    BY <2>2
<1>17. byte \div 128 = q7
  <2>1. PICK r \in 0 .. 127 : r = b0 + 2 * b1 + 4 * b2 + 8 * b3 + 16 * b4 + 32 * b5 + 64 * b6
    OBVIOUS
  <2>2. byte = 128 * q7 + r
    BY <1>9, <2>1
  <2>3. QED
    BY <2>2
<1>18. BitSet(byte, 0) <=> b0 = 1
  BY <1>2 DEF BitSet
<1>19. BitSet(byte, 1) <=> b1 = 1
  <2>1. 2^1 = 2
    OBVIOUS
  <2>2. QED
    BY <1>3, <1>11, <2>1 DEF BitSet
<1>20. BitSet(byte, 2) <=> b2 = 1
  <2>1. 2^2 = 4
    OBVIOUS
  <2>2. QED
    BY <1>4, <1>12, <2>1 DEF BitSet
<1>21. BitSet(byte, 3) <=> b3 = 1
  <2>1. 2^3 = 8
    OBVIOUS
  <2>2. QED
    BY <1>5, <1>13, <2>1 DEF BitSet
<1>22. BitSet(byte, 4) <=> b4 = 1
  <2>1. 2^4 = 16
    OBVIOUS
  <2>2. QED
    BY <1>6, <1>14, <2>1 DEF BitSet
<1>23. BitSet(byte, 5) <=> b5 = 1
  <2>1. 2^5 = 32
    OBVIOUS
  <2>2. QED
    BY <1>7, <1>15, <2>1 DEF BitSet
<1>24. BitSet(byte, 6) <=> b6 = 1
  <2>1. 2^6 = 64
    OBVIOUS
  <2>2. QED
    BY <1>8, <1>16, <2>1 DEF BitSet
<1>25. BitSet(byte, 7) <=> b7 = 1
  <2>1. 2^7 = 128
    OBVIOUS
  <2>2. QED
    BY <1>10, <1>17, <2>1 DEF BitSet
<1>26. InBits(byte, b0, b1, b2, b3, b4, b5, b6, b7)
  <2>1. byte = b0 + 2 * b1 + 4 * b2 + 8 * b3 + 16 * b4 + 32 * b5 + 64 * b6 + 128 * b7
    BY <1>9, <1>10
  <2>2. QED
    BY <2>1, <1>18, <1>19, <1>20, <1>21, <1>22, <1>23, <1>24, <1>25 DEF InBits
<1>27. QED
  BY <1>26

LEMMA ByteOfBits ==
    ASSUME NEW byte \in 0 .. 255, Shown(byte)
    PROVE  DataPins = byte
<1> DEFINE bit(i) == IF i \in pins THEN 2^i ELSE 0
<1>1. DataPins = bit(0) + bit(1) + bit(2) + bit(3) + bit(4) + bit(5) + bit(6) + bit(7)
  BY SMTT(30) DEF DataPins
<1>2. PICK b0, b1, b2, b3, b4, b5, b6, b7 \in {0, 1} : InBits(byte, b0, b1, b2, b3, b4, b5, b6, b7)
  BY BitsOfByte
<1>3. /\ 2^0 = 1 /\ 2^1 = 2 /\ 2^2 = 4 /\ 2^3 = 8 /\ 2^4 = 16 /\ 2^5 = 32 /\ 2^6 = 64
      /\ 2^7 = 128
  OBVIOUS
<1>4. /\ (0 \in pins) <=> b0 = 1
      /\ (1 \in pins) <=> b1 = 1
      /\ (2 \in pins) <=> b2 = 1
      /\ (3 \in pins) <=> b3 = 1
      /\ (4 \in pins) <=> b4 = 1
      /\ (5 \in pins) <=> b5 = 1
      /\ (6 \in pins) <=> b6 = 1
      /\ (7 \in pins) <=> b7 = 1
  <2>1. \A i \in 0 .. 7 : (i \in pins) <=> BitSet(byte, i)
    BY DEF Shown
  <2>2. (BitSet(byte, 0) <=> b0 = 1) /\ 0 \in 0 .. 7
    BY <1>2 DEF InBits
  <2>3. (BitSet(byte, 1) <=> b1 = 1) /\ 1 \in 0 .. 7
    BY <1>2 DEF InBits
  <2>4. (BitSet(byte, 2) <=> b2 = 1) /\ 2 \in 0 .. 7
    BY <1>2 DEF InBits
  <2>5. (BitSet(byte, 3) <=> b3 = 1) /\ 3 \in 0 .. 7
    BY <1>2 DEF InBits
  <2>6. (BitSet(byte, 4) <=> b4 = 1) /\ 4 \in 0 .. 7
    BY <1>2 DEF InBits
  <2>7. (BitSet(byte, 5) <=> b5 = 1) /\ 5 \in 0 .. 7
    BY <1>2 DEF InBits
  <2>8. (BitSet(byte, 6) <=> b6 = 1) /\ 6 \in 0 .. 7
    BY <1>2 DEF InBits
  <2>9. (BitSet(byte, 7) <=> b7 = 1) /\ 7 \in 0 .. 7
    BY <1>2 DEF InBits
  <2>10. QED
    BY <2>1, <2>2, <2>3, <2>4, <2>5, <2>6, <2>7, <2>8, <2>9, Zenon
<1>5. /\ bit(0) = b0 /\ bit(1) = 2 * b1 /\ bit(2) = 4 * b2 /\ bit(3) = 8 * b3
      /\ bit(4) = 16 * b4 /\ bit(5) = 32 * b5 /\ bit(6) = 64 * b6 /\ bit(7) = 128 * b7
  BY <1>3, <1>4
<1> HIDE DEF bit
<1>6. byte = b0 + 2 * b1 + 4 * b2 + 8 * b3 + 16 * b4 + 32 * b5 + 64 * b6 + 128 * b7
  BY <1>2 DEF InBits
<1>7. QED
  BY <1>1, <1>5, <1>6

\* What the accesses do to the pins, when the lower half is not masked.
Shows(byte) ==
    /\ \A i \in 0 .. 7 : (i \in pins') <=> BitSet(byte, i)
    /\ \A p \in 8 .. 22 : (p \in pins') = (p \in pins)
Raises(p) == pins' = pins \cup {p}
Drops(p) == pins' = pins \ {p}

LEMMA DataShown ==
    ASSUME masked \cap 0 .. 11 = {}, NEW byte, NEW a, a = OnDataPins(byte), Makes(a)
    PROVE  Shows(byte) /\ masked' = masked
<1>1. PICK up, down : up = {i \in 0 .. 7 : BitSet(byte, i)} /\ down = 0 .. 7 \ up
  OBVIOUS
<1>2. a = Set(up, down)
  BY <1>1, Zenon DEF OnDataPins
<1>3. (up \cup down) \cap masked = {}
  BY <1>1
<1>4. Levels(a) = (pins \cup up) \ down /\ MaskOf(a) = masked
  BY <1>2, <1>3, OpenSet
<1>5. pins' = (pins \cup up) \ down /\ masked' = masked
  BY <1>4 DEF Makes
<1>6. \A i \in 0 .. 7 : (i \in pins') <=> BitSet(byte, i)
  BY <1>1, <1>5
<1>7. \A p \in 8 .. 22 : p \notin up /\ p \notin down
  BY <1>1
<1>8. \A p \in 8 .. 22 : (p \in pins') = (p \in pins)
  BY <1>5, <1>7
<1>9. QED
  BY <1>5, <1>6, <1>8 DEF Shows

Up1(p) == Set({p}, {})
Down1(p) == Set({}, {p})

LEMMA PinMoves ==
    ASSUME masked \cap 0 .. 11 = {}, NEW p \in 0 .. 11, NEW a, Makes(a)
    PROVE  /\ a = Up1(p) => Raises(p) /\ masked' = masked
           /\ a = Down1(p) => Drops(p) /\ masked' = masked
<1>1. ({p} \cup {}) \cap masked = {} /\ ({} \cup {p}) \cap masked = {}
  OBVIOUS
<1>2. ASSUME a = Up1(p)
      PROVE  Raises(p) /\ masked' = masked
  <2>1. PICK up, down : up = {p} /\ down = {} /\ a = Set(up, down) /\ (up \cup down) \cap masked = {}
    BY <1>1, <1>2, Zenon DEF Up1
  <2>2. Levels(a) = (pins \cup up) \ down /\ MaskOf(a) = masked
    BY <2>1, OpenSet
  <2>3. QED
    BY <2>1, <2>2 DEF Makes, Raises
<1>3. ASSUME a = Down1(p)
      PROVE  Drops(p) /\ masked' = masked
  <2>1. PICK up, down : up = {} /\ down = {p} /\ a = Set(up, down) /\ (up \cup down) \cap masked = {}
    BY <1>1, <1>3, Zenon DEF Down1
  <2>2. Levels(a) = (pins \cup up) \ down /\ MaskOf(a) = masked
    BY <2>1, OpenSet
  <2>3. QED
    BY <2>1, <2>2 DEF Makes, Drops
<1>4. QED
  BY <1>2, <1>3

\* Where the write to the AC'97 codec stands.
AC97Now(reg, low, high) ==
    /\ ~latched
    /\ n \in 2 .. 3 => Shown(reg)
    /\ n = 3 => 10 \in pins
    /\ n > 3 => latches.addr = reg
    /\ n \in 5 .. 6 => Shown(low)
    /\ n = 6 => 9 \in pins
    /\ n > 6 => latches.low = low
    /\ n \in 8 .. 9 => Shown(high)
    /\ n = 9 => 8 \in pins
    /\ n > 9 => latches.high = high
    /\ n = 11 => 11 \in pins

\* The latches, when none of their pins falls, and when one does.
Relatching ==
    /\ {8, 9, 10} \cap (pins \ pins') = {} => latches' = latches
    /\ Drops(10) /\ 10 \in pins =>
          latches'.addr = DataPins /\ latches'.low = latches.low /\ latches'.high = latches.high
    /\ Drops(9) /\ 9 \in pins =>
          latches'.addr = latches.addr /\ latches'.low = DataPins /\ latches'.high = latches.high
    /\ Drops(8) /\ 8 \in pins =>
          latches'.addr = latches.addr /\ latches'.low = latches.low /\ latches'.high = DataPins

LEMMA RelatchingIs ==
    ASSUME card = "AureonSpace", latches \in Latches8, NEW a, Makes(a)
    PROVE  Relatching
<1>1. PICK new : new = Levels(a) /\ pins' = new /\ latches' = Relatched(new)
  BY DEF Makes, Change
<1>2. latches' = [addr |-> IF 10 \in pins \ new THEN DataPins ELSE latches.addr,
                  low  |-> IF 9 \in pins \ new THEN DataPins ELSE latches.low,
                  high |-> IF 8 \in pins \ new THEN DataPins ELSE latches.high]
  BY <1>1 DEF Relatched, AC97Pins
<1>3. latches = [addr |-> latches.addr, low |-> latches.low, high |-> latches.high]
  BY DEF Latches8
<1>4. {8, 9, 10} \cap (pins \ pins') = {} => latches' = latches
  <2>1. SUFFICES ASSUME {8, 9, 10} \cap (pins \ pins') = {}
                 PROVE  latches' = latches
    OBVIOUS
  <2>2. 10 \notin pins \ new /\ 9 \notin pins \ new /\ 8 \notin pins \ new
    BY <1>1, <2>1
  <2>3. QED
    BY <1>2, <1>3, <2>2
<1>5. QED
  BY <1>1, <1>2, <1>4 DEF Relatching, Drops

\* The pins' changes, access by access.
AC97Moves(reg, low, high) ==
    /\ n = 1 => Shows(reg)
    /\ n = 2 => Raises(10)
    /\ n = 3 => Drops(10)
    /\ n = 4 => Shows(low)
    /\ n = 5 => Raises(9)
    /\ n = 6 => Drops(9)
    /\ n = 7 => Shows(high)
    /\ n = 8 => Raises(8)
    /\ n = 9 => Drops(8)
    /\ n = 10 => Raises(11)
    /\ n = 11 => Drops(11)

LEMMA AC97MovesAre ==
    ASSUME masked \cap 0 .. 11 = {}, NEW F, NEW reg, NEW low, NEW high,
           AC97Word(F, reg, low, high), n \in 1 .. 11, NEW a, a = F[n], Makes(a)
    PROVE  AC97Moves(reg, low, high) /\ masked' = masked
<1>1. /\ F[1] = OnDataPins(reg) /\ F[2] = Up1(10) /\ F[3] = Down1(10)
      /\ F[4] = OnDataPins(low) /\ F[5] = Up1(9) /\ F[6] = Down1(9)
      /\ F[7] = OnDataPins(high) /\ F[8] = Up1(8) /\ F[9] = Down1(8)
      /\ F[10] = Up1(11) /\ F[11] = Down1(11)
  BY Zenon DEF AC97Word, Up1, Down1
<1>2. ASSUME NEW byte, n = 1 \/ n = 4 \/ n = 7, a = OnDataPins(byte)
      PROVE  Shows(byte) /\ masked' = masked
  BY <1>2, DataShown
<1>3. ASSUME NEW p \in 0 .. 11
      PROVE  /\ a = Up1(p) => Raises(p) /\ masked' = masked
             /\ a = Down1(p) => Drops(p) /\ masked' = masked
  BY <1>3, PinMoves
<1>4. 8 \in 0 .. 11 /\ 9 \in 0 .. 11 /\ 10 \in 0 .. 11 /\ 11 \in 0 .. 11
  OBVIOUS
<1>5. CASE n = 1
  BY <1>1, <1>2, <1>5 DEF AC97Moves
<1>6. CASE n = 2
  BY <1>1, <1>3, <1>4, <1>6 DEF AC97Moves
<1>7. CASE n = 3
  BY <1>1, <1>3, <1>4, <1>7 DEF AC97Moves
<1>8. CASE n = 4
  BY <1>1, <1>2, <1>8 DEF AC97Moves
<1>9. CASE n = 5
  BY <1>1, <1>3, <1>4, <1>9 DEF AC97Moves
<1>10. CASE n = 6
  BY <1>1, <1>3, <1>4, <1>10 DEF AC97Moves
<1>11. CASE n = 7
  BY <1>1, <1>2, <1>11 DEF AC97Moves
<1>12. CASE n = 8
  BY <1>1, <1>3, <1>4, <1>12 DEF AC97Moves
<1>13. CASE n = 9
  BY <1>1, <1>3, <1>4, <1>13 DEF AC97Moves
<1>14. CASE n = 10
  BY <1>1, <1>3, <1>4, <1>14 DEF AC97Moves
<1>15. CASE n = 11
  BY <1>1, <1>3, <1>4, <1>15 DEF AC97Moves
<1>16. QED
  BY <1>5, <1>6, <1>7, <1>8, <1>9, <1>10, <1>11, <1>12, <1>13, <1>14, <1>15

\* The pins above the AC'97 codec's stay as they are; 11 only falls at the end.
LEMMA AC97Leaves ==
    ASSUME NEW reg, NEW low, NEW high, AC97Moves(reg, low, high), n \in 1 .. 11
    PROVE  /\ (19 \in pins') = (19 \in pins)
           /\ n < 11 /\ 11 \in pins => 11 \in pins'
           /\ n \notin {3, 6, 9} => {8, 9, 10} \cap (pins \ pins') = {}
<1>1. ASSUME NEW byte, Shows(byte)
      PROVE  \A p \in 8 .. 22 : (p \in pins') = (p \in pins)
  BY <1>1 DEF Shows
<1>2. 8 \in 8 .. 22 /\ 9 \in 8 .. 22 /\ 10 \in 8 .. 22 /\ 11 \in 8 .. 22 /\ 19 \in 8 .. 22
  OBVIOUS
<1>3. CASE n \in {1, 4, 7}
  <2>1. \A p \in 8 .. 22 : (p \in pins') = (p \in pins)
    BY <1>1, <1>3 DEF AC97Moves
  <2>2. QED
    BY <1>2, <1>3, <2>1
<1>4. CASE n \in {2, 5, 8, 10}
  BY <1>4 DEF AC97Moves, Raises
<1>5. CASE n \in {3, 6, 9, 11}
  BY <1>5 DEF AC97Moves, Drops
<1>6. QED
  BY <1>3, <1>4, <1>5

LEMMA AC97Shown ==
    ASSUME NEW reg \in 0 .. 255, NEW low \in 0 .. 255, NEW high \in 0 .. 255,
           AC97Moves(reg, low, high), AC97Now(reg, low, high), n \in 1 .. 10, n' = n + 1
    PROVE  /\ n' \in 2 .. 3 => Shown(reg)'
           /\ n' \in 5 .. 6 => Shown(low)'
           /\ n' \in 8 .. 9 => Shown(high)'
           /\ n' = 3 => 10 \in pins'
           /\ n' = 6 => 9 \in pins'
           /\ n' = 9 => 8 \in pins'
           /\ n' = 11 => 11 \in pins'
<1>1. ASSUME NEW byte, Shows(byte)
      PROVE  Shown(byte)'
  BY <1>1 DEF Shows, Shown
<1>2. ASSUME NEW byte, NEW p \in 8 .. 11, Raises(p), Shown(byte)
      PROVE  Shown(byte)'
  <2>1. \A i \in 0 .. 7 : (i \in pins') = (i \in pins)
    BY <1>2 DEF Raises
  <2>2. QED
    BY <1>2, <2>1 DEF Shown
<1>3. 8 \in 8 .. 11 /\ 9 \in 8 .. 11 /\ 10 \in 8 .. 11
  OBVIOUS
<1>4. n' \in 2 .. 3 => Shown(reg)'
  <2>1. n' \in 2 .. 3 => n = 1 \/ (n = 2 /\ n \in 2 .. 3)
    OBVIOUS
  <2>2. QED
    BY <1>1, <1>2, <1>3, <2>1 DEF AC97Moves, AC97Now
<1>5. n' \in 5 .. 6 => Shown(low)'
  <2>1. n' \in 5 .. 6 => n = 4 \/ (n = 5 /\ n \in 5 .. 6)
    OBVIOUS
  <2>2. QED
    BY <1>1, <1>2, <1>3, <2>1 DEF AC97Moves, AC97Now
<1>6. n' \in 8 .. 9 => Shown(high)'
  <2>1. n' \in 8 .. 9 => n = 7 \/ (n = 8 /\ n \in 8 .. 9)
    OBVIOUS
  <2>2. QED
    BY <1>1, <1>2, <1>3, <2>1 DEF AC97Moves, AC97Now
<1>7. /\ n' = 3 => n = 2
      /\ n' = 6 => n = 5
      /\ n' = 9 => n = 8
      /\ n' = 11 => n = 10
  OBVIOUS
<1>8. QED
  BY <1>4, <1>5, <1>6, <1>7 DEF AC97Moves, Raises

AC97Held(reg, low, high) ==
    /\ n > 3 => latches.addr = reg
    /\ n > 6 => latches.low = low
    /\ n > 9 => latches.high = high

LEMMA AC97Latched ==
    ASSUME NEW reg \in 0 .. 255, NEW low \in 0 .. 255, NEW high \in 0 .. 255, Relatching,
           AC97Moves(reg, low, high), AC97Now(reg, low, high), n \in 1 .. 10, n' = n + 1
    PROVE  AC97Held(reg, low, high)'
<1>1. CASE n \notin {3, 6, 9}
  <2>1. latches' = latches
    BY <1>1, AC97Leaves DEF Relatching
  <2>2. /\ n' > 3 => n > 3
        /\ n' > 6 => n > 6
        /\ n' > 9 => n > 9
    BY <1>1
  <2>3. QED
    BY <2>1, <2>2 DEF AC97Now, AC97Held
<1>2. CASE n = 3
  <2>1. DataPins = reg
    BY <1>2, ByteOfBits DEF AC97Now
  <2>2. latches'.addr = reg
    BY <1>2, <2>1 DEF Relatching, AC97Moves, AC97Now
  <2>3. QED
    BY <1>2, <2>2 DEF AC97Held
<1>3. CASE n = 6
  <2>1. DataPins = low
    BY <1>3, ByteOfBits DEF AC97Now
  <2>2. latches'.low = low /\ latches'.addr = latches.addr
    BY <1>3, <2>1 DEF Relatching, AC97Moves, AC97Now
  <2>3. QED
    BY <1>3, <2>2 DEF AC97Now, AC97Held
<1>4. CASE n = 9
  <2>1. DataPins = high
    BY <1>4, ByteOfBits DEF AC97Now
  <2>2. latches'.high = high /\ latches'.addr = latches.addr /\ latches'.low = latches.low
    BY <1>4, <2>1 DEF Relatching, AC97Moves, AC97Now
  <2>3. QED
    BY <1>4, <2>2 DEF AC97Now, AC97Held
<1>5. QED
  BY <1>1, <1>2, <1>3, <1>4

LEMMA AC97Goes ==
    ASSUME NEW reg \in 0 .. 255, NEW low \in 0 .. 255, NEW high \in 0 .. 255, Relatching,
           AC97Moves(reg, low, high), AC97Now(reg, low, high), n \in 1 .. 10, n' = n + 1,
           ~latched'
    PROVE  AC97Now(reg, low, high)'
<1>1. /\ n' \in 2 .. 3 => Shown(reg)'
      /\ n' \in 5 .. 6 => Shown(low)'
      /\ n' \in 8 .. 9 => Shown(high)'
      /\ n' = 3 => 10 \in pins'
      /\ n' = 6 => 9 \in pins'
      /\ n' = 9 => 8 \in pins'
      /\ n' = 11 => 11 \in pins'
  BY AC97Shown
<1>2. AC97Held(reg, low, high)'
  BY AC97Latched, Zenon
<1>3. QED
  BY <1>1, <1>2, ZenonT(40) DEF AC97Now, AC97Held

\* The word that the latches hold.
SplitUp(value, low, high) == low = value % 256 /\ high = value \div 256

LEMMA LatchedWord ==
    ASSUME NEW value \in Words16, NEW low, NEW high, SplitUp(value, low, high)
    PROVE  low \in 0 .. 255 /\ high \in 0 .. 255 /\ 256 * high + low = value
<1>1. value \in Nat /\ value < 256 * 256
  BY DEF Words16
<1>2. low \in 0 .. 255 /\ high \in 0 .. 255
  <2>1. value % 256 \in 0 .. 255 /\ value \div 256 \in 0 .. 255
    BY <1>1, MessageBytes DEF Bytes
  <2>2. QED
    BY <2>1 DEF SplitUp
<1>3. 256 * high + low = value
  <2>1. value \in Nat
    BY <1>1
  <2>2. 256 * (value \div 256) + (value % 256) = value
    BY <2>1
  <2>3. QED
    BY <2>2 DEF SplitUp
<1>4. QED
  BY <1>2, <1>3

AC97Made(a, reg, low, high) ==
    /\ Delivers(a) /\ Still' /\ masked' = masked
    /\ n < Len(Frame(card, call)) => AC97Now(reg, low, high)'

LEMMA AC97Access ==
    ASSUME TypeInv, card = "AureonSpace", card \in OnGpio, Still, pc = "gpio",
           masked \cap 0 .. 11 = {}, NEW reg \in 0 .. 127, NEW value \in Words16,
           call = Call("AC97", reg, value), NEW low, NEW high, SplitUp(value, low, high),
           AC97Now(reg, low, high), NEW F, NEW a, Accessed(F, a)
    PROVE  AC97Made(a, reg, low, high)
<1>1. PICK new, out : new = Levels(a) /\ out = Directed(a)
  OBVIOUS
<1>2. /\ F = Frame(card, call) /\ n \in 1 .. Len(F) /\ a = F[n] /\ Makes(a)
      /\ n < Len(F) => n' = n + 1
  BY AccessMakes
<1>3. call.chip = "AC97" /\ call.reg = reg /\ call.data = value /\ IsWrite(call)
  BY DEF Call, IsWrite, SetUpSteps
<1>4. /\ reg \in 0 .. 255 /\ low \in 0 .. 255 /\ high \in 0 .. 255 /\ reg % 128 = reg
      /\ 256 * high + low = value
  <2>1. reg \in 0 .. 255 /\ reg % 128 = reg
    OBVIOUS
  <2>2. low \in 0 .. 255 /\ high \in 0 .. 255 /\ 256 * high + low = value
    BY LatchedWord, ZenonT(40)
  <2>3. QED
    BY <2>1, <2>2
<1>5. AC97Word(F, reg, low, high)
  <2>1. F = AC97Frame(call)
    BY <1>2, <1>3 DEF Frame, SetUpSteps
  <2>2. AC97Word(AC97Frame(call), call.reg % 128, call.data % 256, call.data \div 256)
    BY AC97FrameIs
  <2>3. call.reg % 128 = reg
    BY <1>3, <1>4
  <2>4. low = call.data % 256 /\ high = call.data \div 256
    BY <1>3 DEF SplitUp
  <2>5. QED
    BY <2>1, <2>2, <2>3, <2>4, Zenon
<1>6. /\ n \in 1 .. 11 /\ (n < 11 => n' = n + 1)
      /\ n < Len(Frame(card, call)) => n < 11
      /\ n = Len(Frame(card, call)) => n = 11
  <2>1. PICK len : len = Len(F) /\ len = Len(Frame(card, call))
    BY <1>2
  <2>2. len = 11
    BY <1>5, <2>1, Zenon DEF AC97Word
  <2>3. n \in 1 .. len /\ (n < len => n' = n + 1)
    BY <1>2, <2>1, Zenon
  <2>4. n \in 1 .. 11 /\ (n < 11 => n' = n + 1)
    BY <2>2, <2>3
  <2>5. (n < len => n < 11) /\ (n = len => n = 11)
    BY <2>2
  <2>6. QED
    BY <2>1, <2>4, <2>5, Zenon
<1>7. AC97Moves(reg, low, high) /\ masked' = masked
  BY <1>2, <1>5, <1>6, AC97MovesAre
<1>8. Relatching
  BY <1>2, RelatchingIs DEF TypeInv, Devices
<1>9. pins' = new /\ Change(new, out) /\ card' = card /\ Devices
  BY <1>1, <1>2 DEF Makes, TypeInv
<1>10. Still' /\ FromCodecs(new) = {}
  <2>1. \A k \in Serial(card) : Wiring[card][k].clk = 19
    BY GpioCardsAre, PinsAre
  <2>2. 19 \notin new \ pins
    BY <1>6, <1>7, <1>9, AC97Leaves
  <2>3. \A k \in Serial(card) : Idle(k, new)
    BY <2>1, <2>2 DEF Idle, Still
  <2>4. QED
    BY <1>9, <2>3, AllIdle
<1>11. Landing(new, out) = Committed(new)
  BY <1>10 DEF Landing
<1>12. CASE n < 11
  <2>1. n \in 1 .. 10 /\ n' = n + 1
    BY <1>6, <1>12
  <2>2. 11 \notin pins \ new
    BY <1>6, <1>7, <1>9, <1>12, AC97Leaves
  <2>3. Landing(new, out) = {}
    BY <1>11, <2>2 DEF Committed, AC97Pins
  <2>4. ~latched'
    <3>1. latched' = (latched \/ Landing(new, out) # {})
      BY <1>9 DEF Change
    <3>2. QED
      BY <2>3, <3>1 DEF AC97Now
  <2>5. Delivers(a)
    BY <1>1, <1>6, <1>12, <2>3 DEF Delivers
  <2>6. AC97Now(reg, low, high)'
    BY <1>4, <1>7, <1>8, <2>1, <2>4, AC97Goes, Zenon
  <2>7. QED
    BY <1>7, <1>10, <2>5, <2>6 DEF AC97Made
<1>13. CASE n = 11
  <2>1. 11 \in pins \ new /\ latches.addr = reg /\ latches.low = low /\ latches.high = high
    BY <1>7, <1>9, <1>13 DEF AC97Moves, Drops, AC97Now
  <2>2. Committed(new) = {Call("AC97", reg, value)}
    BY <1>4, <2>1 DEF Committed, AC97Pins
  <2>3. Delivers(a)
    BY <1>1, <1>3, <1>11, <2>2 DEF Delivers, AC97Now
  <2>4. QED
    BY <1>6, <1>7, <1>10, <1>13, <2>3 DEF AC97Made
<1>14. QED
  BY <1>6, <1>12, <1>13

-----------------------------------------------------------------------------
(* The resets of the Aureon's codecs *)

\* The AC'97 codec's leaves the clock and the latches' last pin alone.
ColdPins == 0 .. 7 \cup {16}

ColdMade(a) == Delivers(a) /\ Still' /\ masked' = masked

LEMMA ColdSets ==
    ASSUME NEW c, NEW w, w.chip = "ac97", NEW F, F = Frame(c, w), NEW i \in 1 .. Len(F)
    PROVE  \E up, down : F[i] = Set(up, down) /\ up \cup down \subseteq ColdPins
<1>1. PICK x1, x2, x3 : x1 = Set({16}, 0 .. 7) /\ x2 = Set({}, {16}) /\ x3 = Set({16}, {})
  OBVIOUS
<1>2. F = << x1, x2, x3 >>
  BY <1>1 DEF Frame, SetUpSteps, SetUpFrame, ColdReset, AC97Pins
<1>3. Len(F) = 3 /\ F[1] = x1 /\ F[2] = x2 /\ F[3] = x3
  BY <1>2
<1>4. i = 1 \/ i = 2 \/ i = 3
  BY <1>3
<1>5. CASE i = 1
  <2>1. F[i] = Set({16}, 0 .. 7) /\ {16} \cup 0 .. 7 \subseteq ColdPins
    BY <1>1, <1>3, <1>5 DEF ColdPins
  <2>2. QED
    BY <2>1
<1>6. CASE i = 2
  <2>1. F[i] = Set({}, {16}) /\ {} \cup {16} \subseteq ColdPins
    BY <1>1, <1>3, <1>6 DEF ColdPins
  <2>2. QED
    BY <2>1
<1>7. CASE i = 3
  <2>1. F[i] = Set({16}, {}) /\ {16} \cup {} \subseteq ColdPins
    BY <1>1, <1>3, <1>7 DEF ColdPins
  <2>2. QED
    BY <2>1
<1>8. QED
  BY <1>4, <1>5, <1>6, <1>7

\* The pins that the Aureon's serial codecs and its latches wake up by.
LEMMA AureonSleeps ==
    ASSUME card = "AureonSpace", NEW new, NEW out, 19 \notin new \ pins, 11 \notin pins \ new
    PROVE  Asleep(new) /\ NoneAside(new, out)
<1>1. \A k \in Serial(card) : Wiring[card][k].clk = 19
  BY PinsAre DEF GpioCards
<1>2. Committed(new) = {}
  BY DEF Committed, AC97Pins
<1>3. QED
  BY <1>1, <1>2 DEF Asleep, NoneAside

LEMMA ColdAccess ==
    ASSUME TypeInv, card = "AureonSpace", card \in OnGpio, Still, pc = "gpio",
           call.chip = "ac97", NEW F, NEW a, Accessed(F, a)
    PROVE  ColdMade(a)
<1>1. F = Frame(card, call) /\ n \in 1 .. Len(F) /\ a = F[n] /\ Makes(a)
  BY AccessMakes
<1>2. PICK up, down : a = Set(up, down) /\ up \cup down \subseteq ColdPins
  <2>1. F = Frame(card, call) /\ n \in 1 .. Len(F) /\ a = F[n]
    BY <1>1
  <2>2. \E up, down : F[n] = Set(up, down) /\ up \cup down \subseteq ColdPins
    BY <2>1, ColdSets
  <2>3. QED
    BY <2>1, <2>2, Zenon
<1>3. /\ MaskOf(a) = masked
      /\ Levels(a) = (pins \cup (up \ masked)) \ (down \ masked)
  BY <1>2, SetIs
<1>4. 19 \notin Levels(a) \ pins /\ 11 \notin pins \ Levels(a)
  BY <1>2, <1>3 DEF ColdPins
<1>5. ~IsWrite(call)
  BY DEF IsWrite, SetUpSteps
<1>6. Delivers(a) /\ Still'
  BY <1>4, <1>5, AureonSleeps, StepAccess
<1>7. QED
  BY <1>1, <1>3, <1>6 DEF Makes, ColdMade

\* Where the reset of the serial codecs stands: at its end they are deselected.
CodecsNow ==
    /\ n > 1 => {12, 20, 22} \cap masked = {}
    /\ n > 2 => {12, 22} \subseteq pins

ResetMade(a) ==
    /\ Delivers(a) /\ Still'
    /\ IF n < Len(Frame(card, call)) THEN CodecsNow' ELSE {12, 22} \subseteq pins'

LEMMA ResetAccess ==
    ASSUME TypeInv, card = "AureonSpace", card \in OnGpio, Still, pc = "gpio",
           call.chip = "codecs", CodecsNow, NEW F, NEW a, Accessed(F, a)
    PROVE  ResetMade(a)
<1>1. /\ F = Frame(card, call) /\ n \in 1 .. Len(F) /\ a = F[n] /\ Makes(a)
      /\ n < Len(F) => n' = n + 1
  BY AccessMakes
<1>2. PICK m, x1, x2, x3 : /\ m = AllBut({20, 12, 22})
                           /\ x1 = Mask(m, {}, {20}) /\ x2 = Set({12, 22}, {}) /\ x3 = Set({20}, {})
  OBVIOUS
<1>3. F = << x1, x2, x3 >>
  BY <1>1, <1>2, Zenon DEF Frame, SetUpSteps, SetUpFrame, ResetCodecs
<1>4. /\ Len(F) = 3 /\ F[1] = x1 /\ F[2] = x2 /\ F[3] = x3
      /\ Len(Frame(card, call)) = 3
  BY <1>1, <1>3
<1>5. n = 1 \/ n = 2 \/ n = 3
  BY <1>1, <1>4
<1>6. pins' = Levels(a) /\ masked' = MaskOf(a)
  BY <1>1 DEF Makes
<1>7. ~IsWrite(call)
  BY DEF IsWrite, SetUpSteps
<1>8. ASSUME 19 \notin Levels(a) \ pins, 11 \notin pins \ Levels(a)
      PROVE  Delivers(a) /\ Still'
  BY <1>7, <1>8, AureonSleeps, StepAccess
<1>9. CASE n = 1
  <2>1. a = Mask(m, {}, {20})
    BY <1>1, <1>2, <1>4, <1>9
  <2>2. PICK up, down : up = {} /\ down = {20} /\ a = Mask(m, up, down)
    BY <2>1
  <2>3. MaskOf(a) = m /\ Levels(a) = (pins \cup (up \ m)) \ (down \ m)
    BY <2>2, MaskIs
  <2>4. {12, 20, 22} \cap m = {}
    BY <1>2 DEF AllBut
  <2>5. Delivers(a) /\ Still'
    BY <1>8, <2>2, <2>3
  <2>6. n' = 2 /\ n < Len(Frame(card, call))
    BY <1>1, <1>4, <1>9
  <2>7. CodecsNow'
    BY <1>6, <2>3, <2>4, <2>6 DEF CodecsNow
  <2>8. QED
    BY <2>5, <2>6, <2>7 DEF ResetMade
<1>10. CASE n = 2
  <2>1. PICK up, down : up = {12, 22} /\ down = {} /\ a = Set(up, down)
    BY <1>1, <1>2, <1>4, <1>10
  <2>2. MaskOf(a) = masked /\ Levels(a) = (pins \cup (up \ masked)) \ (down \ masked)
    BY <2>1, SetIs
  <2>3. {12, 20, 22} \cap masked = {}
    BY <1>10 DEF CodecsNow
  <2>4. Delivers(a) /\ Still'
    BY <1>8, <2>1, <2>2
  <2>5. n' = 3 /\ n < Len(Frame(card, call))
    BY <1>1, <1>4, <1>10
  <2>6. CodecsNow'
    BY <1>6, <2>1, <2>2, <2>3, <2>5 DEF CodecsNow
  <2>7. QED
    BY <2>4, <2>5, <2>6 DEF ResetMade
<1>11. CASE n = 3
  <2>1. PICK up, down : up = {20} /\ down = {} /\ a = Set(up, down)
    BY <1>1, <1>2, <1>4, <1>11
  <2>2. MaskOf(a) = masked /\ Levels(a) = (pins \cup (up \ masked)) \ (down \ masked)
    BY <2>1, SetIs
  <2>3. {12, 22} \subseteq pins
    BY <1>11 DEF CodecsNow
  <2>4. Delivers(a) /\ Still'
    BY <1>8, <2>1, <2>2
  <2>5. ~(n < Len(Frame(card, call)))
    <3>1. ~(n < 3)
      BY <1>11
    <3>2. QED
      BY <1>4, <3>1
  <2>6. QED
    BY <1>6, <2>1, <2>2, <2>3, <2>4, <2>5 DEF ResetMade
<1>12. QED
  BY <1>5, <1>9, <1>10, <1>11
=============================================================================
