---------------------------- MODULE CodecBusProofs ----------------------------
(***************************************************************************)
(* Theorems about CodecBus, for every card, every set-up table and every   *)
(* write of the mixer: every variable keeps its type; the EEPROM is only   *)
(* misread after WaitForI2C gave up; a Revolution's outputs are muted      *)
(* while card_init sets its serial codecs up, and unmuted afterwards, as   *)
(* are the Audiophile 192's.                                               *)
(***************************************************************************)
EXTENDS CodecBus, GpioFramesProofs

-----------------------------------------------------------------------------
(* The invariants *)

Bus == [on : BOOLEAN, bits : 0 .. 9, byte : 0 .. 255, bytes : 0 .. 3,
        message : Words16, pulls : BOOLEAN]

\* A byte of so many bits.
FineBus(b) == b \in Bus /\ (b.bits <= 8 => b.byte < 2^b.bits)

Latches8 == [addr : 0 .. 255, low : 0 .. 255, high : 0 .. 255]

\* The thread: what its call and its frame have to do with the card.  Only a
\* card that is not on GPIO pins uses the I2C controller.
ThreadTyped ==
    /\ card \in Cards
    /\ at \in 0 .. Len(SetUp[card]) + 1
    /\ ready \in BOOLEAN /\ misread \in BOOLEAN
    /\ call \in CallsOf[card] \cup {None}
    /\ pc \in {"idle", "gpio", "addr", "data", "dev", "value"}
                  \cup DOMAIN AfterWait
    /\ (pc = "idle") = (call = None)
    /\ IF card \in OnGpio
       THEN /\ pc \in {"idle", "gpio"} /\ transfer = None /\ ~late /\ ~misread
            /\ IF pc = "gpio" THEN n \in 1 .. Len(Frame(card, call)) ELSE n = 0
       ELSE pc # "gpio" /\ n = 0 /\ ~latched

GpioTyped ==
    /\ pins \in SUBSET Pins /\ dir \in SUBSET Pins /\ masked \in SUBSET Pins
    /\ saved \in [dir : SUBSET Pins, masked : SUBSET (0 .. 15)]

\* What the devices hold.
Devices ==
    /\ shift \in [Serial(card) -> [bits : Nat, word : Nat]]
    /\ \A c \in Serial(card) : shift[c].bits <= Wiring[card][c].width + 1
    /\ latches \in Latches8
    /\ FineBus(bus)
    /\ latched \in BOOLEAN
    /\ \A r \in DOMAIN regs : regs[r] = Default \/ regs[r] \in Words16

ControllerTyped ==
    /\ late \in BOOLEAN
    /\ polls \in 0 .. MaxPolls - 1
    /\ addr \in 0 .. 255 /\ data \in 0 .. 255
    /\ transfer \in CallsOf[card] \cup {None}

TypeInv == ThreadTyped /\ GpioTyped /\ Devices /\ ControllerTyped

\* As long as WaitForI2C has not given up, the thread and the controller do
\* not disturb each other: what the thread has written into the controller's
\* registers stays until the transfer is over, and what was read stays until
\* it is looked at.
Undisturbed ==
    /\ ~misread
    /\ pc \in {"addr", "data", "wait_dev", "dev", "value"} => transfer = None
    /\ pc \in {"data", "wait_dev"} => ~IsRead(call)
    /\ pc \in {"wait_value", "value"} => IsRead(call)
    /\ pc \in {"data", "wait_dev", "dev", "wait_value"} => addr = call.reg
    /\ pc = "wait_dev" \/ (pc = "dev" /\ ~IsRead(call)) => data = call.data
    /\ pc \in {"wait_value", "value"} /\ transfer = None
          => data = Eeprom[call.reg + 1]
    /\ pc = "wait_value" => transfer \in {None, call}
    /\ transfer # None =>
          /\ addr = transfer.reg
          /\ IsRead(transfer) => pc = "wait_value"
          /\ ~IsRead(transfer) => data = transfer.data

ControllerInv == card \notin OnGpio => late \/ Undisturbed

-----------------------------------------------------------------------------
(* The calls are ones the card can take *)

\* The steps of a card's set-up that are no register writes.
StepsOf ==
    [Revo71 |-> {"boot", "mute", "unmute"}, Revo51 |-> {"boot", "mute", "unmute"},
     Phase22 |-> {"boot"}, AP192 |-> {"boot", "adc", "unmute", "mux"},
     AureonSpace |-> {"boot", "ac97", "codecs"}, ProdigyHD2 |-> {"boot"}]

\* A call of the set-up or of the mixer, and what it is for.
Fitting(c, w) ==
    \/ c \in OnGpio /\ w.chip \in StepsOf[c]
    \/ /\ c \in OnGpio /\ w.chip \in ChipsWired[c] /\ w.chip \in ChipsOf[c]
       /\ w.reg \in 0 .. Wiring[c][w.chip].registers - 1
       /\ w.data \in 0 .. Wiring[c][w.chip].values - 1
    \/ /\ c = "Revo51" /\ w.chip = "PT2258"
       /\ w.reg = 0 /\ w.data \in Words16
    \/ /\ c = "AureonSpace" /\ w.chip = "AC97"
       /\ w.reg \in 0 .. 127 /\ w.data \in Words16
    \/ /\ c \notin OnGpio /\ IsRead(w)
       /\ w.reg \in 0 .. Len(Eeprom) - 1 /\ w.reg \in 0 .. 255 /\ w.data \in 0 .. 1
    \/ /\ c \notin OnGpio /\ IsWrite(w)
       /\ w.reg \in 0 .. 255 /\ w.data \in 0 .. 255

Names == SetUpSteps \cup {"EEPROM", "PT2258", "AC97", "Front", "Surround", "Rec",
                          "AP192", "Aureon", "CS8415", "AK4396", "AK4358", "AK4114"}

FitCalls(c) == {w \in [chip : Names, reg : Nat, data : Nat] : Fitting(c, w)}

LEMMA GpioCardsAre == OnGpio = GpioCards
BY WiringIs DEF OnGpio

LEMMA CardsAre ==
    ASSUME NEW c \in Cards
    PROVE  \/ c = "Revo71" \/ c = "Revo51" \/ c = "Phase22" \/ c = "AP192"
           \/ c = "AureonSpace" \/ c = "ProdigyHD2" \/ c = "Julia" \/ c = "Maya44"
BY TablesAssumption DEF ChipsOf

LEMMA ChipFits ==
    ASSUME NEW c \in Cards, NEW chip \in ChipsOf[c], NEW r \in Nat, NEW v \in Nat,
           Fits(c, chip, r, v)
    PROVE  Fitting(c, Call(chip, r, v))
<1>1. PICK w : w = Call(chip, r, v)
  OBVIOUS
<1>2. w.chip = chip /\ w.reg = r /\ w.data = v
  BY <1>1 DEF Call
<1>3. CASE c \in OnGpio /\ chip \in ChipsWired[c]
  <2>1. DOMAIN Wiring[c] = ChipsWired[c]
    BY <1>3, GpioCardsAre, ChipsAre
  <2>2. r \in 0 .. Wiring[c][chip].registers - 1 /\ v \in 0 .. Wiring[c][chip].values - 1
    BY <1>3, <2>1 DEF Fits
  <2>3. Fitting(c, w)
    BY <1>2, <1>3, <2>2, Zenon DEF Fitting
  <2>4. QED
    BY <1>1, <2>3
<1>4. CASE c \in OnGpio /\ chip \notin ChipsWired[c]
  <2>1. DOMAIN Wiring[c] = ChipsWired[c]
    BY <1>4, GpioCardsAre, ChipsAre
  <2>2. \/ c = "Revo51" /\ chip = "PT2258"
        \/ c = "AureonSpace" /\ chip = "AC97"
    BY <1>4, GpioCardsAre DEF GpioCards, ChipsOf, ChipsWired
  <2>3. /\ r \in IF chip = "PT2258" THEN {0} ELSE 0 .. 127
        /\ v \in Words16
    BY <1>4, <2>1 DEF Fits
  <2>4. Fitting(c, w)
    BY <1>2, <2>2, <2>3 DEF Fitting
  <2>5. QED
    BY <1>1, <2>4
<1>5. CASE c \notin OnGpio
  <2>1. chip = "AK4358" \/ chip = "AK4114"
    BY <1>5, CardsAre, GpioCardsAre DEF GpioCards, ChipsOf
  <2>2. IsWrite(w)
    BY <1>2, <2>1 DEF IsWrite, SetUpSteps
  <2>3. r \in 0 .. 255 /\ v \in 0 .. 255
    BY <1>5 DEF Fits
  <2>4. Fitting(c, w)
    BY <1>2, <1>5, <2>2, <2>3 DEF Fitting
  <2>5. QED
    BY <1>1, <2>4
<1>6. QED
  BY <1>3, <1>4, <1>5

LEMMA StepsAreSteps ==
    ASSUME NEW c \in OnGpio
    PROVE  StepsOf[c] \subseteq SetUpSteps
BY GpioCardsAre DEF GpioCards, StepsOf, SetUpSteps

LEMMA StepFits ==
    ASSUME NEW c \in OnGpio, NEW name \in StepsOf[c]
    PROVE  /\ Step(name) \in Seq(FitCalls(c)) /\ Len(Step(name)) = 1
           /\ Step(name)[1] = Call(name, 0, 0)
<1>1. Call(name, 0, 0) \in FitCalls(c)
  BY StepsAreSteps DEF Call, FitCalls, Fitting, Names
<1>2. QED
  BY <1>1 DEF Step

\* A table of register writes.
LEMMA CodecFits ==
    ASSUME NEW c \in Cards, NEW chip \in ChipsOf[c]
    PROVE  /\ Codec(c, chip) \in Seq(FitCalls(c))
           /\ Tables[c][chip] \in Seq(Nat \X Nat)
           /\ Len(Codec(c, chip)) = Len(Tables[c][chip])
           /\ \A i \in 1 .. Len(Tables[c][chip]) : Codec(c, chip)[i].chip = chip
<1>1. PICK T : T = Tables[c][chip]
  OBVIOUS
<1>2. /\ T \in Seq(Nat \X Nat)
      /\ \A i \in DOMAIN T : Fits(c, chip, T[i][1], T[i][2])
  BY <1>1, TablesAssumption
<1>3. /\ Len(T) \in Nat /\ DOMAIN T = 1 .. Len(T)
      /\ \A i \in 1 .. Len(T) : T[i] \in Nat \X Nat
  BY <1>2, LenProperties, ElementOfSeq
<1>4. chip \in Names
  BY CardsAre DEF ChipsOf, Names
<1>5. ASSUME NEW i \in 1 .. Len(T)
      PROVE  Call(chip, T[i][1], T[i][2]) \in FitCalls(c)
  <2>1. PICK r, v \in Nat : r = T[i][1] /\ v = T[i][2]
    BY <1>3
  <2>2. Fits(c, chip, r, v)
    BY <1>2, <1>3, <2>1
  <2>3. Fitting(c, Call(chip, r, v))
    BY <2>1, <2>2, ChipFits, Zenon
  <2>4. Call(chip, r, v) \in FitCalls(c)
    BY <1>4, <2>3 DEF FitCalls, Call
  <2>5. QED
    BY <2>1, <2>4
<1>6. PICK f : f = [i \in 1 .. Len(T) |-> Call(chip, T[i][1], T[i][2])]
  OBVIOUS
<1>7. f \in [1 .. Len(T) -> FitCalls(c)]
  BY <1>5, <1>6
<1>8. f \in Seq(FitCalls(c)) /\ Len(f) = Len(T)
  BY <1>3, <1>7, Listed
<1>9. f = Codec(c, chip)
  BY <1>1, <1>3, <1>6, Zenon DEF Codec
<1>10. \A i \in 1 .. Len(T) : f[i].chip = chip
  BY <1>6 DEF Call
<1>11. QED
  BY <1>1, <1>2, <1>8, <1>9, <1>10, Zenon

LEMMA IdentifyFits ==
    ASSUME NEW c \in Cards, c \notin OnGpio
    PROVE  Identify \in Seq(FitCalls(c))
<1>1. PICK len : len = Len(Eeprom) /\ len \in Nat /\ len <= 256
  BY ConstantsAssumption, LenProperties
<1>2. ASSUME NEW i \in 1 .. 2 * len
      PROVE  Call("EEPROM", (i - 1) % len, (i - 1) \div len) \in FitCalls(c)
  <2>1. len # 0
    BY <1>1
  <2>2. PICK k \in 0 .. 2 * len - 1 : k = i - 1
    BY <1>1
  <2>3. PICK r \in 0 .. len - 1 : r = k % len
    BY <1>1, <2>1, <2>2
  <2>4. PICK v \in Nat : v = k \div len
    BY <1>1, <2>1, <2>2, SMTT(30)
  <2>5. k = len * v + r
    BY <1>1, <2>1, <2>2, <2>3, <2>4, SMTT(30)
  <2>6. v \in 0 .. 1
    <3>1. CASE v >= 2
      <4>1. len * v >= len * 2
        BY <1>1, <3>1, SMTT(30)
      <4>2. QED
        BY <1>1, <2>2, <2>3, <2>5, <4>1
    <3>2. QED
      BY <3>1
  <2>7. Fitting(c, Call("EEPROM", r, v))
    <3>1. PICK w : w = Call("EEPROM", r, v)
      OBVIOUS
    <3>2. IsRead(w) /\ w.reg = r /\ w.data = v
      BY <3>1 DEF Call, IsRead
    <3>3. len \in Nat /\ len <= 256
      BY <1>1
    <3>4. r \in 0 .. 255
      BY <2>3, <3>3
    <3>5. w.reg \in 0 .. Len(Eeprom) - 1
      BY <1>1, <2>3, <3>2, Zenon
    <3>6. w.reg \in 0 .. 255 /\ w.data \in 0 .. 1
      BY <2>6, <3>2, <3>4, Zenon
    <3>7. Fitting(c, w)
      BY <3>2, <3>5, <3>6, Zenon DEF Fitting
    <3>8. QED
      BY <3>1, <3>7
  <2>8. Call("EEPROM", r, v) \in FitCalls(c)
    BY <2>7 DEF FitCalls, Call, Names
  <2>9. QED
    BY <2>2, <2>3, <2>4, <2>8, Zenon
<1>3. PICK f : f = [i \in 1 .. 2 * len |-> Call("EEPROM", (i - 1) % len, (i - 1) \div len)]
  OBVIOUS
<1>4. f \in [1 .. 2 * len -> FitCalls(c)] /\ 2 * len \in Nat
  BY <1>1, <1>2, <1>3
<1>5. f \in Seq(FitCalls(c))
  BY <1>4, Listed
<1>6. f = Identify
  BY <1>1, <1>3, Zenon DEF Identify
<1>7. QED
  BY <1>5, <1>6

LEMMA SoftMuteFits ==
    ASSUME NEW c \in Cards, c = "AP192"
    PROVE  << Call("AP192", 1, 1) >> \in Seq(FitCalls(c))
<1>1. PICK p : p = Wiring["AP192"]["AP192"]
  OBVIOUS
<1>2. p.registers = 32 /\ p.values = 256
  BY <1>1, WiringIs DEF Akm, Wired
<1>3. Fitting("AP192", Call("AP192", 1, 1))
  <2>1. 1 \in 0 .. p.registers - 1 /\ 1 \in 0 .. p.values - 1
    BY <1>2
  <2>2. /\ "AP192" \in OnGpio /\ "AP192" \in ChipsWired["AP192"]
        /\ "AP192" \in ChipsOf["AP192"]
    BY GpioCardsAre DEF GpioCards, ChipsWired, ChipsOf
  <2>3. /\ Call("AP192", 1, 1).chip = "AP192" /\ Call("AP192", 1, 1).reg = 1
        /\ Call("AP192", 1, 1).data = 1
    BY DEF Call
  <2>4. QED
    BY <1>1, <2>1, <2>2, <2>3, Zenon DEF Fitting
<1>4. Call("AP192", 1, 1) \in FitCalls("AP192")
  BY <1>3 DEF FitCalls, Call, Names
<1>5. QED
  BY <1>4

LEMMA SetUpsAre ==
    ASSUME NEW c \in Cards
    PROVE  /\ c = "Revo71" => SetUp[c] = Revo71SetUp(c)
           /\ c = "Revo51" => SetUp[c] = Revo51SetUp(c)
           /\ c = "Phase22" => SetUp[c] = Phase22SetUp(c)
           /\ c = "AP192" => SetUp[c] = AP192SetUp(c)
           /\ c = "AureonSpace" => SetUp[c] = AureonSetUp(c)
           /\ c = "ProdigyHD2" => SetUp[c] = ProdigyHD2SetUp(c)
           /\ c = "Julia" => SetUp[c] = JuliaSetUp(c)
           /\ c = "Maya44" => SetUp[c] = Identify
BY DEF SetUp

LEMMA Chained == \A S : \A a, b \in Seq(S) : a \o b \in Seq(S)
BY ConcatProperties

\* card_init makes calls that the card can take.
LEMMA SetUpFits ==
    ASSUME NEW c \in Cards
    PROVE  SetUp[c] \in Seq(FitCalls(c))
<1>1. \A chip \in ChipsOf[c] : Codec(c, chip) \in Seq(FitCalls(c))
  BY CodecFits
<1>2. c \in OnGpio => \A name \in StepsOf[c] : Step(name) \in Seq(FitCalls(c))
  BY StepFits
<1>3. CASE c = "Revo71"
  <2>1. /\ Step("boot") \in Seq(FitCalls(c)) /\ Step("mute") \in Seq(FitCalls(c))
        /\ Step("unmute") \in Seq(FitCalls(c))
        /\ Codec(c, "Front") \in Seq(FitCalls(c)) /\ Codec(c, "Surround") \in Seq(FitCalls(c))
    BY <1>1, <1>2, <1>3, GpioCardsAre DEF GpioCards, StepsOf, ChipsOf
  <2>2. SetUp[c] = Revo71SetUp(c)
    BY <1>3, SetUpsAre
  <2>3. Revo71SetUp(c) \in Seq(FitCalls(c))
    BY <2>1, Chained, Zenon DEF Revo71SetUp
  <2>4. QED
    BY <2>2, <2>3
<1>4. CASE c = "Revo51"
  <2>1. /\ Step("boot") \in Seq(FitCalls(c)) /\ Step("mute") \in Seq(FitCalls(c))
        /\ Step("unmute") \in Seq(FitCalls(c))
        /\ Codec(c, "Front") \in Seq(FitCalls(c)) /\ Codec(c, "Rec") \in Seq(FitCalls(c))
        /\ Codec(c, "PT2258") \in Seq(FitCalls(c))
    BY <1>1, <1>2, <1>4, GpioCardsAre DEF GpioCards, StepsOf, ChipsOf
  <2>2. SetUp[c] = Revo51SetUp(c)
    BY <1>4, SetUpsAre
  <2>3. Revo51SetUp(c) \in Seq(FitCalls(c))
    BY <2>1, Chained, Zenon DEF Revo51SetUp
  <2>4. QED
    BY <2>2, <2>3
<1>5. CASE c = "Phase22"
  <2>1. Step("boot") \in Seq(FitCalls(c)) /\ Codec(c, "Front") \in Seq(FitCalls(c))
    BY <1>1, <1>2, <1>5, GpioCardsAre DEF GpioCards, StepsOf, ChipsOf
  <2>2. SetUp[c] = Phase22SetUp(c)
    BY <1>5, SetUpsAre
  <2>3. Phase22SetUp(c) \in Seq(FitCalls(c))
    BY <2>1, Chained, Zenon DEF Phase22SetUp
  <2>4. QED
    BY <2>2, <2>3
<1>6. CASE c = "AP192"
  <2>1. /\ Step("boot") \in Seq(FitCalls(c)) /\ Step("adc") \in Seq(FitCalls(c))
        /\ Step("unmute") \in Seq(FitCalls(c)) /\ Step("mux") \in Seq(FitCalls(c))
        /\ Codec(c, "AP192") \in Seq(FitCalls(c))
    BY <1>1, <1>2, <1>6, GpioCardsAre DEF GpioCards, StepsOf, ChipsOf
  <2>2. << Call("AP192", 1, 1) >> \in Seq(FitCalls(c))
    BY <1>6, SoftMuteFits
  <2>3. SetUp[c] = AP192SetUp(c)
    BY <1>6, SetUpsAre
  <2>4. AP192SetUp(c) \in Seq(FitCalls(c))
    BY <2>1, <2>2, Chained, Zenon DEF AP192SetUp
  <2>5. QED
    BY <2>3, <2>4
<1>7. CASE c = "AureonSpace"
  <2>1. /\ Step("boot") \in Seq(FitCalls(c)) /\ Step("ac97") \in Seq(FitCalls(c))
        /\ Step("codecs") \in Seq(FitCalls(c))
        /\ Codec(c, "AC97") \in Seq(FitCalls(c)) /\ Codec(c, "Aureon") \in Seq(FitCalls(c))
        /\ Codec(c, "CS8415") \in Seq(FitCalls(c))
    BY <1>1, <1>2, <1>7, GpioCardsAre DEF GpioCards, StepsOf, ChipsOf
  <2>2. SetUp[c] = AureonSetUp(c)
    BY <1>7, SetUpsAre
  <2>3. AureonSetUp(c) \in Seq(FitCalls(c))
    BY <2>1, Chained, Zenon DEF AureonSetUp
  <2>4. QED
    BY <2>2, <2>3
<1>8. CASE c = "ProdigyHD2"
  <2>1. Step("boot") \in Seq(FitCalls(c)) /\ Codec(c, "AK4396") \in Seq(FitCalls(c))
    BY <1>1, <1>2, <1>8, GpioCardsAre DEF GpioCards, StepsOf, ChipsOf
  <2>2. SetUp[c] = ProdigyHD2SetUp(c)
    BY <1>8, SetUpsAre
  <2>3. ProdigyHD2SetUp(c) \in Seq(FitCalls(c))
    BY <2>1, Chained, Zenon DEF ProdigyHD2SetUp
  <2>4. QED
    BY <2>2, <2>3
<1>9. CASE c = "Julia"
  <2>1. /\ Codec(c, "AK4358") \in Seq(FitCalls(c)) /\ Codec(c, "AK4114") \in Seq(FitCalls(c))
        /\ Identify \in Seq(FitCalls(c))
    BY <1>1, <1>9, IdentifyFits, GpioCardsAre DEF GpioCards, ChipsOf
  <2>2. SetUp[c] = JuliaSetUp(c)
    BY <1>9, SetUpsAre
  <2>3. JuliaSetUp(c) \in Seq(FitCalls(c))
    BY <2>1, Chained, Zenon DEF JuliaSetUp
  <2>4. QED
    BY <2>2, <2>3
<1>10. CASE c = "Maya44"
  BY <1>10, IdentifyFits, SetUpsAre, GpioCardsAre DEF GpioCards
<1>11. QED
  BY <1>3, <1>4, <1>5, <1>6, <1>7, <1>8, <1>9, <1>10, CardsAre

\* So does the mixer.
LEMMA CallsFit ==
    ASSUME NEW c \in Cards, NEW w \in CallsOf[c]
    PROVE  Fitting(c, w) /\ w # None
<1>1. w # None
  BY TablesAssumption
<1>2. CallsOf[c] = WritesOf(c) \cup {SetUp[c][i] : i \in DOMAIN SetUp[c]}
  BY DEF CallsOf
<1>3. CASE w \in {SetUp[c][i] : i \in DOMAIN SetUp[c]}
  <2>1. PICK i \in DOMAIN SetUp[c] : w = SetUp[c][i]
    BY <1>3
  <2>2. w \in FitCalls(c)
    BY <2>1, SetUpFits, ElementOfSeq, LenProperties
  <2>3. QED
    BY <1>1, <2>2 DEF FitCalls
<1>4. CASE w \in WritesOf(c)
  <2>1. PICK t \in Targets[c], d \in DataFor[c] : w = Call(t[1], t[2], d)
    BY <1>4 DEF WritesOf
  <2>2. /\ IF c \in OnGpio THEN t[1] \in ChipsOf[c] \cap DOMAIN Wiring[c]
           ELSE t[1] \notin SetUpSteps \cup {"EEPROM"}
        /\ Fits(c, t[1], t[2], d)
    BY <2>1, TablesAssumption
  <2>3. PICK chip, reg : chip = t[1] /\ reg = t[2]
    OBVIOUS
  <2>4. w.chip = chip /\ w.reg = reg /\ w.data = d
    BY <2>1, <2>3 DEF Call
  <2>5. CASE c \in OnGpio
    <3>1. chip \in DOMAIN Wiring[c] /\ chip \in ChipsWired[c] /\ chip \in ChipsOf[c]
      BY <2>2, <2>3, <2>5, GpioCardsAre, ChipsAre
    <3>2. reg \in 0 .. Wiring[c][chip].registers - 1 /\ d \in 0 .. Wiring[c][chip].values - 1
      BY <2>2, <2>3, <2>5, <3>1 DEF Fits
    <3>3. QED
      BY <1>1, <2>4, <2>5, <3>1, <3>2, Zenon DEF Fitting
  <2>6. CASE c \notin OnGpio
    <3>1. chip \notin SetUpSteps \cup {"EEPROM"} /\ reg \in 0 .. 255 /\ d \in 0 .. 255
      BY <2>2, <2>3, <2>6 DEF Fits
    <3>2. QED
      BY <1>1, <2>4, <2>6, <3>1 DEF Fitting, IsWrite
  <2>7. QED
    BY <2>5, <2>6
<1>5. QED
  BY <1>2, <1>3, <1>4

-----------------------------------------------------------------------------
(* Every variable keeps its type *)

\* A shift register has at most one bit more than a word.
LEMMA ShiftedTyped ==
    ASSUME NEW w, w.width \in {16, 24}, NEW s \in [bits : Nat, word : Nat],
           s.bits <= w.width + 1, NEW new
    PROVE  /\ Shifted(w, s, new) \in [bits : Nat, word : Nat]
           /\ Shifted(w, s, new).bits <= w.width + 1
<1>1. PICK k \in {16, 24} : k = w.width
  OBVIOUS
<1>2. 2^k \in Nat \ {0}
  <2>1. 2^16 \in Nat \ {0} /\ 2^24 \in Nat \ {0}
    OBVIOUS
  <2>2. k = 16 \/ k = 24
    OBVIOUS
  <2>3. QED
    BY <2>1, <2>2
<1>3. PICK m \in Nat \ {0} : m = 2^k
  BY <1>2
<1>4. PICK s1 : s1 = IF w.cs \in pins /\ w.cs \notin new /\ ~w.cif THEN NoBits ELSE s
  OBVIOUS
<1>5. s1 \in [bits : Nat, word : Nat] /\ s1.bits <= k + 1
  BY <1>1, <1>4 DEF NoBits
<1>6. PICK b \in {0, 1} : b = IF w.data \in new THEN 1 ELSE 0
  OBVIOUS
<1>7. (2 * s1.word + b) % m \in Nat
  BY <1>5, <1>3
<1>8. PICK s2 : s2 = [bits |-> IF s1.bits <= k THEN s1.bits + 1 ELSE s1.bits,
                      word |-> (2 * s1.word + b) % m]
  OBVIOUS
<1>9. s2 \in [bits : Nat, word : Nat] /\ s2.bits <= k + 1
  <2>1. /\ s1.bits \in Nat /\ s1.bits <= k + 1
    BY <1>5
  <2>2. PICK t \in Nat : t = IF s1.bits <= k THEN s1.bits + 1 ELSE s1.bits
    BY <2>1
  <2>3. t <= k + 1
    BY <2>1, <2>2
  <2>4. PICK v \in Nat : v = (2 * s1.word + b) % m
    BY <1>7
  <2>5. s2 = [bits |-> t, word |-> v]
    BY <1>8, <2>2, <2>4, Zenon
  <2>6. QED
    BY <2>3, <2>5
<1>10. Shifted(w, s, new) = s2 \/ Shifted(w, s, new) = s1
  BY <1>1, <1>3, <1>4, <1>6, <1>8, Zenon DEF Shifted
<1>11. QED
  BY <1>1, <1>5, <1>9, <1>10

\* A bit shifted into a byte that is not full.
LEMMA ByteGrows ==
    ASSUME NEW k \in 0 .. 7, NEW x \in Nat, x < 2^k, NEW b \in {0, 1}
    PROVE  2 * x + b < 2^(k + 1) /\ 2 * x + b \in 0 .. 255
<1> DEFINE P(i, m) == 2^i = m /\ 2^(i + 1) = 2 * m /\ 2 * m <= 256
<1>1. P(0, 1) /\ P(1, 2) /\ P(2, 4) /\ P(3, 8) /\ P(4, 16) /\ P(5, 32) /\ P(6, 64) /\ P(7, 128)
  OBVIOUS
<1>2. \/ k = 0 \/ k = 1 \/ k = 2 \/ k = 3 \/ k = 4 \/ k = 5 \/ k = 6 \/ k = 7
  OBVIOUS
<1> HIDE DEF P
<1>3. \E m \in Nat : P(k, m)
  BY <1>1, <1>2
<1>4. PICK m \in Nat : P(k, m)
  BY <1>3
<1>5. x < m
  BY <1>4 DEF P
<1>6. 2 * x + b < 2 * m /\ 2 * x + b \in Nat
  BY <1>5
<1>7. QED
  BY <1>4, <1>6 DEF P

LEMMA MessageGrows ==
    ASSUME NEW m \in Words16, NEW x \in 0 .. 255
    PROVE  256 * (m % 256) + x \in Words16
<1>1. m \in Nat
  BY DEF Words16
<1>2. PICK r \in 0 .. 255 : r = m % 256
  BY <1>1
<1>3. 256 * r + x \in Nat /\ 256 * r + x < 256 * 256
  OBVIOUS
<1>4. QED
  BY <1>2, <1>3 DEF Words16

LEMMA FineBits ==
    ASSUME NEW b, FineBus(b), NEW k \in 0 .. 9, NEW x \in 0 .. 255, k <= 8 => x < 2^k,
           NEW t, t = [b EXCEPT !.bits = k, !.byte = x]
    PROVE  FineBus(t)
<1>1. t \in Bus
  BY ZenonT(40) DEF FineBus, Bus
<1>2. t.bits = k /\ t.byte = x
  BY DEF FineBus, Bus
<1>3. QED
  BY <1>1, <1>2, Zenon DEF FineBus

\* The PT2258 counts bits and bytes, and forms bytes and messages of them.
LEMMA HeardTyped ==
    ASSUME FineBus(bus), NEW new, NEW out
    PROVE  FineBus(Heard(new, out))
<1>1. FineBus(Quiet) /\ FineBus([Quiet EXCEPT !.on = TRUE])
  <2>1. 0 \in Words16 /\ 2^0 = 1
    BY DEF Words16
  <2>2. PICK q : q = [Quiet EXCEPT !.on = TRUE]
    OBVIOUS
  <2>3. 0 \in Words16
    BY <2>1
  <2>4. Quiet \in Bus /\ Quiet.bits = 0 /\ Quiet.byte = 0
    BY <2>3 DEF Quiet, Bus
  <2>5. q \in Bus /\ q.bits = 0 /\ q.byte = 0
    <3>1. q = [on |-> TRUE, bits |-> 0, byte |-> 0, bytes |-> 0, message |-> 0,
               pulls |-> FALSE]
      BY <2>2 DEF Quiet
    <3>2. QED
      BY <2>3, <3>1 DEF Bus
  <2>6. 0 < 2^0
    OBVIOUS
  <2>7. FineBus(Quiet) /\ FineBus(q)
    BY <2>4, <2>5, <2>6, Zenon DEF FineBus
  <2>8. QED
    BY <2>2, <2>7, Zenon
<1>2. ASSUME bus.bits = 8
      PROVE  FineBus([bus EXCEPT !.bits = 9])
  BY <1>2 DEF Bus, FineBus
<1>3. ASSUME bus.bits < 8, NEW b \in {0, 1}
      PROVE  FineBus([bus EXCEPT !.bits = @ + 1, !.byte = 2 * @ + b])
  <2>1. PICK k \in 0 .. 7 : k = bus.bits
    BY <1>3 DEF Bus, FineBus
  <2>2. PICK x \in Nat : x = bus.byte
    BY DEF Bus, FineBus
  <2>3. x < 2^k
    BY <2>1, <2>2 DEF FineBus
  <2>4. PICK y : y = 2 * x + b
    OBVIOUS
  <2>5. y < 2^(k + 1) /\ y \in 0 .. 255
    BY <2>3, <2>4, <1>3, ByteGrows
  <2>6. k + 1 \in 0 .. 9 
    OBVIOUS
  <2>7. FineBus([bus EXCEPT !.bits = k + 1, !.byte = y])
    BY <2>5, <2>6, FineBits
  <2>8. QED
    BY <2>1, <2>2, <2>4, <2>7, Zenon
<1>4. FineBus(Acknowledged)
  <2>1. PICK m \in Words16, x \in 0 .. 255, c \in 0 .. 3 :
           m = bus.message /\ x = bus.byte /\ c = bus.bytes
    BY DEF Bus, FineBus
  <2>2. PICK m1 : m1 = IF c = 0 THEN 0 ELSE 256 * (m % 256) + x
    OBVIOUS
  <2>3. m1 \in Words16
    <3>1. 0 \in Words16
      BY DEF Words16
    <3>2. 256 * (m % 256) + x \in Words16
      BY MessageGrows
    <3>3. QED
      BY <2>2, <3>1, <3>2, Zenon
  <2>4. PICK c1 \in 0 .. 3 : c1 = IF c < 3 THEN c + 1 ELSE c
    OBVIOUS
  <2>5. PICK t : t = [bus EXCEPT !.pulls = TRUE, !.bytes = c1, !.message = m1]
    OBVIOUS
  <2>6. t \in Bus /\ t.bits = bus.bits /\ t.byte = bus.byte
    <3>1. PICK u : u = [bus EXCEPT !.pulls = TRUE]
      OBVIOUS
    <3>2. u \in Bus /\ u.bits = bus.bits /\ u.byte = bus.byte
      BY <3>1, ZenonT(40) DEF FineBus, Bus
    <3>3. PICK v : v = [u EXCEPT !.bytes = c1]
      OBVIOUS
    <3>4. v \in Bus /\ v.bits = u.bits /\ v.byte = u.byte
      BY <2>4, <3>2, <3>3 DEF Bus
    <3>5. t = [v EXCEPT !.message = m1]
      BY <2>5, <3>1, <3>3
    <3>6. t \in Bus /\ t.bits = v.bits /\ t.byte = v.byte
      BY <2>3, <3>4, <3>5 DEF Bus
    <3>7. QED
      BY <3>2, <3>4, <3>6
  <2>7. FineBus(t)
    BY <2>6, Zenon DEF FineBus
  <2>8. Acknowledged = Quiet \/ Acknowledged = t
    BY <2>1, <2>2, <2>4, <2>5, ZenonT(40) DEF Acknowledged
  <2>9. QED
    BY <1>1, <2>7, <2>8, Zenon
<1>5. FineBus([bus EXCEPT !.pulls = FALSE, !.bits = 0, !.byte = 0])
  <2>1. PICK t : t = [bus EXCEPT !.pulls = FALSE]
    OBVIOUS
  <2>2. t \in Bus /\ t.bits = bus.bits /\ t.byte = bus.byte
    BY <2>1 DEF Bus, FineBus
  <2>3. FineBus(t)
    BY <2>2, Zenon DEF FineBus
  <2>4. 0 < 2^0 /\ 0 \in 0 .. 9 /\ 0 \in 0 .. 255
    OBVIOUS
  <2>5. FineBus([t EXCEPT !.bits = 0, !.byte = 0])
    BY <2>3, <2>4, FineBits, Zenon
  <2>6. [t EXCEPT !.bits = 0, !.byte = 0] = [bus EXCEPT !.pulls = FALSE, !.bits = 0, !.byte = 0]
    BY <2>1, Zenon
  <2>7. QED
    BY <2>5, <2>6, Zenon
<1>6. PICK b \in {0, 1} : b = IF Level(Sda, new, out) THEN 1 ELSE 0
  OBVIOUS
<1>7. PICK h : h = Heard(new, out)
  OBVIOUS
<1>8. \/ h = [Quiet EXCEPT !.on = TRUE]
      \/ h = Quiet
      \/ bus.bits = 8 /\ h = [bus EXCEPT !.bits = 9]
      \/ bus.bits < 8 /\ h = [bus EXCEPT !.bits = @ + 1, !.byte = 2 * @ + b]
      \/ h = Acknowledged
      \/ h = [bus EXCEPT !.pulls = FALSE, !.bits = 0, !.byte = 0]
      \/ h = bus
  BY <1>6, <1>7 DEF Heard
<1>9. FineBus(h)
  BY <1>1, <1>2, <1>3, <1>4, <1>5, <1>8, Zenon
<1>10. QED
  BY <1>7, <1>9, Zenon

LEMMA DecodedTyped ==
    ASSUME card \in OnGpio, NEW chip \in ChipsWired[card],
           NEW s, s.word \in Nat, NEW l \in Decoded(chip, s)
    PROVE  l.data \in Words16
<1>1. PICK w : w = Wiring[card][chip]
  OBVIOUS
<1>2. w.values \in {256, 512}
  BY <1>1, Ports, GpioCardsAre DEF SerialPort
<1>3. PICK x \in 0 .. 511 : x = s.word % w.values
  <2>1. CASE w.values = 256
    BY <2>1
  <2>2. CASE w.values = 512
    BY <2>2
  <2>3. QED
    BY <1>2, <2>1, <2>2
<1>4. l.data = s.word % w.values
  BY <1>1 DEF Decoded, Call
<1>5. QED
  BY <1>3, <1>4 DEF Words16

LEMMA DataPinsTyped8 == DataPins \in 0 .. 255
<1> DEFINE bit(i) == IF i \in pins THEN 2^i ELSE 0
<1>1. /\ bit(0) \in {0, 1} /\ bit(1) \in {0, 2} /\ bit(2) \in {0, 4} /\ bit(3) \in {0, 8}
      /\ bit(4) \in {0, 16} /\ bit(5) \in {0, 32} /\ bit(6) \in {0, 64} /\ bit(7) \in {0, 128}
  OBVIOUS
<1>2. DataPins = bit(0) + bit(1) + bit(2) + bit(3) + bit(4) + bit(5) + bit(6) + bit(7)
  BY DEF DataPins
<1> HIDE DEF bit
<1>3. QED
  BY <1>1, <1>2

LEMMA CommittedTyped ==
    ASSUME latches \in Latches8, NEW new, NEW l \in Committed(new)
    PROVE  l.data \in Words16
<1>1. PICK h, w \in 0 .. 255 : h = latches.high /\ w = latches.low
  BY DEF Latches8
<1>2. l.data = 256 * h + w
  BY <1>1 DEF Committed, Call
<1>3. 256 * h + w \in Nat /\ 256 * h + w < 256 * 256
  OBVIOUS
<1>4. QED
  BY <1>2, <1>3, SMTT(30) DEF Words16

LEMMA RelatchedTyped ==
    ASSUME latches \in Latches8, NEW new
    PROVE  Relatched(new) \in Latches8
BY DataPinsTyped8 DEF Relatched, Latches8

LEMMA SerialIs ==
    ASSUME card \in OnGpio
    PROVE  Serial(card) = ChipsWired[card]
BY GpioCardsAre, ChipsAre DEF Serial

LEMMA LandingTyped ==
    ASSUME card \in OnGpio, Devices, NEW new, NEW out, NEW l \in Landing(new, out)
    PROVE  l.data \in Words16
<1>1. CASE \E c \in DOMAIN shift : l \in Decoded(c, shift[c])
  <2>1. PICK c \in ChipsWired[card] : l \in Decoded(c, shift[c])
    BY <1>1, SerialIs DEF Devices
  <2>2. shift[c].word \in Nat
    BY SerialIs DEF Devices
  <2>3. QED
    BY <2>1, <2>2, DecodedTyped
<1>2. CASE l \in Committed(new)
  BY <1>2, CommittedTyped DEF Devices
<1>3. CASE l \in Stopped(new, out)
  <2>1. l.data = bus.message
    BY <1>3 DEF Stopped, Call
  <2>2. bus.message \in Words16
    BY DEF Devices, FineBus, Bus
  <2>3. QED
    BY <2>1, <2>2
<1>4. l \in FromCodecs(new) => \E c \in Latching(new) : l \in Decoded(c, shift[c])
  BY DEF FromCodecs
<1>5. \/ l \in FromCodecs(new) \/ l \in IF card = "AureonSpace" THEN Committed(new) ELSE {}
      \/ l \in IF card = "Revo51" THEN Stopped(new, out) ELSE {}
  BY DEF Landing
<1>6. QED
  BY <1>1, <1>2, <1>3, <1>4, <1>5, Zenon DEF Latching

\* The devices keep their types as the pins change.
LEMMA ChangeTyped ==
    ASSUME card \in OnGpio, card' = card, Devices, NEW new, NEW out, Change(new, out)
    PROVE  Devices'
<1>1. PICK L : L = Landing(new, out)
  OBVIOUS
<1>2. \A l \in L : l.data \in Words16
  BY <1>1, LandingTyped
<1>3. /\ shift' = [c \in DOMAIN shift |->
                     IF c \in Latching(new) THEN NoBits
                     ELSE Shifted(Wiring[card][c], shift[c], new)]
      /\ latches' = IF card = "AureonSpace" THEN Relatched(new) ELSE latches
      /\ bus' = IF card = "Revo51" THEN Heard(new, out) ELSE bus
      /\ regs' = [r \in DOMAIN regs |->
                     IF \E l \in L : <<l.chip, l.reg>> = r
                     THEN (CHOOSE l \in L : <<l.chip, l.reg>> = r).data
                     ELSE regs[r]]
      /\ latched' = (latched \/ L # {})
  BY <1>1 DEF Change
<1>4. /\ shift' \in [Serial(card) -> [bits : Nat, word : Nat]]
      /\ \A c \in Serial(card) : shift'[c].bits <= Wiring[card][c].width + 1
  <2>1. DOMAIN shift = Serial(card)
    BY DEF Devices
  <2>2. ASSUME NEW c \in Serial(card)
        PROVE  /\ shift'[c] \in [bits : Nat, word : Nat]
               /\ shift'[c].bits <= Wiring[card][c].width + 1
    <3>1. PICK w : w = Wiring[card][c]
      OBVIOUS
    <3>2. w.width \in {16, 24}
      BY <2>2, <3>1, Ports, SerialIs, GpioCardsAre DEF SerialPort, Port
    <3>3. PICK s \in [bits : Nat, word : Nat] : s = shift[c] /\ s.bits <= w.width + 1
      BY <3>1 DEF Devices
    <3>4. /\ Shifted(w, s, new) \in [bits : Nat, word : Nat]
          /\ Shifted(w, s, new).bits <= w.width + 1
      BY <3>2, <3>3, ShiftedTyped
    <3>5. NoBits \in [bits : Nat, word : Nat] /\ NoBits.bits <= w.width + 1
      BY <3>2 DEF NoBits
    <3>6. shift'[c] = NoBits \/ shift'[c] = Shifted(w, s, new)
      BY <1>3, <2>1, <3>1, <3>3, Zenon
    <3>7. QED
      BY <3>1, <3>4, <3>5, <3>6, Zenon
  <2>3. DOMAIN shift' = Serial(card) /\ shift' = [c \in Serial(card) |-> shift'[c]]
    BY <1>3, <2>1, Zenon
  <2>4. QED
    BY <2>2, <2>3
<1>5. latches' \in Latches8
  BY <1>3, RelatchedTyped DEF Devices
<1>6. FineBus(bus')
  BY <1>3, HeardTyped, Zenon DEF Devices
<1>7. latched' \in BOOLEAN
  BY <1>3, Zenon DEF Devices
<1>8. \A r \in DOMAIN regs' : regs'[r] = Default \/ regs'[r] \in Words16
  <2>1. TAKE r \in DOMAIN regs'
  <2>2. r \in DOMAIN regs
    BY <1>3, Zenon
  <2>3. CASE \E l \in L : <<l.chip, l.reg>> = r
    <3>1. PICK m : m = (CHOOSE l \in L : <<l.chip, l.reg>> = r)
      OBVIOUS
    <3>2. m \in L
      BY <2>3, <3>1, Zenon
    <3>3. regs'[r] = m.data
      BY <1>3, <2>2, <2>3, <3>1, Zenon
    <3>4. QED
      BY <1>2, <3>2, <3>3
  <2>4. CASE ~\E l \in L : <<l.chip, l.reg>> = r
    <3>1. regs'[r] = regs[r]
      BY <1>3, <2>2, <2>4, Zenon
    <3>2. QED
      BY <2>2, <3>1 DEF Devices
  <2>5. QED
    BY <2>3, <2>4
<1>9. QED
  BY <1>4, <1>5, <1>6, <1>7, <1>8, Zenon DEF Devices, FineBus, Bus, Latches8, Serial

\* The calls of a card on GPIO pins have frames.
LEMMA FramesTyped ==
    ASSUME card \in Cards, card \in OnGpio, NEW w \in CallsOf[card]
    PROVE  /\ Frames[card][w] = Frame(card, w)
           /\ Frame(card, w) \in Seq(Accesses) /\ Len(Frame(card, w)) \in 1 .. 96
<1>1. Frames[card][w] = Frame(card, w)
  BY DEF Frames
<1>2. Fitting(card, w)
  BY CallsFit
<1>3. CASE w.chip \in ChipsWired[card] /\ w.reg \in 0 .. Wiring[card][w.chip].registers - 1
           /\ w.data \in 0 .. Wiring[card][w.chip].values - 1
  <2>1. SerialPort(Wiring[card][w.chip])
    BY <1>3, Ports, GpioCardsAre
  <2>2. w.reg \in Nat /\ w.data \in Nat
    BY <1>3, <2>1 DEF SerialPort
  <2>3. Writable(card, w)
    BY <1>3, <2>2, Zenon DEF Writable
  <2>4. QED
    BY <1>1, <2>3, FrameTyped, GpioCardsAre
<1>4. CASE w.chip \in SetUpSteps \/ (w.chip = "PT2258" /\ w.data \in Words16) \/ w.chip = "AC97"
  <2>1. Writable(card, w)
    BY <1>4 DEF Writable, Words16
  <2>2. QED
    BY <1>1, <2>1, FrameTyped, GpioCardsAre
<1>5. StepsOf[card] \subseteq SetUpSteps
  BY StepsAreSteps
<1>6. QED
  BY <1>2, <1>3, <1>4, <1>5, Zenon DEF Fitting

LEMMA EepromTyped ==
    /\ Len(Eeprom) \in Nat /\ DOMAIN Eeprom = 1 .. Len(Eeprom)
    /\ \A i \in DOMAIN Eeprom : Eeprom[i] \in 0 .. 255
<1>1. PICK S : S = 0 .. 255
  OBVIOUS
<1>2. Eeprom \in Seq(S)
  BY <1>1, ConstantsAssumption
<1>3. /\ Len(Eeprom) \in Nat /\ DOMAIN Eeprom = 1 .. Len(Eeprom)
      /\ \A i \in DOMAIN Eeprom : Eeprom[i] \in S
  BY <1>2, LenProperties, ElementOfSeq
<1>4. QED
  BY <1>1, <1>3

\* Register and value of a call for the I2C controller.
LEMMA CallTyped ==
    ASSUME card \in Cards, card \notin OnGpio, NEW w \in CallsOf[card]
    PROVE  w.reg \in 0 .. 255 /\ w.data \in 0 .. 255
<1>1. Fitting(card, w) /\ card # "Revo51" /\ card # "AureonSpace"
  BY CallsFit, GpioCardsAre DEF GpioCards
<1>2. /\ w.reg \in 0 .. 255
      /\ w.data \in 0 .. 1 \/ w.data \in 0 .. 255
  BY <1>1, Zenon DEF Fitting
<1>3. QED
  BY <1>2

LEMMA SetUpCalls ==
    ASSUME NEW c \in Cards
    PROVE  /\ Len(SetUp[c]) \in Nat /\ DOMAIN SetUp[c] = 1 .. Len(SetUp[c])
           /\ \A i \in DOMAIN SetUp[c] : SetUp[c][i] \in CallsOf[c]
           /\ WritesOf(c) \subseteq CallsOf[c]
<1>1. CallsOf[c] = WritesOf(c) \cup {SetUp[c][i] : i \in DOMAIN SetUp[c]}
  BY DEF CallsOf
<1>2. QED
  BY <1>1, SetUpFits, LenProperties

LEMMA PollsAre == MaxPolls \in Nat \ {0} /\ 0 \in 0 .. MaxPolls - 1
BY ConstantsAssumption

LEMMA EnterTyped ==
    ASSUME TypeInv, NEW w \in CallsOf[card], Enter(w),
           at' \in 0 .. Len(SetUp[card]) + 1, ready' = ready, misread' = misread
    PROVE  TypeInv'
<1>1. UNCHANGED <<card, pins, dir, masked, saved, shift, latches, bus, late,
                  addr, data, transfer, regs>>
  BY DEF Enter
<1>2. w # None
  BY CallsFit DEF TypeInv, ThreadTyped
<1>3. ThreadTyped'
  <2>1. CASE card \in OnGpio
    <3>1. pc' = "gpio" /\ n' = 1 /\ call' = w
      BY <2>1 DEF Enter
    <3>2. PICK len \in 1 .. 96 : len = Len(Frame(card, w))
      BY <2>1, FramesTyped DEF TypeInv, ThreadTyped
    <3>3. 1 \in 1 .. Len(Frame(card, w))
      <4>1. 1 \in 1 .. len
        OBVIOUS
      <4>2. QED
        BY <3>2, <4>1, Zenon
    <3>4. QED
      BY <1>1, <1>2, <2>1, <3>1, <3>3 DEF TypeInv, ThreadTyped
  <2>2. CASE card \notin OnGpio
    <3>1. pc' = "wait" /\ n' = n /\ call' = w /\ latched' = FALSE
      BY <2>2 DEF Enter
    <3>2. QED
      BY <1>1, <1>2, <2>2, <3>1 DEF TypeInv, ThreadTyped, AfterWait
  <2>3. QED
    BY <2>1, <2>2
<1>4. GpioTyped'
  BY <1>1, Zenon DEF TypeInv, GpioTyped
<1>5. Devices'
  <2>1. latched' = FALSE
    BY DEF Enter
  <2>2. QED
    BY <1>1, <2>1, Zenon DEF TypeInv, Devices, FineBus, Bus, Latches8, Serial
<1>6. ControllerTyped'
  <2>1. polls' = 0 /\ 0 \in 0 .. MaxPolls - 1
    BY PollsAre DEF Enter
  <2>2. QED
    BY <1>1, <2>1, Zenon DEF TypeInv, ControllerTyped
<1>7. QED
  BY <1>3, <1>4, <1>5, <1>6 DEF TypeInv

LEMMA SetUpReturnsTyped ==
    ASSUME TypeInv, SetUpReturns
    PROVE  TypeInv'
<1>1. UNCHANGED <<card, misread, call, pc, gpio, i2c, regs>> /\ at' = 0 /\ ready' \in BOOLEAN
  BY DEF SetUpReturns, TypeInv, ThreadTyped
<1>2. ThreadTyped'
  BY <1>1, SetUpCalls DEF TypeInv, ThreadTyped, gpio, i2c
<1>3. GpioTyped' /\ Devices' /\ ControllerTyped'
  BY <1>1, Zenon DEF TypeInv, GpioTyped, Devices, FineBus, Bus, Latches8, Serial,
     ControllerTyped, gpio, i2c
<1>4. QED
  BY <1>2, <1>3 DEF TypeInv

LEMMA WakeTyped ==
    ASSUME TypeInv, Wake
    PROVE  TypeInv'
<1>1. UNCHANGED <<card, ready, call, pc, gpio, i2c, regs>> /\ at' = 1 /\ misread' = FALSE
  BY DEF Wake
<1>2. 1 \in 0 .. Len(SetUp[card]) + 1
  BY SetUpCalls DEF TypeInv, ThreadTyped
<1>3. ThreadTyped'
  BY <1>1, <1>2 DEF TypeInv, ThreadTyped, gpio, i2c
<1>4. GpioTyped' /\ Devices' /\ ControllerTyped'
  BY <1>1, Zenon DEF TypeInv, GpioTyped, Devices, FineBus, Bus, Latches8, Serial,
     ControllerTyped, gpio, i2c
<1>5. QED
  BY <1>3, <1>4 DEF TypeInv

\* The next access a of the frame F.
Accessed(F, a) ==
    /\ F = Frame(card, call) /\ F \in Seq(Accesses) /\ Len(F) \in 1 .. 96
    /\ n \in 1 .. Len(F) /\ a = F[n] /\ a \in Accesses
    /\ Change(Levels(a), Directed(a))
    /\ masked' = MaskOf(a) /\ saved' = Saved(a)
    /\ IF n < Len(F)
       THEN n' = n + 1 /\ UNCHANGED <<pc, call>>
       ELSE n' = 0 /\ pc' = "idle" /\ call' = None
    /\ UNCHANGED <<card, init, i2c>>

LEMMA WriteGpioIs ==
    ASSUME TypeInv, WriteGpio
    PROVE  /\ card \in Cards /\ card \in OnGpio /\ call \in CallsOf[card] /\ pc = "gpio"
           /\ \E F : \E a \in Accesses : Accessed(F, a)
<1>1. card \in Cards /\ card \in OnGpio /\ call \in CallsOf[card] /\ pc = "gpio"
  BY DEF WriteGpio, TypeInv, ThreadTyped
<1>2. PICK F : F = Frame(card, call)
  OBVIOUS
<1>3. F \in Seq(Accesses) /\ Len(F) \in 1 .. 96 /\ n \in 1 .. Len(F) /\ Frames[card][call] = F
  BY <1>1, <1>2, FramesTyped DEF TypeInv, ThreadTyped
<1>4. PICK a \in Accesses : a = F[n]
  BY <1>3, ElementOfSeq
<1>5. Accessed(F, a)
  BY <1>2, <1>3, <1>4, Zenon DEF WriteGpio, Accessed
<1>6. QED
  BY <1>1, <1>5

LEMMA WriteGpioTyped ==
    ASSUME TypeInv, WriteGpio
    PROVE  TypeInv'
<1>1. card \in Cards /\ card \in OnGpio /\ call \in CallsOf[card] /\ pc = "gpio"
  BY WriteGpioIs
<1>2. PICK F, access : access \in Accesses /\ Accessed(F, access)
  BY WriteGpioIs
<1>3. /\ F \in Seq(Accesses) /\ Len(F) \in 1 .. 96 /\ n \in 1 .. Len(F)
      /\ F = Frame(card, call)
  BY <1>2 DEF Accessed
<1>4. access \in Accesses
  BY <1>2
<1>5. PICK new, out : new = Levels(access) /\ out = Directed(access)
  OBVIOUS
<1>6. /\ Change(new, out)
      /\ masked' = MaskOf(access) /\ saved' = Saved(access)
      /\ IF n < Len(F)
         THEN n' = n + 1 /\ UNCHANGED <<pc, call>>
         ELSE n' = 0 /\ pc' = "idle" /\ call' = None
      /\ UNCHANGED <<card, init, i2c>>
  BY <1>2, <1>5, Zenon DEF Accessed
<1>7. ThreadTyped'
  <2>1. CASE n < Len(F)
    <3>1. n' = n + 1 /\ UNCHANGED <<pc, call, card, init, i2c>> /\ n' \in 1 .. Len(F)
      BY <1>3, <1>6, <2>1
    <3>2. QED
      BY <1>1, <1>3, <3>1 DEF TypeInv, ThreadTyped, init, i2c
  <2>2. CASE ~(n < Len(F))
    <3>1. n' = 0 /\ pc' = "idle" /\ call' = None /\ UNCHANGED <<card, init, i2c>>
      BY <1>6, <2>2
    <3>2. QED
      BY <1>1, <3>1 DEF TypeInv, ThreadTyped, init, i2c
  <2>3. QED
    BY <2>1, <2>2
<1>8. GpioTyped'
  <2>1. /\ access.op \in {"data", "mask", "lines", "save", "restore"}
        /\ access.out \in SUBSET Pins /\ access.masked \in SUBSET Pins
        /\ access.up \in SUBSET Pins /\ access.down \in SUBSET Pins
    BY <1>4 DEF Accesses
  <2>2. /\ pins \in SUBSET Pins /\ dir \in SUBSET Pins /\ masked \in SUBSET Pins
        /\ saved.dir \in SUBSET Pins /\ saved.masked \in SUBSET (0 .. 15)
        /\ saved \in [dir : SUBSET Pins, masked : SUBSET (0 .. 15)]
    BY DEF TypeInv, GpioTyped
  <2>3. new \in SUBSET Pins
    BY <1>5, <2>1, <2>2 DEF Levels
  <2>4. out \in SUBSET Pins
    BY <1>5, <2>1, <2>2 DEF Directed
  <2>5. MaskOf(access) \in SUBSET Pins
    BY <2>1, <2>2 DEF MaskOf, Pins
  <2>6. Saved(access) \in [dir : SUBSET Pins, masked : SUBSET (0 .. 15)]
    <3>1. masked \ (16 .. 22) \in SUBSET (0 .. 15)
      BY <2>2 DEF Pins
    <3>2. QED
      BY <2>2, <3>1 DEF Saved
  <2>7. pins' = new /\ dir' = out
    BY <1>6 DEF Change
  <2>8. QED
    BY <1>6, <2>3, <2>4, <2>5, <2>6, <2>7, Zenon DEF GpioTyped
<1>9. Devices'
  BY <1>1, <1>6, ChangeTyped, Zenon DEF TypeInv
<1>10. ControllerTyped'
  BY <1>6 DEF TypeInv, ControllerTyped, i2c
<1>11. QED
  BY <1>7, <1>8, <1>9, <1>10 DEF TypeInv

LEMMA NothingOnPins ==
    ASSUME TypeInv, UNCHANGED <<card, gpio>>
    PROVE  /\ GpioTyped'
           /\ (\A r \in DOMAIN regs' : regs'[r] = Default \/ regs'[r] \in Words16) => Devices'
<1>1. UNCHANGED <<card, pins, dir, masked, saved, shift, latches, bus, latched>>
  BY DEF gpio
<1>2. QED
  BY <1>1, Zenon DEF TypeInv, GpioTyped, Devices, FineBus, Bus, Latches8, Serial

LEMMA PollTyped ==
    ASSUME TypeInv, Poll
    PROVE  TypeInv'
<1>1. /\ card \notin OnGpio
      /\ UNCHANGED <<card, init, call, gpio, addr, data, transfer, regs>>
      /\ pc \in DOMAIN AfterWait
      /\ pc' = pc \/ pc' = AfterWait[pc]
      /\ late' = late \/ late' = TRUE
      /\ polls' = 0 \/ (polls' = polls + 1 /\ polls + 1 < MaxPolls)
  BY DEF Poll, TypeInv, ThreadTyped, AfterWait
<1>2. ThreadTyped'
  BY <1>1 DEF TypeInv, ThreadTyped, AfterWait, init, gpio
<1>3. GpioTyped' /\ Devices'
  BY <1>1, NothingOnPins DEF TypeInv, Devices
<1>4. ControllerTyped'
  <2>1. polls' \in 0 .. MaxPolls - 1
    BY <1>1, PollsAre DEF TypeInv, ControllerTyped
  <2>2. QED
    BY <1>1, <2>1 DEF TypeInv, ControllerTyped
<1>5. QED
  BY <1>2, <1>3, <1>4 DEF TypeInv

LEMMA RegisterWritesTyped ==
    ASSUME TypeInv, WriteAddr \/ WriteData \/ WriteDevice
    PROVE  TypeInv'
<1>1. /\ card \in Cards /\ card \notin OnGpio
      /\ call \in CallsOf[card] /\ call.reg \in 0 .. 255 /\ call.data \in 0 .. 255
  <2>1. /\ card \in Cards /\ card \notin OnGpio /\ call \in CallsOf[card]
    BY DEF TypeInv, ThreadTyped, WriteAddr, WriteData, WriteDevice
  <2>2. QED
    BY <2>1, CallTyped
<1>2. UNCHANGED <<card, init, gpio, polls, late, regs>>
  BY DEF WriteAddr, WriteData, WriteDevice
<1>3. ThreadTyped'
  BY <1>1, <1>2 DEF TypeInv, ThreadTyped, AfterWait, init, gpio, WriteAddr, WriteData,
     WriteDevice
<1>4. GpioTyped' /\ Devices'
  BY <1>2, NothingOnPins DEF TypeInv, Devices
<1>5. ControllerTyped'
  BY <1>1, <1>2 DEF TypeInv, ControllerTyped, WriteAddr, WriteData, WriteDevice
<1>6. QED
  BY <1>3, <1>4, <1>5 DEF TypeInv

LEMMA ReadValueTyped ==
    ASSUME TypeInv, ReadValue
    PROVE  TypeInv'
<1>1. /\ card \notin OnGpio /\ pc' = "idle" /\ call' = None /\ misread' \in BOOLEAN
      /\ UNCHANGED <<card, at, ready, gpio, i2c, regs>>
  BY DEF ReadValue, TypeInv, ThreadTyped
<1>2. ThreadTyped'
  BY <1>1 DEF TypeInv, ThreadTyped, gpio, i2c
<1>3. GpioTyped' /\ Devices'
  BY <1>1, NothingOnPins DEF TypeInv, Devices
<1>4. ControllerTyped'
  BY <1>1 DEF TypeInv, ControllerTyped, i2c
<1>5. QED
  BY <1>2, <1>3, <1>4 DEF TypeInv

LEMMA TransferredTyped ==
    ASSUME TypeInv, Transferred
    PROVE  TypeInv'
<1>1. /\ card \notin OnGpio /\ transfer' = None
      /\ UNCHANGED <<card, init, call, pc, gpio, polls, late, addr>>
  BY DEF Transferred, TypeInv, ThreadTyped
<1>2. ThreadTyped'
  BY <1>1 DEF TypeInv, ThreadTyped, init, gpio
<1>3. \A r \in DOMAIN regs' : regs'[r] = Default \/ regs'[r] \in Words16
  <2>1. data \in Words16
    BY DEF TypeInv, ControllerTyped, Words16
  <2>2. regs' = regs \/ \E k : regs' = [regs EXCEPT ![k] = data]
    BY DEF Transferred
  <2>3. QED
    BY <2>1, <2>2 DEF TypeInv, Devices
<1>4. GpioTyped' /\ Devices'
  BY <1>1, <1>3, NothingOnPins
<1>5. data' \in 0 .. 255
  <2>1. data \in 0 .. 255
    BY DEF TypeInv, ControllerTyped
  <2>2. \/ data' = data \/ data' = 0
        \/ addr + 1 \in DOMAIN Eeprom /\ data' = Eeprom[addr + 1]
    BY DEF Transferred
  <2>3. QED
    <3>1. 0 \in 0 .. 255
      OBVIOUS
    <3>2. QED
      BY <2>1, <2>2, <3>1, EepromTyped, ZenonT(40)
<1>6. ControllerTyped'
  BY <1>1, <1>5 DEF TypeInv, ControllerTyped
<1>7. QED
  BY <1>2, <1>4, <1>6 DEF TypeInv

LEMMA InitTyped ==
    ASSUME Init
    PROVE  TypeInv
<1>1. card \in Cards /\ Len(SetUp[card]) \in Nat
  BY SetUpCalls DEF Init
<1>2. ThreadTyped
  <2>1. 1 \in 0 .. Len(SetUp[card]) + 1
    BY <1>1
  <2>2. QED
    BY <1>1, <2>1 DEF Init, ThreadTyped
<1>3. GpioTyped
  BY DEF Init, GpioTyped, Pins
<1>4. Devices
  <2>1. shift = [c \in Serial(card) |-> NoBits]
    BY DEF Init
  <2>2. ASSUME NEW c \in Serial(card)
        PROVE  0 <= Wiring[card][c].width + 1
    <3>1. card \in OnGpio
      BY DEF Serial
    <3>2. Wiring[card][c].width \in {16, 24}
      BY <2>2, <3>1, Ports, SerialIs, GpioCardsAre DEF SerialPort, Port
    <3>3. QED
      BY <3>2
  <2>3. /\ shift \in [Serial(card) -> [bits : Nat, word : Nat]]
        /\ \A c \in Serial(card) : shift[c].bits <= Wiring[card][c].width + 1
    BY <2>1, <2>2 DEF NoBits
  <2>4. latches \in Latches8 /\ latched \in BOOLEAN
    <3>1. latches = [addr |-> 0, low |-> 0, high |-> 0] /\ latched = FALSE
      BY DEF Init
    <3>2. 0 \in 0 .. 255
      OBVIOUS
    <3>3. [addr |-> 0, low |-> 0, high |-> 0] \in Latches8
      BY <3>2, Zenon DEF Latches8
    <3>4. QED
      BY <3>1, <3>3, Zenon
  <2>5. FineBus(bus)
    <3>1. 0 \in Words16 /\ 0 < 2^0
      BY DEF Words16
    <3>2. bus \in Bus /\ bus.bits = 0 /\ bus.byte = 0
      BY <3>1 DEF Init, Quiet, Bus
    <3>3. QED
      BY <3>1, <3>2, Zenon DEF FineBus
  <2>6. \A r \in DOMAIN regs : regs[r] = Default
    BY DEF Init
  <2>7. QED
    BY <2>3, <2>4, <2>5, <2>6, Zenon DEF Devices
<1>5. ControllerTyped
  <2>1. /\ polls = 0 /\ late = FALSE /\ addr = 0 /\ data = 0 /\ transfer = None
    BY DEF Init
  <2>2. 0 \in 0 .. 255
    OBVIOUS
  <2>3. QED
    BY <2>1, <2>2, PollsAre, Zenon DEF ControllerTyped
<1>6. QED
  BY <1>2, <1>3, <1>4, <1>5 DEF TypeInv

LEMMA TypeStep ==
    ASSUME TypeInv, [Next]_vars
    PROVE  TypeInv'
<1>1. card \in Cards
  BY DEF TypeInv, ThreadTyped
<1>2. ASSUME NEW w \in WritesOf(card), Request(w)
      PROVE  TypeInv'
  <2>1. w \in CallsOf[card] /\ Enter(w) /\ UNCHANGED init
    BY <1>1, <1>2, SetUpCalls DEF Request
  <2>2. QED
    BY <2>1, EnterTyped DEF init, TypeInv, ThreadTyped
<1>3. ASSUME SetUpCall
      PROVE  TypeInv'
  <2>1. PICK w \in CallsOf[card] : Enter(w)
    BY <1>1, <1>3, SetUpCalls DEF SetUpCall
  <2>2. at' \in 0 .. Len(SetUp[card]) + 1 /\ ready' = ready /\ misread' = misread
    BY <1>1, <1>3, SetUpCalls DEF SetUpCall
  <2>3. QED
    BY <2>1, <2>2, EnterTyped
<1>4. CASE UNCHANGED vars
  <2>1. ThreadTyped'
    BY <1>4 DEF vars, init, gpio, i2c, TypeInv, ThreadTyped
  <2>2. GpioTyped' /\ Devices' /\ ControllerTyped'
    BY <1>4, Zenon DEF vars, gpio, i2c, TypeInv, GpioTyped, Devices, FineBus, Bus, Latches8,
       Serial, ControllerTyped
  <2>3. QED
    BY <2>1, <2>2 DEF TypeInv
<1>5. QED
  BY <1>2, <1>3, <1>4, SetUpReturnsTyped, WakeTyped, WriteGpioTyped, PollTyped,
     RegisterWritesTyped, ReadValueTyped, TransferredTyped DEF Next, ThreadStep

LEMMA TypeInvImplies ==
    ASSUME TypeInv
    PROVE  TypeOK
<1>1. n \in 0 .. 96
  <2>1. CASE card \in OnGpio /\ pc = "gpio"
    <3>1. PICK len \in 1 .. 96 : len = Len(Frame(card, call))
      BY <2>1, FramesTyped DEF TypeInv, ThreadTyped
    <3>2. n \in 1 .. len
      BY <2>1, <3>1 DEF TypeInv, ThreadTyped
    <3>3. QED
      BY <3>2
  <2>2. QED
    BY <2>1 DEF TypeInv, ThreadTyped
<1>2. \A c \in DOMAIN shift : shift[c].bits \in 0 .. Wiring[card][c].width + 1
  <2>1. TAKE c \in DOMAIN shift
  <2>2. c \in Serial(card) /\ card \in OnGpio
    BY DEF TypeInv, Devices, Serial
  <2>3. Wiring[card][c].width \in {16, 24}
    BY <2>2, Ports, SerialIs, GpioCardsAre DEF SerialPort, Port
  <2>4. shift[c].bits \in Nat /\ shift[c].bits <= Wiring[card][c].width + 1
    BY <2>2 DEF TypeInv, Devices
  <2>5. QED
    BY <2>3, <2>4
<1>3. /\ bus.bits \in 0 .. 9 /\ bus.byte \in 0 .. 255 /\ bus.bytes \in 0 .. 3
      /\ saved.dir \subseteq Pins /\ saved.masked \subseteq 0 .. 15
  BY DEF TypeInv, Devices, FineBus, Bus, GpioTyped
<1>4. QED
  BY <1>1, <1>2, <1>3, Zenon DEF TypeInv, ThreadTyped, GpioTyped, Devices, ControllerTyped,
     Latches8, TypeOK

\* Type correctness, for every card, every table the card's codecs have the
\* registers for, and every write: the polls are bounded, no shift register
\* takes more than a bit too many, the PT2258 gets bytes of eight bits, and no
\* codec a value that its register does not have.
THEOREM TypeCorrect == Spec => []TypeOK
<1>1. Init => TypeInv
  BY InitTyped
<1>2. TypeInv /\ [Next]_vars => TypeInv'
  BY TypeStep
<1>3. TypeInv => TypeOK
  BY TypeInvImplies
<1>4. QED
  BY <1>1, <1>2, <1>3, PTL DEF Spec

-----------------------------------------------------------------------------
(* The thread and the I2C controller do not disturb each other *)

\* What the thread's steps on the controller have in common.
LEMMA OnController ==
    ASSUME TypeInv, pc \notin {"idle", "gpio"}
    PROVE  /\ card \in Cards /\ card \notin OnGpio
           /\ call # None /\ call \in CallsOf[card]
BY DEF TypeInv, ThreadTyped

\* The bytes that are read are there.
LEMMA ReadsFit ==
    ASSUME card \in Cards, card \notin OnGpio, NEW w \in CallsOf[card], IsRead(w)
    PROVE  w.reg + 1 \in DOMAIN Eeprom
<1>1. Fitting(card, w) /\ card # "Revo51" /\ card # "AureonSpace"
  BY CallsFit, GpioCardsAre DEF GpioCards
<1>2. ~IsWrite(w)
  BY DEF IsRead, IsWrite
<1>3. w.reg \in 0 .. Len(Eeprom) - 1
  BY <1>1, <1>2, Zenon DEF Fitting
<1>4. QED
  BY <1>3, EepromTyped

LEMMA EnterUndisturbed ==
    ASSUME card \notin OnGpio, Undisturbed, pc = "idle", NEW w, Enter(w), misread' = FALSE
    PROVE  Undisturbed'
<1>1. /\ pc' = "wait" /\ UNCHANGED <<transfer, addr, data>>
  BY DEF Enter
<1>2. QED
  BY <1>1 DEF Undisturbed, IsRead

LEMMA PollUndisturbed ==
    ASSUME TypeInv, Undisturbed, Poll, ~late'
    PROVE  Undisturbed'
<1>1. UNCHANGED <<misread, call, addr, data, transfer>>
  BY DEF Poll, init
<1>2. pc' = pc \/ (transfer = None /\ pc' = AfterWait[pc])
  BY DEF Poll
<1>3. pc \in DOMAIN AfterWait
  BY DEF Poll
<1>4. CASE pc' = pc
  BY <1>1, <1>4, Zenon DEF Undisturbed, IsRead
<1>5. CASE transfer = None /\ pc' = AfterWait[pc]
  BY <1>1, <1>3, <1>5 DEF Undisturbed, IsRead, AfterWait
<1>6. QED
  BY <1>2, <1>4, <1>5

LEMMA RegisterWritesUndisturbed ==
    ASSUME TypeInv, Undisturbed, WriteAddr \/ WriteData \/ WriteDevice
    PROVE  Undisturbed'
<1>1. CASE WriteAddr
  BY <1>1 DEF WriteAddr, Undisturbed, IsRead, init
<1>2. CASE WriteData
  BY <1>2 DEF WriteData, Undisturbed, IsRead, init
<1>3. CASE WriteDevice
  <2>1. pc = "dev" /\ transfer = None /\ transfer' = call /\ UNCHANGED <<misread, addr, data>>
    BY <1>3 DEF WriteDevice, Undisturbed, init
  <2>2. call # None
    BY <2>1, OnController
  <2>3. CASE IsRead(call)
    <3>1. call' = call /\ pc' = "wait_value"
      BY <1>3, <2>3 DEF WriteDevice
    <3>2. QED
      BY <2>1, <2>2, <2>3, <3>1 DEF Undisturbed, IsRead
  <2>4. CASE ~IsRead(call)
    <3>1. call' = None /\ pc' = "idle"
      BY <1>3, <2>4 DEF WriteDevice
    <3>2. QED
      BY <2>1, <2>2, <2>4, <3>1 DEF Undisturbed, IsRead
  <2>5. QED
    BY <2>3, <2>4
<1>4. QED
  BY <1>1, <1>2, <1>3

LEMMA ReadValueUndisturbed ==
    ASSUME TypeInv, Undisturbed, ReadValue
    PROVE  Undisturbed'
<1>1. pc = "value" /\ transfer = None /\ data = Eeprom[call.reg + 1] /\ ~misread
  BY DEF ReadValue, Undisturbed
<1>2. misread' = FALSE /\ pc' = "idle" /\ UNCHANGED <<transfer, addr, data>>
  BY <1>1 DEF ReadValue, i2c
<1>3. QED
  BY <1>1, <1>2 DEF Undisturbed

LEMMA TransferredUndisturbed ==
    ASSUME TypeInv, Undisturbed, Transferred
    PROVE  Undisturbed'
<1>1. /\ transfer # None /\ transfer' = None /\ UNCHANGED <<misread, call, pc, addr>>
  BY DEF Transferred, init
<1>2. transfer # None => pc \notin {"addr", "data", "wait_dev", "dev", "value"}
  BY DEF Undisturbed
<1>3. ASSUME pc = "wait_value"
      PROVE  data' = Eeprom[call.reg + 1]
  <2>1. transfer = call /\ IsRead(call) /\ addr = call.reg
    BY <1>1, <1>3 DEF Undisturbed
  <2>2. addr + 1 \in DOMAIN Eeprom
    BY <1>3, <2>1, OnController, ReadsFit
  <2>3. QED
    BY <2>1, <2>2 DEF Transferred
<1>4. QED
  BY <1>1, <1>2, <1>3 DEF Undisturbed, IsRead

LEMMA ControllerStep ==
    ASSUME TypeInv, ControllerInv, [Next]_vars
    PROVE  ControllerInv'
<1> SUFFICES ASSUME card' \notin OnGpio, ~late'
             PROVE  Undisturbed'
  BY DEF ControllerInv
<1>1. card' = card
  BY DEF Next, ThreadStep, Request, Enter, Wake, SetUpCall, SetUpReturns, WriteGpio, Poll,
     WriteAddr, WriteData, WriteDevice, ReadValue, Transferred, vars
<1>2. ~late
  BY DEF Next, ThreadStep, Request, Enter, Wake, SetUpCall, SetUpReturns, WriteGpio, Poll,
     WriteAddr, WriteData, WriteDevice, ReadValue, Transferred, vars, i2c, TypeInv,
     ControllerTyped
<1>3. Undisturbed
  BY <1>1, <1>2 DEF ControllerInv
<1>4. ASSUME NEW w, Request(w)
      PROVE  Undisturbed'
  <2>1. pc = "idle" /\ Enter(w) /\ misread' = FALSE
    BY <1>3, <1>4 DEF Request, init, Undisturbed
  <2>2. QED
    BY <1>1, <1>3, <2>1, EnterUndisturbed
<1>5. CASE SetUpCall
  <2>1. pc = "idle" /\ Enter(SetUp[card][at]) /\ misread' = FALSE
    BY <1>3, <1>5 DEF SetUpCall, Undisturbed
  <2>2. QED
    BY <1>1, <1>3, <2>1, EnterUndisturbed
<1>6. CASE SetUpReturns \/ Wake
  <2>1. misread' = FALSE /\ UNCHANGED <<call, pc, transfer, addr, data>>
    BY <1>3, <1>6 DEF SetUpReturns, Wake, Undisturbed, i2c
  <2>2. QED
    BY <1>3, <2>1, Zenon DEF Undisturbed, IsRead
<1>7. CASE WriteGpio
  BY <1>1, <1>7 DEF WriteGpio, TypeInv, ThreadTyped
<1>8. CASE UNCHANGED vars
  <2>1. UNCHANGED <<misread, call, pc, transfer, addr, data>>
    BY <1>8 DEF vars, init, i2c
  <2>2. QED
    BY <1>3, <2>1, Zenon DEF Undisturbed, IsRead
<1>9. QED
  BY <1>3, <1>4, <1>5, <1>6, <1>7, <1>8, PollUndisturbed, RegisterWritesUndisturbed,
     ReadValueUndisturbed, TransferredUndisturbed DEF Next, ThreadStep

\* The EEPROM is misread only if WaitForI2C gave up, whenever the controller
\* ends a transfer: what ReadI2C returns is the byte it has asked for, and a
\* write of the mixer that is on its way at a wake is over before the address
\* of the next transfer is set.
THEOREM CardIdentified == Spec => []CardIsIdentified
<1>1. Init => TypeInv /\ ControllerInv
  BY InitTyped DEF Init, ControllerInv, Undisturbed
<1>2. TypeInv /\ ControllerInv /\ [Next]_vars => (TypeInv /\ ControllerInv)'
  BY TypeStep, ControllerStep
<1>3. TypeInv /\ ControllerInv => CardIsIdentified
  BY DEF TypeInv, ThreadTyped, ControllerInv, Undisturbed, CardIsIdentified
<1>4. QED
  BY <1>1, <1>2, <1>3, PTL DEF Spec

-----------------------------------------------------------------------------
(* A Revolution's outputs are muted while its codecs are set up *)

\* The cards whose outputs card_init unmutes, and with which of its calls.
MuteCards == {"Revo51", "Revo71", "AP192"}

UnmuteAt(c) ==
    CASE c = "Revo71" -> Len(Tables[c]["Front"]) + Len(Tables[c]["Surround"]) + 3
      [] c = "Revo51" -> Len(Tables[c]["Front"]) + Len(Tables[c]["Rec"]) + 3
      [] c = "AP192"  -> Len(Tables[c]["AP192"]) + 3

\* card_init has made its first access to the GPIO registers, and not yet the
\* one that unmutes the outputs; it has made that.
Booted ==
    \/ at = 2 /\ pc = "idle"
    \/ at \in 3 .. UnmuteAt(card)
    \/ at = UnmuteAt(card) + 1 /\ pc = "gpio"
Unmuted ==
    \/ at = UnmuteAt(card) + 1 /\ pc = "idle"
    \/ at > UnmuteAt(card) + 1
    \/ at = 0

\* Between SaveGPIO and RestoreGPIO, the directions are those of the bus.
OnTheBus == pc = "gpio" /\ call.chip = "PT2258" /\ n > 1

MuteInv ==
    card \in MuteCards =>
       /\ pc = "gpio" /\ at # 0 => at > 1 /\ call = SetUp[card][at - 1]
       /\ pc = "gpio" /\ at = 0 => call \in WritesOf(card)
       /\ Booted =>
             /\ MutePin \in dir /\ MutePin \notin masked
             /\ card \in Revolutions => MutePin \notin pins
       /\ Unmuted =>
             /\ MutePin \in pins
             /\ MutePin \in IF OnTheBus THEN saved.dir ELSE dir

-----------------------------------------------------------------------------
(* Which frames leave the mute pin alone *)

Untouching(a) == a.op = "data" /\ MutePin \notin a.up /\ MutePin \notin a.down

Untouched(F) == \A i \in 1 .. Len(F) : Untouching(F[i])

LEMMA SetUntouching ==
    ASSUME NEW up, NEW down, 22 \notin up, 22 \notin down
    PROVE  Untouching(Set(up, down))
BY DEF Untouching, Set, Access, MutePin

LEMMA BitsUntouched ==
    ASSUME NEW c, Port(c), c.clk # 22, c.data # 22, NEW word \in Nat,
           NEW j \in 1 .. 3 * c.width
    PROVE  Untouching(Bits(c, word)[j])
<1>1. /\ Untouching(Set({}, {c.clk})) /\ Untouching(Set({c.clk}, {}))
      /\ Untouching(Set({}, {c.data})) /\ Untouching(Set({c.data}, {}))
  BY SetUntouching
<1>2. PICK k \in {16, 24} : k = c.width
  BY DEF Port
<1>3. j \in 1 .. 3 * k
  BY <1>2
<1>4. j % 3 = 0 \/ j % 3 = 1 \/ j % 3 = 2
  BY <1>3
<1>5. QED
  BY <1>1, <1>4, BitEntries, Zenon

LEMMA SendsUntouched ==
    ASSUME NEW c, Port(c), c.clk # 22, c.data # 22, NEW word \in Nat,
           NEW F, NEW a, NEW d, Sends(F, c, word, a, d),
           Len(a) \in 1 .. 3, Len(d) \in 1 .. 2, Untouched(a), Untouched(d)
    PROVE  Untouched(F)
<1>1. PICK la \in 1 .. 3, ld \in 1 .. 2 : la = Len(a) /\ ld = Len(d)
  OBVIOUS
<1>2. PICK k \in {16, 24} : k = c.width
  BY DEF Port
<1>3. PICK b \in Nat : b = 3 * k
  OBVIOUS
<1>4. /\ Len(F) = la + b + ld
      /\ \A i \in 1 .. la : F[i] = a[i]
      /\ \A j \in 1 .. b : F[la + j] = Bits(c, word)[j]
      /\ \A i \in 1 .. ld : F[la + b + i] = d[i]
  BY <1>1, <1>2, <1>3, Zenon DEF Sends
<1>5. \A j \in 1 .. b : Untouching(Bits(c, word)[j])
  BY <1>2, <1>3, BitsUntouched
<1>6. /\ \A i \in 1 .. la : Untouching(a[i])
      /\ \A i \in 1 .. ld : Untouching(d[i])
  BY <1>1 DEF Untouched
<1>7. ASSUME NEW i \in 1 .. la + b + ld
      PROVE  Untouching(F[i])
  <2>1. CASE i <= la
    <3>1. i \in 1 .. la
      BY <2>1
    <3>2. QED
      BY <1>4, <1>6, <3>1
  <2>2. CASE la < i /\ i <= la + b
    <3>1. PICK j \in 1 .. b : i = la + j
      BY <2>2
    <3>2. QED
      BY <1>4, <1>5, <3>1
  <2>3. CASE la + b < i
    <3>1. PICK j \in 1 .. ld : i = la + b + j
      BY <2>3
    <3>2. QED
      BY <1>4, <1>6, <3>1
  <2>4. QED
    BY <2>1, <2>2, <2>3
<1>8. QED
  BY <1>4, <1>7 DEF Untouched

\* The selects, clocks and data pins of these cards.
LEMMA PortsOfMuteCards ==
    ASSUME NEW c \in MuteCards, NEW chip \in ChipsWired[c]
    PROVE  /\ Wiring[c][chip].cs \in {4, 5, 6} /\ Wiring[c][chip].clk = 1
           /\ Wiring[c][chip].data = 3 /\ Wiring[c][chip].cif = FALSE
           /\ c \in GpioCards
<1>1. CASE c = "Revo71"
  <2>1. PICK p, q : p = Wiring["Revo71"]["Front"] /\ q = Wiring["Revo71"]["Surround"]
    OBVIOUS
  <2>2. /\ p.cs \in {4, 5, 6} /\ p.clk = 1 /\ p.data = 3 /\ p.cif = FALSE
        /\ q.cs \in {4, 5, 6} /\ q.clk = 1 /\ q.data = 3 /\ q.cif = FALSE
    BY <2>1, WiringIs DEF Akm, Wired
  <2>3. QED
    BY <1>1, <2>1, <2>2 DEF ChipsWired, GpioCards
<1>2. CASE c = "Revo51"
  <2>1. PICK p, q : p = Wiring["Revo51"]["Front"] /\ q = Wiring["Revo51"]["Rec"]
    OBVIOUS
  <2>2. /\ p.cs \in {4, 5, 6} /\ p.clk = 1 /\ p.data = 3 /\ p.cif = FALSE
        /\ q.cs \in {4, 5, 6} /\ q.clk = 1 /\ q.data = 3 /\ q.cif = FALSE
    BY <2>1, WiringIs DEF Akm, Wired
  <2>3. QED
    BY <1>2, <2>1, <2>2 DEF ChipsWired, GpioCards
<1>3. CASE c = "AP192"
  <2>1. PICK p, q : p = Wiring["AP192"]["AP192"] /\ q = Wiring["AP192"]["AK4114"]
    OBVIOUS
  <2>2. /\ p.cs \in {4, 5, 6} /\ p.clk = 1 /\ p.data = 3 /\ p.cif = FALSE
        /\ q.cs \in {4, 5, 6} /\ q.clk = 1 /\ q.data = 3 /\ q.cif = FALSE
    BY <2>1, WiringIs DEF Akm, Wired
  <2>3. QED
    BY <1>3, <2>1, <2>2 DEF ChipsWired, GpioCards
<1>4. QED
  BY <1>1, <1>2, <1>3 DEF MuteCards

LEMMA OneUntouched ==
    ASSUME NEW a, Untouching(a)
    PROVE  Untouched(<< a >>) /\ Len(<< a >>) \in 1 .. 3 /\ Len(<< a >>) \in 1 .. 2
BY DEF Untouched

\* A write to a serial codec.
LEMMA SerialUntouched ==
    ASSUME NEW c \in MuteCards, NEW w, w.chip \in ChipsWired[c], w.reg \in Nat, w.data \in Nat
    PROVE  Untouched(Frame(c, w))
<1>1. PICK p : p = Wiring[c][w.chip]
  OBVIOUS
<1>2. /\ p.cs \in {4, 5, 6} /\ p.clk = 1 /\ p.data = 3 /\ p.cif = FALSE
      /\ c \in GpioCards
  BY <1>1, PortsOfMuteCards
<1>3. SerialPort(p)
  BY <1>1, <1>2, Ports, Zenon
<1>4. Port(p) /\ p.clk # 22 /\ p.data # 22
  BY <1>2, <1>3 DEF SerialPort
<1>5. PICK word \in Nat : word = Word(p, w)
  BY <1>3, WordTyped
<1>6. PICK F : F = Frame(c, w)
  OBVIOUS
<1>7. SerialFrame(F, c, p, word)
  BY <1>1, <1>2, <1>5, <1>6, SerialFrameIs, Zenon
<1>8. CASE c = "Revo71"
  <2>1. F = AkmFrame(p, {}, word)
    BY <1>7, <1>8, Zenon DEF SerialFrame
  <2>2. PICK a, d : a = << Set({}, {p.cs}) >> /\ d = << Set({p.cs}, {}) >>
    OBVIOUS
  <2>3. {} \in SUBSET Pins
    OBVIOUS
  <2>4. Sends(F, p, word, a, d)
    BY <1>2, <1>4, <2>1, <2>2, <2>3, AkmFrameSends, Zenon
  <2>5. Untouching(Set({}, {p.cs})) /\ Untouching(Set({p.cs}, {}))
    BY <1>2, SetUntouching
  <2>6. /\ Untouched(a) /\ Untouched(d) /\ Len(a) \in 1 .. 3 /\ Len(d) \in 1 .. 2
    BY <2>2, <2>5, OneUntouched, Zenon
  <2>7. QED
    BY <1>4, <1>6, <2>4, <2>6, SendsUntouched
<1>9. CASE c = "Revo51"
  <2>1. F = AkmNewFrame(p, {4, 5}, {4, 5} \ {p.cs}, {4, 5}, {1}, word)
    BY <1>7, <1>9, Zenon DEF SerialFrame
  <2>2. PICK u, v, x, y : /\ u = {1} \cup ({4, 5} \ {p.cs}) /\ v = {4, 5} \ ({4, 5} \ {p.cs})
                          /\ x = {4, 5} /\ y = {4, 5} \ {4, 5}
    OBVIOUS
  <2>3. PICK a, d : a = << Set(u, v) >> /\ d = << Set(x, y) >>
    OBVIOUS
  <2>4. {4, 5} \in SUBSET Pins /\ {4, 5} \ {p.cs} \in SUBSET Pins /\ {1} \in SUBSET Pins
    BY DEF Pins
  <2>5. Sends(F, p, word, a, d)
    BY <1>4, <2>1, <2>2, <2>3, <2>4, AkmNewFrameSends, Zenon
  <2>6. 22 \notin u /\ 22 \notin v /\ 22 \notin x /\ 22 \notin y
    BY <2>2
  <2>7. Untouching(Set(u, v)) /\ Untouching(Set(x, y))
    BY <2>6, SetUntouching
  <2>8. /\ Untouched(a) /\ Untouched(d) /\ Len(a) \in 1 .. 3 /\ Len(d) \in 1 .. 2
    BY <2>3, <2>7, OneUntouched, Zenon
  <2>9. QED
    BY <1>4, <1>6, <2>5, <2>8, SendsUntouched
<1>10. CASE c = "AP192"
  <2>1. F = AP192Frame(p, word)
    BY <1>7, <1>10, Zenon DEF SerialFrame
  <2>2. PICK x, y, z, u : /\ x = Set({}, {3}) /\ y = Set({1}, {})
                          /\ z = Set({4, 5} \ {p.cs}, {p.cs}) /\ u = Set({4, 5}, {})
    OBVIOUS
  <2>3. PICK a, d : a = << x, y, z >> /\ d = << u >>
    OBVIOUS
  <2>4. Sends(F, p, word, a, d)
    BY <1>4, <2>1, <2>2, <2>3, AP192FrameSends, Zenon
  <2>5. 22 \notin {3} /\ 22 \notin {1} /\ 22 \notin {4, 5} \ {p.cs} /\ 22 \notin {p.cs}
        /\ 22 \notin {4, 5} /\ 22 \notin {}
    BY <1>2
  <2>6. Untouching(x) /\ Untouching(y) /\ Untouching(z) /\ Untouching(u)
    BY <2>2, <2>5, SetUntouching, Zenon
  <2>7. Untouched(d) /\ Len(d) \in 1 .. 2
    BY <2>3, <2>6, OneUntouched, Zenon
  <2>8. Untouched(a) /\ Len(a) \in 1 .. 3
    BY <2>3, <2>6 DEF Untouched
  <2>9. QED
    BY <1>4, <1>6, <2>4, <2>7, <2>8, SendsUntouched
<1>11. QED
  BY <1>8, <1>9, <1>10 DEF MuteCards

\* The mode of the ADC, and the S/PDIF output mux of the Audiophile 192.
LEMMA StepsUntouched ==
    ASSUME NEW c, NEW w, w.chip \in {"adc", "mux"}
    PROVE  Untouched(Frame(c, w))
<1>1. CASE w.chip = "adc"
  <2>1. Frame(c, w) = AdcMode
    BY <1>1 DEF Frame, SetUpSteps, SetUpFrame
  <2>2. /\ Untouching(Set({}, {8})) /\ Untouching(Set({}, {9})) /\ Untouching(Set({}, {10}))
        /\ Untouching(Set({}, {11})) /\ Untouching(Set({11}, {}))
    BY SetUntouching
  <2>3. QED
    BY <2>1, <2>2 DEF AdcMode, Untouched
<1>2. CASE w.chip = "mux"
  <2>1. Frame(c, w) = << Set({}, {5}) >>
    BY <1>2 DEF Frame, SetUpSteps, SetUpFrame, SelectMux
  <2>2. Untouching(Set({}, {5}))
    BY SetUntouching
  <2>3. QED
    BY <2>1, <2>2, OneUntouched
<1>3. QED
  BY <1>1, <1>2

\* Between SaveGPIO and RestoreGPIO all pins but the bus's are masked.
Masking(a) == a.op = "lines" /\ MutePin \in a.masked

LEMMA LinesMask ==
    ASSUME NEW high
    PROVE  Masking(I2CLines(high)) /\ Masking(I2CDirection(high))
<1>1. MutePin \in AllBut({Sda, Scl})
  BY DEF MutePin, AllBut, Sda, Scl
<1>2. QED
  BY <1>1 DEF Masking, I2CLines, I2CDirection, Lines, Access

LEMMA BytesMask ==
    ASSUME NEW byte \in Bytes, NEW k \in 1 .. 29
    PROVE  Masking(I2CByte(byte)[k])
<1>1. CASE k <= 24
  <2>1. k \in 1 .. 24
    BY <1>1
  <2>2. I2CByte(byte)[k] = I2CBits(byte)[k]
    BY <2>1, I2CByteIs
  <2>3. PICK b, m : b = BitSet(byte, 7 - ((k - 1) \div 3)) /\ m = ((k - 1) % 3) + 1
    OBVIOUS
  <2>4. m \in 1 .. 3
    BY <2>1, <2>3
  <2>5. I2CBits(byte)[k] = I2CBit(b)[m]
    BY <2>1, <2>3, Zenon DEF I2CBits
  <2>6. Masking(I2CBit(b)[m])
    <3>1. PICK s : s = IF b THEN {Sda} ELSE {}
      OBVIOUS
    <3>2. PICK x, y : x = I2CLines(s) /\ y = I2CLines(s \cup {Scl})
      OBVIOUS
    <3>3. I2CBit(b) = << x, y, x >>
      BY <3>1, <3>2, Zenon DEF I2CBit
    <3>4. Masking(x) /\ Masking(y)
      BY <3>2, LinesMask, Zenon
    <3>5. QED
      BY <2>4, <3>3, <3>4
  <2>7. QED
    BY <2>2, <2>5, <2>6, Zenon
<1>2. CASE ~(k <= 24)
  <2>1. PICK m \in 1 .. 5 : k = 24 + m
    BY <1>2
  <2>2. I2CByte(byte)[k] = I2CAck[m]
    BY <2>1, I2CByteIs, Zenon
  <2>3. Masking(I2CAck[m])
    <3>1. PICK x, y, z, u : /\ x = I2CLines({Sda}) /\ y = I2CLines({Sda, Scl})
                            /\ z = I2CDirection({Scl}) /\ u = I2CDirection({Sda, Scl})
      OBVIOUS
    <3>2. I2CAck = << x, y, z, u, x >>
      BY <3>1, Zenon DEF I2CAck
    <3>3. Masking(x) /\ Masking(y) /\ Masking(z) /\ Masking(u)
      BY <3>1, LinesMask, Zenon
    <3>4. QED
      BY <3>2, <3>3
  <2>4. QED
    BY <2>2, <2>3
<1>3. QED
  BY <1>1, <1>2

LEMMA StartStopMask ==
    /\ I2CStart[1] = SaveGPIO /\ \A k \in 2 .. 5 : Masking(I2CStart[k])
    /\ I2CStop[4] = RestoreGPIO /\ \A k \in 1 .. 3 : Masking(I2CStop[k])
<1>1. PICK x, y, z, u : /\ x = I2CDirection({Sda, Scl}) /\ y = I2CLines({Sda, Scl})
                        /\ z = I2CLines({Scl}) /\ u = I2CLines({})
  OBVIOUS
<1>2. Masking(x) /\ Masking(y) /\ Masking(z) /\ Masking(u)
  BY <1>1, LinesMask, Zenon
<1>4. PICK s, r : s = SaveGPIO /\ r = RestoreGPIO
  OBVIOUS
<1>5. I2CStart = << s, x, y, z, u >> /\ I2CStop = << u, z, y, r >>
  BY <1>1, <1>4, Zenon DEF I2CStart, I2CStop
<1>6. /\ I2CStart[1] = s /\ I2CStart[2] = x /\ I2CStart[3] = y /\ I2CStart[4] = z
      /\ I2CStart[5] = u /\ I2CStop[1] = u /\ I2CStop[2] = z /\ I2CStop[3] = y
      /\ I2CStop[4] = r
  BY <1>5
<1>7. QED
  BY <1>2, <1>4, <1>6

\* What a message does between its first access and its last.
LEMMA MessageMasks ==
    ASSUME NEW message \in Nat, message < 256 * 256, NEW F, F = I2CFrame(message)
    PROVE  /\ Len(F) \in 67 .. 96
           /\ F[1] = SaveGPIO /\ F[Len(F)] = RestoreGPIO
           /\ \A i \in 2 .. Len(F) - 1 : Masking(F[i])
<1>1. MessageFrame(F, message)
  BY I2CFrameIs
<1>2. PICK lb \in 1 .. 2 : lb = LastByte(message)
  BY DEF LastByte
<1>3. PICK b \in Nat : b = 29 * (lb + 1) /\ b <= 87 /\ b >= 58
  OBVIOUS
<1>4. /\ Len(F) = 9 + b
      /\ \A k \in 1 .. 5 : F[k] = I2CStart[k]
      /\ \A j \in 0 .. lb : \A k \in 1 .. 29 :
            F[5 + 29 * j + k] = I2CByte(MessageByte(message, j))[k]
      /\ \A k \in 1 .. 4 : F[5 + b + k] = I2CStop[k]
  <2>1. /\ Len(F) = 9 + 29 * (lb + 1)
        /\ Piece(F, I2CStart, 0, 5)
        /\ \A j \in 0 .. lb : Piece(F, I2CByte(MessageByte(message, j)), 5 + 29 * j, 29)
        /\ Piece(F, I2CStop, 5 + 29 * (lb + 1), 4)
    BY <1>1, <1>2, Zenon DEF MessageFrame
  <2>2. \A k \in 1 .. 5 : F[k] = I2CStart[k]
    BY <2>1 DEF Piece
  <2>3. QED
    BY <1>3, <2>1, <2>2, Zenon DEF Piece
<1>5. \A j \in 0 .. lb : MessageByte(message, j) \in Bytes
  <2>1. \A j \in 0 .. 2 : MessageByte(message, j) \in Bytes
    BY MessageBytes
  <2>2. \A j \in 0 .. lb : j \in 0 .. 2
    OBVIOUS
  <2>3. QED
    BY <2>1, <2>2, Zenon
<1>6. F[1] = SaveGPIO /\ F[9 + b] = RestoreGPIO
  <2>1. F[1] = I2CStart[1]
    BY <1>4
  <2>2. F[5 + b + 4] = I2CStop[4] /\ 5 + b + 4 = 9 + b
    BY <1>3, <1>4
  <2>3. QED
    BY <2>1, <2>2, StartStopMask
<1>7. ASSUME NEW i \in 2 .. 8 + b
      PROVE  Masking(F[i])
  <2>1. CASE i <= 5
    <3>1. i \in 2 .. 5 /\ i \in 1 .. 5
      BY <2>1
    <3>2. F[i] = I2CStart[i]
      BY <1>4, <3>1
    <3>3. QED
      BY <3>1, <3>2, StartStopMask
  <2>2. CASE 5 < i /\ i <= 5 + b
    <3>1. PICK j, k : j \in 0 .. lb /\ k \in 1 .. 29 /\ i = 5 + 29 * j + k
      <4>1. CASE i <= 34
        <5>1. 0 \in 0 .. lb /\ i - 5 \in 1 .. 29 /\ i = 5 + 29 * 0 + (i - 5)
          BY <2>2, <4>1
        <5>2. QED
          BY <5>1
      <4>2. CASE 34 < i /\ i <= 63
        <5>1. 1 \in 0 .. lb /\ i - 34 \in 1 .. 29 /\ i = 5 + 29 * 1 + (i - 34)
          BY <2>2, <4>2
        <5>2. QED
          BY <5>1
      <4>3. CASE 63 < i
        <5>1. 2 \in 0 .. lb /\ i - 63 \in 1 .. 29 /\ i = 5 + 29 * 2 + (i - 63)
          BY <1>3, <2>2, <4>3
        <5>2. QED
          BY <5>1
      <4>4. QED
        BY <4>1, <4>2, <4>3
    <3>2. F[i] = I2CByte(MessageByte(message, j))[k]
      BY <1>4, <3>1, Zenon
    <3>3. QED
      BY <1>5, <3>1, <3>2, BytesMask
  <2>3. CASE 5 + b < i
    <3>1. PICK k \in 1 .. 3 : i = 5 + b + k
      BY <2>3
    <3>2. k \in 1 .. 4
      OBVIOUS
    <3>3. F[i] = I2CStop[k]
      BY <1>4, <3>1, <3>2, Zenon
    <3>4. QED
      BY <3>3, StartStopMask, Zenon
  <2>4. QED
    BY <2>1, <2>2, <2>3
<1>8. 9 + b \in 67 .. 96 /\ (9 + b) - 1 = 8 + b
  BY <1>3
<1>9. QED
  BY <1>4, <1>6, <1>7, <1>8, Zenon

-----------------------------------------------------------------------------
(* In which order card_init makes its calls *)

ChipsIn(F, lo, hi, chips) == \A i \in lo .. hi : F[i].chip \in chips

\* F is as long as X and b.
Grown(F, X, b) == Len(F) = Len(X) + Len(b)

JoinedAs(F, X, b, lx, lb) ==
    /\ Len(F) = lx + lb
    /\ \A i \in 1 .. lx : F[i] = X[i]
    /\ \A i \in 1 .. lb : F[lx + i] = b[i]

LEMMA JoinedIs ==
    ASSUME NEW S, NEW X \in Seq(S), NEW b \in Seq(S), NEW F, F = X \o b
    PROVE  F \in Seq(S) /\ JoinedAs(F, X, b, Len(X), Len(b))
BY Joined DEF JoinedAs

\* What precedes the unmuting.
Opening(X, S, before) ==
    /\ X \in Seq(S) /\ Len(X) \in Nat \ {0}
    /\ X[1].chip = "boot" /\ ChipsIn(X, 2, Len(X), before)

\* All, with a certain step at u.
Arranged(F, S, u, name, before, after) ==
    /\ F \in Seq(S) /\ Len(F) \in Nat /\ u \in 2 .. Len(F)
    /\ F[1].chip = "boot" /\ ChipsIn(F, 2, u - 1, before)
    /\ F[u].chip = name /\ ChipsIn(F, u + 1, Len(F), after)

LEMMA OpeningGrows ==
    ASSUME NEW S, NEW before, NEW X, Opening(X, S, before), NEW b \in Seq(S),
           ChipsIn(b, 1, Len(b), before), NEW F, F = X \o b
    PROVE  Opening(F, S, before) /\ Grown(F, X, b)
<1>1. PICK lx \in Nat \ {0}, lb \in Nat : lx = Len(X) /\ lb = Len(b)
  BY LenProperties DEF Opening
<1>2. /\ F \in Seq(S) /\ Len(F) = lx + lb
      /\ \A i \in 1 .. lx : F[i] = X[i]
      /\ \A i \in 1 .. lb : F[lx + i] = b[i]
  <2>1. X \in Seq(S)
    BY DEF Opening
  <2>2. QED
    BY <1>1, <2>1, Joined
<1>3. F[1].chip = "boot"
  BY <1>1, <1>2 DEF Opening
<1>4. ChipsIn(F, 2, lx + lb, before)
  <2>1. SUFFICES ASSUME NEW i \in 2 .. lx + lb
                 PROVE  F[i].chip \in before
    BY DEF ChipsIn
  <2>2. CASE i <= lx
    <3>1. F[i] = X[i] /\ i \in 2 .. lx
      BY <1>2, <2>2
    <3>2. QED
      BY <1>1, <3>1 DEF Opening, ChipsIn
  <2>3. CASE ~(i <= lx)
    <3>1. PICK j \in 1 .. lb : i = lx + j
      BY <2>3
    <3>2. QED
      BY <1>1, <1>2, <3>1 DEF ChipsIn
  <2>4. QED
    BY <2>2, <2>3
<1>5. lx + lb \in Nat \ {0}
  OBVIOUS
<1>6. QED
  BY <1>1, <1>2, <1>3, <1>4, <1>5 DEF Opening, Grown

LEMMA StepFollows ==
    ASSUME NEW S, NEW name, NEW before, NEW after, NEW X, Opening(X, S, before), NEW b \in Seq(S),
           Len(b) = 1, b[1].chip = name, NEW F, F = X \o b
    PROVE  Arranged(F, S, Len(X) + 1, name, before, after)
<1>1. PICK lx \in Nat \ {0} : lx = Len(X)
  BY DEF Opening
<1>2. /\ F \in Seq(S) /\ Len(F) = lx + 1
      /\ \A i \in 1 .. lx : F[i] = X[i]
      /\ \A i \in 1 .. 1 : F[lx + i] = b[i]
  <2>1. X \in Seq(S)
    BY DEF Opening
  <2>2. F \in Seq(S) /\ JoinedAs(F, X, b, lx, 1)
    BY <1>1, <2>1, JoinedIs, Zenon
  <2>3. QED
    BY <2>2 DEF JoinedAs
<1>3. F[1].chip = "boot" /\ F[lx + 1].chip = name
  BY <1>1, <1>2 DEF Opening
<1>4. ChipsIn(F, 2, (lx + 1) - 1, before)
  BY <1>1, <1>2 DEF Opening, ChipsIn
<1>5. ChipsIn(F, (lx + 1) + 1, lx + 1, after)
  BY DEF ChipsIn
<1>6. lx + 1 \in 2 .. lx + 1 /\ lx + 1 \in Nat
  OBVIOUS
<1>7. QED
  BY <1>1, <1>2, <1>3, <1>4, <1>5, <1>6, Zenon DEF Arranged

LEMMA ClosingGrows ==
    ASSUME NEW S, NEW name, NEW before, NEW after, NEW X, NEW u, Arranged(X, S, u, name, before, after),
           NEW b \in Seq(S), ChipsIn(b, 1, Len(b), after), NEW F, F = X \o b
    PROVE  Arranged(F, S, u, name, before, after) /\ Len(F) = Len(X) + Len(b)
<1>1. PICK lx \in Nat, lb \in Nat : lx = Len(X) /\ lb = Len(b)
  BY LenProperties DEF Arranged
<1>2. /\ F \in Seq(S) /\ Len(F) = lx + lb
      /\ \A i \in 1 .. lx : F[i] = X[i]
      /\ \A i \in 1 .. lb : F[lx + i] = b[i]
  <2>1. X \in Seq(S)
    BY DEF Arranged
  <2>2. F \in Seq(S) /\ JoinedAs(F, X, b, lx, lb)
    BY <1>1, <2>1, JoinedIs, Zenon
  <2>3. QED
    BY <2>2 DEF JoinedAs
<1>3. u \in 2 .. lx
  BY <1>1 DEF Arranged
<1>4. F[1].chip = "boot" /\ F[u].chip = name
  <2>1. 1 \in 1 .. lx /\ u \in 1 .. lx
    BY <1>3
  <2>2. F[1] = X[1] /\ F[u] = X[u]
    BY <1>2, <2>1, Zenon
  <2>3. QED
    BY <2>2 DEF Arranged
<1>5. ChipsIn(F, 2, u - 1, before)
  BY <1>2, <1>3 DEF Arranged, ChipsIn
<1>6. ChipsIn(F, u + 1, lx + lb, after)
  <2>1. SUFFICES ASSUME NEW i \in u + 1 .. lx + lb
                 PROVE  F[i].chip \in after
    BY DEF ChipsIn
  <2>2. CASE i <= lx
    <3>1. F[i] = X[i] /\ i \in u + 1 .. lx
      BY <1>2, <1>3, <2>2
    <3>2. QED
      BY <1>1, <3>1 DEF Arranged, ChipsIn
  <2>3. CASE ~(i <= lx)
    <3>1. PICK j \in 1 .. lb : i = lx + j
      BY <1>3, <2>3
    <3>2. QED
      BY <1>1, <1>2, <3>1 DEF ChipsIn
  <2>4. QED
    BY <1>3, <2>2, <2>3
<1>7. u \in 2 .. lx + lb /\ lx + lb \in Nat
  BY <1>3
<1>8. QED
  BY <1>1, <1>2, <1>4, <1>5, <1>6, <1>7, Zenon DEF Arranged

Before(c) == ChipsWired[c] \cup {"mute", "adc"}

After(c) == CASE c = "Revo51" -> {"PT2258"}
              [] c = "Revo71" -> {}
              [] c = "AP192"  -> ChipsWired[c] \cup {"mux"}

LEMMA StepsAre ==
    ASSUME NEW c \in OnGpio, NEW name \in StepsOf[c], NEW chips
    PROVE  /\ Step(name) \in Seq(FitCalls(c)) /\ Len(Step(name)) = 1
           /\ Step(name)[1].chip = name
           /\ name \in chips => ChipsIn(Step(name), 1, Len(Step(name)), chips)
<1>1. PICK s : s = Step(name)
  OBVIOUS
<1>2. s \in Seq(FitCalls(c)) /\ Len(s) = 1 /\ s[1] = Call(name, 0, 0)
  BY <1>1, StepFits
<1>3. s[1].chip = name
  BY <1>2 DEF Call
<1>4. name \in chips => ChipsIn(s, 1, 1, chips)
  BY <1>3 DEF ChipsIn
<1>5. QED
  BY <1>1, <1>2, <1>3, <1>4, Zenon

LEMMA TablesAre ==
    ASSUME NEW c \in Cards, NEW chip \in ChipsOf[c], NEW chips, chip \in chips
    PROVE  /\ Codec(c, chip) \in Seq(FitCalls(c))
           /\ Len(Codec(c, chip)) = Len(Tables[c][chip]) /\ Len(Tables[c][chip]) \in Nat
           /\ ChipsIn(Codec(c, chip), 1, Len(Codec(c, chip)), chips)
<1>1. /\ Codec(c, chip) \in Seq(FitCalls(c))
      /\ Len(Codec(c, chip)) = Len(Tables[c][chip]) /\ Len(Tables[c][chip]) \in Nat
      /\ \A i \in 1 .. Len(Tables[c][chip]) : Codec(c, chip)[i].chip = chip
  BY CodecFits, LenProperties
<1>2. QED
  BY <1>1, Zenon DEF ChipsIn

LEMMA Opened ==
    ASSUME NEW c \in OnGpio, NEW before
    PROVE  Opening(Step("boot"), FitCalls(c), before) /\ Len(Step("boot")) = 1
<1>1. "boot" \in StepsOf[c]
  BY GpioCardsAre DEF GpioCards, StepsOf
<1>2. /\ Step("boot") \in Seq(FitCalls(c)) /\ Len(Step("boot")) = 1
      /\ Step("boot")[1].chip = "boot"
  BY <1>1, StepsAre
<1>3. QED
  BY <1>2 DEF Opening, ChipsIn

LEMMA Revo71Arranged ==
    ASSUME NEW c \in Cards, c = "Revo71"
    PROVE  /\ Arranged(Revo71SetUp(c), FitCalls(c), UnmuteAt(c), "unmute", Before(c), After(c))
           /\ UnmuteAt(c) \in Nat /\ UnmuteAt(c) >= 3
<1> DEFINE S == FitCalls(c)
           m == Step("mute")
           f == Codec(c, "Front")
           r == Codec(c, "Surround")
           u == Step("unmute")
<1>1. c \in OnGpio
  BY GpioCardsAre DEF GpioCards
<1>2. m \in Seq(S) /\ Len(m) = 1 /\ ChipsIn(m, 1, Len(m), Before(c))
  BY <1>1, StepsAre DEF StepsOf, Before
<1>3. u \in Seq(S) /\ Len(u) = 1 /\ u[1].chip = "unmute"
  BY <1>1, StepsAre DEF StepsOf
<1>4. "Front" \in ChipsOf[c] /\ "Front" \in Before(c)
  BY DEF ChipsOf, Before, ChipsWired
<1>5. "Surround" \in ChipsOf[c] /\ "Surround" \in Before(c)
  BY DEF ChipsOf, Before, ChipsWired
<1>6. /\ f \in Seq(S) /\ ChipsIn(f, 1, Len(f), Before(c))
      /\ Len(f) = Len(Tables[c]["Front"]) /\ Len(Tables[c]["Front"]) \in Nat
  BY <1>4, TablesAre, Zenon
<1>7. /\ r \in Seq(S) /\ ChipsIn(r, 1, Len(r), Before(c))
      /\ Len(r) = Len(Tables[c]["Surround"]) /\ Len(Tables[c]["Surround"]) \in Nat
  BY <1>5, TablesAre, Zenon
<1>8. PICK X1 : X1 = Step("boot")
  OBVIOUS
<1>9. Opening(X1, S, Before(c)) /\ Len(X1) = 1
  BY <1>1, <1>8, Opened
<1> HIDE DEF S, m, f, r, u
<1>10. PICK X2 : X2 = X1 \o m
  OBVIOUS
<1>11. Opening(X2, S, Before(c)) /\ Grown(X2, X1, m)
  BY <1>2, <1>9, <1>10, OpeningGrows, Zenon
<1>12. PICK X3 : X3 = X2 \o f
  OBVIOUS
<1>13. Opening(X3, S, Before(c)) /\ Grown(X3, X2, f)
  BY <1>6, <1>11, <1>12, OpeningGrows, Zenon
<1>14. PICK X4 : X4 = X3 \o r
  OBVIOUS
<1>15. Opening(X4, S, Before(c)) /\ Grown(X4, X3, r)
  BY <1>7, <1>13, <1>14, OpeningGrows, Zenon
<1>16. PICK X5 : X5 = X4 \o u
  OBVIOUS
<1>17. Arranged(X5, S, Len(X4) + 1, "unmute", Before(c), After(c))
  BY <1>3, <1>15, <1>16, StepFollows, Zenon
<1>18. X5 = Revo71SetUp(c)
  BY <1>8, <1>10, <1>12, <1>14, <1>16, Zenon DEF Revo71SetUp, m, f, r, u
<1>19. UnmuteAt(c) = Len(Tables[c]["Front"]) + Len(Tables[c]["Surround"]) + 3
  BY DEF UnmuteAt
<1>20. UnmuteAt(c) = Len(X4) + 1 /\ UnmuteAt(c) \in Nat /\ UnmuteAt(c) >= 3
  <2>1. PICK j, k \in Nat : j = Len(f) /\ k = Len(r)
    BY <1>6, <1>7
  <2>2. Len(X2) = 2 /\ Len(X3) = Len(X2) + j /\ Len(X4) = Len(X3) + k
    BY <1>2, <1>9, <1>11, <1>13, <1>15, <2>1 DEF Grown
  <2>3. UnmuteAt(c) = j + k + 3
    BY <1>6, <1>7, <1>19, <2>1
  <2>4. QED
    BY <2>2, <2>3
<1>21. QED
  BY <1>17, <1>18, <1>20, Zenon DEF S

LEMMA Revo51Arranged ==
    ASSUME NEW c \in Cards, c = "Revo51"
    PROVE  /\ Arranged(Revo51SetUp(c), FitCalls(c), UnmuteAt(c), "unmute", Before(c), After(c))
           /\ UnmuteAt(c) \in Nat /\ UnmuteAt(c) >= 3
<1> DEFINE S == FitCalls(c)
           m == Step("mute")
           f == Codec(c, "Front")
           r == Codec(c, "Rec")
           u == Step("unmute")
           v == Codec(c, "PT2258")
<1>1. c \in OnGpio
  BY GpioCardsAre DEF GpioCards
<1>2. m \in Seq(S) /\ Len(m) = 1 /\ ChipsIn(m, 1, Len(m), Before(c))
  BY <1>1, StepsAre DEF StepsOf, Before
<1>3. u \in Seq(S) /\ Len(u) = 1 /\ u[1].chip = "unmute"
  BY <1>1, StepsAre DEF StepsOf
<1>4. "Front" \in ChipsOf[c] /\ "Front" \in Before(c)
  BY DEF ChipsOf, Before, ChipsWired
<1>5. "Rec" \in ChipsOf[c] /\ "Rec" \in Before(c)
  BY DEF ChipsOf, Before, ChipsWired
<1>5a. "PT2258" \in ChipsOf[c] /\ "PT2258" \in After(c)
  BY DEF ChipsOf, After
<1>6. /\ f \in Seq(S) /\ ChipsIn(f, 1, Len(f), Before(c))
      /\ Len(f) = Len(Tables[c]["Front"]) /\ Len(Tables[c]["Front"]) \in Nat
  BY <1>4, TablesAre, Zenon
<1>7. /\ r \in Seq(S) /\ ChipsIn(r, 1, Len(r), Before(c))
      /\ Len(r) = Len(Tables[c]["Rec"]) /\ Len(Tables[c]["Rec"]) \in Nat
  BY <1>5, TablesAre, Zenon
<1>7a. v \in Seq(S) /\ ChipsIn(v, 1, Len(v), After(c))
  BY <1>5a, TablesAre, Zenon
<1>8. PICK X1 : X1 = Step("boot")
  OBVIOUS
<1>9. Opening(X1, S, Before(c)) /\ Len(X1) = 1
  BY <1>1, <1>8, Opened
<1> HIDE DEF S, m, f, r, u, v
<1>10. PICK X2 : X2 = X1 \o m
  OBVIOUS
<1>11. Opening(X2, S, Before(c)) /\ Grown(X2, X1, m)
  BY <1>2, <1>9, <1>10, OpeningGrows, Zenon
<1>12. PICK X3 : X3 = X2 \o f
  OBVIOUS
<1>13. Opening(X3, S, Before(c)) /\ Grown(X3, X2, f)
  BY <1>6, <1>11, <1>12, OpeningGrows, Zenon
<1>14. PICK X4 : X4 = X3 \o r
  OBVIOUS
<1>15. Opening(X4, S, Before(c)) /\ Grown(X4, X3, r)
  BY <1>7, <1>13, <1>14, OpeningGrows, Zenon
<1>16. PICK X5 : X5 = X4 \o u
  OBVIOUS
<1>17. Arranged(X5, S, Len(X4) + 1, "unmute", Before(c), After(c))
  BY <1>3, <1>15, <1>16, StepFollows, Zenon
<1>17a. PICK X6 : X6 = X5 \o v
  OBVIOUS
<1>17b. Arranged(X6, S, Len(X4) + 1, "unmute", Before(c), After(c))
  BY <1>7a, <1>17, <1>17a, ClosingGrows, Zenon
<1>18. X6 = Revo51SetUp(c)
  BY <1>8, <1>10, <1>12, <1>14, <1>16, <1>17a, Zenon DEF Revo51SetUp, m, f, r, u, v
<1>19. UnmuteAt(c) = Len(Tables[c]["Front"]) + Len(Tables[c]["Rec"]) + 3
  BY DEF UnmuteAt
<1>20. UnmuteAt(c) = Len(X4) + 1 /\ UnmuteAt(c) \in Nat /\ UnmuteAt(c) >= 3
  <2>1. PICK j, k \in Nat : j = Len(f) /\ k = Len(r)
    BY <1>6, <1>7
  <2>2. Len(X2) = 2 /\ Len(X3) = Len(X2) + j /\ Len(X4) = Len(X3) + k
    BY <1>2, <1>9, <1>11, <1>13, <1>15, <2>1 DEF Grown
  <2>3. UnmuteAt(c) = j + k + 3
    BY <1>6, <1>7, <1>19, <2>1
  <2>4. QED
    BY <2>2, <2>3
<1>21. QED
  BY <1>17b, <1>18, <1>20, Zenon DEF S

LEMMA AP192Arranged ==
    ASSUME NEW c \in Cards, c = "AP192"
    PROVE  /\ Arranged(AP192SetUp(c), FitCalls(c), UnmuteAt(c), "unmute", Before(c), After(c))
           /\ UnmuteAt(c) \in Nat /\ UnmuteAt(c) >= 3
<1> DEFINE S == FitCalls(c)
           f == Codec(c, "AP192")
           r == Step("adc")
           u == Step("unmute")
           s == << Call("AP192", 1, 1) >>
           x == Step("mux")
<1>1. c \in OnGpio
  BY GpioCardsAre DEF GpioCards
<1>2. r \in Seq(S) /\ Len(r) = 1 /\ ChipsIn(r, 1, Len(r), Before(c))
  BY <1>1, StepsAre DEF StepsOf, Before
<1>3. u \in Seq(S) /\ Len(u) = 1 /\ u[1].chip = "unmute"
  BY <1>1, StepsAre DEF StepsOf
<1>4. "AP192" \in ChipsOf[c] /\ "AP192" \in Before(c)
  BY DEF ChipsOf, Before, ChipsWired
<1>5. "mux" \in After(c) /\ "AP192" \in After(c)
  BY DEF After, ChipsWired
<1>6. /\ f \in Seq(S) /\ ChipsIn(f, 1, Len(f), Before(c))
      /\ Len(f) = Len(Tables[c]["AP192"]) /\ Len(Tables[c]["AP192"]) \in Nat
  BY <1>4, TablesAre, Zenon
<1>7. x \in Seq(S) /\ ChipsIn(x, 1, Len(x), After(c))
  BY <1>1, <1>5, StepsAre DEF StepsOf
<1>7a. s \in Seq(S) /\ ChipsIn(s, 1, Len(s), After(c))
  <2>1. s \in Seq(S)
    BY SoftMuteFits
  <2>2. Len(s) = 1 /\ s[1].chip = "AP192"
    BY DEF Call
  <2>3. QED
    BY <1>5, <2>1, <2>2 DEF ChipsIn
<1>8. PICK X1 : X1 = Step("boot")
  OBVIOUS
<1>9. Opening(X1, S, Before(c)) /\ Len(X1) = 1
  BY <1>1, <1>8, Opened
<1> HIDE DEF S, f, r, u, s, x
<1>10. PICK X2 : X2 = X1 \o f
  OBVIOUS
<1>11. Opening(X2, S, Before(c)) /\ Grown(X2, X1, f)
  BY <1>6, <1>9, <1>10, OpeningGrows, Zenon
<1>12. PICK X3 : X3 = X2 \o r
  OBVIOUS
<1>13. Opening(X3, S, Before(c)) /\ Grown(X3, X2, r)
  BY <1>2, <1>11, <1>12, OpeningGrows, Zenon
<1>14. PICK X4 : X4 = X3 \o u
  OBVIOUS
<1>15. Arranged(X4, S, Len(X3) + 1, "unmute", Before(c), After(c))
  BY <1>3, <1>13, <1>14, StepFollows, Zenon
<1>16. PICK X5, X6, X7 : X5 = X4 \o s /\ X6 = X5 \o x /\ X7 = X6 \o x
  OBVIOUS
<1>17. Arranged(X5, S, Len(X3) + 1, "unmute", Before(c), After(c))
  BY <1>7a, <1>15, <1>16, ClosingGrows, Zenon
<1>17a. Arranged(X6, S, Len(X3) + 1, "unmute", Before(c), After(c))
  BY <1>7, <1>17, <1>16, ClosingGrows, Zenon
<1>17b. Arranged(X7, S, Len(X3) + 1, "unmute", Before(c), After(c))
  BY <1>7, <1>17a, <1>16, ClosingGrows, Zenon
<1>18. X7 = AP192SetUp(c)
  BY <1>8, <1>10, <1>12, <1>14, <1>16, Zenon DEF AP192SetUp, f, r, u, s, x
<1>19. UnmuteAt(c) = Len(Tables[c]["AP192"]) + 3
  BY DEF UnmuteAt
<1>20. UnmuteAt(c) = Len(X3) + 1 /\ UnmuteAt(c) \in Nat /\ UnmuteAt(c) >= 3
  <2>1. PICK j \in Nat : j = Len(f)
    BY <1>6
  <2>2. Len(X2) = 1 + j /\ Len(X3) = Len(X2) + 1
    BY <1>2, <1>9, <1>11, <1>13, <2>1 DEF Grown
  <2>3. UnmuteAt(c) = j + 3
    BY <1>6, <1>19, <2>1
  <2>4. QED
    BY <2>2, <2>3
<1>21. QED
  BY <1>17b, <1>18, <1>20, Zenon DEF S

LEMMA SetUpArranged ==
    ASSUME NEW c \in Cards, c \in MuteCards
    PROVE  /\ Arranged(SetUp[c], FitCalls(c), UnmuteAt(c), "unmute", Before(c), After(c))
           /\ UnmuteAt(c) \in Nat /\ UnmuteAt(c) >= 3
BY Revo71Arranged, Revo51Arranged, AP192Arranged, SetUpsAre, Zenon DEF MuteCards

-----------------------------------------------------------------------------
(* Every access keeps the invariant *)

\* The part of the invariant that is about the calls, and what one of them is.
CallsInOrder ==
    /\ pc = "gpio" /\ at # 0 => at > 1 /\ call = SetUp[card][at - 1]
    /\ pc = "gpio" /\ at = 0 => call \in WritesOf(card)

Muting ==
    /\ MutePin \in dir /\ MutePin \notin masked
    /\ card \in Revolutions => MutePin \notin pins

Sounding == MutePin \in pins /\ MutePin \in IF OnTheBus THEN saved.dir ELSE dir

LEMMA MuteParts ==
    MuteInv = (card \in MuteCards =>
                  CallsInOrder /\ (Booted => Muting) /\ (Unmuted => Sounding))
BY DEF MuteInv, CallsInOrder, Muting, Sounding

\* A write of these cards' mixers is one to a serial codec.
LEMMA MixerWrites ==
    ASSUME NEW c \in Cards, c \in MuteCards, NEW w \in WritesOf(c)
    PROVE  w.chip \in ChipsWired[c]
<1>1. PICK t \in Targets[c], d \in DataFor[c] : w = Call(t[1], t[2], d)
  BY DEF WritesOf
<1>2. c \in OnGpio /\ c \in GpioCards
  BY GpioCardsAre DEF GpioCards, MuteCards
<1>3. t[1] \in DOMAIN Wiring[c]
  BY <1>1, <1>2, TablesAssumption
<1>4. w.chip = t[1]
  BY <1>1 DEF Call
<1>5. QED
  BY <1>2, <1>3, <1>4, ChipsAre

LEMMA WiredFits ==
    ASSUME NEW c \in Cards, c \in MuteCards, NEW w \in CallsOf[c], w.chip \in ChipsWired[c]
    PROVE  w.reg \in Nat /\ w.data \in Nat
<1>1. c \in GpioCards /\ c \in OnGpio
  BY GpioCardsAre DEF GpioCards, MuteCards
<1>2. Fitting(c, w)
  BY CallsFit
<1>3. w.chip \notin SetUpSteps /\ w.chip # "AC97" /\ w.chip # "PT2258"
  BY <1>1, WiredChips
<1>4. /\ w.reg \in 0 .. Wiring[c][w.chip].registers - 1
      /\ w.data \in 0 .. Wiring[c][w.chip].values - 1
  BY <1>1, <1>2, <1>3, StepsAreSteps, Zenon DEF Fitting
<1>5. SerialPort(Wiring[c][w.chip])
  BY <1>1, Ports
<1>6. QED
  BY <1>4, <1>5 DEF SerialPort

\* What the calls do, by when card_init makes them.
LEMMA CallKinds ==
    ASSUME card \in Cards, card \in MuteCards, CallsInOrder, pc = "gpio",
           call \in CallsOf[card], at \in 0 .. Len(SetUp[card]) + 1
    PROVE  /\ at # 0 => at \in Nat /\ at >= 2
           /\ at = 2 => call.chip = "boot"
           /\ at \in 3 .. UnmuteAt(card) => call.chip \in Before(card)
           /\ at = UnmuteAt(card) + 1 => call.chip = "unmute"
           /\ at > UnmuteAt(card) + 1 => call.chip \in After(card)
           /\ at = 0 => call.chip \in ChipsWired[card]
<1>1. PICK u \in Nat : u = UnmuteAt(card) /\ u >= 3
  BY SetUpArranged
<1>2. PICK F, len : F = SetUp[card] /\ len \in Nat /\ len = Len(F) /\ u \in 2 .. len
  BY <1>1, SetUpArranged DEF Arranged
<1>3. /\ F[1].chip = "boot" /\ F[u].chip = "unmute"
      /\ \A i \in 2 .. u - 1 : F[i].chip \in Before(card)
      /\ \A i \in u + 1 .. len : F[i].chip \in After(card)
  BY <1>1, <1>2, SetUpArranged DEF Arranged, ChipsIn
<1>4. CASE at = 0
  <2>1. call \in WritesOf(card)
    BY <1>4 DEF CallsInOrder
  <2>2. QED
    BY <1>1, <1>4, <2>1, MixerWrites
<1>5. CASE at # 0
  <2>1. at > 1 /\ call = F[at - 1] /\ at \in 0 .. len + 1
    BY <1>2, <1>5 DEF CallsInOrder
  <2>2. PICK i \in 1 .. len : at = i + 1
    BY <1>2, <2>1
  <2>3. call = F[i]
    BY <2>1, <2>2
  <2>4. /\ at = 2 => i = 1
        /\ at \in 3 .. u => i \in 2 .. u - 1
        /\ at = u + 1 => i = u
        /\ at > u + 1 => i \in u + 1 .. len
    BY <2>2
  <2>5. QED
    BY <1>1, <1>3, <1>5, <2>1, <2>2, <2>3, <2>4
<1>6. QED
  BY <1>4, <1>5

\* An access that leaves the pin alone.
LEMMA UntouchingChange ==
    ASSUME NEW a, Untouching(a), Change(Levels(a), Directed(a)),
           masked' = MaskOf(a), saved' = Saved(a)
    PROVE  /\ dir' = dir /\ masked' = masked /\ saved' = saved
           /\ (MutePin \in pins') = (MutePin \in pins)
<1>1. pins' = Levels(a) /\ dir' = Directed(a)
  BY DEF Change
<1>2. a.op = "data"
  BY DEF Untouching
<1>3. dir' = dir /\ masked' = masked /\ saved' = saved
  BY <1>1, <1>2 DEF Directed, MaskOf, Saved
<1>4. (MutePin \in Levels(a)) = (MutePin \in pins)
  BY DEF Levels, Untouching
<1>5. QED
  BY <1>1, <1>3, <1>4

\* One of a message between the first and the last.
LEMMA MaskingChange ==
    ASSUME NEW a, Masking(a), Change(Levels(a), Directed(a)),
           masked' = MaskOf(a), saved' = Saved(a)
    PROVE  saved' = saved /\ (MutePin \in pins') = (MutePin \in pins)
<1>1. pins' = Levels(a)
  BY DEF Change
<1>2. a.op = "lines" /\ MutePin \in a.masked
  BY DEF Masking
<1>3. saved' = saved /\ MaskOf(a) = a.masked
  BY <1>2 DEF MaskOf, Saved
<1>4. QED
  BY <1>1, <1>2, <1>3 DEF Levels

LEMMA BootChange ==
    ASSUME card \in MuteCards, NEW a, a = Boot(card), Change(Levels(a), Directed(a)),
           masked' = MaskOf(a), card' = card
    PROVE  Muting'
<1>1. PICK high : high = IF card \in Revolutions THEN {1, 4, 5, 6} ELSE {0, 3, 4, 11, 12, 13}
  OBVIOUS
<1>2. PICK low : low = (IF card \in Revolutions THEN Pins ELSE 0 .. 15) \ high
  OBVIOUS
<1>3. a = Lines(Outputs[card], Masked[card], high, low)
  BY <1>1, <1>2, Zenon DEF Boot
<1>4. /\ a.op = "lines" /\ a.out = Outputs[card] /\ a.masked = Masked[card]
      /\ a.up = high /\ a.down = low
  BY <1>3 DEF Lines, Access
<1>5. MutePin \in Outputs[card] /\ MutePin \notin Masked[card]
  BY DEF MuteCards, MutePin, Outputs, Masked, Pins
<1>6. card \in Revolutions => MutePin \notin high /\ MutePin \in low
  BY <1>1, <1>2 DEF MutePin, Pins
<1>7. pins' = Levels(a) /\ dir' = a.out /\ masked' = a.masked
  BY <1>4 DEF Change, Directed, MaskOf
<1>8. card \in Revolutions => MutePin \notin pins'
  BY <1>4, <1>5, <1>6, <1>7 DEF Levels, MaskOf
<1>9. QED
  BY <1>4, <1>5, <1>7, <1>8 DEF Muting

LEMMA SetUpFramesAre ==
    ASSUME NEW c, NEW w
    PROVE  /\ w.chip = "boot" => Frame(c, w) = << Boot(c) >>
           /\ w.chip = "mute" => Frame(c, w) = << Set({}, {MutePin}) >>
           /\ w.chip = "unmute" => Frame(c, w) = << Set({MutePin}, {}) >>
BY DEF Frame, SetUpSteps, SetUpFrame, Mute, Unmute

LEMMA MuteChange ==
    ASSUME Muting, NEW a, a = Set({}, {MutePin}), Change(Levels(a), Directed(a)),
           masked' = MaskOf(a), card' = card
    PROVE  Muting'
<1>1. a.op = "data" /\ a.up = {} /\ a.down = {MutePin}
  BY DEF Set, Access
<1>2. dir' = dir /\ masked' = masked /\ pins' = Levels(a) /\ MaskOf(a) = masked
  BY <1>1 DEF Change, Directed, MaskOf
<1>3. MutePin \notin Levels(a)
  BY <1>1, <1>2 DEF Levels, Muting
<1>4. QED
  BY <1>2, <1>3 DEF Muting

LEMMA UnmuteChange ==
    ASSUME Muting, NEW a, a = Set({MutePin}, {}), Change(Levels(a), Directed(a)),
           masked' = MaskOf(a), pc' = "idle"
    PROVE  Sounding'
<1>1. a.op = "data" /\ a.up = {MutePin} /\ a.down = {}
  BY DEF Set, Access
<1>2. dir' = dir /\ pins' = Levels(a) /\ MaskOf(a) = masked
  BY <1>1 DEF Change, Directed, MaskOf
<1>3. MutePin \in Levels(a)
  BY <1>1, <1>2 DEF Levels, Muting
<1>4. QED
  BY <1>2, <1>3 DEF Muting, Sounding, OnTheBus

\* The accesses of a message to the PT2258.
LEMMA MessageChange ==
    ASSUME Sounding, pc = "gpio", call.chip = "PT2258", NEW message \in Nat,
           message < 256 * 256, NEW F, F = I2CFrame(message), NEW a, Accessed(F, a)
    PROVE  Sounding'
<1>1. PICK len \in 67 .. 96 : len = Len(F)
  BY MessageMasks
<1>2. /\ F[1] = SaveGPIO /\ F[len] = RestoreGPIO
      /\ \A i \in 2 .. len - 1 : Masking(F[i])
  BY <1>1, MessageMasks
<1>3. /\ n \in 1 .. len /\ a = F[n]
      /\ Change(Levels(a), Directed(a)) /\ masked' = MaskOf(a) /\ saved' = Saved(a)
      /\ IF n < len
         THEN n' = n + 1 /\ UNCHANGED <<pc, call>>
         ELSE n' = 0 /\ pc' = "idle" /\ call' = None
  BY <1>1, Zenon DEF Accessed
<1>4. pins' = Levels(a) /\ dir' = Directed(a)
  BY <1>3 DEF Change
<1>5. CASE n = 1
  <2>1. a.op = "save" /\ a.up = {} /\ a.down = {}
    BY <1>2, <1>3, <1>5 DEF SaveGPIO, Access
  <2>2. pins' = pins /\ dir' = dir /\ saved'.dir = dir
    BY <1>3, <1>4, <2>1 DEF Levels, Directed, Saved
  <2>3. QED
    BY <1>5, <2>2 DEF Sounding, OnTheBus
<1>6. CASE n \in 2 .. len - 1
  <2>1. n < len /\ n > 1
    BY <1>6
  <2>2. Masking(a)
    BY <1>2, <1>3, <1>6
  <2>3. saved' = saved /\ (MutePin \in pins') = (MutePin \in pins)
    BY <1>3, <2>2, MaskingChange
  <2>4. n' > 1 /\ UNCHANGED <<pc, call>>
    BY <1>3, <2>1
  <2>5. OnTheBus /\ OnTheBus'
    BY <2>1, <2>4 DEF OnTheBus
  <2>6. QED
    BY <2>3, <2>5 DEF Sounding
<1>7. CASE n = len
  <2>1. a.op = "restore" /\ a.up = {} /\ a.down = {}
    BY <1>2, <1>3, <1>7 DEF RestoreGPIO, Access
  <2>2. pins' = pins /\ dir' = saved.dir
    BY <1>4, <2>1 DEF Levels, Directed
  <2>3. OnTheBus /\ pc' = "idle"
    BY <1>3, <1>7 DEF OnTheBus
  <2>4. QED
    BY <2>2, <2>3 DEF Sounding, OnTheBus
<1>8. QED
  BY <1>3, <1>5, <1>6, <1>7

\* Where the thread is after an access.
LEMMA AfterAccess ==
    ASSUME CallsInOrder, pc = "gpio", NEW F, NEW a, Accessed(F, a)
    PROVE  /\ CallsInOrder' /\ card' = card /\ at' = at
           /\ pc' = "gpio" => call' = call
           /\ pc' \in {"gpio", "idle"}
           /\ Len(F) = 1 => n = 1 /\ pc' = "idle"
<1>1. /\ card' = card /\ at' = at
      /\ (pc' = pc /\ call' = call) \/ pc' = "idle"
  BY DEF Accessed, init
<1>2. CallsInOrder'
  BY <1>1 DEF CallsInOrder
<1>3. ASSUME Len(F) = 1
      PROVE  n = 1 /\ pc' = "idle"
  <2>1. n \in 1 .. 1 /\ (~(n < 1) => pc' = "idle")
    BY <1>3 DEF Accessed
  <2>2. QED
    BY <2>1
<1>4. QED
  BY <1>1, <1>2, <1>3

LEMMA AccessIs ==
    ASSUME NEW F, NEW a, Accessed(F, a)
    PROVE  /\ F = Frame(card, call) /\ n \in 1 .. Len(F) /\ a = F[n]
           /\ Change(Levels(a), Directed(a)) /\ masked' = MaskOf(a) /\ saved' = Saved(a)
           /\ card' = card
BY DEF Accessed

LEMMA WriteGpioMute ==
    ASSUME TypeInv, MuteInv, WriteGpio, card \in MuteCards
    PROVE  MuteInv'
<1>1. /\ card \in Cards /\ call \in CallsOf[card] /\ pc = "gpio"
      /\ at \in 0 .. Len(SetUp[card]) + 1
  BY WriteGpioIs DEF TypeInv, ThreadTyped
<1>2. PICK F, a : Accessed(F, a)
  BY WriteGpioIs
<1>3. CallsInOrder /\ (Booted => Muting) /\ (Unmuted => Sounding)
  BY MuteParts
<1>4. /\ CallsInOrder' /\ card' = card /\ at' = at
      /\ pc' = "gpio" => call' = call
      /\ pc' \in {"gpio", "idle"}
      /\ Len(F) = 1 => n = 1 /\ pc' = "idle"
  BY <1>1, <1>2, <1>3, AfterAccess
<1>5. /\ F = Frame(card, call) /\ n \in 1 .. Len(F) /\ a = F[n]
      /\ Change(Levels(a), Directed(a)) /\ masked' = MaskOf(a) /\ saved' = Saved(a)
  BY <1>2, AccessIs
<1>6. PICK u \in Nat : u = UnmuteAt(card) /\ u >= 3
  BY <1>1, SetUpArranged
<1>7. PICK i \in Nat : i = at
  <2>1. Len(SetUp[card]) \in Nat
    BY <1>1, SetUpCalls
  <2>2. QED
    BY <1>1, <2>1
<1>8. /\ i = 2 => ~Unmuted'
      /\ i \in 3 .. u => Booted /\ ~Unmuted'
      /\ i = u + 1 => Booted
      /\ i = u + 1 /\ pc' = "idle" => ~Booted'
      /\ i > u + 1 \/ i = 0 => Unmuted /\ ~Booted'
  <2>1. pc # "idle" /\ at' = i /\ UnmuteAt(card') = u
    BY <1>1, <1>4, <1>6, <1>7
  <2>2. i = 2 => ~Unmuted'
    BY <1>4, <1>6, <2>1 DEF Unmuted
  <2>3. i \in 3 .. u => Booted
    BY <1>6, <1>7 DEF Booted
  <2>4. i \in 3 .. u => ~Unmuted'
    BY <1>4, <1>6, <2>1 DEF Unmuted
  <2>5. i = u + 1 => Booted
    BY <1>1, <1>6, <1>7 DEF Booted
  <2>6. i = u + 1 /\ pc' = "idle" => ~Booted'
    BY <1>4, <1>6, <2>1 DEF Booted
  <2>7. i > u + 1 \/ i = 0 => Unmuted
    BY <1>6, <1>7 DEF Unmuted
  <2>8. i > u + 1 \/ i = 0 => ~Booted'
    BY <1>4, <1>6, <2>1 DEF Booted
  <2>9. QED
    BY <2>2, <2>3, <2>4, <2>5, <2>6, <2>7, <2>8
<1>9. /\ i # 0 => i >= 2
      /\ i = 2 => call.chip = "boot"
      /\ i \in 3 .. u => call.chip \in Before(card)
      /\ i = u + 1 => call.chip = "unmute"
      /\ i > u + 1 => call.chip \in After(card)
      /\ i = 0 => call.chip \in ChipsWired[card]
  BY <1>1, <1>3, <1>6, <1>7, CallKinds, Zenon
<1>10. (Booted' => Muting') /\ (Unmuted' => Sounding')
  <2>1. ASSUME call.chip \in ChipsWired[card] \cup {"adc", "mux"}
        PROVE  (Muting => Muting') /\ (Sounding => Sounding')
    <3>1. Untouched(F)
      <4>1. CASE call.chip \in ChipsWired[card]
        BY <1>1, <1>5, <4>1, WiredFits, SerialUntouched
      <4>2. CASE call.chip \in {"adc", "mux"}
        BY <1>5, <4>2, StepsUntouched
      <4>3. QED
        BY <2>1, <4>1, <4>2
    <3>2. Untouching(a)
      BY <1>5, <3>1 DEF Untouched
    <3>3. /\ dir' = dir /\ masked' = masked /\ saved' = saved
          /\ (MutePin \in pins') = (MutePin \in pins)
      BY <1>5, <3>2, UntouchingChange
    <3>4. call.chip # "PT2258"
      BY <2>1 DEF MuteCards, ChipsWired
    <3>5. ~OnTheBus /\ ~OnTheBus'
      BY <1>4, <3>4 DEF OnTheBus
    <3>6. QED
      BY <1>4, <3>3, <3>5 DEF Muting, Sounding
  <2>2. CASE i = 2
    <3>1. F = << Boot(card) >>
      BY <1>5, <1>9, <2>2, SetUpFramesAre
    <3>2. a = Boot(card)
      BY <1>4, <1>5, <3>1
    <3>3. Muting'
      BY <1>4, <1>5, <3>2, BootChange
    <3>4. QED
      BY <1>8, <2>2, <3>3, Zenon
  <2>3. CASE i \in 3 .. u
    <3>1. Muting /\ ~Unmuted'
      BY <1>3, <1>8, <2>3, Zenon
    <3>2. call.chip \in ChipsWired[card] \cup {"adc", "mux"} \/ call.chip = "mute"
      BY <1>9, <2>3 DEF Before
    <3>3. CASE call.chip = "mute"
      <4>1. F = << Set({}, {MutePin}) >>
        BY <1>5, <3>3, SetUpFramesAre
      <4>2. a = Set({}, {MutePin})
        BY <1>4, <1>5, <4>1
      <4>3. QED
        BY <1>4, <1>5, <3>1, <4>2, MuteChange
    <3>4. QED
      BY <2>1, <3>1, <3>2, <3>3
  <2>4. CASE i = u + 1
    <3>1. Muting
      BY <1>3, <1>8, <2>4, Zenon
    <3>2. F = << Set({MutePin}, {}) >>
      BY <1>5, <1>9, <2>4, SetUpFramesAre
    <3>3. a = Set({MutePin}, {}) /\ pc' = "idle"
      BY <1>4, <1>5, <3>2
    <3>4. Sounding'
      BY <1>5, <3>1, <3>3, UnmuteChange
    <3>5. ~Booted'
      BY <1>8, <2>4, <3>3, Zenon
    <3>6. QED
      BY <3>4, <3>5
  <2>5. CASE i > u + 1 \/ i = 0
    <3>1. Sounding /\ ~Booted'
      BY <1>3, <1>8, <2>5, Zenon
    <3>2. call.chip \in ChipsWired[card] \cup {"adc", "mux"} \/ call.chip = "PT2258"
      BY <1>9, <2>5 DEF After, MuteCards
    <3>3. CASE call.chip = "PT2258"
      <4>1. Fitting(card, call)
        BY <1>1, CallsFit
      <4>2. "PT2258" \notin ChipsWired[card] /\ "PT2258" \notin SetUpSteps
        BY DEF MuteCards, ChipsWired, SetUpSteps
      <4>3. card \in OnGpio
        BY GpioCardsAre DEF GpioCards, MuteCards
      <4>4. call.data \in Words16
        BY <3>3, <4>1, <4>2, <4>3, StepsAreSteps DEF Fitting
      <4>5. PICK message \in Nat : message = call.data /\ message < 256 * 256
        BY <4>4 DEF Words16
      <4>6. F = I2CFrame(message)
        BY <1>5, <3>3, <4>2, <4>5 DEF Frame
      <4>7. QED
        BY <1>1, <1>2, <3>1, <3>3, <4>5, <4>6, MessageChange
    <3>4. QED
      BY <2>1, <3>1, <3>2, <3>3
  <2>6. QED
    <3>1. i = 0 \/ i = 2 \/ i \in 3 .. u \/ i = u + 1 \/ i > u + 1
      BY <1>6, <1>9
    <3>2. QED
      BY <3>1, <2>2, <2>3, <2>4, <2>5
<1>11. QED
  <2>1. card' \in MuteCards => CallsInOrder' /\ (Booted' => Muting') /\ (Unmuted' => Sounding')
    BY <1>4, <1>10
  <2>2. MuteInv' = (card' \in MuteCards =>
                      CallsInOrder' /\ (Booted' => Muting') /\ (Unmuted' => Sounding'))
    BY DEF MuteInv, CallsInOrder, Muting, Sounding
  <2>3. QED
    BY <2>1, <2>2

-----------------------------------------------------------------------------
(* Every other step keeps the invariant *)

\* A call begins, or card_init begins or returns: no access is made.
LEMMA NoAccessMute ==
    ASSUME MuteInv, pc = "idle", card' = card, UNCHANGED <<pins, dir, masked>>,
           pc' = "idle" \/ n' = 1,
           card \in MuteCards =>
               CallsInOrder' /\ (Booted' => Booted) /\ (Unmuted' => Unmuted)
    PROVE  MuteInv'
<1>1. MuteInv' = (card' \in MuteCards =>
                    CallsInOrder' /\ (Booted' => Muting') /\ (Unmuted' => Sounding'))
  BY DEF MuteInv, CallsInOrder, Muting, Sounding
<1>2. Muting => Muting'
  BY DEF Muting
<1>3. ~OnTheBus /\ ~OnTheBus'
  BY DEF OnTheBus
<1>4. Sounding => Sounding'
  BY <1>3 DEF Sounding
<1>5. card \in MuteCards => (Booted => Muting) /\ (Unmuted => Sounding)
  BY MuteParts
<1>6. QED
  BY <1>1, <1>2, <1>4, <1>5

\* What the next call, the first one and the last one mean for the outputs.
LEMMA RequestMute ==
    ASSUME TypeInv, MuteInv, NEW w \in WritesOf(card), Request(w)
    PROVE  MuteInv'
<1>1. /\ pc = "idle" /\ at = 0 /\ at' = 0 /\ card' = card /\ call' = w
      /\ UNCHANGED <<pins, dir, masked>>
      /\ card \in OnGpio => n' = 1
  BY DEF Request, Enter, init
<1>2. ASSUME card \in MuteCards
      PROVE  CallsInOrder' /\ (Booted' => Booted) /\ (Unmuted' => Unmuted) /\ n' = 1
  <2>1. card \in Cards /\ card \in OnGpio
    BY <1>2, GpioCardsAre DEF TypeInv, ThreadTyped, MuteCards, GpioCards
  <2>2. PICK u \in Nat : u = UnmuteAt(card) /\ u >= 3
    BY <1>2, <2>1, SetUpArranged
  <2>3. CallsInOrder' /\ n' = 1
    BY <1>1, <2>1 DEF CallsInOrder
  <2>4. ~Booted'
    BY <1>1, <2>2 DEF Booted
  <2>5. Unmuted
    BY <1>1 DEF Unmuted
  <2>6. QED
    BY <2>3, <2>4, <2>5
<1>3. CASE card \in MuteCards
  BY <1>1, <1>2, <1>3, NoAccessMute
<1>4. QED
  BY <1>1, <1>3 DEF MuteInv

LEMMA SetUpCallMute ==
    ASSUME TypeInv, MuteInv, SetUpCall
    PROVE  MuteInv'
<1>1. /\ pc = "idle" /\ at \in DOMAIN SetUp[card] /\ at' = at + 1 /\ card' = card
      /\ call' = SetUp[card][at]
      /\ UNCHANGED <<pins, dir, masked>>
      /\ card \in OnGpio => pc' = "gpio" /\ n' = 1
  BY DEF SetUpCall, Enter
<1>2. ASSUME card \in MuteCards
      PROVE  CallsInOrder' /\ (Booted' => Booted) /\ (Unmuted' => Unmuted) /\ n' = 1
  <2>1. card \in Cards /\ card \in OnGpio
    BY <1>2, GpioCardsAre DEF TypeInv, ThreadTyped, MuteCards, GpioCards
  <2>2. PICK u \in Nat : u = UnmuteAt(card) /\ u >= 3
    BY <1>2, <2>1, SetUpArranged
  <2>3. PICK i \in Nat : i = at /\ i >= 1
    BY <1>1, <2>1, SetUpCalls
  <2>4. pc' = "gpio" /\ n' = 1 /\ at' = i + 1 /\ UnmuteAt(card') = u
    BY <1>1, <2>1, <2>2, <2>3
  <2>5. CallsInOrder'
    <3>1. at' > 1 /\ at' # 0 /\ at' - 1 = at
      BY <2>3, <2>4
    <3>2. QED
      BY <1>1, <3>1 DEF CallsInOrder
  <2>6. Booted' => Booted
    <3>1. ASSUME Booted'
          PROVE  i = 2 \/ i \in 3 .. u
      BY <2>2, <2>3, <2>4, <3>1 DEF Booted
    <3>2. i = 2 \/ i \in 3 .. u => Booted
      BY <1>1, <2>2, <2>3 DEF Booted
    <3>3. QED
      BY <3>1, <3>2
  <2>7. Unmuted' => Unmuted
    <3>1. ASSUME Unmuted'
          PROVE  i = u + 1 \/ i > u + 1
      BY <2>2, <2>3, <2>4, <3>1 DEF Unmuted
    <3>2. i = u + 1 \/ i > u + 1 => Unmuted
      BY <1>1, <2>2, <2>3 DEF Unmuted
    <3>3. QED
      BY <3>1, <3>2
  <2>8. QED
    BY <2>4, <2>5, <2>6, <2>7
<1>3. CASE card \in MuteCards
  BY <1>1, <1>2, <1>3, NoAccessMute
<1>4. QED
  BY <1>1, <1>3 DEF MuteInv

\* These cards are never given up: card_init returns after its last call.
LEMMA SetUpReturnsMute ==
    ASSUME TypeInv, MuteInv, SetUpReturns
    PROVE  MuteInv'
<1>1. /\ pc = "idle" /\ pc' = "idle" /\ at' = 0 /\ card' = card
      /\ UNCHANGED <<pins, dir, masked>>
      /\ ~misread => at = Len(SetUp[card]) + 1
  BY DEF SetUpReturns, gpio
<1>2. ASSUME card \in MuteCards
      PROVE  CallsInOrder' /\ (Booted' => Booted) /\ (Unmuted' => Unmuted)
  <2>1. card \in Cards /\ card \in OnGpio
    BY <1>2, GpioCardsAre DEF TypeInv, ThreadTyped, MuteCards, GpioCards
  <2>2. PICK u \in Nat, len \in Nat :
           u = UnmuteAt(card) /\ u >= 3 /\ len = Len(SetUp[card]) /\ u <= len
    BY <1>2, <2>1, SetUpArranged DEF Arranged
  <2>3. at = len + 1
    BY <1>1, <2>1, <2>2 DEF TypeInv, ThreadTyped
  <2>4. CallsInOrder'
    BY <1>1 DEF CallsInOrder
  <2>5. ~Booted'
    BY <1>1, <2>2 DEF Booted
  <2>6. Unmuted
    BY <1>1, <2>2, <2>3 DEF Unmuted
  <2>7. QED
    BY <2>4, <2>5, <2>6
<1>3. QED
  BY <1>1, <1>2, NoAccessMute

LEMMA WakeMute ==
    ASSUME TypeInv, MuteInv, Wake
    PROVE  MuteInv'
<1>1. /\ pc = "idle" /\ pc' = "idle" /\ at' = 1 /\ card' = card
      /\ UNCHANGED <<pins, dir, masked>>
  BY DEF Wake, gpio
<1>2. ASSUME card \in MuteCards
      PROVE  CallsInOrder' /\ (Booted' => Booted) /\ (Unmuted' => Unmuted)
  <2>1. PICK u \in Nat : u = UnmuteAt(card) /\ u >= 3
    BY <1>2, SetUpArranged DEF TypeInv, ThreadTyped
  <2>2. CallsInOrder'
    BY <1>1 DEF CallsInOrder
  <2>3. ~Booted'
    BY <1>1, <2>1 DEF Booted
  <2>4. ~Unmuted'
    BY <1>1, <2>1 DEF Unmuted
  <2>5. QED
    BY <2>2, <2>3, <2>4
<1>3. QED
  BY <1>1, <1>2, NoAccessMute

\* No step of the I2C controller or to it: these cards do not use it.
LEMMA MuteCardsAreOnGpio ==
    ASSUME TypeInv, card \in MuteCards
    PROVE  pc \in {"idle", "gpio"} /\ transfer = None
<1>1. card \in OnGpio
  BY GpioCardsAre DEF MuteCards, GpioCards
<1>2. QED
  BY <1>1 DEF TypeInv, ThreadTyped

LEMMA ControllerMute ==
    ASSUME TypeInv, MuteInv,
           Poll \/ WriteAddr \/ WriteData \/ WriteDevice \/ ReadValue \/ Transferred
    PROVE  MuteInv'
<1>1. card' = card
  BY DEF Poll, WriteAddr, WriteData, WriteDevice, ReadValue, Transferred
<1>2. card \notin MuteCards
  BY MuteCardsAreOnGpio
     DEF Poll, WriteAddr, WriteData, WriteDevice, ReadValue, Transferred, AfterWait
<1>3. QED
  BY <1>1, <1>2 DEF MuteInv

LEMMA MuteStep ==
    ASSUME TypeInv, MuteInv, [Next]_vars
    PROVE  MuteInv'
<1>1. CASE WriteGpio
  <2>1. card' = card
    BY <1>1 DEF WriteGpio
  <2>2. CASE card \in MuteCards
    BY <1>1, <2>2, WriteGpioMute
  <2>3. CASE card \notin MuteCards
    BY <2>1, <2>3 DEF MuteInv
  <2>4. QED
    BY <2>2, <2>3
<1>2. CASE UNCHANGED vars
  BY <1>2 DEF vars, init, gpio, MuteInv, Booted, Unmuted, OnTheBus
<1>3. QED
  BY <1>1, <1>2, RequestMute, SetUpCallMute, SetUpReturnsMute, WakeMute,
     ControllerMute
     DEF Next, ThreadStep

LEMMA InitMute ==
    ASSUME Init
    PROVE  MuteInv
<1>1. card \in Cards /\ at = 1 /\ pc = "idle"
  BY DEF Init
<1>2. ASSUME card \in MuteCards
      PROVE  CallsInOrder /\ ~Booted /\ ~Unmuted
  <2>1. PICK u \in Nat : u = UnmuteAt(card) /\ u >= 3
    BY <1>1, <1>2, SetUpArranged
  <2>2. CallsInOrder
    BY <1>1 DEF CallsInOrder
  <2>3. ~Booted
    BY <1>1, <2>1 DEF Booted
  <2>4. ~Unmuted
    BY <1>1, <2>1 DEF Unmuted
  <2>5. QED
    BY <2>2, <2>3, <2>4
<1>3. QED
  BY <1>2, MuteParts

-----------------------------------------------------------------------------
(* The outputs' theorem *)

LEMMA MuteInvImplies ==
    ASSUME TypeInv, MuteInv
    PROVE  MuteFollowsSetUp
<1>1. card \in Cards
  BY DEF TypeInv, ThreadTyped
<1>2. card \in MuteCards => CallsInOrder /\ (Booted => Muting) /\ (Unmuted => Sounding)
  BY MuteParts
<1>3. ASSUME card \in Revolutions, at # 0, pc = "gpio", call.chip \in Serial(card)
      PROVE  MutePin \notin pins
  <2>1. card \in MuteCards
    BY <1>3 DEF Revolutions, MuteCards
  <2>2. call \in CallsOf[card] /\ at \in 0 .. Len(SetUp[card]) + 1
    BY <1>3 DEF TypeInv, ThreadTyped
  <2>3. PICK u \in Nat : u = UnmuteAt(card) /\ u >= 3
    BY <1>1, <2>1, SetUpArranged
  <2>4. call.chip \in ChipsWired[card]
    <3>1. card \in OnGpio /\ DOMAIN Wiring[card] = ChipsWired[card]
      BY <2>1, GpioCardsAre, ChipsAre DEF GpioCards, MuteCards
    <3>2. QED
      BY <1>3, <3>1 DEF Serial
  <2>5. call.chip # "boot" /\ call.chip \notin After(card)
    BY <1>3, <2>4 DEF ChipsWired, After, Revolutions
  <2>6. at \in Nat /\ at >= 2 /\ at # 2 /\ ~(at > u + 1)
    BY <1>1, <1>2, <1>3, <2>1, <2>2, <2>3, <2>5, CallKinds
  <2>7. at \in 3 .. u \/ at = u + 1
    BY <2>3, <2>6
  <2>8. Booted
    BY <1>3, <2>3, <2>7 DEF Booted
  <2>9. QED
    BY <1>2, <1>3, <2>1, <2>8 DEF Muting
<1>4. ASSUME card \in Revolutions \cup {"AP192"}, at = 0
      PROVE  MutePin \in pins \cap dir
  <2>1. card \in MuteCards
    BY <1>4 DEF Revolutions, MuteCards
  <2>2. Sounding
    BY <1>2, <1>4, <2>1 DEF Unmuted
  <2>3. pc = "gpio" => call.chip \in ChipsWired[card]
    BY <1>1, <1>2, <1>4, <2>1, MixerWrites DEF CallsInOrder
  <2>4. ~OnTheBus
    BY <2>1, <2>3 DEF OnTheBus, MuteCards, ChipsWired
  <2>5. QED
    BY <2>2, <2>4 DEF Sounding
<1>5. QED
  BY <1>3, <1>4 DEF MuteFollowsSetUp

\* While card_init (and pci_wake) sets a Revolution's serial codecs up, its
\* outputs are muted at every step, also between the steps of a frame; from when
\* card_init returns on the mute pin is an output and high, on the Audiophile
\* 192 too, whatever the mixer writes; on the Revolution 5.1 the PT2258, whose
\* messages save, redirect and restore the pins, is written in between.  So for
\* any set-up tables and values.
THEOREM MutedWhileSetUp == Spec => []MuteFollowsSetUp
<1>1. Init => TypeInv /\ MuteInv
  BY InitTyped, InitMute
<1>2. TypeInv /\ MuteInv /\ [Next]_vars => (TypeInv /\ MuteInv)'
  BY TypeStep, MuteStep
<1>3. TypeInv /\ MuteInv => MuteFollowsSetUp
  BY MuteInvImplies
<1>4. QED
  BY <1>1, <1>2, <1>3, PTL DEF Spec
=============================================================================
