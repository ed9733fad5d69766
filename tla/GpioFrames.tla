----------------------------- MODULE GpioFrames -----------------------------
(***************************************************************************)
(* What the driver does to the GPIO registers, card by card: the sequence  *)
(* of accesses that one codec register write consists of (ak_codec.cpp,    *)
(* audiophile192.cpp, prodigy_hifi.cpp, I2C.cpp over Revo51.cpp,           *)
(* aureon_spi_write and aureon_ac97_write in misc.cpp), and those that     *)
(* card_init makes between the writes.  A pin is its bit number, a GPIO    *)
(* register the set of the pins whose bit is 1.                            *)
(***************************************************************************)
EXTENDS Integers, Sequences

Pins == 0 .. 22

\* One access: the mask and direction it sets, then the pins it raises and
\* lowers, all others being written as GetGPIOData read them.
Access(op, out, masked, up, down) ==
    [op |-> op, out |-> out, masked |-> masked, up |-> up, down |-> down]

Set(up, down) == Access("data", {}, {}, up, down)
Mask(masked, up, down) == Access("mask", {}, masked, up, down)
Lines(out, masked, up, down) == Access("lines", out, masked, up, down)
SaveGPIO == Access("save", {}, {}, {}, {})
RestoreGPIO == Access("restore", {}, {}, {}, {})

\* SetGPIOMask(~pins): its low half is cut to twelve bits.
AllBut(pins) == (0 .. 11 \cup 16 .. 22) \ pins

BitSet(word, i) == (word \div 2^i) % 2 = 1

-----------------------------------------------------------------------------
(* Serial codecs *)

\* A codec: its select, clock and data pins, whether it shifts while it is not
\* selected (cif), and its word: a prefix it answers to, a register, a value.
Wired(cs, clk, data, cif, width, prefix, registers, values) ==
    [cs |-> cs, clk |-> clk, data |-> data, cif |-> cif, width |-> width,
     prefix |-> prefix, registers |-> registers, values |-> values]

\* Chip address and write bit, five bits of address, the data byte.
Akm(cs, clk, data, caddr, cif) ==
    Wired(cs, clk, data, cif, 16, 2 * caddr + 1, 32, 256)

Wiring ==
    [Revo71  |-> [Front    |-> Akm(5, 1, 3, 1, FALSE),
                  Surround |-> Akm(6, 1, 3, 3, FALSE)],
     Revo51  |-> [Front    |-> Akm(4, 1, 3, 2, FALSE),
                  Rec      |-> Akm(5, 1, 3, 2, FALSE)],
     Phase22 |-> [Front    |-> Akm(10, 5, 4, 2, TRUE)],
     AP192   |-> [AP192    |-> Akm(4, 1, 3, 2, FALSE),
                  AK4114   |-> Akm(5, 1, 3, 2, FALSE)],
     AureonSpace |-> [Aureon |-> Wired(12, 19, 18, FALSE, 16, 0, 128, 512),
                      CS8415 |-> Wired(22, 19, 18, FALSE, 24, 32, 256, 256)],
     ProdigyHD2  |-> [AK4396 |-> Akm(8, 9, 10, 0, FALSE)]]

Word(c, w) ==
    (c.prefix * c.registers + (w.reg % c.registers)) * c.values
        + (w.data % c.values)

\* Mutant: least significant bit first.
BitsReversed(c, word) ==
    [k \in 1 .. 3 * c.width |->
        CASE k % 3 = 1 -> Set({}, {c.clk})
          [] k % 3 = 2 -> IF BitSet(word, (k - 1) \div 3)
                          THEN Set({c.data}, {}) ELSE Set({}, {c.data})
          [] k % 3 = 0 -> Set({c.clk}, {})]

\* For every bit, from the highest: drop clock, set data, raise clock.
Bits(c, word) ==
    [k \in 1 .. 3 * c.width |->
        CASE k % 3 = 1 -> Set({}, {c.clk})
          [] k % 3 = 2 -> IF BitSet(word, c.width - 1 - ((k - 1) \div 3))
                          THEN Set({c.data}, {}) ELSE Set({}, {c.data})
          [] k % 3 = 0 -> Set({c.clk}, {})]

\* akm4xxx_write: select, bits, deselect.  With cif the codec stays deselected
\* (which with the flags is part of the first write) up to the end, where a
\* pulse latches the word.
AkmFrame(c, addflags, word) ==
    IF c.cif
    THEN << Set(addflags \cup {c.cs}, {c.clk}) >> \o Tail(Bits(c, word))
            \o << Set({}, {c.cs}), Set({c.cs}, {}) >>
    ELSE << Set(addflags, {c.cs}) >> \o Bits(c, word) \o << Set({c.cs}, {}) >>

\* akm4xxx_write_new, for codecs with csaddr # csmask: csaddr is what is high
\* while the codec is selected, csnone while none is.
AkmNewFrame(c, csmask, csaddr, csnone, addflags, word) ==
    << Set(addflags \cup csaddr, csmask \ csaddr) >> \o Bits(c, word)
        \o << Set(csnone, csmask \ csnone) >>

\* ap192_WriteSpiReg: data low, clock high, then all selects but the codec's.
AP192Frame(c, word) ==
    << Set({}, {3}), Set({1}, {}), Set({4, 5} \ {c.cs}, {c.cs}) >>
        \o Bits(c, word) \o << Set({4, 5}, {}) >>

\* aureon_spi_write: pin 17 says write; the clock ends high.
AureonFrame(c, word) ==
    << Mask({}, {17}, {c.cs}) >> \o Bits(c, word)
        \o << Set({c.cs}, {c.clk}), Set({c.clk}, {}) >>

\* ak4396_write: only the codec's pins stay outputs, and unmasked.
AK4396Frame(c, word) ==
    LET own == {c.cs, c.clk, c.data}
    IN  << SaveGPIO, Lines(own, AllBut(own), {}, {}), Set({}, {c.cs}) >>
            \o Bits(c, word) \o << Set({c.cs}, {}), RestoreGPIO >>

-----------------------------------------------------------------------------
(* The AC'97 codec of the Aureon, behind latches *)

AC97Pins == [reset |-> 16, commit |-> 11, addr |-> 10, low |-> 9, high |-> 8]

Pulse(pin) == << Set({pin}, {}), Set({}, {pin}) >>

\* A byte on pins 0 to 7.
OnDataPins(byte) ==
    LET up == {i \in 0 .. 7 : BitSet(byte, i)} IN Set(up, 0 .. 7 \ up)

\* aureon_ac97_write
AC97Frame(w) ==
    << OnDataPins(w.reg % 128) >> \o Pulse(AC97Pins.addr)
        \o << OnDataPins(w.data % 256) >> \o Pulse(AC97Pins.low)
        \o << OnDataPins(w.data \div 256) >> \o Pulse(AC97Pins.high)
        \o Pulse(AC97Pins.commit)

-----------------------------------------------------------------------------
(* The volume controller PT2258 of the Revolution 5.1, on an I2C bus *)

Sda == 6
Scl == 7
PT2258Address == 128   \* 0x40 << 1

\* Revo51_SetDir_CLK_SDA; gpio_dir holds no other pin.
I2CDirection(out) == Lines(out, AllBut({Sda, Scl}), {}, {})

\* Revo51_Write_CLK_SDA: every pin that is not masked is written.
I2CLines(high) ==
    Lines({Sda, Scl}, AllBut({Sda, Scl}), high, Pins \ high)

I2CStart == << SaveGPIO, I2CDirection({Sda, Scl}), I2CLines({Sda, Scl}),
               I2CLines({Scl}), I2CLines({}) >>
I2CStop == << I2CLines({}), I2CLines({Scl}), I2CLines({Sda, Scl}),
              RestoreGPIO >>

\* I2C_bit_send
I2CBit(b) == LET sda == IF b THEN {Sda} ELSE {}
             IN  << I2CLines(sda), I2CLines(sda \cup {Scl}), I2CLines(sda) >>

\* I2C_bit_ack; the bit that is read while SDA is an input is not used.
I2CAck == << I2CLines({Sda}), I2CLines({Sda, Scl}), I2CDirection({Scl}),
             I2CDirection({Sda, Scl}), I2CLines({Sda}) >>

I2CByte(byte) ==
    [k \in 1 .. 24 |-> I2CBit(BitSet(byte, 7 - ((k - 1) \div 3)))[((k - 1) % 3) + 1]]
        \o I2CAck

\* I2C_bit_sendbytes: the address, then the bytes of the message, which is
\* written as one number.
I2CFrame(message) ==
    I2CStart \o I2CByte(PT2258Address)
        \o (IF message < 256 THEN <<>> ELSE I2CByte(message \div 256))
        \o I2CByte(message % 256) \o I2CStop

-----------------------------------------------------------------------------
(* What card_init does to the registers between the writes *)

\* Dirs
Outputs ==
    LET revo == {1, 3, 4, 5, 6, 7, 22}
    IN  [Revo71 |-> revo, Revo51 |-> revo, Phase22 |-> Pins, AP192 |-> Pins,
         AureonSpace |-> Pins \ {21}, ProdigyHD2 |-> Pins \ {21}]

Masked ==
    [Revo71 |-> {0, 2} \cup 7 .. 11 \cup 16 .. 21,
     Revo51 |-> {0, 2} \cup 8 .. 11 \cup 16 .. 21,
     Phase22 |-> {}, AP192 |-> {}, AureonSpace |-> {}, ProdigyHD2 |-> {}]

MutePin == 22
Revolutions == {"Revo51", "Revo71"}

\* Mutant: the mask of the wake before is left as it is.
BootKeepsMask(card) ==
    LET high == IF card \in Revolutions THEN {1, 4, 5, 6} ELSE {0, 3, 4, 11, 12, 13}
    IN  Set(high, (IF card \in Revolutions THEN Pins ELSE 0 .. 15) \ high)

\* Mask, directions and levels that a card starts with: 0x0072, with the upper
\* half low, or 0x3819.
Boot(card) ==
    LET high == IF card \in Revolutions THEN {1, 4, 5, 6} ELSE {0, 3, 4, 11, 12, 13}
    IN  Lines(Outputs[card], Masked[card], high,
              (IF card \in Revolutions THEN Pins ELSE 0 .. 15) \ high)

Mute == << Set({}, {MutePin}) >>
Unmute == << Set({MutePin}, {}) >>

\* In ap192_Set_48K_Mode: the mode of the ADC, and its reset.
AdcMode == << Set({}, {8}), Set({}, {9}), Set({}, {10}), Set({}, {11}), Set({11}, {}) >>

\* ap192_card_init: "Select S/PDIF output mux".
SelectMux == << Set({}, {5}) >>

\* In aureon_ac97_init
ColdReset == << Set({AC97Pins.reset}, 0 .. 7), Set({}, {AC97Pins.reset}),
                Set({AC97Pins.reset}, {}) >>

\* The reset of the Aureon's serial codecs; it deselects them.
ResetCodecs == << Mask(AllBut({20, 12, 22}), {}, {20}), Set({12, 22}, {}), Set({20}, {}) >>

SetUpFrame(card, step) ==
    CASE step = "boot"   -> << Boot(card) >>
      [] step = "mute"   -> Mute
      [] step = "unmute" -> Unmute
      [] step = "adc"    -> AdcMode
      [] step = "mux"    -> SelectMux
      [] step = "ac97"   -> ColdReset
      [] step = "codecs" -> ResetCodecs

SetUpSteps == {"boot", "mute", "unmute", "adc", "mux", "ac97", "codecs"}

\* The accesses of one call: a step of the set-up, or a write.
Frame(card, w) ==
    IF w.chip \in SetUpSteps THEN SetUpFrame(card, w.chip)
    ELSE IF w.chip = "AC97" THEN AC97Frame(w)
    ELSE IF w.chip = "PT2258" THEN I2CFrame(w.data)
    ELSE LET c    == Wiring[card][w.chip]
             word == Word(c, w)
         IN  CASE card = "Revo71"      -> AkmFrame(c, {}, word)
               [] card = "Phase22"     -> AkmFrame(c, {3}, word)
               [] card = "Revo51"      -> AkmNewFrame(c, {4, 5}, {4, 5} \ {c.cs},
                                                      {4, 5}, {1}, word)
               [] card = "AP192"       -> AP192Frame(c, word)
               [] card = "AureonSpace" -> AureonFrame(c, word)
               [] card = "ProdigyHD2"  -> AK4396Frame(c, word)
=============================================================================
