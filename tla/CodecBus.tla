------------------------------ MODULE CodecBus ------------------------------
(***************************************************************************)
(* How register writes get to the codecs: through GPIO pins (GpioFrames),  *)
(* or through the chip's I2C controller (WaitForI2C, WriteI2C and ReadI2C  *)
(* in src/misc.cpp).  card_init identifies the card and sets its codecs    *)
(* up, at first and on every wake; then the mixer writes.  One thread      *)
(* makes one call after the other; the codecs, each with what its port     *)
(* makes of the pins, and the I2C controller are the other actors.         *)
(***************************************************************************)
EXTENDS GpioFrames, FiniteSets

CONSTANTS
    Tables,    \* for each card and chip the set-up writes: <<reg, data>>
    Targets,   \* for each card the registers the mixer writes: <<chip, reg>>
    DataFor,   \* for each card the values it writes
    Eeprom,    \* the bytes of the card's EEPROM that card_init reads
    MaxPolls,  \* bound: the 10000 polls WaitForI2C makes
    None, Default

ASSUME ConstantsAssumption ==
    /\ MaxPolls \in Nat \ {0}
    /\ DOMAIN Targets = DOMAIN DataFor /\ DOMAIN Targets = DOMAIN Tables
    /\ Eeprom \in Seq(0 .. 255) /\ Len(Eeprom) <= 256

VARIABLES
    card,     \* the card in the machine
    at,       \* the call of card_init that is next, 0 outside of it
    ready,    \* card_init has succeeded: there are mixer controls
    misread,  \* the EEPROM was: the card is not recognised
    call,     \* the call the thread is at, or None
    pc,       \* "idle", "gpio", or a step of WriteI2C or ReadI2C
    n,        \* the next access of the frame
    pins, dir, masked, saved, \* the GPIO registers, and what SaveGPIO keeps
    shift,    \* the serial codecs' shift registers
    latches,  \* the address and data latches before the AC'97 codec
    bus,      \* the PT2258 on its I2C bus
    latched,  \* the call's write has landed
    polls,    \* of WaitForI2C
    late,     \* WaitForI2C gave up once
    addr, data, \* CCS_I2C_ADDR and CCS_I2C_DATA
    transfer, \* the call the I2C controller was started for, or None
    regs      \* the codecs' registers, Default until written

init == <<at, ready, misread>>
gpio == <<n, pins, dir, masked, saved, shift, latches, bus, latched>>
i2c  == <<polls, late, addr, data, transfer>>
vars == <<card, init, call, pc, gpio, i2c, regs>>

Call(chip, reg, value) == [chip |-> chip, reg |-> reg, data |-> value]

-----------------------------------------------------------------------------
(* The calls *)

Cards == DOMAIN Targets

\* The cards whose codecs are on GPIO pins.
OnGpio == DOMAIN Wiring

Step(name) == << Call(name, 0, 0) >>

\* A codec's set-up table.
Codec(c, chip) ==
    [i \in DOMAIN Tables[c][chip] |->
        Call(chip, Tables[c][chip][i][1], Tables[c][chip][i][2])]

\* The bytes of the EEPROM, read twice: the first values are not used.
Identify ==
    [i \in 1 .. 2 * Len(Eeprom) |->
        Call("EEPROM", (i - 1) % Len(Eeprom), (i - 1) \div Len(Eeprom))]

\* Revo51_Init, which sets up the PT2258, comes after the outputs are unmuted.
Revo51SetUp(c) ==
    Step("boot") \o Step("mute") \o Codec(c, "Front") \o Codec(c, "Rec")
        \o Step("unmute") \o Codec(c, "PT2258")

Revo71SetUp(c) ==
    Step("boot") \o Step("mute") \o Codec(c, "Front") \o Codec(c, "Surround")
        \o Step("unmute")

Phase22SetUp(c) == Step("boot") \o Codec(c, "Front")

\* ap192_card_init; ap192_Mute ends the soft mute too.
AP192SetUp(c) ==
    Step("boot") \o Codec(c, "AP192") \o Step("adc")
        \o Step("unmute") \o << Call("AP192", 1, 1) >>
        \o Step("mux") \o Step("mux")

AureonSetUp(c) ==
    Step("boot") \o Step("ac97") \o Codec(c, "AC97")
        \o Step("codecs") \o Codec(c, "Aureon") \o Codec(c, "CS8415")

ProdigyHD2SetUp(c) == Step("boot") \o Codec(c, "AK4396")

JuliaSetUp(c) == Identify \o Codec(c, "AK4358") \o Codec(c, "AK4114")

\* card_init.  What precedes the first GPIO access is left to the cards
\* without GPIO codecs: it is the same for all.
SetUp ==
    [c \in Cards |->
       CASE c = "Revo71"      -> Revo71SetUp(c)
         [] c = "Revo51"      -> Revo51SetUp(c)
         [] c = "Phase22"     -> Phase22SetUp(c)
         [] c = "AP192"       -> AP192SetUp(c)
         [] c = "AureonSpace" -> AureonSetUp(c)
         [] c = "ProdigyHD2"  -> ProdigyHD2SetUp(c)
         [] c = "Julia"       -> JuliaSetUp(c)
         [] c = "Maya44"      -> Identify]

WritesOf(c) ==
    {Call(t[1], t[2], d) : t \in Targets[c], d \in DataFor[c]}

CallsOf == [c \in Cards |-> WritesOf(c) \cup {SetUp[c][i] : i \in DOMAIN SetUp[c]}]

IsRead(w) == w.chip = "EEPROM"
IsWrite(w) == w.chip \notin SetUpSteps \cup {"EEPROM"}

\* The chips with a set-up table.
ChipsOf ==
    [Revo71      |-> {"Front", "Surround"},
     Revo51      |-> {"Front", "Rec", "PT2258"},
     Phase22     |-> {"Front"},
     AP192       |-> {"AP192"},
     AureonSpace |-> {"AC97", "Aureon", "CS8415"},
     ProdigyHD2  |-> {"AK4396"},
     Julia       |-> {"AK4358", "AK4114"},
     Maya44      |-> {}]

Words16 == {x \in Nat : x < 256 * 256}

\* Register and value are ones that the chip has.
Fits(c, chip, reg, value) ==
    IF c \notin OnGpio THEN reg \in 0 .. 255 /\ value \in 0 .. 255
    ELSE IF chip \in DOMAIN Wiring[c]
    THEN /\ reg \in 0 .. Wiring[c][chip].registers - 1
         /\ value \in 0 .. Wiring[c][chip].values - 1
    ELSE /\ reg \in IF chip = "PT2258" THEN {0} ELSE 0 .. 127
         /\ value \in Words16

\* Of the codecs on pins the mixer writes those with a serial port.
ASSUME TablesAssumption ==
    /\ Cards \subseteq DOMAIN ChipsOf
    /\ \A c \in Cards :
          /\ None \notin CallsOf[c]
          /\ \A chip \in ChipsOf[c] :
                /\ Tables[c][chip] \in Seq(Nat \X Nat)
                /\ \A i \in DOMAIN Tables[c][chip] :
                      Fits(c, chip, Tables[c][chip][i][1], Tables[c][chip][i][2])
          /\ \A t \in Targets[c] :
                /\ IF c \in OnGpio THEN t[1] \in ChipsOf[c] \cap DOMAIN Wiring[c]
                   ELSE t[1] \notin SetUpSteps \cup {"EEPROM"}
                /\ \A d \in DataFor[c] : Fits(c, t[1], t[2], d)

AllWrites == {w \in UNION {CallsOf[c] : c \in Cards} : IsWrite(w)}

Frames == [c \in OnGpio \cap Cards |-> [w \in CallsOf[c] |-> Frame(c, w)]]

\* The codecs on serial ports, and all, those that are never written included.
Serial(c) == IF c \in OnGpio THEN DOMAIN Wiring[c] ELSE {}
Codecs(c) == Serial(c) \cup {w.chip : w \in {v \in CallsOf[c] : IsWrite(v)}}

NoBits == [bits |-> 0, word |-> 0]
Quiet == [on |-> FALSE, bits |-> 0, byte |-> 0, bytes |-> 0, message |-> 0,
          pulls |-> FALSE]

Init ==
    /\ card \in Cards
    /\ at = 1 /\ ready = FALSE /\ misread = FALSE
    /\ call = None /\ pc = "idle" /\ n = 0
    /\ pins \in IF card \in OnGpio THEN {{}, Pins} ELSE {{}}
    /\ dir = {} /\ masked = {} /\ saved = [dir |-> {}, masked |-> {}]
    /\ shift = [c \in Serial(card) |-> NoBits]
    /\ latches = [addr |-> 0, low |-> 0, high |-> 0]
    /\ bus = Quiet /\ latched = FALSE
    /\ polls = 0 /\ late = FALSE
    /\ addr = 0 /\ data = 0 /\ transfer = None
    /\ regs = [r \in Codecs(card) \X {w.reg : w \in CallsOf[card]} |-> Default]

\* A call begins.
Enter(w) ==
    /\ call' = w
    /\ IF card \in OnGpio THEN pc' = "gpio" /\ n' = 1 ELSE pc' = "wait" /\ n' = n
    /\ latched' = FALSE /\ polls' = 0
    /\ UNCHANGED <<card, pins, dir, masked, saved, shift, latches, bus, late,
                   addr, data, transfer, regs>>

\* volumeChanged or outputMuteChanged write a register.  Bound: not after
\* WaitForI2C gave up, as Wake.
Request(w) ==
    /\ pc = "idle" /\ at = 0 /\ ready /\ ~late
    /\ Enter(w)
    /\ UNCHANGED init

\* card_init goes on to its next call, unless it has not recognised the card.
SetUpCall ==
    /\ pc = "idle" /\ at \in DOMAIN SetUp[card]
    /\ misread => IsRead(SetUp[card][at])
    /\ Enter(SetUp[card][at])
    /\ at' = at + 1
    /\ UNCHANGED <<ready, misread>>

\* card_init returns.
SetUpReturns ==
    /\ pc = "idle" /\ at # 0
    /\ \/ at = Len(SetUp[card]) + 1 /\ ready' = (ready \/ ~misread)
       \/ at <= Len(SetUp[card]) /\ misread /\ ~IsRead(SetUp[card][at])
          /\ ready' = ready
    /\ at' = 0
    /\ UNCHANGED <<card, misread, call, pc, gpio, i2c, regs>>

\* performPowerStateChange: card_init once more; its result is not looked at.
Wake ==
    /\ pc = "idle" /\ at = 0 /\ ready /\ ~late
    /\ at' = 1 /\ misread' = FALSE
    /\ UNCHANGED <<card, ready, call, pc, gpio, i2c, regs>>

-----------------------------------------------------------------------------
(* The devices on the pins *)

\* What a serial codec makes of the pins' change: selected anew it forgets the
\* bits it has; selected, it takes the data pin as the clock rises.
Shifted(w, s, new) ==
    LET anew == w.cs \in pins /\ w.cs \notin new /\ ~w.cif
        s1   == IF anew THEN NoBits ELSE s
    IN  IF w.clk \in new \ pins /\ (w.cs \notin new \/ w.cif)
        THEN [bits |-> IF s1.bits <= w.width THEN s1.bits + 1 ELSE s1.bits,
              word |-> (2 * s1.word + (IF w.data \in new THEN 1 ELSE 0))
                           % 2^w.width]
        ELSE s1

\* A whole word, to the codec's prefix, writes a register as the select rises.
Latches(w, new) == w.cs \in new \ pins

Decoded(chip, s) ==
    LET w == Wiring[card][chip]
    IN  IF s.bits = w.width /\ s.word \div (w.registers * w.values) = w.prefix
        THEN {Call(chip, (s.word \div w.values) % w.registers, s.word % w.values)}
        ELSE {}

\* The Aureon's latches take the data pins, and the AC'97 codec what they hold,
\* as the pulse on their pin ends.
DataPins ==
    LET bit(i) == IF i \in pins THEN 2^i ELSE 0
    IN  bit(0) + bit(1) + bit(2) + bit(3) + bit(4) + bit(5) + bit(6) + bit(7)

Relatched(new) ==
    LET taken(pin, old) == IF pin \in pins \ new THEN DataPins ELSE old
    IN  [addr |-> taken(AC97Pins.addr, latches.addr),
         low  |-> taken(AC97Pins.low, latches.low),
         high |-> taken(AC97Pins.high, latches.high)]

Committed(new) ==
    IF AC97Pins.commit \in pins \ new
    THEN {Call("AC97", latches.addr % 128, 256 * latches.high + latches.low)}
    ELSE {}

\* The level of an I2C line: an input floats high; the device may pull SDA.
Level(line, levels, out) ==
    (line \in levels \/ line \notin out) /\ ~(line = Sda /\ bus.pulls)

\* A start or a stop: SDA falls or rises while SCL stays high.
Starts(new, out) ==
    /\ Level(Scl, pins, dir) /\ Level(Scl, new, out)
    /\ Level(Sda, pins, dir) /\ ~Level(Sda, new, out)
Stops(new, out) ==
    /\ Level(Scl, pins, dir) /\ Level(Scl, new, out)
    /\ ~Level(Sda, pins, dir) /\ Level(Sda, new, out)

\* The end of a byte: the address, or one of the message.
Acknowledged ==
    IF bus.bytes = 0 /\ bus.byte # PT2258Address THEN Quiet
    ELSE [bus EXCEPT !.pulls = TRUE,
                     !.bytes = IF @ < 3 THEN @ + 1 ELSE @,
                     !.message = IF bus.bytes = 0 THEN 0
                                 ELSE 256 * (@ % 256) + bus.byte]

\* The PT2258 listens from a start to a stop, takes bits as SCL rises, and
\* acknowledges a byte, if it is addressed, from the eighth fall of SCL to the
\* ninth.
Heard(new, out) ==
    LET rises == ~Level(Scl, pins, dir) /\ Level(Scl, new, out)
        falls == Level(Scl, pins, dir) /\ ~Level(Scl, new, out)
    IN  CASE Starts(new, out) -> [Quiet EXCEPT !.on = TRUE]
          [] ~Starts(new, out) /\ (Stops(new, out) \/ ~bus.on) -> Quiet
          [] bus.on /\ rises /\ bus.bits = 8 -> [bus EXCEPT !.bits = 9]
          [] bus.on /\ rises /\ bus.bits < 8 ->
                [bus EXCEPT !.bits = @ + 1,
                            !.byte = 2 * @ + (IF Level(Sda, new, out) THEN 1 ELSE 0)]
          [] bus.on /\ falls /\ bus.bits = 8 -> Acknowledged
          [] bus.on /\ falls /\ bus.bits = 9 ->
                [bus EXCEPT !.pulls = FALSE, !.bits = 0, !.byte = 0]
          [] OTHER -> bus

\* A message takes effect at its end.
Stopped(new, out) ==
    IF bus.on /\ bus.bytes > 1 /\ Stops(new, out)
    THEN {Call("PT2258", 0, bus.message)} ELSE {}

-----------------------------------------------------------------------------
(* GPIO *)

\* SetGPIODir, SetGPIOMask, SaveGPIO and RestoreGPIO, which saves directions
\* and the lower mask.
Directed(access) ==
    CASE access.op = "lines"   -> access.out
      [] access.op = "restore" -> saved.dir
      [] OTHER                 -> dir

MaskOf(access) ==
    CASE access.op \in {"lines", "mask"} -> access.masked
      [] access.op = "restore" -> saved.masked \cup (masked \cap 16 .. 22)
      [] OTHER                 -> masked

Saved(access) ==
    IF access.op = "save"
    THEN [dir |-> dir, masked |-> masked \ (16 .. 22)] ELSE saved

\* SetGPIOData: the pins that are not masked get their level.
Levels(access) ==
    (pins \cup (access.up \ MaskOf(access))) \ (access.down \ MaskOf(access))

\* The codecs whose select rises, and the writes that land, as the pins change
\* from what they are to new and their directions to out.
Latching(new) == {c \in DOMAIN shift : Latches(Wiring[card][c], new)}

FromCodecs(new) == UNION {Decoded(c, shift[c]) : c \in Latching(new)}

Landing(new, out) ==
    FromCodecs(new)
        \cup (IF card = "AureonSpace" THEN Committed(new) ELSE {})
        \cup (IF card = "Revo51" THEN Stopped(new, out) ELSE {})

\* The devices make of the change what they do.
Change(new, out) ==
    /\ pins' = new /\ dir' = out
    /\ shift' = [c \in DOMAIN shift |->
                    IF c \in Latching(new) THEN NoBits
                    ELSE Shifted(Wiring[card][c], shift[c], new)]
    /\ latches' = IF card = "AureonSpace" THEN Relatched(new) ELSE latches
    /\ bus' = IF card = "Revo51" THEN Heard(new, out) ELSE bus
    /\ regs' = [r \in DOMAIN regs |->
                   IF \E l \in Landing(new, out) : <<l.chip, l.reg>> = r
                   THEN (CHOOSE l \in Landing(new, out) : <<l.chip, l.reg>> = r).data
                   ELSE regs[r]]
    /\ latched' = (latched \/ Landing(new, out) # {})

\* The next access of the frame.
WriteGpio ==
    /\ pc = "gpio"
    /\ \E frame \in {Frames[card][call]} :
          /\ \E new \in {Levels(frame[n])}, out \in {Directed(frame[n])} :
                Change(new, out)
          /\ masked' = MaskOf(frame[n])
          /\ saved' = Saved(frame[n])
          /\ IF n < Len(frame)
             THEN n' = n + 1 /\ UNCHANGED <<pc, call>>
             ELSE n' = 0 /\ pc' = "idle" /\ call' = None
    /\ UNCHANGED <<card, init, i2c>>

-----------------------------------------------------------------------------
(* WriteI2C and ReadI2C *)

\* What follows a WaitForI2C.
AfterWait == [wait |-> "addr", wait_dev |-> "dev", wait_value |-> "value"]

\* Mutant: WaitForI2C polls for as long as it takes.
PollForever ==
    /\ pc \in DOMAIN AfterWait
    /\ IF transfer = None
       THEN pc' = AfterWait[pc] /\ polls' = 0 /\ late' = late
       ELSE UNCHANGED <<pc, polls, late>>
    /\ UNCHANGED <<card, init, call, gpio, addr, data, transfer, regs>>

\* Mutant: one poll is one too many.
PollOnceMore ==
    /\ pc \in DOMAIN AfterWait
    /\ IF transfer = None
       THEN pc' = AfterWait[pc] /\ polls' = 0 /\ late' = late
       ELSE /\ polls' = polls + 1
            /\ IF polls > MaxPolls
               THEN pc' = AfterWait[pc] /\ late' = TRUE
               ELSE UNCHANGED <<pc, late>>
    /\ UNCHANGED <<card, init, call, gpio, addr, data, transfer, regs>>

\* One poll of WaitForI2C; after the last its caller goes on all the same.
Poll ==
    /\ pc \in DOMAIN AfterWait
    /\ IF transfer = None
       THEN pc' = AfterWait[pc] /\ polls' = 0 /\ late' = late
       ELSE IF polls + 1 < MaxPolls
       THEN pc' = pc /\ polls' = polls + 1 /\ late' = late
       ELSE pc' = AfterWait[pc] /\ polls' = 0 /\ late' = TRUE
    /\ UNCHANGED <<card, init, call, gpio, addr, data, transfer, regs>>

WriteAddr ==
    /\ pc = "addr"
    /\ addr' = call.reg
    /\ pc' = IF IsRead(call) THEN "dev" ELSE "data"
    /\ UNCHANGED <<card, init, call, gpio, polls, late, data, transfer, regs>>

WriteData ==
    /\ pc = "data"
    /\ data' = call.data
    /\ pc' = "wait_dev"
    /\ UNCHANGED <<card, init, call, gpio, polls, late, addr, transfer, regs>>

\* Mutant: ReadI2C does not wait for what it has asked for.
WriteDeviceNoWait ==
    /\ pc = "dev"
    /\ transfer' \in IF transfer = None THEN {call} ELSE {transfer, call}
    /\ IF IsRead(call) THEN call' = call /\ pc' = "value"
                       ELSE call' = None /\ pc' = "idle"
    /\ UNCHANGED <<card, init, gpio, polls, late, addr, data, regs>>

\* Writing the device address starts a transfer; WriteI2C then returns.  What
\* a busy controller makes of it is not known: it goes on, or starts anew.
WriteDevice ==
    /\ pc = "dev"
    /\ transfer' \in IF transfer = None THEN {call} ELSE {transfer, call}
    /\ IF IsRead(call) THEN call' = call /\ pc' = "wait_value"
                       ELSE call' = None /\ pc' = "idle"
    /\ UNCHANGED <<card, init, gpio, polls, late, addr, data, regs>>

\* ReadI2C returns what CCS_I2C_DATA holds.  Of the second readings card_init
\* makes out which card it is.
ReadValue ==
    /\ pc = "value"
    /\ misread' = (misread \/ (call.data = 1 /\ data # Eeprom[call.reg + 1]))
    /\ call' = None /\ pc' = "idle"
    /\ UNCHANGED <<card, at, ready, gpio, i2c, regs>>

\* The controller ends a transfer of what its registers hold, or never does.
Transferred ==
    /\ transfer # None
    /\ IF IsRead(transfer)
       THEN /\ data' = IF addr + 1 \in DOMAIN Eeprom THEN Eeprom[addr + 1] ELSE 0
            /\ regs' = regs
       ELSE /\ regs' = [regs EXCEPT ![<<transfer.chip, addr>>] = data]
            /\ data' = data
    /\ transfer' = None
    /\ UNCHANGED <<card, init, call, pc, gpio, polls, late, addr>>

-----------------------------------------------------------------------------
ThreadStep ==
    \/ SetUpCall \/ SetUpReturns
    \/ WriteGpio
    \/ Poll \/ WriteAddr \/ WriteData \/ WriteDevice \/ ReadValue

Next ==
    \/ \E w \in WritesOf(card) : Request(w)
    \/ Wake
    \/ ThreadStep
    \/ Transferred

Spec == Init /\ [][Next]_vars

\* The thread is not held up; of the controller nothing is promised.
FairSpec == Spec /\ WF_vars(ThreadStep)

-----------------------------------------------------------------------------
(* Properties *)

\* Every variable keeps its type; no register gets more bits than it has.
TypeOK ==
    /\ card \in Cards
    /\ at \in 0 .. Len(SetUp[card]) + 1
    /\ ready \in BOOLEAN /\ misread \in BOOLEAN
    /\ call \in CallsOf[card] \cup {None}
    /\ pc \in {"idle", "gpio", "addr", "data", "dev", "value"}
                  \cup DOMAIN AfterWait
    /\ n \in 0 .. 96
    /\ pins \subseteq Pins /\ dir \subseteq Pins /\ masked \subseteq Pins
    /\ saved.dir \subseteq Pins /\ saved.masked \subseteq 0 .. 15
    /\ \A c \in DOMAIN shift :
          shift[c].bits \in 0 .. Wiring[card][c].width + 1
    /\ latches \in [addr : 0 .. 255, low : 0 .. 255, high : 0 .. 255]
    /\ bus.bits \in 0 .. 9 /\ bus.byte \in 0 .. 255 /\ bus.bytes \in 0 .. 3
    /\ latched \in BOOLEAN /\ late \in BOOLEAN
    /\ polls \in 0 .. MaxPolls - 1
    /\ addr \in 0 .. 255 /\ data \in 0 .. 255
    /\ transfer \in CallsOf[card] \cup {None}
    /\ \A r \in DOMAIN regs : regs[r] = Default \/ regs[r] \in Words16

\* The writes on their way: one the I2C controller is at, one the thread is.
OnTheirWay ==
    (IF transfer = None \/ IsRead(transfer) THEN <<>> ELSE <<transfer>>)
        \o (IF call = None \/ ~IsWrite(call) \/ latched THEN <<>> ELSE <<call>>)

Expected == INSTANCE CodecWrites WITH
               Writes <- AllWrites,
               queue <- OnTheirWay

\* Whatever codecs share the pins, whatever was written before, and however
\* the I2C controller's progress falls between the thread's steps: every write
\* of card_init and of the mixer lands once, unchanged and in order, in the
\* register it is for and no other, unless WaitForI2C ever gave up.
WritesReachTheCodecs == Expected!Spec

\* card_init and every write return even if the I2C controller never does:
\* "failed!" is logged and the driver goes on.
CallsReturn == (at # 0 \/ pc # "idle") ~> (at = 0 /\ pc = "idle")

\* card_init keeps a Revolution's outputs muted while its serial codecs are set
\* up, at every wake, and the outputs are unmuted and stay so afterwards: "Has
\* to be after mute, otherwise the mask is changed in Revo51_Init()".  (The
\* Audiophile 192's are unmuted by ap192_Mute.)
MuteFollowsSetUp ==
    /\ card \in Revolutions /\ at # 0 /\ pc = "gpio" /\ call.chip \in Serial(card)
          => MutePin \notin pins
    /\ card \in Revolutions \cup {"AP192"} /\ ready /\ at = 0
          => MutePin \in pins \cap dir

\* The card's EEPROM is misread, and the card given up, only if the controller
\* was busy for longer than WaitForI2C waits, also at a wake while a write of
\* the mixer is still on its way.
CardIsIdentified == misread => late

\* "Select S/PDIF output mux" (audiophile192.cpp:557): between calls the pin
\* that selects the output stays as ap192_card_init left it.
SpdifStaysSelected == card = "AP192" /\ ready /\ at = 0 /\ pc = "idle" => 5 \notin pins
=============================================================================
