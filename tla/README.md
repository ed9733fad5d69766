# Envy24HT: specifications and proofs

The Envy24HT driver runs VIA Envy24HT and Envy24PT sound cards under macOS'
IOAudioFamily. This directory holds TLA+ specifications of it, the TLC
configurations that check them on small instances, and proofs checked by TLAPS.
Paths are those of the repository; `PROJECT.json` lists for every definition the
lines it models, for every run what it shows, and for every property a mutated
definition under which it fails.

    tlc -config engine_up.cfg MCAudioEngine      # one run
    tlapm AudioEngineProofs.tla                  # the proofs of one module

## 1. The system

| Component | State | Operations | Acts together with |
|---|---|---|---|
| Audio engine (`AudioEngine.cpp`) | MT registers: DMA control, interrupt mask and status, under-run, lengths; `SPDIF_RateSupported`, `currentSampleRate`; the event source | `performAudioEngineStart`, `-Stop`, `performFormatChange`, `stop`, `filterInterrupt` | the DMA channels (shared registers), IOAudioFamily (calls through the command gate; `takeTimeStamp()`) |
| Device and object lifecycle (`AudioDevice.cpp`, `AudioEngine.cpp`) | `card`, register maps, codec objects, the engine, its DMA buffers, power state | `initHardware` (device, engine), `createAudioEngine`, `performPowerStateChange`, `stop`, `free` | IOKit (calls), the chip (addresses of the buffers), the filter (uses all of it) |
| Mixer (`AudioDevice.cpp`, tables in `misc.cpp`) | `ParmList` with its `MuteOffVal`s, the published controls, the codecs' registers | `createAudioEngine`, `volumeChanged`, `outputMuteChanged`, sleep and wake | IOAudioFamily (call-backs), the codecs through the next two |
| Bit-banged SPI and AC'97 (`ak_codec.cpp`, `audiophile192.cpp`, `misc.cpp`, `prodigy_hifi.cpp`) | GPIO data, mask and direction registers; the codecs' shift registers and latches | `akm4xxx_write`, `akm4xxx_write_new`, `ap192_WriteSpiReg`, `aureon_spi_write`, `aureon_ac97_write`, `ak4396_write` | codecs that share pins |
| I2C controller (`misc.cpp`) | address, data, device and status registers | `WaitForI2C`, `WriteI2C`, `ReadI2C` | the controller, which works on its own |
| Bit-banged I2C (`I2C.cpp`, `Revo51.cpp`) | GPIO pins 6 and 7, saved direction and mask | start, stop, byte, acknowledge; the volume controller of the Revolution 5.1 | `SaveGPIO`, `RestoreGPIO`, the codecs on the other pins |
| Card detection and set-up (`card_init`) | sub-type, configuration registers, GPIO mask and directions, the mute pin | EEPROM read, the codecs' set-up tables, at first and on every wake | everything above starts from what it leaves |
| Samples (`AudioEngine.cpp`, `SampleAudioClip.cpp`, `SampleConvert.h`) | ring buffers, their lengths in the chip | `getCurrentSampleFrame`, `eraseOutputSamples`, `clipOutputSamples`, `convertInputSamples` | the chip, the framework's erase timer, clients; none holds a lock |

What is hard in it:

* **Interleavings.** The interrupt filter runs in primary interrupt context and
  shares `MT_INTR_MASK`, `MT_INTR_STATUS` and the channels' state with the work
  loop, without a lock. `ClearMask8` and `WriteMask8` read, change and write.
  The I2C controller still works when `WriteI2C` has returned. Chip, erase timer
  and clients work on one ring, each with its own idea of where the others are.
* **Ordering.** Which of "unmask", "clear pending", "start" and "detach the event
  source" comes first decides whether a loop is counted twice, or never, or an
  interrupt stays raised.
* **Partial failure.** `initHardware` acquires a dozen things in two classes and
  releases them on three paths; its callers ignore results.
* **Protocols.** Volumes and mutes share registers and table entries, codecs share
  pins; both must be right after any sequence of calls, also over sleep and wake.
* **Stale state.** The GPIO mask outlives the call that set it, saving it leaves
  half of it out, and the erase timer erases by a position that has gone on.
* **Time-outs.** `WaitForI2C` gives up and its caller goes on.
* **Boundaries.** Ring lengths are split over registers, positions wrap, and the
  conversion of samples overflows where it does not saturate.

What makes each part correct: the engine's channels and interrupt follow its
state and its loop count counts loops; objects are released once and not while
chip or filter use them; a control's value is in its register; a register write
reaches the register it is for, and the outputs are muted while the codecs are
set up; what a client wrote is played once, and what was played is gone before
its turn comes again. The hazards, each at its line, are in
`PROJECT.json`.

## 2. Modules

| Module | What it is |
|---|---|
| `AudioEngine` | The engine, one step per access to a register that thread and filter share |
| `LoopClock` | Abstract: what IOAudioFamily expects of the loop count |
| `AudioEngineProofs` | The theorems about `AudioEngine` |
| `ParmLists` | The control tables of eight card families, as data |
| `Mixer` | The published controls and the two handlers behind them, sleep and wake |
| `MixerProofs` | The theorems about `Mixer` |
| `Lifecycle` | What device and engine acquire and release, with each failure |
| `LifecycleProofs` | The theorems about `Lifecycle` |
| `GpioFrames` | Which GPIO accesses one register write, or one step of the set-up, consists of on each wiring |
| `CodecBus` | The thread in `card_init` and the mixer, the codecs on the pins, the I2C controller |
| `GpioFramesProofs` | Lemmas: what every frame is, access by access |
| `CodecBusProofs` | The theorems about types, the I2C controller and the mute pin |
| `GpioWritesProofs` | Lemmas: what the accesses of a call do to the codecs on the pins |
| `CodecWritesProofs` | `CodecBus` implements `CodecWrites` |
| `CodecWrites` | Abstract: what mixer and `card_init` expect of a register write |
| `Samples` | The rings, between chip, erase timer and client |
| `SamplesProofs` | The theorems about `Samples` |
| `MC...` | Each specification with values for its constants |

`AudioEngine` implements `LoopClock`, `CodecBus` implements `CodecWrites`.
`CodecWrites` is also what `Mixer` takes for granted: there a write changes the
register at once. It may, because no handler reads a codec register back, and
because writes land in the order asked.

### AudioEngine

`tpc` and `fpc` are the program counters of the thread and the filter; `goal` is
the engine state when the call in progress returns. Every register that both
actors touch is read and written in steps of its own, so that `StartReadMask`
and `StartWriteMask` are the two halves of `ClearMask8(MT_INTR_MASK, ...)` and
`FifoReadMask`, `FifoWriteMask` those of the filter's `WriteMask8`. Accesses
that only one actor makes are part of the next shared one. `DmaWrap` and
`FifoError` are the chip. `Terminate` is `stop()` with the framework's stop of the
engine done before; `Wake` is a new engine after `card_init`.
With `SMP = FALSE` the thread stands still while the filter runs.

Taken for granted about what is not in the repository: IOAudioFamily's command
gate lets one call in at a time, starts only what is not running and stops only
what is; the filter does not interrupt itself; the line is raised while an
unmasked status bit is set (`PlayRec`); a wrap of PDMA0 is not followed by
another before the first is counted, which is the slack of a ring many
milliseconds long.

### Mixer and ParmLists

`ParmLists` has each `CreateParmsFor...` function as a sequence of records, in the
order the code appends them and with the values it overwrites overwritten.
`Mixer` keeps for every published control its value, for every entry its
`MuteOffVal`, and the codecs' registers. The look-up by `ControlID` takes the first
match, as the code does, which need not be the entry the control was made from.
`Encoded` has the three ways a value is changed before it is written.
`gainChanged` and `inputMuteChanged` change nothing.

A volume is moved to a value at most `Offsets` from an end of its range. What the
handlers rest on is said by four predicates on a table: `TableTyped`,
`LookupFits` (the first match has the control's own register, range and mute),
`VolumesApart` (no two volumes share a register, and a mute that shares one
restores the volume as it was written) and `MutesApart` (a mute with a register
of its own has two values). TLC evaluates them for all eight tables (`TablesFit`
in `MCMixer`): all hold but `VolumesApart` for the Revolution 7.1.

### Lifecycle

`stage` walks through `initHardware` of the device and, from `controls` on, through
`createAudioEngine` and the engine's; a stage in `Failures` may fail there. `card`
is `null`, `live` or `dangling`, because the code deletes it and keeps the
pointer. `fault` is the first access through a pointer that is null or dangling,
after which the system is taken to be gone. `dmaAddress` is what the chip was
told, `buffers` what is held. `failed` is a history variable: the stages that have
failed, which no guard reads, so that a property can say after which failures a
fault comes.

### GpioFrames and CodecBus

A frame is what one call does to the GPIO registers: a sequence of accesses, each
with the direction and mask it sets and the pins it raises and lowers, everything
else being as `GetGPIOData` read it. `SaveGPIO` and `RestoreGPIO` are accesses
too; they keep what the code keeps, which is not the mask of GPIO 16 to 22.
`WriteGpio` makes the next access: it goes through the mask as it is then, and
every device on the card's pins, selected or not, makes of the edges what its
port does:

* a serial codec shifts its data pin in as the clock rises while it is selected
  (in `cif` mode always) and decodes a whole word, with its own prefix, as its
  select rises;
* the AC'97 codec of the Aureon sits behind three latches, which take the data
  pins as the pulse on their pin falls. It has to be the falling edge: the levels
  a card starts with (0x3819) have the commit pin high, so that with the rising
  edge the first word would never be committed;
* the PT2258 of the Revolution 5.1 follows start, bits, acknowledge and stop on
  its two lines, of which an input floats high.

Whether the right register gets the right byte is thus said nowhere in the model
but comes out of the edges. The bus writes of one `SetGPIOData` are one step: no
frame needs the order of two edges that one call makes. Nor are the two calls of
`SetGPIOMask` with which `aureon_spi_write` first masks everything and then frees its
pins two steps: no pin is written between them, and the second overwrites what the
first left.

`SetUp` is `card_init` for each card: GPIO mask, directions and levels, mute, the
codecs' tables in their order, unmute, and what comes after; for cards on the I2C
controller first the EEPROM, read twice, of which the second reading counts. `at`
is the next call, `ready` says that there are mixer controls, `misread` that a
byte read is not the EEPROM's, so that the card is not recognised. The same reading
precedes set-up on every card; it is modelled for Julia and Maya44, whose codecs
share the controller with it, and left out for the others, where nothing else uses
the controller and reading touches no pin. `Wake` runs
it all again, on pins and mask as the mixer left them.

`addr`, `data` and `transfer` are the I2C controller's registers; a transfer uses
what they hold when it ends, and what writing the device address to a busy
controller does is left open.

The specification is one of any tables. `TablesAssumption` asks that the registers
and bytes they hold, and those the mixer writes, are ones the chips have (`Fits`),
which the types of the code's tables and its masks give, and that the mixer writes
no AC'97 codec and no PT2258, which no control is for. `ConstantsAssumption` asks that the
EEPROM has bytes and `WaitForI2C` polls at least once.

Taken for granted: codecs, latches, PT2258 and I2C controller behave as said (the
map marks them external); at power-on all pins are low or all high; an input pin
that is no I2C line keeps its level; codecs keep their registers over sleep; the
CS8415 answers to 0x20 in its first byte; the codec objects of the Revolution 7.1
are zero where `card_init` does not set them (`newflag`), as the kernel's
`operator new` leaves them, and so is `gpio_dir`; a `card_init` that fails on
waking up changes nothing else, its result being ignored.

### Samples

Positions are counted in dwords, of which a frame has one per channel. `pos` is
where the chip plays, `pos2` where it is in the rings of two channels. Three
actors take steps in any order: the chip plays a dword (`Play`); the framework's
erase timer asks `getCurrentSampleFrame` (`ReadPosition`) and then, with a position
that may be old, erases to the end of the ring and from its start
(`EraseToEnd`, `EraseUpTo`); a client has a range of frames clipped, converted and
written (`ClipOutputSamples`). `Start` programs the lengths through registers of
their width. A frame holds one sample, for all its channels are treated alike.
Samples are counted in quarters of a unit of the converted value, so that rounding
and the cast have something to cut off. `cleared` remembers what
`eraseOutputSamples` cleared; the S/PDIF ring itself is never written by anything
else.

Taken for granted about IOAudioFamily: the erase timer comes before the chip is
`EraseEvery` frames further, starts anew with the engine and does not run beside
Start or Stop; a client keeps `SampleOffset` (32, `AudioEngine.cpp:192`) frames
ahead of the chip and does not write frames that may still have to be erased.
`Clamped` is `clamp()` for samples up to 2^53; see section 5 for larger ones.

## 3. Runs

| Run | Instance | Shows |
|---|---|---|
| `engine_up` | one CPU, FIFO errors | types, interrupt mask follows the engine, every loop is counted and nothing else, the interrupt line falls |
| `engine_smp` | several CPUs, a concurrent channel, no FIFO errors | channels and mask follow the engine, the line falls |
| `engine_race` | several CPUs, FIFO errors | what survives the race for the mask |
| `engine_stale_loop` | several CPUs | violation: see 5.1 |
| `engine_lost_unmask` | several CPUs, FIFO errors | violation: see 5.2 |
| `mixer` | seven card families | moved volumes, and mutes with a register of their own, are in the codec |
| `mixer_shared_register` | Revolution 7.1 | violation: see 5.3 |
| `lifecycle` | three kinds of cards, every stage may fail | a deleted card or an empty handle is met after the failures that leave one, always, and after no others; no transfer to released memory, no filter without its objects, nothing left behind |
| `lifecycle_engine_fails` | the stages of the engine fail | violation: see 5.4 |
| `codec_bus` | eight cards, one of every wiring; set-up, wakes, mixer writes, a controller that may hang | writes reach the codecs as `CodecWrites` says; the outputs are muted while they should be; the card is recognised unless the controller was late; every call returns |
| `codec_bus_mux` | the same | violation: see 5.5 |
| `samples` | two, six and eight channels | what was written is played, nothing is played twice, the rings loop together, both rings are erased alike |

**Bounds.** `LoopMod = 3` tells a count of none, one and two apart; a step counts at
most one. `MCRates` has a rate with and one without an S/PDIF code, which is all
the code asks of a rate. `Concurrent` is one channel or none: the three are treated
alike. `Levels` are the two ends of a control's range, the values at which
`volumeChanged` branches. The runs move volumes to the ends only (`Offsets = {0}`); the proofs have no such
bound. A card's `Targets` are one or two registers on each of
its codecs, with two bytes that differ from each other and from themselves
reversed: what a frame leaves on the pins for the next depends on no more. Of each
set-up table the first entries are taken, and those of registers the mixer
writes, so that writes to any two chips of a card follow one another in the
order of `card_init`; a longer table repeats the same frames with other bytes.
The EEPROM has two bytes of the four that are read: one read is followed by
another, and the last by a write.
`MaxPolls = 2` stands for 10000 polls; `WaitForI2C` keeps nothing but their number.
After it gave up once the mixer asks for no more and the machine does not wake
again (`~late`): what is promised after that is only that the call returns.
The ring of `samples` has five frames, the fewest in which the erase head, the
chip, frames that may be written and frames that may not are all apart
(`EraseEvery = 2`, `SampleOffset = 1`), and the registers hold four times as many
values as there are frames, as 65536 and 16384. `Scale = 32` and `Round = 2` leave a
24-bit codec 16 of the 64 values; `Inputs` are the samples at which the conversion
branches, and `ConversionIsRight` evaluates it for all others besides.
`Failures` of the run `lifecycle` are all stages, those of `lifecycle_engine_fails`
the engine's; the system is taken to be gone after the first bad access, so that
what the chip or IOKit would do later is not explored. No symmetry is used.

**Fairness.** `AudioEngine` is weakly fair to the thread's steps (a call that the
gate let in is not held up: it waits for nothing) and to the filter's (a raised
interrupt is delivered, and the filter runs to its end). Requests and the chip are
under no fairness. `CodecBus` is weakly fair to the thread, which waits for nothing
but `WaitForI2C`'s polls, and promises nothing of the I2C controller. The liveness
properties are `CountsEveryLoop`, `IrqLineFalls` and `CallsReturn`.
`CHECK_DEADLOCK` is off for `Lifecycle`, where a freed device stops for good, and
for `CodecBus`, where the driver of a card that is not recognised does.

## 4. Proofs

Eight modules of theorems and lemmas, for every value of the constants that the modules'
assumptions allow.

**AudioEngineProofs**: any rates, any concurrent channels, with and without S/PDIF,
any loop bound.

* `TypeCorrect` (`TypeOK`). Not inductive alone: `StartGo` writes `ttmp` to the DMA
  control register, so `StartBitsOK` says that the bits gathered are channels.
* `UnservedIrqsStayMasked` (`OnlyPlaybackIrqUnmasked`), with no assumption on CPUs:
  the copies of the mask that either actor holds between its read and its write
  (`ttmp`, `ftmp`) lack no bit but PDMA0's. That is `MaskCopiesMask`.
* `DmaAlwaysFollowsEngine` (`DmaFollowsEngine`). `DmaInv` adds what holds between
  the steps of Start and Stop: which channels have their length, what Stop has
  already halted, and that the transmitter is on exactly while
  `SPDIF_RateSupported` says so.
* `IrqAlwaysFollowsEngine` (`IrqFollowsEngine`), under `NoMaskRace`: one CPU, or a
  chip without FIFO errors. The assumption is needed; run `engine_lost_unmask`
  has the counterexample without it. `IrqInv` says at each `tpc` what the mask is,
  and that the filter is not in its FIFO branch where that would matter.
* `CountsOnlyLoopsOnOneCPU` (`CountsOnlyLoops`), under `~SMP`: `AudioEngine`
  implements `LoopClock`. `ClockInv` ties a pending PDMA0 bit, and a filter that
  has read one, to a loop that is due. On several CPUs a bit read by the filter
  before Stop and Start can be counted after them (run `engine_stale_loop`).

**LifecycleProofs**: any kinds of cards, any stages that may fail.

* `TypeCorrect`, `DmaAlwaysIntoHeldBuffers` and `FilterAlwaysHasItsObjects` hold
  wherever initialisation fails. `LifecycleInv` says for each stage what device,
  card, engine and buffers are (`GoalOK`, `CardOK`, `EngineOK`, `BuffersOK`) and
  between which stages filter and channels can run (`RunningOK`).
* `FaultsAlwaysFollowHalfInit` (`FaultsFollowHalfInit`) and `NothingEverLeftBehind`
  (`NothingLeftBehind`), wherever initialisation fails. `ReleasedOK` ties `failed`
  to what a failure leaves: the card is `dangling` just when one of
  `CardIsDeleted` failed, an engine about to be freed lacks a buffer just when one
  of `HandlesAreEmpty` did, and each fault has come just when the call that meets
  it is over.

**MixerProofs**: any cards, any values a volume is moved to. The proofs do not look
at the tables; what they ask of them are the predicates of section 2, which TLC
evaluates.

* `TypeCorrect` (`TypeOK`), if tables are typed.
* `VolumesAlwaysReachTheCodec` (`VolumesReachTheCodec`), if also the look-up fits and
  volumes are apart. The property is not inductive: unmuting writes
  `MuteOffVal`, so `RestoresOK` says that it is the value of the control that shares
  the register, and `ReachesOK` that a mute in force is one that
  writes its register.
* `SeparateMutesAlwaysReachTheCodec` (`SeparateMutesReachTheCodec`), if mutes are
  apart. A mute never used leaves `Default` or the value for off.

**SamplesProofs**: rings of any length, any channels whose ring fits the 24 bits of
its length, samples of any width that is a multiple of the codec's step, any client.

* `TypeCorrect`, `RingsAlwaysLoopTogether`, `SpdifAlwaysErasedAlike`,
  `UnplayedIsAlwaysKept`, `NothingEverSoundsTwice`, all from `SamplesInv`. Its measure
  is `Ahead(f)`, how far a frame is ahead of the erase head on the ring. The chip is
  never further ahead than `EraseEvery`, the position the timer works with never
  further than the chip (`EraserOK`); frames from the chip on to the erase head are
  written or silent (`SilenceOK`), and the written ones are as they were written
  (`FreshOK`). The ring is handled by few lemmas: `Division` and
  `RingDistance` for `%`, `PlayMoves` for the chip, `EraseHolds` for a stretch that is
  erased.
* `LengthsFit`: both lengths come out of their registers as they went in.
  `ConversionIsNear`: of the values a codec can play the one written is a nearest
  one, for every sample.

**GpioFramesProofs**: any word, register and byte. Each way of making a frame
(`akm4xxx_write` in both modes, `ap192_WriteSpiReg`, `aureon_spi_write`, `ak4396_write`,
`aureon_ac97_write`, the PT2258's messages) gives a sequence of accesses of known
length, of which the lemmas say what each moves: which pins are in it, when select
and clock are low, which bit the data pin carries (`Sends`, `MessageFrame`). A frame
for the PT2258 is one `SaveGPIO`, nine clock pulses a byte, and one `RestoreGPIO`.

**CodecBusProofs**: any tables, targets and values that fit, any EEPROM, any number
of polls, any start levels.

* `TypeCorrect` (`TypeOK`). Not inductive alone: `TypeInv` adds that `n` is a place in the
  call's frame, that a shift register is at most one bit past its width, that the PT2258's
  byte has the bits it has taken and no more (`FineBus`), and that cards on pins leave the
  controller alone. Behind it is that every call of a card fits it (`CallsFit`), so that its
  frame is made of accesses, and that what a codec decodes has a register and a byte the
  codec has, meant for it or not.
* `CardIdentified` (`CardIsIdentified`), by `ControllerInv`: unless `late`, what the
  controller is started for is done before its registers are touched again. Between a
  write's return and its end they hold that write's register and byte, the thread is
  before its next write of the address, and a read that ends has the byte of the
  address asked for.
* `MutedWhileSetUp` (`MuteFollowsSetUp`). The mute pin is one of 22 that frames set,
  clear, mask and make inputs, so `MuteInv` says at each place of `card_init` and
  of each frame whether the pin is up, an output, and reachable through the mask: it
  is down from the mute to the unmuting, between which the order of the calls
  (`Arranged`) lets only frames that keep it; a message to the PT2258 makes it an input
  and masks it, and the restored directions, not the mask, bring it back. The unmuting
  works because nothing that masks the pin comes between it and `SetGPIOMask`.

**GpioWritesProofs**: any card with codecs on GPIO pins. For each call it says what the
codecs hold after each access of its frame.

* A write to a serial codec: the codec written to holds as many upper bits as the
  clock has risen times, three accesses to a bit, of the word that `akm4xxx_write`, `ap192_WriteSpiReg`, `aureon_spi_write` or `ak4396_write` makes of
  register and value, and every other codec of the card holds none and is deselected
  (`Taking`). At the end the codec decodes what was encoded (`Made`, `WordMade`), and
  nothing else does (`SerialAccess`). This holds also where the codec takes bits
  while deselected, and for the frame's first access, which finds the pins as
  the frame before left them.
* `aureon_ac97_write`: which of the three latches holds what after each pulse
  (`AC97Now`), and that none of its accesses clocks a serial codec or selects one.
* `card_init`'s other accesses (mask and levels, both resets of the Aureon, mute, multiplexer)
  put nothing into a register, because they move no serial codec's clock up and
  the commit pin not down (`StepAccess`, `AureonSleeps`). The selects of the Aureon are
  high only after its codecs' reset, and the AC'97 codec is set up before that: the order
  of the calls is `AureonArranged`.

**CodecWritesProofs**: any card; tables, targets, values and start levels as above.

* `EveryWriteReachesItsCodec` (`WritesReachTheCodecs`): `CodecBus` implements `CodecWrites`.
  What is on its way is what the controller works at and then what the thread
  holds (`QueueIs`); at most one each, so that the queue of two is enough. Entering
  a call asks for a write, one step of it lands it, every other step stutters.

  On GPIO pins the refinement is carried by `Settled`, which says how every access finds
  the pins and leaves them. Between writes no serial codec holds bits, and the
  selects that no frame raises first are high (`SerialInv`, `Up`); the pins of serial codecs
  get through the mask, and on the Revolution 5.1 the PT2258's lines are outputs,
  both as they are or as `RestoreGPIO` will make them (`MaskInv`); the Aureon's AC'97 pins
  get through while that codec is set up (`AureonInv`); the PT2258 is not in a message
  (`BusInv`). Within a write each says how far it is. A message to the PT2258
  leaves GPIO 16 to 22 masked, and the codecs of that card still work because their pins
  are below. The message is followed byte by byte (`ByteNow`, `MessageAt`): eight bits, an
  acknowledge at which the device pulls the line, and at the stop the bytes it was sent.
  `GpioStep` has one case for each action.

  Behind the I2C controller `ControllerInv` is what makes the write that lands the first
  of the queue. Once `late`, which no card on GPIO pins ever is, a write handed over
  to a busy controller is lost or strays.

Model-checked only: all liveness (weak fairness is outside what TLAPS proves) and the
predicates on the tables, which are facts about data.

## 5. What the code does and says otherwise

1. `AudioEngine.cpp:547`: Start unmasks before it clears pending bits, so that a
   wrap of the run before is counted while Start runs, which the comment at
   line 614 excludes (`engine_stale_loop`).
2. `AudioEngine.cpp:750`: the filter's `WriteMask8` can put back the mask bit that
   Start has just cleared; the engine then runs without loop interrupts
   (`engine_lost_unmask`).
3. `misc.cpp:2017`: outputs three and four of the Revolution 7.1 share register 4
   (`mixer_shared_register`).
4. `AudioEngine.cpp:69`: `pci_free` releases handles that were never allocated
   (`lifecycle_engine_fails`).
5. `audiophile192.cpp:557`: GPIO 5 selects the S/PDIF output, and as `SPI_CS1n`
   (`audiophile192.cpp:70`) is raised by the next register write (`codec_bus_mux`).

Met while modelling, without a run of their own:

* `AudioDevice.cpp:459` and `:465` speak of saved and restored settings; nothing is
  saved, and every control is at its initial value after waking.
* `AudioDevice.cpp:371`: the mute control of the Audiophile 192 is served by no
  branch and writes no register.
* `misc.cpp:2436` and `:2605`: the Aureon's two mute controls share register 0x14,
  so that switching one off unmutes what the other still mutes.
* `SampleAudioClip.cpp:75`: recorded samples reach clients as whole numbers from
  -256 to 256, where line 73 says "Scale that sample to a range of -1.0 to 1.0"; and
  the cast of the negative ones to `UInt32` is undefined in C++.
* A volume change unmutes where volume and mute share a register (Prodigy,
  Maya44).
* The lowest volume is written as 0 only for four codec types; for the Phase 22's
  inputs 0 is not the lowest gain.
* The Aureon's eighth output's entry is overwritten (`misc.cpp:2588`).
* `misc.cpp:1042`: the condition is true for every card, so that 0x3819 is written
  to the GPIO pins also where the branches below have other values; on the Aureon
  it raises the AC'97 commit pin. `SetGPIOMask` cuts the low half to twelve bits
  (`misc.cpp:170`).
* `RestoreGPIO` does not restore the mask of GPIO 16 to 22 (`misc.cpp:183`). A
  message to the PT2258 therefore leaves the mute pin masked; the comment at
  `misc.cpp:1164` knows, and every wake sets the whole mask again.
* `gpio_dir` is never set (`Revo51.cpp:38`): during a message to the PT2258 all pins
  but its two lines are inputs.
* The acknowledge bit is tested for `< 0`, which it never is (`I2C.cpp:152`), and after
  it is read the data line is made an output again, high, while the device still pulls
  it low.
* `fmin` and `fmax` compute `(a + b -+ |a - b|) / 2`, which for samples of 2^54 and more
  is 0 instead of 1 (`SampleConvert.h:120`).
* The codecs of Maya44 and Prodigy HiFi cards are never set up
  (`prodigy_hifi_init` is commented out, `misc.cpp:1362`).
* With several CPUs and FIFO errors, the lost unmask of 5.2 in reverse can leave
  PDMA0 unmasked while `stop()` detaches the event source; the line then stays up.
* After a failure between the card's allocation and the engine, for unsupported
  cards too, `card` is deleted at `AudioDevice.cpp:107` and again in `free()`
  (`:119`-`:133`). No comment or document says otherwise, so it has no run
  that refutes one; run `lifecycle` reaches it, and `FaultsFollowHalfInit` says after
  which failures it happens, always, and that it happens after no others.

## 6. Not modelled

* `card_init`'s writes of constants to configuration registers: one sequence, with
  nothing beside it, whose effect is on hardware only. Of the codecs' set-up tables
  `codec_bus` has the order of the chips and the first entries, not every entry.
* `convertInputSamples`: a pure function of one sample, see section 5.
* Cards without an EEPROM: they go on with a description nobody filled in.
* `update_spdif_bits`, `update_spdif_rate`, the WM8766 and WM8776 code of
  `prodigy_hifi.cpp`, `ReadBytesI2C`, `ProbeAddressI2C` and the 16-bit sample
  conversions: nothing calls them.
* Mapping of registers to bus addresses, delays, register dumps, logging, and
  IOAudioFamily itself.
* `quartet.c`, which is not part of the build: `card_init` gives a Quartet the
  Maya44's table.
* The number of `ParmList`s and codec objects that waking up leaks.

## 7. Plan

Done: the engine with its clock; the mixer; the lifecycle; the codec bus with
set-up and wakes; the samples; the proofs of all of these.

1. Whole set-up tables in `codec_bus`, card by card.
2. `convertInputSamples`, against the range its comments name.
3. `Lifecycle` counting what each wake leaks.
