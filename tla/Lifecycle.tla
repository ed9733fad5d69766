------------------------------ MODULE Lifecycle ------------------------------
(***************************************************************************)
(* What Envy24HTAudioDevice and Envy24HTAudioEngine acquire, in which      *)
(* order, and what they give back: start-up with each of its failure       *)
(* paths, sleep and wake, removal.  (src/AudioDevice.cpp,                  *)
(* src/AudioEngine.cpp, AllocDriverData and FreeDriverData in              *)
(* src/misc.cpp.)  IOKit calls initHardware once, frees a device that      *)
(* could not start, and delivers power changes and removal one at a time.  *)
(***************************************************************************)
EXTENDS Integers, Sequences, Functions

CONSTANTS
    Failures,    \* the stages that may fail
    Kinds        \* the kinds of cards: records with the fields concurrent,
                 \* the buffers whose card->Specific.concurrentDMAi is set,
                 \* and codecs, whether card_init creates akm_codec objects

\* The DMA buffers in the order initHardware allocates them.
AllocOrder == <<"conc0", "conc1", "conc2", "out", "in", "spdif">>
Handles == Range(AllocOrder)

DeviceStages == {"super", "card", "pci_dev", "iobase", "mtbase", "chip"}
EngineStages == {"controls", "workloop", "streams", "source"} \cup Handles

ASSUME ConstantsAssumption ==
    /\ Failures \subseteq DeviceStages \cup EngineStages
    /\ Kinds \subseteq [concurrent : SUBSET {"conc0", "conc1", "conc2"},
                        codecs : BOOLEAN]

VARIABLES
    device,   \* "new", "up", "failed", "stopped" or "freed"
    stage,    \* the stage the call in progress is at, "idle" between calls
    goal,     \* the device state when the call in progress is over
    awake,    \* FALSE in kIOAudioDeviceSleep
    kind,     \* the kind of card in the machine; it never changes
    card,     \* the pointer: "null", "live", or "dangling" once deleted
    maps,     \* the register maps held through card
    codecs,   \* card's akm_codec objects exist
    engine,   \* "none", "built", "started" or "running"
    buffers,  \* the handles whose desc is not NULL
    source,   \* the interrupt event source is on the work loop
    dmaAddress, \* the handles whose present buffer's address the chip has
    dma,      \* the chip's DMA channels run
    fault,    \* "none", or the first access through a bad pointer
    failed    \* history: the stages that have failed, at start or after a wake

chipside == <<dmaAddress, dma, source>>
machine == <<awake, kind, failed>>
vars == <<device, stage, goal, machine, card, maps, codecs, engine, buffers,
          chipside, fault>>

Init ==
    /\ device = "new" /\ stage = "idle" /\ goal = "new" /\ awake = TRUE
    /\ kind \in Kinds /\ card = "null" /\ maps = {} /\ codecs = FALSE
    /\ engine = "none" /\ buffers = {} /\ source = FALSE
    /\ dmaAddress = {} /\ dma = FALSE
    /\ fault = "none" /\ failed = {}

\* The system is gone after the first bad access.
Alive == fault = "none"
At(s) == Alive /\ stage = s

-----------------------------------------------------------------------------
(* Envy24HTAudioDevice::initHardware *)

Start ==
    /\ At("idle") /\ device = "new"
    /\ stage' = "super" /\ goal' = "up"
    /\ UNCHANGED <<device, machine, card, maps, codecs, engine, buffers,
                   chipside, fault>>

StartSuper ==
    /\ At("super")
    /\ stage' = "card"
    /\ UNCHANGED <<device, goal, machine, card, maps, codecs, engine, buffers,
                   chipside, fault>>

NewCard ==
    /\ At("card")
    /\ card' = "live"
    /\ stage' = "pci_dev"
    /\ UNCHANGED <<device, goal, machine, maps, codecs, engine, buffers,
                   chipside, fault>>

CastProvider ==
    /\ At("pci_dev")
    /\ stage' = "iobase"
    /\ UNCHANGED <<device, goal, machine, card, maps, codecs, engine, buffers,
                   chipside, fault>>

MapRegisters ==
    /\ Alive /\ stage \in {"iobase", "mtbase"}
    /\ maps' = maps \cup {stage}
    /\ stage' = IF stage = "iobase" THEN "mtbase" ELSE "chip"
    /\ UNCHANGED <<device, goal, machine, card, codecs, engine, buffers,
                   chipside, fault>>

\* AllocDriverData and card_init; an unknown card fails before its codecs.
AllocDriverData ==
    /\ At("chip")
    /\ codecs' = kind.codecs
    /\ stage' = "controls"
    /\ UNCHANGED <<device, goal, machine, card, maps, engine, buffers,
                   chipside, fault>>

\* One of these stages fails: what was acquired is released and the card is
\* deleted, but the pointer to it stays.
InitFails ==
    /\ Alive /\ stage \in DeviceStages \cap Failures
    /\ maps' = {} /\ codecs' = FALSE
    /\ card' = IF card = "null" THEN "null" ELSE "dangling"
    /\ device' = "failed" /\ goal' = "failed" /\ stage' = "idle"
    /\ failed' = failed \cup {stage}
    /\ UNCHANGED <<awake, kind, engine, buffers, chipside, fault>>

-----------------------------------------------------------------------------
(* createAudioEngine, and the initHardware activateAudioEngine leads to *)

BuildEngine ==
    /\ At("controls")
    /\ engine' = "built"
    /\ stage' = "workloop"
    /\ UNCHANGED <<device, goal, machine, card, maps, codecs, buffers, chipside,
                   fault>>

GetWorkLoop ==
    /\ At("workloop")
    /\ stage' = Head(AllocOrder)
    /\ UNCHANGED <<device, goal, machine, card, maps, codecs, engine, buffers,
                   chipside, fault>>

\* Mutant: only the buffers in use are allocated.
AllocBufferInUse(n) ==
    /\ At(AllocOrder[n])
    /\ buffers' = buffers \cup
                    ({AllocOrder[n]}
                        \cap ({"out", "in", "spdif"} \cup kind.concurrent))
    /\ stage' = IF n < Len(AllocOrder) THEN AllocOrder[n + 1] ELSE "addresses"
    /\ UNCHANGED <<device, goal, machine, card, maps, codecs, engine, chipside,
                   fault>>

\* pci_alloc
AllocBuffer(n) ==
    /\ At(AllocOrder[n])
    /\ buffers' = buffers \cup {AllocOrder[n]}
    /\ stage' = IF n < Len(AllocOrder) THEN AllocOrder[n + 1] ELSE "addresses"
    /\ UNCHANGED <<device, goal, machine, card, maps, codecs, engine, chipside,
                   fault>>

\* The chip is given the buffers' addresses.
ProgramAddresses ==
    /\ At("addresses")
    /\ dmaAddress' = {"out", "in", "spdif"} \cup kind.concurrent
    /\ stage' = "streams"
    /\ UNCHANGED <<device, goal, machine, card, maps, codecs, engine, buffers,
                   source, dma, fault>>

CreateStreams ==
    /\ At("streams")
    /\ stage' = "source"
    /\ UNCHANGED <<device, goal, machine, card, maps, codecs, engine, buffers,
                   chipside, fault>>

AddEventSource ==
    /\ At("source")
    /\ source' = TRUE
    /\ engine' = "started"
    /\ device' = goal /\ stage' = "idle"
    /\ UNCHANGED <<goal, machine, card, maps, codecs, buffers, dmaAddress, dma,
                   fault>>

\* A control cannot be created: createAudioEngine releases the engine.  Any
\* later stage: activateAudioEngine's result is ignored and the engine is
\* released as if it had been activated, so that the device stays up.
EngineInitFails ==
    /\ Alive /\ stage \in EngineStages \cap Failures
    /\ stage' = "engine_free"
    /\ engine' = "built"
    /\ failed' = failed \cup {stage}
    /\ UNCHANGED <<device, goal, awake, kind, card, maps, codecs, buffers,
                   chipside, fault>>

-----------------------------------------------------------------------------
(* The audio engine in use and on its way out *)

\* performAudioEngineStart, and performAudioEngineStop
Run ==
    /\ At("idle") /\ device = "up" /\ engine = "started"
    /\ engine' = "running" /\ dma' = TRUE
    /\ UNCHANGED <<device, stage, goal, machine, card, maps, codecs, buffers,
                   dmaAddress, source, fault>>

Halt ==
    /\ At("idle") /\ device = "up" /\ engine = "running"
    /\ engine' = "started" /\ dma' = FALSE
    /\ UNCHANGED <<device, stage, goal, machine, card, maps, codecs, buffers,
                   dmaAddress, source, fault>>

\* Mutant: stop() leaves the event source on the work loop.
StopKeepsSource ==
    /\ At("engine_stop")
    /\ stage' = "engine_halt"
    /\ UNCHANGED <<device, goal, machine, card, maps, codecs, engine,
                   buffers, chipside, fault>>

\* stop(): the event source leaves the work loop.
StopEngine ==
    /\ At("engine_stop")
    /\ source' = FALSE
    /\ stage' = "engine_halt"
    /\ UNCHANGED <<device, goal, machine, card, maps, codecs, engine,
                   buffers, dmaAddress, dma, fault>>

\* Mutant: stop() does not call super::stop.
HaltEngineOmitted ==
    /\ At("engine_halt")
    /\ engine' = "started"
    /\ stage' = "engine_free"
    /\ UNCHANGED <<device, goal, machine, card, maps, codecs, buffers,
                   chipside, fault>>

\* Then super::stop has a running engine stopped.
HaltEngine ==
    /\ At("engine_halt")
    /\ engine' = "started" /\ dma' = FALSE
    /\ stage' = "engine_free"
    /\ UNCHANGED <<device, goal, machine, card, maps, codecs, buffers,
                   dmaAddress, source, fault>>

\* Mutant: free() forgets the buffers of the concurrent channels.
FreeEngineForgets ==
    /\ At("engine_free")
    /\ engine' = "none"
    /\ IF {"out", "spdif", "in"} \subseteq buffers
       THEN /\ buffers' = buffers \ {"out", "spdif", "in"}
            /\ dmaAddress' = dmaAddress \ {"out", "spdif", "in"}
            /\ fault' = "none"
       ELSE UNCHANGED <<buffers, dmaAddress>> /\ fault' = "null handle"
    /\ stage' = "idle" /\ device' = goal
    /\ UNCHANGED <<goal, machine, card, maps, codecs, dma, source>>

\* free(): pci_free of all six handles, through desc whether set or NULL.
FreeEngine ==
    /\ At("engine_free")
    /\ engine' = "none"
    /\ IF buffers = Handles
       THEN buffers' = {} /\ dmaAddress' = {} /\ fault' = "none"
       ELSE UNCHANGED <<buffers, dmaAddress>> /\ fault' = "null handle"
    /\ stage' = "idle" /\ device' = goal
    /\ UNCHANGED <<goal, machine, card, maps, codecs, dma, source>>

-----------------------------------------------------------------------------
(* Power, removal *)

\* deactivateAllAudioEngines, for sleep or before removal
Deactivate(to) ==
    /\ goal' = to
    /\ IF engine = "none"
       THEN stage' = "idle" /\ device' = to
       ELSE stage' = "engine_stop" /\ device' = device
    /\ UNCHANGED <<kind, card, maps, codecs, engine, buffers, chipside, fault,
                   failed>>

Sleep ==
    /\ At("idle") /\ device = "up" /\ awake
    /\ awake' = FALSE
    /\ Deactivate("up")

\* card_init, which resets the chip and knows the card, and a new engine.
Wake ==
    /\ At("idle") /\ device = "up" /\ ~awake
    /\ awake' = TRUE
    /\ codecs' = kind.codecs
    /\ dma' = FALSE
    /\ goal' = "up" /\ stage' = "controls"
    /\ UNCHANGED <<device, kind, card, maps, engine, buffers, dmaAddress,
                   source, fault, failed>>

RemoveDevice ==
    /\ At("idle") /\ device = "up"
    /\ awake' = awake
    /\ Deactivate("stopped")

\* Mutant: free() does not call FreeDriverData.
FreeDeviceKeepsCodecs ==
    /\ At("idle") /\ device \in {"failed", "stopped"}
    /\ device' = "freed"
    /\ fault' = IF card = "dangling" THEN "deleted card" ELSE "none"
    /\ codecs' = codecs /\ maps' = {}
    /\ card' = IF card = "live" THEN "dangling" ELSE card
    /\ UNCHANGED <<stage, goal, machine, engine, buffers, chipside>>

\* Envy24HTAudioDevice::free()
FreeDevice ==
    /\ At("idle") /\ device \in {"failed", "stopped"}
    /\ device' = "freed"
    /\ fault' = IF card = "dangling" THEN "deleted card" ELSE "none"
    /\ codecs' = FALSE /\ maps' = {}
    /\ card' = IF card = "live" THEN "dangling" ELSE card
    /\ UNCHANGED <<stage, goal, machine, engine, buffers, chipside>>

-----------------------------------------------------------------------------
StartUp ==
    \/ StartSuper \/ NewCard \/ CastProvider \/ MapRegisters
    \/ AllocDriverData \/ InitFails

EngineStep ==
    \/ BuildEngine \/ GetWorkLoop
    \/ \E n \in DOMAIN AllocOrder : AllocBuffer(n)
    \/ ProgramAddresses \/ CreateStreams \/ AddEventSource \/ EngineInitFails
    \/ StopEngine \/ HaltEngine \/ FreeEngine

Request == Start \/ Run \/ Halt \/ Sleep \/ Wake \/ RemoveDevice

Next == Request \/ StartUp \/ EngineStep \/ FreeDevice

Spec == Init /\ [][Next]_vars

-----------------------------------------------------------------------------
(* Properties *)

\* Every variable keeps its type, and what a card holds goes with the card.
TypeOK ==
    /\ device \in {"new", "up", "failed", "stopped", "freed"}
    /\ goal \in {"new", "up", "failed", "stopped"}
    /\ stage \in DeviceStages \cup EngineStages
                    \cup {"idle", "addresses", "engine_stop", "engine_halt",
                          "engine_free"}
    /\ kind \in Kinds
    /\ awake \in BOOLEAN /\ codecs \in BOOLEAN /\ source \in BOOLEAN
    /\ dma \in BOOLEAN
    /\ card \in {"null", "live", "dangling"}
    /\ maps \subseteq {"iobase", "mtbase"}
    /\ card # "live" => maps = {} /\ codecs = FALSE
    /\ engine \in {"none", "built", "started", "running"}
    /\ buffers \subseteq Handles /\ dmaAddress \subseteq Handles
    /\ fault \in {"none", "null handle", "deleted card"}
    /\ failed \subseteq Failures

\* Half-way stages: after a failure at the first the card is deleted and the
\* pointer to it is kept, at the others some of the engine's handles are empty.
CardIsDeleted == DeviceStages \ {"super", "card"}
HandlesAreEmpty == EngineStages \ {"streams", "source"}

\* What is used or released is there, except after initialisation failed
\* half-way, at first or after a wake: then free() of the device deletes the
\* card a second time, and free() of the engine releases an empty handle.  Both
\* always do then, and nothing else goes wrong after any failure.
FaultsFollowHalfInit ==
    /\ fault = "deleted card"
          <=> device = "freed" /\ failed \cap CardIsDeleted # {}
    /\ fault = "null handle"
          <=> stage # "engine_free" /\ failed \cap HandlesAreEmpty # {}

\* The channels of a running engine: the ring buffers performAudioEngineStart
\* has the chip read and write.
InUse == {"out", "in", "spdif"} \cup kind.concurrent

\* The chip never transfers to or from memory that was given back, nor to an
\* address it was not given.
DmaIntoHeldBuffers == dma => InUse \subseteq buffers \cap dmaAddress

\* The interrupt filter, which uses card, its maps and the engine, can run only
\* while all of them are there.
FilterHasItsObjects ==
    source => /\ engine \in {"started", "running"}
              /\ card = "live" /\ maps = {"iobase", "mtbase"}

\* "We need to free our resources when we're going away" (AudioEngine.cpp:413),
\* whichever stages failed: with the engine gone its buffers are, unless free()
\* stopped at an empty handle, and with the device gone everything.
NothingLeftBehind ==
    /\ engine = "none" /\ fault # "null handle" => buffers = {} /\ ~source
    /\ device = "freed" => maps = {} /\ ~codecs /\ engine = "none"

\* "We need to free our resources when we're going away" (AudioEngine.cpp:413):
\* free() frees what the engine has.
EngineFreesItsOwn == fault # "null handle"
=============================================================================
