--------------------------- MODULE LifecycleProofs ---------------------------
(***************************************************************************)
(* Proofs about Lifecycle for every set of stages that may fail and every  *)
(* kind of card: what holds wherever initialisation fails, and which       *)
(* failures end in a release of what is not held.                          *)
(***************************************************************************)
EXTENDS Lifecycle, TLAPS

\* The order of the allocations, spelt out.
LEMMA Allocations ==
    /\ DOMAIN AllocOrder = 1 .. 6 /\ Len(AllocOrder) = 6
    /\ Head(AllocOrder) = "conc0"
    /\ Handles = {"conc0", "conc1", "conc2", "out", "in", "spdif"}
    /\ AllocOrder[1] = "conc0" /\ AllocOrder[2] = "conc1"
    /\ AllocOrder[3] = "conc2" /\ AllocOrder[4] = "out"
    /\ AllocOrder[5] = "in" /\ AllocOrder[6] = "spdif"
    /\ \A m, n \in 1 .. 6 : AllocOrder[m] = AllocOrder[n] => m = n
    /\ \A n \in 1 .. 6 : AllocOrder[n] \in Handles
<1>1. /\ DOMAIN AllocOrder = 1 .. 6 /\ Len(AllocOrder) = 6
      /\ Head(AllocOrder) = "conc0"
      /\ AllocOrder[1] = "conc0" /\ AllocOrder[2] = "conc1"
      /\ AllocOrder[3] = "conc2" /\ AllocOrder[4] = "out"
      /\ AllocOrder[5] = "in" /\ AllocOrder[6] = "spdif"
  BY DEF AllocOrder
<1>2. Handles = {AllocOrder[i] : i \in 1 .. 6}
  BY <1>1 DEF Handles, Range
<1>3. \A i \in 1 .. 6 : i \in {1, 2, 3, 4, 5, 6}
  OBVIOUS
<1>4. Handles = {"conc0", "conc1", "conc2", "out", "in", "spdif"}
  BY <1>1, <1>2, <1>3
<1>5. \A m, n \in 1 .. 6 : AllocOrder[m] = AllocOrder[n] => m = n
  BY <1>1, <1>3
<1>6. QED
  BY <1>1, <1>2, <1>4, <1>5

-----------------------------------------------------------------------------
(* The inductive invariant: what there is at each stage *)

EngineParts == {"workloop", "addresses", "streams", "source"} \cup Handles
Leaving == {"engine_stop", "engine_halt", "engine_free"}
Idle == stage = "idle"

\* Initialisation leads to a device that is up, tearing down to one that is up,
\* asleep or stopped.
GoalOK ==
    /\ stage \in DeviceStages \cup EngineParts \cup {"controls"} =>
          goal = "up" /\ device \in {"new", "up"} /\ awake
    /\ stage \in DeviceStages => device = "new"
    /\ device = "new" => awake
    /\ stage \in Leaving => goal \in {"up", "stopped"} /\ device \in {"new", "up"}

\* The card and its maps are there from their stages on, until it is freed.
CardOK ==
    /\ stage \in {"super", "card"} \/ (device = "new" /\ Idle)
          => card = "null"
    /\ stage \in {"pci_dev", "iobase", "mtbase"} => card = "live"
    /\ stage \in {"pci_dev", "iobase"} => maps = {}
    /\ stage = "mtbase" => maps = {"iobase"}
    /\ stage \in {"chip", "controls"} \cup EngineParts \cup Leaving
          \/ (device \in {"up", "stopped"} /\ Idle)
          => card = "live" /\ maps = {"iobase", "mtbase"}
    /\ device \in {"failed", "freed"} => card # "live"

EngineOK ==
    /\ stage \in DeviceStages \cup {"controls"} => engine = "none"
    /\ stage \in EngineParts => engine = "built"
    /\ stage \in {"engine_stop", "engine_halt"} => engine \in {"started", "running"}
    /\ stage = "engine_free" => engine \in {"built", "started"}
    /\ Idle => engine # "built"
    /\ Idle /\ (device # "up" \/ ~awake) => engine = "none"

\* How far the buffers are, and that the chip knows them.
BuffersOK ==
    /\ \A n \in 1 .. 6 : stage = AllocOrder[n] =>
          buffers = {AllocOrder[i] : i \in 1 .. n - 1}
    /\ stage \in {"workloop", "controls"} \cup DeviceStages => buffers = {}
    /\ stage \in {"addresses", "streams", "source", "engine_stop", "engine_halt"}
          => buffers = Handles
    /\ stage \in {"streams", "source", "engine_stop", "engine_halt"}
          => InUse \subseteq dmaAddress
    /\ Idle /\ engine # "none" => buffers = Handles /\ InUse \subseteq dmaAddress
    /\ Idle /\ engine = "none" /\ fault # "null handle" => buffers = {}

\* Filter and channels run between AddEventSource, or Run, and the engine's end.
RunningOK ==
    /\ source => stage = "engine_stop" \/ (Idle /\ engine # "none")
    /\ dma => stage \in {"engine_stop", "engine_halt"}
                \/ (Idle /\ engine = "running")

LifecycleInv ==
    TypeOK /\ GoalOK /\ CardOK /\ EngineOK /\ BuffersOK /\ RunningOK

LEMMA InitHolds == Init => LifecycleInv
<1> USE Allocations DEF Idle, EngineParts, Leaving, DeviceStages, EngineStages
<1> SUFFICES ASSUME Init PROVE LifecycleInv
  OBVIOUS
<1>1. TypeOK
  BY DEF Init, TypeOK
<1>2. GoalOK /\ CardOK /\ EngineOK /\ RunningOK
  BY DEF Init, GoalOK, CardOK, EngineOK, RunningOK
<1>3. BuffersOK
  BY DEF Init, BuffersOK
<1>4. QED
  BY <1>1, <1>2, <1>3 DEF LifecycleInv

\* What is left alone stays as it is.
LEMMA StutterHolds == LifecycleInv /\ UNCHANGED vars => LifecycleInv'
<1> SUFFICES ASSUME LifecycleInv, UNCHANGED vars PROVE LifecycleInv'
  OBVIOUS
<1>1. TypeOK'
  <2>1. /\ awake' = awake /\ codecs' = codecs /\ source' = source /\ dma' = dma
        /\ card' = card /\ maps' = maps
    BY DEF vars, machine, chipside
  <2>2. TypeOK
    BY DEF LifecycleInv
  <2>3. /\ awake \in BOOLEAN /\ codecs \in BOOLEAN
        /\ source \in BOOLEAN /\ dma \in BOOLEAN
        /\ card # "live" => maps = {} /\ codecs = FALSE
    BY <2>2, Zenon DEF TypeOK
  <2>4. /\ awake' \in BOOLEAN /\ codecs' \in BOOLEAN
        /\ source' \in BOOLEAN /\ dma' \in BOOLEAN
        /\ card' # "live" => maps' = {} /\ codecs' = FALSE
    <3>1. awake' \in BOOLEAN
      BY <2>1, <2>3
    <3>2. codecs' \in BOOLEAN
      BY <2>1, <2>3
    <3>3. source' \in BOOLEAN
      BY <2>1, <2>3
    <3>4. dma' \in BOOLEAN
      BY <2>1, <2>3
    <3>5. card' # "live" => maps' = {} /\ codecs' = FALSE
      BY <2>1, <2>3
    <3>6. QED
      BY <3>1, <3>2, <3>3, <3>4, <3>5
  <2>5. /\ device' = device /\ goal' = goal /\ stage' = stage /\ kind' = kind
        /\ card' = card /\ maps' = maps /\ engine' = engine /\ buffers' = buffers
        /\ dmaAddress' = dmaAddress /\ fault' = fault /\ failed' = failed
    BY DEF vars, machine, chipside
  <2>6. /\ device' \in {"new", "up", "failed", "stopped", "freed"}
        /\ goal' \in {"new", "up", "failed", "stopped"}
        /\ kind' \in Kinds
    BY <2>2, <2>5, Zenon DEF TypeOK
  <2>7. stage' \in DeviceStages \cup EngineStages
                     \cup {"idle", "addresses", "engine_stop", "engine_halt",
                           "engine_free"}
    BY <2>2, <2>5, Zenon DEF TypeOK
  <2>8. /\ card' \in {"null", "live", "dangling"}
        /\ maps' \subseteq {"iobase", "mtbase"}
    BY <2>2, <2>5, Zenon DEF TypeOK
  <2>9. /\ engine' \in {"none", "built", "started", "running"}
        /\ buffers' \subseteq Handles /\ dmaAddress' \subseteq Handles
        /\ fault' \in {"none", "null handle", "deleted card"}
        /\ failed' \subseteq Failures
    BY <2>2, <2>5, Zenon DEF TypeOK
  <2>10. QED
    BY <2>4, <2>6, <2>7, <2>8, <2>9, Zenon DEF TypeOK
<1>2. GoalOK' /\ CardOK' /\ EngineOK'
  BY DEF LifecycleInv, vars, machine, chipside, GoalOK, CardOK, EngineOK, Idle
<1>3. BuffersOK' /\ RunningOK'
  BY DEF LifecycleInv, vars, machine, chipside, BuffersOK, RunningOK, Idle, InUse
<1>4. QED
  BY <1>1, <1>2, <1>3 DEF LifecycleInv

\* Every step leaves behind what the stages after it take for granted.
LEMMA StepHolds == LifecycleInv /\ [Next]_vars => LifecycleInv'
<1> USE Allocations DEF InUse, Idle, EngineParts, Leaving, DeviceStages,
        EngineStages, At, Alive, machine, chipside
<1> SUFFICES ASSUME LifecycleInv, [Next]_vars PROVE LifecycleInv'
  OBVIOUS
<1>0. /\ TypeOK /\ GoalOK /\ CardOK /\ EngineOK /\ BuffersOK /\ RunningOK
      /\ kind \in [concurrent : SUBSET {"conc0", "conc1", "conc2"}, codecs : BOOLEAN]
  BY ConstantsAssumption DEF ConstantsAssumption, LifecycleInv, TypeOK
<1>1. CASE Start
  <2>1. TypeOK'
    BY <1>0, <1>1 DEF Start, TypeOK, CardOK, EngineOK
  <2>2. GoalOK'
    BY <1>0, <1>1 DEF Start, GoalOK, TypeOK, EngineOK
  <2>3. CardOK'
    BY <1>0, <1>1 DEF Start, CardOK, TypeOK, GoalOK, EngineOK
  <2>4. EngineOK'
    BY <1>0, <1>1 DEF Start, EngineOK, TypeOK, GoalOK
  <2>5. BuffersOK'
    BY <1>0, <1>1 DEF Start, BuffersOK, TypeOK, EngineOK
  <2>6. RunningOK'
    BY <1>0, <1>1 DEF Start, RunningOK, TypeOK, EngineOK
  <2>7. QED
    BY <2>1, <2>2, <2>3, <2>4, <2>5, <2>6 DEF LifecycleInv
<1>2. CASE Run
  BY <1>0, <1>2 DEF Run, LifecycleInv, TypeOK, GoalOK, CardOK, EngineOK,
     BuffersOK, RunningOK
<1>3. CASE Halt
  BY <1>0, <1>3 DEF Halt, LifecycleInv, TypeOK, GoalOK, CardOK, EngineOK,
     BuffersOK, RunningOK
<1>4. CASE Sleep
  <2>1. TypeOK'
    BY <1>0, <1>4 DEF Sleep, Deactivate, TypeOK, CardOK, EngineOK
  <2>2. GoalOK'
    BY <1>0, <1>4 DEF Sleep, Deactivate, GoalOK, TypeOK, EngineOK
  <2>3. CardOK'
    BY <1>0, <1>4 DEF Sleep, Deactivate, CardOK, TypeOK, GoalOK, EngineOK
  <2>4. EngineOK'
    BY <1>0, <1>4 DEF Sleep, Deactivate, EngineOK, TypeOK, GoalOK
  <2>5. BuffersOK'
    BY <1>0, <1>4 DEF Sleep, Deactivate, BuffersOK, TypeOK, EngineOK
  <2>6. RunningOK'
    BY <1>0, <1>4 DEF Sleep, Deactivate, RunningOK, TypeOK, EngineOK
  <2>7. QED
    BY <2>1, <2>2, <2>3, <2>4, <2>5, <2>6 DEF LifecycleInv
<1>5. CASE Wake
  <2>1. TypeOK'
    BY <1>0, <1>5 DEF Wake, TypeOK, CardOK, EngineOK
  <2>2. GoalOK'
    BY <1>0, <1>5 DEF Wake, GoalOK, TypeOK, EngineOK
  <2>3. CardOK'
    BY <1>0, <1>5 DEF Wake, CardOK, TypeOK, GoalOK, EngineOK
  <2>4. EngineOK'
    BY <1>0, <1>5 DEF Wake, EngineOK, TypeOK, GoalOK
  <2>5. BuffersOK'
    BY <1>0, <1>5 DEF Wake, BuffersOK, TypeOK, EngineOK
  <2>6. RunningOK'
    BY <1>0, <1>5 DEF Wake, RunningOK, TypeOK, EngineOK
  <2>7. QED
    BY <2>1, <2>2, <2>3, <2>4, <2>5, <2>6 DEF LifecycleInv
<1>6. CASE RemoveDevice
  BY <1>0, <1>6 DEF RemoveDevice, Deactivate, LifecycleInv, TypeOK, GoalOK, CardOK, EngineOK,
     BuffersOK, RunningOK
<1>7. CASE StartSuper
  BY <1>0, <1>7 DEF StartSuper, LifecycleInv, TypeOK, GoalOK, CardOK, EngineOK,
     BuffersOK, RunningOK
<1>8. CASE NewCard
  BY <1>0, <1>8 DEF NewCard, LifecycleInv, TypeOK, GoalOK, CardOK, EngineOK,
     BuffersOK, RunningOK
<1>9. CASE CastProvider
  BY <1>0, <1>9 DEF CastProvider, LifecycleInv, TypeOK, GoalOK, CardOK, EngineOK,
     BuffersOK, RunningOK
<1>10. CASE MapRegisters
  <2>1. TypeOK'
    BY <1>0, <1>10 DEF MapRegisters, TypeOK, CardOK, EngineOK
  <2>2. GoalOK'
    BY <1>0, <1>10 DEF MapRegisters, GoalOK, TypeOK, EngineOK
  <2>3. CardOK'
    <3>1. CASE stage = "iobase"
      BY <1>0, <1>10, <3>1 DEF MapRegisters, CardOK, TypeOK, GoalOK
    <3>2. CASE stage = "mtbase"
      <4>1. maps' = {"iobase", "mtbase"} /\ stage' = "chip" /\ card' = "live"
        BY <1>0, <1>10, <3>2 DEF MapRegisters, CardOK
      <4>2. QED
        BY <1>0, <1>10, <4>1 DEF MapRegisters, CardOK, TypeOK, GoalOK
    <3>3. QED
      BY <1>10, <3>1, <3>2 DEF MapRegisters
  <2>4. EngineOK'
    BY <1>0, <1>10 DEF MapRegisters, EngineOK, TypeOK, GoalOK
  <2>5. BuffersOK'
    BY <1>0, <1>10 DEF MapRegisters, BuffersOK, TypeOK, EngineOK
  <2>6. RunningOK'
    BY <1>0, <1>10 DEF MapRegisters, RunningOK, TypeOK, EngineOK
  <2>7. QED
    BY <2>1, <2>2, <2>3, <2>4, <2>5, <2>6 DEF LifecycleInv
<1>11. CASE AllocDriverData
  BY <1>0, <1>11 DEF AllocDriverData, LifecycleInv, TypeOK, GoalOK, CardOK, EngineOK,
     BuffersOK, RunningOK
<1>12. CASE InitFails
  <2>1. TypeOK'
    BY <1>0, <1>12, ZenonT(40) DEF InitFails, TypeOK, CardOK, EngineOK
  <2>2. GoalOK'
    BY <1>0, <1>12 DEF InitFails, GoalOK, TypeOK, EngineOK
  <2>3. CardOK'
    BY <1>0, <1>12 DEF InitFails, CardOK, TypeOK, GoalOK, EngineOK
  <2>4. EngineOK'
    BY <1>0, <1>12 DEF InitFails, EngineOK, TypeOK, GoalOK
  <2>5. BuffersOK'
    BY <1>0, <1>12 DEF InitFails, BuffersOK, TypeOK, EngineOK
  <2>6. RunningOK'
    BY <1>0, <1>12 DEF InitFails, RunningOK, TypeOK, EngineOK
  <2>7. QED
    BY <2>1, <2>2, <2>3, <2>4, <2>5, <2>6 DEF LifecycleInv
<1>13. CASE BuildEngine
  BY <1>0, <1>13 DEF BuildEngine, LifecycleInv, TypeOK, GoalOK, CardOK, EngineOK,
     BuffersOK, RunningOK
<1>14. CASE GetWorkLoop
  <2>1. TypeOK'
    BY <1>0, <1>14 DEF GetWorkLoop, TypeOK, CardOK, EngineOK
  <2>2. GoalOK'
    BY <1>0, <1>14 DEF GetWorkLoop, GoalOK, TypeOK, EngineOK
  <2>3. CardOK'
    BY <1>0, <1>14 DEF GetWorkLoop, CardOK, TypeOK, GoalOK, EngineOK
  <2>4. EngineOK'
    BY <1>0, <1>14 DEF GetWorkLoop, EngineOK, TypeOK, GoalOK
  <2>5. BuffersOK'
    <3>1. stage' = AllocOrder[1] /\ buffers' = {}
      BY <1>0, <1>14 DEF GetWorkLoop, BuffersOK
    <3>2. {AllocOrder[i] : i \in 1 .. 1 - 1} = {}
      OBVIOUS
    <3>3. QED
      BY <1>0, <1>14, <3>1, <3>2 DEF GetWorkLoop, BuffersOK
  <2>6. RunningOK'
    BY <1>0, <1>14 DEF GetWorkLoop, RunningOK, TypeOK, EngineOK
  <2>7. QED
    BY <2>1, <2>2, <2>3, <2>4, <2>5, <2>6 DEF LifecycleInv
<1>15. CASE ProgramAddresses
  BY <1>0, <1>15 DEF ProgramAddresses, LifecycleInv, TypeOK, GoalOK, CardOK, EngineOK,
     BuffersOK, RunningOK
<1>16. CASE CreateStreams
  BY <1>0, <1>16 DEF CreateStreams, LifecycleInv, TypeOK, GoalOK, CardOK, EngineOK,
     BuffersOK, RunningOK
<1>17. CASE AddEventSource
  BY <1>0, <1>17 DEF AddEventSource, LifecycleInv, TypeOK, GoalOK, CardOK, EngineOK,
     BuffersOK, RunningOK
<1>18. CASE EngineInitFails
  BY <1>0, <1>18 DEF EngineInitFails, LifecycleInv, TypeOK, GoalOK, CardOK, EngineOK,
     BuffersOK, RunningOK
<1>19. CASE StopEngine
  <2>1. TypeOK'
    BY <1>0, <1>19 DEF StopEngine, TypeOK, CardOK, EngineOK
  <2>2. GoalOK'
    BY <1>0, <1>19 DEF StopEngine, GoalOK, TypeOK, EngineOK
  <2>3. CardOK'
    BY <1>0, <1>19 DEF StopEngine, CardOK, TypeOK, GoalOK, EngineOK
  <2>4. EngineOK'
    BY <1>0, <1>19 DEF StopEngine, EngineOK, TypeOK, GoalOK
  <2>5. BuffersOK'
    BY <1>0, <1>19 DEF StopEngine, BuffersOK, TypeOK, EngineOK
  <2>6. RunningOK'
    BY <1>0, <1>19 DEF StopEngine, RunningOK, TypeOK, EngineOK
  <2>7. QED
    BY <2>1, <2>2, <2>3, <2>4, <2>5, <2>6 DEF LifecycleInv
<1>20. CASE HaltEngine
  <2>1. TypeOK'
    BY <1>0, <1>20 DEF HaltEngine, TypeOK, CardOK, EngineOK
  <2>2. GoalOK'
    BY <1>0, <1>20 DEF HaltEngine, GoalOK, TypeOK, EngineOK
  <2>3. CardOK'
    BY <1>0, <1>20 DEF HaltEngine, CardOK, TypeOK, GoalOK, EngineOK
  <2>4. EngineOK'
    BY <1>0, <1>20 DEF HaltEngine, EngineOK, TypeOK, GoalOK
  <2>5. BuffersOK'
    BY <1>0, <1>20 DEF HaltEngine, BuffersOK, TypeOK, EngineOK
  <2>6. RunningOK'
    BY <1>0, <1>20 DEF HaltEngine, RunningOK, TypeOK, EngineOK
  <2>7. QED
    BY <2>1, <2>2, <2>3, <2>4, <2>5, <2>6 DEF LifecycleInv
<1>21. CASE FreeEngine
  <2>1. TypeOK'
    BY <1>0, <1>21 DEF FreeEngine, TypeOK, CardOK, EngineOK
  <2>2. GoalOK'
    BY <1>0, <1>21 DEF FreeEngine, GoalOK, TypeOK, EngineOK
  <2>3. CardOK'
    BY <1>0, <1>21 DEF FreeEngine, CardOK, TypeOK, GoalOK, EngineOK
  <2>4. EngineOK'
    BY <1>0, <1>21 DEF FreeEngine, EngineOK, TypeOK, GoalOK
  <2>5. BuffersOK'
    BY <1>0, <1>21 DEF FreeEngine, BuffersOK, TypeOK, EngineOK
  <2>6. RunningOK'
    BY <1>0, <1>21 DEF FreeEngine, RunningOK, TypeOK, EngineOK
  <2>7. QED
    BY <2>1, <2>2, <2>3, <2>4, <2>5, <2>6 DEF LifecycleInv
<1>22. CASE FreeDevice
  BY <1>0, <1>22 DEF FreeDevice, LifecycleInv, TypeOK, GoalOK, CardOK, EngineOK,
     BuffersOK, RunningOK
<1>23. ASSUME NEW n \in 1 .. 6, AllocBuffer(n) PROVE LifecycleInv'
  BY <1>0, <1>23 DEF AllocBuffer, LifecycleInv, TypeOK, GoalOK, CardOK, EngineOK,
     BuffersOK, RunningOK
<1>24. CASE UNCHANGED vars
  BY <1>24, StutterHolds
<1>25. QED
  BY <1>1, <1>2, <1>3, <1>4, <1>5, <1>6, <1>7, <1>8, <1>9, <1>10, <1>11, <1>12, <1>13, <1>14, <1>15, <1>16, <1>17, <1>18, <1>19, <1>20, <1>21, <1>22, <1>23, <1>24 DEF Next, Request, StartUp, EngineStep

-----------------------------------------------------------------------------
(* Wherever initialisation fails *)

\* What holds up to any failure, and after the first bad access, too.
LEMMA InvAlways == Spec => []LifecycleInv
BY InitHolds, StepHolds, PTL DEF Spec

\* The state stays well-typed, and what a card holds goes with the card,
\* whichever stages fail.
THEOREM TypeCorrect == Spec => []TypeOK
<1>1. LifecycleInv => TypeOK
  BY DEF LifecycleInv
<1>2. QED
  BY <1>1, InvAlways, PTL

\* Whichever stages fail, and on every kind of card, a running engine's channels
\* transfer to and from buffers that are held and that the chip was told of.
THEOREM DmaAlwaysIntoHeldBuffers == Spec => []DmaIntoHeldBuffers
<1>1. LifecycleInv => DmaIntoHeldBuffers
  <2> SUFFICES ASSUME LifecycleInv, dma PROVE InUse \subseteq buffers \cap dmaAddress
    BY DEF DmaIntoHeldBuffers
  <2>1. buffers = Handles /\ InUse \subseteq dmaAddress
    BY DEF LifecycleInv, RunningOK, BuffersOK, Idle
  <2>2. dmaAddress \subseteq Handles
    BY DEF LifecycleInv, TypeOK
  <2>3. QED
    BY <2>1, <2>2
<1>2. QED
  BY <1>1, InvAlways, PTL

\* Whichever stages fail, the interrupt filter is on the work loop only while
\* the card, its register maps and the engine are there.
THEOREM FilterAlwaysHasItsObjects == Spec => []FilterHasItsObjects
<1>1. LifecycleInv => FilterHasItsObjects
  <2> SUFFICES ASSUME LifecycleInv, source
               PROVE  /\ engine \in {"started", "running"}
                      /\ card = "live" /\ maps = {"iobase", "mtbase"}
    BY DEF FilterHasItsObjects
  <2>1. CASE stage = "engine_stop"
    BY <2>1 DEF LifecycleInv, CardOK, EngineOK, Leaving
  <2>2. CASE Idle /\ engine # "none"
    <3>1. engine \in {"started", "running"} /\ device = "up"
      BY <2>2 DEF LifecycleInv, TypeOK, EngineOK
    <3>2. QED
      BY <2>2, <3>1 DEF LifecycleInv, CardOK
  <2>3. QED
    BY <2>1, <2>2 DEF LifecycleInv, RunningOK
<1>2. QED
  BY <1>1, InvAlways, PTL

-----------------------------------------------------------------------------
(* Where what is released is not held *)

Deleted == failed \cap CardIsDeleted # {}
Empty == failed \cap HandlesAreEmpty # {}

\* A failed device has a card it deleted just when Deleted, and an engine on its
\* way out lacks buffers just when Empty.  Neither goes back into use.
ReleasedOK ==
    /\ Deleted => device \in {"failed", "freed"}
    /\ device = "failed" => Idle /\ ~Empty /\ (card = "dangling" <=> Deleted)
    /\ device = "freed" => Idle /\ ~Empty
    /\ stage = "engine_free" => fault = "none" /\ (buffers = Handles <=> ~Empty)
    /\ device = "freed" => maps = {} /\ codecs = FALSE /\ engine = "none"
    /\ fault = "deleted card" <=> device = "freed" /\ Deleted
    /\ fault = "null handle" <=> stage # "engine_free" /\ Empty

\* The stages that may be in failed.
LEMMA Halves ==
    /\ CardIsDeleted = {"pci_dev", "iobase", "mtbase", "chip"}
    /\ HandlesAreEmpty = {"controls", "workloop"} \cup Handles
BY Allocations DEF CardIsDeleted, HandlesAreEmpty, DeviceStages, EngineStages

\* Steps under which neither set of failures, nor what they led to, changes.
LEMMA ReleasedStays ==
    ASSUME LifecycleInv, ReleasedOK, fault = "none", failed' = failed, fault' = fault,
           device' = device, device \notin {"failed", "freed"},
           stage # "engine_free", stage' # "engine_free"
    PROVE  ReleasedOK'
BY DEF ReleasedOK, Deleted, Empty

LEMMA ReleasedHolds == LifecycleInv /\ ReleasedOK /\ [Next]_vars => ReleasedOK'
<1> USE DEF At, Alive, Idle, machine, chipside
<1> SUFFICES ASSUME LifecycleInv, ReleasedOK, [Next]_vars PROVE ReleasedOK'
  OBVIOUS
<1>1. TypeOK /\ GoalOK /\ CardOK /\ EngineOK /\ BuffersOK /\ RunningOK
  BY DEF LifecycleInv
<1>2. CASE Request
  BY <1>1, <1>2 DEF Request, Start, Run, Halt, Sleep, Wake, RemoveDevice, Deactivate,
     ReleasedOK, Deleted, Empty
<1>3. CASE InitFails
  <2>1. /\ fault = "none" /\ fault' = fault /\ device = "new" /\ device' = "failed"
        /\ stage \in DeviceStages /\ stage' = "idle" /\ failed' = failed \cup {stage}
        /\ card' = IF card = "null" THEN "null" ELSE "dangling"
    BY <1>1, <1>3 DEF InitFails, GoalOK
  <2>2. ~Deleted /\ ~Empty
    BY <2>1 DEF ReleasedOK, DeviceStages
  <2>3. ~Empty'
    BY <2>1, <2>2, Halves, Allocations DEF Empty, DeviceStages
  <2>4. Deleted' <=> stage \in CardIsDeleted
    BY <2>1, <2>2 DEF Deleted
  <2>5. card' = "dangling" <=> stage \in CardIsDeleted
    <3>1. CASE stage \in {"super", "card"}
      BY <1>1, <2>1, <3>1, Halves DEF CardOK
    <3>2. CASE stage \in {"pci_dev", "iobase", "mtbase", "chip"}
      BY <1>1, <2>1, <3>2, Halves DEF CardOK
    <3>3. QED
      BY <2>1, <3>1, <3>2 DEF DeviceStages
  <2>6. QED
    BY <2>1, <2>3, <2>4, <2>5 DEF ReleasedOK
<1>4. CASE StartSuper \/ NewCard \/ CastProvider \/ MapRegisters \/ AllocDriverData
  BY <1>1, <1>4, ReleasedStays DEF StartSuper, NewCard, CastProvider, MapRegisters,
     AllocDriverData, GoalOK, DeviceStages
<1>5. CASE EngineInitFails
  <2>1. /\ fault = "none" /\ fault' = fault /\ device' = device
        /\ device \in {"new", "up"} /\ stage \in EngineStages
        /\ stage' = "engine_free" /\ failed' = failed \cup {stage} /\ buffers' = buffers
    BY <1>1, <1>5 DEF EngineInitFails, EngineStages, GoalOK, EngineParts
  <2>2. stage # "engine_free"
    BY <2>1, Allocations DEF EngineStages
  <2>3. ~Deleted /\ ~Empty
    BY <2>1, <2>2 DEF ReleasedOK
  <2>4. ~Deleted'
    BY <2>1, <2>3, Halves, Allocations DEF Deleted, EngineStages
  <2>5. Empty' <=> stage \in HandlesAreEmpty
    BY <2>1, <2>3 DEF Empty
  <2>6. buffers = Handles <=> stage \notin HandlesAreEmpty
    <3>1. CASE stage \in {"streams", "source"}
      BY <1>1, <3>1, Halves, Allocations DEF BuffersOK
    <3>2. CASE stage \in {"controls", "workloop"}
      BY <1>1, <3>2, Halves, Allocations DEF BuffersOK
    <3>3. CASE stage \in Handles
      <4>1. PICK k \in 1 .. 6 : stage = AllocOrder[k]
        BY <3>3, Allocations
      <4>2. buffers = {AllocOrder[i] : i \in 1 .. k - 1}
        BY <1>1, <4>1 DEF BuffersOK
      <4>3. AllocOrder[k] \notin buffers
        <5>1. \A i \in 1 .. k - 1 : i \in 1 .. 6 /\ i # k
          OBVIOUS
        <5>2. QED
          BY <4>2, <5>1, Allocations
      <4>4. QED
        BY <3>3, <4>1, <4>3, Halves
    <3>4. QED
      BY <2>1, <3>1, <3>2, <3>3 DEF EngineStages
  <2>7. QED
    BY <2>1, <2>4, <2>5, <2>6 DEF ReleasedOK
<1>6. CASE FreeEngine
  <2>1. /\ stage = "engine_free" /\ stage' = "idle" /\ device \in {"new", "up"}
        /\ device' \in {"up", "stopped"} /\ failed' = failed
        /\ fault' = IF buffers = Handles THEN "none" ELSE "null handle"
    BY <1>1, <1>6 DEF FreeEngine, GoalOK, Leaving
  <2>2. ~Deleted /\ (buffers = Handles <=> ~Empty)
    BY <2>1 DEF ReleasedOK
  <2>3. ~Deleted' /\ (Empty' <=> Empty)
    BY <2>1, <2>2 DEF Deleted, Empty
  <2>4. QED
    BY <2>1, <2>2, <2>3 DEF ReleasedOK
<1>7. CASE BuildEngine \/ GetWorkLoop \/ ProgramAddresses \/ CreateStreams \/ StopEngine
  BY <1>1, <1>7, ReleasedStays, Allocations DEF BuildEngine, GetWorkLoop, ProgramAddresses,
     CreateStreams, StopEngine, GoalOK, EngineParts, Leaving
<1>8. CASE AddEventSource
  BY <1>1, <1>8 DEF AddEventSource, GoalOK, EngineParts, ReleasedOK, Deleted, Empty
<1>9. CASE HaltEngine
  BY <1>1, <1>9 DEF HaltEngine, GoalOK, Leaving, BuffersOK, ReleasedOK, Deleted, Empty
<1>10. ASSUME NEW k \in 1 .. 6, AllocBuffer(k) PROVE ReleasedOK'
  <2>1. /\ stage = AllocOrder[k] /\ fault = "none" /\ fault' = fault /\ device' = device
        /\ failed' = failed
        /\ stage' = IF k < Len(AllocOrder) THEN AllocOrder[k + 1] ELSE "addresses"
    BY <1>10 DEF AllocBuffer
  <2>2. stage \in Handles /\ stage # "engine_free" /\ device \in {"new", "up"}
    BY <1>1, <2>1, Allocations DEF GoalOK, EngineParts
  <2>3. stage' # "engine_free"
    <3>1. k < 6 => k + 1 \in 1 .. 6
      OBVIOUS
    <3>2. QED
      BY <2>1, <3>1, Allocations
  <2>4. QED
    BY <2>1, <2>2, <2>3, ReleasedStays
<1>11. CASE FreeDevice
  <2>1. /\ stage = "idle" /\ stage' = stage /\ fault = "none"
        /\ device \in {"failed", "stopped"} /\ device' = "freed"
        /\ fault' = (IF card = "dangling" THEN "deleted card" ELSE "none")
        /\ codecs' = FALSE /\ maps' = {} /\ engine' = engine /\ failed' = failed
    BY <1>11 DEF FreeDevice
  <2>2. engine = "none" /\ (device = "stopped" => card = "live")
    BY <1>1, <2>1 DEF EngineOK, CardOK
  <2>3. ~Empty /\ (card = "dangling" <=> Deleted)
    BY <2>1, <2>2 DEF ReleasedOK
  <2>4. (Empty' <=> Empty) /\ (Deleted' <=> Deleted)
    BY <2>1 DEF Empty, Deleted
  <2>5. QED
    BY <2>1, <2>2, <2>3, <2>4 DEF ReleasedOK
<1>12. CASE UNCHANGED vars
  BY <1>12 DEF vars, ReleasedOK, Deleted, Empty
<1>13. QED
  BY <1>2, <1>3, <1>4, <1>5, <1>6, <1>7, <1>8, <1>9, <1>10, <1>11, <1>12, Allocations
     DEF Next, StartUp, EngineStep

LEMMA ReleasedAlways == Spec => [](LifecycleInv /\ ReleasedOK)
<1>1. Init => ReleasedOK
  BY DEF Init, ReleasedOK, Deleted, Empty, Idle
<1>2. QED
  BY <1>1, InvAlways, ReleasedHolds, PTL DEF Spec

\* Whichever stages fail, through any sleeps, wakes and a removal: free() of the
\* device deletes a deleted card, and free() of the engine releases an empty
\* handle, after the failures that lead there and after no others.
THEOREM FaultsAlwaysFollowHalfInit == Spec => []FaultsFollowHalfInit
<1>1. ReleasedOK => FaultsFollowHalfInit
  BY DEF ReleasedOK, FaultsFollowHalfInit, Deleted, Empty
<1>2. QED
  BY <1>1, ReleasedAlways, PTL

\* Whichever stages fail, what was acquired is given back, up to an empty handle
\* at which free() of the engine stops.
THEOREM NothingEverLeftBehind == Spec => []NothingLeftBehind
<1>1. LifecycleInv /\ ReleasedOK => NothingLeftBehind
  <2> SUFFICES ASSUME LifecycleInv, ReleasedOK PROVE NothingLeftBehind
    OBVIOUS
  <2>1. engine = "none" /\ fault # "null handle" => buffers = {} /\ ~source
    BY Allocations DEF LifecycleInv, EngineOK, BuffersOK, RunningOK,
       TypeOK, DeviceStages, EngineStages, EngineParts, Idle
  <2>2. device = "freed" => maps = {} /\ ~codecs /\ engine = "none"
    BY DEF ReleasedOK
  <2>3. QED
    BY <2>1, <2>2 DEF NothingLeftBehind
<1>2. QED
  BY <1>1, ReleasedAlways, PTL
=============================================================================
