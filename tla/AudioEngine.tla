---------------------------- MODULE AudioEngine ----------------------------
(***************************************************************************)
(* The start, stop, format-change and interrupt paths of                   *)
(* Envy24HTAudioEngine (src/AudioEngine.cpp) at the granularity at which   *)
(* they can interleave: one step per access to a register that both the   *)
(* work-loop thread and the primary-interrupt filter touch.                *)
(*                                                                         *)
(* Two actors share the chip's MT registers without a lock.  The thread    *)
(* runs performAudioEngineStart, performAudioEngineStop and                *)
(* performFormatChange behind IOAudioFamily's command gate, so never two   *)
(* of them at once.  The filter runs filterInterrupt in primary interrupt  *)
(* context, never two at once either.  Registers are sets of bit names.    *)
(***************************************************************************)
EXTENDS Integers

CONSTANTS
    SMP,         \* TRUE: the filter may run on another CPU than the thread
    FifoErrors,  \* TRUE: the chip may report FIFO under/overruns
    HasSPDIF,    \* card->Specific.HasSPDIF
    Concurrent,  \* the PDMAi with card->Specific.concurrentDMAi set
    Rates,       \* sample rates the streams offer
    NoRate,      \* a format change without a rate (newSampleRate == NULL)
    LoopMod      \* bound: the loop counter wraps at LoopMod

ASSUME ConstantsAssumption ==
    /\ SMP \in BOOLEAN /\ FifoErrors \in BOOLEAN /\ HasSPDIF \in BOOLEAN
    /\ Concurrent \subseteq {"PDMA1", "PDMA2", "PDMA3"}
    /\ Rates \subseteq Nat
    /\ NoRate \notin Rates
    /\ LoopMod \in Nat \ {0, 1}

PlayDma == {"PDMA0", "PDMA1", "PDMA2", "PDMA3", "PDMA4"}
RecDma  == {"RDMA0", "RDMA1"}
\* The bits of MT_INTR_STATUS and MT_INTR_MASK.
IrqBits == PlayDma \cup RecDma \cup {"FIFO"}

\* The rate of a new engine, and of a format change that names none.
DefaultRate == 44100

\* The rates the S/PDIF transmitter has a code for.
SPDIF_Frequencies == {32000, 44100, 48000, 88200, 96000, 176400, 192000}

VARIABLES
    \* the work-loop thread and the engine state IOAudioFamily keeps
    engine,            \* "down", "stopped", "paused" or "running"
    goal,              \* the engine state when the call in progress returns
    tpc,               \* what the thread does next, "idle" between calls
    ttmp,              \* tmp of its ClearMask8/WriteMask8, or Start's start
    \* the chip
    dmaControl,        \* MT_DMA_CONTROL
    intrMask,          \* MT_INTR_MASK: a bit in it is masked
    intrStatus,        \* MT_INTR_STATUS: write 1 to clear
    underrun,          \* MT_DMA_UNDERRUN # 0
    lengths,           \* channels whose LENGTH register is programmed
    integrated,        \* CCS_SPDIF_INTEGRATED in CCS_SPDIF_CONFIG
    \* the driver's own fields
    rateSupported,     \* card->SPDIF_RateSupported
    currentSampleRate, \* the rate MT_SAMPLERATE was last set for
    attached,          \* interruptEventSource is on the work loop
    \* the interrupt filter
    fpc, mtstatus, ftmp, fstatus,
    \* the clock IOAudioFamily derives from takeTimeStamp()
    due,               \* a wrap of the PDMA0 ring is not yet counted
    loopCount          \* the loop count, modulo LoopMod

thread == <<engine, goal, tpc, ttmp>>
format == <<integrated, rateSupported, currentSampleRate>>
filter == <<fpc, mtstatus, ftmp, fstatus>>
clock  == <<due, loopCount>>
vars   == <<thread, dmaControl, intrMask, intrStatus, underrun, lengths,
            format, attached, filter, clock>>

-----------------------------------------------------------------------------
(* Requests.  The command gate hands the thread one call at a time.        *)

\* What card_init and then initHardware leave behind: the chip was reset,
\* MT_INTR_MASK is 0xFF, and setFormat() of every new stream ran
\* performFormatChange without a rate, that is for 44100 Hz.
Init ==
    /\ dmaControl = {} /\ intrStatus = {} /\ underrun = FALSE
    /\ intrMask = IrqBits
    /\ lengths = {}
    /\ integrated = TRUE /\ rateSupported = TRUE
    /\ currentSampleRate = DefaultRate
    /\ attached = TRUE
    /\ engine = "stopped" /\ goal = "stopped" /\ tpc = "idle" /\ ttmp = {}
    /\ fpc = "idle" /\ mtstatus = {} /\ ftmp = {} /\ fstatus = FALSE
    /\ due = FALSE /\ loopCount = 0

\* On one CPU the thread does not run while the filter does.
ThreadMayRun == SMP \/ fpc = "idle"

\* The framework calls performAudioEngineStart, also to resume from a pause.
RequestStart ==
    /\ tpc = "idle" /\ ThreadMayRun
    /\ engine \in {"stopped", "paused"}
    /\ tpc' = "start_dma" /\ goal' = "running"
    /\ UNCHANGED <<engine, ttmp, dmaControl, intrMask, intrStatus, underrun,
                   lengths, format, attached, filter, clock>>

\* The framework calls performAudioEngineStop, for good or as a pause.
RequestStop ==
    /\ tpc = "idle" /\ ThreadMayRun
    /\ engine = "running"
    /\ tpc' = "stop_dma" /\ goal' \in {"stopped", "paused"}
    /\ UNCHANGED <<engine, ttmp, dmaControl, intrMask, intrStatus, underrun,
                   lengths, format, attached, filter, clock>>

\* Mutant: a rate without a code leaves SPDIF_RateSupported as it was.
FormatChangeKeepsSupport(r) ==
    LET rate == IF r = NoRate THEN DefaultRate ELSE r
        coded == rate \in SPDIF_Frequencies
    IN  /\ tpc = "idle" /\ ThreadMayRun
        /\ engine \in {"stopped", "paused"}
        /\ currentSampleRate' = rate
        /\ integrated' = coded
        /\ rateSupported' = (rateSupported \/ coded)
        /\ UNCHANGED <<thread, dmaControl, intrMask, intrStatus, underrun,
                       lengths, attached, filter, clock>>

\* Mutant: the absent rate is taken for a rate.
FormatChangeTakesNoRate(r) ==
    LET coded == r \in SPDIF_Frequencies
    IN  /\ tpc = "idle" /\ ThreadMayRun
        /\ engine \in {"stopped", "paused"}
        /\ currentSampleRate' = r
        /\ integrated' = coded
        /\ rateSupported' = coded
        /\ UNCHANGED <<thread, dmaControl, intrMask, intrStatus, underrun,
                       lengths, attached, filter, clock>>

\* performFormatChange: an absent rate means 44100; the transmitter is
\* disabled first and enabled again only for a rate it has a code for.
FormatChange(r) ==
    LET rate == IF r = NoRate THEN DefaultRate ELSE r
        coded == rate \in SPDIF_Frequencies
    IN  /\ tpc = "idle" /\ ThreadMayRun
        /\ engine \in {"stopped", "paused"}
        /\ currentSampleRate' = rate
        /\ integrated' = coded
        /\ rateSupported' = coded
        /\ UNCHANGED <<thread, dmaControl, intrMask, intrStatus, underrun,
                       lengths, attached, filter, clock>>

\* Mutant: tearing the engine down does not stop it first.
TerminateRunning ==
    /\ tpc = "idle" /\ ThreadMayRun
    /\ engine \in {"stopped", "running"}
    /\ attached' = FALSE
    /\ goal' = "down" /\ engine' = "down"
    /\ UNCHANGED <<tpc, ttmp, dmaControl, intrMask, intrStatus, underrun,
                   lengths, format, filter, clock>>

\* stop(provider), on going to sleep or on removal: the event source leaves
\* the work loop first; only then does super::stop stop a running engine.
Terminate ==
    /\ tpc = "idle" /\ ThreadMayRun
    /\ engine \in {"stopped", "running"}
    /\ attached' = FALSE
    /\ goal' = "down"
    /\ IF engine = "running"
       THEN tpc' = "stop_dma" /\ engine' = engine
       ELSE tpc' = tpc /\ engine' = "down"
    /\ UNCHANGED <<ttmp, dmaControl, intrMask, intrStatus, underrun, lengths,
                   format, filter, clock>>

\* Waking up: card_init resets the chip and createAudioEngine builds a new
\* engine.  A filter call of the old engine is long over by then.
Wake ==
    /\ tpc = "idle" /\ fpc = "idle"
    /\ engine = "down"
    /\ engine' = "stopped"
    /\ dmaControl' = {} /\ intrStatus' = {} /\ underrun' = FALSE
    /\ intrMask' = IrqBits
    /\ lengths' = {}
    /\ integrated' = TRUE /\ rateSupported' = TRUE
    /\ currentSampleRate' = DefaultRate
    /\ attached' = TRUE
    /\ due' = FALSE /\ loopCount' = 0
    /\ UNCHANGED <<goal, tpc, ttmp, filter>>

-----------------------------------------------------------------------------
(* performAudioEngineStart *)

At(label) == tpc = label /\ ThreadMayRun

\* Only the thread writes MT_DMA_CONTROL, so its read-modify-write is one step.
StartClearDma ==
    /\ At("start_dma")
    /\ dmaControl' = dmaControl \ (PlayDma \cup RecDma)
    /\ tpc' = "start_mask_read"
    /\ UNCHANGED <<engine, goal, ttmp, intrMask, intrStatus, underrun, lengths,
                   format, attached, filter, clock>>

\* Mutant: Start also enables the recording interrupt, as the code once did.
StartUnmasksRecording ==
    /\ At("start_mask_read")
    /\ ttmp' = intrMask \ {"PDMA0", "RDMA0"}
    /\ tpc' = "start_mask_write"
    /\ UNCHANGED <<engine, goal, dmaControl, intrMask, intrStatus, underrun,
                   lengths, format, attached, filter, clock>>

\* Mutant: Start uses WriteMask8 where ClearMask8 is meant.
StartMasks ==
    /\ At("start_mask_read")
    /\ ttmp' = intrMask \cup {"PDMA0"}
    /\ tpc' = "start_mask_write"
    /\ UNCHANGED <<engine, goal, dmaControl, intrMask, intrStatus, underrun,
                   lengths, format, attached, filter, clock>>

StartReadMask ==
    /\ At("start_mask_read")
    /\ ttmp' = intrMask \ {"PDMA0"}
    /\ tpc' = "start_mask_write"
    /\ UNCHANGED <<engine, goal, dmaControl, intrMask, intrStatus, underrun,
                   lengths, format, attached, filter, clock>>

StartWriteMask ==
    /\ At("start_mask_write")
    /\ intrMask' = ttmp
    /\ tpc' = "start_clear"
    /\ UNCHANGED <<engine, goal, ttmp, dmaControl, intrStatus, underrun,
                   lengths, format, attached, filter, clock>>

\* Mutant: Start does not clear the PDMA0 bit an earlier run left.
StartKeepsPending ==
    /\ At("start_clear")
    /\ intrStatus' = intrStatus \cap {"PDMA0"}
    /\ tpc' = "start_lengths"
    /\ UNCHANGED <<engine, goal, ttmp, dmaControl, intrMask, underrun, lengths,
                   format, attached, filter, clock>>

\* WriteMask8 names every bit, so what it read does not matter.
StartClearPending ==
    /\ At("start_clear")
    /\ intrStatus' = intrStatus \ IrqBits
    /\ tpc' = "start_lengths"
    /\ UNCHANGED <<engine, goal, ttmp, dmaControl, intrMask, underrun, lengths,
                   format, attached, filter, clock>>

\* The channels Start runs; it programs the length of each of them.
StartChannels ==
    {"PDMA0", "RDMA0"} \cup Concurrent
        \cup (IF rateSupported /\ HasSPDIF THEN {"PDMA4"} ELSE {})

StartProgramLengths ==
    /\ At("start_lengths")
    /\ lengths' = lengths \cup StartChannels
    /\ ttmp' = StartChannels
    /\ tpc' = "start_go"
    /\ UNCHANGED <<engine, goal, dmaControl, intrMask, intrStatus, underrun,
                   format, attached, filter, clock>>

\* takeTimeStamp(false) does not count a loop; the DMA channels start and the
\* framework records the new state.  The wraps of earlier runs are history.
StartGo ==
    /\ At("start_go")
    /\ dmaControl' = dmaControl \cup ttmp
    /\ due' = FALSE
    /\ engine' = goal /\ tpc' = "idle" /\ ttmp' = {}
    /\ UNCHANGED <<goal, intrMask, intrStatus, underrun, lengths, format,
                   attached, filter, loopCount>>

-----------------------------------------------------------------------------
(* performAudioEngineStop *)

\* Mutant: Stop forgets the S/PDIF channel.
StopLeavesSPDIF ==
    /\ At("stop_dma")
    /\ dmaControl' = dmaControl \ (PlayDma \ {"PDMA4"})
    /\ tpc' = "stop_mask_read"
    /\ UNCHANGED <<engine, goal, ttmp, intrMask, intrStatus, underrun, lengths,
                   format, attached, filter, clock>>

StopPlayback ==
    /\ At("stop_dma")
    /\ dmaControl' = dmaControl \ PlayDma
    /\ tpc' = "stop_mask_read"
    /\ UNCHANGED <<engine, goal, ttmp, intrMask, intrStatus, underrun, lengths,
                   format, attached, filter, clock>>

\* Mutant: Stop masks FIFO errors only.
StopMasksFifoOnly ==
    /\ At("stop_mask_read")
    /\ ttmp' = intrMask \cup {"FIFO"}
    /\ tpc' = "stop_mask_write"
    /\ UNCHANGED <<engine, goal, dmaControl, intrMask, intrStatus, underrun,
                   lengths, format, attached, filter, clock>>

StopReadMask ==
    /\ At("stop_mask_read")
    /\ ttmp' = intrMask \cup {"FIFO", "PDMA0"}
    /\ tpc' = "stop_mask_write"
    /\ UNCHANGED <<engine, goal, dmaControl, intrMask, intrStatus, underrun,
                   lengths, format, attached, filter, clock>>

StopWriteMask ==
    /\ At("stop_mask_write")
    /\ intrMask' = ttmp
    /\ tpc' = "stop_rec"
    /\ UNCHANGED <<engine, goal, ttmp, dmaControl, intrStatus, underrun,
                   lengths, format, attached, filter, clock>>

StopRecording ==
    /\ At("stop_rec")
    /\ dmaControl' = dmaControl \ RecDma
    /\ tpc' = "stop_recmask_read"
    /\ UNCHANGED <<engine, goal, ttmp, intrMask, intrStatus, underrun, lengths,
                   format, attached, filter, clock>>

StopReadRecMask ==
    /\ At("stop_recmask_read")
    /\ ttmp' = intrMask \cup RecDma
    /\ tpc' = "stop_recmask_write"
    /\ UNCHANGED <<engine, goal, dmaControl, intrMask, intrStatus, underrun,
                   lengths, format, attached, filter, clock>>

StopWriteRecMask ==
    /\ At("stop_recmask_write")
    /\ intrMask' = ttmp
    /\ engine' = goal /\ tpc' = "idle" /\ ttmp' = {}
    /\ UNCHANGED <<goal, dmaControl, intrStatus, underrun, lengths, format,
                   attached, filter, clock>>

-----------------------------------------------------------------------------
(* filterInterrupt *)

\* CCS_INTR_PLAYREC is the macro bit over the MT interrupts that are not
\* masked; it falls when they are cleared in MT_INTR_STATUS.
PlayRec == intrStatus \ intrMask # {}

FilterEnter ==
    /\ fpc = "idle" /\ attached
    /\ PlayRec
    /\ fpc' = "read"
    /\ UNCHANGED <<thread, dmaControl, intrMask, intrStatus, underrun, lengths,
                   format, attached, mtstatus, ftmp, fstatus, clock>>

FilterReadStatus ==
    /\ fpc = "read"
    /\ mtstatus' = intrStatus
    /\ fpc' = IF "FIFO" \in intrStatus THEN "fifo_underrun" ELSE "ack"
    /\ UNCHANGED <<thread, dmaControl, intrMask, intrStatus, underrun, lengths,
                   format, attached, ftmp, fstatus, clock>>

FifoReadUnderrun ==
    /\ fpc = "fifo_underrun"
    /\ fstatus' = underrun
    /\ fpc' = "fifo_status_read"
    /\ UNCHANGED <<thread, dmaControl, intrMask, intrStatus, underrun, lengths,
                   format, attached, mtstatus, ftmp, clock>>

\* WriteMask8 on a write-1-to-clear register: what was read is cleared too.
FifoReadStatus ==
    /\ fpc = "fifo_status_read"
    /\ ftmp' = intrStatus \cup {"FIFO"}
    /\ fpc' = "fifo_status_write"
    /\ UNCHANGED <<thread, dmaControl, intrMask, intrStatus, underrun, lengths,
                   format, attached, mtstatus, fstatus, clock>>

FifoClearStatus ==
    /\ fpc = "fifo_status_write"
    /\ intrStatus' = intrStatus \ ftmp
    /\ fpc' = "fifo_underrun_ack"
    /\ UNCHANGED <<thread, dmaControl, intrMask, underrun, lengths,
                   format, attached, mtstatus, ftmp, fstatus, clock>>

FifoAckUnderrun ==
    /\ fpc = "fifo_underrun_ack"
    /\ underrun' = (underrun /\ ~fstatus)
    /\ fpc' = "fifo_mask_read"
    /\ UNCHANGED <<thread, dmaControl, intrMask, intrStatus, lengths,
                   format, attached, mtstatus, ftmp, fstatus, clock>>

FifoReadMask ==
    /\ fpc = "fifo_mask_read"
    /\ ftmp' = intrMask \cup {"FIFO"}
    /\ fpc' = "fifo_mask_write"
    /\ UNCHANGED <<thread, dmaControl, intrMask, intrStatus, underrun, lengths,
                   format, attached, mtstatus, fstatus, clock>>

FifoWriteMask ==
    /\ fpc = "fifo_mask_write"
    /\ intrMask' = ftmp
    /\ fpc' = "ack"
    /\ UNCHANGED <<thread, dmaControl, intrStatus, underrun, lengths,
                   format, attached, mtstatus, ftmp, fstatus, clock>>

\* Mutant: the filter clears the FIFO bit only.
FilterAckFifo ==
    /\ fpc = "ack"
    /\ intrStatus' = intrStatus \ (mtstatus \cap {"FIFO"})
    /\ fpc' = "stamp"
    /\ UNCHANGED <<thread, dmaControl, intrMask, underrun, lengths,
                   format, attached, mtstatus, ftmp, fstatus, clock>>

FilterAck ==
    /\ fpc = "ack"
    /\ intrStatus' = intrStatus \ mtstatus
    /\ fpc' = "stamp"
    /\ UNCHANGED <<thread, dmaControl, intrMask, underrun, lengths,
                   format, attached, mtstatus, ftmp, fstatus, clock>>

\* takeTimeStamp() counts one loop if any playback channel wrapped.
FilterStamp ==
    /\ fpc = "stamp"
    /\ IF mtstatus \cap PlayDma # {}
       THEN loopCount' = (loopCount + 1) % LoopMod /\ due' = FALSE
       ELSE UNCHANGED clock
    /\ fpc' = "idle" /\ mtstatus' = {} /\ ftmp' = {} /\ fstatus' = FALSE
    /\ UNCHANGED <<thread, dmaControl, intrMask, intrStatus, underrun, lengths,
                   format, attached>>

-----------------------------------------------------------------------------
(* The chip *)

\* A running channel reaches the end of its ring.  A PDMA0 ring lasts much
\* longer than an interrupt is served in: no second wrap before the first
\* is counted.
DmaWrap(c) ==
    /\ c \in dmaControl
    /\ c = "PDMA0" => ~due
    /\ intrStatus' = intrStatus \cup {c}
    /\ due' = (due \/ c = "PDMA0")
    /\ UNCHANGED <<thread, dmaControl, intrMask, underrun, lengths, format,
                   attached, filter, loopCount>>

FifoError ==
    /\ FifoErrors
    /\ dmaControl # {}
    /\ intrStatus' = intrStatus \cup {"FIFO"}
    /\ underrun' = TRUE
    /\ UNCHANGED <<thread, dmaControl, intrMask, lengths, format, attached,
                   filter, clock>>

-----------------------------------------------------------------------------
Request ==
    \/ RequestStart \/ RequestStop \/ Terminate \/ Wake
    \/ \E r \in Rates \cup {NoRate} : FormatChange(r)

ThreadStep ==
    \/ StartClearDma \/ StartReadMask \/ StartWriteMask \/ StartClearPending
    \/ StartProgramLengths \/ StartGo
    \/ StopPlayback \/ StopReadMask \/ StopWriteMask
    \/ StopRecording \/ StopReadRecMask \/ StopWriteRecMask

FilterStep ==
    \/ FilterEnter \/ FilterReadStatus
    \/ FifoReadUnderrun \/ FifoReadStatus \/ FifoClearStatus
    \/ FifoAckUnderrun \/ FifoReadMask \/ FifoWriteMask
    \/ FilterAck \/ FilterStamp

Chip == FifoError \/ \E c \in PlayDma \cup RecDma : DmaWrap(c)

Next == Request \/ ThreadStep \/ FilterStep \/ Chip

Spec == Init /\ [][Next]_vars

\* A call the gate let in runs to its end, and a raised interrupt is served
\* by a filter that runs to its end; nothing else is promised.
FairSpec == Spec /\ WF_vars(ThreadStep) /\ WF_vars(FilterStep)

-----------------------------------------------------------------------------
(* Properties *)

FlagsOK ==
    /\ underrun \in BOOLEAN /\ integrated \in BOOLEAN
    /\ rateSupported \in BOOLEAN /\ attached \in BOOLEAN
    /\ fstatus \in BOOLEAN /\ due \in BOOLEAN

LoopOK == loopCount \in 0 .. LoopMod - 1

RegistersOK ==
    /\ engine \in {"down", "stopped", "paused", "running"}
    /\ goal \in {"down", "stopped", "paused", "running"}
    /\ tpc \in {"idle", "start_dma", "start_mask_read", "start_mask_write",
                "start_clear", "start_lengths", "start_go", "stop_dma",
                "stop_mask_read", "stop_mask_write", "stop_rec",
                "stop_recmask_read", "stop_recmask_write"}
    /\ ttmp \subseteq IrqBits
    /\ dmaControl \subseteq PlayDma \cup RecDma
    /\ intrMask \subseteq IrqBits
    /\ intrStatus \subseteq IrqBits
    /\ lengths \subseteq PlayDma \cup RecDma
    /\ currentSampleRate \in Rates \cup {DefaultRate}
    /\ fpc \in {"idle", "read", "fifo_underrun", "fifo_status_read",
                "fifo_status_write", "fifo_underrun_ack", "fifo_mask_read",
                "fifo_mask_write", "ack", "stamp"}
    /\ mtstatus \subseteq IrqBits
    /\ ftmp \subseteq IrqBits

\* Every variable keeps its type.
TypeOK == RegistersOK /\ FlagsOK /\ LoopOK

\* Whatever Start, Stop and the filter overwrite of each other's updates of
\* MT_INTR_MASK, the recording, FIFO and single-pair playback interrupts,
\* which the driver never serves for themselves, stay masked.
OnlyPlaybackIrqUnmasked == IrqBits \ intrMask \subseteq {"PDMA0"}

\* No channel runs without its length programmed since the last reset, and
\* between calls exactly the channels of the engine's state run: none unless
\* it is running, and S/PDIF only at a rate the enabled transmitter codes.
DmaFollowsEngine ==
    /\ dmaControl \subseteq lengths
    /\ "PDMA4" \in dmaControl => integrated /\ HasSPDIF
    /\ tpc = "idle" =>
          dmaControl = IF engine = "running" THEN StartChannels ELSE {}

\* Between calls the loop interrupt is enabled exactly while the engine runs:
\* otherwise a running engine gets no timestamps, or a stopped one is
\* interrupted.
IrqFollowsEngine ==
    tpc = "idle" => ("PDMA0" \notin intrMask <=> engine = "running")

\* The interrupt line does not stay raised, in particular not after the event
\* source has left the work loop and nobody would lower it.
IrqLineFalls == PlayRec ~> ~PlayRec

Clock == INSTANCE LoopClock WITH
            running <- "PDMA0" \in dmaControl, loop <- loopCount

\* takeTimeStamp() in the filter counts loops of the ring that was played and
\* nothing else: the engine's loop count implements LoopClock.
CountsOnlyLoops == Clock!Spec

\* A loop of a ring that keeps playing is counted before long.
CountsEveryLoop == Clock!Liveness

\* "Since we are starting a new audio engine run, and not looping, we don't
\* want the loop count to be incremented" (AudioEngine.cpp:614): the loop count
\* stays as it is from the call of performAudioEngineStart to its return.
StartDoesNotCount ==
    [][tpc # "idle" /\ goal = "running" => loopCount' = loopCount]_vars

\* "enable irqs" (AudioEngine.cpp:547): once performAudioEngineStart has
\* returned, the loop interrupt of the running engine is enabled.
IrqsEnabledWhileRunning ==
    tpc = "idle" /\ engine = "running" => "PDMA0" \notin intrMask
=============================================================================
