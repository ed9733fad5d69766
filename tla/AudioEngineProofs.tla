------------------------- MODULE AudioEngineProofs -------------------------
(***************************************************************************)
(* Proofs about AudioEngine for every value of its constants: any set of   *)
(* rates and of independent DMA channels, with and without S/PDIF, on one  *)
(* CPU and on several.                                                     *)
(***************************************************************************)
EXTENDS AudioEngine, TLAPS

-----------------------------------------------------------------------------
(* Types *)

\* The start bits Start has gathered are DMA channels.
StartBitsOK == tpc = "start_go" => ttmp \subseteq PlayDma \cup RecDma

\* Every variable keeps its type, whatever the interleaving of the thread,
\* the interrupt filter and the chip.
THEOREM TypeCorrect == Spec => []TypeOK
<1> USE DEF PlayDma, RecDma, IrqBits, thread, format, filter, clock, At,
        TypeOK, StartBitsOK
<1>1. Init => TypeOK /\ StartBitsOK
  <2> SUFFICES ASSUME Init PROVE TypeOK /\ StartBitsOK
    OBVIOUS
  <2>1. LoopOK
    BY ConstantsAssumption DEF Init, LoopOK, ConstantsAssumption
  <2>2. FlagsOK
    BY Zenon DEF Init, FlagsOK
  <2>3. RegistersOK
    BY DEF Init, RegistersOK
  <2>4. QED
    BY <2>1, <2>2, <2>3 DEF Init
<1>2. TypeOK /\ StartBitsOK /\ [Next]_vars => TypeOK'
  <2> SUFFICES ASSUME TypeOK, StartBitsOK, [Next]_vars
               PROVE  TypeOK'
    OBVIOUS
  <2>1. CASE RequestStart
    BY <2>1 DEF RequestStart, RegistersOK, FlagsOK, LoopOK
  <2>2. CASE RequestStop
    BY <2>2 DEF RequestStop, RegistersOK, FlagsOK, LoopOK
  <2>3. CASE Terminate
    <3>1. FlagsOK'
      BY <2>3, Zenon DEF Terminate, FlagsOK
    <3>2. LoopOK'
      BY <2>3, ConstantsAssumption DEF Terminate, LoopOK, ConstantsAssumption
    <3>3. RegistersOK'
      BY <2>3 DEF Terminate, RegistersOK
    <3>4. QED
      BY <3>1, <3>2, <3>3
  <2>4. CASE Wake
    <3>1. FlagsOK'
      BY <2>4, Zenon DEF Wake, FlagsOK
    <3>2. LoopOK'
      BY <2>4, ConstantsAssumption DEF Wake, LoopOK, ConstantsAssumption
    <3>3. RegistersOK'
      BY <2>4 DEF Wake, RegistersOK
    <3>4. QED
      BY <3>1, <3>2, <3>3
  <2>5. CASE StartClearDma
    BY <2>5 DEF StartClearDma, RegistersOK, FlagsOK, LoopOK
  <2>6. CASE StartReadMask
    BY <2>6 DEF StartReadMask, RegistersOK, FlagsOK, LoopOK
  <2>7. CASE StartWriteMask
    BY <2>7 DEF StartWriteMask, RegistersOK, FlagsOK, LoopOK
  <2>8. CASE StartClearPending
    BY <2>8 DEF StartClearPending, RegistersOK, FlagsOK, LoopOK
  <2>9. CASE StartProgramLengths
    BY <2>9, ConstantsAssumption DEF StartProgramLengths, StartChannels, ConstantsAssumption, RegistersOK, FlagsOK, LoopOK
  <2>10. CASE StartGo
    <3>1. FlagsOK'
      BY <2>10, Zenon DEF StartGo, FlagsOK
    <3>2. LoopOK'
      BY <2>10, ConstantsAssumption DEF StartGo, LoopOK, ConstantsAssumption
    <3>3. RegistersOK'
      BY <2>10 DEF StartGo, RegistersOK
    <3>4. QED
      BY <3>1, <3>2, <3>3
  <2>11. CASE StopPlayback
    BY <2>11 DEF StopPlayback, RegistersOK, FlagsOK, LoopOK
  <2>12. CASE StopReadMask
    BY <2>12 DEF StopReadMask, RegistersOK, FlagsOK, LoopOK
  <2>13. CASE StopWriteMask
    BY <2>13 DEF StopWriteMask, RegistersOK, FlagsOK, LoopOK
  <2>14. CASE StopRecording
    BY <2>14 DEF StopRecording, RegistersOK, FlagsOK, LoopOK
  <2>15. CASE StopReadRecMask
    BY <2>15 DEF StopReadRecMask, RegistersOK, FlagsOK, LoopOK
  <2>16. CASE StopWriteRecMask
    BY <2>16 DEF StopWriteRecMask, RegistersOK, FlagsOK, LoopOK
  <2>17. CASE FilterEnter
    BY <2>17 DEF FilterEnter, RegistersOK, FlagsOK, LoopOK
  <2>18. CASE FilterReadStatus
    BY <2>18 DEF FilterReadStatus, RegistersOK, FlagsOK, LoopOK
  <2>19. CASE FifoReadUnderrun
    BY <2>19 DEF FifoReadUnderrun, RegistersOK, FlagsOK, LoopOK
  <2>20. CASE FifoReadStatus
    BY <2>20 DEF FifoReadStatus, RegistersOK, FlagsOK, LoopOK
  <2>21. CASE FifoClearStatus
    BY <2>21 DEF FifoClearStatus, RegistersOK, FlagsOK, LoopOK
  <2>22. CASE FifoAckUnderrun
    BY <2>22 DEF FifoAckUnderrun, RegistersOK, FlagsOK, LoopOK
  <2>23. CASE FifoReadMask
    BY <2>23 DEF FifoReadMask, RegistersOK, FlagsOK, LoopOK
  <2>24. CASE FifoWriteMask
    BY <2>24 DEF FifoWriteMask, RegistersOK, FlagsOK, LoopOK
  <2>25. CASE FilterAck
    BY <2>25 DEF FilterAck, RegistersOK, FlagsOK, LoopOK
  <2>26. CASE FilterStamp
    <3>1. FlagsOK'
      BY <2>26, Zenon DEF FilterStamp, FlagsOK
    <3>2. LoopOK'
      BY <2>26, ConstantsAssumption DEF FilterStamp, LoopOK, ConstantsAssumption
    <3>3. RegistersOK'
      BY <2>26 DEF FilterStamp, RegistersOK
    <3>4. QED
      BY <3>1, <3>2, <3>3
  <2>27. CASE FifoError
    BY <2>27 DEF FifoError, RegistersOK, FlagsOK, LoopOK
  <2>28. ASSUME NEW r \in Rates \cup {NoRate}, FormatChange(r)
        PROVE  TypeOK'
    BY <2>28 DEF FormatChange, RegistersOK, FlagsOK, LoopOK
  <2>29. ASSUME NEW c \in PlayDma \cup RecDma, DmaWrap(c)
        PROVE  TypeOK'
    BY <2>29 DEF DmaWrap, RegistersOK, FlagsOK, LoopOK
  <2>30. CASE UNCHANGED vars
    BY <2>30 DEF vars, RegistersOK, FlagsOK, LoopOK
  <2>31. QED
    BY <2>1, <2>2, <2>3, <2>4, <2>5, <2>6, <2>7, <2>8, <2>9, <2>10, <2>11,
       <2>12, <2>13, <2>14, <2>15, <2>16, <2>17, <2>18, <2>19, <2>20,
       <2>21, <2>22, <2>23, <2>24, <2>25, <2>26, <2>27, <2>28, <2>29, <2>30
    DEF Next, Request, ThreadStep, FilterStep, Chip
<1>3. StartBitsOK /\ [Next]_vars => StartBitsOK'
  <2> SUFFICES ASSUME StartBitsOK, [Next]_vars
               PROVE  StartBitsOK'
    OBVIOUS
  <2>1. CASE RequestStart
    BY <2>1 DEF RequestStart
  <2>2. CASE RequestStop
    BY <2>2 DEF RequestStop
  <2>3. CASE Terminate
    BY <2>3 DEF Terminate
  <2>4. CASE Wake
    BY <2>4 DEF Wake
  <2>5. CASE StartClearDma
    BY <2>5 DEF StartClearDma
  <2>6. CASE StartReadMask
    BY <2>6 DEF StartReadMask
  <2>7. CASE StartWriteMask
    BY <2>7 DEF StartWriteMask
  <2>8. CASE StartClearPending
    BY <2>8 DEF StartClearPending
  <2>9. CASE StartProgramLengths
    BY <2>9, ConstantsAssumption DEF StartProgramLengths, StartChannels,
       ConstantsAssumption
  <2>10. CASE StartGo
    BY <2>10 DEF StartGo
  <2>11. CASE StopPlayback
    BY <2>11 DEF StopPlayback
  <2>12. CASE StopReadMask
    BY <2>12 DEF StopReadMask
  <2>13. CASE StopWriteMask
    BY <2>13 DEF StopWriteMask
  <2>14. CASE StopRecording
    BY <2>14 DEF StopRecording
  <2>15. CASE StopReadRecMask
    BY <2>15 DEF StopReadRecMask
  <2>16. CASE StopWriteRecMask
    BY <2>16 DEF StopWriteRecMask
  <2>17. CASE FilterEnter
    BY <2>17 DEF FilterEnter
  <2>18. CASE FilterReadStatus
    BY <2>18 DEF FilterReadStatus
  <2>19. CASE FifoReadUnderrun
    BY <2>19 DEF FifoReadUnderrun
  <2>20. CASE FifoReadStatus
    BY <2>20 DEF FifoReadStatus
  <2>21. CASE FifoClearStatus
    BY <2>21 DEF FifoClearStatus
  <2>22. CASE FifoAckUnderrun
    BY <2>22 DEF FifoAckUnderrun
  <2>23. CASE FifoReadMask
    BY <2>23 DEF FifoReadMask
  <2>24. CASE FifoWriteMask
    BY <2>24 DEF FifoWriteMask
  <2>25. CASE FilterAck
    BY <2>25 DEF FilterAck
  <2>26. CASE FilterStamp
    BY <2>26 DEF FilterStamp
  <2>27. CASE FifoError
    BY <2>27 DEF FifoError
  <2>28. ASSUME NEW r \in Rates \cup {NoRate}, FormatChange(r)
        PROVE  StartBitsOK'
    BY <2>28 DEF FormatChange
  <2>29. ASSUME NEW c \in PlayDma \cup RecDma, DmaWrap(c)
        PROVE  StartBitsOK'
    BY <2>29 DEF DmaWrap
  <2>30. CASE UNCHANGED vars
    BY <2>30 DEF vars
  <2>31. QED
    BY <2>1, <2>2, <2>3, <2>4, <2>5, <2>6, <2>7, <2>8, <2>9, <2>10, <2>11,
       <2>12, <2>13, <2>14, <2>15, <2>16, <2>17, <2>18, <2>19, <2>20,
       <2>21, <2>22, <2>23, <2>24, <2>25, <2>26, <2>27, <2>28, <2>29, <2>30
    DEF Next, Request, ThreadStep, FilterStep, Chip
<1>4. QED
  BY <1>1, <1>2, <1>3, PTL DEF Spec

-----------------------------------------------------------------------------
(* The interrupts nobody serves stay masked *)

\* The copies of MT_INTR_MASK that the thread and the filter are about to
\* write back mask, like the register, every bit but PDMA0.
MaskCopiesMask ==
    /\ OnlyPlaybackIrqUnmasked
    /\ tpc \in {"start_mask_write", "stop_mask_write", "stop_recmask_write"}
          => IrqBits \ ttmp \subseteq {"PDMA0"}
    /\ fpc = "fifo_mask_write" => IrqBits \ ftmp \subseteq {"PDMA0"}

\* Start, Stop and the filter update MT_INTR_MASK with unsynchronised
\* read-modify-writes; no interleaving of them unmasks the recording, FIFO
\* or pair playback interrupts.
THEOREM UnservedIrqsStayMasked == Spec => []OnlyPlaybackIrqUnmasked
<1> USE DEF PlayDma, RecDma, IrqBits, thread, format, filter, clock, At,
        MaskCopiesMask, OnlyPlaybackIrqUnmasked
<1>1. Init => MaskCopiesMask
  BY DEF Init
<1>2. MaskCopiesMask /\ [Next]_vars => MaskCopiesMask'
  <2> SUFFICES ASSUME MaskCopiesMask, [Next]_vars
               PROVE  MaskCopiesMask'
    OBVIOUS
  <2>1. CASE RequestStart
    BY <2>1 DEF RequestStart
  <2>2. CASE RequestStop
    BY <2>2 DEF RequestStop
  <2>3. CASE Terminate
    BY <2>3 DEF Terminate
  <2>4. CASE Wake
    BY <2>4 DEF Wake
  <2>5. CASE StartClearDma
    BY <2>5 DEF StartClearDma
  <2>6. CASE StartReadMask
    BY <2>6 DEF StartReadMask
  <2>7. CASE StartWriteMask
    BY <2>7 DEF StartWriteMask
  <2>8. CASE StartClearPending
    BY <2>8 DEF StartClearPending
  <2>9. CASE StartProgramLengths
    BY <2>9 DEF StartProgramLengths, StartChannels
  <2>10. CASE StartGo
    BY <2>10 DEF StartGo
  <2>11. CASE StopPlayback
    BY <2>11 DEF StopPlayback
  <2>12. CASE StopReadMask
    BY <2>12 DEF StopReadMask
  <2>13. CASE StopWriteMask
    BY <2>13 DEF StopWriteMask
  <2>14. CASE StopRecording
    BY <2>14 DEF StopRecording
  <2>15. CASE StopReadRecMask
    BY <2>15 DEF StopReadRecMask
  <2>16. CASE StopWriteRecMask
    BY <2>16 DEF StopWriteRecMask
  <2>17. CASE FilterEnter
    BY <2>17 DEF FilterEnter
  <2>18. CASE FilterReadStatus
    BY <2>18 DEF FilterReadStatus
  <2>19. CASE FifoReadUnderrun
    BY <2>19 DEF FifoReadUnderrun
  <2>20. CASE FifoReadStatus
    BY <2>20 DEF FifoReadStatus
  <2>21. CASE FifoClearStatus
    BY <2>21 DEF FifoClearStatus
  <2>22. CASE FifoAckUnderrun
    BY <2>22 DEF FifoAckUnderrun
  <2>23. CASE FifoReadMask
    BY <2>23 DEF FifoReadMask
  <2>24. CASE FifoWriteMask
    BY <2>24 DEF FifoWriteMask
  <2>25. CASE FilterAck
    BY <2>25 DEF FilterAck
  <2>26. CASE FilterStamp
    BY <2>26 DEF FilterStamp
  <2>27. CASE FifoError
    BY <2>27 DEF FifoError
  <2>28. ASSUME NEW r \in Rates \cup {NoRate}, FormatChange(r)
        PROVE  MaskCopiesMask'
    BY <2>28 DEF FormatChange
  <2>29. ASSUME NEW c \in PlayDma \cup RecDma, DmaWrap(c)
        PROVE  MaskCopiesMask'
    BY <2>29 DEF DmaWrap
  <2>30. CASE UNCHANGED vars
    BY <2>30 DEF vars
  <2>31. QED
    BY <2>1, <2>2, <2>3, <2>4, <2>5, <2>6, <2>7, <2>8, <2>9, <2>10, <2>11,
       <2>12, <2>13, <2>14, <2>15, <2>16, <2>17, <2>18, <2>19, <2>20,
       <2>21, <2>22, <2>23, <2>24, <2>25, <2>26, <2>27, <2>28, <2>29, <2>30
    DEF Next, Request, ThreadStep, FilterStep, Chip
<1>3. MaskCopiesMask => OnlyPlaybackIrqUnmasked
  OBVIOUS
<1>4. QED
  BY <1>1, <1>2, <1>3, PTL DEF Spec

-----------------------------------------------------------------------------
(* The DMA channels follow the engine *)

\* Where Start and Stop are, and what that says of MT_DMA_CONTROL.
DmaInv ==
    /\ DmaFollowsEngine
    /\ integrated = rateSupported
    /\ tpc \in {"start_dma", "start_mask_read", "start_mask_write",
                "start_clear", "start_lengths", "start_go"}
          => goal = "running" /\ dmaControl = {}
    /\ tpc = "start_go" => ttmp = StartChannels /\ ttmp \subseteq lengths
    /\ tpc \in {"stop_dma", "stop_mask_read", "stop_mask_write", "stop_rec",
                "stop_recmask_read", "stop_recmask_write"}
          => goal # "running"
    /\ tpc \in {"stop_mask_read", "stop_mask_write", "stop_rec"}
          => dmaControl \subseteq RecDma
    /\ tpc \in {"stop_recmask_read", "stop_recmask_write"} => dmaControl = {}
    /\ dmaControl \subseteq PlayDma \cup RecDma

LEMMA DmaInvariant == Spec => []DmaInv
<1> USE DEF PlayDma, RecDma, thread, format, filter, clock, At, DmaInv,
        DmaFollowsEngine, StartChannels
<1>1. Init => DmaInv
  BY DEF Init
<1>2. DmaInv /\ [Next]_vars => DmaInv'
  <2> SUFFICES ASSUME DmaInv, [Next]_vars
               PROVE  DmaInv'
    OBVIOUS
  <2>1. CASE RequestStart
    BY <2>1 DEF RequestStart
  <2>2. CASE RequestStop
    BY <2>2 DEF RequestStop
  <2>3. CASE Terminate
    BY <2>3 DEF Terminate
  <2>4. CASE Wake
    BY <2>4 DEF Wake
  <2>5. CASE StartClearDma
    BY <2>5 DEF StartClearDma
  <2>6. CASE StartReadMask
    BY <2>6 DEF StartReadMask
  <2>7. CASE StartWriteMask
    BY <2>7 DEF StartWriteMask
  <2>8. CASE StartClearPending
    BY <2>8 DEF StartClearPending
  <2>9. CASE StartProgramLengths
    BY <2>9, ConstantsAssumption DEF StartProgramLengths, ConstantsAssumption
  <2>10. CASE StartGo
    <3>1. StartChannels' = StartChannels
      BY <2>10 DEF StartGo
    <3>2. dmaControl' = StartChannels /\ StartChannels \subseteq lengths'
      BY <2>10 DEF StartGo
    <3>3. "PDMA4" \in StartChannels => integrated' /\ HasSPDIF
      BY <2>10, ConstantsAssumption DEF StartGo, ConstantsAssumption
    <3>4. StartChannels \subseteq PlayDma \cup RecDma
      BY ConstantsAssumption DEF ConstantsAssumption
    <3>5. tpc' = "idle" /\ engine' = "running"
      BY <2>10 DEF StartGo
    <3>6. integrated' = rateSupported'
      BY <2>10 DEF StartGo
    <3> HIDE DEF StartChannels
    <3>7. QED
      BY <3>1, <3>2, <3>3, <3>4, <3>5, <3>6
  <2>11. CASE StopPlayback
    BY <2>11 DEF StopPlayback
  <2>12. CASE StopReadMask
    BY <2>12 DEF StopReadMask
  <2>13. CASE StopWriteMask
    BY <2>13 DEF StopWriteMask
  <2>14. CASE StopRecording
    BY <2>14 DEF StopRecording
  <2>15. CASE StopReadRecMask
    BY <2>15 DEF StopReadRecMask
  <2>16. CASE StopWriteRecMask
    BY <2>16 DEF StopWriteRecMask
  <2>17. CASE FilterEnter
    BY <2>17 DEF FilterEnter
  <2>18. CASE FilterReadStatus
    BY <2>18 DEF FilterReadStatus
  <2>19. CASE FifoReadUnderrun
    BY <2>19 DEF FifoReadUnderrun
  <2>20. CASE FifoReadStatus
    BY <2>20 DEF FifoReadStatus
  <2>21. CASE FifoClearStatus
    BY <2>21 DEF FifoClearStatus
  <2>22. CASE FifoAckUnderrun
    BY <2>22 DEF FifoAckUnderrun
  <2>23. CASE FifoReadMask
    BY <2>23 DEF FifoReadMask
  <2>24. CASE FifoWriteMask
    BY <2>24 DEF FifoWriteMask
  <2>25. CASE FilterAck
    BY <2>25 DEF FilterAck
  <2>26. CASE FilterStamp
    BY <2>26 DEF FilterStamp
  <2>27. CASE FifoError
    BY <2>27 DEF FifoError
  <2>28. ASSUME NEW r \in Rates \cup {NoRate}, FormatChange(r)
        PROVE  DmaInv'
    BY <2>28 DEF FormatChange
  <2>29. ASSUME NEW c \in PlayDma \cup RecDma, DmaWrap(c)
        PROVE  DmaInv'
    BY <2>29 DEF DmaWrap
  <2>30. CASE UNCHANGED vars
    BY <2>30 DEF vars
  <2>31. QED
    BY <2>1, <2>2, <2>3, <2>4, <2>5, <2>6, <2>7, <2>8, <2>9, <2>10, <2>11,
       <2>12, <2>13, <2>14, <2>15, <2>16, <2>17, <2>18, <2>19, <2>20,
       <2>21, <2>22, <2>23, <2>24, <2>25, <2>26, <2>27, <2>28, <2>29, <2>30
    DEF Next, Request, ThreadStep, FilterStep, Chip
<1>3. QED
  BY <1>1, <1>2, PTL DEF Spec

\* No channel runs unless its length was programmed since the last reset and
\* the engine state calls for it, and S/PDIF runs at coded rates only.
THEOREM DmaAlwaysFollowsEngine == Spec => []DmaFollowsEngine
<1>1. DmaInv => DmaFollowsEngine
  BY DEF DmaInv
<1>2. QED
  BY <1>1, DmaInvariant, PTL

-----------------------------------------------------------------------------
(* The loop interrupt follows the engine, unless the mask update races *)

\* The thread and the filter cannot race on MT_INTR_MASK: either they share
\* a CPU, or the filter never takes the branch that updates it.
NoMaskRace == ~SMP \/ ~FifoErrors

FifoBranch == {"fifo_underrun", "fifo_status_read", "fifo_status_write",
               "fifo_underrun_ack", "fifo_mask_read", "fifo_mask_write"}

IrqInv ==
    /\ "PDMA0" \notin intrMask <=>
          \/ tpc = "idle" /\ engine = "running"
          \/ tpc \in {"start_clear", "start_lengths", "start_go",
                      "stop_dma", "stop_mask_read", "stop_mask_write"}
    /\ tpc = "start_mask_write" => "PDMA0" \notin ttmp
    /\ tpc \in {"stop_mask_write", "stop_recmask_write"} => "PDMA0" \in ttmp
    /\ tpc \in {"start_dma", "start_mask_read", "start_mask_write",
                "start_clear", "start_lengths", "start_go"}
          => goal = "running"
    /\ tpc \in {"stop_dma", "stop_mask_read", "stop_mask_write", "stop_rec",
                "stop_recmask_read", "stop_recmask_write"}
          => goal # "running"
    /\ ~FifoErrors => "FIFO" \notin intrStatus /\ fpc \notin FifoBranch
    /\ fpc = "fifo_mask_write" => ("PDMA0" \in ftmp <=> "PDMA0" \in intrMask)

\* The interrupt that counts loops is enabled exactly while the engine runs,
\* on one CPU, and on several as long as the chip reports no FIFO error.
THEOREM IrqAlwaysFollowsEngine ==
    ASSUME NoMaskRace
    PROVE  Spec => []IrqFollowsEngine
<1> USE DEF PlayDma, RecDma, thread, format, filter, clock, At, ThreadMayRun,
        IrqInv, FifoBranch
<1>1. Init => IrqInv
  BY DEF Init, IrqBits
<1>2. IrqInv /\ [Next]_vars => IrqInv'
  <2> SUFFICES ASSUME IrqInv, [Next]_vars
               PROVE  IrqInv'
    OBVIOUS
  <2> USE DEF NoMaskRace
  <2>1. CASE RequestStart
    BY <2>1 DEF RequestStart
  <2>2. CASE RequestStop
    BY <2>2 DEF RequestStop
  <2>3. CASE Terminate
    BY <2>3 DEF Terminate
  <2>4. CASE Wake
    BY <2>4 DEF Wake, IrqBits
  <2>5. CASE StartClearDma
    BY <2>5 DEF StartClearDma
  <2>6. CASE StartReadMask
    BY <2>6 DEF StartReadMask
  <2>7. CASE StartWriteMask
    BY <2>7 DEF StartWriteMask
  <2>8. CASE StartClearPending
    BY <2>8 DEF StartClearPending
  <2>9. CASE StartProgramLengths
    BY <2>9 DEF StartProgramLengths
  <2>10. CASE StartGo
    BY <2>10 DEF StartGo
  <2>11. CASE StopPlayback
    BY <2>11 DEF StopPlayback
  <2>12. CASE StopReadMask
    BY <2>12 DEF StopReadMask
  <2>13. CASE StopWriteMask
    BY <2>13 DEF StopWriteMask
  <2>14. CASE StopRecording
    BY <2>14 DEF StopRecording
  <2>15. CASE StopReadRecMask
    BY <2>15 DEF StopReadRecMask
  <2>16. CASE StopWriteRecMask
    BY <2>16 DEF StopWriteRecMask
  <2>17. CASE FilterEnter
    BY <2>17 DEF FilterEnter
  <2>18. CASE FilterReadStatus
    BY <2>18 DEF FilterReadStatus
  <2>19. CASE FifoReadUnderrun
    BY <2>19 DEF FifoReadUnderrun
  <2>20. CASE FifoReadStatus
    BY <2>20 DEF FifoReadStatus
  <2>21. CASE FifoClearStatus
    BY <2>21 DEF FifoClearStatus
  <2>22. CASE FifoAckUnderrun
    BY <2>22 DEF FifoAckUnderrun
  <2>23. CASE FifoReadMask
    BY <2>23 DEF FifoReadMask
  <2>24. CASE FifoWriteMask
    BY <2>24 DEF FifoWriteMask
  <2>25. CASE FilterAck
    BY <2>25 DEF FilterAck
  <2>26. CASE FilterStamp
    BY <2>26 DEF FilterStamp
  <2>27. CASE FifoError
    BY <2>27 DEF FifoError
  <2>28. ASSUME NEW r \in Rates \cup {NoRate}, FormatChange(r)
        PROVE  IrqInv'
    BY <2>28 DEF FormatChange
  <2>29. ASSUME NEW c \in PlayDma \cup RecDma, DmaWrap(c)
        PROVE  IrqInv'
    BY <2>29 DEF DmaWrap
  <2>30. CASE UNCHANGED vars
    BY <2>30 DEF vars
  <2>31. QED
    BY <2>1, <2>2, <2>3, <2>4, <2>5, <2>6, <2>7, <2>8, <2>9, <2>10, <2>11,
       <2>12, <2>13, <2>14, <2>15, <2>16, <2>17, <2>18, <2>19, <2>20,
       <2>21, <2>22, <2>23, <2>24, <2>25, <2>26, <2>27, <2>28, <2>29, <2>30
    DEF Next, Request, ThreadStep, FilterStep, Chip
<1>3. IrqInv => IrqFollowsEngine
  BY DEF IrqFollowsEngine
<1>4. QED
  BY <1>1, <1>2, <1>3, PTL DEF Spec

-----------------------------------------------------------------------------
(* The filter counts loops and nothing else, on one CPU *)

\* A pending or half-served loop interrupt stands for a loop that is due.
ClockInv ==
    /\ "PDMA0" \in intrStatus => due
    /\ fpc = "read" => "PDMA0" \in intrStatus
    /\ fpc \notin {"idle", "read"} => "PDMA0" \in mtstatus /\ due
    /\ fpc = "stamp" => "PDMA0" \notin intrStatus
    /\ tpc \in {"start_lengths", "start_go"} => "PDMA0" \notin intrStatus

\* What the other theorems contribute, and the steps start from.
Context ==
    TypeOK /\ DmaInv /\ OnlyPlaybackIrqUnmasked /\ ClockInv /\ [Next]_vars

LEMMA ClockInvStep ==
    ASSUME ~SMP, Context
    PROVE  ClockInv'
<1> USE DEF PlayDma, RecDma, IrqBits, thread, format, filter, clock, At,
        ThreadMayRun, ClockInv
<1>0. /\ ClockInv /\ [Next]_vars
      /\ OnlyPlaybackIrqUnmasked
      /\ intrStatus \subseteq IrqBits
      /\ tpc \in {"start_clear", "start_lengths", "start_go"} => dmaControl = {}
  BY DEF Context, DmaInv, TypeOK, RegistersOK
<1>1. CASE RequestStart
  BY <1>0, <1>1 DEF RequestStart
<1>2. CASE RequestStop
  BY <1>0, <1>2 DEF RequestStop
<1>3. CASE Terminate
  BY <1>0, <1>3 DEF Terminate
<1>4. CASE Wake
  BY <1>0, <1>4 DEF Wake
<1>5. CASE StartClearDma
  BY <1>0, <1>5 DEF StartClearDma
<1>6. CASE StartReadMask
  BY <1>0, <1>6 DEF StartReadMask
<1>7. CASE StartWriteMask
  BY <1>0, <1>7 DEF StartWriteMask
<1>8. CASE StartClearPending
  BY <1>0, <1>8 DEF StartClearPending
<1>9. CASE StartProgramLengths
  BY <1>0, <1>9 DEF StartProgramLengths
<1>10. CASE StartGo
  BY <1>0, <1>10 DEF StartGo
<1>11. CASE StopPlayback
  BY <1>0, <1>11 DEF StopPlayback
<1>12. CASE StopReadMask
  BY <1>0, <1>12 DEF StopReadMask
<1>13. CASE StopWriteMask
  BY <1>0, <1>13 DEF StopWriteMask
<1>14. CASE StopRecording
  BY <1>0, <1>14 DEF StopRecording
<1>15. CASE StopReadRecMask
  BY <1>0, <1>15 DEF StopReadRecMask
<1>16. CASE StopWriteRecMask
  BY <1>0, <1>16 DEF StopWriteRecMask
<1>17. CASE FilterEnter
  BY <1>0, <1>17 DEF FilterEnter, PlayRec, OnlyPlaybackIrqUnmasked
<1>18. CASE FilterReadStatus
  BY <1>0, <1>18 DEF FilterReadStatus
<1>19. CASE FifoReadUnderrun
  BY <1>0, <1>19 DEF FifoReadUnderrun
<1>20. CASE FifoReadStatus
  BY <1>0, <1>20 DEF FifoReadStatus
<1>21. CASE FifoClearStatus
  BY <1>0, <1>21 DEF FifoClearStatus
<1>22. CASE FifoAckUnderrun
  BY <1>0, <1>22 DEF FifoAckUnderrun
<1>23. CASE FifoReadMask
  BY <1>0, <1>23 DEF FifoReadMask
<1>24. CASE FifoWriteMask
  BY <1>0, <1>24 DEF FifoWriteMask
<1>25. CASE FilterAck
  BY <1>0, <1>25 DEF FilterAck
<1>26. CASE FilterStamp
  BY <1>0, <1>26 DEF FilterStamp
<1>27. CASE FifoError
  BY <1>0, <1>27 DEF FifoError
<1>28. ASSUME NEW r \in Rates \cup {NoRate}, FormatChange(r)
      PROVE  ClockInv'
  BY <1>0, <1>28 DEF FormatChange
<1>29. ASSUME NEW c \in PlayDma \cup RecDma, DmaWrap(c)
      PROVE  ClockInv'
  BY <1>0, <1>29 DEF DmaWrap
<1>30. CASE UNCHANGED vars
  BY <1>0, <1>30 DEF vars
<1>31. QED
  BY <1>0, <1>1, <1>2, <1>3, <1>4, <1>5, <1>6, <1>7, <1>8, <1>9, <1>10, <1>11,
     <1>12, <1>13, <1>14, <1>15, <1>16, <1>17, <1>18, <1>19, <1>20,
     <1>21, <1>22, <1>23, <1>24, <1>25, <1>26, <1>27, <1>28, <1>29, <1>30
  DEF Next, Request, ThreadStep, FilterStep, Chip

\* With the filter and the thread on one CPU, each loop the filter counts is
\* one the ring has played since it was last counted or started.
THEOREM CountsOnlyLoopsOnOneCPU ==
    ASSUME ~SMP
    PROVE  Spec => CountsOnlyLoops
<1> USE DEF PlayDma, RecDma, thread, format, filter, clock, At, ThreadMayRun
<1>1. Init => Clock!Init /\ ClockInv
  BY DEF Init, Clock!Init, ClockInv
<1>2. Context => [Clock!Next]_(Clock!vars)
  <2> SUFFICES ASSUME Context
               PROVE  [Clock!Next]_(Clock!vars)
    OBVIOUS
  <2> USE DEF Clock!vars
  <2>0. /\ ClockInv /\ DmaInv /\ [Next]_vars
    BY DEF Context
  <2>1. CASE RequestStart
    BY <2>1 DEF RequestStart
  <2>2. CASE RequestStop
    BY <2>2 DEF RequestStop
  <2>3. CASE Terminate
    BY <2>3 DEF Terminate
  <2>4. CASE Wake
    BY <2>0, <2>4 DEF Wake, DmaInv, DmaFollowsEngine, Clock!Next, Clock!Renew
  <2>5. CASE StartClearDma
    BY <2>0, <2>5 DEF StartClearDma, DmaInv
  <2>6. CASE StartReadMask
    BY <2>6 DEF StartReadMask
  <2>7. CASE StartWriteMask
    BY <2>7 DEF StartWriteMask
  <2>8. CASE StartClearPending
    BY <2>8 DEF StartClearPending
  <2>9. CASE StartProgramLengths
    BY <2>9 DEF StartProgramLengths
  <2>10. CASE StartGo
    BY <2>0, <2>10 DEF StartGo, DmaInv, StartChannels, Clock!Next, Clock!Run
  <2>11. CASE StopPlayback
    BY <2>0, <2>11 DEF StopPlayback, Clock!Next, Clock!Halt
  <2>12. CASE StopReadMask
    BY <2>12 DEF StopReadMask
  <2>13. CASE StopWriteMask
    BY <2>13 DEF StopWriteMask
  <2>14. CASE StopRecording
    BY <2>14 DEF StopRecording
  <2>15. CASE StopReadRecMask
    BY <2>15 DEF StopReadRecMask
  <2>16. CASE StopWriteRecMask
    BY <2>16 DEF StopWriteRecMask
  <2>17. CASE FilterEnter
    BY <2>17 DEF FilterEnter
  <2>18. CASE FilterReadStatus
    BY <2>18 DEF FilterReadStatus
  <2>19. CASE FifoReadUnderrun
    BY <2>19 DEF FifoReadUnderrun
  <2>20. CASE FifoReadStatus
    BY <2>20 DEF FifoReadStatus
  <2>21. CASE FifoClearStatus
    BY <2>21 DEF FifoClearStatus
  <2>22. CASE FifoAckUnderrun
    BY <2>22 DEF FifoAckUnderrun
  <2>23. CASE FifoReadMask
    BY <2>23 DEF FifoReadMask
  <2>24. CASE FifoWriteMask
    BY <2>24 DEF FifoWriteMask
  <2>25. CASE FilterAck
    BY <2>25 DEF FilterAck
  <2>26. CASE FilterStamp
    BY <2>0, <2>26 DEF FilterStamp, ClockInv, Clock!Next, Clock!Count
  <2>27. CASE FifoError
    BY <2>27 DEF FifoError
  <2>28. ASSUME NEW r \in Rates \cup {NoRate}, FormatChange(r)
        PROVE  [Clock!Next]_(Clock!vars)
    BY <2>28 DEF FormatChange
  <2>29. ASSUME NEW c \in PlayDma \cup RecDma, DmaWrap(c)
        PROVE  [Clock!Next]_(Clock!vars)
    <3>1. UNCHANGED <<dmaControl, loopCount>>
      BY <2>29 DEF DmaWrap
    <3>2. CASE c = "PDMA0"
      <4>1. "PDMA0" \in dmaControl /\ ~due /\ due' = TRUE
        BY <2>29, <3>2, Zenon DEF DmaWrap
      <4>2. QED
        BY <3>1, <4>1 DEF Clock!Next, Clock!Wrap
    <3>3. CASE c # "PDMA0"
      <4>1. due \in BOOLEAN
        BY DEF Context, TypeOK, FlagsOK
      <4>2. due' = due
        BY <2>29, <3>3, <4>1 DEF DmaWrap
      <4>3. QED
        BY <3>1, <4>2
    <3>4. QED
      BY <3>2, <3>3
  <2>30. CASE UNCHANGED vars
    BY <2>30 DEF vars
  <2>31. QED
    BY <2>0, <2>1, <2>2, <2>3, <2>4, <2>5, <2>6, <2>7, <2>8, <2>9, <2>10, <2>11,
       <2>12, <2>13, <2>14, <2>15, <2>16, <2>17, <2>18, <2>19, <2>20,
       <2>21, <2>22, <2>23, <2>24, <2>25, <2>26, <2>27, <2>28, <2>29, <2>30
    DEF Next, Request, ThreadStep, FilterStep, Chip
<1>3. Context => ClockInv'
  BY ClockInvStep
<1>4. QED
  BY <1>1, <1>2, <1>3, TypeCorrect, DmaInvariant, UnservedIrqsStayMasked, PTL
     DEF Spec, CountsOnlyLoops, Clock!Spec, Context
=============================================================================
