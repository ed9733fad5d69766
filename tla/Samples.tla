------------------------------- MODULE Samples -------------------------------
(***************************************************************************)
(* The sample rings: the lengths that performAudioEngineStart programs,    *)
(* getCurrentSampleFrame, eraseOutputSamples and clipOutputSamples, between *)
(* three actors that share the playback ring without a lock: the chip      *)
(* plays it, the framework's erase timer clears what was played, a client  *)
(* writes ahead.  Positions are counted in dwords, of which a frame has    *)
(* one for each channel.                                                   *)
(***************************************************************************)
EXTENDS Integers

CONSTANTS
    NumSampleFrames, \* NUM_SAMPLE_FRAMES, 16384
    NumChannels,     \* of the cards: 2, 6 and 8
    Low,             \* the values of a 16-bit register
    Scale, Round,    \* 2^31 and 128, of FloatToInt32
    Inputs,          \* the client's samples, in quarters of 1 / Scale
    SampleOffset,    \* frames a client stays ahead of the chip, 32
    EraseEvery       \* bound: frames played between two erases

ASSUME ConstantsAssumption ==
    /\ NumSampleFrames \in Nat \ {0} /\ NumChannels \subseteq Nat \ {0}
    /\ Low \in Nat \ {0} /\ 2 * NumSampleFrames <= Low
    /\ \A c \in NumChannels : NumSampleFrames * c <= 256 * Low
    /\ Scale \in Nat \ {0} /\ Round \in 1 .. Scale - 1
    /\ Scale % (2 * Round) = 0
    /\ Inputs \subseteq Int
    /\ SampleOffset \in Nat /\ EraseEvery \in 1 .. NumSampleFrames - 1

VARIABLES
    channels, \* NumChannels of the card in the machine
    running,
    length,   \* the lengths the chip has: of the playback ring, of the others
    pos,      \* where the chip plays
    pos2,     \* where it is in the rings of two channels: input, S/PDIF, PDMA1-3
    tone,     \* the sample the client plays
    out,      \* the playback ring: each frame's sample
    fresh,    \* the frames written and not played to their end
    erased,   \* the framework's erase head
    pc,       \* "idle", "toEnd" or "upTo", of performErase
    current,  \* what getCurrentSampleFrame returned to it
    cleared   \* what the last eraseOutputSamples cleared in either ring

chip == <<length, pos, pos2>>
erase == <<erased, pc, current, cleared>>
vars == <<channels, running, chip, tone, out, fresh, erase>>

Frames == 0 .. NumSampleFrames - 1

-----------------------------------------------------------------------------
(* The conversion of samples *)

\* Float32ToSInt32's clamp, for all that is no larger than 2^53.
Clamped(x) ==
    IF x > 4 * Scale THEN 4 * Scale ELSE IF x < -4 * Scale THEN -4 * Scale ELSE x

\* A cast cuts off towards zero.
Cast(x) == IF x >= 0 THEN x \div 4 ELSE -((-x) \div 4)

\* FloatToInt32: the top Round + 1 values are one.
FloatToInt32(x) == IF x >= 4 * (Scale - 1 - Round) THEN Scale - 1 ELSE Cast(x)

Float32ToSInt32(x) == FloatToInt32(Clamped(x) + 4 * Round)

-----------------------------------------------------------------------------
(* The lengths *)

\* In dwords.
BufferSize == NumSampleFrames * channels
BufferSizeRec == NumSampleFrames * 2

\* Mutant: the ring of many channels gets a 16-bit length.
PlaybackLengthLow == ((BufferSize - 1) % Low) + 1

\* MT_DMAI_PB_LENGTH: one less than the length, in a 16-bit and an 8-bit part.
PlaybackLength ==
    LET less == BufferSize - 1
    IN  (less % Low) + Low * ((less \div Low) % 256) + 1

\* Mutant: the register gets the length itself.
RecLengthNotLess == (BufferSizeRec % Low) + 1

\* The other rings' registers have 16 bits.
RecLength == ((BufferSizeRec - 1) % Low) + 1

-----------------------------------------------------------------------------
Init ==
    /\ channels \in NumChannels /\ tone \in Inputs
    /\ running = FALSE
    /\ length = [play |-> 1, rec |-> 1] /\ pos = 0 /\ pos2 = 0
    /\ out = [f \in Frames |-> 0] /\ fresh = {}
    /\ erased = 0 /\ pc = "idle" /\ current = 0
    /\ cleared = [out |-> {}, spdif |-> {}]

\* performAudioEngineStart; the framework puts its erase head to the beginning.
Start ==
    /\ ~running /\ pc = "idle"
    /\ running' = TRUE
    /\ length' = [play |-> PlaybackLength, rec |-> RecLength]
    /\ pos' = 0 /\ pos2' = 0
    /\ out' = [f \in Frames |-> 0] /\ fresh' = {}
    /\ erased' = 0
    /\ UNCHANGED <<channels, tone, pc, current, cleared>>

\* performAudioEngineStop
Stop ==
    /\ running /\ pc = "idle"
    /\ running' = FALSE
    /\ UNCHANGED <<channels, chip, tone, out, fresh, erase>>

\* The chip plays a dword.  With a frame's last one it goes on to the next
\* frame in the other rings too.  Bound: the erase timer is not late.
Play ==
    /\ running
    /\ pos' = (pos + 1) % length.play
    /\ IF (pos + 1) % channels = 0
       THEN /\ (pos \div channels - erased) % NumSampleFrames < EraseEvery
            /\ pos2' = (pos2 + 2) % length.rec
            /\ fresh' = fresh \ {pos \div channels}
       ELSE UNCHANGED <<pos2, fresh>>
    /\ UNCHANGED <<channels, running, length, tone, out, erase>>

\* clipOutputSamples: a client writes frames ahead of the chip, none that may
\* still have to be erased.
ClipOutputSamples ==
    /\ running
    /\ \E first \in Frames : \E num \in 1 .. NumSampleFrames - first :
          LET written == first .. first + num - 1
          IN  /\ \A f \in written :
                    (f - pos \div channels) % NumSampleFrames
                        \in SampleOffset .. NumSampleFrames - 1 - EraseEvery
              /\ out' = [f \in Frames |->
                            IF f \in written THEN Float32ToSInt32(tone) ELSE out[f]]
              /\ fresh' = fresh \cup written
    /\ UNCHANGED <<channels, running, chip, tone, erase>>

-----------------------------------------------------------------------------
(* performErase *)

\* Mutant: the frame being played is taken for over.
FrameRoundedUp == ((pos + channels - 1) \div channels) % NumSampleFrames

\* getCurrentSampleFrame: the frame being played, which is not to be erased.
GetCurrentSampleFrame == pos \div channels

\* Mutant: skip is one too few.
SpdifOverrun(first, num) ==
    LET steps == (num * channels) \div (channels - 1)
    IN  2 * first .. 2 * first + 2 * steps - 1

\* The dwords cleared in the S/PDIF ring: two for every step of a whole frame
\* through the playback ring.
SpdifErased(first, num) ==
    LET skip  == channels - 2 + 1
        steps == (num * channels + skip) \div (skip + 1)
    IN  2 * first .. 2 * first + 2 * steps - 1

\* Mutant: without the call of IOAudioEngine::eraseOutputSamples.
ErasesSpdifOnly(first, num) ==
    /\ cleared' = [out |-> first .. first + num - 1,
                   spdif |-> SpdifErased(first, num)]
    /\ out' = out

EraseOutputSamples(first, num) ==
    LET frames == first .. first + num - 1
    IN  /\ cleared' = [out |-> frames, spdif |-> SpdifErased(first, num)]
        /\ out' = [f \in Frames |-> IF f \in frames THEN 0 ELSE out[f]]

\* The erase timer asks where the chip is.
ReadPosition ==
    /\ running /\ pc = "idle"
    /\ current' = GetCurrentSampleFrame
    /\ pc' = IF current' < erased THEN "toEnd" ELSE "upTo"
    /\ UNCHANGED <<channels, running, chip, tone, out, fresh, erased, cleared>>

\* It erases up to the end of the ring, if the chip has looped, ...
EraseToEnd ==
    /\ pc = "toEnd"
    /\ EraseOutputSamples(erased, NumSampleFrames - erased)
    /\ erased' = 0 /\ pc' = "upTo"
    /\ UNCHANGED <<channels, running, chip, tone, fresh, current>>

\* ... and up to, but not including, the frame it was told.
EraseUpTo ==
    /\ pc = "upTo"
    /\ EraseOutputSamples(erased, current - erased)
    /\ erased' = current /\ pc' = "idle"
    /\ UNCHANGED <<channels, running, chip, tone, fresh, current>>

-----------------------------------------------------------------------------
Next ==
    \/ Start \/ Stop
    \/ Play
    \/ ClipOutputSamples
    \/ ReadPosition \/ EraseToEnd \/ EraseUpTo

Spec == Init /\ [][Next]_vars

-----------------------------------------------------------------------------
(* Properties *)

\* Every variable keeps its type: the chip stays in its rings, and
\* getCurrentSampleFrame returns a frame there is.
TypeOK ==
    /\ channels \in NumChannels /\ tone \in Inputs /\ running \in BOOLEAN
    /\ length.play \in 1 .. BufferSize /\ length.rec \in 1 .. BufferSizeRec
    /\ pos \in 0 .. BufferSize - 1 /\ pos2 \in 0 .. BufferSizeRec - 1
    /\ out \in [Frames -> -Scale .. Scale - 1]
    /\ fresh \subseteq Frames
    /\ erased \in Frames /\ current \in Frames
    /\ pc \in {"idle", "toEnd", "upTo"}

\* Of the 24-bit values that a codec can play none is closer to the client's
\* sample than the one that was written, but for two units of the cut-off bits.
Near(sample, x) ==
    LET distance(t) == LET d == 8 * Round * t - x IN IF d < 0 THEN -d ELSE d
    IN  \A t \in -Scale \div (2 * Round) .. Scale \div (2 * Round) - 1 :
            distance(sample \div (2 * Round)) < distance(t) + 8

\* "If it is too large a value, sound data that hasn't been played will be
\* erased" (AudioEngine.cpp:646): what a client wrote stays in the ring, rounded
\* and saturated, until the chip has played it, wherever the chip and the client
\* are while the erase timer works with an older position.
UnplayedIsKept == \A f \in fresh : Near(out[f], Clamped(tone))

\* What was played is erased before the chip comes round again: a frame that
\* begins was written since, or is silent.  So it is after a Stop and a Start.
NothingSoundsTwice ==
    running /\ pos % channels = 0 =>
        \/ pos \div channels \in fresh
        \/ out[pos \div channels] = 0

\* With the lengths in their registers the playback ring, the input ring and
\* the S/PDIF ring loop together, so that one loop count and one position serve
\* all.
RingsLoopTogether == pos2 = 2 * (pos \div channels)

\* eraseOutputSamples clears in the S/PDIF ring the frames it clears in the
\* playback ring, and nothing beyond its end.
SpdifErasedAlike ==
    cleared.spdif = {d \in 0 .. BufferSizeRec - 1 : d \div 2 \in cleared.out}
=============================================================================
