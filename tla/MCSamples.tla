----------------------------- MODULE MCSamples -----------------------------
(* Samples on a ring of a few frames, with a register whose ratio to the   *)
(* ring is that of the code (65536 values to 16384 frames), and samples of *)
(* a few bits around every point where the conversion changes.             *)
EXTENDS Samples

MCLow == 4 * NumSampleFrames

\* Silence, the edges of rounding, of saturation and of clamping.
MCInputs ==
    {-200, -4 * Scale - 1, -4 * Scale, -4 * Round - 3, -1, 0, 4 * Round - 1,
     4 * Round, 4 * (Scale - 2 * Round - 1) - 1, 4 * (Scale - 2 * Round - 1),
     4 * Scale, 200}

\* The conversion of every sample, from below the least to above the greatest:
\* in range, to the nearest value, and never a louder one to a softer one.
ASSUME ConversionIsRight ==
    \A x \in -5 * Scale .. 5 * Scale :
        /\ Float32ToSInt32(x) \in -Scale .. Scale - 1
        /\ Near(Float32ToSInt32(x), Clamped(x))
        /\ Float32ToSInt32(x) <= Float32ToSInt32(x + 1)
=============================================================================
