--------------------------- MODULE MCAudioEngine ---------------------------
(* AudioEngine on the rates that tell its branches apart: one the S/PDIF   *)
(* transmitter has a code for and one it has none for.                     *)
EXTENDS AudioEngine

MCRates == {44100, 64000}
=============================================================================
