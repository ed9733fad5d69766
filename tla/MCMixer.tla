------------------------------ MODULE MCMixer ------------------------------
(* Mixer on all the cards with a table, or on those a question is about.  *)
EXTENDS Mixer

\* Every card but the one whose table names a register twice.
SeparateRegisters == DOMAIN CreateParms \ {"Revo71"}

\* The tables are what the theorems about Mixer ask of them; the one left out
\* fails in its shared register alone.
ASSUME TablesFit ==
    /\ \A c \in DOMAIN CreateParms :
          LET table == CreateParms[c]
          IN  TableTyped(table) /\ LookupFits(table) /\ MutesApart(table)
    /\ \A c \in SeparateRegisters : VolumesApart(CreateParms[c])
    /\ ~VolumesApart(CreateParms["Revo71"])
=============================================================================
