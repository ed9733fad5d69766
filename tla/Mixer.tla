-------------------------------- MODULE Mixer --------------------------------
(***************************************************************************)
(* The mixer of Envy24HTAudioDevice (src/AudioDevice.cpp): the volume and  *)
(* mute controls it publishes from card->ParmList, the handlers that carry *)
(* a control's change to a codec register, and what sleep and wake do to   *)
(* both.  The handlers run on the work loop one at a time.                 *)
(***************************************************************************)
EXTENDS ParmLists

CONSTANTS
    Cards,   \* the cards considered, a subset of DOMAIN CreateParms
    Default, \* what card_init left in a register, whatever it is
    Offsets  \* bound: how far from an end of its range a volume is moved

ASSUME CardsAssumption ==
    /\ Cards \subseteq DOMAIN CreateParms
    /\ Default \notin Int
    /\ Offsets \subseteq Nat

VARIABLES
    card,    \* the card's name; it never changes
    awake,   \* FALSE between going to sleep and waking up
    level,   \* the value of each volume control, by its Parm's place
    muted,   \* the value of each mute control, by its Parm's place
    muteOff, \* p->MuteOffVal of each Parm
    moved,   \* history: the volume controls moved since card_init
    codecs   \* the codec registers, by chip and register

controls == <<level, muted, moved>>
vars == <<card, awake, controls, muteOff, codecs>>

Parms == CreateParms[card]
Places == DOMAIN Parms

\* createAudioEngine publishes these controls for the Parms.
Volumes == {i \in Places : Parms[i].hasControl}
Mutes   == {i \in Places : Parms[i].HasMute}

Levels(i) ==
    {v \in Parms[i].MinValue .. Parms[i].MaxValue :
        v - Parms[i].MinValue \in Offsets \/ Parms[i].MaxValue - v \in Offsets}

\* The handlers look a control's ControlID up in the list: the first Parm
\* with it is taken, whatever control it was published for.
First(table, i) ==
    CHOOSE j \in DOMAIN table :
        /\ table[j].ControlID = table[i].ControlID
        /\ \A k \in 1 .. j - 1 : table[k].ControlID # table[i].ControlID

Lookup(i) == First(Parms, i)

-----------------------------------------------------------------------------
\* The registers of the card's codecs that its Parms name.
Registers ==
    {<<Parms[i].chip, Parms[i].reg>> : i \in Places}
        \cup {<<Parms[i].chip, Parms[i].MuteReg>> : i \in Places}

\* Controls, list and registers after card_init and createAudioEngine.
InitialLevels == [i \in Volumes |-> Parms[i].InitialValue]
Unmuted       == [i \in Mutes |-> FALSE]
InitialOffs   == [i \in Places |-> Parms[i].MuteOffVal]
FreshCodecs   == [r \in Registers |-> Default]

Init ==
    /\ card \in Cards
    /\ awake = TRUE
    /\ level = InitialLevels /\ muted = Unmuted /\ moved = {}
    /\ muteOff = InitialOffs
    /\ codecs = FreshCodecs

\* x | bit, for a byte x and one bit
With(x, bit) == IF (x \div bit) % 2 = 1 THEN x ELSE x + bit

\* Mutant: the bit is the Aureon's, one too high for a byte.
SetDacLatches(val) == With(IF val > 127 THEN 127 ELSE val, 256)

\* set_dac(): clamp to seven bits and set the enable bit.
SetDac(val) == With(IF val > 127 THEN 127 ELSE val, 128)

\* AKM codecs whose lowest volume is off.
ZeroAtMinimum == {"AKM4528", "AKM4524", "AKM4355", "AKM4381"}

\* What volumeChanged writes into p's register for a control value.
Encoded(p, value) ==
    LET val == IF value <= p.MinValue /\ p.type \in ZeroAtMinimum
               THEN 0 ELSE value
    IN  CASE p.I2C                -> With(value, 128)
          [] p.type = "AKM4358"   -> With(val, 128)
          [] p.chip = "AP192"     -> SetDac(val)
          [] p.chip = "Aureon"    -> With(val, 256)
          [] OTHER                -> val

\* Mutant: unmuting does not know of the volume set meanwhile.
VolumeForgotten(i, value) ==
    /\ awake /\ value # level[i]
    /\ LET p == Parms[Lookup(i)]
       IN  codecs' = [codecs EXCEPT ![<<p.chip, p.reg>>] = Encoded(p, value)]
    /\ level' = [level EXCEPT ![i] = value]
    /\ moved' = moved \cup {i}
    /\ UNCHANGED <<card, awake, muted, muteOff>>

\* volumeChanged, and the framework's update of the control.
VolumeChanged(i, value) ==
    /\ awake /\ value # level[i]
    /\ LET j == Lookup(i)
           p == Parms[j]
       IN  /\ codecs' = [codecs EXCEPT ![<<p.chip, p.reg>>] = Encoded(p, value)]
           /\ muteOff' = IF p.HasMute /\ p.usesUnmuteVolumeReset
                         THEN [muteOff EXCEPT ![j] = value] ELSE muteOff
    /\ level' = [level EXCEPT ![i] = value]
    /\ moved' = moved \cup {i}
    /\ UNCHANGED <<card, awake, muted>>

\* Mutant: the mute value goes to the volume register.
MuteInVolumeRegister(i) ==
    /\ awake
    /\ muted' = [muted EXCEPT ![i] = ~@]
    /\ LET j == Lookup(i)
           p == Parms[j]
           val == IF muted[i] THEN muteOff[j] ELSE p.MuteOnVal
       IN  codecs' = IF p.HasMute /\ p.chip # "AP192"
                     THEN [codecs EXCEPT ![<<p.chip, p.reg>>] = val]
                     ELSE codecs
    /\ UNCHANGED <<card, awake, level, moved, muteOff>>

\* outputMuteChanged: a Parm that has neither I2C nor a codec, on a card that
\* is no Aureon, is passed over: that is the AP192.
OutputMuteChanged(i) ==
    /\ awake
    /\ muted' = [muted EXCEPT ![i] = ~@]
    /\ LET j == Lookup(i)
           p == Parms[j]
           val == IF muted[i] THEN muteOff[j] ELSE p.MuteOnVal
       IN  codecs' = IF p.HasMute /\ p.chip # "AP192"
                     THEN [codecs EXCEPT ![<<p.chip, p.MuteReg>>] = val]
                     ELSE codecs
    /\ UNCHANGED <<card, awake, level, moved, muteOff>>

\* Going to sleep deactivates the engines and saves nothing.
Sleep ==
    /\ awake /\ awake' = FALSE
    /\ UNCHANGED <<card, controls, muteOff, codecs>>

\* Waking up: card_init sets the codecs up and builds a new ParmList, and
\* createAudioEngine publishes new controls from it.
Wake ==
    /\ ~awake /\ awake' = TRUE
    /\ level' = InitialLevels /\ muted' = Unmuted /\ moved' = {}
    /\ muteOff' = InitialOffs
    /\ codecs' = FreshCodecs
    /\ UNCHANGED card

Next ==
    \/ \E i \in Volumes : \E value \in Levels(i) : VolumeChanged(i, value)
    \/ \E i \in Mutes : OutputMuteChanged(i)
    \/ Sleep
    \/ Wake

Spec == Init /\ [][Next]_vars

-----------------------------------------------------------------------------
(* Properties *)

\* Every variable keeps its type, and only the Aureon's nine-bit registers
\* ever get a value that does not fit a byte.
TypeOK ==
    /\ card \in Cards /\ awake \in BOOLEAN
    /\ level \in [Volumes -> 0 .. 255]
    /\ muted \in [Mutes -> BOOLEAN]
    /\ muteOff \in [Places -> 0 .. 255]
    /\ moved \subseteq Volumes
    /\ DOMAIN codecs = Registers
    /\ \A r \in Registers :
          \/ codecs[r] = Default
          \/ codecs[r] \in 0 .. (IF r[1] = "Aureon" THEN 511 ELSE 255)

VolumeRegister(i) == <<Parms[i].chip, Parms[i].reg>>
MuteRegister(i)   == <<Parms[i].chip, Parms[i].MuteReg>>

\* Whichever controls were changed since and whichever Parm the look-up met,
\* the register of a volume control that was moved holds its value, or the
\* mute value while a mute control on that register is on.
VolumesReachTheCodec ==
    \A i \in moved :
        LET r == VolumeRegister(i)
        IN  \/ codecs[r] = Encoded(Parms[i], level[i])
            \/ \E m \in Mutes : /\ muted[m] /\ MuteRegister(m) = r
                                /\ codecs[r] = Parms[m].MuteOnVal

\* The register of a mute control says what the control says.
MuteReaches(m) ==
    IF muted[m] THEN codecs[MuteRegister(m)] = Parms[m].MuteOnVal
                ELSE codecs[MuteRegister(m)] # Parms[m].MuteOnVal

\* The mute controls whose register no other control is for.
SeparateMutes ==
    {m \in Mutes : /\ \A i \in Volumes : VolumeRegister(i) # MuteRegister(m)
                   /\ \A k \in Mutes \ {m} : MuteRegister(k) # MuteRegister(m)}

\* Whatever else is moved, and whichever Parm the look-up met, a mute control
\* with a register of its own mutes while it is on and only then.
SeparateMutesReachTheCodec == \A m \in SeparateMutes : MuteReaches(m)

-----------------------------------------------------------------------------
(* What a table is like behind which these properties hold *)

\* Values are bytes.
TableTyped(table) ==
    \A i \in DOMAIN table :
        /\ First(table, i) \in DOMAIN table
        /\ {table[i].InitialValue, table[i].MinValue, table[i].MaxValue,
            table[i].MuteOnVal, table[i].MuteOffVal} \subseteq 0 .. 255

\* The look-up meets the register and the range of the control, its mute, if
\* it has one, and no other control's.
LookupFits(table) ==
    \A i \in DOMAIN table :
        LET p == table[i]
            f == table[First(table, i)]
        IN  /\ p.hasControl =>
                  f.chip = p.chip /\ f.reg = p.reg /\ f.type = p.type
                    /\ f.I2C = p.I2C /\ f.MinValue = p.MinValue
            /\ p.HasMute =>
                  f.HasMute /\ f.chip = p.chip /\ f.MuteReg = p.MuteReg
                    /\ f.MuteOnVal = p.MuteOnVal
            /\ \A k \in DOMAIN table \ {i} :
                  p.hasControl /\ table[k].hasControl =>
                     First(table, k) # First(table, i)

\* A volume has its register to itself, or shares it with its own mute, which
\* restores the volume as it was written.
VolumesApart(table) ==
    \A i \in DOMAIN table : table[i].hasControl =>
        LET p == table[i]
            f == table[First(table, i)]
        IN  /\ \A k \in DOMAIN table \ {i} : table[k].hasControl =>
                  <<table[k].chip, table[k].reg>> # <<p.chip, p.reg>>
            /\ \A m \in DOMAIN table :
                  table[m].HasMute /\ table[m].chip # "AP192"
                    /\ <<table[m].chip, table[m].MuteReg>> = <<p.chip, p.reg>> =>
                       /\ First(table, m) = First(table, i)
                       /\ f.usesUnmuteVolumeReset
                       /\ \A v \in p.MinValue .. p.MaxValue : Encoded(p, v) = v

\* A mute with a register of its own has two values of its own.
MutesApart(table) ==
    \A m \in DOMAIN table :
        LET p == table[m]
            f == table[First(table, m)]
        IN  /\ p.HasMute
            /\ \A i \in DOMAIN table : table[i].hasControl =>
                  <<table[i].chip, table[i].reg>> # <<p.chip, p.MuteReg>>
            /\ \A k \in DOMAIN table \ {m} : table[k].HasMute =>
                  <<table[k].chip, table[k].MuteReg>> # <<p.chip, p.MuteReg>>
            => /\ p.chip # "AP192" /\ ~f.usesUnmuteVolumeReset
               /\ f.MuteOffVal # p.MuteOnVal
=============================================================================
