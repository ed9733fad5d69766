----------------------------- MODULE MixerProofs -----------------------------
(***************************************************************************)
(* Proofs about Mixer for every set of cards and every distance from the   *)
(* ends of its range that a volume is moved to: which properties of the    *)
(* tables the mixer rests on, and that they are enough.  The tables are    *)
(* evaluated by TLC (TablesFit), the proofs do not look at them.           *)
(***************************************************************************)
EXTENDS Mixer, TLAPS

TablesTyped == \A c \in Cards : TableTyped(CreateParms[c])
TablesFound == \A c \in Cards : LookupFits(CreateParms[c])

-----------------------------------------------------------------------------
(* Types *)

\* What volumeChanged writes fits the register.
LEMMA EncodedFits ==
    ASSUME NEW p, NEW value \in 0 .. 255
    PROVE  Encoded(p, value) \in 0 .. (IF p.chip = "Aureon" THEN 511 ELSE 255)
<1> DEFINE val == IF value <= p.MinValue /\ p.type \in ZeroAtMinimum
                  THEN 0 ELSE value
<1>1. val \in 0 .. 255
  OBVIOUS
<1> HIDE DEF val
<1>2. With(value, 128) \in 0 .. 255 /\ With(val, 128) \in 0 .. 255
      /\ With(val, 256) \in 0 .. 511
  BY <1>1 DEF With
<1>3. SetDac(val) \in 0 .. 255
  <2> DEFINE c == IF val > 127 THEN 127 ELSE val
  <2>1. c \in 0 .. 255
    BY <1>1
  <2>2. SetDac(val) = With(c, 128)
    BY DEF SetDac
  <2> HIDE DEF c
  <2>3. QED
    BY <2>1, <2>2 DEF With
<1>4. Encoded(p, value) = CASE p.I2C              -> With(value, 128)
                            [] p.type = "AKM4358" -> With(val, 128)
                            [] p.chip = "AP192"   -> SetDac(val)
                            [] p.chip = "Aureon"  -> With(val, 256)
                            [] OTHER              -> val
  BY DEF Encoded, val
<1>5. QED
  BY <1>1, <1>2, <1>3, <1>4, SMTT(30)

\* The registers' names are all there is to them.
RegisterValue(r) == 0 .. (IF r[1] = "Aureon" THEN 511 ELSE 255)

\* Every variable keeps its type, whatever is moved to whatever value: only the
\* Aureon's registers ever get more than a byte.
THEOREM TypeCorrect ==
    ASSUME TablesTyped
    PROVE  Spec => []TypeOK
<1>1. Init => TypeOK
  <2> SUFFICES ASSUME Init PROVE TypeOK
    OBVIOUS
  <2>1. \A i \in Places : Parms[i].InitialValue \in 0 .. 255
                             /\ Parms[i].MuteOffVal \in 0 .. 255
    <3>1. TableTyped(Parms)
      BY DEF Init, TablesTyped, Parms
    <3>2. QED
      BY <3>1 DEF TableTyped, Places
  <2>2. QED
    BY <2>1 DEF Init, TypeOK, InitialLevels, Unmuted, InitialOffs, FreshCodecs,
       Volumes, Mutes
<1>2. TypeOK /\ [Next]_vars => TypeOK'
  <2> SUFFICES ASSUME TypeOK, [Next]_vars PROVE TypeOK'
    OBVIOUS
  <2>1. /\ \A i \in Places : Lookup(i) \in Places
        /\ \A i \in Places :
              /\ Parms[i].InitialValue \in 0 .. 255
              /\ Parms[i].MinValue \in 0 .. 255 /\ Parms[i].MaxValue \in 0 .. 255
              /\ Parms[i].MuteOnVal \in 0 .. 255 /\ Parms[i].MuteOffVal \in 0 .. 255
    <3>1. TableTyped(Parms)
      BY DEF TypeOK, TablesTyped, Parms
    <3>2. QED
      BY <3>1 DEF TableTyped, Places, Lookup
  <2>2. ASSUME NEW i \in Volumes, NEW value \in Levels(i), VolumeChanged(i, value)
        PROVE  TypeOK'
    <3> DEFINE j == Lookup(i)
               r == <<Parms[j].chip, Parms[j].reg>>
    <3>1. i \in Places /\ j \in Places /\ value \in 0 .. 255 /\ r \in Registers
      <4>1. i \in Places /\ j \in Places
        BY <2>1 DEF Volumes
      <4>2. value \in 0 .. 255
        <5>1. value \in Parms[i].MinValue .. Parms[i].MaxValue
          BY DEF Levels
        <5>2. Parms[i].MinValue \in 0 .. 255 /\ Parms[i].MaxValue \in 0 .. 255
          BY <2>1, <4>1
        <5>3. QED
          BY <5>1, <5>2
      <4>3. QED
        BY <4>1, <4>2 DEF Registers
    <3>2. Encoded(Parms[j], value) \in RegisterValue(r)
      BY <3>1, EncodedFits, SMTT(30) DEF RegisterValue
    <3>3. codecs' = [codecs EXCEPT ![r] = Encoded(Parms[j], value)]
      BY <2>2 DEF VolumeChanged
    <3>4. card' = card /\ Places' = Places /\ Volumes' = Volumes /\ Mutes' = Mutes
            /\ Registers' = Registers
      BY <2>2 DEF VolumeChanged, Places, Parms, Volumes, Mutes, Registers
    <3>5. muteOff' \in [Places -> 0 .. 255]
      BY <2>2, <3>1 DEF VolumeChanged, TypeOK
    <3>6. level' \in [Volumes -> 0 .. 255]
      BY <2>2, <3>1 DEF VolumeChanged, TypeOK
    <3>7. DOMAIN codecs' = Registers /\ \A q \in Registers :
              codecs'[q] = Default \/ codecs'[q] \in RegisterValue(q)
      <4> HIDE DEF r, j
      <4>1. QED
        BY <3>2, <3>3 DEF TypeOK, RegisterValue
    <3>8. QED
      BY <2>2, <3>4, <3>5, <3>6, <3>7 DEF VolumeChanged, TypeOK, RegisterValue
  <2>3. ASSUME NEW i \in Mutes, OutputMuteChanged(i)
        PROVE  TypeOK'
    <3> DEFINE j == Lookup(i)
               r == <<Parms[j].chip, Parms[j].MuteReg>>
               val == IF muted[i] THEN muteOff[j] ELSE Parms[j].MuteOnVal
    <3>1. i \in Places /\ j \in Places /\ r \in Registers
      BY <2>1 DEF Mutes, Registers
    <3>2. val \in RegisterValue(r)
      <4>1. val \in 0 .. 255
        BY <2>1, <3>1 DEF TypeOK
      <4>2. QED
        BY <4>1, SMTT(30) DEF RegisterValue
    <3>3. codecs' = [codecs EXCEPT ![r] = val] \/ codecs' = codecs
      BY <2>3 DEF OutputMuteChanged
    <3>4. card' = card /\ Places' = Places /\ Volumes' = Volumes /\ Mutes' = Mutes
            /\ Registers' = Registers
      BY <2>3 DEF OutputMuteChanged, Places, Parms, Volumes, Mutes, Registers
    <3>5. muted' \in [Mutes -> BOOLEAN]
      BY <2>3 DEF OutputMuteChanged, TypeOK
    <3>6. DOMAIN codecs' = Registers /\ \A q \in Registers :
              codecs'[q] = Default \/ codecs'[q] \in RegisterValue(q)
      <4> HIDE DEF r, j, val
      <4>1. QED
        BY <3>2, <3>3 DEF TypeOK, RegisterValue
    <3>7. QED
      BY <2>3, <3>4, <3>5, <3>6 DEF OutputMuteChanged, TypeOK, RegisterValue
  <2>4. CASE Sleep
    <3>1. awake' \in BOOLEAN
      BY <2>4 DEF Sleep
    <3>2. QED
      BY <2>4, <3>1 DEF Sleep, controls, TypeOK, Places, Parms, Volumes, Mutes,
         Registers
  <2>5. CASE Wake
    <3>1. card' = card /\ Places' = Places /\ Volumes' = Volumes /\ Mutes' = Mutes
            /\ Registers' = Registers
      BY <2>5 DEF Wake, Places, Parms, Volumes, Mutes, Registers
    <3>2. /\ InitialLevels \in [Volumes -> 0 .. 255]
          /\ InitialOffs \in [Places -> 0 .. 255]
      BY <2>1 DEF InitialLevels, InitialOffs, Volumes
    <3>3. Unmuted \in [Mutes -> BOOLEAN] /\ awake' \in BOOLEAN
      BY <2>5 DEF Unmuted, Wake
    <3>4. QED
      BY <2>5, <3>1, <3>2, <3>3 DEF Wake, TypeOK, FreshCodecs
  <2>6. CASE UNCHANGED vars
    BY <2>6 DEF vars, controls, TypeOK, Places, Parms, Volumes, Mutes, Registers
  <2>7. QED
    BY <2>2, <2>3, <2>4, <2>5, <2>6 DEF Next
<1>3. QED
  BY <1>1, <1>2, PTL DEF Spec

-----------------------------------------------------------------------------
(* Volumes *)

\* A moved volume is within its range, and its mute will restore it.
RestoresOK ==
    \A i \in moved :
        /\ level[i] \in Parms[i].MinValue .. Parms[i].MaxValue
        /\ Parms[Lookup(i)].HasMute /\ Parms[Lookup(i)].usesUnmuteVolumeReset
              => muteOff[Lookup(i)] = level[i]

\* VolumesReachTheCodec, whose mute is one that writes its register.
Reaches(i) ==
    \/ codecs[VolumeRegister(i)] = Encoded(Parms[i], level[i])
    \/ \E m \in Mutes : /\ muted[m] /\ MuteRegister(m) = VolumeRegister(i)
                        /\ codecs[VolumeRegister(i)] = Parms[m].MuteOnVal
                        /\ Parms[m].chip # "AP192"

ReachesOK == \A i \in moved : Reaches(i)

\* The card never changes, nor does what depends on it alone.
LEMMA CardStays ==
    ASSUME TypeOK, [Next]_vars
    PROVE  /\ card' = card /\ Parms' = Parms /\ Places' = Places
           /\ Volumes' = Volumes /\ Mutes' = Mutes /\ Registers' = Registers
           /\ \A i : Lookup(i)' = Lookup(i)
           /\ \A i : VolumeRegister(i)' = VolumeRegister(i)
           /\ \A i : MuteRegister(i)' = MuteRegister(i)
<1>1. card' = card
  BY DEF Next, VolumeChanged, OutputMuteChanged, Sleep, Wake, vars
<1>2. QED
  BY <1>1 DEF Parms, Places, Volumes, Mutes, Registers, Lookup,
     VolumeRegister, MuteRegister

\* What the look-up meets has the same encoding.
LEMMA LookupEncodes ==
    ASSUME LookupFits(Parms), NEW i \in Volumes, NEW value
    PROVE  /\ Encoded(Parms[Lookup(i)], value) = Encoded(Parms[i], value)
           /\ <<Parms[Lookup(i)].chip, Parms[Lookup(i)].reg>> = VolumeRegister(i)
<1> DEFINE f == Parms[Lookup(i)]
           p == Parms[i]
<1>1. /\ f.chip = p.chip /\ f.reg = p.reg /\ f.type = p.type
      /\ f.I2C = p.I2C /\ f.MinValue = p.MinValue
  BY DEF LookupFits, Volumes, Places, Lookup
<1> HIDE DEF f, p
<1>2. Encoded(f, value) = Encoded(p, value)
  BY <1>1 DEF Encoded
<1>3. QED
  BY <1>1, <1>2 DEF f, p, VolumeRegister

\* No two moved volumes meet.
LEMMA VolumesDiffer ==
    ASSUME LookupFits(Parms), VolumesApart(Parms),
           NEW i \in Volumes, NEW k \in Volumes, i # k
    PROVE  VolumeRegister(k) # VolumeRegister(i) /\ Lookup(k) # Lookup(i)
<1>1. VolumeRegister(k) # VolumeRegister(i)
  BY DEF VolumesApart, Volumes, Places, VolumeRegister
<1>2. Lookup(k) # Lookup(i)
  BY DEF LookupFits, Volumes, Places, Lookup
<1>3. QED
  BY <1>1, <1>2

\* A volume change reaches its register and disturbs no other volume's.
LEMMA VolumeReaches ==
    ASSUME TypeOK, TypeOK', LookupFits(Parms), VolumesApart(Parms), TableTyped(Parms),
           RestoresOK, ReachesOK,
           NEW i \in Volumes, NEW value \in Levels(i), VolumeChanged(i, value)
    PROVE  RestoresOK' /\ ReachesOK'
<1> DEFINE j == Lookup(i)
<1>1. [Next]_vars
  BY DEF Next
<1>2. /\ i \in Places /\ j \in Places /\ moved \subseteq Volumes
      /\ value \in Parms[i].MinValue .. Parms[i].MaxValue
      /\ VolumeRegister(i) \in Registers
  <2>1. i \in Places /\ moved \subseteq Volumes
    BY DEF Volumes, TypeOK
  <2>2. j \in Places
    BY <2>1 DEF TableTyped, Places, Lookup
  <2>3. value \in Parms[i].MinValue .. Parms[i].MaxValue
    BY DEF Levels
  <2>4. QED
    BY <2>1, <2>2, <2>3 DEF Registers, VolumeRegister
<1>3. /\ codecs' = [codecs EXCEPT ![VolumeRegister(i)] = Encoded(Parms[i], value)]
      /\ level' = [level EXCEPT ![i] = value]
      /\ moved' = moved \cup {i} /\ muted' = muted
      /\ muteOff' = IF Parms[j].HasMute /\ Parms[j].usesUnmuteVolumeReset
                    THEN [muteOff EXCEPT ![j] = value] ELSE muteOff
  BY LookupEncodes DEF VolumeChanged
<1>4. /\ level'[i] = value
      /\ codecs'[VolumeRegister(i)] = Encoded(Parms[i], value)
      /\ Parms[j].HasMute /\ Parms[j].usesUnmuteVolumeReset => muteOff'[j] = value
  BY <1>2, <1>3 DEF TypeOK
<1>5. ASSUME NEW k \in moved, k # i
      PROVE  /\ level'[k] = level[k]
             /\ codecs'[VolumeRegister(k)] = codecs[VolumeRegister(k)]
             /\ muteOff'[Lookup(k)] = muteOff[Lookup(k)]
  <2>1. VolumeRegister(k) # VolumeRegister(i) /\ Lookup(k) # j
    BY <1>2, <1>5, VolumesDiffer
  <2>2. level'[k] = level[k]
    BY <1>2, <1>3, <1>5 DEF TypeOK
  <2>3. codecs'[VolumeRegister(k)] = codecs[VolumeRegister(k)]
    BY <1>3, <2>1 DEF TypeOK
  <2>4. muteOff'[Lookup(k)] = muteOff[Lookup(k)]
    BY <1>3, <2>1 DEF TypeOK
  <2>5. QED
    BY <2>2, <2>3, <2>4
<1> HIDE DEF j
<1>6. RestoresOK'
  BY <1>1, <1>2, <1>3, <1>4, <1>5, CardStays DEF RestoresOK, j
<1>7. ReachesOK'
  <2> SUFFICES ASSUME NEW k \in moved' PROVE Reaches(k)'
    BY DEF ReachesOK
  <2>1. CASE k = i
    BY <1>1, <1>4, <2>1, CardStays DEF Reaches
  <2>2. CASE k # i
    <3>1. k \in moved /\ Reaches(k)
      BY <1>3, <2>2 DEF ReachesOK
    <3>2. QED
      BY <1>1, <1>3, <1>5, <2>2, <3>1, CardStays DEF Reaches
  <2>3. QED
    BY <2>1, <2>2
<1>8. QED
  BY <1>6, <1>7

\* A mute change leaves the volumes' registers with the volume or the mute.
LEMMA MuteKeepsVolumes ==
    ASSUME TypeOK, TypeOK', LookupFits(Parms), VolumesApart(Parms), TableTyped(Parms),
           RestoresOK, ReachesOK, NEW m \in Mutes, OutputMuteChanged(m)
    PROVE  RestoresOK' /\ ReachesOK'
<1> DEFINE j == Lookup(m)
           val == IF muted[m] THEN muteOff[j] ELSE Parms[j].MuteOnVal
<1>1. [Next]_vars
  BY DEF Next
<1>2. m \in Places /\ j \in Places /\ moved \subseteq Volumes
      /\ MuteRegister(m) \in Registers
  <2>1. m \in Places /\ moved \subseteq Volumes
    BY DEF Mutes, TypeOK
  <2>2. j \in Places
    BY <2>1 DEF TableTyped, Places, Lookup
  <2>3. QED
    BY <2>1, <2>2 DEF Registers, MuteRegister
<1>3. /\ Parms[j].HasMute /\ Parms[j].chip = Parms[m].chip
      /\ <<Parms[j].chip, Parms[j].MuteReg>> = MuteRegister(m)
      /\ Parms[j].MuteOnVal = Parms[m].MuteOnVal
  BY <1>2 DEF LookupFits, Mutes, Places, Lookup, MuteRegister
<1>4. /\ codecs' = IF Parms[m].chip # "AP192"
                   THEN [codecs EXCEPT ![MuteRegister(m)] = val] ELSE codecs
      /\ muted' = [muted EXCEPT ![m] = ~@]
      /\ level' = level /\ moved' = moved /\ muteOff' = muteOff
  BY <1>3 DEF OutputMuteChanged
<1>5. RestoresOK'
  BY <1>1, <1>4, CardStays DEF RestoresOK
<1>6. ASSUME NEW k \in moved PROVE Reaches(k)'
  <2>1. k \in Volumes /\ Reaches(k)
    BY <1>2 DEF ReachesOK
  <2>2. CASE Parms[m].chip = "AP192" \/ MuteRegister(m) # VolumeRegister(k)
    <3>1. codecs'[VolumeRegister(k)] = codecs[VolumeRegister(k)] /\ level'[k] = level[k]
      BY <1>4, <2>2 DEF TypeOK
    <3>2. CASE codecs[VolumeRegister(k)] = Encoded(Parms[k], level[k])
      BY <1>1, <3>1, <3>2, CardStays DEF Reaches
    <3>3. ASSUME NEW o \in Mutes, muted[o], MuteRegister(o) = VolumeRegister(k),
                 codecs[VolumeRegister(k)] = Parms[o].MuteOnVal, Parms[o].chip # "AP192"
          PROVE  Reaches(k)'
      <4>1. o # m
        BY <2>2, <3>3
      <4>2. muted'[o]
        BY <1>4, <3>3, <4>1 DEF TypeOK
      <4>3. QED
        BY <1>1, <3>1, <3>3, <4>2, CardStays DEF Reaches
    <3>4. QED
      BY <2>1, <3>2, <3>3 DEF Reaches
  <2>3. CASE Parms[m].chip # "AP192" /\ MuteRegister(m) = VolumeRegister(k)
    <3>1. codecs'[VolumeRegister(k)] = val
      BY <1>2, <1>4, <2>3 DEF TypeOK
    <3>2. /\ Lookup(k) = j /\ Parms[j].usesUnmuteVolumeReset
          /\ \A v \in Parms[k].MinValue .. Parms[k].MaxValue : Encoded(Parms[k], v) = v
      BY <1>2, <2>1, <2>3 DEF VolumesApart, Volumes, Mutes, Places, Lookup,
         VolumeRegister, MuteRegister
    <3>3. CASE muted[m]
      <4>1. val = level[k] /\ level[k] \in Parms[k].MinValue .. Parms[k].MaxValue
        BY <1>3, <3>2, <3>3 DEF RestoresOK
      <4>2. codecs'[VolumeRegister(k)] = Encoded(Parms[k], level[k])
        BY <3>1, <3>2, <4>1
      <4>3. QED
        BY <1>1, <1>4, <4>2, CardStays DEF Reaches
    <3>4. CASE ~muted[m]
      <4>1. muted'[m] /\ codecs'[VolumeRegister(k)] = Parms[m].MuteOnVal
        BY <1>3, <1>4, <3>1, <3>4 DEF TypeOK
      <4>2. QED
        BY <1>1, <2>3, <4>1, CardStays DEF Reaches
    <3>5. QED
      BY <3>3, <3>4
  <2>4. QED
    BY <2>2, <2>3
<1>7. QED
  BY <1>1, <1>4, <1>5, <1>6 DEF ReachesOK

\* On every card whose table keeps the volumes apart, after any sequence of
\* volume and mute changes to whatever values, sleeps and wakes, the register
\* of a volume that was moved holds its value, or the value of a mute that is on.
THEOREM VolumesAlwaysReachTheCodec ==
    ASSUME TablesTyped, TablesFound, \A c \in Cards : VolumesApart(CreateParms[c])
    PROVE  Spec => []VolumesReachTheCodec
<1>1. Init => RestoresOK /\ ReachesOK
  BY DEF Init, RestoresOK, ReachesOK
<1>2. TypeOK /\ TypeOK' /\ RestoresOK /\ ReachesOK /\ [Next]_vars
        => RestoresOK' /\ ReachesOK'
  <2> SUFFICES ASSUME TypeOK, TypeOK', RestoresOK, ReachesOK, [Next]_vars
               PROVE  RestoresOK' /\ ReachesOK'
    OBVIOUS
  <2>1. TableTyped(Parms) /\ LookupFits(Parms) /\ VolumesApart(Parms)
    BY DEF TypeOK, TablesTyped, TablesFound, Parms
  <2>2. ASSUME NEW i \in Volumes, NEW value \in Levels(i), VolumeChanged(i, value)
        PROVE  RestoresOK' /\ ReachesOK'
    BY <2>1, <2>2, VolumeReaches
  <2>3. ASSUME NEW m \in Mutes, OutputMuteChanged(m)
        PROVE  RestoresOK' /\ ReachesOK'
    BY <2>1, <2>3, MuteKeepsVolumes
  <2>4. CASE Sleep \/ UNCHANGED vars
    <3>1. level' = level /\ moved' = moved /\ muted' = muted /\ muteOff' = muteOff
            /\ codecs' = codecs
      BY <2>4 DEF Sleep, vars, controls
    <3>2. QED
      BY <3>1, CardStays DEF RestoresOK, ReachesOK, Reaches
  <2>5. CASE Wake
    BY <2>5 DEF Wake, RestoresOK, ReachesOK
  <2>6. QED
    BY <2>2, <2>3, <2>4, <2>5 DEF Next
<1>3. TypeOK /\ ReachesOK => VolumesReachTheCodec
  BY DEF ReachesOK, Reaches, VolumesReachTheCodec
<1>4. QED
  BY <1>1, <1>2, <1>3, TypeCorrect, PTL DEF Spec

-----------------------------------------------------------------------------
(* Mutes *)

\* SeparateMutesReachTheCodec, and what unmuting will write.
MutesOK ==
    \A m \in SeparateMutes :
        MuteReaches(m) /\ muteOff[Lookup(m)] = Parms[Lookup(m)].MuteOffVal

\* At first, and after waking, no mute is on and no register muted.
LEMMA FreshMutes ==
    ASSUME TableTyped(Parms), NEW m \in Mutes
    PROVE  /\ Unmuted[m] = FALSE
           /\ FreshCodecs[MuteRegister(m)] # Parms[m].MuteOnVal
           /\ InitialOffs[Lookup(m)] = Parms[Lookup(m)].MuteOffVal
<1>1. m \in Places /\ Parms[m].MuteOnVal \in Int /\ Lookup(m) \in Places
  BY DEF Mutes, TableTyped, Places, Lookup
<1>2. FreshCodecs[MuteRegister(m)] = Default
  BY <1>1 DEF FreshCodecs, Registers, MuteRegister
<1>3. QED
  BY <1>1, <1>2, CardsAssumption DEF Unmuted, InitialOffs, CardsAssumption

\* On every card whose look-up finds a mute control's own mute, a control with
\* a register of its own mutes while it is on, and only then.
THEOREM SeparateMutesAlwaysReachTheCodec ==
    ASSUME TablesTyped, TablesFound, \A c \in Cards : MutesApart(CreateParms[c])
    PROVE  Spec => []SeparateMutesReachTheCodec
<1>1. Init => MutesOK
  <2> SUFFICES ASSUME Init, NEW m \in SeparateMutes
               PROVE  MuteReaches(m) /\ muteOff[Lookup(m)] = Parms[Lookup(m)].MuteOffVal
    BY DEF MutesOK
  <2>1. TableTyped(Parms) /\ m \in Mutes
    BY DEF Init, TablesTyped, Parms, SeparateMutes
  <2>2. QED
    BY <2>1, FreshMutes DEF Init, MuteReaches
<1>2. TypeOK /\ TypeOK' /\ MutesOK /\ [Next]_vars => MutesOK'
  <2> SUFFICES ASSUME TypeOK, TypeOK', MutesOK, [Next]_vars, NEW m \in SeparateMutes'
               PROVE  (MuteReaches(m) /\ muteOff[Lookup(m)] = Parms[Lookup(m)].MuteOffVal)'
    BY DEF MutesOK
  <2> DEFINE j == Lookup(m)
  <2>1. TableTyped(Parms) /\ LookupFits(Parms) /\ MutesApart(Parms)
    BY DEF TypeOK, TablesTyped, TablesFound, Parms
  <2>2. m \in SeparateMutes
    BY CardStays DEF SeparateMutes
  <2>3. /\ m \in Mutes /\ m \in Places /\ j \in Places
        /\ MuteReaches(m) /\ muteOff[j] = Parms[j].MuteOffVal
        /\ MuteRegister(m) \in Registers
    <3>1. m \in Mutes /\ m \in Places
      BY <2>2 DEF SeparateMutes, Mutes
    <3>2. j \in Places
      BY <2>1, <3>1 DEF TableTyped, Places, Lookup
    <3>3. QED
      BY <2>2, <3>1, <3>2 DEF MutesOK, Registers, MuteRegister
  <2>4. /\ \A i \in Volumes : VolumeRegister(i) # MuteRegister(m)
        /\ \A k \in Mutes \ {m} : MuteRegister(k) # MuteRegister(m)
    BY <2>2 DEF SeparateMutes
  <2>5. /\ Parms[m].chip # "AP192" /\ ~Parms[j].usesUnmuteVolumeReset
        /\ Parms[j].MuteOffVal # Parms[m].MuteOnVal
    BY <2>1, <2>3, <2>4 DEF MutesApart, Mutes, Volumes, Places, Lookup,
       VolumeRegister, MuteRegister
  <2>6. /\ Parms[j].HasMute /\ Parms[j].chip = Parms[m].chip
        /\ <<Parms[j].chip, Parms[j].MuteReg>> = MuteRegister(m)
        /\ Parms[j].MuteOnVal = Parms[m].MuteOnVal
    BY <2>1, <2>3 DEF LookupFits, Mutes, Places, Lookup, MuteRegister
  <2> HIDE DEF j
  <2>7. ASSUME muted'[m] = muted[m], muteOff'[j] = muteOff[j],
               codecs'[MuteRegister(m)] = codecs[MuteRegister(m)]
        PROVE  (MuteReaches(m) /\ muteOff[Lookup(m)] = Parms[Lookup(m)].MuteOffVal)'
    BY <2>3, <2>7, CardStays DEF MuteReaches, j
  <2>8. ASSUME NEW i \in Volumes, NEW value \in Levels(i), VolumeChanged(i, value)
        PROVE  (MuteReaches(m) /\ muteOff[Lookup(m)] = Parms[Lookup(m)].MuteOffVal)'
    <3>1. codecs' = [codecs EXCEPT ![VolumeRegister(i)] = Encoded(Parms[i], value)]
      BY <2>1, <2>8, LookupEncodes DEF VolumeChanged
    <3>2. codecs'[MuteRegister(m)] = codecs[MuteRegister(m)]
      BY <2>3, <2>4, <3>1 DEF TypeOK
    <3>3. muteOff'[j] = muteOff[j] /\ muted' = muted
      BY <2>3, <2>5, <2>8 DEF VolumeChanged, TypeOK
    <3>4. QED
      BY <2>7, <3>2, <3>3
  <2>9. ASSUME NEW k \in Mutes, OutputMuteChanged(k)
        PROVE  (MuteReaches(m) /\ muteOff[Lookup(m)] = Parms[Lookup(m)].MuteOffVal)'
    <3>1. CASE k = m
      <4>1. codecs' = [codecs EXCEPT ![MuteRegister(m)] =
                          IF muted[m] THEN muteOff[j] ELSE Parms[m].MuteOnVal]
        BY <2>5, <2>6, <2>9, <3>1 DEF OutputMuteChanged, j
      <4>2. codecs'[MuteRegister(m)] =
                IF muted[m] THEN Parms[j].MuteOffVal ELSE Parms[m].MuteOnVal
        BY <2>3, <4>1 DEF TypeOK
      <4>3. muted'[m] = ~muted[m] /\ muteOff' = muteOff
        BY <2>3, <2>9, <3>1 DEF OutputMuteChanged, TypeOK
      <4>4. QED
        BY <2>3, <2>5, <4>2, <4>3, CardStays DEF MuteReaches, j
    <3>2. CASE k # m
      <4>1. MuteRegister(k) # MuteRegister(m) /\ k \in Places
        BY <2>4, <3>2 DEF Mutes
      <4>2. <<Parms[Lookup(k)].chip, Parms[Lookup(k)].MuteReg>> = MuteRegister(k)
        BY <2>1, <4>1 DEF LookupFits, Mutes, Places, Lookup, MuteRegister
      <4>3. codecs'[MuteRegister(m)] = codecs[MuteRegister(m)]
        BY <2>3, <2>9, <4>1, <4>2 DEF OutputMuteChanged, TypeOK
      <4>4. muted'[m] = muted[m] /\ muteOff' = muteOff
        BY <2>3, <2>9, <3>2 DEF OutputMuteChanged, TypeOK
      <4>5. QED
        BY <2>7, <4>3, <4>4
    <3>3. QED
      BY <3>1, <3>2
  <2>10. CASE Sleep \/ UNCHANGED vars
    <3>1. muted' = muted /\ muteOff' = muteOff /\ codecs' = codecs
      BY <2>10 DEF Sleep, vars, controls
    <3>2. QED
      BY <2>7, <3>1
  <2>11. CASE Wake
    <3>1. /\ muted' = Unmuted /\ muteOff' = InitialOffs /\ codecs' = FreshCodecs
      BY <2>11 DEF Wake
    <3>2. QED
      BY <2>1, <2>3, <3>1, FreshMutes, CardStays DEF MuteReaches
  <2>12. QED
    BY <2>8, <2>9, <2>10, <2>11 DEF Next
<1>3. MutesOK => SeparateMutesReachTheCodec
  BY DEF MutesOK, SeparateMutesReachTheCodec
<1>4. QED
  BY <1>1, <1>2, <1>3, TypeCorrect, PTL DEF Spec
=============================================================================
