------------------------------ MODULE ParmLists ------------------------------
(***************************************************************************)
(* The mixer tables of the driver: the list of Parm structures that        *)
(* card_init hangs on card->ParmList, one list per card (src/misc.cpp,     *)
(* CreateParmsFor...).  A Parm describes a volume control, an output mute  *)
(* control, or both, and the codec registers behind them.                  *)
(***************************************************************************)
EXTENDS Integers, Sequences

NoCodec == "none"

(* A Parm without a mute: a volume control with ControlID id between min   *)
(* and max, for register reg of a codec.  type is p->codec->type, NoCodec  *)
(* where p->codec is NULL; chip names the physical chip that is addressed. *)
Volume(id, chip, type, reg, init, min, max) ==
    [ControlID |-> id, chip |-> chip, type |-> type, I2C |-> FALSE,
     reg |-> reg, InitialValue |-> init, MinValue |-> min, MaxValue |-> max,
     hasControl |-> TRUE, HasMute |-> FALSE, usesUnmuteVolumeReset |-> FALSE,
     MuteReg |-> reg, MuteOnVal |-> 0, MuteOffVal |-> 0]

OnI2C(p) == [p EXCEPT !.I2C = TRUE]

WithMute(p, reg, on, off) ==
    [p EXCEPT !.HasMute = TRUE, !.MuteReg = reg, !.MuteOnVal = on,
              !.MuteOffVal = off]

\* A Parm that is there for its mute only.
MuteOnly(p) == [p EXCEPT !.hasControl = FALSE]

-----------------------------------------------------------------------------
(* Wolfson DACs on the hardware I2C bus: muting is volume 0 in the same    *)
(* register, and unmuting writes back the last volume.                     *)
DAC_MIN == 127
WM_VOL_MAX == 255

WM8776(id, chip, reg) ==
    LET p == Volume(id, chip, NoCodec, reg,
                    (WM_VOL_MAX - (DAC_MIN + 1)) \div 2, DAC_MIN + 1, WM_VOL_MAX)
    IN  [WithMute(OnI2C(p), reg, 0, DAC_MIN + 1)
            EXCEPT !.usesUnmuteVolumeReset = TRUE]

ProdigyHiFi == << WM8776(0, "WM_DEV", 7), WM8776(1, "WM_DEV", 9) >>

Maya44 == << WM8776(0, "WM_DEV_MAYA44_1", 7), WM8776(1, "WM_DEV_MAYA44_1", 9),
             WM8776(2, "WM_DEV_MAYA44_2", 7), WM8776(3, "WM_DEV_MAYA44_2", 9) >>

Julia ==
    LET Out(id, reg) == OnI2C(Volume(id, "AK4358", NoCodec, reg, 127, 14, 127))
    IN  << WithMute(Out(0, 4), 1, 3, 1), Out(1, 5) >>

-----------------------------------------------------------------------------
(* AKM codecs bit-banged over GPIO *)

Phase22 ==
    LET Out(id, reg) == Volume(id, "Front", "AKM4524", reg, 126, 14, 126)
        In(id, reg)  == Volume(id, "Front", "AKM4524", reg, 128, 128, 164)
    IN  << MuteOnly(WithMute(Out(0, 6), 3, 153, 25)),
           Out(0, 6), Out(1, 7), In(2, 4), In(3, 5) >>

Revo71Front ==
    LET Out(id, reg) == Volume(id, "Front", "AKM4381", reg, 255, 1, 255)
    IN  << MuteOnly(WithMute(Out(0, 3), 1, 11, 10)), Out(0, 3), Out(1, 4) >>

Revo71Surround ==
    LET Out(id, reg) == Volume(id, "Surround", "AKM4355", reg, 255, 159, 255)
    IN  << Out(2, 4), Out(3, 4), Out(4, 6), Out(5, 7), Out(6, 8), Out(7, 9) >>

Revo71 == Revo71Front \o Revo71Surround

Revo51Outputs ==
    LET Out(id, reg) == Volume(id, "Front", "AKM4358", reg, 127, 67, 127)
    IN  << MuteOnly(WithMute(Out(0, 4), 1, 3, 1)),
           Out(0, 4), Out(1, 5), Out(2, 6), Out(3, 7), Out(4, 8), Out(5, 9) >>

Revo51Inputs ==
    LET In(id, reg) == Volume(id, "Rec", "AKM5365", reg, 128, 128, 152)
    IN  << In(6, 4), In(7, 5) >>

Revo51 == Revo51Outputs \o Revo51Inputs

-----------------------------------------------------------------------------
(* Codecs behind a bus of their own *)

AP192 ==
    LET Out(id, reg) == Volume(id, "AP192", NoCodec, reg, 127, 0, 127)
    IN  << MuteOnly(WithMute(Out(0, 4), 4, 128, 0)), Out(0, 4), Out(1, 5) >>

AureonOut(id, reg) == Volume(id, "Aureon", NoCodec, reg, 255, 185, 255)

AureonMute(p) == WithMute(p, 20, 1, 0)

\* The mute Parm and outputs three to seven.
AureonSurround ==
    << MuteOnly(AureonMute(AureonOut(1, 10))),
       AureonOut(2, 11), AureonOut(3, 12), AureonOut(4, 13),
       AureonOut(5, 14), AureonOut(6, 15) >>

\* The Parm of the eighth output is filled in and then, with no new Parm,
\* overwritten with the left output's fields.
AureonFront == << AureonMute(AureonOut(0, 9)), AureonOut(1, 10) >>

AureonInputs ==
    LET In(id, reg) == Volume(id, "Aureon", NoCodec, reg, 12, 0, 31)
    IN  << In(8, 25), In(9, 26) >>

AureonSpace == AureonSurround \o AureonFront \o AureonInputs

-----------------------------------------------------------------------------
\* The list card_init gives each card.
CreateParms ==
    [ProdigyHiFi |-> ProdigyHiFi, Maya44 |-> Maya44, Julia |-> Julia,
     Phase22 |-> Phase22, Revo71 |-> Revo71, Revo51 |-> Revo51,
     AP192 |-> AP192, AureonSpace |-> AureonSpace]
=============================================================================
