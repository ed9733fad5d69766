----------------------------- MODULE MCCodecBus -----------------------------
(* CodecBus on one card of every kind of wiring, and on the two kinds of   *)
(* cards behind the I2C controller: with one mixer codec and with two.  Of *)
(* every set-up table the first entries, and those of the registers that   *)
(* the mixer writes, so that writes to all chips of a card follow one      *)
(* another in the order that card_init has.                                *)
EXTENDS CodecBus

Controls == INSTANCE ParmLists

MCTables ==
    [Revo71  |-> [Front    |-> <<<<0, 0>>, <<3, 255>>>>,
                  Surround |-> <<<<1, 3>>, <<9, 255>>>>],
     Revo51  |-> [Front    |-> <<<<1, 2>>, <<4, 255>>>>,
                  Rec      |-> <<<<0, 1>>, <<4, 128>>>>,
                  PT2258   |-> <<<<0, 192>>, <<0, 208 * 256 + 224>>>>],
     Phase22 |-> [Front    |-> <<<<3, 25>>, <<4, 128>>>>],
     AP192   |-> [AP192    |-> <<<<2, 78>>, <<4, 255>>>>],
     AureonSpace |-> [AC97   |-> <<<<2, 257>>, <<44, 44100>>>>,
                      Aureon |-> <<<<24, 0>>, <<9, 511>>>>,
                      CS8415 |-> <<<<4, 65>>, <<1, 128>>>>],
     ProdigyHD2  |-> [AK4396 |-> <<<<0, 134>>, <<1, 2>>, <<3, 255>>>>],
     Julia   |-> [AK4358 |-> <<<<1, 2>>, <<4, 255>>>>,
                  AK4114 |-> <<<<0, 15>>>>],
     Maya44  |-> <<>>]

MCTargets ==
    [Revo71  |-> {<<"Front", 3>>, <<"Surround", 9>>},
     Revo51  |-> {<<"Front", 4>>, <<"Rec", 4>>},
     Phase22 |-> {<<"Front", 3>>, <<"Front", 4>>},
     AP192   |-> {<<"AP192", 4>>, <<"AP192", 5>>},
     AureonSpace |-> {<<"Aureon", 9>>, <<"Aureon", 20>>},
     ProdigyHD2  |-> {},
     Julia   |-> {<<"AK4358", 4>>},
     Maya44  |-> {<<"WM_DEV_MAYA44_1", 7>>, <<"WM_DEV_MAYA44_2", 7>>}]

\* Two bytes that differ from each other, and from themselves read backwards;
\* on the Aureon two nine-bit values.
MCDataFor ==
    [c \in DOMAIN MCTargets |->
        IF c = "AureonSpace" THEN {25, 420} ELSE {25, 164}]

\* Two bytes of the four.
MCEeprom == <<17, 69>>

ASSUME TargetsAreInTheTables ==
    \A c \in DOMAIN MCTargets : \A t \in MCTargets[c] :
        \E i \in DOMAIN Controls!CreateParms[c] :
            LET p == Controls!CreateParms[c][i]
            IN  t[1] = p.chip /\ t[2] \in {p.reg, p.MuteReg}

=============================================================================
