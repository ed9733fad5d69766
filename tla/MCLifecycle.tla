----------------------------- MODULE MCLifecycle -----------------------------
(* Lifecycle on the three kinds of cards card_init tells apart.            *)
EXTENDS Lifecycle

\* Every stage may fail.
AllStages == DeviceStages \cup EngineStages

\* A Revolution or a Phase 22; a Maya44, Prodigy HiFi or Quartet; the others.
MCKinds == {[concurrent |-> {}, codecs |-> TRUE],
            [concurrent |-> {"conc0", "conc1", "conc2"}, codecs |-> FALSE],
            [concurrent |-> {}, codecs |-> FALSE]}
=============================================================================
