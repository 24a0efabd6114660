---------------------------- MODULE MCCoilMirror ----------------------------
(* Instances of CoilMirror for TLC. *)
EXTENDS CoilMirror

\* Two blocks the PLC may write: thirteen valve coils, both command coils.
SomeBlocks == {<<8, 13>>, <<32, 2>>}
ValveBlock == {<<0, 9>>}
NoBlocks   == {}
==============================================================================
