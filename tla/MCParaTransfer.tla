--------------------------- MODULE MCParaTransfer ---------------------------
(* Instances of ParaTransfer for TLC. *)
EXTENDS ParaTransfer

\* With two parameter registers: the block, its first register alone, the
\* opening, its high register alone.
SomeRequests == {<<1, 2>>, <<1, 1>>, <<3, 2>>, <<3, 1>>}
==============================================================================
