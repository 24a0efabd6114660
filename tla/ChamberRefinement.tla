-------------------------- MODULE ChamberRefinement --------------------------
(***************************************************************************)
(* The state machines of the fsmTask implement the promises of Chamber.    *)
(***************************************************************************)
EXTENDS MainFsm

\* The stage of the chamber that the states of the three machines stand for.
Stage ==
  CASE main = "DRY"  -> "drying"
    [] main \in {"DEBUG", "FAULT"} -> "manual"
    [] OTHER ->
         CASE test = "STOP"      -> "idle"
           [] test \in PreWater  -> "closed"
           [] test \in Wet       -> "wet"
           [] test = "CYL_UP"    -> "opening"
           [] OTHER              -> "draining"

C == INSTANCE Chamber WITH stage <- Stage, inlet <- fill,
                           down <- valves.H, up <- valves.L

\* Every step of the state machines, in any interleaving with sensors, timers,
\* light curtain and operator, is a step the abstract chamber allows
\* (BLL_MainFsm.c:144-318, Mersm_Test.c, Mersm_Dry.c, Mersm_Debug.c).
ImplementsChamber == C!Spec
==============================================================================
