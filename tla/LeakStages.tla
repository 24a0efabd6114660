----------------------------- MODULE LeakStages -----------------------------
(***************************************************************************)
(* The stages of a leak measurement (LeakStateType_t): 0 is SUB_NULL, 1    *)
(* AIR_PUMP, 2 BALANCE, then MEAS_i and DRY_i in turn for every port; the  *)
(* last port is not followed by a DRY stage.                               *)
(***************************************************************************)
EXTENDS Naturals

CONSTANT Ports   \* measured ports (4 in the code)

ASSUME PortsAssumption == Ports \in Nat \ {0}

SubMax    == 2 * Ports + 2
LastMeas  == SubMax - 1
Meas(s)   == s >= 3 /\ s % 2 = 1

\* The port that stage s measures.
PortOf(s) == (s - 1) \div 2
=============================================================================
