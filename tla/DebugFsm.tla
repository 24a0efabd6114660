------------------------------ MODULE DebugFsm ------------------------------
(***************************************************************************)
(* Mersm_Debug.c, manual operation: the operator sets single valves, and   *)
(* on leaving the mode the cylinder is raised first if it is not up.       *)
(***************************************************************************)
EXTENDS FsmCore

VARIABLE debug   \* m_stateID

DebugStates == {"OFF", "ON", "CYL_UP"}

\* evInit and evStart, called one after the other for EV_DEBUG_MODE.
DebugEvStart ==
  /\ debug' = "ON"
  /\ alarm' = SetVbStatus(alarm, "DEBUG")
  /\ UNCHANGED <<tmr, valves, fill>>

\* Mutant: evStop raises the cylinder with the other valves as they are.
RaiseOnly ==
  /\ debug = "ON" /\ ~sens["H_CYL"] /\ debug' = "CYL_UP"
  /\ tmr' = Start(tmr, "timeout") /\ valves' = Drive(valves, "up")
  /\ UNCHANGED <<alarm, fill>>

\* evStop with the cylinder away from its upper switch: it is raised first.
DebugRaise ==
  /\ debug = "ON" /\ ~sens["H_CYL"]
  /\ debug' = "CYL_UP"
  /\ tmr' = Start(tmr, "timeout")
  /\ valves' = Drive(valves, "up")
  /\ fill' = FALSE
  /\ UNCHANGED alarm

\* evStop that reaches DEBUG_OFF at once, and evCylPosH that does.
\* exitDEBUG_CYL_UP is empty: the timeout timer goes on.
DebugStops    == debug = "CYL_UP" \/ (debug = "ON" /\ sens["H_CYL"])
DebugAtTop(on) == debug = "CYL_UP" /\ on
DebugLeave    == debug' = "OFF"

\* evSetSingleV for one valve; the cylinder valves only if the light curtain
\* is not interrupted.  (Valves other than these three are not modelled.)
DebugEvSetSingleV(v, on) ==
  LET may == debug = "ON" /\ (v = "WATER_IN_V" \/ ~sens["GRAT"])
  IN  /\ valves' = IF may /\ v = "CYL_H_V" THEN SetH(valves, on)
                   ELSE IF may /\ v = "CYL_L_V" THEN SetL(valves, on)
                   ELSE valves
      /\ fill' = IF may /\ v = "WATER_IN_V" THEN on ELSE fill
      /\ UNCHANGED <<debug, tmr, alarm>>
=============================================================================
