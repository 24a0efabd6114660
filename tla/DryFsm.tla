------------------------------- MODULE DryFsm -------------------------------
(***************************************************************************)
(* Mersm_Dry.c, the machine that dries the chamber: purge and pump until   *)
(* the pressure is low enough, then a leak check.  The mutex around each   *)
(* handler is left out: only the fsmTask calls them.                       *)
(***************************************************************************)
EXTENDS FsmCore

CONSTANT MaxDry   \* pumpings after which a wet chamber is an error (50)

ASSUME DryAssumption == MaxDry \in Nat \ {0}

VARIABLES
  dry,      \* m_stateID
  dryCnt    \* s_dryCnt, counted up to MaxDry (only compared with it)

dryVars == <<dry, dryCnt>>

DryRunning == {"CYL_DOWN", "AIR_PUGE", "AIR_PUMP", "LEAK", "CLY_UP"}
DryStates  == DryRunning \cup {"NULL"}

DryTimer(s) == IF s \in {"CYL_DOWN", "CLY_UP"} THEN "timeout" ELSE "delay"

\* Mutant: the timer of the next state is started before the exit stops it.
StartsBeforeStop(s, a) ==
  /\ dry' = s /\ alarm' = a /\ UNCHANGED dryCnt
  /\ tmr' = Stop(Start(tmr, DryTimer(s)), {DryTimer(dry)})
  /\ valves' = Drive(valves, IF s = "CLY_UP" THEN "up" ELSE "down")
  /\ fill' = FALSE

\* Leave dry and enter the running state s with the alarm words a.
DryEnter(s, a) ==
  LET off == IF dry = "NULL" THEN tmr ELSE Stop(tmr, {DryTimer(dry)})
  IN  /\ dry' = s
      /\ dryCnt' = IF s = "AIR_PUMP" /\ dryCnt < MaxDry THEN dryCnt + 1
                                                        ELSE dryCnt
      /\ tmr' = Start(off, DryTimer(s))
      /\ valves' = Drive(valves, IF s = "CLY_UP" THEN "up" ELSE "down")
      /\ fill' = FALSE
      /\ alarm' = a

DryIgnores == UNCHANGED <<dryVars, tmr, valves, fill, alarm>>

\* Leaving CLY_UP for DRY_NULL; the caller decides what follows.
DryLeave == dry' = "NULL" /\ dryCnt' = 0
DryTimersLeft == Stop(tmr, {"timeout"})

\* evInit and evStart, called one after the other for EV_DRY_MODE (evInit has
\* put the machine in DRY_NULL with s_dryCnt = 0).
DryEvStart ==
  LET a == SetVbStatus(ClearErrBit(alarm, "NEED_DRY"), "RUN")
  IN  /\ dry' = "CYL_DOWN" /\ dryCnt' = 0
      /\ tmr' = Start(tmr, "timeout")
      /\ valves' = Drive(valves, "down")
      /\ fill' = FALSE
      /\ alarm' = a

\* evStop but in CLY_UP, where it ends the machine.
DryEvStop ==
  /\ dry \in DryRunning \ {"CLY_UP"}
  /\ DryEnter("CLY_UP", alarm)

DryEvDelayOver ==
  \/ dry = "AIR_PUGE" /\ DryEnter("AIR_PUMP", alarm)
  \/ dry = "AIR_PUMP" /\ DryEnter("LEAK", alarm)
  \/ dry = "AIR_PUMP" /\ dryCnt >= MaxDry
     /\ DryEnter("CLY_UP", SetErrBit(alarm, "DRY"))
  \/ dry = "AIR_PUMP" /\ dryCnt < MaxDry /\ DryEnter("AIR_PUGE", alarm)
  \/ dry = "LEAK" /\ (DryEnter("CLY_UP", alarm) \/ DryEnter("AIR_PUGE", alarm))
  \/ dry \in {"NULL", "CYL_DOWN", "CLY_UP"} /\ DryIgnores

DryEvCylPosL(on) ==
  IF dry = "CYL_DOWN" /\ on
  THEN DryEnter("AIR_PUGE", ClearErrBit(alarm, "CYL_L"))
  ELSE DryIgnores

\* From CLY_UP the machine goes idle by itself.
DryEvTimeOut ==
  \/ dry = "CYL_DOWN" /\ DryEnter("CLY_UP", SetErrBit(alarm, "CYL_L"))
  \/ /\ dry = "CLY_UP"
     /\ DryLeave
     /\ tmr' = DryTimersLeft
     /\ alarm' = SetErrBit(alarm, "CYL_H")
     /\ UNCHANGED <<valves, fill>>
  \/ dry \notin {"CYL_DOWN", "CLY_UP"} /\ DryIgnores
=============================================================================
