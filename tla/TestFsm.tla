------------------------------- MODULE TestFsm -------------------------------
(***************************************************************************)
(* Mersm_Test.c, the machine of one test cycle, with the stages of the     *)
(* leak measurement (Mersm_LeakTest.c) it nests in LOW and HIGH.  Each     *)
(* operator below is one handler of the event interface; MainFsm calls it  *)
(* for the event at the head of the queue.  A reading of an analogue       *)
(* sensor is a nondeterministic choice; the NG bookkeeping of the leak     *)
(* measurement is in module LeakTest.                                      *)
(***************************************************************************)
EXTENDS FsmCore, LeakStages, FiniteSets

VARIABLES
  test,       \* m_stateID
  sub,        \* LeakStateType_t of the running measurement: 0 is SUB_NULL
  stopCount   \* m_stopCount

testVars == <<test, sub, stopCount>>

PreWater  == {"CYL_DOWN", "TOR13", "PRODUCT_TEST", "AIR_PURGE", "AIR_PUMP",
              "IS_DRY"}
Measuring == {"LOW", "HIGH"}
Wet       == {"WATER_IN", "LOW", "ADD_PRES", "HIGH"}
TestStates == PreWater \cup Wet \cup {"STOP", "WATER_EXH", "WATER_PUMP", "CYL_UP"}

\* Mutant: enterCYKINDER_UP starts no timeout.
UpWithoutTimeout(s) ==
  CASE s \in {"CYL_DOWN", "WATER_IN", "WATER_EXH"} -> {"timeout"}
    [] s \in {"STOP", "CYL_UP"} -> {}
    [] OTHER -> {"delay"}

\* Mutants: the exits forget the delay, or the timeout of the cylinder.
DelayRunsOn(s) == IF s \in {"STOP", "WATER_IN"} THEN {} ELSE {"timeout"}
TimeoutRunsOn(s) == IF s \in {"STOP", "CYL_DOWN"} THEN {} ELSE {"delay"}

\* The timer each state entry starts, and those each exit stops.
EntryTimer(s) ==
  CASE s \in {"CYL_DOWN", "CYL_UP", "WATER_IN", "WATER_EXH"} -> {"timeout"}
    [] s = "STOP" -> {}
    [] OTHER      -> {"delay"}
ExitTimers(s) ==
  CASE s \in {"CYL_DOWN", "CYL_UP"}     -> {"timeout"}
    [] s \in {"WATER_IN", "WATER_EXH"}  -> Timers
    [] s = "STOP"                       -> {}
    [] OTHER                            -> {"delay"}

StartAll(t, names) == IF names = {} THEN t
                      ELSE Start(t, CHOOSE n \in names : TRUE)

CylinderOf(s) == IF s \in {"STOP", "CYL_UP"} THEN "up" ELSE "down"

\* Leave the current state and enter s, ending with the alarm words a.
\* enterSTOP also stops the delay timer; entering LOW or HIGH starts the
\* measurement at its first stage, and both are left with the measurement idle.
Enter(s, a) ==
  LET off == Stop(tmr, ExitTimers(test) \cup IF s = "STOP" THEN {"delay"} ELSE {})
  IN  /\ test' = s
      /\ sub' = IF s \in Measuring THEN 1 ELSE 0
      /\ stopCount' = IF s = "STOP" THEN 0 ELSE stopCount
      /\ tmr' = StartAll(off, EntryTimer(s))
      /\ valves' = Drive(valves, CylinderOf(s))
      /\ fill' = (s = "WATER_IN")
      /\ alarm' = a
      /\ blocked' = "no"

\* Mutant: enterSTOP answers nothing.
EndNotAnswered(a) == a

\* enterSTOP answers END to the PLC.
Ended(a) == SetVbStatus(a, "END")

NeedDry(a) == SetVbStatus(SetErrBit(a, "NEED_DRY"), "DRY")

TestIgnores == UNCHANGED <<testVars, blocked, tmr, valves, fill, alarm>>
OnlyAlarm(a) == /\ alarm' = a
                /\ UNCHANGED <<testVars, blocked, tmr, valves, fill>>

\* Mersm_evInit: back from drying or debugging; t is the timer record then.
EvInitAlarm(a) ==
  Ended(Ended(ClearVbStatus(ClearVbStatus(a, "DRY"), "DEBUG")))
TestEvInit(a, t, v) ==
  /\ test' = "STOP" /\ sub' = 0 /\ stopCount' = 0
  /\ tmr' = Stop(t, {"delay"})
  /\ valves' = Drive(v, "up")
  /\ fill' = FALSE
  /\ alarm' = EvInitAlarm(a)

------------------------------------------------------------------------------
(* Mersm_evStart: the sensors are checked, then the cycle starts. *)
Checked(a) ==
  LET g == SetOrClear(a, "GRAT", sens["GRAT"])
      v == SetOrClear(g, "VACUUM", sens["VACUUM"])
      h == SetOrClear(v, "CYL_H", ~sens["H_CYL"])
  IN  SetOrClear(h, "CYL_L", sens["L_CYL"])

TestEvStart ==
  \/ /\ test = "STOP" /\ GetAllErr(Checked(alarm)) = {}
     /\ Enter("CYL_DOWN", SetVbStatus(Checked(alarm), "RUN"))
  \/ /\ test = "STOP" /\ GetAllErr(Checked(alarm)) # {}
     /\ OnlyAlarm(Checked(alarm))
  \/ test # "STOP" /\ TestIgnores

------------------------------------------------------------------------------
(* exitWATER_IN closes the filling valve, waits 700 ms in vTaskDelay and   *)
(* only then stops the timers: other tasks run in between.  `why` says how *)
(* the caller goes on.                                                     *)

\* Mutant: the filling valve is closed only after the wait.
ClosesLater(why, a) == /\ blocked' = why /\ alarm' = a
                       /\ UNCHANGED <<testVars, tmr, valves, fill>>

BeginExitWaterIn(why, a) ==
  /\ blocked' = why
  /\ fill' = FALSE
  /\ alarm' = a
  /\ UNCHANGED <<testVars, tmr, valves>>

EndExitWaterIn ==
  \/ blocked = "stop" /\ Enter("WATER_EXH", alarm)
  \/ /\ blocked = "delayOver" /\ sens["LIQ"]
     /\ Enter("LOW", alarm)
  \/ /\ blocked = "delayOver" /\ ~sens["LIQ"]
     /\ Enter("WATER_EXH", SetErrBit(alarm, "LIQ"))
  \/ /\ blocked = "full"
     /\ Enter("LOW", ClearErrBit(alarm, "WATER_IN_TIME_OUT"))
  \/ blocked = "late" /\ Enter("WATER_EXH", alarm)

------------------------------------------------------------------------------
(* Mersm_evStop *)
BeforeStop == IF "DRY" \in alarm.vb
              THEN ClearErrBit(ClearErrBit(alarm, "NO_PRODUCT"), "NEED_DRY")
              ELSE alarm

\* Mutant: the second stop clears the light curtain's error as well.
ClearsCurtain(a) == SetVbStatus(ClearAllErr(a), "READY")

\* The second stop in a row clears every error but the light curtain's.
SecondStop(a) ==
  SetVbStatus(IF "GRAT" \in GetAllErr(a) THEN SetErrBit(ClearAllErr(a), "GRAT")
                                         ELSE ClearAllErr(a), "READY")
FirstStop(a) ==
  LET c == ClearErrBit(ClearErrBit(ClearErrBit(a, "VACUUM"), "NO_PRODUCT"),
                       "NEED_DRY")
  IN  ClearVbStatus(c, "END")

\* Mutant: the count is not reset by the second stop.
StopCountRunsOn(a) == IF GetAllErr(a) = {} THEN 0 ELSE stopCount + 1

\* The stops counted so far; the count starts again with the second one, or
\* with one that leaves no error.
StopCountAfter(a) ==
  IF stopCount + 1 = 2 \/ GetAllErr(a) = {} THEN 0 ELSE stopCount + 1

StopInStop ==
  /\ test = "STOP"
  /\ LET a == FirstStop(BeforeStop)
     IN  /\ alarm' = IF stopCount + 1 = 2 THEN SecondStop(BeforeStop)
                     ELSE IF GetAllErr(a) = {} THEN SetVbStatus(a, "READY")
                     ELSE a
         /\ stopCount' = StopCountAfter(a)
  /\ UNCHANGED <<test, sub, blocked, tmr, valves, fill>>

TestEvStop ==
  \/ StopInStop
  \/ /\ test \in PreWater \cup {"WATER_EXH", "WATER_PUMP"}
     /\ Enter("CYL_UP", BeforeStop)
  \/ test = "WATER_IN" /\ BeginExitWaterIn("stop", BeforeStop)
  \/ test \in Measuring \cup {"ADD_PRES"} /\ Enter("WATER_EXH", BeforeStop)
  \/ test = "CYL_UP" /\ Enter("STOP", Ended(BeforeStop))

------------------------------------------------------------------------------
(* Mersm_evDelayOver *)

\* The outcome of the check with which the measurement enters stage s: "ok",
\* "dry" (testCondition 1) or "pressure" (testCondition 2, low pressure only).
Conditions(s) ==
  {"ok"} \cup (IF s = 2 THEN (IF test = "LOW" THEN {"pressure"} ELSE {})
               ELSE IF Meas(s) THEN {"dry"} ELSE {})

\* Mutant: a stage is entered without starting its delay.
StageWithoutDelay(s, a) ==
  /\ sub' = s /\ tmr' = Stop(tmr, {"delay"}) /\ valves' = Drive(valves, "down")
  /\ fill' = FALSE /\ alarm' = a
  /\ UNCHANGED <<test, stopCount, blocked>>

\* The measurement goes on with stage s, which sets all valves again.
NextStage(s, a) ==
  /\ sub' = s
  /\ tmr' = Start(Stop(tmr, {"delay"}), "delay")
  /\ valves' = Drive(valves, "down")
  /\ fill' = FALSE
  /\ alarm' = a
  /\ UNCHANGED <<test, stopCount, blocked>>

\* What caclResAndSend may do to the alarm words at the end of stage sub: the
\* second NG of a port in a row (high pressure) asks for drying.
Measured ==
  {alarm} \cup (IF test = "HIGH" /\ Meas(sub)
                THEN {SetErrBit(SetVbStatus(alarm, "DRY"), "NEED_DRY")} ELSE {})

\* Mutant: a failed low-pressure measurement raises the cylinder at once.
OpensWet(cond, allNG, a) ==
  IF cond = "pressure" THEN Enter("CYL_UP", SetErrBit(a, "WATER_PRES"))
                       ELSE Enter("ADD_PRES", a)

\* The low-pressure measurement has ended: with an error, without vacuum or
\* with every port NG the water is drained, else the pressure is raised.
LowEnds(cond, allNG, a) ==
  IF cond = "pressure"
  THEN Enter("WATER_EXH", SetErrBit(a, "WATER_PRES"))
  ELSE IF cond = "dry" \/ allNG \/ sens["VACUUM"]
       THEN Enter("WATER_EXH", NeedDry(a))
       ELSE Enter("ADD_PRES", a)

HighEnds(cond, a) ==
  Enter("WATER_EXH", IF cond = "dry" THEN NeedDry(a) ELSE a)

\* evDelayOver of the leak machine followed by the test of its state.  The
\* last stage checks the chamber pressure itself (testCondition 1).
Measure ==
  /\ test \in Measuring
  /\ \E a \in Measured :
       \/ /\ sub < LastMeas
          /\ \E c \in Conditions(sub + 1) :
               IF c = "ok" THEN NextStage(sub + 1, a)
               ELSE IF test = "LOW" THEN LowEnds(c, FALSE, a) ELSE HighEnds(c, a)
       \/ /\ sub = LastMeas
          /\ \E c \in {"ok", "dry"}, allNG \in BOOLEAN :
               IF test = "LOW" THEN LowEnds(c, allNG, a) ELSE HighEnds(c, a)

Tor13Over ==
  /\ test = "TOR13"
  /\ IF sens["VACUUM"] THEN Enter("CYL_UP", SetErrBit(alarm, "PUMP"))
                       ELSE Enter("PRODUCT_TEST", alarm)

ProductTestOver ==
  /\ test = "PRODUCT_TEST"
  /\ \/ Enter("AIR_PURGE", alarm)
     \/ Enter("CYL_UP", SetErrBit(alarm, "NO_PRODUCT"))

IsDryOver ==
  /\ test = "IS_DRY"
  /\ \/ Enter("WATER_IN", alarm)
     \/ LET a == NeedDry(alarm)
        IN  Enter("CYL_UP", IF sens["LIQ"] THEN SetErrBit(a, "LIQ") ELSE a)

\* The water pressure is read only when the liquid sensor is on.
AddPresOver ==
  /\ test = "ADD_PRES"
  /\ \/ sens["LIQ"] /\ Enter("HIGH", alarm)
     \/ sens["LIQ"] /\ Enter("WATER_EXH", SetErrBit(alarm, "ADD_PRES_TIME_OUT"))
     \/ ~sens["LIQ"] /\ Enter("WATER_EXH", SetErrBit(alarm, "WATER_PRES"))

TestEvDelayOver ==
  \/ Tor13Over
  \/ ProductTestOver
  \/ test = "AIR_PURGE" /\ Enter("AIR_PUMP", alarm)
  \/ test = "AIR_PUMP" /\ Enter("IS_DRY", alarm)
  \/ IsDryOver
  \/ test = "WATER_IN" /\ BeginExitWaterIn("delayOver", alarm)
  \/ Measure
  \/ AddPresOver
  \/ test = "WATER_EXH" /\ Enter("WATER_PUMP", alarm)
  \/ test = "WATER_PUMP" /\ Enter("CYL_UP", alarm)
  \/ test \in {"STOP", "CYL_DOWN", "CYL_UP"} /\ TestIgnores

------------------------------------------------------------------------------
(* Mersm_evLiqSwitch: in WATER_IN the filling delay starts, in WATER_EXH the *)
(* draining delay; later a falling level is a fault.                         *)
TestEvLiqSwitch(on) ==
  \/ /\ test = "WATER_IN" /\ on
     /\ tmr' = Stop(Start(tmr, "delay"), {"timeout"})
     /\ alarm' = ClearErrBit(alarm, "LIQ")
     /\ UNCHANGED <<testVars, blocked, valves, fill>>
  \/ /\ test = "WATER_EXH" /\ ~on
     /\ tmr' = Start(tmr, "delay")
     /\ alarm' = ClearErrBit(alarm, "LIQ")
     /\ UNCHANGED <<testVars, blocked, valves, fill>>
  \/ /\ test \in Measuring \cup {"ADD_PRES"}
     /\ OnlyAlarm(SetOrClear(alarm, "LIQ", ~on))
  \/ test = "STOP" /\ ~on /\ OnlyAlarm(ClearErrBit(alarm, "LIQ"))
  \/ /\ \/ test \in PreWater \cup {"WATER_PUMP", "CYL_UP"}
        \/ test \in {"WATER_EXH", "STOP"} /\ on
        \/ test = "WATER_IN" /\ ~on
     /\ TestIgnores

\* Mersm_evCylPosH and Mersm_evCylPosL: a limit switch is reached.
TestEvCylPosH(on) ==
  IF test = "CYL_UP" /\ on
  THEN Enter("STOP", ClearErrBit(Ended(alarm), "CYL_H"))
  ELSE TestIgnores

TestEvCylPosL(on) ==
  IF test = "CYL_DOWN" /\ on
  THEN Enter("TOR13", ClearErrBit(alarm, "CYL_L"))
  ELSE TestIgnores

------------------------------------------------------------------------------
(* Mersm_evTimeOut *)
AtBottom == ~sens["H_CYL"] /\ sens["L_CYL"]
AtTop    == sens["H_CYL"] /\ ~sens["L_CYL"]

TestEvTimeOut ==
  \/ /\ test = "CYL_DOWN"
     /\ IF AtBottom THEN Enter("TOR13", ClearErrBit(alarm, "CYL_L"))
                    ELSE Enter("CYL_UP", SetErrBit(alarm, "CYL_L"))
  \/ /\ test = "CYL_UP"
     /\ IF AtTop THEN Enter("STOP", ClearErrBit(Ended(alarm), "CYL_H"))
                 ELSE OnlyAlarm(SetErrBit(alarm, "CYL_H"))
  \/ test = "WATER_IN" /\ sens["LIQ"] /\ BeginExitWaterIn("full", alarm)
  \/ /\ test = "WATER_IN" /\ ~sens["LIQ"]
     /\ BeginExitWaterIn("late", SetErrBit(alarm, "WATER_IN_TIME_OUT"))
  \/ test = "WATER_EXH" /\ Enter("WATER_PUMP", alarm)
  \/ /\ test \notin {"CYL_DOWN", "CYL_UP", "WATER_IN", "WATER_EXH"}
     /\ TestIgnores
==============================================================================
