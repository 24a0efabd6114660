------------------------------- MODULE MainFsm -------------------------------
(***************************************************************************)
(* BLL_MainFsm.c: the fsmTask takes one event at a time from s_fsmQ and    *)
(* hands it to the sub-machine of the main state: testing, drying or       *)
(* debugging.  The composition of FsmCore, TestFsm, DryFsm and DebugFsm.   *)
(***************************************************************************)
EXTENDS TestFsm, DryFsm, DebugFsm

vars == <<sharedVars, inputVars, testVars, dryVars, debug>>

NoGrat == ~sens["GRAT"]

\* The state the machine is in, for the tag of timer events.
Phase == CASE main = "TEST" -> test [] main = "DRY" -> dry [] OTHER -> debug

\* The main state machine goes back to the test machine, with the alarm words,
\* timers and valves the sub-machine has left.
BackToTest(a, t) == main' = "TEST" /\ blocked' = "no" /\ TestEvInit(a, t, valves)

\* One sub-machine handles the event, the others keep their state.
ByTest(handler)  == /\ main = "TEST" /\ handler /\ UNCHANGED <<main, dryVars, debug>>
ByDry(handler)   == /\ main = "DRY" /\ handler
                    /\ UNCHANGED <<main, blocked, testVars, debug>>
ByDebug(handler) == /\ main = "DEBUG" /\ handler
                    /\ UNCHANGED <<main, blocked, testVars, dryVars>>

Ignored == UNCHANGED <<sharedVars, testVars, dryVars, debug>>

------------------------------------------------------------------------------
EvStart == /\ Receive("EV_START")
           /\ \/ ByTest(TestEvStart)
              \/ main # "TEST" /\ Ignored

\* Drying that is idle after its stop (or was idle before) gives way to the
\* test machine.
DryStopped == /\ main = "DRY" /\ dry \in {"CLY_UP", "NULL"}
              /\ DryLeave /\ UNCHANGED debug
              /\ BackToTest(alarm, IF dry = "CLY_UP" THEN DryTimersLeft ELSE tmr)

EvStop == /\ Receive("EV_STOP")
          /\ \/ ByTest(TestEvStop)
             \/ NoGrat /\ (ByDry(DryEvStop) \/ DryStopped)
             \/ main = "DRY" /\ ~NoGrat /\ Ignored
             \/ main = "DEBUG" /\ Ignored

EvDelayOver == /\ Receive("EV_DELAY_OVER")
               /\ \/ ByTest(TestEvDelayOver)
                  \/ ByDry(DryEvDelayOver)
                  \/ main = "DEBUG" /\ Ignored

EvLiqSwitch == /\ Receive("EV_LIQ_SWITCH")
               /\ \/ ByTest(TestEvLiqSwitch(On))
                  \/ main # "TEST" /\ Ignored

EvVacuum == /\ Receive("EV_VACUUM")
            /\ alarm' = IF On THEN alarm ELSE ClearErrBit(alarm, "VACUUM")
            /\ UNCHANGED <<main, blocked, tmr, valves, fill, testVars, dryVars, debug>>

EvCylPosH ==
  /\ Receive("EV_CYL_POS_H")
  /\ \/ ByTest(TestEvCylPosH(On))
     \/ NoGrat /\ DryStopped /\ (dry = "CLY_UP" => On)
     \/ NoGrat /\ main = "DEBUG" /\ DebugAtTop(On)
        /\ DebugLeave /\ BackToTest(alarm, tmr) /\ UNCHANGED dryVars
     \/ /\ \/ main # "TEST" /\ ~NoGrat
           \/ main = "DRY" /\ dry \notin {"CLY_UP", "NULL"}
           \/ main = "DRY" /\ dry = "CLY_UP" /\ ~On
           \/ main = "DEBUG" /\ ~DebugAtTop(On)
        /\ Ignored

EvCylPosL == /\ Receive("EV_CYL_POS_L")
             /\ \/ ByTest(TestEvCylPosL(On))
                \/ ByDry(DryEvCylPosL(On))
                \/ main = "DEBUG" /\ Ignored

EvGrat == /\ Receive("EV_GRAT")
          /\ IF On THEN valves' = TrigOn(valves) /\ alarm' = SetErrBit(alarm, "GRAT")
                   ELSE valves' = TrigOff(valves) /\ alarm' = ClearErrBit(alarm, "GRAT")
          /\ UNCHANGED <<main, blocked, tmr, fill, testVars, dryVars, debug>>

\* Mutant: the mode changes do not look at the state of the test.
AnyTestState == main = "TEST"

Standby == main = "TEST" /\ test = "STOP"

EvDryMode ==
  /\ Receive("EV_DRY_MODE")
  /\ \/ /\ Standby /\ NoGrat
        /\ main' = "DRY" /\ DryEvStart
        /\ UNCHANGED <<blocked, testVars, debug>>
     \/ ~(Standby /\ NoGrat) /\ Ignored

EvDebugMode ==
  /\ Receive("EV_DEBUG_MODE")
  /\ \/ /\ Standby /\ NoGrat
        /\ main' = "DEBUG" /\ DebugEvStart
        /\ UNCHANGED <<blocked, testVars, dryVars>>
     \/ NoGrat /\ ByDebug(DebugRaise)
     \/ NoGrat /\ main = "DEBUG" /\ DebugStops
        /\ DebugLeave /\ BackToTest(alarm, tmr) /\ UNCHANGED dryVars
     \/ ~(Standby /\ NoGrat) /\ (main = "DEBUG" => ~NoGrat) /\ Ignored

\* its_pSubDebug->evTimeout is never assigned: the call goes to address 0 and
\* the processor faults.
EvTimeOut ==
  /\ Receive("EV_TIME_OUT")
  /\ \/ ByTest(TestEvTimeOut)
     \/ ByDry(DryEvTimeOut)
     \/ /\ main = "DEBUG"
        /\ main' = "FAULT"
        /\ UNCHANGED <<blocked, tmr, valves, fill, alarm, testVars, dryVars, debug>>

EvSetSigV == /\ Receive("EV_SET_SIG_V")
             /\ \/ ByDebug(DebugEvSetSingleV(Arg, On))
                \/ main # "DEBUG" /\ Ignored

\* The task resumes in the middle of the handler that left WATER_IN.
Resume == /\ blocked # "no"
          /\ EndExitWaterIn
          /\ UNCHANGED <<main, inputVars, dryVars, debug>>

Dispatch == \/ EvStart \/ EvStop \/ EvDelayOver \/ EvLiqSwitch \/ EvVacuum
            \/ EvCylPosH \/ EvCylPosL \/ EvGrat \/ EvDryMode \/ EvDebugMode
            \/ EvTimeOut \/ EvSetSigV \/ Resume

------------------------------------------------------------------------------
SensorTask  == \E s \in Flipping : SensorChange(s)
TimerTask   == \E t \in Timers : Expire(t, Phase)
NetworkTask == \/ \E c \in Commands, on \in BOOLEAN : Command(c, on)
               \/ \E v \in Coils, on \in BOOLEAN : SetCoil(v, on)

Environment == /\ main # "FAULT"
               /\ SensorTask \/ TimerTask \/ NetworkTask
               /\ UNCHANGED <<testVars, dryVars, debug>>

\* Mersm_init, with the sensors as they are found: a change the sensor timer saw
\* before the callback was registered has not become an event.
Init ==
  /\ main = "TEST" /\ blocked = "no"
  /\ test = "STOP" /\ sub = 0 /\ stopCount = 0
  /\ dry = "NULL" /\ dryCnt = 0 /\ debug = "OFF"
  /\ tmr = TimersOff
  /\ valves = Drive(ValvesOff, "up") /\ fill = FALSE
  /\ alarm = EvInitAlarm(NoAlarm)
  /\ q = <<>> /\ lost = FALSE
  /\ \E on \in SUBSET Found : sens = [s \in Sensors |-> s \in on]

Next == Dispatch \/ Environment

Spec == Init /\ [][Next]_vars

\* The timers run and the fsmTask gets the processor: of all its tasks only the
\* timer service has a higher priority, and it never waits.
FairSpec == /\ Spec
            /\ WF_vars(Dispatch)
            /\ \A t \in Timers :
                 WF_vars(main # "FAULT" /\ Expire(t, Phase)
                         /\ UNCHANGED <<testVars, dryVars, debug>>)
------------------------------------------------------------------------------
(* Properties *)

Args == TestStates \cup DryStates \cup DebugStates \cup SingleValves \cup {""}

EventNames == AllCommands \cup {SensorEvent[s] : s \in Sensors}
              \cup {TimerEvent[t] : t \in Timers} \cup {"EV_SET_SIG_V"}

\* Every variable holds a value of its C type.
TypeOK ==
  /\ main \in {"TEST", "DRY", "DEBUG", "FAULT"}
  /\ blocked \in {"no", "stop", "delayOver", "full", "late"}
  /\ test \in TestStates /\ sub \in 0..LastMeas /\ stopCount \in 0..1
  /\ dry \in DryStates /\ dryCnt \in 0..MaxDry /\ debug \in DebugStates
  /\ tmr \in TimerStates /\ valves \in Valves /\ fill \in BOOLEAN
  /\ alarm \in Alarms
  /\ q \in Seq([ev : EventNames, arg : Args, on : BOOLEAN]) /\ Len(q) <= QueueLen
  /\ lost \in BOOLEAN /\ sens \in [Sensors -> BOOLEAN]

\* The main state and the states of its sub-machines agree: a machine that is
\* not the current one is idle, the measurement runs only in LOW and HIGH, and
\* only WATER_IN waits inside a handler (BLL_MainFsm.c:144-318).
ModesAgree ==
  /\ main # "TEST" => test = "STOP"
  /\ main # "DRY" => dry = "NULL"
  /\ main \in {"TEST", "DRY"} <=> debug = "OFF"
  /\ sub # 0 <=> test \in Measuring
  /\ blocked # "no" => test = "WATER_IN" /\ main = "TEST"

Queued(name) == \E i \in 1..Len(q) : q[i].ev = name

Awaits(t) == t \in tmr.run \/ Queued(TimerEvent[t])

\* No lost wake-up: unless an event was dropped, every state that ends with a
\* timer has the timer running or its event in the queue; a rising cylinder may
\* also have reported that it did not arrive (FML_DelayTime.c, enter* and exit*).
NoLostWakeup ==
  lost \/
  /\ (main = "TEST" /\ test \in {"CYL_DOWN", "WATER_EXH"}) => Awaits("timeout")
  /\ (main = "TEST" /\ test = "WATER_IN")
       => Awaits("timeout") \/ Awaits("delay") \/ blocked # "no"
  /\ (main = "TEST" /\ EntryTimer(test) = {"delay"}) => Awaits("delay")
  /\ (main = "TEST" /\ test = "CYL_UP") => Awaits("timeout") \/ "CYL_H" \in alarm.err
  /\ (main = "DRY" /\ dry # "NULL") => Awaits(DryTimer(dry))
  /\ (main = "DEBUG" /\ debug = "CYL_UP") => Awaits("timeout")

\* No timer runs on in a state that did not start it (enter* and exit* of
\* Mersm_Test.c and Mersm_Dry.c), as long as the debug mode is not used: that may
\* be left while the cylinder rises, with its timeout running.
TimersOwned ==
  /\ "delay" \in tmr.run =>
       \/ main = "TEST" /\ (EntryTimer(test) = {"delay"} \/ test \in {"WATER_IN", "WATER_EXH"})
       \/ main = "DRY" /\ dry \in {"AIR_PUGE", "AIR_PUMP", "LEAK"}
  /\ "timeout" \in tmr.run =>
       \/ main = "TEST" /\ test \in {"CYL_DOWN", "WATER_IN", "WATER_EXH", "CYL_UP"}
       \/ main = "DRY" /\ dry \in {"CYL_DOWN", "CLY_UP"}

\* Water is let in only while WATER_IN fills, or by the operator in debug mode:
\* no path through stop, timeout, sensor fault or mode change leaves the filling
\* valve open (exitWATER_IN, Mersm_Test.c:1135).
FillOnlyInWaterIn ==
  fill => (main = "TEST" /\ test = "WATER_IN" /\ blocked = "no") \/ debug = "ON"

\* The direction of the cylinder in the current phase.
Direction == IF main = "TEST" THEN CylinderOf(test)
             ELSE IF dry \in {"CLY_UP", "NULL"} THEN "up" ELSE "down"

\* The light curtain releases the cylinder in the direction of the current phase
\* or not at all: a position saved before the phase changed is never applied
\* (FML_Grat.c:74, FML_ExtValve.c:101).
NeverAgainstPhase ==
  main \in {"TEST", "DRY"} =>
    /\ valves.H \/ valves.savedH => Direction = "down"
    /\ valves.L \/ valves.savedL => Direction = "up"

\* While the light curtain is locked both cylinder outputs are off, and a
\* position is remembered only as long as the lock holds (FML_Grat.c:58-84).
LockConsistent == /\ valves.trig => ~valves.H /\ ~valves.L
                  /\ ~valves.trig => ~valves.savedH /\ ~valves.savedL

\* The cylinder is driven down into an interrupted light curtain only until the
\* event of the interruption is taken from the queue: through timer events,
\* stops, restarts and the 700 ms wait of exitWATER_IN (FML_Grat.c:58).
CurtainStops == valves.H /\ sens["GRAT"] => Queued("EV_GRAT") \/ lost

\* A locked cylinder is reported to the operator, whatever clears errors in
\* between, until the event that unlocks it is on its way (BLL_MainFsm.c:228).
LockReported == valves.trig /\ "GRAT" \notin alarm.err => Queued("EV_GRAT") \/ lost

\* The status word the PLC reads tells the truth: the error status is shown
\* exactly while an error is recorded, RUN exactly while a cycle or the drying
\* runs, and READY with neither RUN, END nor DEBUG (BLL_Alarm.c:158-221).  So it is
\* between handlers; enterSTOP keeps the old bits during its two waits.
StatusTruthful ==
  /\ "ERR" \in alarm.vb <=> alarm.err # {}
  /\ main = "TEST" => ("RUN" \in alarm.vb <=> test # "STOP")
  /\ main = "DRY" => "RUN" \in alarm.vb
  /\ "READY" \in alarm.vb => alarm.vb \cap {"RUN", "END", "DEBUG"} = {}

\* READY is never shown while drying is asked for.
ReadyNotWet == ~({"READY", "DRY"} \subseteq alarm.vb)

\* Whatever event comes, a state with water in the chamber is left only for another
\* one or for WATER_EXH, the state that drains, never for one that moves the
\* cylinder; and the main state changes only at standby.  Nothing is said of how
\* WATER_EXH ends: a stop there raises the cylinder with the chamber undrained
\* (Mersm_Test.c:283-310; 311-315).
DrainFirst ==
  [][/\ test \in Wet /\ test' # test => test' \in Wet \cup {"WATER_EXH"}
     /\ main' # main => test = "STOP" /\ test' = "STOP"]_vars

\* A test cycle ends at standby, or with the report that the cylinder did not
\* come up, unless an event was dropped.
CycleEnds ==
  (main = "TEST" /\ test # "STOP")
    ~> (test = "STOP" \/ "CYL_H" \in alarm.err \/ lost)
==============================================================================
