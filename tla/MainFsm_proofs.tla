--------------------------- MODULE MainFsm_proofs ---------------------------
(***************************************************************************)
(* What the fsmTask keeps for every queue length, every set of commands,   *)
(* coils and sensors, any number of ports and any drying limit.            *)
(*                                                                         *)
(* Part 1: the type invariant and the invariants of the chamber: the drive *)
(* of the cylinder, the filling valve, the lock, the queue.                *)
(* Part 2: what the fsmTask promises over several events: the status word  *)
(* is true, the light curtain stops the cylinder and is reported, no       *)
(* wake-up is lost, no timer outlives its state, water is drained first.   *)
(* Part 3: the state machines implement the abstract chamber.              *)
(*                                                                         *)
(* Each part has one lemma per handler, which says what the handler does,  *)
(* and proofs of the promises with one step for each way an event can be   *)
(* handled.                                                                *)
(***************************************************************************)
EXTENDS ChamberRefinement, TLAPS

-----------------------------------------------------------------------------
(* Part 1: types and the invariants of the chamber. *)

(***************************************************************************)
(* The operators the handlers of all three machines are built from: the    *)
(* flag words, the valves under the light-curtain lock, the delay timers.  *)
(***************************************************************************)

\* The status calls of BLL_Alarm.c keep the status word a set of known bits.
LEMMA StatusTyped ==
  ASSUME NEW a \in Alarms, NEW t \in VbStatus
  PROVE  /\ SetVbStatus(a, t) \in Alarms
         /\ ClearVbStatus(a, t) \in Alarms
         /\ SetVbStatus(a, t).err = a.err
         /\ ClearVbStatus(a, t).err = a.err
<1>1. Supersedes[t] \subseteq VbStatus
  BY DEF Supersedes, VbStatus
<1>2. QED
  BY <1>1 DEF SetVbStatus, ClearVbStatus, Alarms, VbStatus

\* The error calls of BLL_Alarm.c keep both flag words sets of known bits.
LEMMA ErrorsTyped ==
  ASSUME NEW a \in Alarms, NEW e \in Errors
  PROVE  /\ SetErrBit(a, e) \in Alarms
         /\ ClearErrBit(a, e) \in Alarms
         /\ ClearAllErr(a) \in Alarms
         /\ \A bad \in BOOLEAN : SetOrClear(a, e, bad) \in Alarms
<1>1. "ERR" \in VbStatus
  BY DEF VbStatus
<1>2. [a EXCEPT !.err = @ \cup {e}] \in Alarms
  BY DEF Alarms
<1>3. SetErrBit(a, e) \in Alarms
  BY <1>1, <1>2, StatusTyped DEF SetErrBit
<1>4. ASSUME NEW b \in Alarms PROVE DropErrStatus(b) \in Alarms
  BY <1>1, <1>4, StatusTyped DEF DropErrStatus
<1>5. [a EXCEPT !.err = @ \ {e}] \in Alarms /\ [a EXCEPT !.err = {}] \in Alarms
  BY DEF Alarms
<1>6. ClearErrBit(a, e) \in Alarms /\ ClearAllErr(a) \in Alarms
  BY <1>4, <1>5 DEF ClearErrBit, ClearAllErr
<1>7. QED
  BY <1>3, <1>6 DEF SetOrClear

\* The valve calls of FML_ExtValve.c and FML_Grat.c keep the lock record.
LEMMA LockTyped ==
  ASSUME NEW v \in Valves
  PROVE  /\ \A on \in BOOLEAN : SetH(v, on) \in Valves /\ SetL(v, on) \in Valves
         /\ \A pos : Drive(v, pos) \in Valves
         /\ TrigOn(v) \in Valves /\ TrigOff(v) \in Valves
<1>1. ASSUME NEW w \in Valves, NEW on \in BOOLEAN
      PROVE  SetH(w, on) \in Valves /\ SetL(w, on) \in Valves
  BY <1>1 DEF SetH, SetL, Valves
<1>2. ASSUME NEW pos PROVE Drive(v, pos) \in Valves
  BY <1>1 DEF Drive
<1>3. TrigOn(v) \in Valves
  <2>1. [v EXCEPT !.savedH = v.H, !.savedL = v.L] \in Valves
    BY DEF Valves
  <2>2. ASSUME NEW w \in Valves PROVE [w EXCEPT !.trig = TRUE] \in Valves
    BY <2>2 DEF Valves
  <2>3. QED
    BY <1>1, <2>1, <2>2 DEF TrigOn
<1>4. TrigOff(v) \in Valves
  <2>1. [v EXCEPT !.trig = FALSE] \in Valves /\ v.savedH \in BOOLEAN /\ v.savedL \in BOOLEAN
    BY DEF Valves
  <2>2. ASSUME NEW w \in Valves
        PROVE  [w EXCEPT !.savedH = FALSE, !.savedL = FALSE] \in Valves
    BY <2>2 DEF Valves
  <2>3. QED
    BY <1>1, <2>1, <2>2 DEF TrigOff
<1>5. QED
  BY <1>1, <1>2, <1>3, <1>4

\* setDelayTime and delayTimerCb keep the timer record.
LEMMA TimersTyped ==
  ASSUME NEW t \in TimerStates
  PROVE  /\ \A name \in Timers : Start(t, name) \in TimerStates
         /\ \A names : Stop(t, names) \in TimerStates
  BY DEF Start, Stop, TimerStates

(***************************************************************************)
(* The light-curtain lock.                                                 *)
(***************************************************************************)

\* A locked pair of outputs is off; an unlocked one remembers nothing.
Locks(v) == /\ v.trig => ~v.H /\ ~v.L
            /\ ~v.trig => ~v.savedH /\ ~v.savedL

\* Neither an output nor a remembered position drives against direction dir.
Follows(v, dir) == /\ v.H \/ v.savedH => dir = "down"
                   /\ v.L \/ v.savedL => dir = "up"

\* Setting one output keeps the lock (valve_setVal, FML_ExtValve.c:101).
LEMMA SetLocks ==
  ASSUME NEW v \in Valves, Locks(v), NEW on \in BOOLEAN
  PROVE  Locks(SetH(v, on)) /\ Locks(SetL(v, on))
  BY DEF Locks, SetH, SetL, Valves

\* A state entry keeps the lock, and afterwards everything follows the
\* direction of the state: a locked entry forgets an older position.
LEMMA DriveFollows ==
  ASSUME NEW v \in Valves, Locks(v), NEW pos \in {"up", "down"}
  PROVE  Locks(Drive(v, pos)) /\ Follows(Drive(v, pos), pos)
<1> DEFINE w == SetH(v, pos = "down")
<1>1. w \in Valves /\ Locks(w)
  BY LockTyped, SetLocks
<1>2. Locks(Drive(v, pos))
  BY <1>1, SetLocks DEF Drive
<1>3. CASE v.trig
  BY <1>3 DEF Follows, Locks, Drive, SetH, SetL, Valves
<1>4. CASE ~v.trig
  BY <1>4 DEF Follows, Locks, Drive, SetH, SetL, Valves
<1>5. QED
  BY <1>2, <1>3, <1>4

\* The curtain that triggers locks both outputs and remembers only what was
\* driven (FML_Grat.c:58).
LEMMA TrigOnFollows ==
  ASSUME NEW v \in Valves, Locks(v)
  PROVE  /\ Locks(TrigOn(v))
         /\ \A dir : Follows(v, dir) => Follows(TrigOn(v), dir)
<1> DEFINE s == [v EXCEPT !.savedH = v.H, !.savedL = v.L]
           w == SetL(SetH(s, FALSE), FALSE)
<1>1. s \in Valves
  BY DEF Valves
<1>2. /\ w \in Valves /\ ~w.H /\ ~w.L
      /\ w.savedH => v.H
      /\ w.savedL => v.L
  BY <1>1 DEF SetH, SetL, Valves, Locks
<1>3. TrigOn(v) = [w EXCEPT !.trig = TRUE]
  BY DEF TrigOn
<1> HIDE DEF w
<1>4. /\ TrigOn(v).H = w.H /\ TrigOn(v).savedH = w.savedH
      /\ TrigOn(v).L = w.L /\ TrigOn(v).savedL = w.savedL /\ TrigOn(v).trig
  BY <1>2, <1>3 DEF Valves
<1>5. QED
  BY <1>2, <1>4 DEF Locks, Follows, Valves

\* The curtain that clears gives back what was remembered, and forgets it
\* (FML_Grat.c:74).
LEMMA TrigOffFollows ==
  ASSUME NEW v \in Valves, Locks(v)
  PROVE  /\ Locks(TrigOff(v))
         /\ \A dir : Follows(v, dir) => Follows(TrigOff(v), dir)
<1> DEFINE f == [v EXCEPT !.trig = FALSE]
           w == SetL(SetH(f, v.savedH), v.savedL)
<1>1. f \in Valves /\ ~f.trig /\ v.savedH \in BOOLEAN /\ v.savedL \in BOOLEAN
  BY DEF Valves
<1>2. w \in Valves /\ ~w.trig /\ w.H = v.savedH /\ w.L = v.savedL
  BY <1>1 DEF SetH, SetL, Valves
<1>3. TrigOff(v) = [w EXCEPT !.savedH = FALSE, !.savedL = FALSE]
  BY DEF TrigOff
<1> HIDE DEF w
<1>4. QED
  BY <1>2, <1>3 DEF Locks, Follows, Valves

(***************************************************************************)
(* The alarm words the handlers of the test machine leave.                 *)
(***************************************************************************)

\* The bits the handlers name are bits of the two words.
LEMMA NamedBits ==
  /\ {"READY", "RUN", "ERR", "END", "DEBUG", "DRY"} = VbStatus
  /\ {"VACUUM", "NO_PRODUCT", "WATER_PRES", "WATER_IN_TIME_OUT",
      "ADD_PRES_TIME_OUT", "GRAT", "PUMP", "CYL_L", "CYL_H", "LIQ",
      "NEED_DRY", "DRY"} = Errors
  BY DEF VbStatus, Errors

\* The combined alarm calls of Mersm_Test.c return alarm words.
LEMMA TestAlarms ==
  ASSUME NEW a \in Alarms
  PROVE  /\ Ended(a) \in Alarms /\ NeedDry(a) \in Alarms
         /\ EvInitAlarm(a) \in Alarms
         /\ FirstStop(a) \in Alarms /\ SecondStop(a) \in Alarms
<1>1. \A b \in Alarms : Ended(b) \in Alarms
  BY StatusTyped, NamedBits DEF Ended
<1>2. NeedDry(a) \in Alarms
  BY StatusTyped, ErrorsTyped, NamedBits DEF NeedDry
<1>3. EvInitAlarm(a) \in Alarms
  BY <1>1, StatusTyped, NamedBits DEF EvInitAlarm
<1>4. FirstStop(a) \in Alarms
  BY StatusTyped, ErrorsTyped, NamedBits DEF FirstStop
<1>5. SecondStop(a) \in Alarms
  BY StatusTyped, ErrorsTyped, NamedBits DEF SecondStop
<1>6. QED
  BY <1>1, <1>2, <1>3, <1>4, <1>5

\* The sensor checks of Mersm_evStart return alarm words.
LEMMA CheckedTyped ==
  ASSUME NEW a \in Alarms, sens \in [Sensors -> BOOLEAN]
  PROVE  Checked(a) \in Alarms
<1>1. /\ sens["GRAT"] \in BOOLEAN /\ sens["VACUUM"] \in BOOLEAN
      /\ sens["H_CYL"] \in BOOLEAN /\ sens["L_CYL"] \in BOOLEAN
  BY DEF Sensors
<1>2. \A b \in Alarms, e \in Errors, bad \in BOOLEAN : SetOrClear(b, e, bad) \in Alarms
  BY ErrorsTyped
<1>3. QED
  BY <1>1, <1>2, NamedBits DEF Checked

(***************************************************************************)
(* The test machine.                                                       *)
(***************************************************************************)

\* What every handler of the test machine finds and leaves: its variables hold
\* values of their types, the measurement runs in LOW and HIGH only, a wait
\* inside a handler is one of WATER_IN, the filling valve is open only there,
\* and the lock follows the direction of the state.
TestTyped ==
  /\ test \in TestStates /\ sub \in 0..LastMeas /\ stopCount \in 0..1
  /\ tmr \in TimerStates /\ valves \in Valves /\ fill \in BOOLEAN /\ alarm \in Alarms
  /\ blocked \in {"no", "stop", "delayOver", "full", "late"}
TestSound ==
  /\ sub # 0 <=> test \in Measuring
  /\ blocked # "no" => test = "WATER_IN"
  /\ fill => test = "WATER_IN" /\ blocked = "no"
  /\ Locks(valves) /\ Follows(valves, CylinderOf(test))
TestGood == TestTyped /\ TestSound

\* Every state entry of Mersm_Test.c leaves the machine as it should be.
LEMMA EnterGood ==
  ASSUME TestGood, NEW s \in TestStates, NEW a \in Alarms, Enter(s, a)
  PROVE  TestGood'
<1> DEFINE off == Stop(tmr, ExitTimers(test) \cup IF s = "STOP" THEN {"delay"} ELSE {})
<1>1. tmr' \in TimerStates
  <2>1. tmr' = StartAll(off, EntryTimer(s))
    BY DEF Enter
  <2>2. off \in TimerStates
    BY TimersTyped DEF TestGood, TestTyped
  <2>3. EntryTimer(s) \in {{}, {"timeout"}, {"delay"}}
    BY DEF EntryTimer
  <2>4. EntryTimer(s) # {} => (CHOOSE n \in EntryTimer(s) : TRUE) \in Timers
    BY <2>3 DEF Timers
  <2> HIDE DEF off
  <2>5. QED
    BY <2>1, <2>2, <2>4, TimersTyped DEF StartAll
<1>2. /\ valves' \in Valves /\ Locks(valves') /\ Follows(valves', CylinderOf(s))
  <2>1. CylinderOf(s) \in {"up", "down"}
    BY DEF CylinderOf
  <2>2. valves' = Drive(valves, CylinderOf(s))
    BY DEF Enter
  <2>3. QED
    BY <2>1, <2>2, LockTyped, DriveFollows DEF TestGood, TestTyped, TestSound
<1>3. /\ test' = s /\ blocked' = "no" /\ alarm' = a /\ fill' = (s = "WATER_IN")
      /\ sub' = IF s \in Measuring THEN 1 ELSE 0
      /\ stopCount' = IF s = "STOP" THEN 0 ELSE stopCount
  BY DEF Enter
<1>4. 1 \in 0..LastMeas /\ 0 \in 0..LastMeas
  BY PortsAssumption DEF LastMeas, SubMax
<1>5. TestTyped'
  BY <1>1, <1>2, <1>3, <1>4 DEF TestGood, TestTyped
<1>6. TestSound'
  <2>1. sub' # 0 <=> test' \in Measuring
    BY <1>3
  <2>2. fill' => test' = "WATER_IN" /\ blocked' = "no"
    BY <1>3, Zenon
  <2>3. blocked' # "no" => test' = "WATER_IN"
    BY <1>3
  <2>4. QED
    BY <1>2, <1>3, <2>1, <2>2, <2>3, Zenon DEF TestSound
<1>7. QED
  BY <1>5, <1>6 DEF TestGood

\* A handler that changes at most the alarm words.
LEMMA OnlyAlarmGood ==
  ASSUME TestGood, NEW a \in Alarms, OnlyAlarm(a)
  PROVE  TestGood'
<1>1. /\ test' = test /\ sub' = sub /\ stopCount' = stopCount /\ blocked' = blocked
      /\ tmr' = tmr /\ valves' = valves /\ fill' = fill /\ alarm' = a
  BY DEF OnlyAlarm, testVars
<1>2. TestTyped'
  BY <1>1 DEF TestGood, TestTyped
<1>3. TestSound'
  BY <1>1, Zenon DEF TestGood, TestSound
<1>4. QED
  BY <1>2, <1>3 DEF TestGood

\* An event the state does not handle.
LEMMA IgnoredGood ==
  ASSUME TestGood, TestIgnores
  PROVE  TestGood'
<1>1. alarm \in Alarms
  BY DEF TestGood, TestTyped
<1>2. OnlyAlarm(alarm)
  BY DEF TestIgnores, OnlyAlarm
<1>3. QED
  BY <1>1, <1>2, OnlyAlarmGood

\* exitWATER_IN up to its wait closes the filling valve (Mersm_Test.c:1135).
LEMMA BeginExitGood ==
  ASSUME TestGood, test = "WATER_IN", NEW a \in Alarms,
         NEW why \in {"stop", "delayOver", "full", "late"}, BeginExitWaterIn(why, a)
  PROVE  TestGood'
<1>1. /\ test' = test /\ sub' = sub /\ stopCount' = stopCount /\ blocked' = why
      /\ tmr' = tmr /\ valves' = valves /\ fill' = FALSE /\ alarm' = a
  BY DEF BeginExitWaterIn, testVars
<1>2. TestTyped'
  BY <1>1 DEF TestGood, TestTyped
<1>3. TestSound'
  BY <1>1, Zenon DEF TestGood, TestSound
<1>4. QED
  BY <1>2, <1>3 DEF TestGood

\* The end of the wait: all five ways to go on are state entries.
LEMMA EndExitGood ==
  ASSUME TestGood, EndExitWaterIn
  PROVE  TestGood'
<1>1. alarm \in Alarms
  BY DEF TestGood, TestTyped
<1>2. /\ SetErrBit(alarm, "LIQ") \in Alarms
      /\ ClearErrBit(alarm, "WATER_IN_TIME_OUT") \in Alarms
  BY <1>1, ErrorsTyped, NamedBits
<1>3. {"WATER_EXH", "LOW"} \subseteq TestStates
  BY DEF TestStates, Wet
<1>4. QED
  BY <1>1, <1>2, <1>3, EnterGood DEF EndExitWaterIn

\* The next stage of the measurement sets the valves as the state does.
LEMMA NextStageGood ==
  ASSUME TestGood, test \in Measuring, NEW s \in 1..LastMeas, NEW a \in Alarms,
         NextStage(s, a)
  PROVE  TestGood'
<1>1. tmr' \in TimerStates
  BY TimersTyped DEF NextStage, TestGood, TestTyped, Timers
<1>2. CylinderOf(test) = "down"
  BY DEF CylinderOf, Measuring
<1>3. valves' \in Valves /\ Locks(valves') /\ Follows(valves', "down")
  BY LockTyped, DriveFollows DEF NextStage, TestGood, TestTyped, TestSound
<1>4. /\ test' = test /\ sub' = s /\ stopCount' = stopCount /\ blocked' = blocked
      /\ fill' = FALSE /\ alarm' = a
  BY DEF NextStage
<1>5. s \in 0..LastMeas /\ s # 0
  BY PortsAssumption DEF LastMeas, SubMax
<1>6. TestTyped'
  BY <1>1, <1>3, <1>4, <1>5 DEF TestGood, TestTyped
<1>7. TestSound'
  BY <1>2, <1>3, <1>4, <1>5, Zenon DEF TestGood, TestSound
<1>8. QED
  BY <1>6, <1>7 DEF TestGood

\* Mersm_evInit: whatever the valves were in the mode that ends.
LEMMA TestEvInitGood ==
  ASSUME NEW a \in Alarms, NEW t \in TimerStates, NEW v \in Valves, Locks(v),
         TestEvInit(a, t, v), blocked' = "no"
  PROVE  TestGood'
<1>1. /\ test' = "STOP" /\ sub' = 0 /\ stopCount' = 0 /\ fill' = FALSE
      /\ tmr' = Stop(t, {"delay"}) /\ valves' = Drive(v, "up")
      /\ alarm' = EvInitAlarm(a)
  BY DEF TestEvInit
<1>2. tmr' \in TimerStates /\ alarm' \in Alarms
  BY <1>1, TimersTyped, TestAlarms
<1>3. valves' \in Valves /\ Locks(valves') /\ Follows(valves', "up")
  BY <1>1, LockTyped, DriveFollows
<1>4. 0 \in 0..LastMeas
  BY PortsAssumption DEF LastMeas, SubMax
<1>5. TestTyped'
  <2>1. "STOP" \in TestStates
    BY DEF TestStates
  <2>2. test' \in TestStates /\ sub' \in 0..LastMeas /\ stopCount' \in 0..1
    BY <1>1, <1>4, <2>1
  <2>3. fill' \in BOOLEAN /\ blocked' \in {"no", "stop", "delayOver", "full", "late"}
    BY <1>1
  <2>4. QED
    BY <1>2, <1>3, <2>2, <2>3 DEF TestTyped
<1>6. TestSound'
  BY <1>1, <1>3 DEF TestSound, Measuring, CylinderOf
<1>7. QED
  BY <1>5, <1>6 DEF TestGood

\* Mersm_evStart.
LEMMA TestEvStartGood ==
  ASSUME TestGood, sens \in [Sensors -> BOOLEAN], TestEvStart
  PROVE  TestGood'
<1>1. Checked(alarm) \in Alarms
  BY CheckedTyped DEF TestGood, TestTyped
<1>2. SetVbStatus(Checked(alarm), "RUN") \in Alarms
  BY <1>1, StatusTyped, NamedBits
<1>3. "CYL_DOWN" \in TestStates
  BY DEF TestStates, PreWater
<1>4. QED
  BY <1>1, <1>2, <1>3, EnterGood, OnlyAlarmGood, IgnoredGood DEF TestEvStart

\* Mersm_evStop: before STOP the cycle is left by way of CYL_UP or WATER_EXH.
LEMMA TestEvStopGood ==
  ASSUME TestGood, TestEvStop
  PROVE  TestGood'
<1>1. BeforeStop \in Alarms
  BY ErrorsTyped, NamedBits DEF BeforeStop, TestGood, TestTyped
<1>2. Ended(BeforeStop) \in Alarms
  BY <1>1, TestAlarms
<1>3. {"CYL_UP", "WATER_EXH", "STOP"} \subseteq TestStates
  BY DEF TestStates
<1>4. CASE StopInStop
  <2>1. /\ test' = test /\ sub' = sub /\ blocked' = blocked
        /\ tmr' = tmr /\ valves' = valves /\ fill' = fill
    BY <1>4 DEF StopInStop
  <2>2. alarm' \in Alarms
    <3>1. /\ SecondStop(BeforeStop) \in Alarms
          /\ FirstStop(BeforeStop) \in Alarms
          /\ SetVbStatus(FirstStop(BeforeStop), "READY") \in Alarms
      BY <1>1, TestAlarms, StatusTyped, NamedBits
    <3>2. QED
      BY <1>4, <3>1 DEF StopInStop
  <2>3. stopCount' \in 0..1
    <3>1. stopCount' = StopCountAfter(FirstStop(BeforeStop))
      BY <1>4 DEF StopInStop
    <3>2. stopCount \in 0..1
      BY DEF TestGood, TestTyped
    <3>3. QED
      BY <3>1, <3>2 DEF StopCountAfter
  <2>4. TestTyped'
    BY <2>1, <2>2, <2>3 DEF TestGood, TestTyped
  <2>5. TestSound'
    BY <2>1, Zenon DEF TestGood, TestSound
  <2>6. QED
    BY <2>4, <2>5 DEF TestGood
<1>5. QED
  BY <1>1, <1>2, <1>3, <1>4, EnterGood, BeginExitGood DEF TestEvStop

\* evDelayOver of the leak machine and what the test machine makes of its end.
LEMMA MeasureGood ==
  ASSUME TestGood, Measure
  PROVE  TestGood'
<1>1. alarm \in Alarms /\ sub \in 0..LastMeas
  BY DEF TestGood, TestTyped
<1>2. PICK a \in Measured :
        \/ /\ sub < LastMeas
           /\ \E c \in Conditions(sub + 1) :
                IF c = "ok" THEN NextStage(sub + 1, a)
                ELSE IF test = "LOW" THEN LowEnds(c, FALSE, a) ELSE HighEnds(c, a)
        \/ /\ sub = LastMeas
           /\ \E c \in {"ok", "dry"}, allNG \in BOOLEAN :
                IF test = "LOW" THEN LowEnds(c, allNG, a) ELSE HighEnds(c, a)
  BY DEF Measure
<1>3. a \in Alarms
  <2>1. SetErrBit(SetVbStatus(alarm, "DRY"), "NEED_DRY") \in Alarms
    BY <1>1, StatusTyped, ErrorsTyped, NamedBits
  <2>2. QED
    BY <1>1, <2>1 DEF Measured
<1>4. test \in Measuring
  BY DEF Measure
<1>5. {"WATER_EXH", "ADD_PRES"} \subseteq TestStates
  BY DEF TestStates, Wet
<1>6. SetErrBit(a, "WATER_PRES") \in Alarms /\ NeedDry(a) \in Alarms
  BY <1>3, ErrorsTyped, TestAlarms, NamedBits
<1>7. ASSUME NEW c, NEW allNG, LowEnds(c, allNG, a) \/ HighEnds(c, a)
      PROVE  TestGood'
  BY <1>3, <1>5, <1>6, <1>7, EnterGood DEF LowEnds, HighEnds
<1>8. ASSUME sub < LastMeas, NextStage(sub + 1, a)
      PROVE  TestGood'
  <2>1. sub + 1 \in 1..LastMeas
    BY <1>1, <1>8, PortsAssumption DEF LastMeas, SubMax
  <2>2. QED
    BY <1>3, <1>4, <1>8, <2>1, NextStageGood
<1>9. QED
  BY <1>2, <1>7, <1>8

\* Mersm_evDelayOver.
LEMMA TestEvDelayOverGood ==
  ASSUME TestGood, TestEvDelayOver
  PROVE  TestGood'
<1>1. alarm \in Alarms
  BY DEF TestGood, TestTyped
<1>2. \A e \in Errors : SetErrBit(alarm, e) \in Alarms
  BY <1>1, ErrorsTyped
<1>3. {"CYL_UP", "WATER_EXH", "STOP", "WATER_PUMP", "PRODUCT_TEST", "AIR_PURGE",
       "AIR_PUMP", "IS_DRY", "WATER_IN", "HIGH"} \subseteq TestStates
  BY DEF TestStates, PreWater, Wet
<1>4. CASE Tor13Over
  BY <1>1, <1>2, <1>3, <1>4, EnterGood, NamedBits DEF Tor13Over
<1>5. CASE ProductTestOver
  BY <1>1, <1>2, <1>3, <1>5, EnterGood, NamedBits DEF ProductTestOver
<1>6. CASE IsDryOver
  <2>1. NeedDry(alarm) \in Alarms /\ SetErrBit(NeedDry(alarm), "LIQ") \in Alarms
    BY <1>1, TestAlarms, ErrorsTyped, NamedBits
  <2>2. QED
    BY <1>1, <1>3, <1>6, <2>1, EnterGood DEF IsDryOver
<1>7. CASE AddPresOver
  BY <1>1, <1>2, <1>3, <1>7, EnterGood, NamedBits DEF AddPresOver
<1>8. CASE test = "WATER_IN" /\ BeginExitWaterIn("delayOver", alarm)
  BY <1>1, <1>8, BeginExitGood
<1>9. QED
  BY <1>1, <1>3, <1>4, <1>5, <1>6, <1>7, <1>8, EnterGood, MeasureGood, IgnoredGood
  DEF TestEvDelayOver

\* Mersm_evLiqSwitch: at most a timer and an error bit change.
LEMMA TestEvLiqSwitchGood ==
  ASSUME TestGood, NEW on \in BOOLEAN, TestEvLiqSwitch(on)
  PROVE  TestGood'
<1>1. alarm \in Alarms /\ tmr \in TimerStates
  BY DEF TestGood, TestTyped
<1>2. /\ ClearErrBit(alarm, "LIQ") \in Alarms
      /\ \A bad \in BOOLEAN : SetOrClear(alarm, "LIQ", bad) \in Alarms
  BY <1>1, ErrorsTyped, NamedBits
<1>3. ASSUME tmr' \in TimerStates, alarm' \in Alarms,
             UNCHANGED <<testVars, blocked, valves, fill>>
      PROVE  TestGood'
  <2>1. TestTyped'
    BY <1>3 DEF TestGood, TestTyped, testVars
  <2>2. TestSound'
    BY <1>3, Zenon DEF TestGood, TestSound, testVars
  <2>3. QED
    BY <2>1, <2>2 DEF TestGood
<1>4. /\ Stop(Start(tmr, "delay"), {"timeout"}) \in TimerStates
      /\ Start(tmr, "delay") \in TimerStates
  BY <1>1, TimersTyped DEF Timers
<1>5. ASSUME NEW bad \in BOOLEAN, OnlyAlarm(SetOrClear(alarm, "LIQ", bad))
      PROVE  TestGood'
  BY <1>2, <1>5, OnlyAlarmGood
<1>6. (~on) \in BOOLEAN
  OBVIOUS
<1>7. QED
  BY <1>2, <1>3, <1>4, <1>5, <1>6, OnlyAlarmGood, IgnoredGood DEF TestEvLiqSwitch

\* Mersm_evCylPosH and Mersm_evCylPosL.
LEMMA TestEvCylPosGood ==
  ASSUME TestGood, NEW on \in BOOLEAN, TestEvCylPosH(on) \/ TestEvCylPosL(on)
  PROVE  TestGood'
<1>1. /\ ClearErrBit(Ended(alarm), "CYL_H") \in Alarms
      /\ ClearErrBit(alarm, "CYL_L") \in Alarms
  BY TestAlarms, ErrorsTyped, NamedBits DEF TestGood, TestTyped
<1>2. {"STOP", "TOR13"} \subseteq TestStates
  BY DEF TestStates, PreWater
<1>3. QED
  BY <1>1, <1>2, EnterGood, IgnoredGood DEF TestEvCylPosH, TestEvCylPosL

\* Mersm_evTimeOut.
LEMMA TestEvTimeOutGood ==
  ASSUME TestGood, TestEvTimeOut
  PROVE  TestGood'
<1>1. alarm \in Alarms
  BY DEF TestGood, TestTyped
<1>2. /\ ClearErrBit(Ended(alarm), "CYL_H") \in Alarms
      /\ ClearErrBit(alarm, "CYL_L") \in Alarms
      /\ \A e \in Errors : SetErrBit(alarm, e) \in Alarms
  BY <1>1, TestAlarms, ErrorsTyped, NamedBits
<1>3. {"STOP", "TOR13", "CYL_UP", "WATER_PUMP"} \subseteq TestStates
  BY DEF TestStates, PreWater
<1>4. QED
  BY <1>1, <1>2, <1>3, NamedBits, EnterGood, OnlyAlarmGood, BeginExitGood, IgnoredGood
  DEF TestEvTimeOut

(***************************************************************************)
(* The drying machine.                                                     *)
(***************************************************************************)

\* The direction of the cylinder in a state of the drying machine.
DryDirection(s) == IF s \in {"CLY_UP", "NULL"} THEN "up" ELSE "down"

\* What every handler of the drying machine finds and leaves.
DryGood ==
  /\ dry \in DryStates /\ dryCnt \in 0..MaxDry
  /\ tmr \in TimerStates /\ valves \in Valves /\ fill = FALSE /\ alarm \in Alarms
  /\ Locks(valves) /\ Follows(valves, DryDirection(dry))

\* Every state entry of Mersm_Dry.c leaves the machine as it should be.
LEMMA DryEnterGood ==
  ASSUME DryGood, NEW s \in DryRunning, NEW a \in Alarms, DryEnter(s, a)
  PROVE  DryGood'
<1>1. /\ dry' = s /\ fill' = FALSE /\ alarm' = a
      /\ dryCnt' = IF s = "AIR_PUMP" /\ dryCnt < MaxDry THEN dryCnt + 1 ELSE dryCnt
      /\ valves' = Drive(valves, IF s = "CLY_UP" THEN "up" ELSE "down")
  BY DEF DryEnter
<1>2. tmr' \in TimerStates
  BY TimersTyped DEF DryEnter, DryGood, DryTimer, Timers
<1>3. dryCnt' \in 0..MaxDry
  BY <1>1, DryAssumption DEF DryGood
<1>4. DryDirection(s) = IF s = "CLY_UP" THEN "up" ELSE "down"
  BY DEF DryDirection, DryRunning
<1>5. valves' \in Valves /\ Locks(valves') /\ Follows(valves', DryDirection(s))
  BY <1>1, <1>4, LockTyped, DriveFollows DEF DryGood
<1>6. s \in DryStates
  BY DEF DryStates
<1>7. QED
  BY <1>1, <1>2, <1>3, <1>5, <1>6 DEF DryGood

\* An event the drying machine does not handle.
LEMMA DryIgnoredGood ==
  ASSUME DryGood, DryIgnores
  PROVE  DryGood'
  BY DEF DryGood, DryIgnores, dryVars

\* The handlers of the drying machine that keep it running or let it go idle.
LEMMA DryHandlersGood ==
  ASSUME DryGood, NEW on \in BOOLEAN,
         DryEvStop \/ DryEvDelayOver \/ DryEvCylPosL(on) \/ DryEvTimeOut
  PROVE  DryGood'
<1>1. /\ alarm \in Alarms /\ ClearErrBit(alarm, "CYL_L") \in Alarms
      /\ \A e \in Errors : SetErrBit(alarm, e) \in Alarms
  BY ErrorsTyped, NamedBits DEF DryGood
<1>2. {"CLY_UP", "AIR_PUGE", "AIR_PUMP", "LEAK"} \subseteq DryRunning
  BY DEF DryRunning
<1>3. CASE DryEvStop
  BY <1>1, <1>2, <1>3, DryEnterGood DEF DryEvStop
<1>4. CASE DryEvDelayOver
  BY <1>1, <1>2, <1>4, NamedBits, DryEnterGood, DryIgnoredGood DEF DryEvDelayOver
<1>5. CASE DryEvCylPosL(on)
  BY <1>1, <1>2, <1>5, DryEnterGood, DryIgnoredGood DEF DryEvCylPosL
<1>6. CASE DryEvTimeOut
  <2>1. ASSUME dry = "CLY_UP", DryLeave, tmr' = DryTimersLeft,
               alarm' = SetErrBit(alarm, "CYL_H"), UNCHANGED <<valves, fill>>
        PROVE  DryGood'
    <3>1. tmr' \in TimerStates /\ alarm' \in Alarms
      BY <1>1, <2>1, TimersTyped, NamedBits DEF DryTimersLeft, DryGood
    <3>2. dry' \in DryStates /\ dryCnt' \in 0..MaxDry
      BY <2>1, DryAssumption DEF DryLeave, DryStates
    <3>3. Follows(valves', DryDirection(dry'))
      BY <2>1 DEF DryGood, DryDirection, DryLeave, Follows
    <3>4. QED
      BY <2>1, <3>1, <3>2, <3>3 DEF DryGood
  <2>2. QED
    BY <1>1, <1>2, <1>6, <2>1, NamedBits, DryEnterGood, DryIgnoredGood DEF DryEvTimeOut
<1>7. QED
  BY <1>3, <1>4, <1>5, <1>6

(***************************************************************************)
(* The inductive invariant: one case for each main state.  The properties  *)
(* of a machine hold while it is the current one; the cases say besides    *)
(* what the machines that are not current have left behind, because a mode *)
(* change relies on it.                                                    *)
(***************************************************************************)
InputsGood ==
  /\ q \in Seq([ev : EventNames, arg : Args, on : BOOLEAN]) /\ Len(q) <= QueueLen
  /\ lost \in BOOLEAN /\ sens \in [Sensors -> BOOLEAN]

InTest == main = "TEST" /\ TestGood /\ dry = "NULL" /\ dryCnt \in 0..MaxDry /\ debug = "OFF"

TestIdle == test = "STOP" /\ sub = 0 /\ stopCount \in 0..1 /\ blocked = "no"

InDry == main = "DRY" /\ DryGood /\ TestIdle /\ debug = "OFF"

DebugGood ==
  /\ debug \in {"ON", "CYL_UP"} /\ fill \in BOOLEAN /\ (fill => debug = "ON")
  /\ tmr \in TimerStates /\ valves \in Valves /\ alarm \in Alarms /\ Locks(valves)

InDebug == /\ main \in {"DEBUG", "FAULT"} /\ DebugGood
           /\ TestIdle /\ dry = "NULL" /\ dryCnt \in 0..MaxDry

IInv == InputsGood /\ (InTest \/ InDry \/ InDebug)

\* The invariant gives the types.
LEMMA InvTypes == IInv => TypeOK
<1>1. /\ "NULL" \in DryStates /\ "STOP" \in TestStates
      /\ {"OFF", "ON", "CYL_UP"} = DebugStates /\ 0 \in 0..LastMeas
  BY PortsAssumption DEF DryStates, TestStates, DebugStates, LastMeas, SubMax
<1>2. InputsGood /\ InTest => TypeOK
  BY <1>1 DEF InputsGood, InTest, TestGood, TestTyped, TypeOK
<1>3. InputsGood /\ InDry => TypeOK
  BY <1>1 DEF InputsGood, InDry, DryGood, TestIdle, TypeOK
<1>4. InputsGood /\ InDebug => TypeOK
  BY <1>1 DEF InputsGood, InDebug, DebugGood, TestIdle, TypeOK
<1>5. QED
  BY <1>2, <1>3, <1>4 DEF IInv

\* The invariant gives the four safety properties.
LEMMA InvSafe ==
  IInv => ModesAgree /\ LockConsistent /\ NeverAgainstPhase /\ FillOnlyInWaterIn
<1>1. InTest => ModesAgree /\ LockConsistent /\ NeverAgainstPhase /\ FillOnlyInWaterIn
  <2> SUFFICES ASSUME InTest
               PROVE  ModesAgree /\ LockConsistent /\ NeverAgainstPhase /\ FillOnlyInWaterIn
    OBVIOUS
  <2>1. ModesAgree
    BY DEF InTest, TestGood, TestSound, ModesAgree
  <2>2. LockConsistent
    BY DEF InTest, TestGood, TestSound, LockConsistent, Locks
  <2>3. NeverAgainstPhase
    BY DEF InTest, TestGood, TestSound, NeverAgainstPhase, Direction, Follows
  <2>4. FillOnlyInWaterIn
    BY DEF InTest, TestGood, TestSound, FillOnlyInWaterIn
  <2>5. QED
    BY <2>1, <2>2, <2>3, <2>4
<1>2. InDry => ModesAgree /\ LockConsistent /\ NeverAgainstPhase /\ FillOnlyInWaterIn
  <2> SUFFICES ASSUME InDry
               PROVE  ModesAgree /\ LockConsistent /\ NeverAgainstPhase /\ FillOnlyInWaterIn
    OBVIOUS
  <2>1. ModesAgree
    BY DEF InDry, TestIdle, ModesAgree, Measuring
  <2>2. LockConsistent
    BY DEF InDry, DryGood, LockConsistent, Locks
  <2>3. NeverAgainstPhase
    BY DEF InDry, DryGood, NeverAgainstPhase, Direction, DryDirection, Follows
  <2>4. FillOnlyInWaterIn
    BY DEF InDry, DryGood, FillOnlyInWaterIn
  <2>5. QED
    BY <2>1, <2>2, <2>3, <2>4
<1>3. InDebug => ModesAgree /\ LockConsistent /\ NeverAgainstPhase /\ FillOnlyInWaterIn
  <2> SUFFICES ASSUME InDebug
               PROVE  ModesAgree /\ LockConsistent /\ NeverAgainstPhase /\ FillOnlyInWaterIn
    OBVIOUS
  <2>1. ModesAgree
    BY DEF InDebug, DebugGood, TestIdle, ModesAgree, Measuring
  <2>2. LockConsistent
    BY DEF InDebug, DebugGood, LockConsistent, Locks
  <2>3. NeverAgainstPhase
    BY DEF InDebug, NeverAgainstPhase
  <2>4. FillOnlyInWaterIn
    BY DEF InDebug, DebugGood, FillOnlyInWaterIn
  <2>5. QED
    BY <2>1, <2>2, <2>3, <2>4
<1>4. QED
  BY <1>1, <1>2, <1>3 DEF IInv

\* The state machine starts in the test machine's STOP state.
LEMMA InitInv == Init => IInv
<1> SUFFICES ASSUME Init PROVE IInv
  OBVIOUS
<1>1. TimersOff \in TimerStates
  BY DEF TimersOff, TimerStates
<1>2. EvInitAlarm(NoAlarm) \in Alarms
  <2>1. NoAlarm \in Alarms
    BY DEF NoAlarm, Alarms
  <2>2. QED
    BY <2>1, TestAlarms
<1>3. ValvesOff \in Valves /\ Locks(ValvesOff)
  BY DEF ValvesOff, Valves, Locks
<1>4. valves \in Valves /\ Locks(valves) /\ Follows(valves, "up")
  BY <1>3, LockTyped, DriveFollows DEF Init
<1>5. "STOP" \in TestStates /\ 0 \in 0..LastMeas
  BY PortsAssumption DEF TestStates, LastMeas, SubMax
<1>6. TestTyped
  <2>1. test \in TestStates /\ sub \in 0..LastMeas /\ stopCount \in 0..1 /\ blocked = "no"
    BY <1>5 DEF Init
  <2>2. tmr \in TimerStates /\ alarm \in Alarms /\ fill \in BOOLEAN
    BY <1>1, <1>2 DEF Init
  <2>3. QED
    BY <1>4, <2>1, <2>2 DEF TestTyped
<1>7. TestSound
  BY <1>4 DEF Init, TestSound, Measuring, CylinderOf
<1>8. InTest
  BY <1>6, <1>7, DryAssumption DEF Init, InTest, TestGood
<1>9. InputsGood
  <2>1. q = <<>> /\ lost = FALSE
    BY DEF Init
  <2>2. Len(q) <= QueueLen /\ q \in Seq([ev : EventNames, arg : Args, on : BOOLEAN])
    BY <2>1, CoreAssumption
  <2>3. sens \in [Sensors -> BOOLEAN]
    BY DEF Init
  <2>4. QED
    BY <2>1, <2>2, <2>3 DEF InputsGood
<1>10. QED
  BY <1>8, <1>9 DEF IInv

(***************************************************************************)
(* The steps.                                                              *)
(***************************************************************************)

\* Taking an event from the queue: it is one of the known messages.
LEMMA ReceiveGood ==
  ASSUME InputsGood, NEW name, Receive(name)
  PROVE  /\ InputsGood' /\ On \in BOOLEAN /\ Arg \in Args
         /\ main # "FAULT" /\ blocked = "no"
<1> DEFINE M == [ev : EventNames, arg : Args, on : BOOLEAN]
<1>1. q \in Seq(M) /\ q # <<>> /\ Len(q) <= QueueLen
  BY DEF InputsGood, Receive
<1>2. Head(q) \in M /\ Tail(q) \in Seq(M) /\ Len(Tail(q)) <= QueueLen
  <2> HIDE DEF M
  <2>1. QED
    BY <1>1, CoreAssumption
<1>3. On \in BOOLEAN /\ Arg \in Args
  BY <1>2 DEF On, Arg
<1>4. InputsGood'
  BY <1>2 DEF InputsGood, Receive
<1>5. QED
  BY <1>3, <1>4 DEF Receive

\* Appending an event, or dropping it, keeps the queue (sendEvent).
LEMMA PostGood ==
  ASSUME InputsGood, NEW e \in [ev : EventNames, arg : Args, on : BOOLEAN],
         Post(e), sens' \in [Sensors -> BOOLEAN]
  PROVE  InputsGood'
<1> DEFINE M == [ev : EventNames, arg : Args, on : BOOLEAN]
<1>1. q \in Seq(M) /\ Len(q) <= QueueLen /\ Len(q) \in Nat /\ e \in M
  BY DEF InputsGood
<1>2. /\ q' = IF Len(q) < QueueLen THEN Append(q, e) ELSE q
      /\ lost' \in BOOLEAN
  BY DEF Post
<1>3. q' \in Seq(M) /\ Len(q') <= QueueLen
  <2> HIDE DEF M
  <2>1. Append(q, e) \in Seq(M) /\ Len(Append(q, e)) = Len(q) + 1
    BY <1>1
  <2>2. QED
    BY <1>1, <1>2, <2>1, CoreAssumption
<1>4. QED
  BY <1>2, <1>3 DEF InputsGood

\* Within one mode only the current machine moves.
LEMMA ModeSteps ==
  ASSUME InputsGood'
  PROVE  /\ InTest /\ TestGood' /\ UNCHANGED <<main, dryVars, debug>> => IInv'
         /\ InDry /\ DryGood' /\ UNCHANGED <<main, blocked, testVars, debug>> => IInv'
         /\ InDebug /\ DebugGood' /\ UNCHANGED <<main, blocked, testVars, dryVars>> => IInv'
<1>1. InTest /\ TestGood' /\ UNCHANGED <<main, dryVars, debug>> => InTest'
  BY DEF InTest, dryVars
<1>2. InDry /\ DryGood' /\ UNCHANGED <<main, blocked, testVars, debug>> => InDry'
  BY DEF InDry, TestIdle, testVars
<1>3. InDebug /\ DebugGood' /\ UNCHANGED <<main, blocked, testVars, dryVars>> => InDebug'
  BY DEF InDebug, TestIdle, testVars, dryVars
<1>4. QED
  BY <1>1, <1>2, <1>3 DEF IInv

\* An event or a step of another task that changes no machine.
LEMMA IgnoredInv ==
  ASSUME IInv, InputsGood', Ignored
  PROVE  IInv'
<1>1. UNCHANGED <<main, blocked, tmr, valves, fill, alarm, testVars, dryVars, debug>>
  BY DEF Ignored, sharedVars
<1>2. InTest => TestGood'
  <2>1. TestTyped => TestTyped'
    BY <1>1 DEF TestTyped, testVars
  <2>2. TestSound => TestSound'
    BY <1>1, Zenon DEF TestSound, testVars
  <2>3. QED
    BY <2>1, <2>2 DEF InTest, TestGood
<1>3. InDry => DryGood'
  BY <1>1 DEF InDry, DryGood, dryVars
<1>4. InDebug => DebugGood'
  BY <1>1 DEF InDebug, DebugGood
<1>5. QED
  BY <1>1, <1>2, <1>3, <1>4, ModeSteps DEF IInv

\* The way back to the test machine, from whichever mode.
LEMMA BackInv ==
  ASSUME InputsGood', NEW a \in Alarms, NEW t \in TimerStates, valves \in Valves,
         Locks(valves), BackToTest(a, t),
         dry' = "NULL", dryCnt' \in 0..MaxDry, debug' = "OFF"
  PROVE  IInv'
<1>1. main' = "TEST" /\ blocked' = "no" /\ TestEvInit(a, t, valves)
  BY DEF BackToTest
<1>2. TestGood'
  BY <1>1, TestEvInitGood
<1>3. InTest'
  BY <1>1, <1>2 DEF InTest
<1>4. QED
  BY <1>3 DEF IInv

\* A handler of the test machine.
LEMMA ByTestInv ==
  ASSUME IInv, InputsGood', main = "TEST", TestGood => TestGood',
         UNCHANGED <<main, dryVars, debug>>
  PROVE  IInv'
<1>1. InTest
  BY DEF IInv, InDry, InDebug
<1>2. QED
  BY <1>1, ModeSteps DEF InTest

\* A handler of the drying machine.
LEMMA ByDryInv ==
  ASSUME IInv, InputsGood', main = "DRY", DryGood => DryGood',
         UNCHANGED <<main, blocked, testVars, debug>>
  PROVE  IInv'
<1>1. InDry
  BY DEF IInv, InTest, InDebug
<1>2. QED
  BY <1>1, ModeSteps DEF InDry

\* A handler of the debug machine.
LEMMA ByDebugInv ==
  ASSUME IInv, InputsGood', main = "DEBUG", DebugGood => DebugGood',
         UNCHANGED <<main, blocked, testVars, dryVars>>
  PROVE  IInv'
<1>1. InDebug
  BY DEF IInv, InTest, InDry
<1>2. QED
  BY <1>1, ModeSteps DEF InDebug

\* The drying machine that has stopped gives way to the test machine.
LEMMA DryStoppedInv ==
  ASSUME IInv, InputsGood', DryStopped
  PROVE  IInv'
<1>1. InDry
  BY DEF DryStopped, IInv, InTest, InDebug
<1>2. /\ alarm \in Alarms /\ tmr \in TimerStates /\ DryTimersLeft \in TimerStates
      /\ valves \in Valves /\ Locks(valves)
  BY <1>1, TimersTyped DEF InDry, DryGood, DryTimersLeft
<1>3. dry' = "NULL" /\ dryCnt' \in 0..MaxDry /\ debug' = "OFF"
  BY <1>1, DryAssumption DEF DryStopped, DryLeave, InDry
<1>4. QED
  BY <1>2, <1>3, BackInv DEF DryStopped

\* The debug machine that has raised the cylinder gives way to the test machine.
LEMMA DebugLeftInv ==
  ASSUME IInv, InputsGood', main = "DEBUG", DebugLeave, BackToTest(alarm, tmr),
         UNCHANGED dryVars
  PROVE  IInv'
<1>1. InDebug
  BY DEF IInv, InTest, InDry
<1>2. alarm \in Alarms /\ tmr \in TimerStates /\ valves \in Valves /\ Locks(valves)
  BY <1>1 DEF InDebug, DebugGood
<1>3. dry' = "NULL" /\ dryCnt' \in 0..MaxDry /\ debug' = "OFF"
  BY <1>1 DEF InDebug, DebugLeave, dryVars
<1>4. QED
  BY <1>2, <1>3, BackInv

\* A change of alarm words and valves that every mode allows: the light
\* curtain and the vacuum switch are handled before the mode is looked at.
LEMMA LockStepInv ==
  ASSUME IInv, InputsGood', alarm' \in Alarms,
         valves' \in {valves, TrigOn(valves), TrigOff(valves)},
         UNCHANGED <<main, blocked, tmr, fill, testVars, dryVars, debug>>
  PROVE  IInv'
<1>1. ASSUME valves \in Valves, Locks(valves)
      PROVE  /\ valves' \in Valves /\ Locks(valves')
             /\ \A dir : Follows(valves, dir) => Follows(valves', dir)
  BY <1>1, LockTyped, TrigOnFollows, TrigOffFollows
<1>2. InTest => TestGood'
  <2> SUFFICES ASSUME InTest PROVE TestGood'
    OBVIOUS
  <2>1. TestTyped /\ TestSound
    BY DEF InTest, TestGood
  <2>2. TestTyped'
    BY <1>1, <2>1 DEF TestTyped, TestSound, testVars
  <2>3. Locks(valves') /\ Follows(valves', CylinderOf(test))
    BY <1>1, <2>1 DEF TestTyped, TestSound
  <2>4. TestSound'
    BY <2>1, <2>3, Zenon DEF TestSound, testVars
  <2>5. QED
    BY <2>2, <2>4 DEF TestGood
<1>3. InDry => DryGood'
  BY <1>1 DEF InDry, DryGood, dryVars
<1>4. InDebug => DebugGood'
  BY <1>1 DEF InDebug, DebugGood
<1>5. QED
  BY <1>2, <1>3, <1>4, ModeSteps DEF IInv

\* EV_DRY_MODE and EV_DEBUG_MODE at standby: the new machine takes over the
\* valves and timers the test machine leaves in STOP.
LEMMA EnterModeInv ==
  ASSUME IInv, InputsGood', Standby, UNCHANGED <<blocked, testVars>>,
         \/ main' = "DRY" /\ DryEvStart /\ UNCHANGED debug
         \/ main' = "DEBUG" /\ DebugEvStart /\ UNCHANGED dryVars
  PROVE  IInv'
<1>1. InTest /\ test = "STOP"
  BY DEF Standby, IInv, InDry, InDebug
<1>2. TestTyped /\ TestSound
  BY <1>1 DEF InTest, TestGood
<1>3. TestIdle /\ fill = FALSE
  BY <1>1, <1>2 DEF TestIdle, TestTyped, TestSound, Measuring
<1>4. TestIdle'
  BY <1>3 DEF TestIdle, testVars
<1>5. CASE main' = "DRY" /\ DryEvStart /\ UNCHANGED debug
  <2>1. /\ dry' = "CYL_DOWN" /\ dryCnt' = 0 /\ tmr' = Start(tmr, "timeout")
        /\ valves' = Drive(valves, "down") /\ fill' = FALSE
        /\ alarm' = SetVbStatus(ClearErrBit(alarm, "NEED_DRY"), "RUN")
    BY <1>5 DEF DryEvStart
  <2>2. tmr' \in TimerStates /\ alarm' \in Alarms
    BY <1>2, <2>1, TimersTyped, StatusTyped, ErrorsTyped, NamedBits DEF TestTyped, Timers
  <2>3. valves' \in Valves /\ Locks(valves') /\ Follows(valves', "down")
    BY <1>2, <2>1, LockTyped, DriveFollows DEF TestTyped, TestSound
  <2>4. DryDirection("CYL_DOWN") = "down" /\ "CYL_DOWN" \in DryStates /\ 0 \in 0..MaxDry
    BY DryAssumption DEF DryDirection, DryStates, DryRunning
  <2>5. DryGood'
    BY <2>1, <2>2, <2>3, <2>4 DEF DryGood
  <2>6. InDry'
    BY <1>1, <1>4, <1>5, <2>5 DEF InDry, InTest
  <2>7. QED
    BY <2>6 DEF IInv
<1>6. CASE main' = "DEBUG" /\ DebugEvStart /\ UNCHANGED dryVars
  <2>1. alarm' \in Alarms
    BY <1>2, <1>6, StatusTyped, NamedBits DEF DebugEvStart, TestTyped
  <2>2. DebugGood'
    BY <1>2, <1>3, <1>6, <2>1 DEF DebugEvStart, DebugGood, TestTyped, TestSound
  <2>3. InDebug'
    BY <1>1, <1>4, <1>6, <2>2 DEF InDebug, InTest, dryVars
  <2>4. QED
    BY <2>3 DEF IInv
<1>7. QED
  BY <1>5, <1>6

\* The events of the fsmTask and the return from its wait.
LEMMA DispatchInv ==
  ASSUME IInv, Dispatch
  PROVE  IInv'
<1> USE DEF ByTest, ByDry, ByDebug
<1>0. InputsGood /\ sens \in [Sensors -> BOOLEAN]
  BY DEF IInv, InputsGood
<1>1. CASE EvStart
  <2>1. InputsGood'
    BY <1>0, <1>1, ReceiveGood DEF EvStart
  <2>2. CASE ByTest(TestEvStart)
    BY <1>0, <2>1, <2>2, TestEvStartGood, ByTestInv
  <2>3. QED
    BY <1>1, <2>1, <2>2, IgnoredInv DEF EvStart
<1>2. CASE EvStop
  <2>1. InputsGood'
    BY <1>0, <1>2, ReceiveGood DEF EvStop
  <2>2. CASE ByTest(TestEvStop)
    BY <2>1, <2>2, TestEvStopGood, ByTestInv
  <2>3. CASE ByDry(DryEvStop)
    BY <2>1, <2>3, DryHandlersGood, ByDryInv
  <2>4. CASE DryStopped
    BY <2>1, <2>4, DryStoppedInv
  <2>5. QED
    BY <1>2, <2>1, <2>2, <2>3, <2>4, IgnoredInv DEF EvStop
<1>3. CASE EvDelayOver
  <2>1. InputsGood'
    BY <1>0, <1>3, ReceiveGood DEF EvDelayOver
  <2>2. CASE ByTest(TestEvDelayOver)
    BY <2>1, <2>2, TestEvDelayOverGood, ByTestInv
  <2>3. CASE ByDry(DryEvDelayOver)
    BY <2>1, <2>3, DryHandlersGood, ByDryInv
  <2>4. QED
    BY <1>3, <2>1, <2>2, <2>3, IgnoredInv DEF EvDelayOver
<1>4. CASE EvLiqSwitch
  <2>1. InputsGood' /\ On \in BOOLEAN
    BY <1>0, <1>4, ReceiveGood DEF EvLiqSwitch
  <2>2. CASE ByTest(TestEvLiqSwitch(On))
    BY <2>1, <2>2, TestEvLiqSwitchGood, ByTestInv
  <2>3. QED
    BY <1>4, <2>1, <2>2, IgnoredInv DEF EvLiqSwitch
<1>5. CASE EvVacuum
  <2>1. InputsGood' /\ alarm \in Alarms
    BY <1>0, <1>5, ReceiveGood, InvTypes DEF EvVacuum, TypeOK
  <2>2. alarm' \in Alarms
    BY <1>5, <2>1, ErrorsTyped, NamedBits DEF EvVacuum
  <2>3. QED
    BY <1>5, <2>1, <2>2, LockStepInv DEF EvVacuum
<1>6. CASE EvCylPosH
  <2>1. InputsGood' /\ On \in BOOLEAN
    BY <1>0, <1>6, ReceiveGood DEF EvCylPosH
  <2>2. CASE ByTest(TestEvCylPosH(On))
    BY <2>1, <2>2, TestEvCylPosGood, ByTestInv
  <2>3. CASE DryStopped
    BY <2>1, <2>3, DryStoppedInv
  <2>4. CASE main = "DEBUG" /\ DebugLeave /\ BackToTest(alarm, tmr) /\ UNCHANGED dryVars
    BY <2>1, <2>4, DebugLeftInv
  <2>5. QED
    BY <1>6, <2>1, <2>2, <2>3, <2>4, IgnoredInv DEF EvCylPosH
<1>7. CASE EvCylPosL
  <2>1. InputsGood' /\ On \in BOOLEAN
    BY <1>0, <1>7, ReceiveGood DEF EvCylPosL
  <2>2. CASE ByTest(TestEvCylPosL(On))
    BY <2>1, <2>2, TestEvCylPosGood, ByTestInv
  <2>3. CASE ByDry(DryEvCylPosL(On))
    BY <2>1, <2>3, DryHandlersGood, ByDryInv
  <2>4. QED
    BY <1>7, <2>1, <2>2, <2>3, IgnoredInv DEF EvCylPosL
<1>8. CASE EvGrat
  <2>1. InputsGood' /\ alarm \in Alarms
    BY <1>0, <1>8, ReceiveGood, InvTypes DEF EvGrat, TypeOK
  <2>2. alarm' \in Alarms /\ valves' \in {TrigOn(valves), TrigOff(valves)}
    BY <1>8, <2>1, ErrorsTyped, NamedBits DEF EvGrat
  <2>3. QED
    BY <1>8, <2>1, <2>2, LockStepInv DEF EvGrat
<1>9. CASE EvDryMode
  <2>1. InputsGood'
    BY <1>0, <1>9, ReceiveGood DEF EvDryMode
  <2>2. QED
    BY <1>9, <2>1, EnterModeInv, IgnoredInv DEF EvDryMode
<1>10. CASE EvDebugMode
  <2>1. InputsGood'
    BY <1>0, <1>10, ReceiveGood DEF EvDebugMode
  <2>2. CASE ByDebug(DebugRaise)
    <3>1. ASSUME DebugGood PROVE DebugGood'
      BY <2>2, <3>1, TimersTyped, LockTyped, DriveFollows
      DEF DebugRaise, DebugGood, Timers
    <3>2. QED
      BY <2>1, <2>2, <3>1, ByDebugInv
  <2>3. CASE main = "DEBUG" /\ DebugLeave /\ BackToTest(alarm, tmr) /\ UNCHANGED dryVars
    BY <2>1, <2>3, DebugLeftInv
  <2>4. QED
    BY <1>10, <2>1, <2>2, <2>3, EnterModeInv, IgnoredInv DEF EvDebugMode
<1>11. CASE EvTimeOut
  <2>1. InputsGood'
    BY <1>0, <1>11, ReceiveGood DEF EvTimeOut
  <2>2. CASE ByTest(TestEvTimeOut)
    BY <2>1, <2>2, TestEvTimeOutGood, ByTestInv
  <2>3. CASE ByDry(DryEvTimeOut)
    BY <2>1, <2>3, DryHandlersGood, ByDryInv
  <2>4. CASE /\ main = "DEBUG" /\ main' = "FAULT"
             /\ UNCHANGED <<blocked, tmr, valves, fill, alarm, testVars, dryVars, debug>>
    <3>1. InDebug
      BY <2>4 DEF IInv, InTest, InDry
    <3>2. InDebug'
      BY <2>4, <3>1 DEF InDebug, DebugGood, TestIdle, testVars, dryVars
    <3>3. QED
      BY <2>1, <3>2 DEF IInv
  <2>5. QED
    BY <1>11, <2>2, <2>3, <2>4 DEF EvTimeOut
<1>12. CASE EvSetSigV
  <2>1. InputsGood' /\ On \in BOOLEAN
    BY <1>0, <1>12, ReceiveGood DEF EvSetSigV
  <2>2. CASE ByDebug(DebugEvSetSingleV(Arg, On))
    <3>1. ASSUME DebugGood PROVE DebugGood'
      <4>1. /\ valves' \in {valves, SetH(valves, On), SetL(valves, On)}
            /\ fill' \in {fill, On} /\ (fill' # fill => debug = "ON")
            /\ UNCHANGED <<debug, tmr, alarm>>
        BY <2>2 DEF DebugEvSetSingleV
      <4>2. valves' \in Valves /\ Locks(valves')
        BY <2>1, <3>1, <4>1, LockTyped, SetLocks DEF DebugGood
      <4>3. fill' \in BOOLEAN /\ (fill' => debug' = "ON")
        BY <2>1, <3>1, <4>1 DEF DebugGood
      <4>4. QED
        BY <3>1, <4>1, <4>2, <4>3 DEF DebugGood
    <3>2. QED
      BY <2>1, <2>2, <3>1, ByDebugInv
  <2>3. QED
    BY <1>12, <2>1, <2>2, IgnoredInv DEF EvSetSigV
<1>13. CASE Resume
  <2>1. main = "TEST" /\ InputsGood'
    BY <1>0, <1>13 DEF Resume, inputVars, IInv, InDry, InDebug, TestIdle, InTest, InputsGood
  <2>2. QED
    BY <1>13, <2>1, EndExitGood, ByTestInv DEF Resume
<1>14. QED
  BY <1>1, <1>2, <1>3, <1>4, <1>5, <1>6, <1>7, <1>8, <1>9, <1>10, <1>11, <1>12, <1>13
  DEF Dispatch

\* The other tasks append events; a timer that expires is stopped first.
LEMMA EnvironmentInv ==
  ASSUME IInv, Environment
  PROVE  IInv'
<1> DEFINE M == [ev : EventNames, arg : Args, on : BOOLEAN]
<1>1. InputsGood /\ TypeOK /\ UNCHANGED <<testVars, dryVars, debug>>
  BY InvTypes DEF IInv, Environment
<1>2. "" \in Args /\ Coils \subseteq Args /\ Phase \in Args
  BY <1>1, CoreAssumption DEF Args, Phase, TypeOK
<1>3. CASE SensorTask
  <2>1. PICK s \in Flipping : SensorChange(s)
    BY <1>3 DEF SensorTask
  <2>2. s \in Sensors /\ sens' = [sens EXCEPT ![s] = ~@] /\ UNCHANGED sharedVars
    BY <2>1, CoreAssumption DEF SensorChange
  <2>3. sens' \in [Sensors -> BOOLEAN] /\ (~sens[s]) \in BOOLEAN
    BY <1>1, <2>2 DEF InputsGood
  <2>4. Ev(SensorEvent[s], "", ~sens[s]) \in M
    BY <1>2, <2>2, <2>3 DEF Ev, EventNames
  <2>5. InputsGood'
    BY <1>1, <2>1, <2>3, <2>4, PostGood DEF SensorChange
  <2>6. QED
    BY <1>1, <2>2, <2>5, IgnoredInv DEF Ignored
<1>4. CASE NetworkTask
  <2>1. PICK e \in M : Post(e) /\ UNCHANGED <<sharedVars, sens>>
    <3>1. ASSUME NEW c \in Commands, NEW on \in BOOLEAN, Command(c, on)
          PROVE  Ev(c, "", on) \in M
      BY <1>2, CoreAssumption DEF Ev, EventNames
    <3>2. ASSUME NEW v \in Coils, NEW on \in BOOLEAN, SetCoil(v, on)
          PROVE  Ev("EV_SET_SIG_V", v, on) \in M
      BY <1>2 DEF Ev, EventNames
    <3> HIDE DEF M
    <3>3. QED
      BY <1>4, <3>1, <3>2 DEF NetworkTask, Command, SetCoil
  <2>2. InputsGood'
    BY <1>1, <2>1, PostGood DEF InputsGood
  <2>3. QED
    BY <1>1, <2>1, <2>2, IgnoredInv DEF Ignored
<1>5. CASE TimerTask
  <2>1. PICK t \in Timers : Expire(t, Phase)
    BY <1>5 DEF TimerTask
  <2>2. /\ tmr' = Stop(tmr, {t}) /\ Post(Ev(TimerEvent[t], Phase, TRUE))
        /\ UNCHANGED <<main, blocked, valves, fill, alarm, sens>>
    BY <2>1 DEF Expire
  <2>3. Ev(TimerEvent[t], Phase, TRUE) \in M
    BY <1>2 DEF Ev, EventNames
  <2>4. InputsGood'
    BY <1>1, <2>2, <2>3, PostGood DEF InputsGood
  <2>5. tmr' \in TimerStates
    BY <1>1, <2>2, TimersTyped DEF TypeOK
  <2>6. InTest => TestGood'
    <3> SUFFICES ASSUME InTest PROVE TestGood'
      OBVIOUS
    <3>1. TestTyped'
      BY <1>1, <2>2, <2>5 DEF InTest, TestGood, TestTyped, testVars
    <3>2. TestSound'
      BY <1>1, <2>2, Zenon DEF InTest, TestGood, TestSound, testVars
    <3>3. QED
      BY <3>1, <3>2 DEF TestGood
  <2>7. InDry => DryGood'
    BY <1>1, <2>2, <2>5 DEF InDry, DryGood, dryVars
  <2>8. InDebug => DebugGood'
    BY <1>1, <2>2, <2>5 DEF InDebug, DebugGood
  <2>9. QED
    BY <1>1, <2>2, <2>4, <2>6, <2>7, <2>8, ModeSteps DEF IInv
<1>6. QED
  BY <1>3, <1>4, <1>5 DEF Environment

\* The invariant of the fsmTask: initially, and after every step of it or of
\* another task.
THEOREM Invariant == Spec => []IInv
<1>1. ASSUME IInv, [Next]_vars PROVE IInv'
  <2>1. CASE Dispatch
    BY <1>1, <2>1, DispatchInv
  <2>2. CASE Environment
    BY <1>1, <2>2, EnvironmentInv
  <2>3. CASE UNCHANGED vars
    <3>1. Ignored /\ UNCHANGED inputVars
      BY <2>3 DEF vars, Ignored
    <3>2. InputsGood'
      BY <1>1, <3>1 DEF IInv, InputsGood, inputVars
    <3>3. QED
      BY <1>1, <3>1, <3>2, IgnoredInv
  <2>4. QED
    BY <1>1, <2>1, <2>2, <2>3 DEF Next
<1>2. QED
  BY <1>1, InitInv, PTL DEF Spec

\* Every variable keeps its C type through every handler of the three machines
\* (BLL_MainFsm.c:144-318).
THEOREM TypesKept == Spec => []TypeOK
  BY Invariant, InvTypes, PTL

\* The main state and the states of the machines always agree: no machine runs
\* unseen behind another, and only WATER_IN waits inside a handler
\* (BLL_MainFsm.c:144-318).
THEOREM ModesAlwaysAgree == Spec => []ModesAgree
  BY Invariant, InvSafe, PTL

\* The light-curtain lock holds both cylinder outputs off, whatever handler
\* drives them meanwhile (FML_Grat.c:58-84, FML_ExtValve.c:101).
THEOREM LockHolds == Spec => []LockConsistent
  BY Invariant, InvSafe, PTL

\* The cylinder is never driven against its phase, also not by a position the
\* lock gives back after the phase has changed (FML_Grat.c:74).
THEOREM NeverReversed == Spec => []NeverAgainstPhase
  BY Invariant, InvSafe, PTL

\* The filling valve is open only while WATER_IN fills or by hand: every path
\* out of WATER_IN and every mode change closes it (Mersm_Test.c:1135).
THEOREM InletCloses == Spec => []FillOnlyInWaterIn
  BY Invariant, InvSafe, PTL

-----------------------------------------------------------------------------
(* Part 2: the promises over several events. *)

(***************************************************************************)
(* The flag words.                                                         *)
(***************************************************************************)

\* The status word agrees with the error word and with itself.
Sound(a) == /\ "ERR" \in a.vb <=> a.err # {}
            /\ "READY" \in a.vb => a.vb \cap {"RUN", "END", "DEBUG", "DRY"} = {}

\* Calls that lead from a to b: they answer neither RUN nor END, and take back
\* no errors but those in gone.
Reports(a, b, gone) ==
  /\ b \in Alarms
  /\ Sound(a) => Sound(b)
  /\ "RUN" \in b.vb <=> "RUN" \in a.vb
  /\ a.err \ gone \subseteq b.err

\* Calls that end with an answer to the PLC: RUN is shown or not.
Answers(a, b, run, gone) ==
  /\ b \in Alarms
  /\ Sound(a) => Sound(b)
  /\ "RUN" \in b.vb <=> run
  /\ a.err \ gone \subseteq b.err

\* Calls one after the other.
LEMMA ReportsOn ==
  ASSUME NEW a, NEW b, NEW c, NEW gone, NEW more,
         Reports(a, b, gone), Reports(b, c, more), more \subseteq gone
  PROVE  Reports(a, c, gone)
  BY DEF Reports

\* No call at all.
LEMMA ReportsSame ==
  ASSUME NEW a \in Alarms, NEW gone
  PROVE  Reports(a, a, gone)
  BY DEF Reports

\* The words after one of them was written.
LEMMA WordWritten ==
  ASSUME NEW a \in Alarms
  PROVE  /\ \A w \in SUBSET VbStatus :
              /\ [a EXCEPT !.vb = w] \in Alarms
              /\ [a EXCEPT !.vb = w].vb = w /\ [a EXCEPT !.vb = w].err = a.err
         /\ \A e \in SUBSET Errors :
              /\ [a EXCEPT !.err = e] \in Alarms
              /\ [a EXCEPT !.err = e].err = e /\ [a EXCEPT !.err = e].vb = a.vb
         /\ a.vb \in SUBSET VbStatus /\ a.err \in SUBSET Errors
  BY DEF Alarms

\* What each status bit takes away (BLL_Alarm.c:158).
LEMMA Superseded ==
  /\ Supersedes["READY"] = {"RUN", "DEBUG", "DRY", "END"}
  /\ Supersedes["RUN"] = {"READY", "END"} /\ Supersedes["DEBUG"] = {"READY", "END"}
  /\ Supersedes["END"] = {"READY", "RUN"} /\ Supersedes["ERR"] = {"READY"}
  /\ Supersedes["DRY"] = {}
  BY NamedBits DEF Supersedes

\* setVbStatus sets one bit and takes others away.
LEMMA StatusSet ==
  ASSUME NEW a \in Alarms, NEW t \in VbStatus
  PROVE  /\ SetVbStatus(a, t) \in Alarms /\ SetVbStatus(a, t).err = a.err
         /\ SetVbStatus(a, t).vb = IF t = "READY" /\ "DRY" \in a.vb THEN a.vb
                                   ELSE (a.vb \ Supersedes[t]) \cup {t}
<1>1. (a.vb \ Supersedes[t]) \cup {t} \in SUBSET VbStatus
  BY WordWritten
<1>2. QED
  BY <1>1, WordWritten DEF SetVbStatus

\* setErrBit shows the error status and takes nothing back (BLL_Alarm.c:87).
LEMMA SetErrReports ==
  ASSUME NEW a \in Alarms, NEW e \in Errors, NEW gone
  PROVE  /\ Reports(a, SetErrBit(a, e), gone) /\ e \in SetErrBit(a, e).err
         /\ Sound(SetErrBit(a, e)) /\ "READY" \notin SetErrBit(a, e).vb
<1> DEFINE b == SetErrBit(a, e)
<1>1. /\ b \in Alarms /\ b.err = a.err \cup {e}
      /\ b.vb = (a.vb \ {"READY"}) \cup {"ERR"}
  <2>1. a.err \cup {e} \in SUBSET Errors
    BY WordWritten
  <2> DEFINE c == [a EXCEPT !.err = a.err \cup {e}]
  <2>2. c \in Alarms /\ c.err = a.err \cup {e} /\ c.vb = a.vb
    BY <2>1, WordWritten
  <2>3. b = SetVbStatus(c, "ERR") /\ "ERR" \in VbStatus
    BY NamedBits DEF SetErrBit
  <2> HIDE DEF b, c
  <2>4. b \in Alarms /\ b.err = c.err /\ b.vb = (c.vb \ Supersedes["ERR"]) \cup {"ERR"}
    BY <2>2, <2>3, StatusSet
  <2>5. QED
    BY <2>2, <2>4, Superseded
<1> HIDE DEF b
<1>2. Sound(b)
  BY <1>1 DEF Sound
<1>3. QED
  BY <1>1, <1>2 DEF Reports, b

\* What the error status does when an error goes (BLL_Alarm.c:105-142).
LEMMA DropReports ==
  ASSUME NEW a \in Alarms, NEW err \in SUBSET Errors, err \subseteq a.err
  PROVE  LET b == DropErrStatus([a EXCEPT !.err = err])
         IN  /\ b \in Alarms /\ b.err = err
             /\ "RUN" \in b.vb <=> "RUN" \in a.vb
             /\ Sound(a) => Sound(b)
<1> DEFINE c == [a EXCEPT !.err = err]
           b == DropErrStatus(c)
<1>1. c \in Alarms /\ c.err = err /\ c.vb = a.vb
  BY DEF Alarms
<1>2. CASE err = {} /\ "ERR" \in a.vb
  <2>1. b = [c EXCEPT !.vb = IF a.vb = {"ERR"} THEN {"READY"} ELSE a.vb \ {"ERR"}]
    BY <1>1, <1>2 DEF DropErrStatus, ClearVbStatus
  <2>2. b \in Alarms /\ b.err = err /\ b.vb = IF a.vb = {"ERR"} THEN {"READY"} ELSE a.vb \ {"ERR"}
    <3>1. (IF a.vb = {"ERR"} THEN {"READY"} ELSE a.vb \ {"ERR"}) \in SUBSET VbStatus
      BY WordWritten, NamedBits
    <3> HIDE DEF b, c
    <3>2. QED
      BY <1>1, <2>1, <3>1, WordWritten
  <2> HIDE DEF b
  <2>3. QED
    BY <1>2, <2>2 DEF Sound, b
<1>3. CASE ~(err = {} /\ "ERR" \in a.vb)
  <2>1. b = c
    BY <1>1, <1>3 DEF DropErrStatus
  <2> HIDE DEF b, c
  <2>2. QED
    BY <1>1, <1>3, <2>1 DEF Sound, b, c
<1>4. QED
  BY <1>2, <1>3

\* clearErrBit takes back one error (BLL_Alarm.c:105).
LEMMA ClearErrReports ==
  ASSUME NEW a \in Alarms, NEW e \in Errors, NEW gone, e \in gone
  PROVE  Reports(a, ClearErrBit(a, e), gone)
<1> DEFINE b == DropErrStatus([a EXCEPT !.err = a.err \ {e}])
<1>1. a.err \ {e} \in SUBSET Errors /\ a.err \ {e} \subseteq a.err
  BY DEF Alarms
<1>2. /\ b \in Alarms /\ b.err = a.err \ {e}
      /\ "RUN" \in b.vb <=> "RUN" \in a.vb
      /\ Sound(a) => Sound(b)
  BY <1>1, DropReports
<1>3. ClearErrBit(a, e) = IF e \in a.err THEN b ELSE a
  BY DEF ClearErrBit
<1> HIDE DEF b
<1>4. QED
  BY <1>2, <1>3 DEF Reports

\* setErrBit or clearErrBit, as a check says.
LEMMA SetOrClearReports ==
  ASSUME NEW a \in Alarms, NEW e \in Errors, NEW bad \in BOOLEAN, NEW gone, e \in gone
  PROVE  /\ Reports(a, SetOrClear(a, e, bad), gone)
         /\ bad => e \in SetOrClear(a, e, bad).err
<1>1. CASE bad
  BY <1>1, SetErrReports DEF SetOrClear
<1>2. CASE ~bad
  BY <1>2, ClearErrReports DEF SetOrClear
<1>3. QED
  BY <1>1, <1>2

\* clearVbStatus of a bit that is not ERR.
LEMMA ClearStatusReports ==
  ASSUME NEW a \in Alarms, NEW t \in {"DRY", "DEBUG", "END"}, NEW gone
  PROVE  Reports(a, ClearVbStatus(a, t), gone)
<1> DEFINE b == ClearVbStatus(a, t)
<1>1. b = [a EXCEPT !.vb = a.vb \ {t}]
  BY DEF ClearVbStatus
<1>2. a.vb \ {t} \in SUBSET VbStatus
  BY WordWritten
<1>3. b \in Alarms /\ b.vb = a.vb \ {t} /\ b.err = a.err
  BY <1>1, <1>2, WordWritten
<1> HIDE DEF b
<1>4. QED
  BY <1>3 DEF Reports, Sound, b

\* setVbStatus of RUN, END, DEBUG or READY.
LEMMA StatusAnswers ==
  ASSUME NEW a \in Alarms
  PROVE  /\ \A gone : Answers(a, SetVbStatus(a, "RUN"), TRUE, gone)
         /\ \A gone : Answers(a, SetVbStatus(a, "END"), FALSE, gone)
         /\ \A gone : Reports(a, SetVbStatus(a, "DEBUG"), gone)
         /\ LET b == SetVbStatus(a, "READY")
            IN  /\ b \in Alarms /\ (Sound(a) => Sound(b)) /\ b.err = a.err
                /\ "RUN" \notin a.vb => "RUN" \notin b.vb
<1>1. ASSUME NEW t \in {"RUN", "END", "DEBUG"}
      PROVE  /\ SetVbStatus(a, t) \in Alarms /\ SetVbStatus(a, t).err = a.err
             /\ SetVbStatus(a, t).vb = (a.vb \ Supersedes[t]) \cup {t}
  BY <1>1, NamedBits, StatusSet
<1>2. \A gone : Answers(a, SetVbStatus(a, "RUN"), TRUE, gone)
  <2> DEFINE b == SetVbStatus(a, "RUN")
  <2>1. b \in Alarms /\ b.err = a.err /\ b.vb = (a.vb \ {"READY", "END"}) \cup {"RUN"}
    BY <1>1, Superseded
  <2> HIDE DEF b
  <2>2. QED
    BY <2>1 DEF Answers, Sound, b
<1>3. \A gone : Answers(a, SetVbStatus(a, "END"), FALSE, gone)
  <2> DEFINE b == SetVbStatus(a, "END")
  <2>1. b \in Alarms /\ b.err = a.err /\ b.vb = (a.vb \ {"READY", "RUN"}) \cup {"END"}
    BY <1>1, Superseded
  <2> HIDE DEF b
  <2>2. QED
    BY <2>1 DEF Answers, Sound, b
<1>4. \A gone : Reports(a, SetVbStatus(a, "DEBUG"), gone)
  <2> DEFINE b == SetVbStatus(a, "DEBUG")
  <2>1. b \in Alarms /\ b.err = a.err /\ b.vb = (a.vb \ {"READY", "END"}) \cup {"DEBUG"}
    BY <1>1, Superseded
  <2> HIDE DEF b
  <2>2. QED
    BY <2>1 DEF Reports, Sound, b
<1>5. LET b == SetVbStatus(a, "READY")
      IN  /\ b \in Alarms /\ (Sound(a) => Sound(b)) /\ b.err = a.err
          /\ "RUN" \notin a.vb => "RUN" \notin b.vb
  <2> DEFINE b == SetVbStatus(a, "READY")
  <2>1. /\ b \in Alarms /\ b.err = a.err
        /\ b.vb = IF "DRY" \in a.vb THEN a.vb
                  ELSE (a.vb \ {"RUN", "DEBUG", "DRY", "END"}) \cup {"READY"}
    BY NamedBits, StatusSet, Superseded
  <2> HIDE DEF b
  <2>2. QED
    BY <2>1 DEF Sound, b
<1>6. QED
  BY <1>2, <1>3, <1>4, <1>5

\* The request for drying, in both orders the code has (Mersm_Test.c, Mersm_LeakTest.c).
LEMMA DryReports ==
  ASSUME NEW a \in Alarms, NEW gone
  PROVE  /\ Reports(a, NeedDry(a), gone)
         /\ Reports(a, SetErrBit(SetVbStatus(a, "DRY"), "NEED_DRY"), gone)
<1>1. "DRY" \in VbStatus /\ "NEED_DRY" \in Errors
  BY NamedBits
<1>2. Reports(a, NeedDry(a), gone)
  <2> DEFINE b == SetErrBit(a, "NEED_DRY")
             c == NeedDry(a)
  <2>1. b \in Alarms /\ Reports(a, b, gone) /\ Sound(b) /\ "READY" \notin b.vb
    BY <1>1, SetErrReports DEF Reports
  <2>2. c = SetVbStatus(b, "DRY")
    BY DEF NeedDry
  <2> HIDE DEF b, c
  <2>3. c \in Alarms /\ c.err = b.err /\ c.vb = (b.vb \ Supersedes["DRY"]) \cup {"DRY"}
    BY <1>1, <2>1, <2>2, StatusSet
  <2>4. QED
    BY <2>1, <2>3, Superseded DEF Reports, Sound, c
<1>3. Reports(a, SetErrBit(SetVbStatus(a, "DRY"), "NEED_DRY"), gone)
  <2> DEFINE b == SetVbStatus(a, "DRY")
             c == SetErrBit(b, "NEED_DRY")
  <2>1. b \in Alarms /\ b.err = a.err /\ b.vb = (a.vb \ Supersedes["DRY"]) \cup {"DRY"}
    BY <1>1, StatusSet
  <2>2. Reports(b, c, gone) /\ Sound(c)
    BY <1>1, <2>1, SetErrReports
  <2> HIDE DEF b, c
  <2>3. QED
    BY <2>1, <2>2, Superseded DEF Reports, b, c
<1>4. QED
  BY <1>2, <1>3

\* enterSTOP and Mersm_evInit answer END.
LEMMA EndReports ==
  ASSUME NEW a \in Alarms
  PROVE  /\ \A gone : Answers(a, Ended(a), FALSE, gone)
         /\ \A gone : Answers(a, EvInitAlarm(a), FALSE, gone)
<1>1. ASSUME NEW b \in Alarms, NEW gone PROVE Answers(b, Ended(b), FALSE, gone)
  BY <1>1, StatusAnswers DEF Ended
<1>2. ASSUME NEW gone PROVE Answers(a, EvInitAlarm(a), FALSE, gone)
  <2> DEFINE b == ClearVbStatus(a, "DRY")
             c == ClearVbStatus(b, "DEBUG")
             d == Ended(c)
  <2>1. Reports(a, b, gone) /\ b \in Alarms
    BY ClearStatusReports DEF Reports
  <2>2. Reports(b, c, gone) /\ c \in Alarms
    BY <2>1, ClearStatusReports DEF Reports
  <2>3. Answers(c, d, FALSE, {}) /\ d \in Alarms
    BY <1>1, <2>2 DEF Answers
  <2>4. Answers(d, Ended(d), FALSE, {})
    BY <1>1, <2>3
  <2>5. EvInitAlarm(a) = Ended(d)
    BY DEF EvInitAlarm
  <2> HIDE DEF b, c, d
  <2>6. QED
    BY <2>1, <2>2, <2>3, <2>4, <2>5 DEF Reports, Answers
<1>3. QED
  BY <1>1, <1>2

\* The sensor checks of Mersm_evStart keep the light curtain's error while it is
\* interrupted (Mersm_Test.c:179).
LEMMA CheckedReports ==
  ASSUME NEW a \in Alarms, sens \in [Sensors -> BOOLEAN]
  PROVE  /\ Reports(a, Checked(a), Errors)
         /\ sens["GRAT"] => "GRAT" \in Checked(a).err
<1> DEFINE g == SetOrClear(a, "GRAT", sens["GRAT"])
           v == SetOrClear(g, "VACUUM", sens["VACUUM"])
           h == SetOrClear(v, "CYL_H", ~sens["H_CYL"])
           l == SetOrClear(h, "CYL_L", sens["L_CYL"])
           Others == Errors \ {"GRAT"}
<1>1. /\ sens["GRAT"] \in BOOLEAN /\ sens["VACUUM"] \in BOOLEAN
      /\ (~sens["H_CYL"]) \in BOOLEAN /\ sens["L_CYL"] \in BOOLEAN
  BY DEF Sensors
<1>2. {"VACUUM", "CYL_H", "CYL_L"} \subseteq Others /\ "GRAT" \in Errors
  BY NamedBits
<1>3. Reports(a, g, Errors) /\ g \in Alarms /\ (sens["GRAT"] => "GRAT" \in g.err)
  BY <1>1, <1>2, SetOrClearReports DEF Reports
<1>4. Reports(g, v, Others) /\ v \in Alarms
  BY <1>1, <1>2, <1>3, SetOrClearReports DEF Reports
<1>5. Reports(v, h, Others) /\ h \in Alarms
  BY <1>1, <1>2, <1>4, SetOrClearReports DEF Reports
<1>6. Reports(h, l, Others)
  BY <1>1, <1>2, <1>5, SetOrClearReports
<1>7. Checked(a) = l
  BY DEF Checked
<1> HIDE DEF g, v, h, l
<1>8. Reports(g, l, Others)
  BY <1>4, <1>5, <1>6 DEF Reports
<1>9. Reports(a, l, Errors)
  BY <1>3, <1>8 DEF Reports
<1>10. QED
  BY <1>3, <1>7, <1>8, <1>9 DEF Reports

\* What a stop takes back on its way (Mersm_Test.c:205-245): never the light
\* curtain's error, nor that of the cylinder.
Stopped == {"VACUUM", "NO_PRODUCT", "NEED_DRY"}

LEMMA BeforeStopReports ==
  ASSUME alarm \in Alarms
  PROVE  Reports(alarm, BeforeStop, Stopped)
<1> DEFINE b == ClearErrBit(alarm, "NO_PRODUCT")
           c == ClearErrBit(b, "NEED_DRY")
<1>1. Reports(alarm, b, Stopped) /\ b \in Alarms
  BY ClearErrReports, NamedBits DEF Reports, Stopped
<1>2. Reports(b, c, Stopped)
  BY <1>1, ClearErrReports, NamedBits DEF Stopped
<1>3. Reports(alarm, c, Stopped)
  <2> HIDE DEF b, c
  <2>1. QED
    BY <1>1, <1>2, ReportsOn
<1>4. BeforeStop = IF "DRY" \in alarm.vb THEN c ELSE alarm
  BY DEF BeforeStop
<1> HIDE DEF c
<1>5. QED
  BY <1>3, <1>4, ReportsSame

\* The first and the second stop at standby.
LEMMA StopReports ==
  ASSUME NEW a \in Alarms
  PROVE  /\ Reports(a, FirstStop(a), Stopped)
         /\ LET b == SecondStop(a)
            IN  /\ b \in Alarms /\ (Sound(a) => Sound(b))
                /\ "RUN" \notin a.vb => "RUN" \notin b.vb
                /\ "GRAT" \in a.err => "GRAT" \in b.err
<1>1. Reports(a, FirstStop(a), Stopped)
  <2> DEFINE b == ClearErrBit(a, "VACUUM")
             c == ClearErrBit(b, "NO_PRODUCT")
             d == ClearErrBit(c, "NEED_DRY")
             e == ClearVbStatus(d, "END")
  <2>1. Reports(a, b, Stopped) /\ b \in Alarms
    BY ClearErrReports, NamedBits DEF Reports, Stopped
  <2>2. Reports(b, c, Stopped) /\ c \in Alarms
    BY <2>1, ClearErrReports, NamedBits DEF Reports, Stopped
  <2>3. Reports(c, d, Stopped) /\ d \in Alarms
    BY <2>2, ClearErrReports, NamedBits DEF Reports, Stopped
  <2>4. Reports(d, e, Stopped)
    BY <2>3, ClearStatusReports
  <2>5. FirstStop(a) = e
    BY DEF FirstStop
  <2> HIDE DEF b, c, d, e
  <2>6. QED
    BY <2>1, <2>2, <2>3, <2>4, <2>5, ReportsOn
<1>2. LET b == SecondStop(a)
      IN  /\ b \in Alarms /\ (Sound(a) => Sound(b))
          /\ "RUN" \notin a.vb => "RUN" \notin b.vb
          /\ "GRAT" \in a.err => "GRAT" \in b.err
  <2> DEFINE c == ClearAllErr(a)
             d == IF "GRAT" \in a.err THEN SetErrBit(c, "GRAT") ELSE c
             b == SetVbStatus(d, "READY")
  <2>1. {} \in SUBSET Errors /\ {} \subseteq a.err
    OBVIOUS
  <2>2. /\ c \in Alarms /\ (Sound(a) => Sound(c))
        /\ "RUN" \in c.vb <=> "RUN" \in a.vb
    BY <2>1, DropReports DEF ClearAllErr
  <2>3. Reports(c, SetErrBit(c, "GRAT"), {}) /\ "GRAT" \in SetErrBit(c, "GRAT").err
    BY <2>2, SetErrReports, NamedBits
  <2>4. "GRAT" \in GetAllErr(a) <=> "GRAT" \in a.err
    BY DEF GetAllErr
  <2>5. SecondStop(a) = b
    BY <2>4 DEF SecondStop
  <2> HIDE DEF c
  <2>6. /\ d \in Alarms /\ (Sound(a) => Sound(d))
        /\ "RUN" \in d.vb <=> "RUN" \in a.vb
        /\ "GRAT" \in a.err => "GRAT" \in d.err
    BY <2>2, <2>3, ReportsSame DEF Reports
  <2> HIDE DEF d
  <2>7. /\ b \in Alarms /\ (Sound(d) => Sound(b)) /\ b.err = d.err
        /\ "RUN" \notin d.vb => "RUN" \notin b.vb
    BY <2>6, StatusAnswers
  <2> HIDE DEF b
  <2>8. QED
    BY <2>5, <2>6, <2>7
<1>3. QED
  BY <1>1, <1>2

(***************************************************************************)
(* What one handler of the test machine does.                              *)
(***************************************************************************)

\* The status word shows RUN exactly during a cycle.
RunShown == "RUN" \in alarm.vb <=> test # "STOP"

\* Alarm words a go with state s: they are sound, show RUN as they should, and
\* keep the light curtain's error while it is interrupted.
Fits(a, s) ==
  /\ Sound(alarm) => Sound(a)
  /\ RunShown => ("RUN" \in a.vb <=> s # "STOP")
  /\ sens["GRAT"] /\ "GRAT" \in alarm.err => "GRAT" \in a.err

\* State s may follow: with the curtain interrupted no cycle starts, and water
\* is drained.
MayFollow(s) ==
  /\ sens["GRAT"] /\ test = "STOP" => s = "STOP"
  /\ test \in Wet /\ s # test => s \in Wet \cup {"WATER_EXH"}

\* The timers whose events end state s.
EndTimers(s) == IF s = "WATER_IN" THEN Timers ELSE EntryTimer(s)

\* The state does not depend on an event that is in the queue already.
Armed ==
  \/ test = "STOP" \/ blocked # "no"
  \/ EndTimers(test) \cap tmr.run # {}
  \/ test = "CYL_UP" /\ "CYL_H" \in alarm.err

\* A new state has its timer running and no other; a state that stays starts only
\* timers it will stop, and goes on waiting unless its event was taken.
Entered ==
  /\ EntryTimer(test') \subseteq tmr'.run
  /\ tmr'.run \subseteq (tmr.run \ ExitTimers(test)) \cup EntryTimer(test')

Stayed(name) ==
  /\ test' = test
  /\ tmr'.run \subseteq tmr.run \cup ExitTimers(test)
  /\ \/ Armed'
     \/ /\ tmr.run \subseteq tmr'.run
        /\ "CYL_H" \in alarm.err => "CYL_H" \in alarm'.err
        /\ name \notin {TimerEvent[t] : t \in EndTimers(test)}

TestStep(name) ==
  /\ Fits(alarm', test') /\ MayFollow(test')
  /\ Entered \/ Stayed(name)

\* Alarm calls that answer nothing fit every state of the running cycle.
LEMMA ReportsFit ==
  ASSUME NEW a, NEW gone, Reports(alarm, a, gone), "GRAT" \notin gone,
         NEW s, s = "STOP" <=> test = "STOP"
  PROVE  Fits(a, s)
  BY DEF Reports, Fits, RunShown

\* Those that answer END fit the end of it.
LEMMA AnswersFit ==
  ASSUME NEW a, NEW gone, Answers(alarm, a, FALSE, gone), "GRAT" \notin gone
  PROVE  Fits(a, "STOP")
  BY DEF Answers, Fits, RunShown

\* The timers after they were started or stopped.
LEMMA Running ==
  ASSUME NEW t \in TimerStates
  PROVE  /\ \A name \in Timers : Start(t, name).run = t.run \cup {name}
         /\ \A names : Stop(t, names).run = t.run \ names
  BY DEF Start, Stop, TimerStates

\* The entry of a state sets the timers.
LEMMA EnterStep ==
  ASSUME tmr \in TimerStates, NEW s, NEW a, Enter(s, a), Fits(a, s), MayFollow(s),
         NEW name
  PROVE  TestStep(name) /\ Entered
<1> DEFINE off == Stop(tmr, ExitTimers(test) \cup IF s = "STOP" THEN {"delay"} ELSE {})
<1>1. /\ test' = s /\ alarm' = a /\ tmr' = StartAll(off, EntryTimer(s))
  BY DEF Enter
<1>2. off \in TimerStates /\ off.run \subseteq tmr.run \ ExitTimers(test)
  BY TimersTyped, Running
<1>3. EntryTimer(s) \in {{}, {"timeout"}, {"delay"}}
  BY DEF EntryTimer
<1>4. tmr'.run = off.run \cup EntryTimer(s)
  <2> HIDE DEF off
  <2>1. CASE EntryTimer(s) = {}
    BY <1>1, <2>1 DEF StartAll
  <2>2. CASE EntryTimer(s) # {}
    <3>1. PICK n \in Timers : EntryTimer(s) = {n}
      BY <1>3, <2>2 DEF Timers
    <3>2. tmr' = Start(off, n)
      BY <1>1, <3>1 DEF StartAll
    <3>3. QED
      BY <1>2, <3>1, <3>2, Running
  <2>3. QED
    BY <2>1, <2>2
<1> HIDE DEF off
<1>5. Entered
  BY <1>1, <1>2, <1>4 DEF Entered
<1>6. QED
  BY <1>1, <1>5 DEF TestStep

\* A handler that changes at most alarm words, and is not that of an event the
\* state waits for, or leaves a report that the cylinder did not arrive.
LEMMA AlarmStep ==
  ASSUME NEW a, NEW gone, Reports(alarm, a, gone), "GRAT" \notin gone, OnlyAlarm(a),
         tmr \in TimerStates, NEW name,
         \/ "CYL_H" \notin gone /\ name \notin {TimerEvent[t] : t \in EndTimers(test)}
         \/ Armed'
  PROVE  TestStep(name)
<1>1. /\ test' = test /\ tmr' = tmr /\ alarm' = a
  BY DEF OnlyAlarm, testVars
<1>2. Fits(alarm', test')
  BY <1>1, ReportsFit
<1>3. MayFollow(test')
  BY <1>1 DEF MayFollow
<1>4. Stayed(name)
  BY <1>1 DEF Stayed, Reports
<1>5. QED
  BY <1>2, <1>3, <1>4 DEF TestStep

\* An event that the state ignores.
LEMMA IgnoreStep ==
  ASSUME TestIgnores, tmr \in TimerStates, alarm \in Alarms, NEW name,
         name \notin {TimerEvent[t] : t \in EndTimers(test)} \/ Armed'
  PROVE  TestStep(name)
<1>1. OnlyAlarm(alarm) /\ Reports(alarm, alarm, {})
  BY ReportsSame DEF TestIgnores, OnlyAlarm
<1>2. QED
  BY <1>1, AlarmStep

\* exitWATER_IN up to its wait.
LEMMA BeginExitStep ==
  ASSUME test = "WATER_IN", NEW a, NEW gone, Reports(alarm, a, gone), "GRAT" \notin gone,
         NEW why \in {"stop", "delayOver", "full", "late"}, BeginExitWaterIn(why, a),
         NEW name
  PROVE  TestStep(name)
<1>1. test' = test /\ tmr' = tmr /\ alarm' = a /\ blocked' = why
  BY DEF BeginExitWaterIn, testVars
<1>2. Fits(alarm', test') /\ MayFollow(test')
  BY <1>1, ReportsFit DEF MayFollow
<1>3. Armed'
  BY <1>1 DEF Armed
<1>4. Stayed(name)
  BY <1>1, <1>3 DEF Stayed
<1>5. QED
  BY <1>2, <1>4 DEF TestStep

\* The kinds of states, and the timers of each.
LEMMA StateKinds ==
  /\ "STOP" \notin Wet /\ "STOP" \notin PreWater /\ "STOP" \notin Measuring
  /\ Measuring \subseteq Wet /\ "ADD_PRES" \in Wet /\ "WATER_IN" \in Wet
  /\ PreWater \cap Wet = {} /\ {"WATER_EXH", "WATER_PUMP", "CYL_UP"} \cap Wet = {}
  BY DEF Wet, PreWater, Measuring

\* The events that may end each state.
LEMMA EndEvents ==
  /\ TimerEvent["delay"] = "EV_DELAY_OVER" /\ TimerEvent["timeout"] = "EV_TIME_OUT"
  /\ \A s : {TimerEvent[t] : t \in EndTimers(s)} \subseteq {"EV_DELAY_OVER", "EV_TIME_OUT"}
  /\ "EV_TIME_OUT" \notin {TimerEvent[t] : t \in EndTimers("STOP")}
  /\ \A s : s \notin {"CYL_DOWN", "CYL_UP", "WATER_IN", "WATER_EXH"} =>
        "EV_TIME_OUT" \notin {TimerEvent[t] : t \in EndTimers(s)}
  /\ \A s \in {"STOP", "CYL_DOWN", "CYL_UP"} :
        "EV_DELAY_OVER" \notin {TimerEvent[t] : t \in EndTimers(s)}
<1>1. TimerEvent["delay"] = "EV_DELAY_OVER" /\ TimerEvent["timeout"] = "EV_TIME_OUT"
  BY DEF TimerEvent, Timers
<1>2. \A s : EndTimers(s) \subseteq {"delay", "timeout"}
  BY DEF EndTimers, EntryTimer, Timers
<1>3. \A s : s \notin {"CYL_DOWN", "CYL_UP", "WATER_IN", "WATER_EXH"} =>
        "timeout" \notin EndTimers(s)
  BY DEF EndTimers, EntryTimer
<1>4. \A s \in {"STOP", "CYL_DOWN", "CYL_UP"} : "delay" \notin EndTimers(s)
  BY DEF EndTimers, EntryTimer
<1>5. QED
  BY <1>1, <1>2, <1>3, <1>4

\* After a state that is neither standby nor wet any state may follow.
LEMMA DryFollows ==
  ASSUME test \notin Wet, test # "STOP", NEW s
  PROVE  MayFollow(s)
  BY DEF MayFollow

\* After a wet one, a wet one or draining.
LEMMA WetFollows ==
  ASSUME test # "STOP", NEW s \in Wet \cup {"WATER_EXH"}
  PROVE  MayFollow(s)
  BY DEF MayFollow

\* An entry of a running state from another: the alarm words only report.
LEMMA RunningStep ==
  ASSUME tmr \in TimerStates, test # "STOP", NEW s, s # "STOP", NEW a, NEW gone,
         Reports(alarm, a, gone), "GRAT" \notin gone, Enter(s, a), NEW name,
         test \in Wet => s \in Wet \cup {"WATER_EXH"}
  PROVE  TestStep(name) /\ Entered
<1>1. Fits(a, s)
  BY ReportsFit
<1>2. MayFollow(s)
  BY DryFollows, WetFollows
<1>3. QED
  BY <1>1, <1>2, EnterStep

\* The end of a cycle.
LEMMA EndingStep ==
  ASSUME tmr \in TimerStates, test = "CYL_UP", NEW a, NEW gone,
         Answers(alarm, a, FALSE, gone), "GRAT" \notin gone, Enter("STOP", a), NEW name
  PROVE  TestStep(name)
<1>1. Fits(a, "STOP") /\ MayFollow("STOP")
  BY AnswersFit, DryFollows, StateKinds
<1>2. QED
  BY <1>1, EnterStep

\* Mersm_evStart: an interrupted curtain is an error, which refuses the cycle.
LEMMA StartStep ==
  ASSUME TestTyped, sens \in [Sensors -> BOOLEAN], TestEvStart
  PROVE  TestStep("EV_START")
<1> DEFINE a == Checked(alarm)
<1>1. alarm \in Alarms /\ tmr \in TimerStates
  BY DEF TestTyped
<1>2. Reports(alarm, a, Errors) /\ (sens["GRAT"] => "GRAT" \in a.err) /\ a \in Alarms
  BY <1>1, CheckedReports DEF Reports
<1>3. "EV_START" \notin {TimerEvent[t] : t \in EndTimers(test)}
  BY EndEvents
<1>4. CASE test = "STOP" /\ GetAllErr(a) = {} /\ Enter("CYL_DOWN", SetVbStatus(a, "RUN"))
  <2> DEFINE b == SetVbStatus(a, "RUN")
  <2>1. Answers(a, b, TRUE, {})
    BY <1>2, StatusAnswers
  <2>2. ~sens["GRAT"]
    BY <1>2, <1>4 DEF GetAllErr
  <2>3. Enter("CYL_DOWN", b)
    BY <1>4
  <2> HIDE DEF a, b
  <2>4. Fits(b, "CYL_DOWN")
    BY <1>2, <2>1, <2>2 DEF Fits, Reports, Answers
  <2>5. MayFollow("CYL_DOWN")
    BY <1>4, <2>2, StateKinds DEF MayFollow
  <2>6. QED
    BY <1>1, <2>3, <2>4, <2>5, EnterStep
<1>5. CASE test = "STOP" /\ OnlyAlarm(a)
  <2>1. test' = test /\ tmr' = tmr /\ alarm' = a /\ blocked' = blocked
    BY <1>5 DEF OnlyAlarm, testVars
  <2> HIDE DEF a
  <2>2. Fits(alarm', test')
    BY <1>2, <1>5, <2>1 DEF Fits, Reports, RunShown
  <2>3. MayFollow(test') /\ Stayed("EV_START")
    BY <1>3, <1>5, <2>1 DEF MayFollow, Stayed, Armed
  <2>4. QED
    BY <2>2, <2>3 DEF TestStep
<1>6. CASE TestIgnores
  BY <1>1, <1>3, <1>6, IgnoreStep
<1>7. QED
  BY <1>4, <1>5, <1>6 DEF TestEvStart

\* Mersm_evStop.
LEMMA StopStep ==
  ASSUME TestTyped, TestEvStop
  PROVE  TestStep("EV_STOP")
<1> DEFINE a == BeforeStop
<1>1. alarm \in Alarms /\ tmr \in TimerStates
  BY DEF TestTyped
<1>2. Reports(alarm, a, Stopped) /\ a \in Alarms /\ "GRAT" \notin Stopped
  BY <1>1, BeforeStopReports DEF Reports, Stopped
<1>3. CASE StopInStop
  <2> DEFINE f == FirstStop(a)
  <2>1. /\ test = "STOP" /\ test' = test /\ tmr' = tmr
        /\ alarm' \in {SecondStop(a), SetVbStatus(f, "READY"), f}
    BY <1>3 DEF StopInStop
  <2>2. Reports(a, f, Stopped) /\ f \in Alarms
    BY <1>2, StopReports DEF Reports
  <2>3. LET b == SecondStop(a)
        IN  /\ b \in Alarms /\ (Sound(a) => Sound(b))
            /\ "RUN" \notin a.vb => "RUN" \notin b.vb
            /\ "GRAT" \in a.err => "GRAT" \in b.err
    BY <1>2, StopReports
  <2>4. LET b == SetVbStatus(f, "READY")
        IN  /\ b \in Alarms /\ (Sound(f) => Sound(b)) /\ b.err = f.err
            /\ "RUN" \notin f.vb => "RUN" \notin b.vb
    BY <2>2, StatusAnswers
  <2> HIDE DEF a, f
  <2>5. /\ Sound(a) => Sound(alarm')
        /\ "RUN" \notin a.vb => "RUN" \notin alarm'.vb
        /\ "GRAT" \in a.err => "GRAT" \in alarm'.err
    BY <1>2, <2>1, <2>2, <2>3, <2>4 DEF Reports
  <2>6. Fits(alarm', test')
    BY <1>2, <2>1, <2>5 DEF Fits, Reports, RunShown
  <2>7. MayFollow(test') /\ Stayed("EV_STOP")
    BY <2>1 DEF MayFollow, Stayed, Armed
  <2>8. QED
    BY <2>6, <2>7 DEF TestStep
<1>4. CASE /\ test \in PreWater \cup {"WATER_EXH", "WATER_PUMP"}
           /\ Enter("CYL_UP", a)
  <2>1. test \notin Wet /\ test # "STOP"
    BY <1>4, StateKinds
  <2> HIDE DEF a
  <2>2. QED
    BY <1>1, <1>2, <1>4, <2>1, RunningStep
<1>5. CASE test = "WATER_IN" /\ BeginExitWaterIn("stop", a)
  <2> HIDE DEF a
  <2>1. QED
    BY <1>2, <1>5, BeginExitStep
<1>6. CASE test \in Measuring \cup {"ADD_PRES"} /\ Enter("WATER_EXH", a)
  <2>1. test # "STOP"
    BY <1>6, StateKinds
  <2> HIDE DEF a
  <2>2. QED
    BY <1>1, <1>2, <1>6, <2>1, RunningStep
<1>7. CASE test = "CYL_UP" /\ Enter("STOP", Ended(a))
  <2> DEFINE b == Ended(a)
  <2>1. Answers(a, b, FALSE, Stopped) /\ Enter("STOP", b)
    BY <1>2, <1>7, EndReports
  <2> HIDE DEF a, b
  <2>2. Answers(alarm, b, FALSE, Stopped)
    BY <1>2, <2>1 DEF Reports, Answers
  <2>3. QED
    BY <1>1, <1>2, <1>7, <2>1, <2>2, EndingStep
<1>8. QED
  BY <1>3, <1>4, <1>5, <1>6, <1>7 DEF TestEvStop

\* The stages of the leak measurement and its end.
LEMMA MeasureStep ==
  ASSUME TestTyped, Measure
  PROVE  TestStep("EV_DELAY_OVER")
<1>1. alarm \in Alarms /\ tmr \in TimerStates
  BY DEF TestTyped
<1>2. PICK a \in Measured :
        \/ \E s, c : \/ NextStage(s, a)
                     \/ LowEnds(c, FALSE, a) \/ HighEnds(c, a)
        \/ \E c, allNG : LowEnds(c, allNG, a) \/ HighEnds(c, a)
  BY DEF Measure
<1>3. Reports(alarm, a, {}) /\ a \in Alarms
  BY <1>1, <1>2, DryReports, ReportsSame DEF Measured, Reports
<1>4. test \in Measuring /\ test # "STOP" /\ test \in Wet /\ test # "WATER_IN"
  BY StateKinds DEF Measure, Measuring
<1>5. /\ Reports(a, SetErrBit(a, "WATER_PRES"), {}) /\ Reports(a, NeedDry(a), {})
  BY <1>3, SetErrReports, DryReports, NamedBits
<1>6. /\ Reports(alarm, SetErrBit(a, "WATER_PRES"), {}) /\ Reports(alarm, NeedDry(a), {})
  BY <1>3, <1>5, ReportsOn
<1>7. ASSUME NEW c, NEW allNG, LowEnds(c, allNG, a) \/ HighEnds(c, a)
      PROVE  TestStep("EV_DELAY_OVER")
  BY <1>1, <1>3, <1>4, <1>6, <1>7, StateKinds, RunningStep DEF LowEnds, HighEnds
<1>8. ASSUME NEW s, NextStage(s, a)
      PROVE  TestStep("EV_DELAY_OVER")
  <2>1. test' = test /\ alarm' = a /\ tmr'.run = tmr.run \cup {"delay"}
    BY <1>1, <1>8, TimersTyped, Running DEF NextStage, Timers
  <2>2. Fits(alarm', test') /\ MayFollow(test')
    BY <1>3, <2>1, ReportsFit DEF MayFollow
  <2>3. EndTimers(test) = {"delay"} /\ ExitTimers(test) = {"delay"}
    BY <1>4 DEF EndTimers, EntryTimer, ExitTimers, Measuring
  <2>4. Armed'
    BY <2>1, <2>3 DEF Armed
  <2>5. Stayed("EV_DELAY_OVER")
    BY <2>1, <2>3, <2>4 DEF Stayed
  <2>6. QED
    BY <2>2, <2>5 DEF TestStep
<1>9. QED
  BY <1>2, <1>7, <1>8

\* Mersm_evDelayOver: each state that waits for the delay is left.
LEMMA DelayOverStep ==
  ASSUME TestTyped, TestEvDelayOver
  PROVE  TestStep("EV_DELAY_OVER")
<1> DEFINE name == "EV_DELAY_OVER"
<1>1. alarm \in Alarms /\ tmr \in TimerStates
  BY DEF TestTyped
<1>2. /\ Reports(alarm, alarm, {})
      /\ \A e \in Errors : Reports(alarm, SetErrBit(alarm, e), {})
  BY <1>1, ReportsSame, SetErrReports
<1>3. {"TOR13", "PRODUCT_TEST", "AIR_PURGE", "AIR_PUMP", "IS_DRY"} \subseteq PreWater
  BY DEF PreWater
<1>4. ASSUME test \notin Wet, test # "STOP", NEW s, s # "STOP", NEW a,
             Reports(alarm, a, {}), Enter(s, a)
      PROVE  TestStep(name)
  BY <1>1, <1>4, RunningStep
<1>5. CASE Tor13Over
  BY <1>2, <1>3, <1>4, <1>5, StateKinds, NamedBits DEF Tor13Over
<1>6. CASE ProductTestOver
  BY <1>2, <1>3, <1>4, <1>6, StateKinds, NamedBits DEF ProductTestOver
<1>7. CASE IsDryOver
  <2> DEFINE a == NeedDry(alarm)
             b == SetErrBit(a, "LIQ")
  <2>1. Reports(alarm, a, {}) /\ a \in Alarms
    BY <1>1, DryReports DEF Reports
  <2>2. Reports(a, b, {})
    BY <2>1, SetErrReports, NamedBits
  <2>3. \/ Enter("WATER_IN", alarm)
        \/ Enter("CYL_UP", a) \/ Enter("CYL_UP", b)
    BY <1>7 DEF IsDryOver
  <2> HIDE DEF a, b
  <2>4. Reports(alarm, b, {})
    BY <2>1, <2>2, ReportsOn
  <2>5. QED
    BY <1>2, <1>3, <1>4, <1>7, <2>1, <2>3, <2>4, StateKinds DEF IsDryOver
<1>8. CASE AddPresOver
  <2>1. test = "ADD_PRES" /\ test # "STOP" /\ "HIGH" \in Wet
    BY <1>8 DEF AddPresOver, Wet
  <2>2. PICK e \in {"ADD_PRES_TIME_OUT", "WATER_PRES"} :
          Enter("HIGH", alarm) \/ Enter("WATER_EXH", SetErrBit(alarm, e))
    BY <1>8 DEF AddPresOver
  <2>3. QED
    BY <1>1, <1>2, <2>1, <2>2, RunningStep, NamedBits
<1>9. CASE test = "WATER_IN" /\ BeginExitWaterIn("delayOver", alarm)
  BY <1>2, <1>9, BeginExitStep
<1>10. CASE Measure
  BY <1>10, MeasureStep
<1>11. CASE \/ test = "AIR_PURGE" /\ Enter("AIR_PUMP", alarm)
            \/ test = "AIR_PUMP" /\ Enter("IS_DRY", alarm)
            \/ test = "WATER_EXH" /\ Enter("WATER_PUMP", alarm)
            \/ test = "WATER_PUMP" /\ Enter("CYL_UP", alarm)
  BY <1>2, <1>3, <1>4, <1>11, StateKinds
<1>12. CASE test \in {"STOP", "CYL_DOWN", "CYL_UP"} /\ TestIgnores
  BY <1>1, <1>12, IgnoreStep, EndEvents
<1>13. QED
  BY <1>5, <1>6, <1>7, <1>8, <1>9, <1>10, <1>11, <1>12 DEF TestEvDelayOver

\* Mersm_evLiqSwitch: at most a delay starts, which the state will stop.
LEMMA LiqSwitchStep ==
  ASSUME TestTyped, NEW on \in BOOLEAN, TestEvLiqSwitch(on)
  PROVE  TestStep("EV_LIQ_SWITCH")
<1> DEFINE name == "EV_LIQ_SWITCH"
<1>1. alarm \in Alarms /\ tmr \in TimerStates
  BY DEF TestTyped
<1>2. name \notin {TimerEvent[t] : t \in EndTimers(test)}
  BY EndEvents
<1>3. /\ Reports(alarm, ClearErrBit(alarm, "LIQ"), {"LIQ"})
      /\ \A bad \in BOOLEAN : Reports(alarm, SetOrClear(alarm, "LIQ", bad), {"LIQ"})
  BY <1>1, ClearErrReports, SetOrClearReports, NamedBits
<1>4. Start(tmr, "delay") \in TimerStates /\ Start(tmr, "delay").run = tmr.run \cup {"delay"}
  BY <1>1, TimersTyped, Running DEF Timers
<1>5. CASE /\ test = "WATER_IN" /\ tmr' = Stop(Start(tmr, "delay"), {"timeout"})
           /\ alarm' = ClearErrBit(alarm, "LIQ") /\ UNCHANGED testVars
  <2>1. test' = test /\ tmr'.run = (tmr.run \cup {"delay"}) \ {"timeout"}
    BY <1>4, <1>5, Running DEF testVars
  <2>2. Fits(alarm', test') /\ MayFollow(test')
    BY <1>3, <1>5, <2>1, ReportsFit DEF MayFollow
  <2>3. EndTimers(test) = Timers /\ ExitTimers(test) = Timers
    BY <1>5 DEF EndTimers, ExitTimers
  <2>4. Stayed(name)
    BY <2>1, <2>3 DEF Stayed, Armed, Timers
  <2>5. QED
    BY <2>2, <2>4 DEF TestStep
<1>6. CASE /\ test = "WATER_EXH" /\ tmr' = Start(tmr, "delay")
           /\ alarm' = ClearErrBit(alarm, "LIQ") /\ UNCHANGED testVars
  <2>1. test' = test /\ tmr'.run = tmr.run \cup {"delay"}
    BY <1>4, <1>6 DEF testVars
  <2>2. Fits(alarm', test') /\ MayFollow(test')
    BY <1>3, <1>6, <2>1, ReportsFit DEF MayFollow
  <2>3. ExitTimers(test) = Timers
    BY <1>6 DEF ExitTimers
  <2>4. Stayed(name)
    BY <1>2, <1>3, <1>6, <2>1, <2>3 DEF Stayed, Timers, Reports
  <2>5. QED
    BY <2>2, <2>4 DEF TestStep
<1>7. ASSUME NEW bad \in BOOLEAN, OnlyAlarm(SetOrClear(alarm, "LIQ", bad))
      PROVE  TestStep(name)
  BY <1>1, <1>2, <1>3, <1>7, AlarmStep
<1>8. CASE OnlyAlarm(ClearErrBit(alarm, "LIQ"))
  BY <1>1, <1>2, <1>3, <1>8, AlarmStep
<1>9. CASE TestIgnores
  BY <1>1, <1>2, <1>9, IgnoreStep
<1>10. (~on) \in BOOLEAN
  OBVIOUS
<1>11. QED
  BY <1>5, <1>6, <1>7, <1>8, <1>9, <1>10 DEF TestEvLiqSwitch

\* Mersm_evCylPosH and Mersm_evCylPosL.
LEMMA CylPosStep ==
  ASSUME TestTyped, NEW on, NEW name \in {"EV_CYL_POS_H", "EV_CYL_POS_L"},
         TestEvCylPosH(on) \/ TestEvCylPosL(on)
  PROVE  TestStep(name)
<1>1. alarm \in Alarms /\ tmr \in TimerStates
  BY DEF TestTyped
<1>2. name \notin {TimerEvent[t] : t \in EndTimers(test)}
  BY EndEvents
<1>3. CASE test = "CYL_UP" /\ Enter("STOP", ClearErrBit(Ended(alarm), "CYL_H"))
  <2> DEFINE a == Ended(alarm)
             b == ClearErrBit(a, "CYL_H")
  <2>1. Answers(alarm, a, FALSE, {}) /\ a \in Alarms
    BY <1>1, EndReports DEF Answers
  <2>2. Reports(a, b, {"CYL_H"}) /\ Enter("STOP", b)
    BY <1>3, <2>1, ClearErrReports, NamedBits
  <2> HIDE DEF a, b
  <2>3. Answers(alarm, b, FALSE, {"CYL_H"})
    BY <2>1, <2>2 DEF Answers, Reports
  <2>4. QED
    BY <1>1, <1>3, <2>2, <2>3, EndingStep
<1>4. CASE test = "CYL_DOWN" /\ Enter("TOR13", ClearErrBit(alarm, "CYL_L"))
  <2>1. Reports(alarm, ClearErrBit(alarm, "CYL_L"), {"CYL_L"})
    BY <1>1, ClearErrReports, NamedBits
  <2>2. test # "STOP" /\ test \notin Wet
    BY <1>4, StateKinds DEF Wet
  <2>3. QED
    BY <1>1, <1>4, <2>1, <2>2, RunningStep
<1>5. CASE TestIgnores
  BY <1>1, <1>2, <1>5, IgnoreStep
<1>6. QED
  BY <1>3, <1>4, <1>5 DEF TestEvCylPosH, TestEvCylPosL

\* Mersm_evTimeOut: a cylinder that has not come up is reported.
LEMMA TimeOutStep ==
  ASSUME TestTyped, TestEvTimeOut
  PROVE  TestStep("EV_TIME_OUT")
<1> DEFINE name == "EV_TIME_OUT"
<1>1. alarm \in Alarms /\ tmr \in TimerStates
  BY DEF TestTyped
<1>2. /\ Reports(alarm, alarm, {})
      /\ \A e \in Errors : /\ Reports(alarm, SetErrBit(alarm, e), {})
                           /\ e \in SetErrBit(alarm, e).err
  BY <1>1, ReportsSame, SetErrReports
<1>3. CASE test = "CYL_DOWN"
  <2>1. test # "STOP" /\ test \notin Wet
    BY <1>3, StateKinds DEF Wet
  <2>2. Reports(alarm, ClearErrBit(alarm, "CYL_L"), {"CYL_L"})
    BY <1>1, ClearErrReports, NamedBits
  <2>3. \/ Enter("TOR13", ClearErrBit(alarm, "CYL_L"))
        \/ Enter("CYL_UP", SetErrBit(alarm, "CYL_L"))
    BY <1>3 DEF TestEvTimeOut
  <2>4. QED
    BY <1>1, <1>2, <2>1, <2>2, <2>3, RunningStep, NamedBits
<1>4. CASE test = "CYL_UP" /\ Enter("STOP", ClearErrBit(Ended(alarm), "CYL_H"))
  <2> DEFINE a == Ended(alarm)
             b == ClearErrBit(a, "CYL_H")
  <2>1. Answers(alarm, a, FALSE, {}) /\ a \in Alarms
    BY <1>1, EndReports DEF Answers
  <2>2. Reports(a, b, {"CYL_H"}) /\ Enter("STOP", b)
    BY <1>4, <2>1, ClearErrReports, NamedBits
  <2> HIDE DEF a, b
  <2>3. Answers(alarm, b, FALSE, {"CYL_H"})
    BY <2>1, <2>2 DEF Answers, Reports
  <2>4. QED
    BY <1>1, <1>4, <2>2, <2>3, EndingStep
<1>5. CASE test = "CYL_UP" /\ OnlyAlarm(SetErrBit(alarm, "CYL_H"))
  <2>1. Armed'
    BY <1>2, <1>5, NamedBits DEF Armed, OnlyAlarm, testVars
  <2>2. QED
    BY <1>1, <1>2, <1>5, <2>1, AlarmStep, NamedBits
<1>6. CASE /\ test = "WATER_IN"
           /\ \/ BeginExitWaterIn("full", alarm)
              \/ BeginExitWaterIn("late", SetErrBit(alarm, "WATER_IN_TIME_OUT"))
  BY <1>2, <1>6, BeginExitStep, NamedBits
<1>7. CASE test = "WATER_EXH" /\ Enter("WATER_PUMP", alarm)
  BY <1>1, <1>2, <1>7, RunningStep, StateKinds
<1>8. CASE test \notin {"CYL_DOWN", "CYL_UP", "WATER_IN", "WATER_EXH"} /\ TestIgnores
  BY <1>1, <1>8, IgnoreStep, EndEvents
<1>9. QED
  BY <1>3, <1>4, <1>5, <1>6, <1>7, <1>8 DEF TestEvTimeOut

\* The end of the wait of exitWATER_IN: drained or measured.
LEMMA ResumeStep ==
  ASSUME TestTyped, test = "WATER_IN", EndExitWaterIn
  PROVE  TestStep("") /\ Entered
<1>1. alarm \in Alarms /\ tmr \in TimerStates
  BY DEF TestTyped
<1>2. /\ Reports(alarm, alarm, {}) /\ Reports(alarm, SetErrBit(alarm, "LIQ"), {})
      /\ Reports(alarm, ClearErrBit(alarm, "WATER_IN_TIME_OUT"), {"WATER_IN_TIME_OUT"})
  BY <1>1, ReportsSame, SetErrReports, ClearErrReports, NamedBits
<1>3. "LOW" \in Wet
  BY DEF Wet
<1>4. QED
  BY <1>1, <1>2, <1>3, RunningStep DEF EndExitWaterIn

(***************************************************************************)
(* What one handler of the drying machine does.                            *)
(***************************************************************************)

\* Drying shows RUN all the time, a new state has its timer running and no other,
\* and an idle machine none.
DryStep(name) ==
  /\ Sound(alarm) => Sound(alarm')
  /\ "RUN" \in alarm.vb => "RUN" \in alarm'.vb
  /\ "GRAT" \in alarm.err => "GRAT" \in alarm'.err
  /\ \/ /\ dry' # "NULL"
        /\ DryTimer(dry') \in tmr'.run
        /\ tmr'.run \subseteq (tmr.run \ {DryTimer(dry)}) \cup {DryTimer(dry')}
     \/ dry' = "NULL" /\ dry # "NULL" /\ tmr'.run \subseteq tmr.run \ {DryTimer(dry)}
     \/ UNCHANGED <<dry, tmr>> /\ (dry # "NULL" => name # TimerEvent[DryTimer(dry)])

\* Every state entry of Mersm_Dry.c.
LEMMA DryEnterStep ==
  ASSUME tmr \in TimerStates, dry # "NULL", NEW s \in DryRunning, NEW a, NEW gone,
         Reports(alarm, a, gone), "GRAT" \notin gone, DryEnter(s, a), NEW name
  PROVE  DryStep(name)
<1>1. /\ dry' = s /\ alarm' = a
      /\ tmr' = Start(Stop(tmr, {DryTimer(dry)}), DryTimer(s))
  BY DEF DryEnter
<1>2. Stop(tmr, {DryTimer(dry)}) \in TimerStates /\ DryTimer(s) \in Timers
  BY TimersTyped DEF DryTimer, Timers
<1>3. tmr'.run = (tmr.run \ {DryTimer(dry)}) \cup {DryTimer(s)}
  BY <1>1, <1>2, Running
<1>4. s # "NULL"
  BY DEF DryRunning
<1>5. QED
  BY <1>1, <1>3, <1>4 DEF DryStep, Reports

\* The handlers of Mersm_Dry.c that end in the drying machine.
LEMMA DryHandlersStep ==
  ASSUME tmr \in TimerStates, alarm \in Alarms, dry \in DryStates, NEW on, NEW name,
         \/ DryEvStop
         \/ name = "EV_DELAY_OVER" /\ DryEvDelayOver
         \/ name = "EV_CYL_POS_L" /\ DryEvCylPosL(on)
         \/ name = "EV_TIME_OUT" /\ DryEvTimeOut
  PROVE  DryStep(name)
<1>1. /\ Reports(alarm, alarm, {"CYL_L"})
      /\ Reports(alarm, ClearErrBit(alarm, "CYL_L"), {"CYL_L"})
      /\ \A e \in Errors : Reports(alarm, SetErrBit(alarm, e), {"CYL_L"})
  BY ReportsSame, ClearErrReports, SetErrReports, NamedBits
<1>2. {"CYL_DOWN", "CLY_UP", "AIR_PUGE", "AIR_PUMP", "LEAK"} = DryRunning /\ "NULL" \notin DryRunning
  BY DEF DryRunning
<1>3. ASSUME dry # "NULL", NEW s \in DryRunning, NEW a, Reports(alarm, a, {"CYL_L"}),
             DryEnter(s, a)
      PROVE  DryStep(name)
  BY <1>3, DryEnterStep
<1>4. ASSUME DryIgnores, dry # "NULL" => name # TimerEvent[DryTimer(dry)]
      PROVE  DryStep(name)
  BY <1>4 DEF DryIgnores, dryVars, DryStep
<1>5. CASE DryEvStop
  BY <1>1, <1>2, <1>3, <1>5 DEF DryEvStop
<1>6. CASE name = "EV_DELAY_OVER" /\ DryEvDelayOver
  <2>1. CASE dry \in {"NULL", "CYL_DOWN", "CLY_UP"} /\ DryIgnores
    BY <1>4, <1>6, <2>1, EndEvents DEF DryTimer
  <2>2. QED
    BY <1>1, <1>2, <1>3, <1>6, <2>1, NamedBits DEF DryEvDelayOver
<1>7. CASE name = "EV_CYL_POS_L" /\ DryEvCylPosL(on)
  <2>1. CASE DryIgnores
    BY <1>4, <1>7, <2>1, EndEvents DEF DryTimer
  <2>2. QED
    BY <1>1, <1>2, <1>3, <1>7, <2>1 DEF DryEvCylPosL
<1>8. CASE name = "EV_TIME_OUT" /\ DryEvTimeOut
  <2>1. CASE dry \notin {"CYL_DOWN", "CLY_UP"} /\ DryIgnores
    BY <1>4, <1>8, <2>1, EndEvents DEF DryTimer
  <2>2. CASE /\ dry = "CLY_UP" /\ DryLeave /\ tmr' = DryTimersLeft
             /\ alarm' = SetErrBit(alarm, "CYL_H")
    <3>1. tmr'.run = tmr.run \ {"timeout"} /\ DryTimer(dry) = "timeout"
      BY <2>2, Running DEF DryTimersLeft, DryTimer
    <3>2. QED
      BY <1>1, <2>2, <3>1, NamedBits DEF DryStep, Reports, DryLeave
  <2>3. QED
    BY <1>1, <1>2, <1>3, <1>8, <2>1, <2>2, NamedBits DEF DryEvTimeOut
<1>9. QED
  BY <1>5, <1>6, <1>7, <1>8

(***************************************************************************)
(* The queue.                                                              *)
(***************************************************************************)

\* The last interruption or release of the light curtain that is in the queue
\* says on.
LastGrat(on) ==
  \E i \in 1..Len(q) :
    /\ q[i].ev = "EV_GRAT" /\ q[i].on = on
    /\ \A j \in (i + 1)..Len(q) : q[j].ev # "EV_GRAT"

\* The task takes the event at the head and leaves the others where they are.
LEMMA ReceiveQueue ==
  ASSUME InputsGood, NEW name, Receive(name)
  PROVE  /\ \A n : n # name => (Queued(n)' <=> Queued(n))
         /\ \A n : Queued(n)' => Queued(n)
         /\ Queued(name)
         /\ \A on : LastGrat(on) =>
              LastGrat(on)' \/ (name = "EV_GRAT" /\ On = on /\ ~Queued("EV_GRAT")')
<1> DEFINE M == [ev : EventNames, arg : Args, on : BOOLEAN]
<1>1. q \in Seq(M) /\ q # <<>> /\ q' = Tail(q) /\ Head(q).ev = name
  BY DEF InputsGood, Receive
<1> HIDE DEF M
<1>2. /\ Len(q) \in Nat /\ Len(q) >= 1 /\ Len(q') = Len(q) - 1
      /\ Head(q) = q[1]
      /\ \A i \in 1..Len(q') : q'[i] = q[i + 1]
  BY <1>1
<1>3. Queued(name) /\ \A n : Queued(n)' => Queued(n)
  BY <1>1, <1>2 DEF Queued
<1>4. ASSUME NEW n, n # name, Queued(n) PROVE Queued(n)'
  <2>1. PICK i \in 1..Len(q) : q[i].ev = n
    BY <1>4 DEF Queued
  <2>2. i # 1
    BY <1>1, <1>2, <1>4, <2>1
  <2>3. (i - 1) \in 1..Len(q') /\ q'[i - 1] = q[i]
    BY <1>2, <2>2
  <2>4. QED
    BY <2>1, <2>3 DEF Queued
<1>5. ASSUME NEW on, LastGrat(on)
      PROVE  LastGrat(on)' \/ (name = "EV_GRAT" /\ On = on /\ ~Queued("EV_GRAT")')
  <2>1. PICK i \in 1..Len(q) : /\ q[i].ev = "EV_GRAT" /\ q[i].on = on
                               /\ \A j \in (i + 1)..Len(q) : q[j].ev # "EV_GRAT"
    BY <1>5 DEF LastGrat
  <2>2. CASE i = 1
    BY <1>1, <1>2, <2>1, <2>2 DEF Queued, On
  <2>3. CASE i # 1
    <3>1. /\ (i - 1) \in 1..Len(q') /\ q'[i - 1] = q[i]
          /\ \A j \in ((i - 1) + 1)..Len(q') : q'[j] = q[j + 1] /\ (j + 1) \in (i + 1)..Len(q)
      BY <1>2, <2>3
    <3>2. QED
      BY <2>1, <3>1 DEF LastGrat
  <2>4. QED
    BY <2>2, <2>3
<1>6. QED
  BY <1>3, <1>4, <1>5

\* Another task appends its event, or the event is lost.
LEMMA PostQueue ==
  ASSUME InputsGood, NEW e, Post(e)
  PROVE  /\ \A n : Queued(n) => Queued(n)'
         /\ \A n : Queued(n)' => Queued(n) \/ e.ev = n
         /\ Queued(e.ev)' \/ lost'
         /\ lost => lost'
         /\ e.ev = "EV_GRAT" => LastGrat(e.on)' \/ lost'
         /\ e.ev # "EV_GRAT" => \A on : LastGrat(on) => LastGrat(on)'
<1> DEFINE M == [ev : EventNames, arg : Args, on : BOOLEAN]
<1>1. q \in Seq(M) /\ Len(q) <= QueueLen
  BY DEF InputsGood
<1>2. /\ q' = IF Len(q) < QueueLen THEN Append(q, e) ELSE q
      /\ lost' = (lost \/ Len(q) >= QueueLen)
  BY DEF Post
<1> HIDE DEF M
<1>3. Len(q) \in Nat /\ QueueLen \in Nat
  BY <1>1, CoreAssumption
<1>4. CASE Len(q) < QueueLen
  <2>1. /\ Len(q) \in Nat /\ Len(q') = Len(q) + 1 /\ q'[Len(q) + 1] = e
        /\ \A i \in 1..Len(q) : q'[i] = q[i]
    BY <1>1, <1>2, <1>4
  <2>2. /\ \A n : Queued(n) => Queued(n)'
        /\ \A n : Queued(n)' => Queued(n) \/ e.ev = n
        /\ Queued(e.ev)'
    BY <2>1 DEF Queued
  <2>3. e.ev = "EV_GRAT" => LastGrat(e.on)'
    BY <2>1 DEF LastGrat
  <2>4. ASSUME e.ev # "EV_GRAT", NEW on, LastGrat(on) PROVE LastGrat(on)'
    <3>1. PICK i \in 1..Len(q) : /\ q[i].ev = "EV_GRAT" /\ q[i].on = on
                                 /\ \A j \in (i + 1)..Len(q) : q[j].ev # "EV_GRAT"
      BY <2>4 DEF LastGrat
    <3>2. i \in 1..Len(q') /\ q'[i] = q[i]
      BY <2>1
    <3>3. \A j \in (i + 1)..Len(q') : q'[j].ev # "EV_GRAT"
      BY <2>1, <2>4, <3>1
    <3>4. QED
      BY <3>1, <3>2, <3>3 DEF LastGrat
  <2>5. QED
    BY <1>2, <2>2, <2>3, <2>4
<1>5. CASE Len(q) >= QueueLen
  <2>1. ~(Len(q) < QueueLen)
    BY <1>3, <1>5
  <2>2. q' = q
    BY <1>2, <2>1
  <2>3. lost'
    BY <1>2, <1>5, Zenon
  <2>4. QED
    BY <2>2, <2>3 DEF Queued, LastGrat
<1>6. QED
  BY <1>4, <1>5, <1>3

(***************************************************************************)
(* The lock: only the curtain's own event sets or frees it.                *)
(***************************************************************************)

\* valve_setVal and the loop of a state entry leave m_isTrig alone
\* (FML_ExtValve.c:101); the two calls of FML_Grat.c set it.
LEMMA TrigKept ==
  ASSUME NEW v \in Valves
  PROVE  /\ \A on : SetH(v, on).trig = v.trig /\ SetL(v, on).trig = v.trig
         /\ \A pos : Drive(v, pos).trig = v.trig
         /\ TrigOn(v).trig /\ ~TrigOff(v).trig
<1>1. ASSUME NEW w \in Valves, NEW on
      PROVE  SetH(w, on).trig = w.trig /\ SetL(w, on).trig = w.trig
  BY <1>1 DEF SetH, SetL, Valves
<1>2. ASSUME NEW pos PROVE Drive(v, pos).trig = v.trig
  <2>1. (pos = "down") \in BOOLEAN
    OBVIOUS
  <2> DEFINE w == SetH(v, pos = "down")
  <2>2. w \in Valves /\ w.trig = v.trig
    BY <1>1, <2>1, LockTyped
  <2> HIDE DEF w
  <2>3. SetL(w, pos = "up").trig = w.trig
    BY <1>1, <2>2
  <2>4. QED
    BY <2>2, <2>3 DEF Drive, w
<1>3. TrigOn(v).trig
  <2> DEFINE s == [v EXCEPT !.savedH = v.H, !.savedL = v.L]
             w == SetL(SetH(s, FALSE), FALSE)
  <2>1. s \in Valves
    BY DEF Valves
  <2>2. w \in Valves
    BY <2>1, LockTyped
  <2>3. TrigOn(v) = [w EXCEPT !.trig = TRUE]
    BY DEF TrigOn
  <2> HIDE DEF w
  <2>4. QED
    BY <2>2, <2>3 DEF Valves
<1>4. ~TrigOff(v).trig
  <2> DEFINE f == [v EXCEPT !.trig = FALSE]
             w == SetL(SetH(f, v.savedH), v.savedL)
  <2>1. f \in Valves /\ f.trig = FALSE /\ v.savedH \in BOOLEAN /\ v.savedL \in BOOLEAN
    BY DEF Valves
  <2>2. SetH(f, v.savedH) \in Valves /\ SetH(f, v.savedH).trig = FALSE
    BY <1>1, <2>1, LockTyped
  <2>3. w \in Valves /\ w.trig = FALSE
    BY <1>1, <2>1, <2>2, LockTyped
  <2>4. TrigOff(v) = [w EXCEPT !.savedH = FALSE, !.savedL = FALSE]
    BY DEF TrigOff
  <2> HIDE DEF w
  <2>5. QED
    BY <2>3, <2>4 DEF Valves
<1>5. QED
  BY <1>1, <1>2, <1>3, <1>4

\* No handler of the test machine touches the lock.
LEMMA TestTrig ==
  ASSUME valves \in Valves, NEW on,
         \/ TestEvStart \/ TestEvStop \/ TestEvDelayOver \/ TestEvLiqSwitch(on)
         \/ TestEvCylPosH(on) \/ TestEvCylPosL(on) \/ TestEvTimeOut \/ EndExitWaterIn
  PROVE  valves'.trig = valves.trig
<1>1. ASSUME NEW s, NEW a, Enter(s, a) \/ NextStage(s, a)
      PROVE  valves'.trig = valves.trig
  BY <1>1, TrigKept DEF Enter, NextStage
<1>2. ASSUME NEW why, NEW a,
             TestIgnores \/ OnlyAlarm(a) \/ BeginExitWaterIn(why, a) \/ StopInStop
      PROVE  valves'.trig = valves.trig
  BY <1>2 DEF TestIgnores, OnlyAlarm, BeginExitWaterIn, StopInStop
<1>3. CASE TestEvStart
  BY <1>1, <1>2, <1>3 DEF TestEvStart
<1>4. CASE TestEvStop
  BY <1>1, <1>2, <1>4 DEF TestEvStop
<1>5. CASE TestEvDelayOver
  <2>1. CASE Measure
    BY <1>1, <2>1 DEF Measure, LowEnds, HighEnds
  <2>2. QED
    BY <1>1, <1>2, <1>5, <2>1
    DEF TestEvDelayOver, Tor13Over, ProductTestOver, IsDryOver, AddPresOver
<1>6. CASE TestEvLiqSwitch(on)
  BY <1>2, <1>6 DEF TestEvLiqSwitch
<1>7. CASE TestEvCylPosH(on) \/ TestEvCylPosL(on)
  BY <1>1, <1>2, <1>7 DEF TestEvCylPosH, TestEvCylPosL
<1>8. CASE TestEvTimeOut
  BY <1>1, <1>2, <1>8 DEF TestEvTimeOut
<1>9. CASE EndExitWaterIn
  BY <1>1, <1>9 DEF EndExitWaterIn
<1>10. QED
  BY <1>3, <1>4, <1>5, <1>6, <1>7, <1>8, <1>9

\* Nor does one of the drying machine.
LEMMA DryTrig ==
  ASSUME valves \in Valves, NEW on,
         DryEvStop \/ DryEvDelayOver \/ DryEvCylPosL(on) \/ DryEvTimeOut \/ DryEvStart
  PROVE  valves'.trig = valves.trig
<1>1. ASSUME NEW s, NEW a, DryEnter(s, a)
      PROVE  valves'.trig = valves.trig
  BY <1>1, TrigKept DEF DryEnter
<1>2. DryIgnores => valves'.trig = valves.trig
  BY DEF DryIgnores
<1>3. DryEvStart => valves'.trig = valves.trig
  BY TrigKept DEF DryEvStart
<1>4. QED
  BY <1>1, <1>2, <1>3 DEF DryEvStop, DryEvDelayOver, DryEvCylPosL, DryEvTimeOut

(***************************************************************************)
(* The turns of the fsmTask: it takes an event, or resumes from its wait,  *)
(* and one of the following happens.                                       *)
(***************************************************************************)

\* The test machine, or the drying machine, handles the event.
TestTurn(name) == /\ main = "TEST" /\ TestStep(name) /\ UNCHANGED <<main, dryVars, debug>>
                  /\ blocked # "no" => Entered
DryTurn(name)  == /\ main = "DRY" /\ DryStep(name)
                  /\ UNCHANGED <<main, blocked, testVars, debug>>

\* A mode gives way to the test machine, which answers END.
LeaveTurn == /\ main \in {"DRY", "DEBUG"} /\ main' = "TEST"
             /\ test = "STOP" /\ test' = "STOP" /\ dry' = "NULL"
             /\ Answers(alarm, alarm', FALSE, {})
             /\ (main = "DRY" /\ dry # "NULL") => tmr'.run \subseteq tmr.run \ {DryTimer(dry)}
             /\ tmr'.run \subseteq tmr.run

\* A mode is entered from standby; drying answers RUN.
ModeTurn(name) ==
  /\ Standby /\ NoGrat /\ test' = "STOP"
  /\ \/ /\ main' = "DRY" /\ dry' = "CYL_DOWN" /\ tmr'.run = tmr.run \cup {"timeout"}
        /\ Answers(alarm, alarm', TRUE, {"NEED_DRY"})
     \/ /\ main' = "DEBUG" /\ name = "EV_DEBUG_MODE" /\ debug' = "ON"
        /\ Reports(alarm, alarm', {})

\* The operator moves single valves or raises the cylinder, or the task faults.
DebugTurn(name) ==
  /\ main = "DEBUG" /\ UNCHANGED <<alarm, testVars, dryVars>>
  /\ \/ main' = "FAULT"
     \/ /\ main' = "DEBUG" /\ tmr.run \subseteq tmr'.run /\ name # "EV_TIME_OUT"
        /\ debug' = "CYL_UP" => debug = "CYL_UP" \/ "timeout" \in tmr'.run

\* At most an error is raised or taken back, whatever the machines do.
ErrorTurn(name) ==
  /\ UNCHANGED <<main, blocked, tmr, testVars, dryVars, debug>>
  /\ Reports(alarm, alarm', IF name = "EV_GRAT" THEN {"GRAT"} ELSE {"VACUUM"})
  /\ name # "EV_TIME_OUT" /\ (main # "DEBUG" => name # "EV_DELAY_OVER")

\* The lock follows the curtain's events, which are reported, and nothing else.
LockTurn(name) ==
  IF name = "EV_GRAT"
  THEN /\ valves'.trig <=> On
       /\ On => "GRAT" \in alarm'.err
       /\ ErrorTurn(name)
  ELSE valves'.trig = valves.trig

Turn(name) ==
  /\ Receive(name) \/ (name = "" /\ UNCHANGED inputVars)
  /\ \/ TestTurn(name) \/ DryTurn(name) \/ LeaveTurn \/ ModeTurn(name)
     \/ DebugTurn(name) \/ ErrorTurn(name)
  /\ LockTurn(name)

\* A handler of the test machine makes a turn.
LEMMA TestTurns ==
  ASSUME IInv, NEW on \in BOOLEAN, NEW name, name # "EV_GRAT",
         Receive(name) \/ (name = "" /\ UNCHANGED inputVars /\ blocked # "no"),
         main = "TEST", UNCHANGED <<main, dryVars, debug>>,
         \/ name = "EV_START" /\ TestEvStart
         \/ name = "EV_STOP" /\ TestEvStop
         \/ name = "EV_DELAY_OVER" /\ TestEvDelayOver
         \/ name = "EV_LIQ_SWITCH" /\ TestEvLiqSwitch(on)
         \/ name = "EV_CYL_POS_H" /\ TestEvCylPosH(on)
         \/ name = "EV_CYL_POS_L" /\ TestEvCylPosL(on)
         \/ name = "EV_TIME_OUT" /\ TestEvTimeOut
         \/ name = "" /\ EndExitWaterIn
  PROVE  Turn(name)
<1>1. TestTyped /\ TestSound /\ InputsGood
  BY DEF IInv, InTest, InDry, InDebug, TestGood
<1>2. sens \in [Sensors -> BOOLEAN] /\ valves \in Valves
  BY <1>1 DEF InputsGood, TestTyped
<1>3. TestStep(name) /\ (name = "" => Entered)
  <2>1. EndExitWaterIn => test = "WATER_IN"
    BY <1>1 DEF EndExitWaterIn, TestSound
  <2>2. QED
    BY <1>1, <1>2, <2>1, StartStep, StopStep, DelayOverStep, LiqSwitchStep, CylPosStep,
       TimeOutStep, ResumeStep
<1>4. blocked # "no" => Entered
  BY <1>3 DEF Receive
<1>5. valves'.trig = valves.trig
  BY <1>2, TestTrig
<1>6. TestTurn(name) /\ LockTurn(name)
  BY <1>3, <1>4, <1>5 DEF TestTurn, LockTurn
<1>7. QED
  BY <1>6 DEF Turn

\* A handler of the drying machine makes a turn.
LEMMA DryTurns ==
  ASSUME IInv, NEW on \in BOOLEAN, NEW name, name # "EV_GRAT", Receive(name), main = "DRY",
         UNCHANGED <<main, blocked, testVars, debug>>,
         \/ DryEvStop
         \/ name = "EV_DELAY_OVER" /\ DryEvDelayOver
         \/ name = "EV_CYL_POS_L" /\ DryEvCylPosL(on)
         \/ name = "EV_TIME_OUT" /\ DryEvTimeOut
  PROVE  Turn(name)
<1>1. DryGood
  BY DEF IInv, InTest, InDry, InDebug
<1>2. /\ tmr \in TimerStates /\ alarm \in Alarms /\ dry \in DryStates /\ valves \in Valves
  BY <1>1 DEF DryGood
<1>3. DryStep(name)
  BY <1>2, DryHandlersStep
<1>4. valves'.trig = valves.trig
  BY <1>2, DryTrig
<1>5. DryTurn(name) /\ LockTurn(name)
  BY <1>3, <1>4 DEF DryTurn, LockTurn
<1>6. QED
  BY <1>5 DEF Turn

\* The way back to the test machine makes a turn.
LEMMA LeaveTurns ==
  ASSUME IInv, NEW name, name # "EV_GRAT", Receive(name), main \in {"DRY", "DEBUG"},
         NEW t \in TimerStates, t.run \subseteq tmr.run,
         (main = "DRY" /\ dry # "NULL") => t.run \subseteq tmr.run \ {DryTimer(dry)},
         dry' = "NULL", BackToTest(alarm, t)
  PROVE  Turn(name)
<1>1. TypeOK /\ ModesAgree
  BY InvTypes, InvSafe
<1>2. alarm \in Alarms /\ valves \in Valves /\ test = "STOP"
  BY <1>1 DEF TypeOK, ModesAgree
<1>3. /\ main' = "TEST" /\ test' = "STOP" /\ alarm' = EvInitAlarm(alarm)
      /\ tmr' = Stop(t, {"delay"}) /\ valves' = Drive(valves, "up")
  BY DEF BackToTest, TestEvInit
<1>4. tmr'.run = t.run \ {"delay"} /\ valves'.trig = valves.trig
  BY <1>2, <1>3, Running, TrigKept
<1>5. Answers(alarm, alarm', FALSE, {})
  BY <1>2, <1>3, EndReports
<1>6. LeaveTurn /\ LockTurn(name)
  BY <1>2, <1>3, <1>4, <1>5 DEF LeaveTurn, LockTurn
<1>7. QED
  BY <1>6 DEF Turn

\* An event nobody handles, which is none a state waits for, makes a turn.
LEMMA IgnoredTurns ==
  ASSUME IInv, NEW name, name # "EV_GRAT", Receive(name), Ignored,
         name # "EV_TIME_OUT", main # "DEBUG" => name # "EV_DELAY_OVER"
  PROVE  Turn(name)
<1>1. alarm \in Alarms
  BY InvTypes DEF TypeOK
<1>2. UNCHANGED <<main, blocked, tmr, valves, alarm, testVars, dryVars, debug>>
  BY DEF Ignored, sharedVars
<1>3. Reports(alarm, alarm', {"VACUUM"})
  BY <1>1, <1>2, ReportsSame
<1>4. ErrorTurn(name) /\ LockTurn(name)
  BY <1>2, <1>3 DEF ErrorTurn, LockTurn
<1>5. QED
  BY <1>4 DEF Turn

\* The drying machine that has stopped leaves its timers stopped.
LEMMA DryStoppedTurns ==
  ASSUME IInv, NEW name, name # "EV_GRAT", Receive(name), DryStopped
  PROVE  Turn(name)
<1>1. tmr \in TimerStates
  BY InvTypes DEF TypeOK
<1>2. /\ DryTimersLeft \in TimerStates /\ DryTimersLeft.run = tmr.run \ {"timeout"}
  BY <1>1, TimersTyped, Running DEF DryTimersLeft
<1>3. main = "DRY" /\ dry' = "NULL"
  BY DEF DryStopped, DryLeave
<1>4. CASE dry = "CLY_UP"
  <2>1. BackToTest(alarm, DryTimersLeft) /\ DryTimer(dry) = "timeout"
    BY <1>4 DEF DryStopped, DryTimer
  <2>2. QED
    BY <1>2, <1>3, <2>1, LeaveTurns
<1>5. CASE dry # "CLY_UP"
  <2>1. BackToTest(alarm, tmr) /\ dry = "NULL"
    BY <1>5 DEF DryStopped
  <2>2. QED
    BY <1>1, <1>3, <2>1, LeaveTurns
<1>6. QED
  BY <1>4, <1>5

\* The two mode changes from standby.
LEMMA ModeTurns ==
  ASSUME IInv, Standby, NoGrat, NEW name, Receive(name), UNCHANGED testVars,
         \/ name = "EV_DRY_MODE" /\ main' = "DRY" /\ DryEvStart
         \/ name = "EV_DEBUG_MODE" /\ main' = "DEBUG" /\ DebugEvStart
  PROVE  Turn(name)
<1>1. alarm \in Alarms /\ tmr \in TimerStates /\ valves \in Valves
  BY InvTypes DEF TypeOK
<1>2. test' = "STOP"
  BY DEF Standby, testVars
<1>3. CASE name = "EV_DRY_MODE" /\ main' = "DRY" /\ DryEvStart
  <2> DEFINE a == ClearErrBit(alarm, "NEED_DRY")
             b == SetVbStatus(a, "RUN")
  <2>1. Reports(alarm, a, {"NEED_DRY"}) /\ a \in Alarms
    BY <1>1, ClearErrReports, NamedBits DEF Reports
  <2>2. Answers(a, b, TRUE, {}) /\ alarm' = b
    BY <1>3, <2>1, StatusAnswers DEF DryEvStart
  <2> HIDE DEF a, b
  <2>3. Answers(alarm, alarm', TRUE, {"NEED_DRY"})
    BY <2>1, <2>2 DEF Reports, Answers
  <2>4. dry' = "CYL_DOWN" /\ tmr'.run = tmr.run \cup {"timeout"}
    BY <1>1, <1>3, Running DEF DryEvStart, Timers
  <2>5. ModeTurn(name)
    BY <1>2, <1>3, <2>3, <2>4 DEF ModeTurn
  <2>6. LockTurn(name)
    BY <1>1, <1>3, DryTrig DEF LockTurn
  <2>7. QED
    BY <2>5, <2>6 DEF Turn
<1>4. CASE name = "EV_DEBUG_MODE" /\ main' = "DEBUG" /\ DebugEvStart
  <2>1. Reports(alarm, alarm', {}) /\ debug' = "ON" /\ valves' = valves
    BY <1>1, <1>4, StatusAnswers DEF DebugEvStart
  <2>2. ModeTurn(name) /\ LockTurn(name)
    BY <1>2, <1>4, <2>1 DEF ModeTurn, LockTurn
  <2>3. QED
    BY <2>2 DEF Turn
<1>5. QED
  BY <1>3, <1>4

\* The light curtain and the vacuum switch are handled whatever the mode.
LEMMA ErrorTurns ==
  ASSUME IInv, EvVacuum \/ EvGrat
  PROVE  Turn(IF EvGrat THEN "EV_GRAT" ELSE "EV_VACUUM")
<1>1. alarm \in Alarms /\ valves \in Valves /\ InputsGood
  BY InvTypes DEF TypeOK, IInv
<1>2. /\ \A e \in Errors : /\ Reports(alarm, SetErrBit(alarm, e), {e})
                           /\ e \in SetErrBit(alarm, e).err
      /\ \A e \in Errors : Reports(alarm, ClearErrBit(alarm, e), {e})
  BY <1>1, SetErrReports, ClearErrReports
<1>3. CASE EvGrat
  <2> DEFINE name == "EV_GRAT"
  <2>1. Receive(name) /\ On \in BOOLEAN
    BY <1>1, <1>3, ReceiveGood DEF EvGrat
  <2>2. UNCHANGED <<main, blocked, tmr, testVars, dryVars, debug>>
    BY <1>3 DEF EvGrat
  <2>3. /\ On => valves' = TrigOn(valves) /\ alarm' = SetErrBit(alarm, "GRAT")
        /\ ~On => valves' = TrigOff(valves) /\ alarm' = ClearErrBit(alarm, "GRAT")
    BY <1>3, <2>1 DEF EvGrat
  <2>4. Reports(alarm, alarm', {"GRAT"}) /\ (On => "GRAT" \in alarm'.err)
    BY <1>2, <2>1, <2>3, NamedBits
  <2>5. valves'.trig <=> On
    BY <1>1, <2>1, <2>3, TrigKept
  <2>6. ErrorTurn(name) /\ LockTurn(name)
    BY <2>2, <2>4, <2>5 DEF ErrorTurn, LockTurn
  <2>7. QED
    BY <1>3, <2>1, <2>6 DEF Turn
<1>4. CASE EvVacuum /\ ~EvGrat
  <2> DEFINE name == "EV_VACUUM"
  <2>1. Receive(name) /\ UNCHANGED <<main, blocked, tmr, valves, testVars, dryVars, debug>>
    BY <1>4 DEF EvVacuum
  <2>2. Reports(alarm, alarm', {"VACUUM"})
    BY <1>1, <1>2, <1>4, ReportsSame, NamedBits DEF EvVacuum
  <2>3. ErrorTurn(name) /\ LockTurn(name)
    BY <2>1, <2>2 DEF ErrorTurn, LockTurn
  <2>4. QED
    BY <1>4, <2>1, <2>3 DEF Turn
<1>5. QED
  BY <1>3, <1>4

\* Manual operation makes a turn.
LEMMA DebugTurns ==
  ASSUME IInv, NEW name, name # "EV_GRAT", Receive(name),
         main = "DEBUG", UNCHANGED <<testVars, dryVars>>,
         \/ /\ main' = main /\ name # "EV_TIME_OUT"
            /\ DebugRaise \/ \E v, on : DebugEvSetSingleV(v, on)
         \/ main' = "FAULT" /\ UNCHANGED <<alarm, valves>>
  PROVE  Turn(name)
<1>1. tmr \in TimerStates /\ valves \in Valves
  BY InvTypes DEF TypeOK
<1>2. CASE main' = "FAULT" /\ UNCHANGED <<alarm, valves>>
  <2>1. DebugTurn(name) /\ LockTurn(name)
    BY <1>2 DEF DebugTurn, LockTurn
  <2>2. QED
    BY <2>1 DEF Turn
<1>3. CASE main' = main /\ name # "EV_TIME_OUT" /\ DebugRaise
  <2>1. tmr'.run = tmr.run \cup {"timeout"} /\ valves'.trig = valves.trig /\ alarm' = alarm
    BY <1>1, <1>3, Running, TrigKept DEF DebugRaise, Timers
  <2>2. DebugTurn(name) /\ LockTurn(name)
    BY <1>3, <2>1 DEF DebugTurn, LockTurn
  <2>3. QED
    BY <2>2 DEF Turn
<1>4. CASE /\ main' = main /\ name # "EV_TIME_OUT"
           /\ \E v, on : DebugEvSetSingleV(v, on)
  <2>1. PICK on : /\ valves' \in {valves, SetH(valves, on), SetL(valves, on)}
                  /\ UNCHANGED <<debug, tmr, alarm>>
    BY <1>4 DEF DebugEvSetSingleV
  <2>2. valves'.trig = valves.trig
    BY <1>1, <2>1, TrigKept
  <2>3. DebugTurn(name) /\ LockTurn(name)
    BY <1>4, <2>1, <2>2 DEF DebugTurn, LockTurn
  <2>4. QED
    BY <2>3 DEF Turn
<1>5. QED
  BY <1>2, <1>3, <1>4

\* Every step of the fsmTask is a turn (BLL_MainFsm.c:144-318).
LEMMA Turns ==
  ASSUME IInv, Dispatch
  PROVE  \E name : Turn(name)
<1> USE DEF ByTest, ByDry, ByDebug
<1>1. InputsGood /\ TypeOK /\ ModesAgree
  BY InvTypes, InvSafe DEF IInv
<1>2. TRUE \in BOOLEAN /\ tmr \in TimerStates
  BY <1>1 DEF TypeOK
<1>3. CASE EvStart
  <2> DEFINE name == "EV_START"
  <2>1. Receive(name)
    BY <1>3 DEF EvStart
  <2>2. QED
    BY <1>2, <1>3, <2>1, TestTurns, IgnoredTurns DEF EvStart
<1>4. CASE EvStop
  <2> DEFINE name == "EV_STOP"
  <2>1. Receive(name)
    BY <1>4 DEF EvStop
  <2>2. QED
    BY <1>2, <1>4, <2>1, TestTurns, DryTurns, DryStoppedTurns, IgnoredTurns DEF EvStop
<1>5. CASE EvDelayOver
  <2> DEFINE name == "EV_DELAY_OVER"
  <2>1. Receive(name)
    BY <1>5 DEF EvDelayOver
  <2>2. QED
    BY <1>2, <1>5, <2>1, TestTurns, DryTurns, IgnoredTurns DEF EvDelayOver
<1>6. CASE EvLiqSwitch
  <2> DEFINE name == "EV_LIQ_SWITCH"
  <2>1. Receive(name) /\ On \in BOOLEAN
    BY <1>1, <1>6, ReceiveGood DEF EvLiqSwitch
  <2>2. QED
    BY <1>6, <2>1, TestTurns, IgnoredTurns DEF EvLiqSwitch
<1>7. CASE EvVacuum \/ EvGrat
  BY <1>7, ErrorTurns
<1>8. CASE EvCylPosH
  <2> DEFINE name == "EV_CYL_POS_H"
  <2>1. Receive(name) /\ On \in BOOLEAN
    BY <1>1, <1>8, ReceiveGood DEF EvCylPosH
  <2>2. CASE main = "DEBUG" /\ DebugLeave /\ BackToTest(alarm, tmr) /\ UNCHANGED dryVars
    <3>1. dry' = "NULL"
      BY <1>1, <2>2 DEF ModesAgree, dryVars
    <3>2. QED
      BY <1>2, <2>1, <2>2, <3>1, LeaveTurns
  <2>3. CASE main = "TEST" /\ TestEvCylPosH(On) /\ UNCHANGED <<main, dryVars, debug>>
    BY <2>1, <2>3, TestTurns
  <2>4. CASE DryStopped
    BY <2>1, <2>4, DryStoppedTurns
  <2>5. CASE Ignored
    BY <2>1, <2>5, IgnoredTurns
  <2>6. QED
    BY <1>8, <2>2, <2>3, <2>4, <2>5 DEF EvCylPosH
<1>9. CASE EvCylPosL
  <2> DEFINE name == "EV_CYL_POS_L"
  <2>1. Receive(name) /\ On \in BOOLEAN
    BY <1>1, <1>9, ReceiveGood DEF EvCylPosL
  <2>2. QED
    BY <1>9, <2>1, TestTurns, DryTurns, IgnoredTurns DEF EvCylPosL
<1>10. CASE EvDryMode
  <2> DEFINE name == "EV_DRY_MODE"
  <2>1. Receive(name)
    BY <1>10 DEF EvDryMode
  <2>2. QED
    BY <1>10, <2>1, ModeTurns, IgnoredTurns DEF EvDryMode
<1>11. CASE EvDebugMode
  <2> DEFINE name == "EV_DEBUG_MODE"
  <2>1. Receive(name)
    BY <1>11 DEF EvDebugMode
  <2>2. CASE main = "DEBUG" /\ DebugLeave /\ BackToTest(alarm, tmr) /\ UNCHANGED dryVars
    <3>1. dry' = "NULL"
      BY <1>1, <2>2 DEF ModesAgree, dryVars
    <3>2. QED
      BY <1>2, <2>1, <2>2, <3>1, LeaveTurns
  <2>3. CASE ByDebug(DebugRaise)
    BY <2>1, <2>3, DebugTurns
  <2>4. CASE Standby /\ NoGrat /\ main' = "DEBUG" /\ DebugEvStart /\ UNCHANGED testVars
    BY <2>1, <2>4, ModeTurns
  <2>5. CASE Ignored
    BY <2>1, <2>5, IgnoredTurns
  <2>6. QED
    BY <1>11, <2>2, <2>3, <2>4, <2>5 DEF EvDebugMode
<1>12. CASE EvTimeOut
  <2> DEFINE name == "EV_TIME_OUT"
  <2>1. Receive(name)
    BY <1>12 DEF EvTimeOut
  <2>2. QED
    BY <1>2, <1>12, <2>1, TestTurns, DryTurns, DebugTurns DEF EvTimeOut
<1>13. CASE EvSetSigV
  <2> DEFINE name == "EV_SET_SIG_V"
  <2>1. Receive(name)
    BY <1>13 DEF EvSetSigV
  <2>2. QED
    BY <1>13, <2>1, DebugTurns, IgnoredTurns DEF EvSetSigV
<1>14. CASE Resume
  <2>1. main = "TEST"
    BY <1>1, <1>14 DEF Resume, ModesAgree
  <2>2. blocked # "no" /\ EndExitWaterIn /\ UNCHANGED <<main, inputVars, dryVars, debug>>
    BY <1>14 DEF Resume
  <2>3. Turn("")
    BY <1>2, <2>1, <2>2, TestTurns
  <2>4. QED
    BY <2>3
<1>15. QED
  BY <1>3, <1>4, <1>5, <1>6, <1>7, <1>8, <1>9, <1>10, <1>11, <1>12, <1>13, <1>14
  DEF Dispatch

\* A step of another task sends one event: a changed sensor says its new level,
\* a timer that has expired is stopped, the PLC sends what the plant uses.
Posted(e) ==
  /\ Post(e) /\ UNCHANGED <<main, blocked, valves, fill, alarm, testVars, dryVars, debug>>
  /\ sens'["GRAT"] \in BOOLEAN
  /\ sens'["GRAT"] # sens["GRAT"] => e.ev = "EV_GRAT"
  /\ e.ev = "EV_GRAT" => e.on = sens'["GRAT"]
  /\ e.ev = "EV_DEBUG_MODE" => "EV_DEBUG_MODE" \in Commands
  /\ tmr'.run \subseteq tmr.run
  /\ \A t \in tmr.run : t \in tmr'.run \/ e.ev = TimerEvent[t]

\* The events of the sensors, of the timers and of the PLC are different ones.
LEMMA EventKinds ==
  /\ SensorEvent["GRAT"] = "EV_GRAT"
  /\ \A s \in Sensors : /\ s # "GRAT" => SensorEvent[s] # "EV_GRAT"
                        /\ SensorEvent[s] # "EV_DEBUG_MODE"
  /\ \A t \in Timers : TimerEvent[t] \notin {"EV_GRAT", "EV_DEBUG_MODE"}
  /\ \A c \in AllCommands : c # "EV_GRAT"
  BY DEF SensorEvent, Sensors, TimerEvent, Timers, AllCommands

\* Every step of the other tasks sends one event (exitSwitchCb, delayTimerCb,
\* eMBRegCoilsCB).
LEMMA OthersPost ==
  ASSUME IInv, Environment
  PROVE  \E e : Posted(e)
<1>1. /\ sens \in [Sensors -> BOOLEAN] /\ tmr \in TimerStates
      /\ UNCHANGED <<testVars, dryVars, debug>> /\ "GRAT" \in Sensors
  BY InvTypes DEF TypeOK, Environment, Sensors
<1>2. CASE SensorTask
  <2>1. PICK s \in Flipping : SensorChange(s)
    BY <1>2 DEF SensorTask
  <2> DEFINE e == Ev(SensorEvent[s], "", ~sens[s])
  <2>2. /\ s \in Sensors /\ sens' = [sens EXCEPT ![s] = ~sens[s]] /\ Post(e)
        /\ UNCHANGED sharedVars
    BY <2>1, CoreAssumption DEF SensorChange
  <2>3. e.ev = SensorEvent[s] /\ e.on = ~sens[s]
    BY DEF Ev
  <2>4. sens'["GRAT"] # sens["GRAT"] => s = "GRAT"
    BY <1>1, <2>2
  <2>5. s = "GRAT" => e.on = sens'["GRAT"]
    BY <1>1, <2>2, <2>3
  <2> HIDE DEF e
  <2>6. UNCHANGED <<main, blocked, tmr, valves, fill, alarm>>
    BY <2>2 DEF sharedVars
  <2>7. Posted(e)
    BY <1>1, <2>2, <2>3, <2>4, <2>5, <2>6, EventKinds DEF Posted
  <2>8. QED
    BY <2>7
<1>3. CASE TimerTask
  <2>1. PICK t \in Timers : Expire(t, Phase)
    BY <1>3 DEF TimerTask
  <2> DEFINE e == Ev(TimerEvent[t], Phase, TRUE)
  <2>2. /\ tmr' = Stop(tmr, {t}) /\ Post(e)
        /\ UNCHANGED <<main, blocked, valves, fill, alarm, sens>>
    BY <2>1 DEF Expire
  <2>3. e.ev = TimerEvent[t] /\ tmr'.run = tmr.run \ {t}
    BY <1>1, <2>2, Running DEF Ev
  <2> HIDE DEF e
  <2>4. Posted(e)
    BY <1>1, <2>2, <2>3, EventKinds DEF Posted
  <2>5. QED
    BY <2>4
<1>4. CASE NetworkTask
  <2>1. PICK e : /\ Post(e) /\ UNCHANGED <<sharedVars, sens>>
                 /\ e.ev \in Commands \cup {"EV_SET_SIG_V"}
    <3>1. ASSUME NEW c \in Commands, NEW on \in BOOLEAN, Command(c, on)
          PROVE  /\ Post(Ev(c, "", on)) /\ UNCHANGED <<sharedVars, sens>>
                 /\ Ev(c, "", on).ev \in Commands \cup {"EV_SET_SIG_V"}
      BY <3>1 DEF Command, Ev
    <3>2. ASSUME NEW v \in Coils, NEW on \in BOOLEAN, SetCoil(v, on)
          PROVE  /\ Post(Ev("EV_SET_SIG_V", v, on)) /\ UNCHANGED <<sharedVars, sens>>
                 /\ Ev("EV_SET_SIG_V", v, on).ev \in Commands \cup {"EV_SET_SIG_V"}
      BY <3>2 DEF SetCoil, Ev
    <3>3. QED
      BY <1>4, <3>1, <3>2 DEF NetworkTask
  <2>2. UNCHANGED <<main, blocked, tmr, valves, fill, alarm>>
    BY <2>1 DEF sharedVars
  <2>3. e.ev # "EV_GRAT"
    BY <2>1, EventKinds, CoreAssumption
  <2>4. Posted(e)
    BY <1>1, <2>1, <2>2, <2>3 DEF Posted
  <2>5. QED
    BY <2>4
<1>5. QED
  BY <1>2, <1>3, <1>4 DEF Environment

\* So every step is a turn of the fsmTask, an event sent to it, or nothing.
LEMMA Steps ==
  ASSUME IInv, [Next]_vars
  PROVE  (\E name : Turn(name)) \/ (\E e : Posted(e)) \/ UNCHANGED vars
  BY Turns, OthersPost DEF Next

(***************************************************************************)
(* The status word.                                                        *)
(***************************************************************************)

\* Sound in every mode, with RUN during a cycle and during drying.
StatusInv == /\ Sound(alarm)
             /\ main = "TEST" => RunShown
             /\ main = "DRY" => "RUN" \in alarm.vb

\* One turn keeps the status word true.
LEMMA StatusTurn ==
  ASSUME IInv, StatusInv, NEW name, Turn(name)
  PROVE  StatusInv'
<1>1. CASE TestTurn(name)
  <2>1. Sound(alarm') /\ ("RUN" \in alarm'.vb <=> test' # "STOP")
    BY <1>1 DEF StatusInv, TestTurn, TestStep, Fits
  <2>2. QED
    BY <1>1, <2>1 DEF StatusInv, TestTurn, Sound, RunShown
<1>2. CASE DryTurn(name)
  BY <1>2 DEF StatusInv, DryTurn, DryStep, Sound
<1>3. CASE LeaveTurn
  BY <1>3 DEF StatusInv, LeaveTurn, Answers, Sound, RunShown
<1>4. CASE ModeTurn(name)
  BY <1>4 DEF StatusInv, ModeTurn, Answers, Reports, Sound
<1>5. CASE DebugTurn(name)
  BY <1>5 DEF StatusInv, DebugTurn, Sound
<1>6. CASE ErrorTurn(name)
  BY <1>6 DEF StatusInv, ErrorTurn, Reports, Sound, RunShown, testVars
<1>7. QED
  BY <1>1, <1>2, <1>3, <1>4, <1>5, <1>6 DEF Turn

\* The status word is true in every reachable state.
LEMMA StatusHolds == Spec => []StatusInv
<1>1. Init => StatusInv
  <2> SUFFICES ASSUME Init PROVE StatusInv
    OBVIOUS
  <2>1. NoAlarm \in Alarms /\ Sound(NoAlarm)
    BY DEF NoAlarm, Alarms, Sound
  <2>2. Answers(NoAlarm, EvInitAlarm(NoAlarm), FALSE, {})
    BY <2>1, EndReports
  <2>3. main = "TEST" /\ test = "STOP" /\ alarm = EvInitAlarm(NoAlarm)
    BY DEF Init
  <2>4. QED
    BY <2>1, <2>2, <2>3 DEF Answers, StatusInv, RunShown
<1>2. ASSUME IInv, StatusInv, [Next]_vars PROVE StatusInv'
  <2>1. ASSUME NEW e, Posted(e) PROVE StatusInv'
    BY <1>2, <2>1 DEF Posted, StatusInv, Sound, RunShown, testVars
  <2>2. CASE UNCHANGED vars
    BY <1>2, <2>2 DEF vars, sharedVars, StatusInv, Sound, RunShown, testVars
  <2>3. QED
    BY <1>2, <2>1, <2>2, StatusTurn, Steps
<1>3. QED
  BY <1>1, <1>2, Invariant, PTL DEF Spec

\* The PLC reads a true status word: an error status exactly while an error is
\* recorded, RUN exactly during a cycle or drying, READY alone, through every
\* handler of the three machines (BLL_Alarm.c:158-221).
THEOREM StatusAlwaysTrue == Spec => []StatusTruthful
<1>1. StatusInv => StatusTruthful
  BY DEF StatusInv, StatusTruthful, Sound, RunShown
<1>2. QED
  BY <1>1, StatusHolds, PTL

\* READY is not shown while drying is asked for, in whatever order the error and
\* status calls come (BLL_Alarm.c:160).
THEOREM NeverReadyWet == Spec => []ReadyNotWet
<1>1. StatusInv => ReadyNotWet
  BY DEF StatusInv, ReadyNotWet, Sound
<1>2. QED
  BY <1>1, StatusHolds, PTL

(***************************************************************************)
(* The light curtain.                                                      *)
(***************************************************************************)

\* What the machine knows of a curtain that is at level on: the level is in the
\* queue, the lock has it already, or the curtain was interrupted when the plant
\* was switched on, and nothing has moved since.
KnownAs(on) ==
  \/ LastGrat(on)
  \/ ~Queued("EV_GRAT") /\ (valves.trig <=> on)
  \/ ~Queued("EV_GRAT") /\ on /\ main = "TEST" /\ test = "STOP" /\ ~valves.trig

CurtainKnown == \E on \in BOOLEAN : on = sens["GRAT"] /\ KnownAs(on)

\* The lock is shown, or the event that ends it is on its way.
LockShown == valves.trig /\ "GRAT" \notin alarm.err => Queued("EV_GRAT")

CurtainInv == lost \/ (CurtainKnown /\ LockShown)

\* One turn of the fsmTask.
LEMMA CurtainTurn ==
  ASSUME IInv, CurtainInv, NEW name, Turn(name)
  PROVE  CurtainInv'
<1>1. CASE lost
  BY <1>1 DEF Turn, Receive, inputVars, CurtainInv
<1>2. CASE ~lost
  <2>1. CurtainKnown /\ LockShown
    BY <1>2 DEF CurtainInv
  <2>2. PICK on \in BOOLEAN : on = sens["GRAT"] /\ KnownAs(on)
    BY <2>1 DEF CurtainKnown
  <2>3. on = sens'["GRAT"] /\ lost' = lost
    BY <2>2 DEF Turn, Receive, inputVars
  <2>4. CASE name = "EV_GRAT"
    <3>1. Receive(name) /\ InputsGood /\ LockTurn(name)
      BY <2>4 DEF Turn, IInv
    <3>2. /\ Queued("EV_GRAT")
          /\ LastGrat(on)' \/ (On = on /\ ~Queued("EV_GRAT")')
      BY <2>2, <2>4, <3>1, ReceiveQueue DEF KnownAs
    <3>3. (valves'.trig <=> On) /\ (On => "GRAT" \in alarm'.err)
      BY <2>4, <3>1 DEF LockTurn
    <3>4. KnownAs(on)'
      BY <3>2, <3>3 DEF KnownAs
    <3>5. LockShown'
      BY <3>3 DEF LockShown
    <3>6. QED
      BY <2>3, <3>4, <3>5 DEF CurtainInv, CurtainKnown
  <2>5. CASE name # "EV_GRAT"
    <3>1. valves'.trig = valves.trig
      BY <2>5 DEF Turn, LockTurn
    <3>2. /\ Queued("EV_GRAT")' <=> Queued("EV_GRAT")
          /\ LastGrat(on) => LastGrat(on)'
      <4>1. CASE Receive(name)
        BY <2>5, <4>1, ReceiveQueue DEF IInv
      <4>2. CASE UNCHANGED inputVars
        BY <4>2 DEF inputVars, Queued, LastGrat
      <4>3. QED
        BY <4>1, <4>2 DEF Turn
    <3>3. ASSUME on, main = "TEST", test = "STOP"
          PROVE  main' = "TEST" /\ test' = "STOP"
      BY <2>2, <3>3 DEF Turn, TestTurn, TestStep, MayFollow, DryTurn, LeaveTurn, ModeTurn,
         NoGrat, DebugTurn, ErrorTurn, testVars
    <3>4. KnownAs(on)'
      BY <2>2, <3>1, <3>2, <3>3 DEF KnownAs
    <3>5. on /\ "GRAT" \in alarm.err => "GRAT" \in alarm'.err
      <4>1. CASE TestTurn(name)
        BY <2>2, <4>1 DEF TestTurn, TestStep, Fits
      <4>2. CASE DryTurn(name)
        BY <4>2 DEF DryTurn, DryStep
      <4>3. CASE LeaveTurn
        BY <4>3 DEF LeaveTurn, Answers
      <4>4. CASE ModeTurn(name)
        BY <4>4 DEF ModeTurn, Answers, Reports
      <4>5. CASE DebugTurn(name)
        BY <4>5 DEF DebugTurn
      <4>6. CASE ErrorTurn(name)
        BY <2>5, <4>6 DEF ErrorTurn, Reports
      <4>7. QED
        BY <4>1, <4>2, <4>3, <4>4, <4>5, <4>6 DEF Turn
    <3>6. LockShown'
      <4> SUFFICES ASSUME valves'.trig, "GRAT" \notin alarm'.err
                   PROVE  Queued("EV_GRAT")
        BY <3>2 DEF LockShown
      <4>1. CASE "GRAT" \notin alarm.err
        BY <2>1, <3>1, <4>1 DEF LockShown
      <4>2. CASE "GRAT" \in alarm.err
        <5>1. ~on
          BY <3>5, <4>2
        <5>2. LastGrat(on)
          BY <2>2, <3>1, <5>1 DEF KnownAs
        <5>3. QED
          BY <5>2 DEF LastGrat, Queued
      <4>3. QED
        BY <4>1, <4>2
    <3>7. QED
      BY <2>3, <3>4, <3>6 DEF CurtainInv, CurtainKnown
  <2>6. QED
    BY <2>4, <2>5
<1>3. QED
  BY <1>1, <1>2

\* One event of another task.
LEMMA CurtainPost ==
  ASSUME IInv, CurtainInv, NEW e, Posted(e)
  PROVE  CurtainInv'
<1>1. /\ Post(e) /\ InputsGood /\ UNCHANGED <<main, valves, alarm, test>>
      /\ lost => lost'
  BY PostQueue DEF Posted, IInv, testVars
<1>2. CASE lost \/ lost'
  BY <1>1, <1>2 DEF CurtainInv
<1>3. CASE ~lost /\ ~lost'
  <2>1. CurtainKnown /\ LockShown
    BY <1>3 DEF CurtainInv
  <2>2. LockShown'
    BY <1>1, <2>1, PostQueue DEF LockShown
  <2>3. PICK on \in BOOLEAN : on = sens["GRAT"] /\ KnownAs(on)
    BY <2>1 DEF CurtainKnown
  <2>4. CASE e.ev = "EV_GRAT"
    <3>1. PICK new \in BOOLEAN : new = sens'["GRAT"] /\ e.on = new
      BY <2>4 DEF Posted
    <3>2. LastGrat(new)'
      BY <1>1, <1>3, <2>4, <3>1, PostQueue
    <3>3. QED
      BY <2>2, <3>1, <3>2 DEF CurtainInv, CurtainKnown, KnownAs
  <2>5. CASE e.ev # "EV_GRAT"
    <3>1. on = sens'["GRAT"]
      BY <2>3, <2>5 DEF Posted
    <3>2. KnownAs(on)'
      BY <1>1, <2>3, <2>5, PostQueue DEF KnownAs
    <3>3. QED
      BY <2>2, <3>1, <3>2 DEF CurtainInv, CurtainKnown
  <2>6. QED
    BY <2>4, <2>5
<1>4. QED
  BY <1>2, <1>3

\* What is known of the curtain holds in every reachable state.
LEMMA CurtainHolds == Spec => []CurtainInv
<1>1. Init => CurtainInv
  <2> SUFFICES ASSUME Init PROVE CurtainInv
    OBVIOUS
  <2>1. ~valves.trig
    <3>1. ValvesOff \in Valves /\ ValvesOff.trig = FALSE
      BY DEF ValvesOff, Valves
    <3>2. QED
      BY <3>1, TrigKept DEF Init
  <2>2. ~Queued("EV_GRAT") /\ main = "TEST" /\ test = "STOP"
    BY DEF Init, Queued
  <2>3. sens["GRAT"] \in BOOLEAN
    BY DEF Init, Sensors
  <2>4. QED
    BY <2>1, <2>2, <2>3 DEF CurtainInv, CurtainKnown, KnownAs, LockShown
<1>2. ASSUME IInv, CurtainInv, [Next]_vars PROVE CurtainInv'
  <2>1. CASE UNCHANGED vars
    BY <1>2, <2>1
    DEF vars, sharedVars, inputVars, testVars, CurtainInv, CurtainKnown, KnownAs, LockShown,
        LastGrat, Queued
  <2>2. QED
    BY <1>2, <2>1, CurtainTurn, CurtainPost, Steps
<1>3. QED
  BY <1>1, <1>2, Invariant, PTL DEF Spec

\* The cylinder is driven down into an interrupted curtain only until the event
\* of the interruption is taken from the queue: no handler, and no wait inside
\* one, drives it again before the curtain is free (FML_Grat.c:58).
THEOREM CurtainAlwaysStops == Spec => []CurtainStops
<1>1. IInv /\ CurtainInv => CurtainStops
  <2> SUFFICES ASSUME IInv, CurtainInv, valves.H, sens["GRAT"], ~lost
               PROVE  Queued("EV_GRAT")
    BY DEF CurtainStops
  <2>1. PICK on \in BOOLEAN : on = sens["GRAT"] /\ KnownAs(on)
    BY DEF CurtainInv, CurtainKnown
  <2>2. ~valves.trig
    BY InvSafe DEF LockConsistent
  <2>3. ~(main = "TEST" /\ test = "STOP")
    BY InvSafe DEF NeverAgainstPhase, Direction, CylinderOf
  <2>4. LastGrat(on)
    BY <2>1, <2>2, <2>3 DEF KnownAs
  <2>5. QED
    BY <2>4 DEF LastGrat, Queued
<1>2. QED
  BY <1>1, Invariant, CurtainHolds, PTL

\* The operator sees why the cylinder stands still: no stop, start or mode change
\* takes back the curtain's error while the lock holds (BLL_MainFsm.c:228,
\* Mersm_Test.c:205-245).
THEOREM LockAlwaysReported == Spec => []LockReported
<1>1. CurtainInv => LockReported
  BY DEF CurtainInv, LockShown, LockReported
<1>2. QED
  BY <1>1, CurtainHolds, PTL

(***************************************************************************)
(* The timers: no state waits for nothing, and no timer outlives its state.*)
(***************************************************************************)

\* Each machine that waits has its timer running or the event in the queue.
Waits ==
  /\ main = "TEST" => Armed \/ \E t \in EndTimers(test) : Queued(TimerEvent[t])
  /\ (main = "DRY" /\ dry # "NULL") => Awaits(DryTimer(dry))
  /\ (main = "DEBUG" /\ debug = "CYL_UP") => Awaits("timeout")

WakeInv == lost \/ Waits

\* A state entry starts the timer that ends the state.
LEMMA EntryArms ==
  ASSUME Entered
  PROVE  Armed'
<1>1. EntryTimer(test') \subseteq EndTimers(test')
  BY DEF EndTimers, EntryTimer, Timers
<1>2. EntryTimer(test') # {} \/ test' = "STOP"
  BY DEF EntryTimer
<1>3. CASE test' = "STOP"
  BY <1>3 DEF Armed
<1>4. CASE EntryTimer(test') # {}
  <2>1. EndTimers(test') \cap tmr'.run # {}
    BY <1>1, <1>4 DEF Entered
  <2>2. QED
    BY <2>1 DEF Armed
<1>5. QED
  BY <1>2, <1>3, <1>4

\* One turn of the fsmTask.
LEMMA WakeTurn ==
  ASSUME IInv, WakeInv, NEW name, Turn(name)
  PROVE  WakeInv'
<1>1. CASE lost
  BY <1>1 DEF Turn, Receive, inputVars, WakeInv
<1>2. CASE ~lost
  <2>1. Waits /\ InputsGood
    BY <1>2 DEF WakeInv, IInv
  <2>2. \A n : n # name => (Queued(n) => Queued(n)')
    <3>1. CASE Receive(name)
      BY <2>1, <3>1, ReceiveQueue
    <3>2. CASE UNCHANGED inputVars
      BY <3>2 DEF inputVars, Queued
    <3>3. QED
      BY <3>1, <3>2 DEF Turn
  <2>3. CASE TestTurn(name)
    <3>1. main = "TEST" /\ main' = "TEST" /\ TestStep(name)
      BY <2>3 DEF TestTurn
    <3>2. CASE Entered
      BY <2>1, <3>1, <3>2, EntryArms DEF Waits, WakeInv
    <3>3. CASE ~Entered
      <4>1. Stayed(name) /\ blocked = "no"
        BY <2>3, <3>1, <3>3 DEF TestStep, TestTurn
      <4>2. CASE Armed'
        BY <3>1, <4>2 DEF Waits, WakeInv
      <4>3. CASE /\ ~Armed' /\ test' = test /\ tmr.run \subseteq tmr'.run
                 /\ "CYL_H" \in alarm.err => "CYL_H" \in alarm'.err
                 /\ name \notin {TimerEvent[t] : t \in EndTimers(test)}
        <5>1. ~Armed
          BY <4>1, <4>3 DEF Armed
        <5>2. PICK t \in EndTimers(test) : Queued(TimerEvent[t])
          BY <2>1, <3>1, <5>1 DEF Waits
        <5>3. TimerEvent[t] # name /\ Queued(TimerEvent[t])'
          BY <2>2, <4>3, <5>2
        <5>4. QED
          BY <3>1, <4>3, <5>3 DEF Waits, WakeInv
      <4>4. QED
        BY <4>1, <4>2, <4>3 DEF Stayed
    <3>4. QED
      BY <3>2, <3>3
  <2>4. CASE DryTurn(name)
    <3>1. main = "DRY" /\ main' = "DRY" /\ DryStep(name)
      BY <2>4 DEF DryTurn
    <3>2. ASSUME dry' # "NULL" PROVE Awaits(DryTimer(dry))'
      <4>1. CASE DryTimer(dry') \in tmr'.run
        BY <4>1 DEF Awaits
      <4>2. CASE UNCHANGED <<dry, tmr>> /\ (dry # "NULL" => name # TimerEvent[DryTimer(dry)])
        BY <2>1, <2>2, <3>1, <3>2, <4>2 DEF Awaits, Waits
      <4>3. QED
        BY <3>1, <3>2, <4>1, <4>2 DEF DryStep
    <3>3. QED
      BY <3>1, <3>2 DEF Waits, WakeInv
  <2>5. CASE LeaveTurn
    BY <2>5 DEF LeaveTurn, Waits, WakeInv, Armed
  <2>6. CASE ModeTurn(name)
    BY <2>6 DEF ModeTurn, Waits, WakeInv, Awaits, DryTimer
  <2>7. CASE DebugTurn(name)
    BY <2>1, <2>2, <2>7, EndEvents DEF DebugTurn, Waits, WakeInv, Awaits
  <2>8. CASE ErrorTurn(name)
    <3>1. "CYL_H" \in alarm.err => "CYL_H" \in alarm'.err
      BY <2>8 DEF ErrorTurn, Reports
    <3>2. Armed => Armed'
      BY <2>8, <3>1 DEF ErrorTurn, Armed, testVars
    <3>3. main # "DEBUG" =>
            \A t \in Timers : Queued(TimerEvent[t]) => Queued(TimerEvent[t])'
      BY <2>2, <2>8, EndEvents DEF ErrorTurn, Timers
    <3>4. Queued(TimerEvent["timeout"]) => Queued(TimerEvent["timeout"])'
      BY <2>2, <2>8, EndEvents DEF ErrorTurn
    <3>5. EndTimers(test) \subseteq Timers /\ DryTimer(dry) \in Timers
      BY DEF EndTimers, EntryTimer, DryTimer, Timers
    <3>6. QED
      BY <2>1, <2>8, <3>2, <3>3, <3>4, <3>5
      DEF ErrorTurn, Waits, WakeInv, Awaits, testVars, dryVars
  <2>9. QED
    BY <2>3, <2>4, <2>5, <2>6, <2>7, <2>8 DEF Turn
<1>3. QED
  BY <1>1, <1>2

\* One event of another task: a timer that stops has its event sent.
LEMMA WakePost ==
  ASSUME IInv, WakeInv, NEW e, Posted(e)
  PROVE  WakeInv'
<1>1. /\ Post(e) /\ InputsGood
      /\ UNCHANGED <<main, blocked, alarm, test, dry, debug>>
      /\ \A t \in tmr.run : t \in tmr'.run \/ e.ev = TimerEvent[t]
      /\ Queued(e.ev)' \/ lost'
      /\ \A n : Queued(n) => Queued(n)'
      /\ lost => lost'
  BY PostQueue DEF Posted, IInv, testVars, dryVars
<1>2. CASE lost \/ lost'
  BY <1>1, <1>2 DEF WakeInv
<1>3. CASE ~lost /\ ~lost'
  <2>1. Waits /\ \A t : Awaits(t) => Awaits(t)'
    BY <1>1, <1>3 DEF WakeInv, Awaits
  <2>2. Armed => Armed' \/ \E t \in EndTimers(test) : Queued(TimerEvent[t])'
    BY <1>1, <1>3 DEF Armed
  <2>3. QED
    BY <1>1, <2>1, <2>2 DEF Waits, WakeInv
<1>4. QED
  BY <1>2, <1>3

\* Whatever waits is woken, in every reachable state.
LEMMA WakeHolds == Spec => []WakeInv
<1>1. Init => WakeInv
  BY DEF Init, WakeInv, Waits, Armed
<1>2. ASSUME IInv, WakeInv, [Next]_vars PROVE WakeInv'
  <2>1. CASE UNCHANGED vars
    BY <1>2, <2>1
    DEF vars, sharedVars, inputVars, testVars, dryVars, WakeInv, Waits, Awaits, Armed, Queued
  <2>2. QED
    BY <1>2, <2>1, WakeTurn, WakePost, Steps
<1>3. QED
  BY <1>1, <1>2, Invariant, PTL DEF Spec

\* No lost wake-up: unless an event was dropped, every state that ends with a
\* timer has it running or its event in the queue, whatever events come in
\* between (FML_DelayTime.c, the enter* and exit* of Mersm_Test.c and Mersm_Dry.c).
THEOREM WakeupNeverLost == Spec => []NoLostWakeup
<1>1. IInv /\ WakeInv => NoLostWakeup
  <2> SUFFICES ASSUME IInv, Waits PROVE NoLostWakeup
    BY DEF WakeInv, NoLostWakeup
  <2>1. ModesAgree
    BY InvSafe
  <2>2. ASSUME main = "TEST", NEW t, EndTimers(test) = {t}, test \notin {"STOP", "CYL_UP", "WATER_IN"}
        PROVE  Awaits(t)
    BY <2>1, <2>2 DEF Waits, Armed, Awaits, ModesAgree
  <2>3. main = "TEST" /\ test \in {"CYL_DOWN", "WATER_EXH"} => Awaits("timeout")
    BY <2>2 DEF EndTimers, EntryTimer
  <2>4. main = "TEST" /\ EntryTimer(test) = {"delay"} => Awaits("delay")
    BY <2>2 DEF EndTimers, EntryTimer
  <2>5. main = "TEST" /\ test = "WATER_IN" => Awaits("timeout") \/ Awaits("delay") \/ blocked # "no"
    BY DEF Waits, Armed, Awaits, EndTimers, Timers
  <2>6. main = "TEST" /\ test = "CYL_UP" => Awaits("timeout") \/ "CYL_H" \in alarm.err
    BY <2>1 DEF Waits, Armed, Awaits, EndTimers, EntryTimer, ModesAgree
  <2>7. QED
    BY <2>3, <2>4, <2>5, <2>6 DEF NoLostWakeup, Waits
<1>2. QED
  BY <1>1, Invariant, WakeHolds, PTL

\* Without the debug mode, the timers that run are those the current state stops.
OwnTimers ==
  /\ main \in {"TEST", "DRY"} /\ ~Queued("EV_DEBUG_MODE")
  /\ main = "TEST" => tmr.run \subseteq ExitTimers(test)
  /\ main = "DRY" => tmr.run \subseteq IF dry = "NULL" THEN {} ELSE {DryTimer(dry)}

\* Every state stops on its exit what its entry has started.
LEMMA EntryStopped ==
  \A s : EntryTimer(s) \subseteq ExitTimers(s)
  BY DEF EntryTimer, ExitTimers, Timers

\* One turn of the fsmTask.
LEMMA OwnTurn ==
  ASSUME IInv, OwnTimers, NEW name, Turn(name)
  PROVE  OwnTimers'
<1>1. ~Queued("EV_DEBUG_MODE")'
  BY ReceiveQueue DEF Turn, IInv, OwnTimers, inputVars, Queued
<1>2. CASE TestTurn(name)
  <2>1. tmr'.run \subseteq ExitTimers(test')
    BY <1>2, EntryStopped DEF TestTurn, TestStep, Entered, Stayed, OwnTimers
  <2>2. QED
    BY <1>1, <1>2, <2>1 DEF TestTurn, OwnTimers
<1>3. CASE DryTurn(name)
  BY <1>1, <1>3 DEF DryTurn, DryStep, OwnTimers
<1>4. CASE LeaveTurn
  <2>1. tmr'.run \subseteq {}
    BY <1>4 DEF LeaveTurn, OwnTimers
  <2>2. QED
    BY <1>1, <1>4, <2>1 DEF LeaveTurn, OwnTimers
<1>5. CASE ModeTurn(name)
  <2>1. name # "EV_DEBUG_MODE"
    BY ReceiveQueue DEF Turn, IInv, OwnTimers
  <2>2. main' = "DRY" /\ dry' = "CYL_DOWN" /\ tmr'.run = tmr.run \cup {"timeout"}
    BY <1>5, <2>1 DEF ModeTurn
  <2>3. tmr.run \subseteq {}
    BY <1>5 DEF ModeTurn, Standby, OwnTimers, ExitTimers
  <2>4. QED
    BY <1>1, <2>2, <2>3 DEF OwnTimers, DryTimer
<1>6. CASE DebugTurn(name)
  BY <1>6 DEF DebugTurn, OwnTimers
<1>7. CASE ErrorTurn(name)
  BY <1>1, <1>7 DEF ErrorTurn, OwnTimers, testVars, dryVars
<1>8. QED
  BY <1>2, <1>3, <1>4, <1>5, <1>6, <1>7 DEF Turn

\* No timer runs on in a state that did not start it, as long as the operator does
\* not use the debug mode, which may be left while its timeout runs (enter* and
\* exit* of Mersm_Test.c and Mersm_Dry.c).
THEOREM TimersAlwaysOwned ==
  ASSUME "EV_DEBUG_MODE" \notin Commands
  PROVE  Spec => []TimersOwned
<1>1. Init => OwnTimers
  BY DEF Init, OwnTimers, TimersOff, Queued
<1>2. ASSUME IInv, OwnTimers, [Next]_vars PROVE OwnTimers'
  <2>1. ASSUME NEW e, Posted(e) PROVE OwnTimers'
    <3>1. /\ ~Queued("EV_DEBUG_MODE")' /\ tmr'.run \subseteq tmr.run
          /\ UNCHANGED <<main, test, dry>>
      BY <1>2, <2>1, PostQueue DEF Posted, IInv, OwnTimers, testVars, dryVars
    <3>2. QED
      BY <1>2, <3>1 DEF OwnTimers
  <2>2. CASE UNCHANGED vars
    BY <1>2, <2>2 DEF vars, sharedVars, inputVars, testVars, dryVars, OwnTimers, Queued
  <2>3. QED
    BY <1>2, <2>1, <2>2, OwnTurn, Steps
<1>3. IInv /\ OwnTimers => TimersOwned
  <2> SUFFICES ASSUME IInv, OwnTimers PROVE TimersOwned
    OBVIOUS
  <2>1. CASE main = "TEST"
    BY <2>1 DEF OwnTimers, TimersOwned, ExitTimers, EntryTimer
  <2>2. CASE main = "DRY"
    BY <2>2, InvTypes DEF OwnTimers, TimersOwned, DryTimer, TypeOK, DryStates, DryRunning
  <2>3. QED
    BY <2>1, <2>2 DEF OwnTimers
<1>4. QED
  BY <1>1, <1>2, <1>3, Invariant, PTL DEF Spec

(***************************************************************************)
(* The water.                                                              *)
(***************************************************************************)

\* A state with water in the chamber is left only for another one or for WATER_EXH,
\* and the main state changes at standby only; WATER_EXH itself may be left undrained
\* by a stop (Mersm_Test.c:283-315, BLL_MainFsm.c:144-318).
THEOREM AlwaysDrainsFirst == Spec => DrainFirst
<1> DEFINE A == /\ test \in Wet /\ test' # test => test' \in Wet \cup {"WATER_EXH"}
                /\ main' # main => test = "STOP" /\ test' = "STOP"
<1>1. ASSUME IInv, [Next]_vars PROVE [A]_vars
  <2>1. ModesAgree
    BY <1>1, InvSafe
  <2>2. ASSUME NEW name, Turn(name) PROVE A
    <3>1. CASE TestTurn(name)
      BY <3>1 DEF TestTurn, TestStep, MayFollow
    <3>2. CASE LeaveTurn
      BY <3>2, StateKinds DEF LeaveTurn
    <3>3. CASE ModeTurn(name)
      BY <3>3, StateKinds DEF ModeTurn, Standby
    <3>4. CASE DebugTurn(name)
      BY <2>1, <3>4 DEF DebugTurn, testVars, ModesAgree
    <3>5. CASE DryTurn(name) \/ ErrorTurn(name)
      BY <3>5 DEF DryTurn, ErrorTurn, testVars
    <3>6. QED
      BY <2>2, <3>1, <3>2, <3>3, <3>4, <3>5 DEF Turn
  <2>3. ASSUME NEW e, Posted(e) PROVE A
    BY <2>3 DEF Posted, testVars
  <2>4. QED
    BY <1>1, <2>2, <2>3, Steps
<1>2. QED
  BY <1>1, Invariant, PTL DEF Spec, DrainFirst

-----------------------------------------------------------------------------
(* Part 3: the refinement of the abstract chamber. *)

(***************************************************************************)
(* The inductive invariant of part 1 gives the drive of the cylinder in    *)
(* each state; what is left is which stages follow each other, handler by  *)
(* handler.                                                                *)
(***************************************************************************)

\* The stage a state of the test machine stands for.
TestStage(s) ==
  CASE s = "STOP"      -> "idle"
    [] s \in PreWater  -> "closed"
    [] s \in Wet       -> "wet"
    [] s = "CYL_UP"    -> "opening"
    [] OTHER           -> "draining"

\* The moves of the test machine that the chamber allows.
Follow ==
  {<<"idle", "closed">>, <<"wet", "draining">>, <<"closed", "opening">>,
   <<"draining", "opening">>, <<"opening", "idle">>}

TestMove ==
  \/ TestStage(test') = TestStage(test) /\ (fill' => fill)
  \/ <<TestStage(test), TestStage(test')>> \in Follow /\ ~fill'
  \/ TestStage(test) = "closed" /\ TestStage(test') = "wet" /\ fill'

\* The stage of every state of the test machine.
LEMMA StageOf ==
  /\ TestStage("STOP") = "idle" /\ TestStage("CYL_UP") = "opening"
  /\ \A s \in PreWater : TestStage(s) = "closed"
  /\ \A s \in Wet : TestStage(s) = "wet"
  /\ TestStage("WATER_EXH") = "draining" /\ TestStage("WATER_PUMP") = "draining"
  BY DEF TestStage, PreWater, Wet

\* An event that leaves the state and the filling valve alone.
LEMMA StayMoves ==
  ASSUME UNCHANGED <<test, fill>>
  PROVE  TestMove
  BY DEF TestMove

\* A state entry whose stage the chamber allows next.
LEMMA EnterMoves ==
  ASSUME NEW s, NEW a, Enter(s, a), s # "WATER_IN",
         \/ TestStage(s) = TestStage(test)
         \/ <<TestStage(test), TestStage(s)>> \in Follow
  PROVE  TestMove
<1>1. test' = s /\ ~fill'
  BY DEF Enter
<1>2. QED
  BY <1>1 DEF TestMove

\* The first entry of a wet state fills the chamber.
LEMMA FillMoves ==
  ASSUME NEW a, Enter("WATER_IN", a), test \in PreWater
  PROVE  TestMove
<1>1. test' = "WATER_IN" /\ fill'
  BY DEF Enter
<1>2. QED
  BY <1>1, StageOf DEF TestMove, Wet

\* Mersm_evStart begins a cycle from standby only.
LEMMA StartMoves ==
  ASSUME TestEvStart
  PROVE  TestMove
<1>1. "CYL_DOWN" \in PreWater
  BY DEF PreWater
<1>2. QED
  BY <1>1, StageOf, EnterMoves, StayMoves
  DEF TestEvStart, OnlyAlarm, TestIgnores, testVars, Follow

\* Mersm_evStop drains whenever water may be in.
LEMMA StopMoves ==
  ASSUME TestEvStop
  PROVE  TestMove
<1>1. CASE StopInStop
  BY <1>1, StayMoves DEF StopInStop
<1>2. CASE test = "WATER_IN" /\ BeginExitWaterIn("stop", BeforeStop)
  BY <1>2 DEF BeginExitWaterIn, TestMove, testVars
<1>3. CASE /\ test \in PreWater \cup {"WATER_EXH", "WATER_PUMP"}
           /\ Enter("CYL_UP", BeforeStop)
  BY <1>3, StageOf, EnterMoves DEF Follow
<1>4. CASE test \in Measuring \cup {"ADD_PRES"} /\ Enter("WATER_EXH", BeforeStop)
  <2>1. test \in Wet
    BY <1>4 DEF Measuring, Wet
  <2>2. QED
    BY <1>4, <2>1, StageOf, EnterMoves DEF Follow
<1>5. CASE test = "CYL_UP" /\ Enter("STOP", Ended(BeforeStop))
  BY <1>5, StageOf, EnterMoves DEF Follow
<1>6. QED
  BY <1>1, <1>2, <1>3, <1>4, <1>5 DEF TestEvStop

\* The measurement ends in draining or goes on wet.
LEMMA MeasureMoves ==
  ASSUME Measure
  PROVE  TestMove
<1>1. test \in Wet /\ "ADD_PRES" \in Wet
  BY DEF Measure, Measuring, Wet
<1>2. ASSUME NEW c, NEW allNG, NEW a, LowEnds(c, allNG, a) \/ HighEnds(c, a)
      PROVE  TestMove
  BY <1>1, <1>2, StageOf, EnterMoves DEF LowEnds, HighEnds, Follow
<1>3. ASSUME NEW s, NEW a, NextStage(s, a)
      PROVE  TestMove
  BY <1>3 DEF NextStage, TestMove
<1>4. QED
  BY <1>2, <1>3 DEF Measure

\* Mersm_evDelayOver.
LEMMA DelayMoves ==
  ASSUME TestEvDelayOver
  PROVE  TestMove
<1>1. {"PRODUCT_TEST", "AIR_PURGE", "AIR_PUMP", "TOR13", "IS_DRY"} \subseteq PreWater
  BY DEF PreWater
<1>2. {"HIGH", "ADD_PRES", "WATER_IN"} \subseteq Wet
  BY DEF Wet
<1>3. CASE Tor13Over
  BY <1>1, <1>3, StageOf, EnterMoves DEF Tor13Over, Follow
<1>4. CASE ProductTestOver
  BY <1>1, <1>4, StageOf, EnterMoves DEF ProductTestOver, Follow
<1>5. CASE IsDryOver
  BY <1>1, <1>5, StageOf, EnterMoves, FillMoves DEF IsDryOver, Follow
<1>6. CASE AddPresOver
  BY <1>2, <1>6, StageOf, EnterMoves DEF AddPresOver, Follow
<1>7. CASE test = "WATER_IN" /\ BeginExitWaterIn("delayOver", alarm)
  BY <1>7 DEF BeginExitWaterIn, TestMove, testVars
<1>8. CASE Measure
  BY <1>8, MeasureMoves
<1>9. CASE test \in {"AIR_PURGE", "AIR_PUMP", "WATER_EXH", "WATER_PUMP"}
           /\ \/ test = "AIR_PURGE" /\ Enter("AIR_PUMP", alarm)
              \/ test = "AIR_PUMP" /\ Enter("IS_DRY", alarm)
              \/ test = "WATER_EXH" /\ Enter("WATER_PUMP", alarm)
              \/ test = "WATER_PUMP" /\ Enter("CYL_UP", alarm)
  BY <1>1, <1>9, StageOf, EnterMoves DEF Follow
<1>10. CASE TestIgnores
  BY <1>10, StayMoves DEF TestIgnores, testVars
<1>11. QED
  BY <1>3, <1>4, <1>5, <1>6, <1>7, <1>8, <1>9, <1>10 DEF TestEvDelayOver

\* Mersm_evLiqSwitch, Mersm_evCylPosH and Mersm_evCylPosL.
LEMMA SwitchMoves ==
  ASSUME NEW on, TestEvLiqSwitch(on) \/ TestEvCylPosH(on) \/ TestEvCylPosL(on)
  PROVE  TestMove
<1>1. {"CYL_DOWN", "TOR13"} \subseteq PreWater
  BY DEF PreWater
<1>2. CASE TestEvLiqSwitch(on)
  BY <1>2, StayMoves DEF TestEvLiqSwitch, OnlyAlarm, TestIgnores, testVars
<1>3. CASE TestEvCylPosH(on) \/ TestEvCylPosL(on)
  BY <1>1, <1>3, StageOf, EnterMoves, StayMoves
  DEF TestEvCylPosH, TestEvCylPosL, TestIgnores, testVars, Follow
<1>4. QED
  BY <1>2, <1>3

\* Mersm_evTimeOut.
LEMMA TimeOutMoves ==
  ASSUME TestEvTimeOut
  PROVE  TestMove
<1>1. {"CYL_DOWN", "TOR13"} \subseteq PreWater
  BY DEF PreWater
<1>2. ASSUME NEW why, NEW a, BeginExitWaterIn(why, a) PROVE TestMove
  BY <1>2 DEF BeginExitWaterIn, TestMove, testVars
<1>3. ASSUME NEW a, OnlyAlarm(a) \/ TestIgnores PROVE TestMove
  BY <1>3, StayMoves DEF OnlyAlarm, TestIgnores, testVars
<1>4. CASE test = "CYL_DOWN" /\ \E a : Enter("TOR13", a) \/ Enter("CYL_UP", a)
  BY <1>1, <1>4, StageOf, EnterMoves DEF Follow
<1>5. CASE \/ test = "CYL_UP" /\ \E a : Enter("STOP", a)
           \/ test = "WATER_EXH" /\ \E a : Enter("WATER_PUMP", a)
  BY <1>5, StageOf, EnterMoves DEF Follow
<1>6. QED
  BY <1>2, <1>3, <1>4, <1>5 DEF TestEvTimeOut

\* The end of the wait of exitWATER_IN: drained or measured.
LEMMA ResumeMoves ==
  ASSUME test = "WATER_IN", EndExitWaterIn
  PROVE  TestMove
<1>1. {"WATER_IN", "LOW"} \subseteq Wet
  BY DEF Wet
<1>2. QED
  BY <1>1, StageOf, EnterMoves DEF EndExitWaterIn, Follow

(***************************************************************************)
(* The main state machine.                                                 *)
(***************************************************************************)

\* Main state and test state before and after a step: a mode is entered from
\* standby and left to standby, and the test machine moves as TestMove says.
ModeMove ==
  \/ main = "TEST" /\ main' = "TEST" /\ TestMove
  \/ main # "TEST" /\ main' = main
  \/ main = "TEST" /\ main' \in {"DRY", "DEBUG"} /\ test = "STOP" /\ ~fill'
  \/ main \in {"DRY", "DEBUG"} /\ main' = "TEST" /\ test' = "STOP"
  \/ main = "DEBUG" /\ main' = "FAULT"

\* A step that leaves main, test and fill alone.
LEMMA IgnoredMoves ==
  ASSUME UNCHANGED <<main, test, fill>>
  PROVE  ModeMove
  BY StayMoves DEF ModeMove

\* Back in the test machine at standby.
LEMMA BackMoves ==
  ASSUME main \in {"DRY", "DEBUG"}, NEW a, NEW t, BackToTest(a, t)
  PROVE  ModeMove
  BY DEF ModeMove, BackToTest, TestEvInit

\* Every event is a move of the chamber.
LEMMA DispatchMoves ==
  ASSUME IInv, Dispatch
  PROVE  ModeMove
<1> USE DEF ByTest, ByDry, ByDebug
<1>1. ASSUME main = "TEST", main' = main, TestMove PROVE ModeMove
  BY <1>1 DEF ModeMove
<1>2. ASSUME main \in {"DRY", "DEBUG"}, main' = main PROVE ModeMove
  BY <1>2 DEF ModeMove
<1>3. ASSUME Ignored PROVE ModeMove
  BY <1>3, IgnoredMoves DEF Ignored, sharedVars, testVars
<1>4. CASE EvStart
  BY <1>1, <1>3, <1>4, StartMoves DEF EvStart
<1>5. CASE EvStop
  <2>1. CASE DryStopped
    BY <2>1, BackMoves DEF DryStopped
  <2>2. QED
    BY <1>1, <1>2, <1>3, <1>5, <2>1, StopMoves DEF EvStop
<1>6. CASE EvDelayOver
  BY <1>1, <1>2, <1>3, <1>6, DelayMoves DEF EvDelayOver
<1>7. CASE EvLiqSwitch
  BY <1>1, <1>3, <1>7, SwitchMoves DEF EvLiqSwitch
<1>8. CASE EvVacuum
  BY <1>8, IgnoredMoves DEF EvVacuum, testVars
<1>9. CASE EvCylPosH
  <2>1. CASE DryStopped
    BY <2>1, BackMoves DEF DryStopped
  <2>2. QED
    BY <1>1, <1>3, <1>9, <2>1, SwitchMoves, BackMoves DEF EvCylPosH
<1>10. CASE EvCylPosL
  BY <1>1, <1>2, <1>3, <1>10, SwitchMoves DEF EvCylPosL
<1>11. CASE EvGrat
  BY <1>11, IgnoredMoves DEF EvGrat, testVars
<1>12. CASE EvDryMode
  BY <1>3, <1>12 DEF EvDryMode, ModeMove, Standby, DryEvStart
<1>13. CASE EvDebugMode
  <2>1. CASE /\ Standby /\ main' = "DEBUG" /\ DebugEvStart
    <3>1. main = "TEST" /\ test = "STOP" /\ fill' = fill
      BY <2>1 DEF Standby, DebugEvStart
    <3>2. ~fill
      BY <3>1 DEF IInv, InTest, InDry, InDebug, TestGood, TestSound
    <3>3. QED
      BY <2>1, <3>1, <3>2 DEF ModeMove
  <2>2. QED
    BY <1>2, <1>3, <1>13, <2>1, BackMoves DEF EvDebugMode
<1>14. CASE EvTimeOut
  <2>1. CASE main = "DEBUG" /\ main' = "FAULT"
    BY <2>1 DEF ModeMove
  <2>2. QED
    BY <1>1, <1>2, <1>14, <2>1, TimeOutMoves DEF EvTimeOut
<1>15. CASE EvSetSigV
  BY <1>2, <1>3, <1>15 DEF EvSetSigV
<1>16. CASE Resume
  <2>1. main = "TEST" /\ main' = main /\ test = "WATER_IN"
    BY <1>16 DEF Resume, IInv, InTest, InDry, InDebug, TestIdle, TestGood, TestSound
  <2>2. QED
    BY <1>1, <1>16, <2>1, ResumeMoves DEF Resume
<1>17. QED
  BY <1>4, <1>5, <1>6, <1>7, <1>8, <1>9, <1>10, <1>11, <1>12, <1>13, <1>14, <1>15, <1>16
  DEF Dispatch

\* So is every step of the system.
LEMMA NextMoves ==
  ASSUME IInv, [Next]_vars
  PROVE  ModeMove
<1>1. CASE Dispatch
  BY <1>1, DispatchMoves
<1>2. CASE Environment
  BY <1>2, IgnoredMoves
  DEF Environment, SensorTask, TimerTask, NetworkTask, SensorChange, Expire,
      Command, SetCoil, sharedVars, testVars
<1>3. CASE UNCHANGED vars
  BY <1>3, IgnoredMoves DEF vars, sharedVars, testVars
<1>4. QED
  BY <1>1, <1>2, <1>3 DEF Next

(***************************************************************************)
(* The refinement.                                                         *)
(***************************************************************************)

\* The stage in each main state.
LEMMA StageIs ==
  /\ main = "TEST" => Stage = TestStage(test)
  /\ main = "DRY" => Stage = "drying"
  /\ main \in {"DEBUG", "FAULT"} => Stage = "manual"
  BY DEF Stage, TestStage

\* The cylinder is driven only as the stage allows.
DrivenAllowed == /\ valves.H \in {d \in BOOLEAN : d => Stage \in C!Lowering}
                 /\ valves.L \in {u \in BOOLEAN : u => Stage \in C!Raising}

\* The invariant says so in every state.
LEMMA DriveAllowed == IInv => DrivenAllowed
<1> USE DEF DrivenAllowed
<1> SUFFICES ASSUME IInv
             PROVE  /\ valves.H \in BOOLEAN /\ (valves.H => Stage \in C!Lowering)
                    /\ valves.L \in BOOLEAN /\ (valves.L => Stage \in C!Raising)
  OBVIOUS
<1>1. valves.H \in BOOLEAN /\ valves.L \in BOOLEAN
  BY InvTypes DEF TypeOK, Valves
<1>2. CASE InTest
  <2>1. /\ test \in TestStates /\ Stage = TestStage(test)
        /\ valves.H => CylinderOf(test) = "down"
        /\ valves.L => CylinderOf(test) = "up"
    BY <1>2, StageIs DEF InTest, TestGood, TestTyped, TestSound, Follows
  <2>2. CylinderOf(test) = "down" => TestStage(test) \in {"closed", "wet", "draining"}
    BY <2>1 DEF CylinderOf, TestStage, TestStates
  <2>3. CylinderOf(test) = "up" => TestStage(test) \in {"idle", "opening"}
    BY <2>1, StageOf DEF CylinderOf
  <2>4. QED
    BY <1>1, <2>1, <2>2, <2>3 DEF C!Lowering, C!Raising
<1>3. CASE InDry
  BY <1>1, <1>3, StageIs DEF InDry, C!Lowering, C!Raising
<1>4. CASE InDebug
  BY <1>1, <1>4, StageIs DEF InDebug, C!Lowering, C!Raising
<1>5. QED
  BY <1>2, <1>3, <1>4 DEF IInv

\* The state machines start with the chamber at rest and the cylinder held up.
LEMMA InitRefines == Init => C!Init
<1> SUFFICES ASSUME Init PROVE C!Init
  OBVIOUS
<1>1. Stage = "idle" /\ fill = FALSE
  BY StageIs, StageOf DEF Init
<1>2. valves.H = FALSE /\ valves.L = TRUE
  BY DEF Init, Drive, SetH, SetL, ValvesOff
<1>3. QED
  BY <1>1, <1>2 DEF C!Init

\* A move of the machines is a step of the chamber.
LEMMA StepRefines ==
  ASSUME IInv, IInv', [Next]_vars
  PROVE  [C!Next]_C!chamber
<1>1. ModeMove
  BY NextMoves
<1>2. DrivenAllowed'
  BY DriveAllowed, PTL
<1>3. /\ main' = "TEST" => Stage' = TestStage(test')
      /\ main' = "DRY" => Stage' = "drying"
      /\ main' \in {"DEBUG", "FAULT"} => Stage' = "manual"
  BY DEF Stage, TestStage
<1>4. main \in {"TEST", "DRY", "DEBUG", "FAULT"}
  BY DEF IInv, InTest, InDry, InDebug
<1>5. /\ main' = "DRY" => ~fill'
      /\ main' = "TEST" /\ test' = "STOP" => ~fill'
  BY DEF IInv, InTest, InDry, InDebug, DryGood, TestGood, TestSound
<1>6. \/ C!Begin \/ C!Fill \/ C!Drain \/ C!Open \/ C!Finish
      \/ C!EnterMode \/ C!LeaveMode \/ C!Continue
  <2>1. CASE main = "TEST" /\ main' = "TEST" /\ TestMove
    BY <1>3, <2>1, StageIs
    DEF TestMove, Follow, C!Begin, C!Fill, C!Drain, C!Open, C!Finish, C!Continue
  <2>2. CASE main # "TEST" /\ main' = main
    BY <1>3, <1>4, <1>5, <2>2, StageIs DEF C!Continue
  <2>3. CASE main = "TEST" /\ main' \in {"DRY", "DEBUG"} /\ test = "STOP" /\ ~fill'
    BY <1>3, <2>3, StageIs, StageOf DEF C!EnterMode
  <2>4. CASE main \in {"DRY", "DEBUG"} /\ main' = "TEST" /\ test' = "STOP"
    BY <1>3, <1>5, <2>4, StageIs, StageOf DEF C!LeaveMode
  <2>5. CASE main = "DEBUG" /\ main' = "FAULT"
    BY <1>3, <2>5, StageIs DEF C!Continue
  <2>6. QED
    BY <1>1, <2>1, <2>2, <2>3, <2>4, <2>5 DEF ModeMove
<1>7. QED
  BY <1>2, <1>6 DEF C!Next, DrivenAllowed

\* Every behaviour of the state machines, in any interleaving with sensors,
\* timers, light curtain and operator, is a behaviour of the abstract chamber:
\* water is let in only into a closed chamber, drained before it opens, and the
\* cylinder is driven only as the stage allows (BLL_MainFsm.c:144-318).
THEOREM Refinement == Spec => ImplementsChamber
<1>1. IInv /\ IInv' /\ [Next]_vars => [C!Next]_C!chamber
  BY StepRefines
<1>2. QED
  BY <1>1, InitRefines, Invariant, PTL DEF Spec, ImplementsChamber, C!Spec
=============================================================================
