------------------------------- MODULE FsmCore -------------------------------
(***************************************************************************)
(* What the three machines of the fsmTask share: the event queue s_fsmQ,   *)
(* the sensor array m_pStateArr written by the 10 ms sensor timer, the two *)
(* delay timers, the valve outputs and the alarm words, with the actions   *)
(* of the other tasks that reach them.  The fsmTask (priority 28) runs one *)
(* handler per event; the timer service task has priority 31 and the       *)
(* network task 3, so both only ever append to the queue, without waiting. *)
(***************************************************************************)
EXTENDS Naturals, Sequences, Alarm, GratLock, DelayTimer

CONSTANTS
  QueueLen,   \* length of s_fsmQ (20 in the code)
  Commands,   \* operator commands of the PLC that arrive
  Coils,      \* valves the operator sets one by one
  Flipping,   \* sensors that change in this instance
  Found       \* sensors that may be active already at power-up

AllCommands == {"EV_START", "EV_STOP", "EV_DRY_MODE", "EV_DEBUG_MODE"}

SingleValves == {"CYL_H_V", "CYL_L_V", "WATER_IN_V"}

Sensors == {"LIQ", "VACUUM", "H_CYL", "L_CYL", "GRAT"}

ASSUME CoreAssumption == /\ QueueLen \in Nat \ {0}
                         /\ Commands \subseteq AllCommands
                         /\ Coils \subseteq SingleValves
                         /\ Flipping \subseteq Sensors
                         /\ Found \subseteq Sensors

VARIABLES
  main,      \* m_MainSteteID; "FAULT" once the task has crashed
  blocked,   \* on whose behalf the task waits inside exitWATER_IN
  tmr,       \* the delay timers
  valves,    \* the cylinder valves and the light-curtain lock
  fill,      \* WATER_IN_V and WATER_PUMP are on
  alarm,     \* m_errCode and m_vbStatus
  q,         \* s_fsmQ
  lost,      \* an event was dropped because the queue was full (history)
  sens       \* m_pStateArr

sharedVars == <<main, blocked, tmr, valves, fill, alarm>>
inputVars  == <<q, lost, sens>>

\* The event a change of each sensor is turned into.
SensorEvent ==
  [s \in Sensors |->
     CASE s = "LIQ"    -> "EV_LIQ_SWITCH" [] s = "VACUUM" -> "EV_VACUUM"
       [] s = "H_CYL"  -> "EV_CYL_POS_H"  [] s = "L_CYL"  -> "EV_CYL_POS_L"
       [] s = "GRAT"   -> "EV_GRAT"]

TimerEvent == [t \in Timers |-> IF t = "delay" THEN "EV_DELAY_OVER"
                                               ELSE "EV_TIME_OUT"]

\* An AppMesage: the event, a name it carries (or "") and a level.
Ev(name, arg, on) == [ev |-> name, arg |-> arg, on |-> on]

\* xQueueSend(s_fsmQ, &msg, 0): a full queue drops the event.
Post(e) == /\ q' = IF Len(q) < QueueLen THEN Append(q, e) ELSE q
           /\ lost' = (lost \/ Len(q) >= QueueLen)

\* xQueueReceive by the task, which is not inside a handler.
Receive(name) == /\ main # "FAULT" /\ blocked = "no"
                 /\ q # <<>> /\ Head(q).ev = name
                 /\ q' = Tail(q)
                 /\ UNCHANGED <<lost, sens>>

Arg == Head(q).arg
On  == Head(q).on

------------------------------------------------------------------------------
(* The other tasks. *)

\* exitSwitchCb: the debounced state of s changed; the array is updated, then
\* the event is sent.
SensorChange(s) ==
  /\ sens' = [sens EXCEPT ![s] = ~@]
  /\ Post(Ev(SensorEvent[s], "", ~sens[s]))
  /\ UNCHANGED sharedVars

\* delayTimerCb: the timer is stopped and its event sent.  The argument (the
\* phase the expiry belongs to) is kept for the properties only.
Expire(t, phase) ==
  /\ t \in tmr.run
  /\ tmr' = Stop(tmr, {t})
  /\ Post(Ev(TimerEvent[t], phase, TRUE))
  /\ UNCHANGED <<main, blocked, valves, fill, alarm, sens>>

\* eMBRegCoilsCB: a command coil, or the coil of a single valve, is written by
\* the PLC.  START and STOP post their event only when written with 1, the two
\* mode coils with either value; the handlers never look at that value.
Levels(c) == IF c \in {"EV_START", "EV_STOP"} THEN {TRUE} ELSE BOOLEAN

Command(c, on) == /\ on \in Levels(c)
                  /\ Post(Ev(c, "", on))
                  /\ UNCHANGED <<sharedVars, sens>>

SetCoil(v, on) == /\ Post(Ev("EV_SET_SIG_V", v, on))
                  /\ UNCHANGED <<sharedVars, sens>>
==============================================================================
