----------------------------- MODULE DelayTimer -----------------------------
(***************************************************************************)
(* The two one-shot delays of FML_DelayTime.c that the state machines      *)
(* share: "delay" (D_TIM_1, shown to the operator) and "timeout"           *)
(* (D_TIM_2).  Time itself is abstracted: a running timer may expire at    *)
(* any moment.                                                             *)
(***************************************************************************)
EXTENDS FiniteSets

Timers == {"delay", "timeout"}

\* run: the timers that are active; asserted: MY_ASSERT(0) was reached.
TimerStates == [run : SUBSET Timers, asserted : BOOLEAN]

TimersOff == [run |-> {}, asserted |-> FALSE]

\* setDelayTime: an active timer is not restarted (only its limit changes)
\* and the assertion prints.
Start(t, name) ==
  IF name \in t.run THEN [t EXCEPT !.asserted = TRUE]
                    ELSE [t EXCEPT !.run = @ \cup {name}]

Stop(t, names) == [t EXCEPT !.run = @ \ names]
=============================================================================
