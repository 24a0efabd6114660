------------------------------ MODULE OneShot ------------------------------
(***************************************************************************)
(* One delay as the state machines use it (FsmCore): it is started,        *)
(* stopped, and while it runs it may expire once, with one event.          *)
(***************************************************************************)
EXTENDS DelayTimer, Naturals

VARIABLES
  timer,   \* a member of TimerStates, of which only "delay" is used
  over     \* number of events sent, modulo 2

oneShotVars == <<timer, over>>

Set == timer' = Start(timer, "delay") /\ UNCHANGED over

Cancel == timer' = Stop(timer, {"delay"}) /\ UNCHANGED over

Expire == /\ "delay" \in timer.run
          /\ timer' = Stop(timer, {"delay"}) /\ over' = (over + 1) % 2

Init == timer = TimersOff /\ over = 0

Next == Set \/ Cancel \/ Expire

Spec == Init /\ [][Next]_oneShotVars
============================================================================
