------------------------------ MODULE Debounce ------------------------------
(***************************************************************************)
(* One switch input: sampled every 10 ms by the timer callback of          *)
(* FML_ExtSignal.c, debounced by key.c, reported to the main state machine *)
(* once that has registered its callback.                                  *)
(***************************************************************************)
EXTENDS Naturals, Sequences

CONSTANTS
  OnLimit,    \* samples that make the input active (2 to 20 in the code)
  OffLimit    \* samples that make it inactive (5 or 50)

ASSUME LimitAssumption == OnLimit \in Nat \ {0} /\ OffLimit \in Nat \ {0}

VARIABLES
  onCount,      \* m_trigCount[TRIG_ON], counted up to OnLimit
  offCount,     \* m_trigCount[TRIG_OFF], counted up to OffLimit
  state,        \* m_state, copied to m_pStateArr
  registered,   \* the main state machine has registered recvExtSigEventCb
  word,         \* the bit of s_extSigState, shown to the PLC
  told,         \* the level of the last event delivered, or "none"
  recent,       \* the last samples, newest first (history)
  found         \* the state at the registration (history)

debounceVars == <<onCount, offCount, state, registered, word, told, recent, found>>

Window == IF OnLimit > OffLimit THEN OnLimit ELSE OffLimit

AtMost(n, limit) == IF n > limit THEN limit ELSE n

\* Mutant: a sample of the other kind does not reset the counter.
Accumulates(count, hit, limit) == IF hit THEN AtMost(count + 1, limit) ELSE count

\* m_trigCount of one kind after a sample: only compared with its limit.
Counted(count, hit, limit) == IF hit THEN AtMost(count + 1, limit) ELSE 0

\* Mutant: a limit is exceeded instead of reached.
DetectedLate(level) ==
  IF level THEN state \/ onCount >= OnLimit ELSE state /\ offCount < OffLimit

\* singDetect: the state after a sample.
Detected(level) ==
  IF level THEN state \/ Counted(onCount, TRUE, OnLimit) >= OnLimit
           ELSE state /\ Counted(offCount, TRUE, OffLimit) < OffLimit

\* Mutant: an input is reported only when it becomes active.
TellsOnlyOn(now) == IF registered /\ now THEN "on" ELSE told

\* The event of a change goes to the callback, if there is one yet.
ToldAfter(now) == IF registered THEN (IF now THEN "on" ELSE "off") ELSE told

\* exitSwitchCb with the input at the given level.
Sample(level) ==
  /\ onCount' = Counted(onCount, level, OnLimit)
  /\ offCount' = Counted(offCount, ~level, OffLimit)
  /\ state' = Detected(level)
  /\ IF state' # state
     THEN word' = state' /\ told' = ToldAfter(state')
     ELSE UNCHANGED <<word, told>>
  /\ recent' = SubSeq(<<level>> \o recent, 1, AtMost(Len(recent) + 1, Window))
  /\ UNCHANGED <<registered, found>>

\* mainFsm_init, after the sampling has started.
Register ==
  /\ ~registered /\ registered' = TRUE /\ found' = state
  /\ UNCHANGED <<onCount, offCount, state, word, told, recent>>

Init ==
  /\ onCount = 0 /\ offCount = 0 /\ state = FALSE
  /\ registered = FALSE /\ word = FALSE /\ told = "none" /\ recent = <<>>
  /\ found = FALSE

Next == Register \/ \E level \in BOOLEAN : Sample(level)

Spec == Init /\ [][Next]_debounceVars
------------------------------------------------------------------------------
(* Properties *)

\* The last n samples all had the given level.
Steady(samples, n, level) ==
  Len(samples) >= n /\ \A i \in 1..n : samples[i] = level

\* No glitch gets through and no steady level is missed: the input becomes
\* active exactly when the last OnLimit samples were active, and inactive
\* exactly when the last OffLimit were not (key.c:125-150).
NoGlitch ==
  [][/\ (state' /\ ~state) => Steady(recent', OnLimit, TRUE)
     /\ (~state' /\ state) => Steady(recent', OffLimit, FALSE)]_debounceVars
NoneMissed == /\ Steady(recent, OnLimit, TRUE) => state
              /\ Steady(recent, OffLimit, FALSE) => ~state

\* The main state machine is told of every change since it registered, and of none
\* before: the input has the level of the last event, or without one the level it
\* had at the registration, which the machine has to read for itself.  The bit
\* shown to the PLC always has that level (FML_ExtSignal.c:195-278,
\* BLL_MainFsm.c:116).
ToldAgrees ==
  /\ ~registered => told = "none"
  /\ registered => state = (IF told = "none" THEN found ELSE told = "on")
  /\ word = state
=============================================================================
