------------------------------ MODULE GratLock ------------------------------
(***************************************************************************)
(* The two cylinder valves (entries CYL_H_V and CYL_L_V of m_vStateArr,    *)
(* FML_ExtValve.c) and the light-curtain lock over them (FML_Grat.c).      *)
(* While the curtain is triggered both outputs stay off and the requested  *)
(* position is remembered, to be applied when the curtain clears.          *)
(***************************************************************************)
Valves == [H : BOOLEAN, L : BOOLEAN, trig : BOOLEAN,
           savedH : BOOLEAN, savedL : BOOLEAN]

ValvesOff == [H |-> FALSE, L |-> FALSE, trig |-> FALSE,
              savedH |-> FALSE, savedL |-> FALSE]

\* Mutant: the lock does not reach the output.
NotForcedOff(v, on) == [v EXCEPT !.H = on]

\* valve_setVal of CYL_H_V: under the lock the pair (request, vState of L) is
\* saved and the output forced off.  The code sets the output as requested first
\* (FML_ExtValve.c:106), for the few instructions up to line 113; that pulse is left
\* out.
SetH(v, on) ==
  IF v.trig THEN [v EXCEPT !.savedH = on, !.savedL = v.L, !.H = FALSE]
            ELSE [v EXCEPT !.H = on]

SetL(v, on) ==
  IF v.trig THEN [v EXCEPT !.savedH = v.H, !.savedL = on, !.L = FALSE]
            ELSE [v EXCEPT !.L = on]

\* Mutant: while locked the request of a new phase is dropped.
DropsRequest(v, pos) ==
  IF v.trig THEN v ELSE SetL(SetH(v, pos = "down"), pos = "up")

\* The loop at the head of every state entry: i runs from WATER_IN_V to
\* CYL_L_V, so CYL_H_V (20) is written before CYL_L_V (21).
Drive(v, pos) == SetL(SetH(v, pos = "down"), pos = "up")

\* The two setVal calls come before m_isTrig is set.
TrigOn(v) ==
  LET saved == [v EXCEPT !.savedH = v.H, !.savedL = v.L]
  IN  [SetL(SetH(saved, FALSE), FALSE) EXCEPT !.trig = TRUE]

\* m_isTrig is reset before the two setVal calls.
TrigOff(v) ==
  LET free == [v EXCEPT !.trig = FALSE]
  IN  [SetL(SetH(free, v.savedH), v.savedL) EXCEPT
         !.savedH = FALSE, !.savedL = FALSE]
=============================================================================
