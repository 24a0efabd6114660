------------------------------- MODULE Chamber -------------------------------
(***************************************************************************)
(* What the machine promises to the operator about the test chamber: when  *)
(* the cylinder may move, when water may come in, and that after it the    *)
(* draining is at least begun before the chamber opens (a stop may cut it  *)
(* short).  The detailed machine of MainFsm implements it (module          *)
(* ChamberRefinement).                                                     *)
(***************************************************************************)
VARIABLES
  stage,    \* where the chamber is in its cycle
  inlet,    \* the filling valve and pump are on
  down,     \* the output that lowers the cylinder
  up        \* the output that raises it

chamber == <<stage, inlet, down, up>>

Lowering == {"closed", "wet", "draining", "drying", "manual"}
Raising  == {"idle", "opening", "drying", "manual"}

Init == stage = "idle" /\ inlet = FALSE /\ down = FALSE /\ up = TRUE

\* A cycle begins only with the cylinder up and the chamber at rest.
Begin  == stage = "idle" /\ stage' = "closed" /\ ~inlet'
Fill   == stage = "closed" /\ stage' = "wet" /\ inlet'
Drain  == stage = "wet" /\ stage' = "draining" /\ ~inlet'
Open   == stage \in {"closed", "draining"} /\ stage' = "opening" /\ ~inlet'
Finish == stage = "opening" /\ stage' = "idle" /\ ~inlet'

\* Drying, and manual operation, are entered from rest and left to rest.
EnterMode == stage = "idle" /\ stage' \in {"drying", "manual"} /\ ~inlet'
LeaveMode == stage \in {"drying", "manual"} /\ stage' = "idle" /\ ~inlet'

\* Within a stage the inlet closes but opens again only by hand.
Continue == stage' = stage /\ (inlet' => inlet \/ stage = "manual")

\* Whatever happens, the cylinder is driven only the way the stage allows; the
\* light curtain may take the drive away and give it back at any time.
Next == /\ \/ Continue \/ Begin \/ Fill \/ Drain \/ Open \/ Finish
           \/ EnterMode \/ LeaveMode
        /\ down' \in {d \in BOOLEAN : d => stage' \in Lowering}
        /\ up' \in {u \in BOOLEAN : u => stage' \in Raising}

Spec == Init /\ [][Next]_chamber
==============================================================================
