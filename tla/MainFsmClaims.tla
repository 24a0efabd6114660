---------------------------- MODULE MainFsmClaims ----------------------------
(***************************************************************************)
(* What comments and assertions of the source say of the state machines    *)
(* and the code does not do.  Each claim is refuted by a run of its own.   *)
(***************************************************************************)
EXTENDS MainFsm

\* When the light curtain clears in a phase that lowers the cylinder, the
\* cylinder is driven down again (FML_Grat.c:54 and 70: the lock saves the
\* position, the release restores it).
UnlockRestores ==
  [][(valves.trig /\ ~valves'.trig /\ main = "TEST" /\ Direction = "down")
       => valves'.H]_vars

\* A test starts only when no error is recorded (Mersm_Test.c:195).
StartNeedsNoError ==
  [][(test = "STOP" /\ test' = "CYL_DOWN") => alarm'.err = {}]_vars

\* The timeout that ends WATER_EXH is the one started on entering it
\* (Mersm_Test.c:691), never one of an earlier state.
TimeoutsFresh ==
  [][(EvTimeOut /\ main = "TEST" /\ test = "WATER_EXH") => (Arg = "WATER_EXH")]_vars

\* The timeout of the rising cylinder in debug mode is a reported error
\* (Mersm_Debug.c:226), never the end of the program.
DebugTimeoutReported == main # "FAULT"

\* No timer is started while it still runs (FML_DelayTime.c:90, an assertion).
NeverAsserts == ~tmr.asserted

\* Once the pumpings are used up drying does not begin another purge
\* (Mersm_Dry.c:17: beyond the limit an error is reported).
DryLimit ==
  [][(dry' = "AIR_PUGE" /\ dry # dry') => dryCnt < MaxDry]_vars

\* Writing 1 to the debug coil enters manual operation, writing 0 leaves it
\* (BLL_Modbus.c:487).
DebugCoilLevel ==
  [][EvDebugMode => /\ main # "DEBUG" /\ main' = "DEBUG" => On
                    /\ main = "DEBUG" /\ main' # "DEBUG" => ~On]_vars
==============================================================================
