------------------------------- MODULE Alarm -------------------------------
(***************************************************************************)
(* The flag words of BLL_Alarm.c: m_errCode (error bits) and m_vbStatus    *)
(* (the status word the PLC reads), as the pure operators the state        *)
(* machines call.  A flag word is the set of its bits; the two words are   *)
(* one record, because each call may change both.                          *)
(* The MB_UPDATE_* messages the same calls post are in ModbusMirror.       *)
(***************************************************************************)

\* The bits of ERROR_t that some call sets (the others are never used).
Errors == {"VACUUM", "NO_PRODUCT", "WATER_PRES", "WATER_IN_TIME_OUT",
           "ADD_PRES_TIME_OUT", "GRAT", "PUMP", "CYL_L", "CYL_H", "LIQ",
           "NEED_DRY", "DRY"}

\* The bits of VB_STATUS_t that some call sets.
VbStatus == {"READY", "RUN", "ERR", "END", "DEBUG", "DRY"}

Alarms == [err : SUBSET Errors, vb : SUBSET VbStatus]

NoAlarm == [err |-> {}, vb |-> {}]

\* What setting a status bit takes away from the word.
Supersedes ==
  [t \in VbStatus |->
     CASE t = "READY"           -> {"RUN", "DEBUG", "DRY", "END"}
       [] t \in {"RUN", "DEBUG"} -> {"READY", "END"}
       [] t = "END"             -> {"READY", "RUN"}
       [] t = "ERR"             -> {"READY"}
       [] OTHER                 -> {}]

\* READY is not answered while drying is needed.
SetVbStatus(a, t) ==
  IF t = "READY" /\ "DRY" \in a.vb
  THEN a
  ELSE [a EXCEPT !.vb = (@ \ Supersedes[t]) \cup {t}]

\* Mutant: a device becomes ready with the end of the error, whatever else it shows.
ReadyAfterError(a, t) ==
  [a EXCEPT !.vb = IF t = "ERR" THEN (@ \ {t}) \cup {"READY"} ELSE @ \ {t}]

\* A device whose only status was the error becomes ready.
ClearVbStatus(a, t) ==
  [a EXCEPT !.vb = IF t = "ERR" /\ @ = {"ERR"} THEN {"READY"} ELSE @ \ {t}]

SetErrBit(a, e) ==
  SetVbStatus([a EXCEPT !.err = @ \cup {e}], "ERR")

\* Mutant: the error status outlives the last error.
KeepsErrStatus(a) == a

\* The error status goes with the last error bit.
DropErrStatus(a) ==
  IF a.err = {} /\ "ERR" \in a.vb THEN ClearVbStatus(a, "ERR") ELSE a

ClearErrBit(a, e) ==
  IF e \in a.err THEN DropErrStatus([a EXCEPT !.err = @ \ {e}]) ELSE a

ClearAllErr(a) == DropErrStatus([a EXCEPT !.err = {}])

\* The return type is u16: the bit ERR_DRY = 0x10000 does not fit.
GetAllErr(a) == a.err \ {"DRY"}

\* What several handlers do after a check: raise or take back one error.
SetOrClear(a, e, bad) == IF bad THEN SetErrBit(a, e) ELSE ClearErrBit(a, e)
=============================================================================
