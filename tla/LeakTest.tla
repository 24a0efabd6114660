------------------------------ MODULE LeakTest ------------------------------
(***************************************************************************)
(* The results of Mersm_LeakTest.c over many cycles: which ports leaked at *)
(* low and at high pressure, the results published to the PLC, and the     *)
(* counters of ports that are NG again and again, two bits for each port   *)
(* in one u8.  The steps of the cycle around it are those of Mersm_Test.c  *)
(* that start, end or abandon a measurement.                               *)
(***************************************************************************)
EXTENDS LeakStages, Sequences

ASSUME FourPorts == Ports <= 4   \* s_ngCount has room for four

VARIABLES
  phase,     \* what the test machine does: see Phases
  sub,       \* stage of the running measurement
  cond,      \* testCondition: 0, 1 (too wet) or 2 (water pressure)
  lowNG,     \* m_measResult of the low-pressure machine
  highNG,    \* m_measResult of the high-pressure machine
  all,       \* s_measResult: the low and the high half
  ngCount,   \* s_ngCount
  vbRes,     \* m_vbRes: pairs of a port and "OK" or "NG"
  needDry,   \* NEED_DRY was raised in this cycle
  before     \* ports whose last result was NG, since drying was last asked for (history)

leakVars == <<phase, sub, cond, lowNG, highNG, all, ngCount, vbRes, needDry, before>>

PortSet == 1..Ports
Phases  == {"stop", "prepare", "low", "raise", "high", "drain"}

\* 1 << (2 * (port - 1)): the lower of the two bits of a port in s_ngCount.
Unit(p) == <<1, 4, 16, 64>>[p]

\* The two bits of a port in s_ngCount.
NgOf(count, p) == (count \div Unit(p)) % 4

\* s_ngCount & 0xaa: the upper bit of some port.
Twice(count) == \E p \in PortSet : NgOf(count, p) >= 2

\* Mutant: the counter goes on after drying was asked for.
AddOnly(count, p) == (count + Unit(p)) % 256

\* addNgCount: one more NG of port p; the second one in a row asks for drying,
\* and then all the ports start again.
AddNg(count, p) ==
  LET sum == (count + Unit(p)) % 256 IN IF Twice(sum) THEN 0 ELSE sum

\* Mutant: the mask 0x2a leaves out the last port.
AsksButLast(count, p) == \E q \in 1..(Ports - 1) : NgOf(count + Unit(p), q) >= 2

AsksDry(count, p) == Twice((count + Unit(p)) % 256)

\* clearNgCount
ClearNg(count, p) == count - NgOf(count, p) * Unit(p)

------------------------------------------------------------------------------
\* Mutant: only the high-pressure measurement counts.
HighOnly(p, leaks) == p \in leaks

\* A port is NG when it leaks at either pressure.
FinalNG(p, leaks) == p \in leaks \/ p \in all.low

\* addNgCount or clearNgCount with the result they publish.
Publish(p, ng) ==
  /\ vbRes' = vbRes \cup {<<p, IF ng THEN "NG" ELSE "OK">>}
  /\ ngCount' = IF ng THEN AddNg(ngCount, p) ELSE ClearNg(ngCount, p)
  /\ needDry' = (needDry \/ (ng /\ AsksDry(ngCount, p)))
  /\ before' = IF needDry' # needDry THEN {}
               ELSE IF ng THEN before \cup {p} ELSE before \ {p}

\* caclResAndSend at the end of a measuring stage.
Record(leaks) ==
  IF phase = "low"
  THEN /\ lowNG' = lowNG \cup leaks
       /\ all' = [low |-> lowNG \cup leaks, high |-> {}]
       /\ UNCHANGED <<highNG, ngCount, vbRes, needDry, before>>
  ELSE LET ng == highNG \cup leaks
       IN  /\ highNG' = ng
           /\ Publish(PortOf(sub), FinalNG(PortOf(sub), leaks))
           /\ all' = [all EXCEPT !.high = @ \cup ng]
           /\ UNCHANGED lowNG

NoRecord == UNCHANGED <<lowNG, highNG, all, ngCount, vbRes, needDry, before>>

\* The check on entering stage s: 0 passes, 1 and 2 end the measurement.
Outcomes(s) == {0} \cup (IF s = 2 THEN (IF phase = "low" THEN {2} ELSE {})
                         ELSE IF Meas(s) THEN {1} ELSE {})

------------------------------------------------------------------------------
\* Mutant: the results of the last cycle stay.
StartKeepsResults(accepted) ==
  /\ phase = "stop" /\ phase' = IF accepted THEN "prepare" ELSE "stop"
  /\ needDry' = FALSE
  /\ UNCHANGED <<sub, cond, lowNG, highNG, all, ngCount, vbRes, before>>

\* Mersm_evStart of the test machine: the results of the last cycle are cleared.
\* It does so before the sensor checks, which may refuse the cycle.
StartCycle(accepted) ==
  /\ phase = "stop"
  /\ phase' = IF accepted THEN "prepare" ELSE "stop"
  /\ vbRes' = {} /\ needDry' = FALSE
  /\ UNCHANGED <<sub, cond, lowNG, highNG, all, ngCount, before>>

\* enterLOW_PRES_DETEC and the evStart that follows it.
EnterLow ==
  /\ phase = "prepare" /\ phase' = "low"
  /\ sub' = 1 /\ cond' = 0
  /\ lowNG' = {} /\ all' = [low |-> {}, high |-> {}]
  /\ UNCHANGED <<highNG, ngCount, vbRes, needDry, before>>

\* enterHIGH_PRES_DETEC and the evStart that follows it.
EnterHigh ==
  /\ phase = "raise" /\ phase' = "high"
  /\ sub' = 1 /\ cond' = 0
  /\ highNG' = {}
  /\ UNCHANGED <<lowNG, all, ngCount, vbRes, needDry, before>>

\* evDelayOver of a stage that is not the last; c is the check of the next one.
\* A failed check has put the machine in SUB_NULL; EndLow or EndHigh, in the
\* same call of the test machine, goes on from there.
NextStage ==
  /\ phase \in {"low", "high"} /\ sub \in 1..(LastMeas - 1)
  /\ IF Meas(sub) THEN \E leaks \in SUBSET {PortOf(sub)} : Record(leaks)
                  ELSE NoRecord
  /\ \E c \in Outcomes(sub + 1) :
       /\ cond' = c
       /\ sub' = IF c = 0 THEN sub + 1 ELSE 0
  /\ UNCHANGED phase

\* Mutant: the stage after the last is not taken modulo SUB_MAX.
RunsPastLast ==
  /\ phase \in {"low", "high"} /\ sub = LastMeas
  /\ \E leaks \in SUBSET {PortOf(sub)} : Record(leaks)
  /\ cond' = 0 /\ sub' = sub + 1 /\ UNCHANGED phase

\* evDelayOver of the last measurement, which checks the pressure itself.
LastStage ==
  /\ phase \in {"low", "high"} /\ sub = LastMeas
  /\ \E leaks \in SUBSET {PortOf(sub)} : Record(leaks)
  /\ cond' \in {0, 1}
  /\ sub' = 0
  /\ UNCHANGED phase

\* Mutant: a measurement that ends early keeps the counters.
KeepsCounters == ngCount

\* clearAllNgCount
CountersCleared == 0

\* The test machine after the low-pressure measurement has ended.
EndLow ==
  /\ phase = "low" /\ sub = 0
  /\ \/ /\ cond = 2
        /\ phase' = "drain"
        /\ UNCHANGED <<ngCount, needDry, before>>
     \/ \E vacuum \in BOOLEAN :
          /\ cond # 2 /\ (cond = 1 \/ vacuum \/ lowNG = PortSet)
          /\ phase' = "drain"
          /\ ngCount' = CountersCleared /\ needDry' = TRUE /\ before' = {}
     \/ /\ cond = 0 /\ lowNG # PortSet
        /\ phase' = "raise"
        /\ UNCHANGED <<ngCount, needDry, before>>
  /\ UNCHANGED <<sub, cond, lowNG, highNG, all, vbRes>>

\* The test machine after the high-pressure measurement has ended.
EndHigh ==
  /\ phase = "high" /\ sub = 0
  /\ phase' = "drain"
  /\ needDry' = (needDry \/ cond = 1)
  /\ UNCHANGED <<sub, cond, lowNG, highNG, all, ngCount, vbRes, before>>

\* A stop, a failed check or the end of the cycle: the measurement goes to
\* SUB_NULL, results and counters stay as they are.
EndCycle ==
  /\ phase # "stop" /\ ~(phase \in {"low", "high"} /\ sub = 0)
  /\ phase' = "stop" /\ sub' = 0
  /\ UNCHANGED <<cond, lowNG, highNG, all, ngCount, vbRes, needDry, before>>

Init ==
  /\ phase = "stop" /\ sub = 0 /\ cond = 0
  /\ lowNG = {} /\ highNG = {} /\ all = [low |-> {}, high |-> {}]
  /\ ngCount = 0 /\ vbRes = {} /\ needDry = FALSE /\ before = {}

Next == \/ \E accepted \in BOOLEAN : StartCycle(accepted)
        \/ EnterLow \/ EnterHigh \/ NextStage \/ LastStage
        \/ EndLow \/ EndHigh \/ EndCycle

Spec == Init /\ [][Next]_leakVars
------------------------------------------------------------------------------
(* Properties *)

\* Every variable holds a value of its C type.
TypeOK ==
  /\ phase \in Phases /\ sub \in 0..LastMeas /\ cond \in 0..2
  /\ lowNG \subseteq PortSet /\ highNG \subseteq PortSet
  /\ all \in [low : SUBSET PortSet, high : SUBSET PortSet]
  /\ ngCount \in 0..255 /\ vbRes \subseteq PortSet \X {"OK", "NG"}
  /\ needDry \in BOOLEAN /\ before \subseteq PortSet

\* The counters mean what they are for: between the calls each is 0 or 1, whatever
\* its neighbours in the byte are counted (Mersm_LeakTest.c:1062), and a port is
\* counted only if its last published result was NG, however cycles were stopped
\* or refused in between.
CountedWasNG ==
  \A p \in PortSet : NgOf(ngCount, p) = 0 \/ (NgOf(ngCount, p) = 1 /\ p \in before)

\* The results the PLC reads of one cycle never contradict each other: no port
\* is both OK and NG (Mersm_Test.c:178, Mersm_LeakTest.c:1059-1097).
OneResult == \A p \in PortSet : ~({<<p, "OK">>, <<p, "NG">>} \subseteq vbRes)

\* A result of this cycle agrees with what was measured: NG exactly for the
\* ports that leaked at low or at high pressure.
ResultsAgree ==
  phase \in {"high", "drain"} =>
    \A p \in PortSet : /\ <<p, "NG">> \in vbRes => p \in lowNG \cup highNG
                       /\ <<p, "OK">> \in vbRes => p \notin lowNG \cup highNG

\* Two NG results of a port in a row ask for drying (Mersm_LeakTest.c:1063),
\* whatever the other ports did in the meantime, unless their NG did so.
SecondNGAsks ==
  [][\A p \in PortSet :
       (p \in before /\ <<p, "NG">> \in vbRes' \ vbRes) => needDry']_leakVars
=============================================================================
