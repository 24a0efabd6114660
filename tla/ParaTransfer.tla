---------------------------- MODULE ParaTransfer ----------------------------
(***************************************************************************)
(* The holding registers of BLL_Modbus.c on their way to the fsmTask: the  *)
(* parameter block, which EV_SET_PARA carries as a POINTER to the register *)
(* buffer, and the opening of the proportional valve, which both tasks     *)
(* write.  The network task (priority 3) writes a register in two          *)
(* assignments and runs only while the fsmTask waits: for an event, or     *)
(* inside a handler (vTaskDelay, a full g_modbusQ).                        *)
(***************************************************************************)
EXTENDS Naturals, Sequences

CONSTANTS
  Paras,      \* registers of the parameter block (84); the opening follows
  Requests,   \* <<first register, number>> of the writes the PLC sends
  MaxWrites,  \* writes of this instance
  MaxQueue    \* events s_fsmQ takes (20 in the code)

High == Paras + 1   \* MB_OPENING_HI
Low  == Paras + 2   \* MB_OPENING_LO
Opening == {High, Low}
Regs == 1..Low

ASSUME ParaAssumption ==
  /\ Paras \in Nat \ {0} /\ MaxWrites \in Nat /\ MaxQueue \in Nat \ {0}
  /\ Requests \subseteq {r \in Regs \X Regs : r[1] + r[2] - 1 <= Low}

VARIABLES
  hold,     \* usRegHoldBuf: of each register, the bytes that it was made from
  para,     \* m_paraSetting, by registers
  opened,   \* m_openPercent of the proportional valve, by registers
  debugOn,  \* the debug machine is in DEBUG_ON
  busy,     \* the fsmTask waits inside a handler
  events,   \* EV_SET_PARA and EV_SET_PROPOR in s_fsmQ
  write,    \* the write the network task works on, or NoWrite
  at, half, \* the register it is at, and whether its high byte is written
  writes,   \* number of the last write
  asked,    \* the block as the last complete write of it left it (history)
  lost,     \* an event found the queue full (history)
  overlap,  \* events of which a part was written again before they were taken
            \* (history)
  clash,    \* the fsmTask set the opening during a write of it (history)
  ignored   \* since the opening was set, a write of it had no effect (history)

fsmParaVars == <<para, opened, debugOn, busy>>
netParaVars == <<write, at, half, writes>>
histVars == <<asked, lost, overlap, clash, ignored>>
paraVars == <<hold, events, fsmParaVars, netParaVars, histVars>>

NoWrite == <<0, 0>>

\* A register is written as high << 8, then |= low: the value is the union of
\* what was put in.  Writes are numbered, an opening the state machines set has a
\* number beyond them.
Part(v, b) == <<v, b>>
Whole(v)   == {Part(v, "hi"), Part(v, "lo")}
OwnOpening == {MaxWrites + 1, MaxWrites + 2}
Own(v)     == [r \in Opening |-> Whole(v)]

Block  == 1..Paras
Covers(r) == r[1]..(r[1] + r[2] - 1)

\* The event of a write, and the registers the event points at.
Events     == {"PARA", "PROPOR"}
Source(e)  == IF e = "PARA" THEN Block ELSE Opening
EventAtStart(r) == CASE r[1] = 1 -> "PARA" [] r[1] = High -> "PROPOR" \* mutant
                     [] OTHER -> "none"
EventOf(r) == CASE r = <<1, Paras>> -> "PARA" [] r = <<High, 2>> -> "PROPOR"
                [] OTHER -> "none"

Writing(regs) == write # NoWrite /\ Covers(write) \cap regs # {}
Queued(e)     == \E i \in 1..Len(events) : events[i] = e

Restricted(f, regs) == [r \in regs |-> f[r]]

------------------------------------------------------------------------------
(* The fsmTask. *)

Take(e) == ~busy /\ events # <<>> /\ Head(events) = e /\ events' = Tail(events)

\* EV_SET_PARA: the block is copied through the pointer, whatever it holds now.
SetPara == /\ Take("PARA")
           /\ para' = Restricted(hold, Block)
           /\ UNCHANGED <<hold, opened, debugOn, busy, netParaVars, histVars>>

\* Mutant: no callback.
SetsQuietly(opening) == opened' = opening /\ ignored' = FALSE /\ UNCHANGED hold

\* setOutputPres: the output, and update_pro_v_cb back to the registers.
Sets(opening) == /\ opened' = opening
                 /\ hold' = [r \in Regs |-> IF r \in Opening THEN opening[r] ELSE hold[r]]
                 /\ ignored' = FALSE

\* EV_SET_PROPOR, obeyed only in DEBUG_ON.
SetPropor ==
  /\ Take("PROPOR")
  /\ IF debugOn THEN Sets(Restricted(hold, Opening))
                ELSE ignored' = TRUE /\ UNCHANGED <<opened, hold>>
  /\ UNCHANGED <<para, debugOn, busy, netParaVars, asked, lost, overlap, clash>>

\* A state of the test or dry machine sets the opening, DEBUG_OFF closes it.
SetOpening ==
  /\ ~busy
  /\ \E v \in OwnOpening : Sets(Own(v))
  /\ debugOn' = FALSE /\ clash' = Writing(Opening)
  /\ UNCHANGED <<para, busy, events, netParaVars, asked, lost, overlap>>

EnterDebug == /\ ~busy /\ ~debugOn /\ debugOn' = TRUE
              /\ UNCHANGED <<hold, para, opened, busy, events, netParaVars, histVars>>

\* A handler waits, and goes on.
Wait == /\ ~busy /\ busy' = TRUE
        /\ UNCHANGED <<hold, para, opened, debugOn, events, netParaVars, histVars>>
Wake == /\ busy /\ busy' = FALSE
        /\ UNCHANGED <<hold, para, opened, debugOn, events, netParaVars, histVars>>

FsmSteps == SetPara \/ SetPropor \/ SetOpening \/ EnterDebug \/ Wait \/ Wake

------------------------------------------------------------------------------
(* The network task: eMBRegHoldingCB for a write. *)

\* The fsmTask has the higher priority.
GetsProcessor == busy \/ events = <<>>

Begin == /\ GetsProcessor /\ write = NoWrite /\ writes < MaxWrites
         /\ write' \in Requests
         /\ at' = write'[1] /\ half' = FALSE /\ writes' = writes + 1
         /\ overlap' = overlap \cup {e \in Events : Queued(e) /\ EventOf(write') # e
                                                 /\ Covers(write') \cap Source(e) # {}}
         /\ UNCHANGED <<hold, events, fsmParaVars, asked, lost, clash, ignored>>

PutHigh == /\ GetsProcessor /\ write # NoWrite /\ at \in Covers(write) /\ ~half
           /\ hold' = [hold EXCEPT ![at] = {Part(writes, "hi")}]
           /\ half' = TRUE
           /\ UNCHANGED <<events, fsmParaVars, write, at, writes, histVars>>

\* The low byte is put in; the register may have been loaded before the fsmTask
\* wrote it.
PutLow == /\ GetsProcessor /\ write # NoWrite /\ half
          /\ \/ hold' = [hold EXCEPT ![at] = @ \cup {Part(writes, "lo")}]
             \/ hold' = [hold EXCEPT ![at] = Whole(writes)]
          /\ half' = FALSE /\ at' = at + 1
          /\ UNCHANGED <<events, fsmParaVars, write, writes, histVars>>

\* Mutant: an event is sent only when none is waiting.
PostIfEmpty(e) ==
  (IF events = <<>> THEN events' = <<e>> ELSE UNCHANGED events) /\ UNCHANGED lost

\* xQueueSend(s_fsmQ, &msg, 0).
Post(e) ==
  IF Len(events) < MaxQueue THEN events' = Append(events, e) /\ UNCHANGED lost
                            ELSE lost' = TRUE /\ UNCHANGED events

Ends(r) == GetsProcessor /\ write = r /\ at \notin Covers(r) /\ write' = NoWrite /\ at' = 0

\* The whole block and the whole opening have an event, other writes have none.
Done ==
  /\ write # NoWrite /\ Ends(write)
  /\ CASE EventOf(write) = "none" ->
            ignored' = (ignored \/ Writing(Opening)) /\ UNCHANGED <<events, lost, asked>>
       [] EventOf(write) = "PARA" ->
            Post("PARA") /\ asked' = Restricted(hold, Block) /\ UNCHANGED ignored
       [] OTHER ->
            Post("PROPOR") /\ ignored' = (ignored \/ lost') /\ UNCHANGED asked
  /\ UNCHANGED <<hold, fsmParaVars, half, writes, overlap, clash>>

GoOn == PutHigh \/ PutLow \/ Done

------------------------------------------------------------------------------
\* The registers are zero at start-up; the first opening is set by the state
\* machines.
ParaInit ==
  /\ hold = [r \in Regs |-> Whole(0)]
  /\ para = [r \in Block |-> Whole(0)] /\ opened = [r \in Opening |-> Whole(0)]
  /\ debugOn = FALSE /\ busy = FALSE /\ events = <<>>
  /\ write = NoWrite /\ at = 0 /\ half = FALSE /\ writes = 0
  /\ asked = [r \in Block |-> Whole(0)]
  /\ lost = FALSE /\ overlap = {} /\ clash = FALSE /\ ignored = FALSE

ParaNext == FsmSteps \/ Begin \/ GoOn

ParaSpec == ParaInit /\ [][ParaNext]_paraVars

\* A handler ends, the event at the head is taken after those before it (strong
\* fairness: other events may delay it again and again, each of them once), and
\* the network task goes on when nothing above it runs.
ParaFairSpec ==
  ParaSpec /\ WF_paraVars(Wake) /\ SF_paraVars(SetPara) /\ SF_paraVars(SetPropor)
           /\ SF_paraVars(GoOn)
------------------------------------------------------------------------------
(* Properties *)

Values == SUBSET {Part(v, b) : v \in 0..(MaxWrites + 2), b \in {"hi", "lo"}}

\* Every variable holds a value of its type.
ParaTypeOK ==
  /\ hold \in [Regs -> Values] /\ para \in [Block -> Values]
  /\ opened \in [Opening -> Values] /\ asked \in [Block -> Values]
  /\ events \in Seq(Events) /\ Len(events) <= MaxQueue
  /\ write \in Requests \cup {NoWrite} /\ at \in 0..(Low + 1) /\ writes \in 0..MaxWrites
  /\ {debugOn, busy, half, lost, clash, ignored} \subseteq BOOLEAN /\ overlap \subseteq Events

\* Parameters other than those the PLC asked for last, a mixture of two blocks
\* among them, are in force only while a block is being written or its event
\* waits: although the event only points at registers that may be written again
\* before it is taken, the last block always wins (BLL_Modbus.c:371-388,
\* BLL_MainFsm.c:293-301).
MixtureTransient ==
  \/ para = asked
  \/ Writing(Block) \/ Queued("PARA") \/ lost \/ "PARA" \in overlap

\* The valve is opened by a value that the PLC or a state asked for as a whole,
\* unless both wrote it at a time or another write is about to replace it; and
\* the registers show the output, unless they are being written or a write was
\* not obeyed (FML_ExtProporV.c:61, BLL_Modbus.c:255).
OpeningTrue ==
  \/ Writing(Opening) \/ Queued("PROPOR")
  \/ /\ (\E v \in 0..(MaxWrites + 2) : opened = Own(v)) \/ clash \/ "PROPOR" \in overlap
     /\ Restricted(hold, Opening) = opened \/ ignored

\* Once the PLC has stopped writing, its last block comes into force.
LastBlockInForce == <>[](para = asked \/ lost \/ "PARA" \in overlap)
==============================================================================
