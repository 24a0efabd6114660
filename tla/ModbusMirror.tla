---------------------------- MODULE ModbusMirror ----------------------------
(***************************************************************************)
(* How the flag words of BLL_Alarm.c and the leak rates reach the Modbus   *)
(* input registers.  The fsmTask changes a word and then posts a POINTER   *)
(* to it on g_modbusQ; the comTask, of lower priority, reads the word      *)
(* through the pointer when the message comes up, one 16-bit half after    *)
(* the other.  Leak rates are posted by value; MB_TEST_OVER moves those of *)
(* the last cycle to the history registers.                                *)
(***************************************************************************)
EXTENDS Naturals, Sequences

CONSTANTS
  Words,      \* the flag words that change in this instance
  QueueLen,   \* length of g_modbusQ (20 in the code)
  Ports,      \* measured ports, each with one leak-rate register
  MaxCycle    \* cycles of this instance

ASSUME MirrorAssumption == /\ Words \subseteq {"err", "vb"}
                           /\ QueueLen \in Nat \ {0}
                           /\ Ports \in Nat \ {0} /\ MaxCycle \in Nat \ {0}

VARIABLES
  word,      \* m_errCode and m_vbStatus, by halves
  owed,      \* the message the fsmTask is about to post, or Nothing
  mq,        \* g_modbusQ
  com,       \* the message the comTask works on, or Nothing
  half,      \* the half it copies
  loaded,    \* what it has loaded of that half, or NotLoaded
  reg,       \* the registers of the words
  cur,       \* leak-rate registers: the cycle that measured them, 0 if cleared
  prev,      \* history registers
  cycle,     \* number of the running cycle
  dropped    \* a message was given up because the queue stayed full (history)

fsmVars == <<word, owed, cycle>>
comVars == <<com, half, loaded, reg, cur, prev>>
mirrorVars == <<fsmVars, comVars, mq, dropped>>

Halves == {"lo", "hi"}
PortSet == 1..Ports

\* m_vbStatus is a u16: it has no high half.
HalvesOf(w) == IF w = "err" THEN Halves ELSE {"lo"}

Msg(kind, port, val) == [kind |-> kind, port |-> port, val |-> val]
Pointer(w) == Msg(w, 0, 0)
Nothing    == Msg("none", 0, 0)
NotLoaded  == 2
Messages   == [kind : Words \cup {"leak", "over"}, port : 0..Ports, val : 0..MaxCycle]

Quiet == owed = Nothing

------------------------------------------------------------------------------
(* The fsmTask. *)

\* Mutant: no message is posted while the comTask copies the word anyway.
CoalescesWithCopy(w) ==
  /\ Quiet
  /\ \E h \in HalvesOf(w) : word' = [word EXCEPT ![w][h] = 1 - @]
  /\ owed' = IF com = Pointer(w) THEN Nothing ELSE Pointer(w)
  /\ UNCHANGED <<cycle, mq, comVars, dropped>>

\* setErrBit, clearErrBit, setVbStatus, clearVbStatus: the bits of some halves
\* change and the pointer is to be posted.
ChangeWord(w) ==
  /\ Quiet
  /\ \E flip \in SUBSET HalvesOf(w) :
       word' = [word EXCEPT ![w] = [h \in Halves |-> IF h \in flip THEN 1 - @[h]
                                                                   ELSE @[h]]]
  /\ owed' = Pointer(w)
  /\ UNCHANGED <<cycle, mq, comVars, dropped>>

\* Mersm_evStart: a new cycle begins with MB_TEST_OVER.
NewCycle ==
  /\ Quiet /\ cycle < MaxCycle
  /\ cycle' = cycle + 1
  /\ owed' = Msg("over", 0, 0)
  /\ UNCHANGED <<word, mq, comVars, dropped>>

\* caclResAndSend: a leak rate of this cycle.  leakDispCb posts the rate of the port
\* being measured too, every 100 ms from the timer task: of this cycle as well.
Leak(p) ==
  /\ Quiet /\ cycle > 0
  /\ owed' = Msg("leak", p, cycle)
  /\ UNCHANGED <<word, cycle, mq, comVars, dropped>>

\* Mutant: the queue is written without looking at its length.
SendAnyway ==
  /\ ~Quiet /\ owed' = Nothing /\ mq' = Append(mq, owed)
  /\ UNCHANGED <<word, cycle, comVars, dropped>>

\* xQueueSend(g_modbusQ, &msg, 10): sent, or given up when the queue has stayed
\* full for 10 ticks.
Send ==
  /\ ~Quiet /\ owed' = Nothing
  /\ \/ /\ Len(mq) < QueueLen
        /\ mq' = Append(mq, owed) /\ UNCHANGED dropped
     \/ /\ Len(mq) = QueueLen
        /\ dropped' = TRUE /\ UNCHANGED mq
  /\ UNCHANGED <<word, cycle, comVars>>

------------------------------------------------------------------------------
(* The comTask. *)

Take ==
  /\ com = Nothing /\ mq # <<>>
  /\ com' = Head(mq) /\ mq' = Tail(mq)
  /\ half' = "lo" /\ loaded' = NotLoaded
  /\ UNCHANGED <<fsmVars, reg, cur, prev, dropped>>

\* The word is read through the pointer; the fsmTask may run before the value
\* is stored in the register.
Load ==
  /\ com.kind \in Words /\ loaded = NotLoaded
  /\ loaded' = word[com.kind][half]
  /\ UNCHANGED <<fsmVars, com, half, reg, cur, prev, mq, dropped>>

Store ==
  /\ com.kind \in Words /\ loaded # NotLoaded
  /\ reg' = [reg EXCEPT ![com.kind][half] = loaded]
  /\ loaded' = NotLoaded
  /\ IF half = "lo" /\ com.kind = "err"
     THEN half' = "hi" /\ UNCHANGED com
     ELSE half' = "lo" /\ com' = Nothing
  /\ UNCHANGED <<fsmVars, cur, prev, mq, dropped>>

StoreLeak ==
  /\ com.kind = "leak" /\ com' = Nothing
  /\ cur' = [cur EXCEPT ![com.port] = com.val]
  /\ UNCHANGED <<fsmVars, half, loaded, reg, prev, mq, dropped>>

\* Mutant: the registers are moved but not cleared.
MovesOnly ==
  /\ com.kind = "over" /\ com' = Nothing
  /\ prev' = cur /\ UNCHANGED cur
  /\ UNCHANGED <<fsmVars, half, loaded, reg, mq, dropped>>

\* MB_TEST_OVER: the registers move to the history and are cleared.
TestOver ==
  /\ com.kind = "over" /\ com' = Nothing
  /\ prev' = cur /\ cur' = [p \in PortSet |-> 0]
  /\ UNCHANGED <<fsmVars, half, loaded, reg, mq, dropped>>

ComTask == Take \/ Load \/ Store \/ StoreLeak \/ TestOver

------------------------------------------------------------------------------
Zero == [h \in Halves |-> 0]

Init ==
  /\ word = [w \in Words |-> Zero] /\ reg = [w \in Words |-> Zero]
  /\ owed = Nothing /\ com = Nothing /\ mq = <<>>
  /\ half = "lo" /\ loaded = NotLoaded
  /\ cur = [p \in PortSet |-> 0] /\ prev = [p \in PortSet |-> 0]
  /\ cycle = 0 /\ dropped = FALSE

Next == \/ \E w \in Words : ChangeWord(w)
        \/ NewCycle \/ \E p \in PortSet : Leak(p)
        \/ Send \/ ComTask

Spec == Init /\ [][Next]_mirrorVars

\* The comTask gets the processor when the tasks above it wait, and a task that
\* waits for room in the queue is released by it or by its own timeout.
FairSpec == Spec /\ WF_mirrorVars(ComTask) /\ WF_mirrorVars(Send)
------------------------------------------------------------------------------
(* Properties *)

\* Every variable holds a value of its C type.
TypeOK ==
  /\ word \in [Words -> [Halves -> 0..1]] /\ reg \in [Words -> [Halves -> 0..1]]
  /\ owed \in Messages \cup {Nothing} /\ com \in Messages \cup {Nothing}
  /\ mq \in Seq(Messages) /\ Len(mq) <= QueueLen
  /\ half \in Halves /\ loaded \in 0..NotLoaded
  /\ cur \in [PortSet -> 0..MaxCycle] /\ prev \in [PortSet -> 0..MaxCycle]
  /\ cycle \in 0..MaxCycle /\ dropped \in BOOLEAN

\* A message that will still copy the given half of word w from its pointer.
Coming(w, h) ==
  \/ owed = Pointer(w)
  \/ \E i \in 1..Len(mq) : mq[i] = Pointer(w)
  \/ com = Pointer(w) /\ loaded = NotLoaded /\ (half = h \/ half = "lo")
  \/ com = Pointer(w) /\ loaded # NotLoaded
     /\ (IF half = h THEN loaded = word[w][h] ELSE half = "lo")

\* A register may lag behind its word only while a message that brings the
\* current value is on its way: no change is forgotten, although the messages
\* say nothing of the value and the word changes while it is being copied
\* (BLL_Alarm.c:87-225, BLL_Modbus.c:105-214).
NoChangeForgotten ==
  dropped \/ \A w \in Words : \A h \in HalvesOf(w) :
               reg[w][h] = word[w][h] \/ Coming(w, h)

\* The leak-rate registers never mix cycles: all the current ones are of one
\* cycle, all those of the history of an earlier one (Mersm_Test.c:201,
\* BLL_Modbus.c:195-205).
CyclesApart ==
  dropped \/ \A p, q \in PortSet :
    /\ cur[p] # 0 /\ cur[q] # 0 => cur[p] = cur[q]
    /\ prev[p] # 0 /\ prev[q] # 0 => prev[p] = prev[q]
    /\ cur[p] # 0 => prev[q] < cur[p]

\* What a word says reaches its register, unless the word changes again or a
\* message was given up.
Mirrored ==
  \A w \in Words : \A v \in [Halves -> 0..1] :
    (word[w] = v) ~> (reg[w] = v \/ word[w] # v \/ dropped)
=============================================================================
