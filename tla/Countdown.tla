----------------------------- MODULE Countdown -----------------------------
(***************************************************************************)
(* One delay of FML_DelayTime.c with its ticks of 10 ms and the register   *)
(* pair that shows the time left.  The timer task (priority 31) writes the *)
(* pair at each tick (update_delay_time); the comTask (20) writes it half  *)
(* by half when it gets to the message of enterSTOP; the network task (3)  *)
(* reads it byte by byte.  Time is counted in ticks: the rounding of the   *)
(* code's float sum is left out, and so is the coding of the time as the   *)
(* bits of a float, which are ordered as the times are.                    *)
(***************************************************************************)
EXTENDS DelayTimer, Integers, Sequences

CONSTANTS Base,      \* values of a byte of this instance (256 in the code)
          MaxTicks,  \* longest delay
          QueueLen   \* messages of enterSTOP that g_modbusQ can hold

Bytes == 4

ASSUME CountdownAssumption ==
  /\ Base \in Nat \ {0, 1}
  /\ MaxTicks \in Nat /\ MaxTicks < Base * Base * Base * Base
  /\ QueueLen \in Nat

VARIABLES
  active,    \* the auto-reloading software timer runs
  limit,     \* m_delayTime
  now,       \* m_nowTime
  asserted,  \* MY_ASSERT(0) was reached
  over,      \* events sent, modulo 2
  shown,     \* MB_DELAY_TIME_HI and MB_DELAY_TIME_LO
  zeros,     \* messages MB_UPDATE_DELAY_TIME in g_modbusQ
  halfway,   \* the comTask has written the high register of one, not the low one
  got        \* the bytes of the pair the network task has read for an answer

\* Histories, for the properties only.
VARIABLES
  since,     \* ticks since the delay was last set
  reset,     \* the delay that runs was set again while it ran
  behind,    \* the display is not that of the delay that runs: it was set, or the
             \* comTask has written its 0 over it, and no tick has come since
  outdated   \* the display was behind at some moment of the reading

timerVars == <<active, limit, now, asserted, over, since, reset>>
displayVars == <<shown, zeros, halfway, behind>>
countVars == <<timerVars, displayVars, got, outdated>>

\* What is left of a value without its last 4 - i bytes, and its i-th byte: the
\* high byte of the high register is the first one.
Upper(v, i) == CASE i = 4 -> v
                 [] i = 3 -> v \div Base
                 [] i = 2 -> (v \div Base) \div Base
                 [] OTHER -> ((v \div Base) \div Base) \div Base

ByteOf(v, i) == IF i = 1 THEN Upper(v, 1) ELSE Upper(v, i) % Base

ValueOf(bytes) ==
  ((bytes[1] * Base + bytes[2]) * Base + bytes[3]) * Base + bytes[4]

\* A reading in progress meets a display that is behind.
Reading == got # <<>>
NotedBehind(b) == behind' = b /\ outdated' = (outdated \/ (Reading /\ b))

------------------------------------------------------------------------------
\* Mutant: a delay that starts goes on counting from where the last one was.
SetKeeping(t) == /\ limit' = t /\ since' = 0 /\ active' = TRUE
                 /\ asserted' = (asserted \/ active) /\ reset' = active
                 /\ NotedBehind(TRUE)
                 /\ UNCHANGED <<now, over, shown, zeros, halfway, got>>

\* setDelayTime: the limit is changed in any case, the count only of a delay that
\* does not run; the display is left to the next tick.
SetDelayTime(t) ==
  /\ limit' = t /\ since' = 0 /\ reset' = active
  /\ \/ ~active /\ active' = TRUE /\ now' = 0 /\ UNCHANGED asserted
     \/ active /\ asserted' = TRUE /\ UNCHANGED <<active, now>>
  /\ NotedBehind(TRUE)
  /\ UNCHANGED <<over, shown, zeros, halfway, got>>

StopTimer == /\ active' = FALSE /\ NotedBehind(FALSE)
             /\ UNCHANGED <<limit, now, asserted, over, since, reset, shown, zeros, halfway, got>>

Display(v) == shown' = v /\ UNCHANGED <<zeros, halfway>>

Counted == /\ active
           /\ now' = now + 1
           /\ since' = IF since < MaxTicks THEN since + 1 ELSE since
           /\ NotedBehind(FALSE)
           /\ UNCHANGED <<limit, asserted, reset, got>>

\* delayTimerCb before the time is over.
Tick == /\ Counted /\ now + 1 < limit
        /\ Display(limit - (now + 1))
        /\ UNCHANGED <<active, over>>

\* Mutant: the reloading timer is not stopped.
GoesOn == /\ Counted /\ now + 1 >= limit /\ over' = (over + 1) % 2
          /\ Display(0) /\ UNCHANGED active

\* delayTimerCb when it is over: the timer is stopped, the event sent.
TimeOver == /\ Counted /\ now + 1 >= limit
            /\ active' = FALSE /\ over' = (over + 1) % 2
            /\ Display(0)

------------------------------------------------------------------------------
\* enterSTOP, which stopped the timer before its two waits, asks for a display of
\* 0 unless the queue is full.
PostZero == /\ ~active /\ zeros < QueueLen /\ zeros' = zeros + 1
            /\ UNCHANGED <<timerVars, shown, halfway, behind, got, outdated>>

\* modbus_devRun writes the two registers; a new delay may be set and tick before
\* the first and between the two.
ZeroHigh == /\ ~halfway /\ zeros > 0
            /\ zeros' = zeros - 1 /\ halfway' = TRUE
            /\ shown' = shown % (Base * Base)
            /\ NotedBehind(active)
            /\ UNCHANGED <<timerVars, got>>

ZeroLow == /\ halfway /\ halfway' = FALSE
           /\ shown' = shown - (shown % (Base * Base))
           /\ NotedBehind(active)
           /\ UNCHANGED <<timerVars, zeros, got>>

------------------------------------------------------------------------------
\* Mutant: the low register is answered first.
ReadSwapped ==
  /\ Len(got) < Bytes
  /\ got' = Append(got, ByteOf(shown, 1 + ((Len(got) + 2) % 4)))
  /\ outdated' = (outdated \/ behind)
  /\ UNCHANGED <<timerVars, displayVars>>

\* eMBRegInputCB: one byte after the other, from the register as it is by then.
ReadByte == /\ Len(got) < Bytes
            /\ got' = Append(got, ByteOf(shown, Len(got) + 1))
            /\ outdated' = (outdated \/ behind)
            /\ UNCHANGED <<timerVars, displayVars>>

\* The answer is complete and goes out.
Answer == /\ Len(got) = Bytes /\ got' = <<>> /\ outdated' = FALSE
          /\ UNCHANGED <<timerVars, displayVars>>

------------------------------------------------------------------------------
Init == /\ active = FALSE /\ limit = 0 /\ now = 0 /\ asserted = FALSE /\ over = 0
        /\ shown = 0 /\ zeros = 0 /\ halfway = FALSE /\ got = <<>>
        /\ since = 0 /\ reset = FALSE /\ behind = FALSE /\ outdated = FALSE

TimerTask == Tick \/ TimeOver

ComTask == ZeroHigh \/ ZeroLow

Next == (\E t \in 0..MaxTicks : SetDelayTime(t)) \/ StopTimer \/ PostZero
        \/ TimerTask \/ ComTask \/ ReadByte \/ Answer

Spec == Init /\ [][Next]_countVars
------------------------------------------------------------------------------
(* Properties *)

\* Every variable holds a value of its type.
TypeOK ==
  /\ active \in BOOLEAN /\ asserted \in BOOLEAN /\ halfway \in BOOLEAN
  /\ reset \in BOOLEAN /\ behind \in BOOLEAN /\ outdated \in BOOLEAN
  /\ limit \in 0..MaxTicks /\ shown \in 0..MaxTicks /\ since \in 0..MaxTicks
  /\ now \in 0..MaxTicks + 1 /\ over \in 0..1 /\ zeros \in 0..QueueLen
  /\ got \in Seq(Nat) /\ Len(got) <= Bytes

\* A delay is never over before the time it was last set to, unless this one was
\* set while it ran: what earlier delays met does not matter
\* (FML_DelayTime.c:82-93, 135-147).
NotEarly == [][over' # over => (since + 1 >= limit \/ reset)]_countVars

TimeLeft == IF active THEN limit - now ELSE 0

\* What the PLC is told is never less than the ticks that the running delay still
\* has to go: although the four bytes are read one by one while the timer counts
\* and the comTask writes, what is torn errs on the long side, as high bytes come
\* first and the display only falls.  Excepted are readings during which the
\* display was behind: a delay had been set and not ticked yet, or the comTask had
\* written its late 0 over the display of a running one; both last at most until
\* the next tick (BLL_Modbus.c:115-119, 266-271, 323-343).
ToldNotShort == (Len(got) = Bytes /\ ~outdated) => ValueOf(got) >= TimeLeft

\* The state machines may look at a delay as FsmCore does: it expires at some
\* moment while it runs, once for each start, although the timer reloads.
Abstract == INSTANCE OneShot
              WITH timer <- [run |-> IF active THEN {"delay"} ELSE {}, asserted |-> asserted]

ImplementsOneShot == Abstract!Spec
============================================================================
