-------------------------- MODULE Countdown_proofs --------------------------
(***************************************************************************)
(* What Countdown.tla promises, for every base of the bytes and every      *)
(* longest delay.                                                          *)
(***************************************************************************)
EXTENDS Countdown, TLAPS, SequenceTheorems

------------------------------------------------------------------------------
(* Division by the base *)

LEMMA DivSplits ==
  ASSUME NEW x \in Nat, NEW b \in Nat \ {0, 1}
  PROVE  /\ x \div b \in Nat /\ x % b \in Nat
         /\ x = b * (x \div b) + (x % b) /\ x % b < b
  OBVIOUS

LEMMA DivMonotone ==
  ASSUME NEW x \in Nat, NEW y \in Nat, NEW b \in Nat \ {0, 1}, x <= y
  PROVE  x \div b <= y \div b
  <1> DEFINE p == x \div b
             q == y \div b
  <1>1. /\ p \in Nat /\ q \in Nat /\ x % b \in Nat /\ y % b \in Nat
        /\ x = b * p + (x % b) /\ y = b * q + (y % b) /\ x % b < b /\ y % b < b
    BY DivSplits
  <1>2. SUFFICES ASSUME q + 1 <= p PROVE FALSE
    BY <1>1
  <1> HIDE DEF p, q
  <1>3. b * (q + 1) <= b * p
    BY <1>1, <1>2
  <1>4. QED BY <1>1, <1>3

\* A prefix that is long enough stays so with the next byte.
LEMMA NextByte ==
  ASSUME NEW p \in Nat, NEW v \in Nat, NEW b \in Nat \ {0, 1}, p >= v \div b
  PROVE  p * b + (v % b) >= v
  <1> DEFINE q == v \div b
             r == v % b
  <1>1. q \in Nat /\ r \in Nat /\ v = b * q + r
    BY DivSplits
  <1> HIDE DEF q, r
  <1>2. p >= q
    BY DEF q
  <1>3. b * q <= p * b
    BY <1>1, <1>2
  <1>4. p * b + r >= v
    BY <1>1, <1>3
  <1>5. QED BY <1>4 DEF r

------------------------------------------------------------------------------
(* The type of every variable, and how the clock and the history go together *)

\* A delay that runs has not run past the longest one, and unless it was set while
\* it ran it has counted exactly since it was set.
Clock == active => (now <= MaxTicks /\ (~reset => since = now))

Flags == /\ active \in BOOLEAN /\ asserted \in BOOLEAN /\ halfway \in BOOLEAN
         /\ reset \in BOOLEAN /\ behind \in BOOLEAN /\ outdated \in BOOLEAN
Numbers == /\ limit \in 0..MaxTicks /\ shown \in 0..MaxTicks /\ since \in 0..MaxTicks
           /\ now \in 0..MaxTicks + 1 /\ over \in 0..1 /\ zeros \in 0..QueueLen
Read == got \in Seq(Nat) /\ Len(got) <= 4

LEMMA TypeParts == TypeOK <=> Flags /\ Numbers /\ Read
  BY DEF TypeOK, Flags, Numbers, Read, Bytes

Types == Flags /\ Numbers /\ Read /\ Clock

LEMMA TypesInit == Init => Types
  <1> SUFFICES ASSUME Init PROVE Types
    OBVIOUS
  <1>1. MaxTicks \in Nat /\ QueueLen \in Nat
    BY CountdownAssumption
  <1>2. Read
    BY DEF Init, Read
  <1>3. Numbers
    BY <1>1 DEF Init, Numbers
  <1>4. Flags
    BY Zenon DEF Init, Flags
  <1>5. Clock
    BY Zenon DEF Init, Clock
  <1>6. QED BY <1>2, <1>3, <1>4, <1>5 DEF Types

LEMMA ByteIsNat ==
  ASSUME NEW v \in Nat, NEW i \in 1..4
  PROVE  Upper(v, i) \in Nat /\ ByteOf(v, i) \in Nat
  <1>1. /\ Base \in Nat \ {0, 1}
        /\ \A x \in Nat : x \div Base \in Nat /\ x % Base \in Nat
    BY CountdownAssumption, DivSplits
  <1>2. Upper(v, i) \in Nat
    BY <1>1 DEF Upper
  <1>3. Upper(v, 1) \in Nat
    BY <1>1 DEF Upper
  <1>4. QED BY <1>1, <1>2, <1>3 DEF ByteOf

\* What the comTask leaves of the display when it writes 0 to one half of it.
LEMMA Halves ==
  ASSUME NEW v \in 0..MaxTicks
  PROVE  v % (Base * Base) \in 0..v /\ v - (v % (Base * Base)) \in 0..v
  <1> DEFINE b == Base * Base
  <1>1. Base \in Nat \ {0, 1} /\ MaxTicks \in Nat
    BY CountdownAssumption
  <1>2. b \in Nat \ {0, 1}
    BY <1>1
  <1> HIDE DEF b
  <1>3. /\ v \in Nat /\ v % b \in Nat /\ v \div b \in Nat
        /\ v = b * (v \div b) + (v % b)
    BY <1>1, <1>2, DivSplits
  <1>4. b * (v \div b) \in Nat
    BY <1>2, <1>3
  <1>5. v % b <= v
    BY <1>3, <1>4
  <1>6. v % b \in 0..v /\ v - (v % b) \in 0..v
    BY <1>3, <1>5
  <1>7. QED BY <1>6 DEF b

\* The comTask only lowers the display.
LEMMA ComTaskLowers ==
  ASSUME Numbers, ComTask
  PROVE  shown' \in 0..shown /\ shown' \in 0..MaxTicks
  <1>1. shown' \in 0..shown
    BY Halves DEF Numbers, ComTask, ZeroHigh, ZeroLow
  <1>2. QED BY <1>1, CountdownAssumption DEF Numbers

LEMMA NumbersKept == Types /\ [Next]_countVars => Numbers'
  <1> SUFFICES ASSUME Flags, Numbers, Clock, [Next]_countVars PROVE Numbers'
    BY DEF Types
  <1>0. MaxTicks \in Nat /\ QueueLen \in Nat
    BY CountdownAssumption
  <1> USE <1>0 DEF Numbers
  <1>1. ASSUME NEW t \in 0..MaxTicks, SetDelayTime(t) PROVE Numbers'
    BY <1>1 DEF SetDelayTime
  <1>2. CASE StopTimer
    BY <1>2 DEF StopTimer
  <1>3. ASSUME Counted PROVE now' \in 0..MaxTicks + 1 /\ since' \in 0..MaxTicks /\ limit' = limit
    BY <1>3 DEF Counted, Clock
  <1>4. CASE Tick
    BY <1>3, <1>4 DEF Tick, Display, Counted
  <1>5. CASE TimeOver
    BY <1>3, <1>5 DEF TimeOver, Display
  <1>6. CASE PostZero
    BY <1>6 DEF PostZero, timerVars
  <1>7. CASE ComTask
    <2>1. shown' \in 0..MaxTicks
      BY <1>7, ComTaskLowers
    <2>2. zeros' \in 0..QueueLen /\ UNCHANGED timerVars
      BY <1>7 DEF ComTask, ZeroHigh, ZeroLow
    <2>3. QED BY <2>1, <2>2 DEF timerVars
  <1>8. CASE ReadByte \/ Answer \/ UNCHANGED countVars
    BY <1>8 DEF ReadByte, Answer, timerVars, displayVars, countVars
  <1>9. QED BY <1>1, <1>2, <1>4, <1>5, <1>6, <1>7, <1>8 DEF Next, TimerTask

LEMMA FlagsKept == Types /\ [Next]_countVars => Flags'
  <1> SUFFICES ASSUME Flags, [Next]_countVars PROVE Flags'
    BY DEF Types
  <1> USE DEF Flags
  <1>0. ASSUME NEW b \in BOOLEAN, NotedBehind(b)
        PROVE  behind' \in BOOLEAN /\ outdated' \in BOOLEAN
    BY <1>0, Zenon DEF NotedBehind
  <1>1. ASSUME NEW t \in 0..MaxTicks, SetDelayTime(t) PROVE Flags'
    BY <1>0, <1>1, Zenon DEF SetDelayTime
  <1>2. CASE Tick \/ TimeOver
    BY <1>0, <1>2, Zenon DEF Tick, TimeOver, Counted, Display
  <1>3. CASE StopTimer
    BY <1>0, <1>3, Zenon DEF StopTimer
  <1>4. CASE ComTask
    BY <1>0, <1>4, Zenon DEF ComTask, ZeroHigh, ZeroLow, timerVars
  <1>5. CASE PostZero \/ Answer \/ UNCHANGED countVars
    BY <1>5, Zenon DEF PostZero, Answer, timerVars, displayVars, countVars
  <1>6. CASE ReadByte
    BY <1>6, Zenon DEF ReadByte, timerVars, displayVars
  <1>7. QED BY <1>1, <1>2, <1>3, <1>4, <1>5, <1>6, Zenon DEF Next, TimerTask

LEMMA ReadKept == Types /\ [Next]_countVars => Read'
  <1> SUFFICES ASSUME Numbers, Read, [Next]_countVars PROVE Read'
    BY DEF Types
  <1> USE DEF Read
  <1>1. CASE ReadByte
    <2>1. Len(got) + 1 \in 1..4 /\ shown \in Nat
      BY <1>1, CountdownAssumption DEF ReadByte, Numbers, Bytes
    <2>2. ByteOf(shown, Len(got) + 1) \in Nat
      BY <2>1, ByteIsNat
    <2>3. QED BY <1>1, <2>1, <2>2, AppendProperties DEF ReadByte
  <1>2. CASE Answer
    BY <1>2 DEF Answer
  <1>3. CASE UNCHANGED got
    BY <1>3
  <1>4. QED
    BY <1>1, <1>2, <1>3
       DEF Next, TimerTask, ComTask, SetDelayTime, StopTimer, PostZero, ZeroHigh, ZeroLow,
           Tick, TimeOver, Counted, countVars

LEMMA ClockKept == Types /\ [Next]_countVars => Clock'
  <1> SUFFICES ASSUME Flags, Numbers, Clock, [Next]_countVars, active'
               PROVE  now' <= MaxTicks /\ (~reset' => since' = now')
    BY DEF Types, Clock
  <1>0. MaxTicks \in Nat
    BY CountdownAssumption
  <1> USE <1>0 DEF Numbers, Clock
  <1>1. ASSUME NEW t \in 0..MaxTicks, SetDelayTime(t)
        PROVE  now' <= MaxTicks /\ (~reset' => since' = now')
    <2>1. CASE ~active
      <3>1. now' = 0 /\ since' = 0
        BY <1>1, <2>1, Zenon DEF SetDelayTime
      <3>2. QED BY <3>1
    <2>2. CASE active
      <3>1. reset' = active /\ now' = now
        BY <1>1, <2>2, Zenon DEF SetDelayTime
      <3>2. now <= MaxTicks
        BY <2>2
      <3>3. QED BY <2>2, <3>1, <3>2
    <2>3. QED BY <2>1, <2>2
  <1>2. CASE Tick
    <2>1. active /\ now + 1 < limit /\ now' = now + 1 /\ reset' = reset
      BY <1>2 DEF Tick, Counted
    <2>2. ~reset => since' = now'
      BY <1>2, <2>1 DEF Tick, Counted
    <2>3. QED BY <2>1, <2>2
  <1>3. ~StopTimer /\ ~TimeOver
    BY DEF StopTimer, TimeOver
  <1>4. CASE UNCHANGED timerVars
    BY <1>4 DEF timerVars
  <1>5. PostZero \/ ComTask \/ ReadByte \/ Answer \/ UNCHANGED countVars
          => UNCHANGED timerVars
    BY DEF PostZero, ComTask, ZeroHigh, ZeroLow, ReadByte, Answer, countVars
  <1>6. QED BY <1>1, <1>2, <1>3, <1>4, <1>5 DEF Next, TimerTask

LEMMA TypesKept == Types /\ [Next]_countVars => Types'
  BY NumbersKept, FlagsKept, ReadKept, ClockKept DEF Types

LEMMA TypesAlways == Spec => []Types
  BY TypesInit, TypesKept, PTL DEF Spec

\* Every variable of a delay, of its display and of the reading task holds a value
\* of its type, for every base of the bytes and every longest delay.
THEOREM TypeCorrect == Spec => []TypeOK
  <1>1. Types => TypeOK
    BY TypeParts DEF Types
  <1>2. QED BY <1>1, TypesAlways, PTL

\* A delay is never over before the time it was last set to, unless this one was set
\* while it ran: what delayTimerCb has counted is the time since then
\* (FML_DelayTime.c:82-93, 135-147).
THEOREM NeverEarly == Spec => NotEarly
  <1>1. Types /\ [Next]_countVars => [over' # over => (since + 1 >= limit \/ reset)]_countVars
    <2> SUFFICES ASSUME Types, Next, over' # over
                 PROVE  since + 1 >= limit \/ reset
      BY DEF countVars
    <2>1. TimeOver
      BY DEF Next, TimerTask, ComTask, SetDelayTime, StopTimer, PostZero, ZeroHigh, ZeroLow,
             Tick, ReadByte, Answer, timerVars
    <2>2. QED BY <2>1 DEF TimeOver, Counted, Types, Numbers, Clock
  <1>2. QED BY <1>1, TypesAlways, PTL DEF Spec, NotEarly

------------------------------------------------------------------------------
(* The bytes of an answer *)

\* The value of the bytes read so far.
Prefix == CASE Len(got) = 4 -> ValueOf(got)
            [] Len(got) = 3 -> (got[1] * Base + got[2]) * Base + got[3]
            [] Len(got) = 2 -> got[1] * Base + got[2]
            [] OTHER -> got[1]

\* While the display has not been behind, what has been read is not less than what
\* the display has in its place.
LongSide == (Reading /\ ~outdated) => (~behind /\ Prefix >= Upper(shown, Len(got)))

\* A display that is not behind is that of the delay that runs.
Shows == (active /\ ~behind) => shown = limit - now

LEMMA UpperMonotone ==
  ASSUME NEW v \in Nat, NEW w \in Nat, v <= w, NEW i \in 1..4
  PROVE  Upper(v, i) <= Upper(w, i)
  <1> DEFINE v1 == v \div Base
             w1 == w \div Base
             v2 == v1 \div Base
             w2 == w1 \div Base
  <1>0. Base \in Nat \ {0, 1}
    BY CountdownAssumption
  <1>1. v1 \in Nat /\ w1 \in Nat /\ v1 <= w1
    BY <1>0, DivSplits, DivMonotone
  <1>2. v2 \in Nat /\ w2 \in Nat /\ v2 <= w2
    <2> HIDE DEF v1, w1
    <2>1. QED BY <1>0, <1>1, DivSplits, DivMonotone
  <1>3. v2 \div Base <= w2 \div Base
    <2> HIDE DEF v2, w2
    <2>1. QED BY <1>0, <1>2, DivMonotone
  <1>4. CASE i = 1
    BY <1>3, <1>4 DEF Upper
  <1>5. CASE i = 2
    BY <1>2, <1>5 DEF Upper
  <1>6. CASE i = 3
    BY <1>1, <1>6 DEF Upper
  <1>7. CASE i = 4
    BY <1>7 DEF Upper
  <1>8. QED BY <1>4, <1>5, <1>6, <1>7

LEMMA UpperSteps ==
  ASSUME NEW v \in Nat, NEW i \in 1..3
  PROVE  Upper(v, i) = Upper(v, i + 1) \div Base
  BY DEF Upper

LEMMA UpToFour ==
  ASSUME NEW n \in Nat
  PROVE  /\ (n <= 4 /\ n \notin {0}) => n \in 1..4
         /\ n < 4 => n \in 0..3 /\ n + 1 \in 1..4
         /\ (n < 4 /\ n \in 1..4) => n \in 1..3
  OBVIOUS

LEMMA NotEmpty == Read /\ got # <<>> => Len(got) \in 1..4
  <1> SUFFICES ASSUME got \in Seq(Nat), got # <<>>, Len(got) <= 4 PROVE Len(got) \in 1..4
    BY Zenon DEF Read
  <1>1. Len(got) \in Nat \ {0}
    BY EmptySeq, Zenon
  <1>2. QED BY <1>1, UpToFour, Zenon

LEMMA PrefixIsNat ==
  ASSUME Read, got # <<>>
  PROVE  Prefix \in Nat
  <1>0. Base \in Nat
    BY CountdownAssumption
  <1>1. Len(got) \in 1..4
    BY NotEmpty, Zenon
  <1>2. \A j \in 1..Len(got) : got[j] \in Nat
    BY DEF Read
  <1>3. \A x \in Nat, y \in Nat : x * Base + y \in Nat
    BY <1>0
  <1>4. CASE Len(got) = 1
    BY <1>2, <1>4 DEF Prefix
  <1>5. CASE Len(got) = 2
    BY <1>2, <1>3, <1>5 DEF Prefix
  <1>6. CASE Len(got) = 3
    <2>1. got[1] \in Nat /\ got[2] \in Nat /\ got[3] \in Nat
      BY <1>2, <1>6
    <2>2. (got[1] * Base + got[2]) * Base + got[3] \in Nat
      BY <1>3, <2>1
    <2>3. QED BY <1>6, <2>2 DEF Prefix
  <1>7. CASE Len(got) = 4
    <2>1. got[1] \in Nat /\ got[2] \in Nat /\ got[3] \in Nat /\ got[4] \in Nat
      BY <1>2, <1>7
    <2>2. (got[1] * Base + got[2]) * Base + got[3] \in Nat
      BY <1>3, <2>1
    <2>3. ((got[1] * Base + got[2]) * Base + got[3]) * Base + got[4] \in Nat
      BY <1>3, <2>1, <2>2
    <2>4. QED BY <1>7, <2>3 DEF Prefix, ValueOf
  <1>8. QED BY <1>1, <1>4, <1>5, <1>6, <1>7

\* One more byte is one more digit.
LEMMA PrefixGrows ==
  ASSUME Read, got # <<>>, Len(got) < 4, NEW d \in Nat, got' = Append(got, d)
  PROVE  Prefix' = Prefix * Base + d
  <1>1. Len(got) \in 1..3 /\ Len(got') = Len(got) + 1
    <2>1. Len(got) \in 1..4
      BY NotEmpty, Zenon
    <2>2. Len(got') = Len(got) + 1
      BY AppendProperties DEF Read
    <2>3. QED BY <2>1, <2>2
  <1>2. /\ \A j \in 1..Len(got) : got'[j] = got[j]
        /\ got'[Len(got) + 1] = d
    BY AppendProperties DEF Read
  <1>3. CASE Len(got) = 1
    BY <1>1, <1>2, <1>3 DEF Prefix
  <1>4. CASE Len(got) = 2
    BY <1>1, <1>2, <1>4 DEF Prefix
  <1>5. CASE Len(got) = 3
    BY <1>1, <1>2, <1>5 DEF Prefix, ValueOf
  <1>6. QED BY <1>1, <1>3, <1>4, <1>5

LEMMA ShowsKept == Types /\ Shows /\ [Next]_countVars => Shows'
  <1> SUFFICES ASSUME Types, Shows, [Next]_countVars, active', ~behind'
               PROVE  shown' = limit' - now'
    BY DEF Shows
  <1>1. ASSUME NEW t \in 0..MaxTicks PROVE ~SetDelayTime(t)
    BY Zenon DEF SetDelayTime, NotedBehind
  <1>2. ~StopTimer /\ ~TimeOver /\ ~PostZero
    BY Zenon DEF StopTimer, TimeOver, PostZero, timerVars
  <1>3. ~ComTask
    <2> SUFFICES ASSUME ComTask PROVE FALSE
      OBVIOUS
    <2>1. UNCHANGED timerVars /\ behind' = active
      BY Zenon DEF ComTask, ZeroHigh, ZeroLow, NotedBehind
    <2>2. active' = active
      BY <2>1 DEF timerVars
    <2>3. QED BY <2>1, <2>2
  <1>4. CASE Tick
    BY <1>4 DEF Tick, Counted, Display
  <1>5. CASE ReadByte \/ Answer \/ UNCHANGED countVars
    BY <1>5 DEF ReadByte, Answer, timerVars, displayVars, countVars, Shows
  <1>6. QED BY <1>1, <1>2, <1>3, <1>4, <1>5 DEF Next, TimerTask

\* A display that falls, or stays, takes nothing from the prefix.
LEMMA LowerKeepsLongSide ==
  ASSUME Types, LongSide, Types', UNCHANGED got, shown' <= shown, NEW b \in BOOLEAN,
         NotedBehind(b)
  PROVE  LongSide'
  <1> SUFFICES ASSUME Reading, ~outdated'
               PROVE  ~behind' /\ (Prefix >= Upper(shown, Len(got)))'
    BY DEF LongSide, Reading
  <1>1. ~outdated /\ ~b /\ behind' = b
    BY Zenon DEF NotedBehind
  <1>2. shown \in Nat /\ shown' \in Nat /\ shown' <= shown
    BY CountdownAssumption DEF Types, Numbers
  <1>3. Len(got) \in 1..4
    BY NotEmpty, Zenon DEF Types, Reading
  <1>4. Upper(shown', Len(got)) <= Upper(shown, Len(got))
    BY <1>2, <1>3, UpperMonotone
  <1>5. Prefix >= Upper(shown, Len(got))
    BY <1>1 DEF LongSide
  <1>6. /\ Prefix \in Nat
        /\ Upper(shown, Len(got)) \in Nat /\ Upper(shown', Len(got)) \in Nat
    BY <1>2, <1>3, PrefixIsNat, ByteIsNat DEF Types, Reading
  <1>7. Prefix >= Upper(shown', Len(got))
    BY <1>4, <1>5, <1>6
  <1>8. Prefix' = Prefix
    BY DEF Prefix, ValueOf
  <1>9. QED BY <1>1, <1>7, <1>8 DEF Upper

LEMMA ReadingKeepsLongSide ==
  ASSUME Types, LongSide, ReadByte
  PROVE  LongSide'
  <1> SUFFICES ASSUME ~outdated' PROVE ~behind' /\ (Prefix >= Upper(shown, Len(got)))'
    BY DEF LongSide
  <1>b. ~outdated /\ ~behind /\ behind' = behind
    BY Zenon DEF ReadByte, displayVars
  <1>0. Base \in Nat \ {0, 1} /\ shown \in Nat /\ got \in Seq(Nat)
    BY CountdownAssumption DEF Types, Numbers, Read
  <1>a. Len(got) < 4 /\ Len(got) \in 0..3 /\ Len(got) + 1 \in 1..4
    <2>1. Len(got) \in Nat
      BY <1>0, LenProperties
    <2>2. Len(got) < 4
      BY Zenon DEF ReadByte, Bytes
    <2>3. QED BY <2>1, <2>2, UpToFour, Zenon
  <1> DEFINE i == Len(got) + 1
             d == ByteOf(shown, i)
  <1>1. d \in Nat /\ Upper(shown, i) \in Nat
    <2>1. i \in 1..4
      BY <1>a, Zenon
    <2>2. QED BY <1>0, <2>1, ByteIsNat
  <1>2. got' = Append(got, d) /\ shown' = shown
    BY DEF ReadByte, displayVars
  <1>3. Len(got') = i
    BY <1>0, <1>1, <1>2, AppendProperties DEF Types, Read
  <1>4. CASE got = <<>>
    <2>1. i = 1 /\ got'[1] = d /\ Len(got') = 1
      BY <1>2, <1>3, <1>4
    <2>2. Prefix' = d
      BY <2>1 DEF Prefix
    <2>3. d = Upper(shown, 1)
      BY <2>1 DEF ByteOf
    <2>4. QED BY <1>b, <1>1, <1>2, <2>1, <2>2, <2>3
  <1>5. CASE got # <<>>
    <2>1. Len(got) \in 1..3
      <3>1. Len(got) \in 1..4
        BY <1>5, NotEmpty, Zenon DEF Types
      <3>2. Len(got) \in Nat
        BY <1>0, LenProperties
      <3>3. QED BY <1>a, <3>1, <3>2, UpToFour, Zenon
    <2>2. Prefix \in Nat /\ Prefix >= Upper(shown, Len(got))
      BY <1>b, <1>5, PrefixIsNat DEF LongSide, Reading, Types
    <2>3. d = Upper(shown, i) % Base
      BY <2>1 DEF ByteOf
    <2>4. Upper(shown, Len(got)) = Upper(shown, i) \div Base
      BY <1>0, <2>1, UpperSteps
    <2>5. Prefix * Base + (Upper(shown, i) % Base) >= Upper(shown, i)
      BY <1>0, <1>1, <2>2, <2>4, NextByte
    <2>6. Prefix' = Prefix * Base + d
      <3>1. Read /\ Len(got) < 4
        BY <1>a, Zenon DEF Types
      <3> HIDE DEF d
      <3>2. QED BY <1>1, <1>2, <1>5, <3>1, PrefixGrows
    <2>7. QED BY <1>b, <1>2, <1>3, <2>3, <2>5, <2>6
  <1>6. QED BY <1>4, <1>5

LEMMA LongSideKept == Types /\ Shows /\ LongSide /\ [Next]_countVars => LongSide'
  <1> SUFFICES ASSUME Types, Shows, LongSide, [Next]_countVars PROVE LongSide'
    OBVIOUS
  <1>0. Types' /\ active \in BOOLEAN /\ behind \in BOOLEAN /\ shown \in Nat
    BY TypesKept, CountdownAssumption DEF Types, Flags, Numbers
  <1>1. ASSUME NEW t \in 0..MaxTicks, SetDelayTime(t) PROVE LongSide'
    <2>1. UNCHANGED <<got, shown>> /\ NotedBehind(TRUE)
      BY <1>1, Zenon DEF SetDelayTime
    <2>2. shown' <= shown
      BY <1>0, <2>1
    <2>3. QED BY <1>0, <2>1, <2>2, LowerKeepsLongSide
  <1>2. CASE StopTimer
    <2>1. UNCHANGED <<got, shown>> /\ NotedBehind(FALSE)
      BY <1>2, Zenon DEF StopTimer
    <2>2. shown' <= shown
      BY <1>0, <2>1
    <2>3. QED BY <1>0, <2>1, <2>2, LowerKeepsLongSide
  <1>3. CASE Tick
    <2>1. /\ active /\ shown' = limit - (now + 1) /\ UNCHANGED got /\ NotedBehind(FALSE)
          /\ behind' = FALSE
      BY <1>3 DEF Tick, Counted, Display, NotedBehind
    <2>2. CASE ~behind
      <3>1. shown' <= shown
        BY <2>1, <2>2 DEF Shows, Types, Numbers
      <3>2. QED BY <1>0, <2>1, <3>1, LowerKeepsLongSide
    <2>3. CASE behind
      <3>1. Reading => outdated
        BY <2>3, Zenon DEF LongSide
      <3>2. Reading' => outdated'
        BY <2>1, <3>1, Zenon DEF NotedBehind, Reading
      <3>3. QED BY <3>2 DEF LongSide
    <2>4. QED BY <1>0, <2>2, <2>3
  <1>4. CASE TimeOver
    <2>1. shown' = 0 /\ UNCHANGED got /\ NotedBehind(FALSE)
      BY <1>4 DEF TimeOver, Counted, Display
    <2>2. shown' <= shown
      BY <1>0, <2>1
    <2>3. QED BY <1>0, <2>1, <2>2, LowerKeepsLongSide
  <1>5. CASE ComTask
    <2>1. UNCHANGED got /\ NotedBehind(active)
      BY <1>5 DEF ComTask, ZeroHigh, ZeroLow
    <2>2. shown' <= shown
      BY <1>0, <1>5, ComTaskLowers DEF Types
    <2>3. QED BY <1>0, <2>1, <2>2, LowerKeepsLongSide
  <1>6. CASE ReadByte
    BY <1>6, ReadingKeepsLongSide
  <1>7. CASE Answer
    BY <1>7 DEF Answer, LongSide, Reading
  <1>8. CASE UNCHANGED <<got, outdated, shown, behind>>
    BY <1>8 DEF LongSide, Reading, Prefix, ValueOf, Upper
  <1>9. PostZero \/ UNCHANGED countVars => UNCHANGED <<got, outdated, shown, behind>>
    BY DEF PostZero, countVars, displayVars
  <1>10. QED
    BY <1>1, <1>2, <1>3, <1>4, <1>5, <1>6, <1>7, <1>8, <1>9 DEF Next, TimerTask

\* What the PLC is told is never less than the ticks the running delay still has to
\* go, unless the display was behind during the reading: with every byte the prefix
\* read so far stays at least the same prefix of the display, which is the time left
\* (BLL_Modbus.c:115-119, 266-271, 323-343).
THEOREM NeverShort == Spec => []ToldNotShort
  <1>1. Init => LongSide /\ Shows
    BY Zenon DEF Init, LongSide, Reading, Shows
  <1>2. Types /\ Shows /\ LongSide /\ [Next]_countVars => Types' /\ Shows' /\ LongSide'
    BY TypesKept, ShowsKept, LongSideKept
  <1>3. Types /\ Shows /\ LongSide => ToldNotShort
    <2> SUFFICES ASSUME Types, Shows, LongSide, Len(got) = 4, ~outdated
                 PROVE  ValueOf(got) >= TimeLeft
      BY DEF ToldNotShort, Bytes
    <2>1. Reading
      BY DEF Reading
    <2>2. ValueOf(got) = Prefix /\ Upper(shown, Len(got)) = shown
      BY DEF Prefix, Upper
    <2>3. ~behind /\ ValueOf(got) >= shown
      BY <2>1, <2>2 DEF LongSide
    <2>4. ValueOf(got) \in Nat
      BY <2>1, <2>2, PrefixIsNat DEF Types, Reading
    <2>5. shown >= TimeLeft /\ shown \in Nat /\ TimeLeft \in Int
      BY <2>3, CountdownAssumption DEF Shows, TimeLeft, Types, Numbers
    <2>6. QED BY <2>3, <2>4, <2>5
  <1>4. QED BY <1>1, <1>2, <1>3, TypesInit, PTL DEF Spec

------------------------------------------------------------------------------
(* Refinement *)

Seen(run, broken) == [run |-> IF run THEN {"delay"} ELSE {}, asserted |-> broken]

\* What the operators of DelayTimer do to a delay as the state machines see it.
LEMMA SeenDelay ==
  ASSUME NEW b \in BOOLEAN
  PROVE  /\ Start(Seen(FALSE, b), "delay") = Seen(TRUE, b)
         /\ Start(Seen(TRUE, b), "delay") = Seen(TRUE, TRUE)
         /\ \A r \in BOOLEAN : Stop(Seen(r, b), {"delay"}) = Seen(FALSE, b)
         /\ "delay" \in Seen(TRUE, b).run
  <1>1. /\ [run |-> {}, asserted |-> b].run = {}
        /\ \A c : [run |-> {"delay"}, asserted |-> c].run = {"delay"}
    OBVIOUS
  <1>2. Start(Seen(FALSE, b), "delay") = Seen(TRUE, b)
    BY <1>1 DEF Seen, Start
  <1>3. Start(Seen(TRUE, b), "delay") = Seen(TRUE, TRUE)
    BY <1>1 DEF Seen, Start
  <1>4. Stop(Seen(FALSE, b), {"delay"}) = Seen(FALSE, b)
    BY DEF Seen, Stop
  <1>5. Stop(Seen(TRUE, b), {"delay"}) = Seen(FALSE, b)
    BY DEF Seen, Stop
  <1>6. "delay" \in Seen(TRUE, b).run
    BY <1>1 DEF Seen
  <1>7. QED BY <1>2, <1>3, <1>4, <1>5, <1>6, Zenon

\* The state machines may look at a delay as FsmCore does: it expires at some moment
\* while it runs, once for each start (FML_DelayTime.c:68-147).
THEOREM OneExpiry == Spec => ImplementsOneShot
  <1>1. Init => Abstract!Init
    BY DEF Init, Abstract!Init, Abstract!TimersOff, TimersOff
  <1>2. Types /\ [Next]_countVars => [Abstract!Next]_(Abstract!oneShotVars)
    <2> SUFFICES ASSUME Types, [Next]_countVars
                 PROVE  [Abstract!Next]_(Abstract!oneShotVars)
      OBVIOUS
    <2> USE DEF Abstract!Next, Abstract!oneShotVars
    <2>0. active \in BOOLEAN /\ asserted \in BOOLEAN
      BY Zenon DEF Types, Flags
    <2>1. ASSUME NEW t \in 0..MaxTicks, SetDelayTime(t) PROVE Abstract!Set
      <3>1. CASE active = FALSE
        <4>1. active' = TRUE /\ UNCHANGED <<asserted, over>>
          BY <2>1, <3>1, Zenon DEF SetDelayTime
        <4>2. QED BY <2>0, <3>1, <4>1, SeenDelay DEF Seen, Start, Abstract!Set, Abstract!Start
      <3>2. CASE active = TRUE
        <4>1. active' = TRUE /\ asserted' = TRUE /\ UNCHANGED over
          BY <2>1, <3>2, Zenon DEF SetDelayTime
        <4>2. QED BY <2>0, <3>2, <4>1, SeenDelay DEF Seen, Start, Abstract!Set, Abstract!Start
      <3>3. QED BY <2>0, <3>1, <3>2, Zenon
    <2>2. CASE StopTimer
      BY <2>2 DEF StopTimer, Abstract!Cancel, Abstract!Stop
    <2>3. CASE TimeOver
      <3>1. active = TRUE /\ active' = FALSE /\ UNCHANGED asserted /\ over' = (over + 1) % 2
        BY <2>0, <2>3, Zenon DEF TimeOver, Counted
      <3>2. Abstract!Expire
        BY <2>0, <3>1, SeenDelay DEF Seen, Stop, Abstract!Expire, Abstract!Stop
      <3>3. QED BY <3>2
    <2>4. CASE UNCHANGED <<active, asserted, over>>
      BY <2>4
    <2>5. QED
      BY <2>1, <2>2, <2>3, <2>4
         DEF Next, TimerTask, ComTask, Tick, Counted, PostZero, ZeroHigh, ZeroLow, ReadByte,
             Answer, timerVars, countVars
  <1>3. QED BY <1>1, <1>2, TypesAlways, PTL DEF Spec, ImplementsOneShot, Abstract!Spec
==============================================================================
