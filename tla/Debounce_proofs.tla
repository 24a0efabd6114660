--------------------------- MODULE Debounce_proofs ---------------------------
(***************************************************************************)
(* What Debounce.tla promises, for every pair of limits.                   *)
(***************************************************************************)
EXTENDS Debounce, TLAPS, SequenceTheorems

------------------------------------------------------------------------------
(* The history of the samples *)

\* The newest sample is the first one, the others move back by one.
LEMMA SampleShifts ==
  ASSUME NEW samples \in Seq(BOOLEAN), NEW level \in BOOLEAN, NEW size \in Nat,
         size >= 1, size <= Len(samples) + 1,
         NEW new, new = SubSeq(<<level>> \o samples, 1, size)
  PROVE  /\ new \in Seq(BOOLEAN) /\ Len(new) = size
         /\ new[1] = level
         /\ \A i \in 2..size : new[i] = samples[i - 1]
  <1> DEFINE whole == <<level>> \o samples
  <1>1. <<level>> \in Seq(BOOLEAN) /\ Len(<<level>>) = 1 /\ <<level>>[1] = level
    OBVIOUS
  <1>2. Len(samples) \in Nat
    BY LenProperties
  <1>3. /\ whole \in Seq(BOOLEAN) /\ Len(whole) = Len(samples) + 1
        /\ \A i \in 1..Len(samples) + 1 :
             whole[i] = IF i <= 1 THEN <<level>>[i] ELSE samples[i - 1]
    BY <1>1, <1>2, ConcatProperties
  <1> HIDE DEF whole
  <1>4. /\ new \in Seq(BOOLEAN) /\ Len(new) = size
        /\ \A i \in 1..size : new[i] = whole[i]
    <2>1. new = SubSeq(whole, 1, size)
      BY DEF whole
    <2>2. QED BY <1>2, <1>3, <2>1, SubSeqProperties
  <1>5. new[1] = level
    BY <1>1, <1>2, <1>3, <1>4
  <1>6. \A i \in 2..size : new[i] = samples[i - 1]
    BY <1>2, <1>3, <1>4
  <1>7. QED BY <1>4, <1>5, <1>6

Newest(samples, level, bound) == SubSeq(<<level>> \o samples, 1, AtMost(Len(samples) + 1, bound))

\* A run of k equal samples is one of k - 1 and one more.
LEMMA SteadyShifts ==
  ASSUME NEW samples \in Seq(BOOLEAN), NEW level \in BOOLEAN, NEW bound \in Nat \ {0}
  PROVE  \A k \in 1..bound, wanted \in BOOLEAN :
           /\ level = wanted => (Steady(Newest(samples, level, bound), k, wanted)
                                    <=> (k = 1 \/ Steady(samples, k - 1, wanted)))
           /\ level # wanted => ~Steady(Newest(samples, level, bound), k, wanted)
  <1> DEFINE size == AtMost(Len(samples) + 1, bound)
             new == Newest(samples, level, bound)
  <1> SUFFICES ASSUME NEW k \in 1..bound, NEW wanted \in BOOLEAN
               PROVE  /\ level = wanted => (Steady(new, k, wanted) <=> (k = 1 \/ Steady(samples, k - 1, wanted)))
                      /\ level # wanted => ~Steady(new, k, wanted)
    OBVIOUS
  <1>1. Len(samples) \in Nat
    BY LenProperties
  <1>2. size >= 1 /\ size <= Len(samples) + 1 /\ (size >= k <=> Len(samples) + 1 >= k)
    BY <1>1 DEF AtMost
  <1>3. /\ Len(new) = size /\ new[1] = level
        /\ \A i \in 2..size : new[i] = samples[i - 1]
    <2>1. size \in Nat /\ new = SubSeq(<<level>> \o samples, 1, size)
      BY <1>1 DEF AtMost, Newest
    <2> HIDE DEF size, new
    <2>2. QED BY <1>2, <2>1, SampleShifts
  <1>7. size \in Nat
    BY <1>1 DEF AtMost
  <1> HIDE DEF size, new
  <1>4. ASSUME Steady(new, k, wanted)
        PROVE  level = wanted /\ (k = 1 \/ Steady(samples, k - 1, wanted))
    <2>1. size >= k /\ \A i \in 1..k : new[i] = wanted
      BY <1>3, <1>4 DEF Steady
    <2>2. level = wanted
      BY <1>3, <2>1
    <2>3. ASSUME k # 1, NEW i \in 1..k - 1 PROVE samples[i] = wanted
      <3>1. i + 1 \in 2..size /\ i + 1 \in 1..k /\ (i + 1) - 1 = i
        BY <1>7, <2>1, <2>3
      <3>2. new[i + 1] = samples[(i + 1) - 1] /\ new[i + 1] = wanted
        BY <1>3, <2>1, <3>1
      <3>3. QED BY <3>1, <3>2
    <2>4. Len(samples) >= k - 1
      BY <1>1, <1>2, <2>1
    <2>5. QED BY <2>2, <2>3, <2>4 DEF Steady
  <1>5. ASSUME level = wanted, k = 1 \/ Steady(samples, k - 1, wanted)
        PROVE  Steady(new, k, wanted)
    <2>1. size >= k
      BY <1>1, <1>2, <1>5 DEF Steady
    <2>2. ASSUME NEW i \in 2..k PROVE new[i] = wanted
      <3>1. i - 1 \in 1..k - 1 /\ i \in 2..size /\ k # 1
        BY <1>7, <2>1, <2>2
      <3>2. samples[i - 1] = wanted
        BY <1>5, <3>1 DEF Steady
      <3>3. QED BY <1>3, <3>1, <3>2
    <2>3. \A i \in 1..k : new[i] = wanted
      <3>1. \A i \in 1..k : i = 1 \/ i \in 2..k
        OBVIOUS
      <3>2. QED BY <1>3, <1>5, <2>2, <3>1
    <2>4. QED BY <1>3, <2>1, <2>3 DEF Steady
  <1>6. QED BY <1>4, <1>5, Zenon

------------------------------------------------------------------------------
(* The counters and the history *)

Types ==
  /\ onCount \in 0..OnLimit /\ offCount \in 0..OffLimit
  /\ state \in BOOLEAN /\ word \in BOOLEAN /\ registered \in BOOLEAN /\ found \in BOOLEAN
  /\ told \in {"none", "on", "off"} /\ recent \in Seq(BOOLEAN)

\* A counter is the length of the newest run of samples of its kind, as far as its
\* limit.
OnRun == \A k \in 1..OnLimit : onCount >= k <=> Steady(recent, k, TRUE)
OffRun == \A k \in 1..OffLimit : offCount >= k <=> Steady(recent, k, FALSE)

\* A counter at its limit has had its effect.
Settled == /\ onCount >= OnLimit => state
           /\ offCount >= OffLimit => ~state

DInv == Types /\ OnRun /\ OffRun /\ Settled

LEMMA LimitsArePositive == OnLimit \in Nat \ {0} /\ OffLimit \in Nat \ {0} /\ Window \in Nat \ {0}
                           /\ OnLimit <= Window /\ OffLimit <= Window
  BY LimitAssumption DEF Window

LEMMA CountedBound ==
  ASSUME NEW limit \in Nat \ {0}, NEW count \in 0..limit, NEW hit \in BOOLEAN
  PROVE  /\ Counted(count, hit, limit) \in 0..limit
         /\ ~hit => Counted(count, hit, limit) = 0
         /\ hit => \A k \in 1..limit :
                     Counted(count, hit, limit) >= k <=> (k = 1 \/ count >= k - 1)
  BY DEF Counted, AtMost

LEMMA InitInv == Init => DInv
  <1> SUFFICES ASSUME Init PROVE DInv
    OBVIOUS
  <1>1. Types
    <2>1. onCount \in 0..OnLimit /\ offCount \in 0..OffLimit
      BY LimitsArePositive DEF Init
    <2>2. state \in BOOLEAN /\ word \in BOOLEAN /\ registered \in BOOLEAN /\ found \in BOOLEAN
      BY Zenon DEF Init
    <2>3. told \in {"none", "on", "off"} /\ recent \in Seq(BOOLEAN)
      BY DEF Init
    <2>4. QED BY <2>1, <2>2, <2>3 DEF Types
  <1>2. Len(recent) = 0 /\ onCount = 0 /\ offCount = 0
    BY DEF Init
  <1>3. OnRun /\ OffRun
    BY <1>2, LimitsArePositive DEF OnRun, OffRun, Steady
  <1>4. Settled
    BY <1>2, LimitsArePositive DEF Settled
  <1>5. QED BY <1>1, <1>3, <1>4 DEF DInv

\* What a sample does to the history and to the two counters.
LEMMA SampleCounts ==
  ASSUME DInv, NEW level \in BOOLEAN, Sample(level)
  PROVE  /\ recent' \in Seq(BOOLEAN)
         /\ onCount' \in 0..OnLimit /\ offCount' \in 0..OffLimit
         /\ OnRun' /\ OffRun'
  <1> DEFINE size == AtMost(Len(recent) + 1, Window)
  <1>1. recent \in Seq(BOOLEAN) /\ onCount \in 0..OnLimit /\ offCount \in 0..OffLimit
    BY DEF DInv, Types
  <1>2. /\ recent' = SubSeq(<<level>> \o recent, 1, size)
        /\ onCount' = Counted(onCount, level, OnLimit)
        /\ offCount' = Counted(offCount, ~level, OffLimit)
    BY DEF Sample
  <1>3. size \in Nat /\ size >= 1 /\ size <= Len(recent) + 1
    <2>1. Len(recent) \in Nat
      BY <1>1, LenProperties
    <2>2. QED BY <2>1, LimitsArePositive DEF AtMost
  <1>4. recent' \in Seq(BOOLEAN)
    BY <1>1, <1>2, <1>3, SampleShifts
  <1>5. ASSUME NEW k \in 1..Window, NEW wanted \in BOOLEAN
        PROVE  /\ level = wanted =>
                    (Steady(recent', k, wanted) <=> (k = 1 \/ Steady(recent, k - 1, wanted)))
               /\ level # wanted => ~Steady(recent', k, wanted)
    <2>1. recent' = Newest(recent, level, Window)
      BY <1>2 DEF Newest
    <2>2. recent \in Seq(BOOLEAN) /\ Window \in Nat \ {0}
      BY <1>1, LimitsArePositive, Zenon
    <2>3. \A j \in 1..Window, w \in BOOLEAN :
            /\ level = w => (Steady(Newest(recent, level, Window), j, w)
                               <=> (j = 1 \/ Steady(recent, j - 1, w)))
            /\ level # w => ~Steady(Newest(recent, level, Window), j, w)
      BY <2>2, SteadyShifts
    <2>4. QED BY <2>1, <2>3, Zenon
  <1> HIDE DEF size
  <1>6. OnRun'
    <2> SUFFICES ASSUME NEW k \in 1..OnLimit
                 PROVE  onCount' >= k <=> Steady(recent', k, TRUE)
      BY DEF OnRun
    <2>1. /\ level = TRUE => (Steady(recent', k, TRUE) <=> (k = 1 \/ Steady(recent, k - 1, TRUE)))
          /\ level # TRUE => ~Steady(recent', k, TRUE)
      <3>1. k \in 1..Window
        BY LimitsArePositive
      <3>2. QED BY <1>5, <3>1, Zenon
    <2>2. k = 1 \/ (k - 1 \in 1..OnLimit)
      BY LimitsArePositive
    <2>3. k = 1 \/ (onCount >= k - 1 <=> Steady(recent, k - 1, TRUE))
      BY <2>2 DEF DInv, OnRun
    <2>4. CASE level = TRUE
      <3>1. onCount' >= k <=> (k = 1 \/ onCount >= k - 1)
        BY <1>1, <1>2, <2>4, LimitsArePositive, CountedBound
      <3>2. QED BY <2>1, <2>3, <2>4, <3>1, Zenon
    <2>5. CASE level = FALSE
      <3>1. onCount' = 0
        BY <1>1, <1>2, <2>5, LimitsArePositive, CountedBound
      <3>2. ~(onCount' >= k)
        BY <3>1
      <3>3. QED BY <2>1, <2>5, <3>2, Zenon
    <2>6. QED BY <2>4, <2>5
  <1>7. OffRun'
    <2> SUFFICES ASSUME NEW k \in 1..OffLimit
                 PROVE  offCount' >= k <=> Steady(recent', k, FALSE)
      BY DEF OffRun
    <2>1. /\ level = FALSE => (Steady(recent', k, FALSE) <=> (k = 1 \/ Steady(recent, k - 1, FALSE)))
          /\ level # FALSE => ~Steady(recent', k, FALSE)
      <3>1. k \in 1..Window
        BY LimitsArePositive
      <3>2. QED BY <1>5, <3>1, Zenon
    <2>2. k = 1 \/ (k - 1 \in 1..OffLimit)
      BY LimitsArePositive
    <2>3. k = 1 \/ (offCount >= k - 1 <=> Steady(recent, k - 1, FALSE))
      BY <2>2 DEF DInv, OffRun
    <2>4. CASE level = FALSE
      <3>1. offCount' >= k <=> (k = 1 \/ offCount >= k - 1)
        BY <1>1, <1>2, <2>4, LimitsArePositive, CountedBound
      <3>2. QED BY <2>1, <2>3, <2>4, <3>1, Zenon
    <2>5. CASE level = TRUE
      <3>1. offCount' = 0
        BY <1>1, <1>2, <2>5, LimitsArePositive, CountedBound
      <3>2. ~(offCount' >= k)
        BY <3>1
      <3>3. QED BY <2>1, <2>5, <3>2, Zenon
    <2>6. QED BY <2>4, <2>5
  <1>8. onCount' \in 0..OnLimit /\ offCount' \in 0..OffLimit
    BY <1>1, <1>2, LimitsArePositive, CountedBound
  <1>9. QED BY <1>4, <1>6, <1>7, <1>8

\* The state after a sample, from the counters after it.
LEMMA SampleState ==
  ASSUME DInv, NEW level \in BOOLEAN, Sample(level)
  PROVE  /\ state' \in BOOLEAN
         /\ (state' /\ ~state) => (onCount' >= OnLimit)
         /\ (~state' /\ state) => (offCount' >= OffLimit)
         /\ Settled'
  <1>1. /\ onCount \in 0..OnLimit /\ offCount \in 0..OffLimit /\ state \in BOOLEAN
        /\ OnLimit \in Nat \ {0} /\ OffLimit \in Nat \ {0}
    BY LimitsArePositive DEF DInv, Types
  <1>2. CASE level = TRUE
    <2>1. /\ onCount' = Counted(onCount, TRUE, OnLimit)
          /\ offCount' = Counted(offCount, FALSE, OffLimit)
          /\ state' = (state \/ Counted(onCount, TRUE, OnLimit) >= OnLimit)
      BY <1>2 DEF Sample, Detected
    <2>2. offCount' = 0
      BY <1>1, <2>1, CountedBound
    <2>3. ~(offCount' >= OffLimit)
      BY <1>1, <2>2
    <2>4. QED BY <1>1, <2>1, <2>3, Zenon DEF Settled
  <1>3. CASE level = FALSE
    <2>1. /\ onCount' = Counted(onCount, FALSE, OnLimit)
          /\ offCount' = Counted(offCount, TRUE, OffLimit)
          /\ state' = (state /\ Counted(offCount, TRUE, OffLimit) < OffLimit)
      BY <1>3 DEF Sample, Detected
    <2>2. onCount' = 0
      BY <1>1, <2>1, CountedBound
    <2>3. ~(onCount' >= OnLimit)
      BY <1>1, <2>2
    <2>4. Counted(offCount, TRUE, OffLimit) < OffLimit <=> ~(offCount' >= OffLimit)
      <3>1. offCount' \in 0..OffLimit /\ Counted(offCount, TRUE, OffLimit) = offCount'
        BY <1>1, <2>1, CountedBound
      <3>2. offCount' < OffLimit <=> ~(offCount' >= OffLimit)
        BY <1>1, <3>1
      <3>3. QED BY <3>1, <3>2, Zenon
    <2>5. QED BY <1>1, <2>1, <2>3, <2>4, Zenon DEF Settled
  <1>4. QED BY <1>2, <1>3

LEMMA InvKept == DInv /\ [Next]_debounceVars => DInv'
  <1> SUFFICES ASSUME DInv, [Next]_debounceVars PROVE DInv'
    OBVIOUS
  <1>1. ASSUME NEW level \in BOOLEAN, Sample(level) PROVE DInv'
    <2>1. /\ word' \in BOOLEAN /\ told' \in {"none", "on", "off"}
          /\ registered' \in BOOLEAN /\ found' \in BOOLEAN
      BY <1>1, SampleState DEF Sample, ToldAfter, DInv, Types
    <2>2. QED BY <1>1, <2>1, SampleCounts, SampleState DEF DInv, Types
  <1>2. CASE Register
    <2>1. Types'
      BY <1>2 DEF Register, DInv, Types
    <2>2. OnRun' /\ OffRun' /\ Settled'
      BY <1>2 DEF Register, DInv, OnRun, OffRun, Settled, Steady
    <2>3. QED BY <2>1, <2>2 DEF DInv
  <1>3. CASE UNCHANGED debounceVars
    <2>1. Types'
      BY <1>3 DEF debounceVars, DInv, Types
    <2>2. OnRun' /\ OffRun' /\ Settled'
      BY <1>3 DEF debounceVars, DInv, OnRun, OffRun, Settled, Steady
    <2>3. QED BY <2>1, <2>2 DEF DInv
  <1>4. QED BY <1>1, <1>2, <1>3 DEF Next

LEMMA InvAlways == Spec => []DInv
  BY InitInv, InvKept, PTL DEF Spec

\* No steady level is missed, for every pair of limits: when the last OnLimit samples
\* were active the input is, and after OffLimit inactive ones it is not
\* (key.c:125-150).
THEOREM SteadyIsSeen == Spec => []NoneMissed
  <1>1. DInv => NoneMissed
    <2> SUFFICES ASSUME DInv PROVE NoneMissed
      OBVIOUS
    <2>1. OnLimit \in 1..OnLimit /\ OffLimit \in 1..OffLimit
      BY LimitsArePositive
    <2>2. /\ onCount >= OnLimit <=> Steady(recent, OnLimit, TRUE)
          /\ offCount >= OffLimit <=> Steady(recent, OffLimit, FALSE)
      BY <2>1 DEF DInv, OnRun, OffRun
    <2>3. QED BY <2>2, Zenon DEF DInv, Settled, NoneMissed
  <1>2. QED BY <1>1, InvAlways, PTL

\* No glitch gets through: the input changes only after as many samples of the new
\* level in a row as its limit says (key.c:125-150).
THEOREM GlitchesAreDropped == Spec => NoGlitch
  <1> DEFINE Change == /\ (state' /\ ~state) => Steady(recent', OnLimit, TRUE)
                       /\ (~state' /\ state) => Steady(recent', OffLimit, FALSE)
  <1>1. DInv /\ [Next]_debounceVars => [Change]_debounceVars
    <2> SUFFICES ASSUME DInv, Next PROVE Change
      OBVIOUS
    <2>1. ASSUME NEW level \in BOOLEAN, Sample(level) PROVE Change
      <3>1. OnLimit \in 1..OnLimit /\ OffLimit \in 1..OffLimit
        BY LimitsArePositive
      <3>2. OnRun' /\ OffRun'
        BY <2>1, SampleCounts
      <3>3. /\ onCount' >= OnLimit => Steady(recent', OnLimit, TRUE)
            /\ offCount' >= OffLimit => Steady(recent', OffLimit, FALSE)
        BY <3>1, <3>2 DEF OnRun, OffRun
      <3>4. QED BY <2>1, <3>3, SampleState
    <2>2. CASE Register
      BY <2>2, Zenon DEF Register
    <2>3. QED BY <2>1, <2>2 DEF Next
  <1>2. QED BY <1>1, InvAlways, PTL DEF Spec, NoGlitch

\* The main state machine is told of every change since it registered and of none
\* before, and the bit that the PLC reads is the debounced state
\* (FML_ExtSignal.c:195-278, BLL_MainFsm.c:116).
THEOREM ToldOfEveryChange == Spec => []ToldAgrees
  <1>1. Init => ToldAgrees
    BY DEF Init, ToldAgrees
  <1>2. DInv /\ DInv' /\ ToldAgrees /\ [Next]_debounceVars => ToldAgrees'
    <2> SUFFICES ASSUME DInv, DInv', ToldAgrees, [Next]_debounceVars PROVE ToldAgrees'
      OBVIOUS
    <2>0. /\ state \in BOOLEAN /\ state' \in BOOLEAN /\ registered \in BOOLEAN
          /\ found \in BOOLEAN /\ told \in {"none", "on", "off"}
      BY DEF DInv, Types
    <2>1. ASSUME NEW level \in BOOLEAN, Sample(level) PROVE ToldAgrees'
      <3>1. CASE state' = state
        BY <2>1, <3>1 DEF Sample, ToldAgrees
      <3>2. CASE state' # state
        <4>1. /\ word' = state' /\ told' = ToldAfter(state')
              /\ registered' = registered /\ found' = found
          BY <2>1, <3>2 DEF Sample
        <4>2. CASE registered = TRUE
          BY <2>0, <4>1, <4>2 DEF ToldAfter, ToldAgrees
        <4>3. CASE registered = FALSE
          BY <2>0, <4>1, <4>3 DEF ToldAfter, ToldAgrees
        <4>4. QED BY <2>0, <4>2, <4>3
      <3>3. QED BY <3>1, <3>2
    <2>2. CASE Register
      BY <2>2 DEF Register, ToldAgrees
    <2>3. CASE UNCHANGED debounceVars
      BY <2>3 DEF debounceVars, ToldAgrees
    <2>4. QED BY <2>1, <2>2, <2>3 DEF Next
  <1>3. QED BY <1>1, <1>2, InvAlways, PTL DEF Spec
==============================================================================
