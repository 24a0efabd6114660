------------------------ MODULE ModbusMirror_proofs ------------------------
(***************************************************************************)
(* What ModbusMirror.tla promises, for every queue length, number of ports *)
(* and number of cycles.                                                   *)
(***************************************************************************)
EXTENDS ModbusMirror, TLAPS, SequenceTheorems

------------------------------------------------------------------------------
(* Messages *)

Pointers == {Pointer(w) : w \in Words}
LeakOf(p, n) == Msg("leak", p, n)
Over == Msg("over", 0, 0)
Leaks == {LeakOf(p, n) : p \in PortSet, n \in 0..MaxCycle}

\* The messages the fsmTask really posts.
Sent == Pointers \cup Leaks \cup {Over}

LEMMA Sizes == /\ QueueLen \in Nat \ {0} /\ Ports \in Nat \ {0} /\ MaxCycle \in Nat \ {0}
               /\ \A w \in Words : w = "err" \/ w = "vb"
  BY MirrorAssumption

LEMMA MsgParts ==
  ASSUME NEW kind, NEW port, NEW val
  PROVE  /\ Msg(kind, port, val).kind = kind /\ Msg(kind, port, val).port = port
         /\ Msg(kind, port, val).val = val
  BY DEF Msg

LEMMA Kinds ==
  /\ Nothing.kind = "none" /\ Over.kind = "over" /\ Nothing \notin Sent
  /\ \A w \in Words : /\ Pointer(w).kind = w /\ Pointer(w) # Nothing /\ Pointer(w) # Over
                      /\ w # "leak" /\ w # "over" /\ w # "none"
                      /\ \A v \in Words : Pointer(v) = Pointer(w) => v = w
  /\ \A m \in Leaks : m.kind = "leak" /\ m.port \in PortSet /\ m.val \in 0..MaxCycle
  /\ \A m \in Sent \cup {Nothing} :
       /\ m.kind \in Words => m = Pointer(m.kind)
       /\ m.kind = "leak" => m \in Leaks
       /\ m.kind = "over" => m = Over
       /\ m # Nothing => m \in Sent
  <1> USE DEF Pointers, Leaks, Sent, Pointer, LeakOf, Over, Nothing
  <1>1. \A w \in Words : w # "leak" /\ w # "over" /\ w # "none"
    BY Sizes
  <1>2. /\ Nothing.kind = "none" /\ Over.kind = "over"
        /\ \A w \in Words : Pointer(w).kind = w
        /\ \A m \in Leaks : m.kind = "leak" /\ m.port \in PortSet /\ m.val \in 0..MaxCycle
    BY MsgParts
  <1>3. ASSUME NEW w \in Words
        PROVE  /\ Pointer(w) # Nothing /\ Pointer(w) # Over
               /\ \A v \in Words : Pointer(v) = Pointer(w) => v = w
    <2> HIDE DEF Pointer, Over, Nothing
    <2>1. QED BY <1>1, <1>2
  <1>4. ASSUME NEW m \in Sent \cup {Nothing}
        PROVE  /\ m.kind \in Words => m = Pointer(m.kind)
               /\ m.kind = "leak" => m \in Leaks
               /\ m.kind = "over" => m = Over
               /\ m # Nothing => m \in Sent
    <2> HIDE DEF Pointer, Over, Nothing, Leaks
    <2>1. m \in Pointers \/ m \in Leaks \/ m = Over \/ m = Nothing
      BY <1>4
    <2>2. QED BY <1>1, <1>2, <2>1
  <1>5. Nothing \notin Sent
    <2> HIDE DEF Pointer, Over, Nothing, Leaks
    <2>1. QED BY <1>1, <1>2
  <1>6. QED BY <1>1, <1>2, <1>3, <1>4, <1>5

------------------------------------------------------------------------------
(* Types *)

Typed ==
  /\ word \in [Words -> [Halves -> 0..1]] /\ reg \in [Words -> [Halves -> 0..1]]
  /\ owed \in Sent \cup {Nothing} /\ com \in Sent \cup {Nothing}
  /\ mq \in Seq(Sent) /\ Len(mq) <= QueueLen
  /\ half \in Halves /\ loaded \in 0..2
  /\ cur \in [PortSet -> 0..MaxCycle] /\ prev \in [PortSet -> 0..MaxCycle]
  /\ cycle \in 0..MaxCycle /\ dropped \in BOOLEAN

LEMMA TypedInit == Init => Typed
  <1> SUFFICES ASSUME Init PROVE Typed
    OBVIOUS
  <1>1. MaxCycle \in Nat /\ QueueLen \in Nat
    BY Sizes
  <1>2. Zero \in [Halves -> 0..1]
    BY DEF Zero
  <1>3. mq \in Seq(Sent) /\ Len(mq) = 0
    BY DEF Init
  <1>4. dropped \in BOOLEAN
    BY Zenon DEF Init
  <1>5. QED BY <1>1, <1>2, <1>3, <1>4 DEF Init, Typed, NotLoaded, Halves

LEMMA SentKinds == /\ \A w \in Words : Pointer(w) \in Sent
                   /\ \A p \in PortSet, n \in 0..MaxCycle : LeakOf(p, n) \in Sent
                   /\ Over \in Sent
  BY DEF Sent, Pointers, Leaks

LEMMA ChangeTyped ==
  ASSUME Typed, NEW w \in Words, ChangeWord(w)
  PROVE  Typed'
  <1>1. PICK flip \in SUBSET HalvesOf(w) :
          word' = [word EXCEPT ![w] = [h \in Halves |-> IF h \in flip THEN 1 - word[w][h]
                                                                      ELSE word[w][h]]]
    BY DEF ChangeWord
  <1>2. [h \in Halves |-> IF h \in flip THEN 1 - word[w][h] ELSE word[w][h]] \in [Halves -> 0..1]
    BY DEF Typed
  <1>3. word' \in [Words -> [Halves -> 0..1]]
    BY <1>1, <1>2 DEF Typed
  <1>4. QED BY <1>3, SentKinds DEF ChangeWord, Typed, comVars

LEMMA PostTyped ==
  ASSUME Typed, NewCycle \/ (\E p \in PortSet : Leak(p)) \/ Send
  PROVE  Typed'
  <1>0. MaxCycle \in Nat /\ QueueLen \in Nat /\ Len(mq) \in Nat
    BY Sizes, LenProperties DEF Typed
  <1>1. CASE NewCycle
    <2>1. owed' \in Sent /\ cycle' \in 0..MaxCycle
      BY <1>0, <1>1, SentKinds DEF NewCycle, Over, Typed
    <2>2. QED BY <1>1, <2>1 DEF NewCycle, Typed, comVars
  <1>2. ASSUME NEW p \in PortSet, Leak(p) PROVE Typed'
    <2>1. owed' \in Sent
      BY <1>2, SentKinds DEF Leak, LeakOf, Typed
    <2>2. QED BY <1>2, <2>1 DEF Leak, Typed, comVars
  <1>3. CASE Send
    <2>1. owed \in Sent
      BY <1>3 DEF Send, Typed, Quiet
    <2>2. mq' \in Seq(Sent) /\ Len(mq') <= QueueLen
      <3>1. CASE Len(mq) < QueueLen
        <4>1. mq' = Append(mq, owed)
          BY <1>0, <1>3, <3>1 DEF Send
        <4>2. mq \in Seq(Sent)
          BY DEF Typed
        <4>3. mq' \in Seq(Sent) /\ Len(mq') = Len(mq) + 1
          BY <2>1, <4>1, <4>2, AppendProperties
        <4>4. QED BY <1>0, <3>1, <4>3
      <3>2. CASE ~(Len(mq) < QueueLen)
        BY <1>3, <3>2 DEF Send, Typed
      <3>3. QED BY <3>1, <3>2
    <2>3. dropped' \in BOOLEAN
      BY <1>3, Zenon DEF Send, Typed
    <2>4. QED BY <1>3, <2>2, <2>3 DEF Send, Typed, comVars
  <1>4. QED BY <1>1, <1>2, <1>3

LEMMA ComTyped ==
  ASSUME Typed, ComTask
  PROVE  Typed'
  <1>0. MaxCycle \in Nat /\ QueueLen \in Nat /\ Len(mq) \in Nat
    BY Sizes, LenProperties DEF Typed
  <1>1. CASE Take
    <2>1. com' \in Sent /\ mq' \in Seq(Sent) /\ Len(mq') <= QueueLen
      BY <1>0, <1>1, HeadTailProperties DEF Take, Typed
    <2>2. QED BY <1>1, <2>1 DEF Take, Typed, fsmVars, NotLoaded, Halves
  <1>2. CASE Load
    <2>1. word[com.kind][half] \in 0..1
      BY <1>2 DEF Load, Typed
    <2>2. loaded' \in 0..2
      BY <1>2, <2>1 DEF Load
    <2>3. QED BY <1>2, <2>2 DEF Load, Typed, fsmVars
  <1>3. CASE Store
    <2>1. loaded \in 0..1 /\ com.kind \in Words
      BY <1>3 DEF Store, Typed, NotLoaded
    <2>2. reg' = [reg EXCEPT ![com.kind] = [reg[com.kind] EXCEPT ![half] = loaded]]
      BY <1>3 DEF Store
    <2>3. [reg[com.kind] EXCEPT ![half] = loaded] \in [Halves -> 0..1]
      BY <2>1 DEF Typed
    <2>4. reg' \in [Words -> [Halves -> 0..1]]
      BY <2>1, <2>2, <2>3 DEF Typed
    <2>5. half' \in Halves /\ com' \in Sent \cup {Nothing} /\ loaded' \in 0..2
      BY <1>3 DEF Store, Typed, Halves, NotLoaded
    <2>6. QED BY <1>3, <2>4, <2>5 DEF Store, Typed, fsmVars
  <1>4. CASE StoreLeak
    <2>1. com.port \in PortSet /\ com.val \in 0..MaxCycle
      BY <1>4, Kinds DEF StoreLeak, Typed
    <2>2. cur' \in [PortSet -> 0..MaxCycle]
      BY <1>4, <2>1 DEF StoreLeak, Typed
    <2>3. QED BY <1>4, <2>2 DEF StoreLeak, Typed, fsmVars
  <1>5. CASE TestOver
    <2>1. cur' \in [PortSet -> 0..MaxCycle] /\ prev' \in [PortSet -> 0..MaxCycle]
      BY <1>0, <1>5 DEF TestOver, Typed
    <2>2. QED BY <1>5, <2>1 DEF TestOver, Typed, fsmVars
  <1>6. QED BY <1>1, <1>2, <1>3, <1>4, <1>5 DEF ComTask

LEMMA TypedKept == Typed /\ [Next]_mirrorVars => Typed'
  <1>1. CASE UNCHANGED mirrorVars
    BY <1>1 DEF mirrorVars, fsmVars, comVars, Typed
  <1>2. QED BY <1>1, ChangeTyped, PostTyped, ComTyped DEF Next

LEMMA TypedAlways == Spec => []Typed
  BY TypedInit, TypedKept, PTL DEF Spec

\* Every variable of the two tasks and of the queue between them holds a value of its
\* C type, and the queue never holds more than it takes.
THEOREM TypeCorrect == Spec => []TypeOK
  <1>1. Sent \cup {Nothing} \subseteq Messages \cup {Nothing}
    <2>1. \A w \in Words : Pointer(w) \in Messages
      <3>1. 0 \in 0..Ports /\ 0 \in 0..MaxCycle
        BY Sizes
      <3>2. QED BY <3>1 DEF Pointer, Msg, Messages
    <2>2. \A p \in PortSet, n \in 0..MaxCycle : LeakOf(p, n) \in Messages
      BY Sizes DEF LeakOf, Msg, Messages, PortSet
    <2>3. Over \in Messages
      BY Sizes DEF Over, Msg, Messages
    <2>4. QED BY <2>1, <2>2, <2>3 DEF Sent, Pointers, Leaks
  <1>2. Sent \subseteq Messages
    BY <1>1, Kinds
  <1>3. Typed => TypeOK
    <2> SUFFICES ASSUME Typed PROVE TypeOK
      OBVIOUS
    <2>1. mq \in Seq(Messages)
      BY <1>2, SeqMonotonic DEF Typed
    <2>2. QED BY <1>1, <2>1 DEF Typed, TypeOK, NotLoaded
  <1>4. QED BY <1>3, TypedAlways, PTL

------------------------------------------------------------------------------
(* No change of a word is forgotten *)

\* The pointer waits: the whole word will be copied again.
Queued(w) == owed = Pointer(w) \/ \E i \in 1..Len(mq) : mq[i] = Pointer(w)

\* What the comTask has loaded is the word, unless it will copy it again.
LoadedFresh == \A w \in Words :
  (com = Pointer(w) /\ loaded # NotLoaded) => (loaded = word[w][half] \/ Queued(w))

Kept(w, h) == reg[w][h] = word[w][h] \/ Coming(w, h)

AllKept == \A w \in Words : \A h \in HalvesOf(w) : Kept(w, h)

Copied == dropped \/ (LoadedFresh /\ AllKept)

LEMMA HalfFacts == /\ \A w \in Words : HalvesOf(w) \subseteq Halves /\ "lo" \in HalvesOf(w)
                   /\ "lo" \in Halves /\ "hi" \in Halves /\ "lo" # "hi"
                   /\ \A h \in Halves : h = "lo" \/ h = "hi"
                   /\ \A w \in Words : w # "err" => \A h \in HalvesOf(w) : h = "lo"
  BY DEF HalvesOf, Halves

LEMMA ComingQueued ==
  ASSUME NEW w \in Words, Queued(w), NEW h
  PROVE  Coming(w, h)
  BY DEF Queued, Coming

LEMMA ChangeCopied ==
  ASSUME Typed, LoadedFresh, AllKept, NEW w \in Words, ChangeWord(w)
  PROVE  (LoadedFresh /\ AllKept)'
  <1>1. /\ owed = Nothing /\ owed' = Pointer(w) /\ UNCHANGED <<mq, com, half, loaded, reg>>
        /\ \A v \in Words : v # w => word'[v] = word[v]
    BY DEF ChangeWord, Quiet, comVars, Typed
  <1>2. Queued(w)'
    BY <1>1 DEF Queued, Pointer, Msg
  <1>3. \A v \in Words : v # w => (Queued(v) => Queued(v)')
    BY <1>1, Kinds DEF Queued, Pointer, Msg
  <1>4. LoadedFresh'
    BY <1>1, <1>2, <1>3 DEF LoadedFresh, Pointer, Msg
  <1>5. ASSUME NEW v \in Words, NEW h \in HalvesOf(v) PROVE Kept(v, h)'
    <2>1. CASE v = w
      BY <1>1, <2>1 DEF Kept, Coming, Pointer, Msg
    <2>2. CASE v # w
      <3>1. Kept(v, h) /\ owed # Pointer(v)
        BY <1>1, Kinds DEF AllKept
      <3>2. QED BY <1>1, <2>2, <3>1 DEF Kept, Coming, Pointer, Msg
    <2>3. QED BY <2>1, <2>2
  <1>6. QED BY <1>4, <1>5 DEF AllKept, HalvesOf

\* A step that only adds messages.
LEMMA MoreCopied ==
  ASSUME LoadedFresh, AllKept, UNCHANGED <<word, reg, com, half, loaded>>,
         \A w \in Words : Queued(w) => Queued(w)'
  PROVE  (LoadedFresh /\ AllKept)'
  <1>1. LoadedFresh'
    BY DEF LoadedFresh, Pointer, Msg
  <1>2. ASSUME NEW w \in Words, NEW h \in HalvesOf(w) PROVE Kept(w, h)'
    <2>1. Kept(w, h)
      BY DEF AllKept
    <2>2. QED BY <2>1 DEF Kept, Coming, Queued, Pointer, Msg
  <1>3. QED BY <1>1, <1>2 DEF AllKept, HalvesOf

LEMMA PostCopied ==
  ASSUME Typed, LoadedFresh, AllKept,
         NewCycle \/ (\E p \in PortSet : Leak(p)) \/ Send
  PROVE  Copied'
  <1>1. UNCHANGED <<word, reg, com, half, loaded>>
    BY DEF NewCycle, Leak, Send, comVars
  <1>2. CASE NewCycle \/ \E p \in PortSet : Leak(p)
    <2>1. owed = Nothing /\ mq' = mq
      BY <1>2 DEF NewCycle, Leak, Quiet
    <2>2. \A w \in Words : Queued(w) => Queued(w)'
      BY <2>1, Kinds DEF Queued, Pointer, Msg
    <2>3. QED BY <1>1, <2>2, MoreCopied DEF Copied
  <1>3. CASE Send
    <2>1. CASE dropped' = TRUE
      BY <2>1 DEF Copied
    <2>2. CASE dropped' # TRUE
      <3>1. owed \in Sent /\ mq \in Seq(Sent) /\ mq' = Append(mq, owed)
        BY <1>3, <2>2, Kinds DEF Send, Quiet, Typed
      <3>2. /\ Len(mq') = Len(mq) + 1 /\ Len(mq) \in Nat
            /\ \A i \in 1..Len(mq) : mq'[i] = mq[i]
            /\ mq'[Len(mq) + 1] = owed
        BY <3>1, AppendProperties, LenProperties
      <3>3. \A w \in Words : Queued(w) => \E i \in 1..Len(mq') : mq'[i] = Pointer(w)
        BY <3>2 DEF Queued
      <3>4. \A w \in Words : Queued(w) => Queued(w)'
        BY <3>3 DEF Queued, Pointer, Msg
      <3>5. QED BY <1>1, <3>4, MoreCopied DEF Copied
    <2>3. QED BY <2>1, <2>2
  <1>4. QED BY <1>2, <1>3

LEMMA TakeCopied ==
  ASSUME Typed, LoadedFresh, AllKept, Take
  PROVE  (LoadedFresh /\ AllKept)'
  <1>1. /\ com = Nothing /\ mq # <<>> /\ com' = Head(mq) /\ mq' = Tail(mq)
        /\ half' = "lo" /\ loaded' = NotLoaded /\ UNCHANGED <<word, owed, reg>>
    BY DEF Take, fsmVars
  <1>2. /\ Len(mq) \in Nat /\ Len(mq) >= 1 /\ Head(mq) = mq[1]
        /\ Len(mq') = Len(mq) - 1 /\ \A i \in 1..Len(mq') : mq'[i] = mq[i + 1]
    BY <1>1, EmptySeq, LenProperties, HeadTailProperties DEF Typed
  <1>3. LoadedFresh'
    BY <1>1 DEF LoadedFresh, NotLoaded
  <1>4. ASSUME NEW w \in Words, NEW h \in HalvesOf(w) PROVE Kept(w, h)'
    <2>1. CASE reg[w][h] = word[w][h]
      BY <1>1, <2>1 DEF Kept
    <2>2. CASE reg[w][h] # word[w][h]
      <3>1. Queued(w)
        BY <1>1, <2>2, Kinds DEF AllKept, Kept, Coming, Queued
      <3>2. owed = Pointer(w) \/ mq[1] = Pointer(w) \/ \E i \in 1..Len(mq') : mq'[i] = Pointer(w)
        <4>1. ASSUME NEW i \in 1..Len(mq), mq[i] = Pointer(w), i # 1
              PROVE  \E j \in 1..Len(mq') : mq'[j] = Pointer(w)
          <5>1. i - 1 \in 1..Len(mq') /\ mq'[i - 1] = mq[(i - 1) + 1] /\ (i - 1) + 1 = i
            BY <1>2, <4>1
          <5>2. QED BY <4>1, <5>1
        <4>2. QED BY <3>1, <4>1 DEF Queued
      <3>3. CASE mq[1] = Pointer(w)
        BY <1>1, <1>2, <3>3 DEF Kept, Coming, Pointer, Msg
      <3>4. CASE owed = Pointer(w) \/ \E i \in 1..Len(mq') : mq'[i] = Pointer(w)
        BY <1>1, <3>4 DEF Kept, Coming, Pointer, Msg
      <3>5. QED BY <3>2, <3>3, <3>4
    <2>3. QED BY <2>1, <2>2
  <1>5. QED BY <1>3, <1>4 DEF AllKept, HalvesOf

LEMMA LoadCopied ==
  ASSUME Typed, LoadedFresh, AllKept, Load
  PROVE  (LoadedFresh /\ AllKept)'
  <1>1. /\ com.kind \in Words /\ loaded = NotLoaded /\ loaded' = word[com.kind][half]
        /\ UNCHANGED <<word, owed, reg, com, half, mq>>
    BY DEF Load, fsmVars
  <1>2. com = Pointer(com.kind) /\ \A w \in Words : com = Pointer(w) => w = com.kind
    BY <1>1, Kinds DEF Typed
  <1>3. loaded' # NotLoaded
    <2>1. word[com.kind][half] \in 0..1
      BY <1>1 DEF Typed
    <2>2. QED BY <1>1, <2>1 DEF NotLoaded
  <1>4. LoadedFresh'
    BY <1>1, <1>2 DEF LoadedFresh, Pointer, Msg
  <1>5. ASSUME NEW w \in Words, NEW h \in HalvesOf(w) PROVE Kept(w, h)'
    <2>1. Kept(w, h)
      BY DEF AllKept
    <2>2. CASE reg[w][h] = word[w][h] \/ Queued(w)
      BY <1>1, <2>2 DEF Kept, Coming, Queued, Pointer, Msg
    <2>3. CASE com = Pointer(w) /\ (half = h \/ half = "lo")
      <3>1. loaded' = word[w][half]
        BY <1>1, <1>2, <2>3
      <3>2. QED BY <1>1, <1>3, <2>3, <3>1 DEF Kept, Coming, Pointer, Msg
    <2>4. QED BY <1>1, <2>1, <2>2, <2>3 DEF Kept, Coming, Queued
  <1>6. QED BY <1>4, <1>5 DEF AllKept, HalvesOf

LEMMA StoreCopied ==
  ASSUME Typed, LoadedFresh, AllKept, Store
  PROVE  (LoadedFresh /\ AllKept)'
  <1> DEFINE v == com.kind
  <1>1. /\ v \in Words /\ loaded # NotLoaded /\ loaded' = NotLoaded
        /\ reg' = [reg EXCEPT ![v] = [reg[v] EXCEPT ![half] = loaded]]
        /\ half = "lo" /\ v = "err" => half' = "hi" /\ com' = com
        /\ ~(half = "lo" /\ v = "err") => half' = "lo" /\ com' = Nothing
        /\ UNCHANGED <<word, owed, mq>>
    BY DEF Store, fsmVars
  <1>2. com = Pointer(v) /\ \A w \in Words : com = Pointer(w) => w = v
    BY <1>1, Kinds DEF Typed
  <1> HIDE DEF v
  <1>3. /\ half \in Halves /\ reg \in [Words -> [Halves -> 0..1]] /\ reg'[v][half] = loaded
        /\ \A w \in Words, h \in Halves : ~(w = v /\ h = half) => reg'[w][h] = reg[w][h]
    BY <1>1 DEF Typed
  <1>4. LoadedFresh'
    BY <1>1 DEF LoadedFresh
  <1>5. ASSUME NEW w \in Words, NEW h \in HalvesOf(w) PROVE Kept(w, h)'
    <2>0. h \in Halves
      BY HalfFacts
    <2>1. Kept(w, h)
      BY DEF AllKept
    <2>2. CASE Queued(w)
      BY <1>1, <2>2 DEF Kept, Coming, Queued, Pointer, Msg
    <2>3. CASE ~Queued(w) /\ w = v /\ h = half
      <3>1. loaded = word[w][half]
        BY <1>1, <1>2, <2>3 DEF LoadedFresh
      <3>2. QED BY <1>1, <1>3, <2>3, <3>1 DEF Kept
    <2>4. CASE ~Queued(w) /\ ~(w = v /\ h = half)
      <3>1. reg'[w][h] = reg[w][h]
        BY <1>3, <2>0, <2>4
      <3>2. CASE reg[w][h] = word[w][h]
        BY <1>1, <3>1, <3>2 DEF Kept
      <3>3. CASE reg[w][h] # word[w][h]
        <4>1. com = Pointer(w) /\ half = "lo" /\ half # h
          BY <1>1, <1>2, <2>1, <2>4, <3>3 DEF Kept, Coming, Queued
        <4>2. h = "hi" /\ v = "err" /\ w = v
          BY <1>2, <2>0, <4>1, HalfFacts
        <4>3. QED BY <1>1, <4>1, <4>2 DEF Kept, Coming, Pointer, Msg
      <3>4. QED BY <3>2, <3>3
    <2>5. QED BY <2>2, <2>3, <2>4
  <1>6. QED BY <1>4, <1>5 DEF AllKept, HalvesOf

LEMMA LeakOverCopied ==
  ASSUME Typed, LoadedFresh, AllKept, StoreLeak \/ TestOver
  PROVE  (LoadedFresh /\ AllKept)'
  <1>1. /\ com.kind = "leak" \/ com.kind = "over"
        /\ com' = Nothing /\ UNCHANGED <<word, owed, reg, mq>>
    BY DEF StoreLeak, TestOver, fsmVars
  <1>2. \A w \in Words : com # Pointer(w)
    BY <1>1, Kinds
  <1>3. LoadedFresh'
    BY <1>1, Kinds DEF LoadedFresh, Pointer, Msg
  <1>4. ASSUME NEW w \in Words, NEW h \in HalvesOf(w) PROVE Kept(w, h)'
    <2>1. Kept(w, h)
      BY DEF AllKept
    <2>2. QED BY <1>1, <1>2, <2>1 DEF Kept, Coming, Pointer, Msg
  <1>5. QED BY <1>3, <1>4 DEF AllKept, HalvesOf

LEMMA CopiedKept == Typed /\ Copied /\ [Next]_mirrorVars => Copied'
  <1> SUFFICES ASSUME Typed, Copied, [Next]_mirrorVars PROVE Copied'
    OBVIOUS
  <1>1. CASE dropped = TRUE
    <2>1. dropped' = TRUE
      BY <1>1 DEF Next, ChangeWord, NewCycle, Leak, Send, ComTask, Take, Load, Store, StoreLeak,
                  TestOver, mirrorVars
    <2>2. QED BY <2>1 DEF Copied
  <1>2. CASE dropped = FALSE
    <2>0. LoadedFresh /\ AllKept
      BY <1>2 DEF Copied
    <2>1. ASSUME NEW w \in Words, ChangeWord(w) PROVE Copied'
      BY <2>0, <2>1, ChangeCopied DEF Copied
    <2>2. CASE NewCycle \/ (\E p \in PortSet : Leak(p)) \/ Send
      BY <2>0, <2>2, PostCopied
    <2>3. CASE ComTask
      BY <2>0, <2>3, TakeCopied, LoadCopied, StoreCopied, LeakOverCopied DEF ComTask, Copied
    <2>4. CASE UNCHANGED mirrorVars
      BY <2>0, <2>4, MoreCopied DEF Copied, mirrorVars, fsmVars, comVars, Queued, Pointer, Msg
    <2>5. QED BY <2>1, <2>2, <2>3, <2>4 DEF Next
  <1>3. QED BY <1>1, <1>2 DEF Typed

\* No change of a flag word is forgotten on its way to the registers, although the
\* messages carry pointers, come late and are read half by half, unless the queue has
\* stayed full (BLL_Alarm.c:87-225, BLL_Modbus.c:105-214).
THEOREM ChangesAreCopied == Spec => []NoChangeForgotten
  <1>1. Init => Copied
    <2> SUFFICES ASSUME Init PROVE LoadedFresh /\ AllKept
      BY DEF Copied
    <2>1. LoadedFresh
      BY DEF Init, LoadedFresh
    <2>2. ASSUME NEW w \in Words, NEW h \in HalvesOf(w) PROVE reg[w][h] = word[w][h]
      BY DEF Init
    <2>3. QED BY <2>1, <2>2 DEF AllKept, Kept
  <1>2. Spec => []Copied
    BY <1>1, CopiedKept, TypedAlways, PTL DEF Spec
  <1>3. Copied => NoChangeForgotten
    BY DEF Copied, AllKept, Kept, NoChangeForgotten
  <1>4. QED BY <1>2, <1>3, PTL

------------------------------------------------------------------------------
(* The cycles are kept apart *)

\* Once message m is done, the registers are at cycle hi if they were at lo before.
Moves(m, lo, hi) ==
  /\ hi = IF m = Over THEN lo + 1 ELSE lo
  /\ m \in Leaks => m.val = hi

\* The registers are at cycle o, and f tells for every message of the queue at which
\* cycle they are once it is done: each MB_TEST_OVER begins the next one.
Level(o, f) ==
  /\ f[0] = IF com = Over THEN o + 1 ELSE o
  /\ \A i \in 1..Len(mq) : Moves(mq[i], f[i - 1], f[i])
  /\ com \in Leaks => com.val = o
  /\ cycle = IF owed = Over THEN f[Len(mq)] + 1 ELSE f[Len(mq)]
  /\ owed \in Leaks => owed.val = cycle
  /\ \A p \in PortSet : cur[p] \in {0, o} /\ (prev[p] = 0 \/ prev[p] + 1 = o)

Leveled == dropped \/ \E o \in Nat : \E f \in [0..Len(mq) -> Nat] : Level(o, f)

LEMMA KindsApart == /\ \A w \in Words : Pointer(w) \notin Leaks /\ Pointer(w) # Over
                    /\ Over \notin Leaks /\ Nothing \notin Leaks /\ Nothing # Over
                    /\ \A p \in PortSet, n \in 0..MaxCycle : LeakOf(p, n) # Over /\ LeakOf(p, n).val = n
  <1>1. /\ \A w \in Words : Pointer(w).kind # "leak" /\ Pointer(w) # Over
        /\ Over.kind # "leak" /\ Nothing.kind # "leak" /\ Nothing.kind # Over.kind
    BY Kinds
  <1>2. \A m \in Leaks : m.kind = "leak"
    BY Kinds
  <1>3. \A p \in PortSet, n \in 0..MaxCycle : LeakOf(p, n).kind = "leak" /\ LeakOf(p, n).val = n
    BY MsgParts DEF LeakOf
  <1>4. QED BY <1>1, <1>2, <1>3

\* The fsmTask takes up a message.
LEMMA OweLeveled ==
  ASSUME Typed, NEW o \in Nat, NEW f \in [0..Len(mq) -> Nat], Level(o, f),
         (\E w \in Words : ChangeWord(w)) \/ NewCycle \/ (\E p \in PortSet : Leak(p))
  PROVE  Level(o, f)'
  <1>0. cycle \in 0..MaxCycle
    BY DEF Typed
  <1>1. owed = Nothing /\ UNCHANGED <<mq, com, cur, prev>>
    BY DEF ChangeWord, NewCycle, Leak, Quiet, comVars
  <1>2. cycle = f[Len(mq)]
    BY <1>1, KindsApart DEF Level
  <1>3. /\ cycle' = IF owed' = Over THEN f[Len(mq)] + 1 ELSE f[Len(mq)]
        /\ owed' \in Leaks => owed'.val = cycle'
    <2>1. ASSUME NEW w \in Words, ChangeWord(w) PROVE owed' = Pointer(w) /\ cycle' = cycle
      BY <2>1 DEF ChangeWord
    <2>2. CASE NewCycle
      <3>1. owed' = Over /\ cycle' = cycle + 1
        BY <2>2 DEF NewCycle, Over
      <3>2. QED BY <1>2, <3>1, KindsApart
    <2>3. ASSUME NEW p \in PortSet, Leak(p) PROVE owed' = LeakOf(p, cycle) /\ cycle' = cycle
      BY <2>3 DEF Leak, LeakOf
    <2>4. QED BY <1>0, <1>2, <2>1, <2>2, <2>3, KindsApart
  <1>4. QED BY <1>1, <1>3 DEF Level, Moves, Over, Leaks, LeakOf, Msg

LEMMA SendLeveled ==
  ASSUME Typed, NEW o \in Nat, NEW f \in [0..Len(mq) -> Nat], Level(o, f), Send,
         dropped' # TRUE
  PROVE  Leveled'
  <1> DEFINE n == Len(mq)
  <1>1. owed \in Sent /\ mq \in Seq(Sent) /\ mq' = Append(mq, owed) /\ owed' = Nothing
        /\ UNCHANGED <<cycle, com, cur, prev>>
    BY Kinds DEF Send, Quiet, Typed, comVars
  <1>2. /\ Len(mq') = n + 1 /\ n \in Nat
        /\ \A i \in 1..n : mq'[i] = mq[i]
        /\ mq'[n + 1] = owed
    BY <1>1, AppendProperties, LenProperties
  <1>3. cycle \in Nat
    BY Sizes DEF Typed
  <1>a. /\ \A i \in 1..n : Moves(mq[i], f[i - 1], f[i])
        /\ cycle = IF owed = Over THEN f[n] + 1 ELSE f[n]
        /\ owed \in Leaks => owed.val = cycle
    BY DEF Level
  <1> HIDE DEF n
  <1>f. f \in [0..n -> Nat]
    BY DEF n
  <1>4. PICK g \in [0..n + 1 -> Nat] : g[n + 1] = cycle /\ \A i \in 0..n : g[i] = f[i]
    <2> DEFINE e == [i \in 0..n + 1 |-> IF i = n + 1 THEN cycle ELSE f[i]]
    <2>1. e \in [0..n + 1 -> Nat] /\ e[n + 1] = cycle /\ \A i \in 0..n : e[i] = f[i]
      BY <1>2, <1>3, <1>f
    <2> HIDE DEF e
    <2>2. QED BY <2>1
  <1>5. ASSUME NEW i \in 1..n + 1
        PROVE  Moves(mq'[i], g[i - 1], g[i])
    <2>1. CASE i = n + 1
      <3>1. mq'[i] = owed /\ g[i] = cycle /\ g[i - 1] = f[n]
        BY <1>2, <1>4, <2>1
      <3>2. QED BY <1>2, <1>a, <3>1 DEF Moves
    <2>2. CASE i \in 1..n
      <3>1. mq'[i] = mq[i] /\ g[i] = f[i] /\ g[i - 1] = f[i - 1]
        BY <1>2, <1>4, <2>2
      <3>2. QED BY <1>a, <2>2, <3>1
    <2>3. QED BY <1>2, <2>1, <2>2
  <1>6. g[0] = IF com = Over THEN o + 1 ELSE o
    BY <1>2, <1>4 DEF Level
  <1>7. Level(o, g)'
    <2>1. owed' # Over /\ owed' \notin Leaks
      BY <1>1, KindsApart
    <2>2. cycle' = g[Len(mq')]
      BY <1>1, <1>2, <1>4
    <2>3. \A i \in 1..Len(mq') : Moves(mq'[i], g[i - 1], g[i])
      BY <1>2, <1>5
    <2>4. (\A i \in 1..Len(mq) : Moves(mq[i], g[i - 1], g[i]))'
      BY <2>3 DEF Moves, Over, Leaks, LeakOf, Msg
    <2>5. (/\ g[0] = IF com = Over THEN o + 1 ELSE o
           /\ com \in Leaks => com.val = o
           /\ cycle = IF owed = Over THEN g[Len(mq)] + 1 ELSE g[Len(mq)]
           /\ owed \in Leaks => owed.val = cycle)'
      BY <1>1, <1>6, <2>1, <2>2 DEF Level, Over, Leaks, LeakOf, Msg
    <2>6. (\A p \in PortSet : cur[p] \in {0, o} /\ (prev[p] = 0 \/ prev[p] + 1 = o))'
      BY <1>1 DEF Level
    <2>7. QED BY <2>4, <2>5, <2>6 DEF Level
  <1>8. QED BY <1>2, <1>4, <1>7 DEF Leveled

LEMMA TakeLeveled ==
  ASSUME Typed, NEW o \in Nat, NEW f \in [0..Len(mq) -> Nat], Level(o, f), Take
  PROVE  Leveled'
  <1> DEFINE n == Len(mq)
  <1>1. /\ com = Nothing /\ mq # <<>> /\ com' = Head(mq) /\ mq' = Tail(mq)
        /\ UNCHANGED <<owed, cycle, cur, prev>>
    BY DEF Take, fsmVars
  <1>2. /\ n \in Nat /\ n >= 1 /\ Head(mq) = mq[1] /\ Len(mq') = n - 1
        /\ \A i \in 1..n - 1 : mq'[i] = mq[i + 1]
    BY <1>1, EmptySeq, LenProperties, HeadTailProperties DEF Typed
  <1>a. /\ f[0] = IF com = Over THEN o + 1 ELSE o
        /\ \A i \in 1..n : Moves(mq[i], f[i - 1], f[i])
        /\ cycle = IF owed = Over THEN f[n] + 1 ELSE f[n]
    BY DEF Level
  <1> HIDE DEF n
  <1>f. f \in [0..n -> Nat] /\ f[0] = o
    BY <1>1, KindsApart DEF n, Level
  <1>4. PICK g \in [0..n - 1 -> Nat] : \A i \in 0..n - 1 : g[i] = f[i + 1]
    <2> DEFINE e == [i \in 0..n - 1 |-> f[i + 1]]
    <2>1. e \in [0..n - 1 -> Nat] /\ \A i \in 0..n - 1 : e[i] = f[i + 1]
      BY <1>2, <1>f
    <2> HIDE DEF e
    <2>2. QED BY <2>1
  <1>5. /\ f[1] = IF mq[1] = Over THEN o + 1 ELSE o
        /\ mq[1] \in Leaks => mq[1].val = f[1]
    <2>1. 1 \in 1..n /\ 1 - 1 = 0
      BY <1>2
    <2>2. Moves(mq[1], f[1 - 1], f[1])
      BY <1>a, <2>1
    <2>3. QED BY <1>f, <2>1, <2>2 DEF Moves
  <1>6. ASSUME NEW i \in 1..n - 1
        PROVE  Moves(mq'[i], g[i - 1], g[i])
    <2>1. i + 1 \in 1..n /\ (i + 1) - 1 = i /\ i \in 0..n - 1 /\ i - 1 \in 0..n - 1 /\ (i - 1) + 1 = i
      BY <1>2
    <2>2. mq'[i] = mq[i + 1] /\ g[i] = f[i + 1] /\ g[i - 1] = f[i]
      BY <1>2, <1>4, <2>1
    <2>3. Moves(mq[i + 1], f[(i + 1) - 1], f[i + 1])
      BY <1>a, <2>1
    <2>4. QED BY <2>1, <2>2, <2>3
  <1>7. Level(o, g)'
    <2>1. g[0] = f[1] /\ g[n - 1] = f[n]
      BY <1>2, <1>4
    <2>2. /\ g[0] = IF com' = Over THEN o + 1 ELSE o
          /\ com' \in Leaks => com'.val = o
      BY <1>1, <1>2, <1>5, <2>1, KindsApart
    <2>3. \A i \in 1..Len(mq') : Moves(mq'[i], g[i - 1], g[i])
      BY <1>2, <1>6
    <2>4. cycle = IF owed = Over THEN g[Len(mq')] + 1 ELSE g[Len(mq')]
      BY <1>2, <1>a, <2>1
    <2>5. /\ owed \in Leaks => owed.val = cycle
          /\ \A p \in PortSet : cur[p] \in {0, o} /\ (prev[p] = 0 \/ prev[p] + 1 = o)
      BY DEF Level
    <2>6. (\A i \in 1..Len(mq) : Moves(mq[i], g[i - 1], g[i]))'
      BY <2>3 DEF Moves, Over, Leaks, LeakOf, Msg
    <2>7. (/\ g[0] = IF com = Over THEN o + 1 ELSE o
           /\ com \in Leaks => com.val = o
           /\ cycle = IF owed = Over THEN g[Len(mq)] + 1 ELSE g[Len(mq)]
           /\ owed \in Leaks => owed.val = cycle)'
      BY <1>1, <2>2, <2>4, <2>5 DEF Over, Leaks, LeakOf, Msg
    <2>8. (\A p \in PortSet : cur[p] \in {0, o} /\ (prev[p] = 0 \/ prev[p] + 1 = o))'
      BY <1>1, <2>5
    <2>9. QED BY <2>6, <2>7, <2>8 DEF Level
  <1>8. QED BY <1>2, <1>4, <1>7 DEF Leveled

\* The comTask works on a message.
LEMMA WorkLeveled ==
  ASSUME Typed, NEW o \in Nat, NEW f \in [0..Len(mq) -> Nat], Level(o, f),
         Load \/ Store \/ StoreLeak \/ TestOver \/ UNCHANGED mirrorVars
  PROVE  Leveled'
  <1>0. UNCHANGED <<mq, owed, cycle>>
    BY DEF Load, Store, StoreLeak, TestOver, mirrorVars, fsmVars
  <1>1. CASE Load \/ UNCHANGED mirrorVars
    <2>1. UNCHANGED <<com, cur, prev>>
      BY <1>1 DEF Load, mirrorVars, comVars
    <2>2. Level(o, f)'
      BY <1>0, <2>1 DEF Level, Moves, Over, Leaks, LeakOf, Msg
    <2>3. QED BY <1>0, <2>2 DEF Leveled
  <1>2. CASE Store
    <2>1. /\ com # Over /\ com' # Over /\ com' \notin Leaks /\ UNCHANGED <<cur, prev>>
      <3>1. com.kind \in Words /\ (com' = com \/ com' = Nothing) /\ UNCHANGED <<cur, prev>>
        BY <1>2 DEF Store
      <3>2. com = Pointer(com.kind)
        BY <3>1, Kinds DEF Typed
      <3>3. QED BY <3>1, <3>2, KindsApart
    <2>2. Level(o, f)'
      BY <1>0, <2>1 DEF Level, Moves, Over, Leaks, LeakOf, Msg
    <2>3. QED BY <1>0, <2>2 DEF Leveled
  <1>3. CASE StoreLeak
    <2>1. /\ com \in Leaks /\ com' = Nothing /\ cur' = [cur EXCEPT ![com.port] = com.val]
          /\ prev' = prev
      BY <1>3, Kinds DEF StoreLeak, Typed
    <2>2. com.val = o /\ com # Over
      BY <2>1, KindsApart DEF Level
    <2>3. \A p \in PortSet : cur'[p] \in {0, o} /\ (prev'[p] = 0 \/ prev'[p] + 1 = o)
      BY <2>1, <2>2 DEF Level, Typed
    <2>4. com' # Over /\ com' \notin Leaks
      BY <2>1, KindsApart
    <2>5. Level(o, f)'
      BY <1>0, <2>2, <2>3, <2>4 DEF Level, Moves, Over, Leaks, LeakOf, Msg
    <2>6. QED BY <1>0, <2>5 DEF Leveled
  <1>4. CASE TestOver
    <2>1. /\ com = Over /\ com' = Nothing /\ prev' = cur /\ cur' = [p \in PortSet |-> 0]
      BY <1>4, Kinds DEF TestOver, Typed
    <2>2. com' # Over /\ com' \notin Leaks /\ f[0] = o + 1
      BY <2>1, KindsApart DEF Level
    <2>3. \A p \in PortSet : cur'[p] \in {0, o + 1} /\ (prev'[p] = 0 \/ prev'[p] + 1 = o + 1)
      BY <2>1 DEF Level
    <2>4. Level(o + 1, f)'
      BY <1>0, <2>2, <2>3 DEF Level, Moves, Over, Leaks, LeakOf, Msg
    <2>5. o + 1 \in Nat
      OBVIOUS
    <2>6. QED BY <1>0, <2>4, <2>5 DEF Leveled
  <1>5. QED BY <1>1, <1>2, <1>3, <1>4

LEMMA LeveledKept == Typed /\ Leveled /\ [Next]_mirrorVars => Leveled'
  <1> SUFFICES ASSUME Typed, Leveled, [Next]_mirrorVars PROVE Leveled'
    OBVIOUS
  <1>1. CASE dropped = TRUE
    <2>1. dropped' = TRUE
      BY <1>1 DEF Next, ChangeWord, NewCycle, Leak, Send, ComTask, Take, Load, Store, StoreLeak,
                  TestOver, mirrorVars
    <2>2. QED BY <2>1 DEF Leveled
  <1>2. CASE dropped = FALSE
    <2>0. PICK o \in Nat, f \in [0..Len(mq) -> Nat] : Level(o, f)
      BY <1>2 DEF Leveled
    <2>1. CASE (\E w \in Words : ChangeWord(w)) \/ NewCycle \/ (\E p \in PortSet : Leak(p))
      <3>1. Level(o, f)' /\ mq' = mq
        BY <2>0, <2>1, OweLeveled DEF ChangeWord, NewCycle, Leak
      <3>2. QED BY <3>1 DEF Leveled
    <2>2. CASE Send
      <3>1. CASE dropped' = TRUE
        BY <3>1 DEF Leveled
      <3>2. CASE dropped' # TRUE
        BY <2>0, <2>2, <3>2, SendLeveled
      <3>3. QED BY <3>1, <3>2
    <2>3. CASE Take
      BY <2>0, <2>3, TakeLeveled
    <2>4. CASE Load \/ Store \/ StoreLeak \/ TestOver \/ UNCHANGED mirrorVars
      BY <2>0, <2>4, WorkLeveled
    <2>5. QED BY <2>1, <2>2, <2>3, <2>4 DEF Next, ComTask
  <1>3. QED BY <1>1, <1>2 DEF Typed

\* The leak-rate registers never mix cycles, for every length of the queue: what is
\* shown together was measured in one cycle, the history in the one before
\* (Mersm_Test.c:201, BLL_Modbus.c:195-205).
THEOREM CyclesStayApart == Spec => []CyclesApart
  <1>1. Init => Leveled
    <2> SUFFICES ASSUME Init PROVE \E o \in Nat : \E f \in [0..Len(mq) -> Nat] : Level(o, f)
      BY DEF Leveled
    <2>1. /\ Len(mq) = 0 /\ com = Nothing /\ owed = Nothing /\ cycle = 0
          /\ \A p \in PortSet : cur[p] = 0 /\ prev[p] = 0
      BY DEF Init
    <2>2. [i \in 0..0 |-> 0] \in [0..Len(mq) -> Nat]
      BY <2>1
    <2>3. Level(0, [i \in 0..0 |-> 0])
      BY <2>1, KindsApart DEF Level
    <2>4. QED BY <2>2, <2>3
  <1>2. Spec => []Leveled
    BY <1>1, LeveledKept, TypedAlways, PTL DEF Spec
  <1>3. Typed /\ Leveled => CyclesApart
    <2> SUFFICES ASSUME Typed, NEW o \in Nat, NEW f \in [0..Len(mq) -> Nat], Level(o, f)
                 PROVE  CyclesApart
      BY DEF Leveled, CyclesApart
    <2>1. \A p \in PortSet : /\ cur[p] \in {0, o} /\ (prev[p] = 0 \/ prev[p] + 1 = o)
                           /\ cur[p] \in Nat /\ prev[p] \in Nat
      BY DEF Level, Typed
    <2>2. QED BY <2>1 DEF CyclesApart
  <1>4. QED BY <1>2, <1>3, TypedAlways, PTL
==============================================================================
