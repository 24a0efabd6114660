--------------------------- MODULE StartUp_proofs ---------------------------
(***************************************************************************)
(* What StartUp.tla promises of the two tasks that may both initialise the *)
(* state machine, for every length of its queue.                           *)
(***************************************************************************)
EXTENDS StartUp, TLAPS, SequenceTheorems

Mid == {"callback", "instance", "create"}   \* past the flag, before the creation
Past == {"pause", "done", "run"}            \* the state machine exists

\* Each task creates at most one fsmTask with its queue.
Created ==
  /\ made \in 0..2 /\ queue = made /\ (flag <=> made > 0)
  /\ Len(fsm) = made
  /\ \A t \in Initialisers : pc[t] \in Past => made > 0
  /\ made > 0 => (pc["comTask"] \notin Mid \/ pc["network"] \notin Mid)
  /\ made = 2 => (pc["comTask"] \notin Mid /\ pc["network"] \notin Mid)

\* The newest fsmTask waits on the newest queue.
Newest == made > 0 => fsm[made] \in {NoQueue, queue}

Typed ==
  /\ pc \in [Initialisers -> Places] /\ daq \in {"none", "starting", "ready"}
  /\ flag \in BOOLEAN /\ sampling \in BOOLEAN
  /\ queue \in Queues \cup {NoQueue} /\ made \in 0..2
  /\ events \in [Queues -> 0..MaxEvents]
  /\ fsm \in Seq(Queues \cup {NoQueue})
  /\ cb \subseteq {"callback", "instance"}
  /\ early \subseteq {"network", "sensor", "fsmTask", "callback"}

SInv == Typed /\ Created /\ Newest /\ QueueInTime

------------------------------------------------------------------------------
LEMMA InitInv == Init => SInv
  <1> SUFFICES ASSUME Init PROVE SInv
    OBVIOUS
  <1> USE DEF Init, NoQueue
  <1>1. Typed
    <2>1. pc \in [Initialisers -> Places]
      BY DEF Initialisers, Places
    <2>2. events \in [Queues -> 0..MaxEvents]
      BY StartUpAssumption
    <2>3. flag \in BOOLEAN /\ sampling \in BOOLEAN
      BY Zenon
    <2>4. fsm \in Seq(Queues \cup {NoQueue})
      OBVIOUS
    <2>5. QED BY <2>1, <2>2, <2>3, <2>4 DEF Typed
  <1>2. Created
    <2>1. \A t \in Initialisers : pc[t] \notin Past
      BY DEF Initialisers, Past
    <2>2. flag = FALSE /\ made = 0 /\ queue = 0 /\ Len(fsm) = 0
      OBVIOUS
    <2>3. QED BY <2>1, <2>2 DEF Created
  <1>3. Newest
    BY DEF Newest
  <1>4. QueueInTime
    BY DEF QueueInTime
  <1>5. QED BY <1>1, <1>2, <1>3, <1>4 DEF SInv

\* A step of one task that moves it to a place, creates nothing and uses no queue.
Moves(t, place) ==
  /\ pc' = [pc EXCEPT ![t] = place]
  /\ UNCHANGED <<flag, queue, made, events, fsm, early>>

LEMMA MoveKeeps ==
  ASSUME SInv, NEW t \in Initialisers, NEW place \in Places, Moves(t, place),
         place \in Past => made > 0,
         place \in Mid => (pc[t] \in Mid \/ made = 0),
         sampling' \in BOOLEAN, daq' \in {"none", "starting", "ready"},
         cb' \subseteq {"callback", "instance"}
  PROVE  SInv'
  <1>1. Typed'
    BY DEF SInv, Typed, Moves
  <1>2. /\ pc'[t] = place
        /\ \A u \in Initialisers : u # t => pc'[u] = pc[u]
    BY DEF SInv, Typed, Moves
  <1>3. \A u \in Initialisers : pc'[u] \in Past => made' > 0
    BY <1>2 DEF SInv, Created, Moves
  <1>4. \A u \in Initialisers : pc'[u] \in Mid => (pc[u] \in Mid \/ made = 0)
    BY <1>2
  <1>5. Created'
    <2>1. /\ made' = made /\ queue' = queue /\ flag' = flag /\ fsm' = fsm
          /\ made \in 0..2
      BY DEF Moves, SInv, Created
    <2>2. "comTask" \in Initialisers /\ "network" \in Initialisers
      BY DEF Initialisers
    <2>3. made > 0 => (pc'["comTask"] \notin Mid \/ pc'["network"] \notin Mid)
      BY <1>4, <2>1, <2>2 DEF SInv, Created
    <2>4. made = 2 => (pc'["comTask"] \notin Mid /\ pc'["network"] \notin Mid)
      BY <1>4, <2>1, <2>2 DEF SInv, Created
    <2>5. made \in 0..2 /\ queue = made /\ (flag <=> made > 0) /\ Len(fsm) = made
      BY DEF SInv, Created
    <2>6. QED BY <1>3, <2>1, <2>3, <2>4, <2>5 DEF Created
  <1>6. Newest' /\ QueueInTime'
    BY DEF SInv, Newest, QueueInTime, Moves
  <1>7. QED BY <1>1, <1>5, <1>6 DEF SInv

\* The critical section, entered at most once by each task.
LEMMA CreateKeeps ==
  ASSUME SInv, NEW t \in Initialisers, Create(t)
  PROVE  SInv'
  <1> USE DEF NoQueue
  <1>1. /\ pc[t] = "create" /\ pc' = [pc EXCEPT ![t] = "pause"]
        /\ fsm' = Append(fsm, NoQueue) /\ queue' = made + 1 /\ made' = made + 1 /\ flag' = TRUE
        /\ UNCHANGED <<daq, events, sampling, cb, early>>
    BY DEF Create, At, Goto
  <1>2. pc \in [Initialisers -> Places] /\ fsm \in Seq(Queues \cup {NoQueue})
    BY DEF SInv, Typed
  <1>3. made \in 0..2 /\ Len(fsm) = made
    BY DEF SInv, Created
  <1>4. t = "comTask" \/ t = "network"
    BY DEF Initialisers
  <1>5. made \in 0..1
    <2>1. made # 2
      BY <1>1, <1>4 DEF SInv, Created, Mid
    <2>2. QED BY <1>3, <2>1
  <1>6. /\ pc'[t] = "pause" /\ pc' \in [Initialisers -> Places]
        /\ \A u \in Initialisers : u # t => pc'[u] = pc[u]
    <2>1. "pause" \in Places
      BY DEF Places
    <2>2. QED BY <1>1, <1>2, <2>1
  <1>7. /\ fsm' \in Seq(Queues \cup {NoQueue}) /\ Len(fsm') = made + 1
        /\ fsm'[made + 1] = NoQueue
    BY <1>1, <1>2, <1>3, AppendProperties
  <1>8. Typed'
    <2>1. queue' \in Queues \cup {NoQueue} /\ made' \in 0..2
      BY <1>1, <1>5 DEF Queues
    <2>2. flag' \in BOOLEAN
      BY <1>1, Zenon
    <2>3. QED BY <1>1, <1>6, <1>7, <2>1, <2>2 DEF SInv, Typed
  <1>9. Created'
    <2>1. made' \in 0..2 /\ queue' = made' /\ made' > 0 /\ Len(fsm') = made'
      BY <1>1, <1>5, <1>7
    <2>2. pc'["comTask"] \notin Mid \/ pc'["network"] \notin Mid
      BY <1>4, <1>6 DEF Mid
    <2>3. made' = 2 => (pc'["comTask"] \notin Mid /\ pc'["network"] \notin Mid)
      <3> SUFFICES ASSUME made = 1 PROVE pc'["comTask"] \notin Mid /\ pc'["network"] \notin Mid
        BY <1>1, <1>5
      <3>1. pc["comTask"] \notin Mid \/ pc["network"] \notin Mid
        BY DEF SInv, Created
      <3>2. QED BY <1>1, <1>4, <1>6, <3>1 DEF Mid, Initialisers
    <2>4. flag' = TRUE
      BY <1>1
    <2>5. QED BY <2>1, <2>2, <2>3, <2>4 DEF Created
  <1>10. Newest'
    BY <1>1, <1>7 DEF Newest
  <1>11. QueueInTime'
    BY <1>1 DEF SInv, QueueInTime
  <1>12. QED BY <1>8, <1>9, <1>10, <1>11 DEF SInv

\* The steps by which a task prepares the creation or goes past it.
LEMMA InitialiseKeeps ==
  ASSUME SInv, NEW t \in Initialisers, Initialise(t)
  PROVE  SInv'
  <1>0. /\ "adc" \in Places /\ "check" \in Places /\ "done" \in Places /\ "callback" \in Places
        /\ "instance" \in Places /\ "create" \in Places
    BY DEF Places
  <1>t. /\ sampling \in BOOLEAN /\ daq \in {"none", "starting", "ready"}
        /\ cb \subseteq {"callback", "instance"} /\ flag \in BOOLEAN
    BY DEF SInv, Typed
  <1> USE DEF At, Goto
  <1>1. CASE CreateDaq(t)
    <2>1. PICK place \in {"adc", "check"} : Moves(t, place)
      BY <1>1 DEF CreateDaq, Moves
    <2>2. sampling' \in BOOLEAN /\ daq' \in {"none", "starting", "ready"} /\ cb' = cb
      BY <1>t, <1>1 DEF CreateDaq
    <2>3. place \notin Past /\ place \notin Mid
      BY <2>1 DEF Past, Mid
    <2>4. QED BY <1>0, <1>t, <2>1, <2>2, <2>3, MoveKeeps
  <1>2. CASE AdcReady(t)
    <2>1. Moves(t, "check") /\ sampling' = sampling /\ daq' = "ready" /\ cb' = cb
      BY <1>2 DEF AdcReady, Moves
    <2>2. "check" \notin Past /\ "check" \notin Mid
      BY DEF Past, Mid
    <2>3. QED BY <1>0, <1>t, <2>1, <2>2, MoveKeeps
  <1>3. CASE CheckFlag(t)
    <2>1. sampling' = sampling /\ daq' = daq /\ cb' = cb
      BY <1>3 DEF CheckFlag
    <2>2. CASE flag
      <3>1. Moves(t, "done") /\ made > 0 /\ "done" \notin Mid
        BY <1>3, <2>2 DEF CheckFlag, Moves, SInv, Created, Mid
      <3>2. QED BY <1>0, <1>t, <2>1, <3>1, MoveKeeps
    <2>3. CASE ~flag
      <3>1. Moves(t, "callback") /\ "callback" \notin Past
        BY <1>3, <2>3 DEF CheckFlag, Moves, Past
      <3>2. made = 0
        BY <2>3 DEF SInv, Created
      <3>3. QED BY <1>0, <1>t, <2>1, <3>1, <3>2, MoveKeeps
    <2>4. QED BY <2>2, <2>3
  <1>4. CASE RegisterCallback(t)
    <2>1. Moves(t, "instance") /\ sampling' = sampling /\ daq' = daq /\ cb' = cb \cup {"callback"}
      BY <1>4 DEF RegisterCallback, Register, Moves
    <2>2. pc[t] \in Mid /\ "instance" \notin Past
      BY <1>4 DEF RegisterCallback, Register, Mid, Past
    <2>3. cb' \subseteq {"callback", "instance"}
      BY <1>t, <2>1
    <2>4. QED BY <1>0, <1>t, <2>1, <2>2, <2>3, MoveKeeps
  <1>5. CASE RegisterInstance(t)
    <2>1. Moves(t, "create") /\ sampling' = sampling /\ daq' = daq /\ cb' = cb \cup {"instance"}
      BY <1>5 DEF RegisterInstance, Register, Moves
    <2>2. pc[t] \in Mid /\ "create" \notin Past
      BY <1>5 DEF RegisterInstance, Register, Mid, Past
    <2>3. cb' \subseteq {"callback", "instance"}
      BY <1>t, <2>1
    <2>4. QED BY <1>0, <1>t, <2>1, <2>2, <2>3, MoveKeeps
  <1>6. CASE Create(t)
    BY <1>6, CreateKeeps
  <1>7. CASE EndPause(t)
    <2>1. Moves(t, "done") /\ sampling' = sampling /\ daq' = daq /\ cb' = cb
      BY <1>7 DEF EndPause, Moves
    <2>2. made > 0 /\ "done" \notin Mid
      BY <1>7 DEF EndPause, SInv, Created, Past, Mid
    <2>3. QED BY <1>0, <1>t, <2>1, <2>2, MoveKeeps
  <1>8. QED BY <1>1, <1>2, <1>3, <1>4, <1>5, <1>6, <1>7 DEF Initialise

\* A step that moves no task past the flag and creates nothing.
LEMMA UseKeeps ==
  ASSUME SInv, UNCHANGED <<pc, daq, flag, queue, made, sampling, cb>>,
         events' \in [Queues -> 0..MaxEvents],
         fsm' \in Seq(Queues \cup {NoQueue}), Len(fsm') = Len(fsm),
         \A i \in 1..Len(fsm) : fsm'[i] \in {fsm[i], NoQueue, queue},
         early' \subseteq {"network", "sensor", "fsmTask", "callback"},
         early' \cap {"network", "fsmTask"} = {}
  PROVE  SInv'
  <1>1. Typed'
    BY DEF SInv, Typed
  <1>2. Created'
    BY DEF SInv, Created
  <1>3. Newest'
    <2> SUFFICES ASSUME made > 0 PROVE fsm'[made] \in {NoQueue, queue}
      BY DEF Newest
    <2>1. made \in 1..Len(fsm) /\ fsm[made] \in {NoQueue, queue}
      BY DEF SInv, Created, Newest
    <2>2. QED BY <2>1
  <1>4. QueueInTime'
    BY DEF QueueInTime
  <1>5. QED BY <1>1, <1>2, <1>3, <1>4 DEF SInv

\* Sending to the queue: refused when it is full, and early when there is none.
LEMMA SendFacts ==
  ASSUME SInv, NEW who \in {"network", "sensor"}, Send(who)
  PROVE  /\ events' \in [Queues -> 0..MaxEvents]
         /\ early' \subseteq {"network", "sensor", "fsmTask", "callback"}
         /\ early' \cap {"network", "fsmTask"} \subseteq {who} \cap {"network"}
         /\ made > 0 => early' = early
  <1>1. /\ events \in [Queues -> 0..MaxEvents] /\ queue \in Queues \cup {NoQueue}
        /\ early \subseteq {"network", "sensor", "fsmTask", "callback"}
        /\ early \cap {"network", "fsmTask"} = {}
        /\ queue = made /\ made \in 0..2
    BY DEF SInv, Typed, QueueInTime, Created
  <1>2. CASE queue = NoQueue
    <2>1. early' = early \cup {who} /\ events' = events
      BY <1>2 DEF Send
    <2>2. made = 0 /\ events' \in [Queues -> 0..MaxEvents]
      BY <1>1, <1>2, <2>1 DEF NoQueue
    <2>3. early' \subseteq {"network", "sensor", "fsmTask", "callback"}
      BY <1>1, <2>1
    <2>4. early' \cap {"network", "fsmTask"} \subseteq {who} \cap {"network"}
      <3>1. "sensor" \notin {"network", "fsmTask"} /\ "network" # "fsmTask"
        OBVIOUS
      <3>2. CASE who = "network"
        BY <1>1, <2>1, <3>1, <3>2
      <3>3. CASE who = "sensor"
        BY <1>1, <2>1, <3>1, <3>3
      <3>4. QED BY <3>2, <3>3
    <2>5. QED BY <2>2, <2>3, <2>4
  <1>3. CASE queue # NoQueue
    <2>1. early' = early /\ queue \in Queues
      BY <1>1, <1>3 DEF Send
    <2>2. events' = [events EXCEPT ![queue] = IF @ < MaxEvents THEN @ + 1 ELSE @]
      BY <1>3 DEF Send
    <2>3. events[queue] \in 0..MaxEvents /\ MaxEvents \in Nat
      BY <1>1, <2>1, StartUpAssumption
    <2>4. (IF events[queue] < MaxEvents THEN events[queue] + 1 ELSE events[queue]) \in 0..MaxEvents
      BY <2>3
    <2>5. QED BY <1>1, <2>1, <2>2, <2>4
  <1>4. QED BY <1>2, <1>3

LEMMA InvKept == SInv /\ [Next]_startVars => SInv'
  <1> SUFFICES ASSUME SInv, [Next]_startVars PROVE SInv'
    OBVIOUS
  <1>t. /\ pc \in [Initialisers -> Places] /\ daq \in {"none", "starting", "ready"}
        /\ flag \in BOOLEAN /\ sampling \in BOOLEAN /\ cb \subseteq {"callback", "instance"}
        /\ queue \in Queues \cup {NoQueue} /\ events \in [Queues -> 0..MaxEvents]
        /\ fsm \in Seq(Queues \cup {NoQueue}) /\ Len(fsm) \in Nat
        /\ early \subseteq {"network", "sensor", "fsmTask", "callback"}
        /\ early \cap {"network", "fsmTask"} = {}
    BY LenProperties DEF SInv, Typed, QueueInTime
  <1>i. "comTask" \in Initialisers /\ "network" \in Initialisers
    BY DEF Initialisers
  <1>p. /\ "comm" \in Places /\ "run" \in Places /\ "daq" \in Places /\ "idle" \in Places
        /\ "deaf" \in Places
        /\ {"comm", "run", "daq", "idle", "deaf"} \cap Mid = {}
        /\ {"comm", "daq", "idle", "deaf"} \cap Past = {}
    BY DEF Places, Mid, Past
  <1> USE DEF At, Goto
  <1>1. CASE CreateSensors
    <2>1. Moves("comTask", "comm") /\ sampling' = TRUE /\ daq' = daq /\ cb' = cb
      BY <1>1 DEF CreateSensors, Moves
    <2>2. sampling' \in BOOLEAN
      BY <2>1, Zenon
    <2>3. QED BY <1>t, <1>i, <1>p, <2>1, <2>2, MoveKeeps
  <1>2. CASE CreateNetwork
    <2>1. PICK link \in {"idle", "deaf"} :
            pc' = [pc EXCEPT !["comTask"] = "daq", !["network"] = link]
      BY <1>2 DEF CreateNetwork
    <2>2. UNCHANGED <<daq, flag, queue, made, events, fsm, sampling, cb, early>>
      BY <1>2 DEF CreateNetwork
    <2>3. /\ pc' \in [Initialisers -> Places]
          /\ \A u \in Initialisers : pc'[u] \in {"daq", "idle", "deaf"}
      BY <1>t, <1>p, <2>1 DEF Initialisers
    <2>4. Typed'
      BY <2>2, <2>3 DEF SInv, Typed
    <2>5. \A u \in Initialisers : pc'[u] \notin Mid /\ pc'[u] \notin Past
      BY <1>p, <2>3
    <2>6. Created'
      BY <1>i, <2>2, <2>5 DEF SInv, Created
    <2>7. Newest' /\ QueueInTime'
      BY <2>2 DEF SInv, Newest, QueueInTime
    <2>8. QED BY <2>4, <2>6, <2>7 DEF SInv
  <1>3. ASSUME NEW t \in Initialisers, Initialise(t) PROVE SInv'
    BY <1>3, InitialiseKeeps
  <1>4. CASE StartLoop
    <2>1. Moves("comTask", "run") /\ sampling' = sampling /\ daq' = daq /\ cb' = cb
      BY <1>4 DEF StartLoop, Moves
    <2>2. made > 0
      BY <1>4, <1>i DEF StartLoop, SInv, Created, Past
    <2>3. QED BY <1>t, <1>i, <1>p, <2>1, <2>2, MoveKeeps
  <1>5. CASE Request
    <2>1. Moves("network", "daq") /\ sampling' = sampling /\ daq' = daq /\ cb' = cb
      BY <1>5 DEF Request, Moves
    <2>2. QED BY <1>t, <1>i, <1>p, <2>1, MoveKeeps
  <1>6. ASSUME NEW sends \in BOOLEAN, Reply(sends) PROVE SInv'
    <2>1. made > 0
      BY <1>6, <1>i DEF Reply, SInv, Created, Past
    <2>2. /\ pc' = [pc EXCEPT !["network"] = "idle"]
          /\ UNCHANGED <<daq, flag, queue, made, fsm, sampling, cb>>
      BY <1>6 DEF Reply
    <2>3. events' \in [Queues -> 0..MaxEvents] /\ early' = early
      <3>1. CASE sends
        BY <1>6, <2>1, <3>1, SendFacts DEF Reply
      <3>2. CASE ~sends
        BY <1>t, <1>6, <3>2 DEF Reply
      <3>3. QED BY <3>1, <3>2
    <2>4. /\ pc'["network"] = "idle" /\ pc'["comTask"] = pc["comTask"]
          /\ pc' \in [Initialisers -> Places]
      BY <1>t, <1>i, <1>p, <2>2 DEF Initialisers
    <2>5. Typed'
      BY <1>t, <2>2, <2>3, <2>4 DEF SInv, Typed
    <2>6. Created'
      <3>1. \A u \in Initialisers : pc'[u] \in Past => made > 0
        BY <2>1
      <3>2. pc'["network"] \notin Mid
        BY <1>p, <2>4
      <3>3. QED BY <2>2, <2>4, <3>1, <3>2 DEF SInv, Created
    <2>7. Newest' /\ QueueInTime'
      BY <2>2, <2>3 DEF SInv, Newest, QueueInTime
    <2>8. QED BY <2>5, <2>6, <2>7 DEF SInv
  <1>7. CASE SensorChange
    <2>1. UNCHANGED <<pc, daq, flag, queue, made, fsm, sampling, cb>>
      BY <1>7 DEF SensorChange
    <2>2. /\ events' \in [Queues -> 0..MaxEvents]
          /\ early' \subseteq {"network", "sensor", "fsmTask", "callback"}
          /\ early' \cap {"network", "fsmTask"} = {}
      <3>1. CASE cb = {}
        BY <1>t, <1>7, <3>1 DEF SensorChange
      <3>2. CASE cb # {} /\ "instance" \in cb
        BY <1>7, <3>2, SendFacts DEF SensorChange
      <3>3. CASE cb # {} /\ "instance" \notin cb
        BY <1>t, <1>7, <3>3 DEF SensorChange
      <3>4. QED BY <3>1, <3>2, <3>3
    <2>3. \A i \in 1..Len(fsm) : fsm'[i] \in {fsm[i], NoQueue, queue}
      BY <2>1
    <2>4. QED BY <1>t, <2>1, <2>2, <2>3, UseKeeps
  <1>8. ASSUME NEW i \in Queues, Await(i) PROVE SInv'
    <2>1. /\ i \in 1..Len(fsm) /\ fsm' = [fsm EXCEPT ![i] = queue]
          /\ UNCHANGED <<pc, daq, flag, queue, made, events, sampling, cb>>
      BY <1>8 DEF Await
    <2>2. queue # NoQueue
      BY <2>1 DEF SInv, Created, NoQueue
    <2>3. early' = early
      BY <1>8, <2>2 DEF Await
    <2>4. /\ fsm' \in Seq(Queues \cup {NoQueue}) /\ Len(fsm') = Len(fsm)
          /\ \A j \in 1..Len(fsm) : fsm'[j] = IF j = i THEN queue ELSE fsm[j]
      BY <1>t, <2>1, ExceptSeq
    <2>5. QED BY <1>t, <2>1, <2>3, <2>4, UseKeeps
  <1>9. ASSUME NEW i \in Queues, Handle(i) PROVE SInv'
    <2>1. /\ i \in 1..Len(fsm) /\ fsm[i] # NoQueue /\ events[fsm[i]] > 0
          /\ fsm' = [fsm EXCEPT ![i] = NoQueue]
          /\ events' = [events EXCEPT ![fsm[i]] = @ - 1]
          /\ UNCHANGED <<pc, daq, flag, queue, made, sampling, cb, early>>
      BY <1>9 DEF Handle
    <2>2. fsm[i] \in Queues
      BY <1>t, <2>1, ElementOfSeq
    <2>3. events[fsm[i]] - 1 \in 0..MaxEvents
      <3>1. events[fsm[i]] \in 0..MaxEvents /\ MaxEvents \in Nat
        BY <1>t, <2>2, StartUpAssumption
      <3>2. \A n \in 0..MaxEvents : n > 0 => n - 1 \in 0..MaxEvents
        BY <3>1
      <3>3. events[fsm[i]] > 0
        BY <2>1
      <3>4. QED BY <3>1, <3>2, <3>3
    <2>4. events' \in [Queues -> 0..MaxEvents]
      BY <1>t, <2>1, <2>2, <2>3
    <2>5. /\ fsm' \in Seq(Queues \cup {NoQueue}) /\ Len(fsm') = Len(fsm)
          /\ \A j \in 1..Len(fsm) : fsm'[j] = IF j = i THEN NoQueue ELSE fsm[j]
      BY <1>t, <2>1, ExceptSeq
    <2>6. QED BY <1>t, <2>1, <2>4, <2>5, UseKeeps
  <1>10. CASE UNCHANGED startVars
    BY <1>t, <1>10, UseKeeps DEF startVars
  <1>11. QED
    BY <1>1, <1>2, <1>3, <1>4, <1>5, <1>6, <1>7, <1>8, <1>9, <1>10, <1>i
       DEF Next, FsmTask, ComTask, Network

LEMMA InvAlways == Spec => []SInv
  BY InitInv, InvKept, PTL DEF Spec

\* Every variable holds a value of its type, and the state machine is created at most
\* twice, however comTask, the network task, the sensors and the fsmTask take turns.
THEOREM TypeCorrect == Spec => []TypeOK
  <1>1. SInv => TypeOK
    BY DEF SInv, Typed, Created, TypeOK
  <1>2. QED BY <1>1, InvAlways, PTL

\* The network task and the fsmTask never use the event queue before it exists
\* (BLL_MainFsm.c:122-135, BLL_Modbus.c:430-431).
THEOREM QueueIsInTime == Spec => []QueueInTime
  <1>1. SInv => QueueInTime
    BY DEF SInv
  <1>2. QED BY <1>1, InvAlways, PTL

\* Events go to the queue that the fsmTask created last reads, even when both tasks
\* have created one (BLL_MainFsm.c:122-135).
THEOREM NewestIsServed == Spec => []NewestServed
  <1>1. SInv => NewestServed
    BY DEF SInv, Created, Newest, NewestServed
  <1>2. QED BY <1>1, InvAlways, PTL
==============================================================================
