------------------------ MODULE ModbusBuffers_proofs ------------------------
(***************************************************************************)
(* The two buffers of BLL_Modbus.c that the network task and the fsmTask   *)
(* share without a lock: the coils (Part 1, module CoilMirror) for any     *)
(* valves, blocks and queue, and the holding registers (Part 2, module     *)
(* ParaTransfer) for any parameters, requests and queue.  The two          *)
(* have no variable in common and are never assumed together.              *)
(***************************************************************************)
EXTENDS CoilMirror, ParaTransfer, TLAPS, SequenceTheorems

(***************************************************************************)
(* Part 1.  The coils.                                                     *)
(*                                                                         *)
(* Two observations carry the proofs.  What the network task has loaded    *)
(* belongs to the two bytes of its request, so that a write of the command *)
(* coils never disturbs a valve.  And the fsmTask writes valve coils only, *)
(* so that of the command coils the loaded bytes are never stale.          *)
(***************************************************************************)

Commands == {Start, Stop}

\* The network task is idle exactly when it has no request; what it has loaded
\* belongs to the bytes of the request and is gone when they are stored.
Loaded ==
  /\ pc = "idle" <=> req = None
  /\ low \subseteq Byte(ByteAt(req)) /\ high \subseteq Byte(ByteAt(req) + 1)
  /\ pc \in {"idle", "loadLow", "react"} => low = {} /\ high = {}

\* A command coil that the running request does not write stands for the last
\* command, and has not changed since the network task loaded it.
CommandsKept ==
  \A c \in Commands \ Masked(req, 0) :
    /\ c \in image => last \in {0, c}
    /\ c \in low \cup high => c \in image

CoilInv == TypeOK /\ Loaded /\ DifferenceExplained /\ CommandsKept
(***************************************************************************)
(* Coils, requests and masks.                                              *)
(***************************************************************************)

\* The command coils lie beyond all valve coils.
LEMMA CoilNumbers ==
  /\ Start = 32 /\ Stop = 33 /\ Commands = {32, 33}
  /\ Valves \subseteq 0..21 /\ Coils = Valves \cup Commands /\ Coils \subseteq Nat
  /\ Commands \cap Valves = {}
<1>1. Start = 32 /\ Stop = 33 /\ Commands = {32, 33}
  BY DEF Start, Stop, Commands
<1>2. Valves \subseteq 0..21
  BY CoilAssumption
<1>3. Coils = Valves \cup Commands
  BY DEF Coils, Commands
<1>4. Coils \subseteq Nat /\ Commands \cap Valves = {}
  BY <1>1, <1>2, <1>3
<1>5. QED
  BY <1>1, <1>2, <1>3, <1>4

\* A request has numbers within the buffer; a request for one coil is for a coil
\* in use.
LEMMA RequestNumbers ==
  ASSUME NEW r \in Singles \cup Multiple
  PROVE  /\ r.off \in Nat /\ r.n \in 1..36 /\ r # None
         /\ r.n = 1 => r.off \in Coils
<1>1. CASE r \in Singles
  <2>1. r.off \in Coils /\ r.n = 1
    BY <1>1 DEF Singles
  <2>2. r # None
    BY <2>1 DEF None
  <2>3. r.off \in Nat
    BY <2>1, CoilNumbers
  <2>4. QED
    BY <2>1, <2>2, <2>3
<1>2. CASE r \in Multiple
  <2>1. PICK b \in Blocks :
          r \in [off : {b[1]}, n : {b[2]},
                 on : SUBSET {c - b[1] : c \in Coils \cap b[1]..(b[1] + b[2] - 1)}]
    BY <1>2 DEF Multiple
  <2>2. r.off = b[1] /\ r.n = b[2]
    BY <2>1
  <2>3. b[1] \in 0..35 /\ b[2] \in 2..36
    BY CoilAssumption
  <2>4. None.n = 0
    BY DEF None
  <2>5. QED
    BY <2>2, <2>3, <2>4
<1>3. QED
  BY <1>1, <1>2

\* What an access of the network task loads belongs to its byte, and outside the
\* coils of the request it is what the buffer held.
LEMMA LoadedBytes ==
  ASSUME NEW r \in Singles \cup Multiple, NEW i \in Nat
  PROVE  /\ Masked(r, i) \subseteq Masked(r, 0)
         /\ \A byte \in SUBSET Byte(ByteAt(r)) :
              /\ Changed(byte, r, i) \subseteq Byte(ByteAt(r))
              /\ Changed(byte, r, i) \ Masked(r, 0) \subseteq byte
         /\ \A byte \in SUBSET Byte(ByteAt(r) + 1) :
              /\ ChangedNext(byte, r, i) \subseteq Byte(ByteAt(r) + 1)
              /\ ChangedNext(byte, r, i) \ Masked(r, 0) \subseteq byte
<1>1. r.off \in Nat /\ r.n \in 1..36
  BY RequestNumbers
<1>2. Width(r, i) \in Int /\ Width(r, 0) \in Int /\ Width(r, i) <= Width(r, 0)
  BY <1>1 DEF Width
<1>3. Masked(r, i) \subseteq Masked(r, 0)
  <2>1. r.off..(r.off + Width(r, i) - 1) \subseteq r.off..(r.off + Width(r, 0) - 1)
    BY <1>1, <1>2
  <2>2. QED
    BY <2>1 DEF Masked
<1>4. Written(r, i) \subseteq Masked(r, i)
  BY DEF Written
<1>5. QED
  BY <1>3, <1>4 DEF Changed, ChangedNext

\* Without a request nothing is written.
LEMMA NoRequest == Masked(None, 0) = {}
<1>1. Width(None, 0) = 0 /\ None.off = 0
  BY DEF Width, None
<1>2. None.off..(None.off + Width(None, 0) - 1) = {}
  BY <1>1
<1>3. QED
  BY <1>2 DEF Masked

\* The two bytes of a request for a command coil hold no valve coil.
LEMMA CommandBytes ==
  ASSUME NEW r, r.off \in Commands
  PROVE  (Byte(ByteAt(r)) \cup Byte(ByteAt(r) + 1)) \cap Valves = {}
<1>1. ByteAt(r) = 4
  <2>1. r.off = 32 \/ r.off = 33
    BY CoilNumbers
  <2>2. 32 \div 8 = 4 /\ 33 \div 8 = 4
    OBVIOUS
  <2>3. QED
    BY <2>1, <2>2 DEF ByteAt
<1>2. ASSUME NEW v \in Valves PROVE v \div 8 # 4 /\ v \div 8 # 5
  <2>1. v \in 0..21
    BY CoilNumbers
  <2>2. QED
    BY <2>1
<1>3. QED
  BY <1>1, <1>2 DEF Byte

(***************************************************************************)
(* The fsmTask.                                                            *)
(***************************************************************************)

\* Setting a valve shows all outputs and leaves the command coils alone.
LEMMA OutputsShown ==
  ASSUME CoilInv, NEW valves \in SUBSET Valves, SetOutputs(valves),
         UNCHANGED <<req, low, high, last>>
  PROVE  /\ Shown' /\ CommandsKept' /\ image' \subseteq Coils
         /\ out' \subseteq Valves /\ unheard' = FALSE
<1>1. image' = (image \ Valves) \cup valves /\ out' = valves /\ unheard' = FALSE
  BY DEF SetOutputs, Show
<1>2. \A c \in Commands : c \in image' <=> c \in image
  BY <1>1, CoilNumbers
<1>3. Shown'
  BY <1>1 DEF Shown
<1>4. CommandsKept'
  BY <1>2 DEF CoilInv, CommandsKept
<1>5. image' \subseteq Coils
  BY <1>1, CoilNumbers DEF CoilInv, TypeOK
<1>6. QED
  BY <1>1, <1>3, <1>4, <1>5

LEMMA FsmTaskKeeps ==
  ASSUME CoilInv, FsmTask
  PROVE  CoilInv'
<1>1. /\ UNCHANGED netVars /\ UNCHANGED last /\ UNCHANGED <<req, pc, chunk, low, high>>
  BY DEF FsmTask, SetValve, SetSingleV, ChangeMode, SetOutputs, netVars
<1>2. Loaded'
  BY <1>1 DEF CoilInv, Loaded
<1>3. \A v \in Valves, on \in BOOLEAN : With(v, on) \in SUBSET Valves
  BY DEF With, CoilInv, TypeOK
<1>4. ASSUME NEW v \in Valves, NEW on \in BOOLEAN, SetValve(v, on)
      PROVE  CoilInv'
  <2>1. With(v, on) \in SUBSET Valves /\ SetOutputs(With(v, on)) /\ UNCHANGED <<manual, q>>
    BY <1>3, <1>4 DEF SetValve
  <2>2. /\ Shown' /\ CommandsKept' /\ image' \subseteq Coils
        /\ out' \subseteq Valves /\ unheard' = FALSE
    BY <1>1, <2>1, OutputsShown
  <2>3. TypeOK'
    BY <1>1, <2>1, <2>2 DEF CoilInv, TypeOK
  <2>4. QED
    BY <1>2, <2>2, <2>3 DEF CoilInv, DifferenceExplained
<1>5. CASE SetSingleV
  <2>1. q # <<>> /\ q' = Tail(q) /\ UNCHANGED manual
    BY <1>5 DEF SetSingleV
  <2>2. q \in Seq([v : Valves, on : BOOLEAN]) /\ Len(q) <= QueueLen /\ QueueLen \in Nat
    BY CoilAssumption DEF CoilInv, TypeOK
  <2>3. Head(q).v \in Valves /\ Head(q).on \in BOOLEAN
    <3>1. Head(q) \in [v : Valves, on : BOOLEAN]
      BY <2>1, <2>2, HeadTailProperties
    <3>2. QED
      BY <3>1
  <2>4. q' \in Seq([v : Valves, on : BOOLEAN]) /\ Len(q') <= QueueLen
    BY <2>1, <2>2
  <2>5. CASE \E valves \in SUBSET Valves : SetOutputs(valves)
    <3>1. /\ Shown' /\ CommandsKept' /\ image' \subseteq Coils
          /\ out' \subseteq Valves /\ unheard' = FALSE
      BY <1>1, <2>5, OutputsShown
    <3>2. TypeOK'
      BY <1>1, <2>1, <2>4, <3>1 DEF CoilInv, TypeOK
    <3>3. QED
      BY <1>2, <3>1, <3>2 DEF CoilInv, DifferenceExplained
  <2>6. CASE unheard' = TRUE /\ UNCHANGED <<out, image>>
    <3>1. TypeOK'
      BY <1>1, <2>1, <2>4, <2>6 DEF CoilInv, TypeOK
    <3>2. CommandsKept'
      BY <1>1, <2>6 DEF CoilInv, CommandsKept
    <3>3. QED
      BY <1>2, <2>6, <3>1, <3>2 DEF CoilInv, DifferenceExplained
  <2>7. out \in SUBSET Valves
    BY DEF CoilInv, TypeOK
  <2>8. QED
    BY <1>3, <1>5, <2>3, <2>5, <2>6, <2>7 DEF SetSingleV
<1>6. CASE ChangeMode
  <2>1. UNCHANGED <<out, image, q, unheard>> /\ manual' = ~manual
    BY <1>6 DEF ChangeMode
  <2>2. TypeOK'
    BY <1>1, <2>1 DEF CoilInv, TypeOK
  <2>3. CommandsKept' /\ DifferenceExplained'
    BY <1>1, <2>1 DEF CoilInv, CommandsKept, DifferenceExplained, Shown, ValveWrite
  <2>4. QED
    BY <1>2, <2>2, <2>3 DEF CoilInv
<1>7. QED
  BY <1>4, <1>5, <1>6 DEF FsmTask
(***************************************************************************)
(* The network task.                                                       *)
(***************************************************************************)

\* While a request is worked on, its numbers are those of a request.
LEMMA Working ==
  ASSUME CoilInv, pc # "idle"
  PROVE  req \in Singles \cup Multiple
BY DEF CoilInv, Loaded, TypeOK

\* A step of the network task that neither touches the buffer nor the queue keeps
\* the explanation of a difference.
LEMMA StillExplained ==
  ASSUME CoilInv, UNCHANGED <<out, image, q, unheard>>, UNCHANGED req \/ req = None
  PROVE  DifferenceExplained'
<1>1. ValveWrite => UNCHANGED req
  BY DEF ValveWrite
<1>2. ValveWrite => ValveWrite'
  BY <1>1 DEF ValveWrite
<1>3. Shown => Shown'
  BY DEF Shown
<1>4. QED
  BY <1>2, <1>3 DEF CoilInv, DifferenceExplained

LEMMA RequestKeeps ==
  ASSUME CoilInv, Request
  PROVE  CoilInv'
<1>1. /\ pc = "idle" /\ req' \in Singles \cup Multiple /\ pc' = "loadLow" /\ chunk' = 0
      /\ UNCHANGED <<out, manual, low, high, image, q, unheard, last>>
  BY DEF Request, fsmVars
<1>2. req = None /\ low = {} /\ high = {} /\ req' # None
  BY <1>1, RequestNumbers DEF CoilInv, Loaded
<1>3. TypeOK'
  BY <1>1 DEF CoilInv, TypeOK
<1>4. Loaded'
  BY <1>1, <1>2 DEF Loaded
<1>5. DifferenceExplained'
  BY <1>1, <1>2, StillExplained
<1>6. CommandsKept'
  <2>1. \A c \in Commands : c \in image => last \in {0, c}
    BY <1>2, NoRequest DEF CoilInv, CommandsKept
  <2>2. QED
    BY <1>1, <1>2, <2>1 DEF CommandsKept
<1>7. QED
  BY <1>3, <1>4, <1>5, <1>6 DEF CoilInv

LEMMA LoadKeeps ==
  ASSUME CoilInv, LoadLow \/ LoadHigh
  PROVE  CoilInv'
<1>1. req \in Singles \cup Multiple /\ chunk \in Nat
  BY Working DEF LoadLow, LoadHigh, CoilInv, TypeOK
<1>2. UNCHANGED <<out, manual, req, chunk, image, q, unheard, last>>
  BY DEF LoadLow, LoadHigh, fsmVars
<1>3. req # None /\ pc' \in {"loadHigh", "storeLow"}
  BY <1>1, RequestNumbers DEF LoadLow, LoadHigh
<1>4. DifferenceExplained'
  BY <1>2, StillExplained
<1>5. \/ /\ low' \subseteq Byte(ByteAt(req)) /\ low' \ Masked(req, 0) \subseteq image
         /\ UNCHANGED high
      \/ /\ high' \subseteq Byte(ByteAt(req) + 1) /\ high' \ Masked(req, 0) \subseteq image
         /\ UNCHANGED low
  <2>1. CASE LoadLow
    <3>1. low' = Changed(image \cap Byte(ByteAt(req)), req, chunk) /\ UNCHANGED high
      BY <2>1 DEF LoadLow
    <3>2. QED
      BY <1>1, <3>1, LoadedBytes
  <2>2. CASE LoadHigh
    <3>1. high' = ChangedNext(image \cap Byte(ByteAt(req) + 1), req, chunk) /\ UNCHANGED low
      BY <2>2 DEF LoadHigh
    <3>2. QED
      BY <1>1, <3>1, LoadedBytes
  <2>3. QED
    BY <2>1, <2>2
<1>6. low' \subseteq Byte(ByteAt(req)) /\ high' \subseteq Byte(ByteAt(req) + 1)
  BY <1>5 DEF CoilInv, Loaded
<1>7. Loaded'
  BY <1>2, <1>3, <1>6 DEF Loaded
<1>8. CommandsKept'
  BY <1>2, <1>5 DEF CoilInv, CommandsKept
<1>9. TypeOK'
  <2>1. low' \subseteq Coils /\ high' \subseteq Coils
    BY <1>6 DEF Byte
  <2>2. QED
    BY <1>2, <1>3, <2>1 DEF CoilInv, TypeOK
<1>10. QED
  BY <1>4, <1>7, <1>8, <1>9 DEF CoilInv

\* The bytes of a request hold a valve coil, or storing them changes none.
LEMMA StoredByte ==
  ASSUME CoilInv, NEW k, NEW byte \in SUBSET Byte(k),
         Byte(k) \subseteq Byte(ByteAt(req)) \cup Byte(ByteAt(req) + 1),
         req # None, image' = (image \ Byte(k)) \cup byte, UNCHANGED <<out, req, q, unheard>>
  PROVE  DifferenceExplained'
<1>1. CASE Byte(k) \cap Valves = {}
  <2>1. image' \cap Valves = image \cap Valves
    BY <1>1
  <2>2. Shown => Shown'
    BY <2>1 DEF Shown
  <2>3. ValveWrite => ValveWrite'
    BY DEF ValveWrite
  <2>4. QED
    BY <2>2, <2>3 DEF CoilInv, DifferenceExplained
<1>2. CASE Byte(k) \cap Valves # {}
  <2>1. ValveWrite'
    BY <1>2 DEF ValveWrite
  <2>2. QED
    BY <2>1 DEF DifferenceExplained
<1>3. QED
  BY <1>1, <1>2

LEMMA StoreLowKeeps ==
  ASSUME CoilInv, StoreLow
  PROVE  CoilInv'
<1>1. /\ pc = "storeLow" /\ pc' = "storeHigh"
      /\ image' = (image \ Byte(ByteAt(req))) \cup low
      /\ UNCHANGED <<out, manual, req, chunk, low, high, q, unheard, last>>
  BY DEF StoreLow, fsmVars
<1>2. req \in Singles \cup Multiple /\ req # None
  BY <1>1, Working, RequestNumbers
<1>3. low \subseteq Byte(ByteAt(req)) /\ high \subseteq Byte(ByteAt(req) + 1)
  BY DEF CoilInv, Loaded
<1>4. DifferenceExplained'
  BY <1>1, <1>2, <1>3, StoredByte
<1>5. Loaded'
  BY <1>1, <1>2, <1>3 DEF Loaded
<1>6. TypeOK'
  BY <1>1 DEF CoilInv, TypeOK
<1>7. CommandsKept'
  <2>1. Byte(ByteAt(req)) \cap Byte(ByteAt(req) + 1) = {}
    <3>1. ByteAt(req) \in Nat
      BY <1>2, RequestNumbers DEF ByteAt
    <3>2. QED
      BY <3>1 DEF Byte
  <2>2. ASSUME NEW c \in Commands, c \notin Masked(req, 0)
        PROVE  /\ c \in image' => last \in {0, c}
               /\ c \in low \cup high => c \in image'
    <3>1. /\ c \in image => last \in {0, c}
          /\ c \in low \cup high => c \in image
      BY <2>2 DEF CoilInv, CommandsKept
    <3>2. QED
      BY <1>1, <1>3, <2>1, <3>1
  <2>3. QED
    BY <1>1, <2>2 DEF CommandsKept
<1>8. QED
  BY <1>4, <1>5, <1>6, <1>7 DEF CoilInv

LEMMA StoreHighKeeps ==
  ASSUME CoilInv, StoreHigh
  PROVE  CoilInv'
<1>1. /\ pc = "storeHigh" /\ low' = {} /\ high' = {}
      /\ image' = (image \ Byte(ByteAt(req) + 1)) \cup high
      /\ UNCHANGED <<out, manual, req, q, unheard, last>>
      /\ \/ req.n > 8 * (chunk + 1) /\ pc' = "loadLow" /\ chunk' = chunk + 1
         \/ pc' = "react" /\ UNCHANGED chunk
  BY DEF StoreHigh, fsmVars
<1>2. req \in Singles \cup Multiple /\ req # None /\ req.n \in 1..36
  BY <1>1, Working, RequestNumbers
<1>3. high \subseteq Byte(ByteAt(req) + 1)
  BY DEF CoilInv, Loaded
<1>4. DifferenceExplained'
  BY <1>1, <1>2, <1>3, StoredByte
<1>5. Loaded'
  BY <1>1, <1>2 DEF Loaded
<1>6. TypeOK'
  <2>1. chunk' \in 0..4 /\ pc' \in {"loadLow", "react"}
    <3>1. chunk \in 0..4
      BY DEF CoilInv, TypeOK
    <3>2. ASSUME req.n > 8 * (chunk + 1) PROVE chunk + 1 \in 0..4
      BY <1>2, <3>1, <3>2
    <3>3. QED
      BY <1>1, <3>1, <3>2
  <2>2. QED
    BY <1>1, <2>1 DEF CoilInv, TypeOK
<1>7. CommandsKept'
  <2>1. ASSUME NEW c \in Commands, c \notin Masked(req, 0)
        PROVE  c \in image' => last \in {0, c}
    <3>1. /\ c \in image => last \in {0, c}
          /\ c \in high => c \in image
      BY <2>1 DEF CoilInv, CommandsKept
    <3>2. QED
      BY <1>1, <3>1
  <2>2. QED
    BY <1>1, <2>1 DEF CommandsKept
<1>8. QED
  BY <1>4, <1>5, <1>6, <1>7 DEF CoilInv
\* A single command coil: the other one is cleared, the valves are left alone.
LEMMA CommandKeeps ==
  ASSUME CoilInv, pc = "react", Finish, NEW c \in Commands, NEW other \in Commands \ {c},
         req.n = 1, req.off = c, Commanded(c, other),
         UNCHANGED <<out, manual, low, high, q, unheard>>
  PROVE  CoilInv'
<1>1. req \in Singles \cup Multiple /\ pc' = "idle" /\ req' = None /\ chunk' = 0
  BY Working DEF Finish
<1>2. low = {} /\ high = {}
  BY DEF CoilInv, Loaded
<1>3. Commands = {c, other} /\ other # c
  BY CoilNumbers
<1>4. \/ c \in image /\ image' = image \ {other} /\ last' = c
      \/ c \notin image /\ UNCHANGED <<image, last>>
  BY DEF Commanded
<1>5. Masked(req, 0) \subseteq {c}
  <2>1. Width(req, 0) = 1
    BY DEF Width
  <2>2. req.off..(req.off + Width(req, 0) - 1) = {c}
    BY <2>1, CoilNumbers
  <2>3. QED
    BY <2>2 DEF Masked
<1>6. other \in image => last \in {0, other}
  BY <1>3, <1>5 DEF CoilInv, CommandsKept
<1>7. CommandsKept'
  <2>1. \A d \in Commands : d \in image' => last' \in {0, d}
    BY <1>3, <1>4, <1>6
  <2>2. QED
    BY <1>2, <2>1 DEF CommandsKept
<1>8. TypeOK'
  <2>1. image' \subseteq Coils /\ last' \in {0, Start, Stop}
    BY <1>3, <1>4 DEF CoilInv, TypeOK, Commands
  <2>2. req' \in Singles \cup Multiple \cup {None} /\ pc' = "idle" /\ chunk' \in 0..4
    BY <1>1
  <2>3. QED
    BY <2>1, <2>2 DEF CoilInv, TypeOK
<1>9. Loaded'
  BY <1>1, <1>2 DEF Loaded
<1>10. DifferenceExplained'
  <2>1. ~ValveWrite
    BY CommandBytes DEF ValveWrite
  <2>2. Shown => Shown'
    BY <1>4, CoilNumbers DEF Shown
  <2>3. QED
    BY <2>1, <2>2 DEF CoilInv, DifferenceExplained
<1>11. QED
  BY <1>7, <1>8, <1>9, <1>10 DEF CoilInv

LEMMA ReactKeeps ==
  ASSUME CoilInv, React
  PROVE  CoilInv'
<1>1. /\ pc = "react" /\ Finish /\ pc' = "idle" /\ req' = None /\ chunk' = 0
      /\ UNCHANGED <<out, manual, low, high>>
  BY DEF React, Finish, fsmVars
<1>2. req \in Singles \cup Multiple /\ req.off \in Nat
  BY <1>1, Working, RequestNumbers
<1>3. low = {} /\ high = {} /\ Loaded'
  BY <1>1 DEF CoilInv, Loaded
<1>4. CASE req.n = 1 /\ req.off = Start /\ Commanded(Start, Stop) /\ UNCHANGED <<q, unheard>>
  BY <1>1, <1>4, CommandKeeps, CoilNumbers
<1>5. CASE req.n = 1 /\ req.off = Stop /\ Commanded(Stop, Start) /\ UNCHANGED <<q, unheard>>
  BY <1>1, <1>5, CommandKeeps, CoilNumbers
<1>6. CASE req.n = 1 /\ req.off \in Valves /\ PostValve(req.off) /\ UNCHANGED <<image, last>>
  <2>1. \/ q' = Append(q, [v |-> req.off, on |-> req.off \in image]) /\ Len(q) < QueueLen
           /\ UNCHANGED unheard
        \/ unheard' = TRUE /\ UNCHANGED q
    BY <1>6 DEF PostValve
  <2>2. q \in Seq([v : Valves, on : BOOLEAN]) /\ Len(q) <= QueueLen /\ QueueLen \in Nat
    BY CoilAssumption DEF CoilInv, TypeOK
  <2>3. [v |-> req.off, on |-> req.off \in image] \in [v : Valves, on : BOOLEAN]
    BY <1>6
  <2>4. q' \in Seq([v : Valves, on : BOOLEAN]) /\ Len(q') <= QueueLen
    <3>1. CASE UNCHANGED q
      BY <2>2, <3>1
    <3>2. CASE /\ q' = Append(q, [v |-> req.off, on |-> req.off \in image])
               /\ Len(q) < QueueLen
      <4>1. q' \in Seq([v : Valves, on : BOOLEAN]) /\ Len(q') = Len(q) + 1
        BY <2>2, <2>3, <3>2, AppendProperties
      <4>2. Len(q) \in Nat
        BY <2>2
      <4>3. QED
        BY <2>2, <3>2, <4>1, <4>2
    <3>3. QED
      BY <2>1, <3>1, <3>2
  <2>5. q' # <<>> \/ unheard'
    BY <2>1, <2>2, <2>3, AppendProperties
  <2>6. TypeOK'
    <3>1. unheard' \in BOOLEAN
      BY <2>1 DEF CoilInv, TypeOK
    <3>2. req' \in Singles \cup Multiple \cup {None} /\ pc' = "idle" /\ chunk' \in 0..4
      BY <1>1
    <3>3. QED
      BY <1>1, <1>6, <2>4, <3>1, <3>2 DEF CoilInv, TypeOK
  <2>7. Masked(req, 0) \cap Commands = {}
    <3>1. Width(req, 0) = 1
      BY <1>6 DEF Width
    <3>2. req.off..(req.off + Width(req, 0) - 1) = {req.off}
      BY <1>2, <3>1
    <3>3. QED
      BY <1>6, <3>2, CoilNumbers DEF Masked
  <2>8. CommandsKept'
    BY <1>1, <1>3, <1>6, <2>7 DEF CoilInv, CommandsKept
  <2>9. QED
    BY <1>3, <2>5, <2>6, <2>8 DEF CoilInv, DifferenceExplained
<1>7. CASE req.n > 1 /\ unheard' = TRUE /\ UNCHANGED <<image, q>>
           /\ last' = IF Masked(req, 0) \cap {Start, Stop} # {} THEN 0 ELSE last
  <2>1. last' \in {0, last}
    BY <1>7
  <2>2. TypeOK'
    BY <1>1, <1>7, <2>1 DEF CoilInv, TypeOK
  <2>3. CommandsKept'
    <3>1. \A c \in Commands : c \in image => last' \in {0, c}
      BY <1>7 DEF CoilInv, CommandsKept, Commands
    <3>2. QED
      BY <1>1, <1>3, <1>7, <3>1 DEF CommandsKept
  <2>4. QED
    BY <1>3, <1>7, <2>2, <2>3 DEF CoilInv, DifferenceExplained
<1>8. QED
  BY <1>4, <1>5, <1>6, <1>7 DEF React

(***************************************************************************)
(* The properties.                                                         *)
(***************************************************************************)

LEMMA CoilInvariant == Spec => []CoilInv
<1>1. Init => CoilInv
  <2> SUFFICES ASSUME Init PROVE CoilInv
    OBVIOUS
  <2>1. /\ out = {} /\ image = {} /\ manual = FALSE /\ q = <<>> /\ req = None
        /\ pc = "idle" /\ chunk = 0 /\ low = {} /\ high = {} /\ unheard = FALSE /\ last = 0
    BY DEF Init
  <2>2. TypeOK
    <3>1. q \in Seq([v : Valves, on : BOOLEAN]) /\ Len(q) <= QueueLen
      BY <2>1, CoilAssumption
    <3>2. chunk \in 0..4 /\ last \in {0, Start, Stop} /\ req \in Singles \cup Multiple \cup {None}
      BY <2>1
    <3>3. {manual, unheard} \subseteq BOOLEAN
      BY <2>1
    <3>4. QED
      BY <2>1, <3>1, <3>2, <3>3 DEF TypeOK
  <2>3. Loaded /\ CommandsKept
    BY <2>1 DEF Loaded, CommandsKept
  <2>4. DifferenceExplained
    BY <2>1 DEF DifferenceExplained, Shown
  <2>5. QED
    BY <2>2, <2>3, <2>4 DEF CoilInv
<1>2. CoilInv /\ [Next]_coilVars => CoilInv'
  <2> SUFFICES ASSUME CoilInv, [Next]_coilVars PROVE CoilInv'
    OBVIOUS
  <2>1. CASE FsmTask
    BY <2>1, FsmTaskKeeps
  <2>2. CASE Request
    BY <2>2, RequestKeeps
  <2>3. CASE Write
    BY <2>3, LoadKeeps, StoreLowKeeps, StoreHighKeeps, ReactKeeps DEF Write
  <2>4. CASE UNCHANGED coilVars
    <3>1. UNCHANGED <<out, manual, req, pc, chunk, low, high, image, q, unheard, last>>
      BY <2>4 DEF coilVars, fsmVars, netVars
    <3>2. TypeOK' /\ Loaded'
      BY <3>1 DEF CoilInv, TypeOK, Loaded
    <3>3. CommandsKept'
      BY <3>1 DEF CoilInv, CommandsKept
    <3>4. DifferenceExplained'
      BY <3>1, StillExplained
    <3>5. QED
      BY <3>2, <3>3, <3>4 DEF CoilInv
  <2>5. QED
    BY <2>1, <2>2, <2>3, <2>4 DEF Next
<1>3. QED
  BY <1>1, <1>2, PTL DEF Spec

\* However the network task is preempted between its accesses, the valve coils
\* the PLC reads differ from the outputs only on account of a write of a valve
\* coil that is under way, waits as an event, or was not obeyed: a write of a
\* command coil never disturbs a valve (BLL_Modbus.c:222-230, 453-484).
THEOREM DifferencesExplained == Spec => []DifferenceExplained
<1>1. CoilInv => DifferenceExplained
  BY DEF CoilInv
<1>2. QED
  BY <1>1, CoilInvariant, PTL

\* START or STOP is read as set only when it was the last command posted, or a
\* block was written over both (BLL_Modbus.c:458-474).
THEOREM CommandsShown == Spec => []CommandCoils
<1>1. CoilInv => CommandCoils
  <2> SUFFICES ASSUME CoilInv, NEW c \in {Start, Stop}, pc = "idle", c \in image
               PROVE  last \in {0, c}
    BY DEF CommandCoils
  <2>1. req = None
    BY DEF CoilInv, Loaded
  <2>2. QED
    BY <2>1, NoRequest DEF CoilInv, CommandsKept, Commands
<1>2. QED
  BY <1>1, CoilInvariant, PTL

(***************************************************************************)
(* Part 2.  The holding registers.                                         *)
(*                                                                         *)
(* An event only points at the registers, so the proofs follow what they   *)
(* hold until it is taken: unless another write has touched them meanwhile *)
(* (and then it is in overlap), they hold what the event announced.  The   *)
(* state that escapes both properties is a complete write in progress; its *)
(* event must then find room, which it does because whatever was mixed was *)
(* taken from the queue during that very write.                            *)
(***************************************************************************)

\* The writes that have an event: the whole parameter block and the whole opening.
AllBlock   == <<1, Paras>>
AllOpening == <<High, 2>>

\* What the proofs need of the types; the register the network task is at is one
\* of its request's, or the one behind them.
Shapes ==
  /\ hold = [r \in Regs |-> hold[r]]
  /\ events \in Seq(Events) /\ Len(events) <= MaxQueue
  /\ write \in Requests \cup {NoWrite} /\ at \in Nat /\ writes \in 0..MaxWrites
  /\ {debugOn, half, lost, clash, ignored} \subseteq BOOLEAN
  /\ overlap \subseteq Events
  /\ write # NoWrite => at \in write[1]..(write[1] + write[2])
  /\ half => write # NoWrite /\ at \in Covers(write)

\* An event whose registers are being written by another write is recorded.
Overlaps ==
  \A e \in Events :
    Queued(e) /\ Writing(Source(e)) /\ EventOf(write) # e => e \in overlap

\* While EV_SET_PARA waits, the registers hold the block it announced.
QueuedBlock ==
  Queued("PARA") /\ write # AllBlock /\ "PARA" \notin overlap
    => Restricted(hold, Block) = asked

\* Unlike in MixtureTransient, a partial write of the block is no excuse.
BlockInForce ==
  \/ para = asked
  \/ Queued("PARA") \/ lost \/ "PARA" \in overlap
  \/ write = AllBlock

\* An opening that was written or set as a whole.
IsWhole(f) == \E v \in 0..(MaxWrites + 2) : f = Own(v)

\* Only DEBUG_ON obeys the PLC, and leaving it sets the opening.
OnlyManual == ~debugOn => IsWhole(opened)

\* The registers a complete write of the opening has passed hold that write.
Stored ==
  write = AllOpening /\ ~clash =>
    /\ \A r \in Opening : r < at => hold[r] = Whole(writes)
    /\ half => hold[at] = {Part(writes, "hi")}

\* While EV_SET_PROPOR waits, the registers hold a whole opening.
QueuedOpening ==
  Queued("PROPOR") /\ write # AllOpening /\ "PROPOR" \notin overlap
    => IsWhole(Restricted(hold, Opening)) \/ clash

\* A mixed opening is in force only while the write it was mixed with goes on,
\* and then its event will find room: the fsmTask took one during that write.
OutputWhole ==
  \/ IsWhole(opened) \/ clash \/ "PROPOR" \in overlap
  \/ Queued("PROPOR")
  \/ write = AllOpening /\ Len(events) < MaxQueue

\* The registers show the opening, or something is about to change that.
OpeningShown ==
  \/ Restricted(hold, Opening) = opened \/ ignored
  \/ Queued("PROPOR") \/ Writing(Opening)

BlockInv   == QueuedBlock /\ BlockInForce
OpeningInv == OnlyManual /\ Stored /\ QueuedOpening /\ OutputWhole /\ OpeningShown

ParaInv == Shapes /\ Overlaps /\ BlockInv /\ OpeningInv

(***************************************************************************)
(* Registers, requests and the queue.                                      *)
(***************************************************************************)

\* The parameter block comes first, the two registers of the opening follow.
LEMMA RegisterNumbers ==
  /\ Paras \in Nat \ {0} /\ MaxWrites \in Nat /\ MaxQueue \in Nat \ {0}
  /\ High = Paras + 1 /\ Low = Paras + 2 /\ Opening = {Paras + 1, Paras + 2}
  /\ Block = 1..Paras /\ Regs = 1..(Paras + 2)
  /\ Block \subseteq Regs /\ Opening \subseteq Regs
  /\ Block \cap Opening = {}
BY ParaAssumption DEF High, Low, Opening, Block, Regs

\* A request stays within the registers.
LEMMA RequestFacts ==
  ASSUME NEW r \in Requests
  PROVE  /\ r # NoWrite /\ r[1] \in Nat \ {0} /\ r[2] \in Nat \ {0}
         /\ Covers(r) = r[1]..(r[1] + r[2] - 1) /\ Covers(r) \subseteq Regs
<1>1. r \in Regs \X Regs /\ r[1] + r[2] - 1 <= Low
  BY ParaAssumption
<1>2. r[1] \in 1..(Paras + 2) /\ r[2] \in 1..(Paras + 2) /\ r = <<r[1], r[2]>>
  BY <1>1, RegisterNumbers
<1>3. r # NoWrite
  BY <1>2, RegisterNumbers DEF NoWrite
<1>4. QED
  BY <1>1, <1>2, <1>3, RegisterNumbers DEF Covers

\* The two writes that have an event, and what they cover.
LEMMA WholeWrites ==
  /\ Covers(AllBlock) = Block /\ Covers(AllOpening) = Opening
  /\ AllBlock # AllOpening /\ AllBlock # NoWrite /\ AllOpening # NoWrite
  /\ \A r : /\ EventOf(r) = "PARA" <=> r = AllBlock
            /\ EventOf(r) = "PROPOR" <=> r = AllOpening
            /\ EventOf(r) \in Events \cup {"none"}
<1>1. AllBlock[1] = 1 /\ AllBlock[2] = Paras /\ AllOpening[1] = Paras + 1 /\ AllOpening[2] = 2
  BY RegisterNumbers DEF AllBlock, AllOpening
<1>2. AllBlock # AllOpening /\ AllBlock # NoWrite /\ AllOpening # NoWrite
  BY <1>1, RegisterNumbers DEF NoWrite
<1>3. Covers(AllBlock) = Block /\ Covers(AllOpening) = Opening
  <2>1. 1 + Paras - 1 = Paras /\ Paras + 1 + 2 - 1 = Paras + 2
    BY RegisterNumbers
  <2>2. Covers(AllBlock) = 1..Paras /\ Covers(AllOpening) = (Paras + 1)..(Paras + 2)
    BY <1>1, <2>1 DEF Covers
  <2>3. (Paras + 1)..(Paras + 2) = {Paras + 1, Paras + 2}
    BY RegisterNumbers
  <2>4. QED
    BY <2>2, <2>3, RegisterNumbers
<1>4. QED
  BY <1>2, <1>3 DEF EventOf, AllBlock, AllOpening, Events

\* Taking an event leaves the others, and room in the queue.
LEMMA EventTaken ==
  ASSUME Shapes, NEW e \in Events, Take(e)
  PROVE  /\ ~busy /\ events' \in Seq(Events) /\ Len(events') < MaxQueue /\ Queued(e)
         /\ \A d : /\ Queued(d)' => Queued(d)
                   /\ d # e /\ Queued(d) => Queued(d)'
<1>1. events \in Seq(Events) /\ events # <<>> /\ events[1] = e
      /\ Len(events) \in Nat /\ Len(events) >= 1 /\ Len(events) <= MaxQueue
  BY DEF Shapes, Take
<1>2. events' \in Seq(Events) /\ Len(events') = Len(events) - 1
      /\ \A i \in 1..Len(events') : events'[i] = events[i + 1]
  BY <1>1 DEF Take
<1>3. Queued(e)
  BY <1>1 DEF Queued
<1>4. ASSUME NEW d, Queued(d)' PROVE Queued(d)
  <2>1. PICK i \in 1..Len(events') : events'[i] = d
    BY <1>4 DEF Queued
  <2>2. i + 1 \in 1..Len(events) /\ events[i + 1] = d
    BY <1>1, <1>2, <2>1
  <2>3. QED
    BY <2>2 DEF Queued
<1>5. ASSUME NEW d, d # e, Queued(d) PROVE Queued(d)'
  <2>1. PICK i \in 1..Len(events) : events[i] = d
    BY <1>5 DEF Queued
  <2>2. i # 1
    BY <1>1, <1>5, <2>1
  <2>3. i - 1 \in 1..Len(events') /\ events'[i - 1] = d
    BY <1>1, <1>2, <2>1, <2>2
  <2>4. QED
    BY <2>3 DEF Queued
<1>6. QED
  BY <1>1, <1>2, <1>3, <1>4, <1>5, RegisterNumbers DEF Take

\* An event that is posted waits, or found the queue full.
LEMMA EventPosted ==
  ASSUME Shapes, NEW e \in Events, Post(e)
  PROVE  /\ events' \in Seq(Events) /\ Len(events') <= MaxQueue /\ lost' \in BOOLEAN
         /\ Queued(e)' \/ (lost' /\ ~(Len(events) < MaxQueue))
         /\ lost => lost'
         /\ \A d : /\ Queued(d) => Queued(d)'
                   /\ d # e /\ Queued(d)' => Queued(d)
<1>1. events \in Seq(Events) /\ Len(events) \in Nat /\ Len(events) <= MaxQueue
      /\ lost \in BOOLEAN
  BY DEF Shapes
<1>2. CASE Len(events) < MaxQueue
  <2>1. events' = Append(events, e) /\ lost' = lost
    BY <1>2 DEF Post
  <2>2. events' \in Seq(Events) /\ Len(events') = Len(events) + 1
        /\ events'[Len(events) + 1] = e
        /\ \A i \in 1..Len(events) : events'[i] = events[i]
    BY <1>1, <2>1
  <2>3. Queued(e)'
    BY <1>1, <2>2 DEF Queued
  <2>4. \A d : Queued(d) => Queued(d)'
    BY <1>1, <2>2 DEF Queued
  <2>5. \A d : d # e /\ Queued(d)' => Queued(d)
    BY <1>1, <2>2 DEF Queued
  <2>6. QED
    BY <1>1, <1>2, <2>1, <2>2, <2>3, <2>4, <2>5, RegisterNumbers
<1>3. CASE ~(Len(events) < MaxQueue)
  BY <1>1, <1>3 DEF Post, Queued
<1>4. QED
  BY <1>2, <1>3

\* A store touches one register, one of the request's.
LEMMA StoredOne ==
  ASSUME Shapes, PutHigh \/ PutLow
  PROVE  /\ write # NoWrite /\ at \in Covers(write) /\ at \in Regs
         /\ hold' = [r \in Regs |-> hold'[r]]
         /\ \A r \in Regs : r # at => hold'[r] = hold[r]
         /\ \A S \in SUBSET Regs :
              at \notin S => Restricted(hold, S)' = Restricted(hold, S)
         /\ UNCHANGED <<events, fsmParaVars, write, writes, histVars>>
<1>1. write # NoWrite /\ at \in Covers(write)
  BY DEF PutHigh, PutLow, Shapes
<1>2. at \in Regs
  BY <1>1, RequestFacts DEF Shapes
<1>3. \E x : hold' = [hold EXCEPT ![at] = x]
  BY DEF PutHigh, PutLow
<1>4. hold' = [r \in Regs |-> hold'[r]]
      /\ \A r \in Regs : r # at => hold'[r] = hold[r]
  BY <1>2, <1>3 DEF Shapes
<1>5. ASSUME NEW S \in SUBSET Regs, at \notin S
      PROVE  Restricted(hold, S)' = Restricted(hold, S)
  BY <1>4, <1>5 DEF Restricted
<1>6. UNCHANGED <<events, fsmParaVars, write, writes, histVars>>
  BY DEF PutHigh, PutLow
<1>7. QED
  BY <1>1, <1>2, <1>4, <1>5, <1>6

\* The state machines set both registers of the opening and no other.
LEMMA SetBoth ==
  ASSUME Shapes, NEW f, f = Restricted(f, Opening), Sets(f)
  PROVE  /\ hold' = [r \in Regs |-> hold'[r]] /\ opened' = f /\ ignored' = FALSE
         /\ Restricted(hold, Opening)' = f
         /\ Restricted(hold, Block)' = Restricted(hold, Block)
         /\ \A r \in Opening : hold'[r] = f[r]
<1>1. hold' = [r \in Regs |-> IF r \in Opening THEN f[r] ELSE hold[r]]
      /\ opened' = f /\ ignored' = FALSE
  BY DEF Sets
<1>2. \A r \in Opening : hold'[r] = f[r]
  BY <1>1, RegisterNumbers
<1>3. \A r \in Block : hold'[r] = hold[r]
  BY <1>1, RegisterNumbers
<1>4. QED
  BY <1>1, <1>2, <1>3 DEF Restricted

(***************************************************************************)
(* Shapes and overlaps.                                                    *)
(***************************************************************************)

\* Every step keeps the shapes.
LEMMA ShapesKept ==
  ASSUME Shapes, ParaNext
  PROVE  Shapes'
<1>1. CASE SetPara
  <2>1. Take("PARA")
    BY <1>1 DEF SetPara
  <2>2. events' \in Seq(Events) /\ Len(events') < MaxQueue
    BY <2>1, EventTaken DEF Events
  <2>3. UNCHANGED <<hold, debugOn, netParaVars, histVars>>
    BY <1>1 DEF SetPara
  <2>4. Len(events') <= MaxQueue
    BY <2>2, RegisterNumbers
  <2>5. QED
    BY <2>2, <2>3, <2>4 DEF Shapes, netParaVars, histVars
<1>2. CASE SetPropor
  <2>1. Take("PROPOR")
    BY <1>2 DEF SetPropor
  <2>2. events' \in Seq(Events) /\ Len(events') < MaxQueue
    BY <2>1, EventTaken DEF Events
  <2>3. Len(events') <= MaxQueue
    BY <2>2, RegisterNumbers
  <2>4. hold' = [r \in Regs |-> hold'[r]] /\ ignored' \in BOOLEAN
    <3>1. CASE debugOn
      <4>1. Sets(Restricted(hold, Opening))
        BY <1>2, <3>1 DEF SetPropor
      <4>2. Restricted(hold, Opening)
               = Restricted(Restricted(hold, Opening), Opening)
        BY DEF Restricted
      <4>3. QED
        BY <4>1, <4>2, SetBoth
    <3>2. CASE ~debugOn
      BY <1>2, <3>2 DEF SetPropor, Shapes
    <3>3. QED
      BY <3>1, <3>2
  <2>5. UNCHANGED <<debugOn, netParaVars, lost, overlap, clash>>
    BY <1>2 DEF SetPropor
  <2>6. QED
    BY <2>2, <2>3, <2>4, <2>5 DEF Shapes, netParaVars
<1>3. CASE SetOpening
  <2>1. PICK v \in OwnOpening : Sets(Own(v))
    BY <1>3 DEF SetOpening
  <2>2. Own(v) = Restricted(Own(v), Opening)
    BY DEF Own, Restricted
  <2>3. hold' = [r \in Regs |-> hold'[r]] /\ ignored' \in BOOLEAN
    BY <2>1, <2>2, SetBoth
  <2>4. /\ debugOn' = FALSE /\ clash' = Writing(Opening)
        /\ UNCHANGED <<events, netParaVars, lost, overlap>>
    BY <1>3 DEF SetOpening
  <2>5. clash' \in BOOLEAN /\ debugOn' \in BOOLEAN
    BY <2>4 DEF Writing
  <2>6. QED
    BY <2>3, <2>4, <2>5 DEF Shapes, netParaVars
<1>4. CASE EnterDebug \/ Wait \/ Wake
  <2>1. UNCHANGED <<hold, events, netParaVars, histVars>> /\ debugOn' \in BOOLEAN
    BY <1>4 DEF EnterDebug, Wait, Wake, Shapes
  <2>2. QED
    BY <2>1 DEF Shapes, netParaVars, histVars
<1>5. CASE Begin
  <2>1. /\ write' \in Requests /\ at' = write'[1] /\ half' = FALSE /\ writes' = writes + 1
        /\ writes < MaxWrites /\ UNCHANGED <<hold, events, debugOn, lost, clash, ignored>>
    BY <1>5 DEF Begin, fsmParaVars
  <2>2. overlap' \subseteq Events
    BY <1>5 DEF Begin, Shapes
  <2>3. at' \in Nat /\ at' \in write'[1]..(write'[1] + write'[2])
    BY <2>1, RequestFacts
  <2>4. writes' \in 0..MaxWrites
    BY <2>1, RegisterNumbers DEF Shapes
  <2>5. QED
    BY <2>1, <2>2, <2>3, <2>4 DEF Shapes
<1>6. CASE PutHigh \/ PutLow
  <2>1. /\ write # NoWrite /\ at \in Covers(write) /\ hold' = [r \in Regs |-> hold'[r]]
        /\ UNCHANGED <<events, fsmParaVars, write, writes, histVars>>
    BY <1>6, StoredOne
  <2>2. at \in Nat /\ at + 1 \in Nat /\ at + 1 \in write[1]..(write[1] + write[2])
    BY <2>1, RequestFacts DEF Shapes
  <2>3. (half' = TRUE /\ at' = at) \/ (half' = FALSE /\ at' = at + 1)
    BY <1>6 DEF PutHigh, PutLow
  <2>4. Covers(write)' = Covers(write)
    BY <2>1 DEF Covers
  <2>5. half' \in BOOLEAN /\ at' \in Nat /\ at' \in write'[1]..(write'[1] + write'[2])
        /\ (half' => at' \in Covers(write'))
    BY <2>1, <2>2, <2>3, <2>4 DEF Shapes, Covers
  <2>6. QED
    BY <2>1, <2>5 DEF Shapes, fsmParaVars, histVars
<1>7. CASE Done
  <2>1. /\ write # NoWrite /\ at \notin Covers(write) /\ write' = NoWrite /\ at' = 0
        /\ UNCHANGED <<hold, debugOn, half, writes, overlap, clash>>
    BY <1>7 DEF Done, Ends, fsmParaVars
  <2>2. ~half'
    BY <2>1 DEF Shapes
  <2>3. events' \in Seq(Events) /\ Len(events') <= MaxQueue
        /\ lost' \in BOOLEAN /\ ignored' \in BOOLEAN
    <3>1. CASE EventOf(write) = "none"
      BY <1>7, <3>1 DEF Done, Shapes, Writing
    <3>2. CASE EventOf(write) = "PARA"
      <4>1. Post("PARA") /\ UNCHANGED ignored
        BY <1>7, <3>2 DEF Done
      <4>2. QED
        BY <4>1, EventPosted DEF Shapes, Events
    <3>3. CASE EventOf(write) = "PROPOR"
      <4>1. Post("PROPOR") /\ ignored' = (ignored \/ lost')
        BY <1>7, <3>3 DEF Done
      <4>2. QED
        BY <4>1, EventPosted DEF Shapes, Events
    <3>4. QED
      BY <3>1, <3>2, <3>3, WholeWrites DEF Events
  <2>4. at' \in Nat
    BY <2>1
  <2>5. QED
    BY <2>1, <2>2, <2>3, <2>4 DEF Shapes
<1>8. QED
  BY <1>1, <1>2, <1>3, <1>4, <1>5, <1>6, <1>7 DEF ParaNext, FsmSteps, GoOn

\* Every step records the overlaps.
LEMMA OverlapsKept ==
  ASSUME Shapes, Overlaps, ParaNext
  PROVE  Overlaps'
<1>1. CASE SetPara \/ SetPropor
  <2>1. PICK e \in Events : Take(e)
    BY <1>1 DEF SetPara, SetPropor, Events
  <2>2. \A d : Queued(d)' => Queued(d)
    BY <2>1, EventTaken
  <2>3. UNCHANGED <<netParaVars, overlap>>
    BY <1>1 DEF SetPara, SetPropor, histVars
  <2>4. QED
    BY <2>2, <2>3 DEF Overlaps, Writing, netParaVars, Covers, EventOf
<1>2. CASE SetOpening \/ EnterDebug \/ Wait \/ Wake \/ PutHigh \/ PutLow
  <2>1. UNCHANGED <<events, write, overlap>>
    BY <1>2 DEF SetOpening, EnterDebug, Wait, Wake, PutHigh, PutLow,
                netParaVars, histVars
  <2>2. QED
    BY <2>1 DEF Overlaps, Writing, Covers, EventOf, Queued
<1>3. CASE Begin
  <2>1. overlap' = overlap \cup {e \in Events : Queued(e) /\ EventOf(write') # e
                                              /\ Covers(write') \cap Source(e) # {}}
        /\ events' = events
    BY <1>3 DEF Begin
  <2>2. ASSUME NEW e \in Events, Queued(e)', Writing(Source(e))',
               EventOf(write') # e
        PROVE  e \in overlap'
    <3>1. Queued(e) /\ Covers(write') \cap Source(e) # {}
      BY <2>1, <2>2 DEF Queued, Writing, Covers, Source, Block, Opening
    <3>2. QED
      BY <2>1, <2>2, <3>1
  <2>3. QED
    BY <2>2 DEF Overlaps, EventOf
<1>4. CASE Done
  BY <1>4 DEF Done, Ends, Overlaps, Writing
<1>5. QED
  BY <1>1, <1>2, <1>3, <1>4 DEF ParaNext, FsmSteps, GoOn

(***************************************************************************)
(* The parameter block.                                                    *)
(***************************************************************************)

\* Every step keeps what is known of the block.
LEMMA BlockKept ==
  ASSUME Shapes, Overlaps, BlockInv, ParaNext
  PROVE  BlockInv'
<1>1. CASE SetPara
  <2>1. Take("PARA")
    BY <1>1 DEF SetPara
  <2>2. Queued("PARA") /\ (Queued("PARA")' => Queued("PARA"))
    BY <2>1, EventTaken DEF Events
  <2>3. para' = Restricted(hold, Block) /\ UNCHANGED <<hold, write, asked, lost, overlap>>
    BY <1>1 DEF SetPara, netParaVars, histVars
  <2>4. Restricted(hold, Block)' = Restricted(hold, Block) /\ AllBlock' = AllBlock
    BY <2>3 DEF Restricted, Block, AllBlock
  <2>5. QueuedBlock'
    BY <2>2, <2>3, <2>4 DEF BlockInv, QueuedBlock
  <2>6. BlockInForce'
    BY <2>2, <2>3, <2>4 DEF BlockInv, QueuedBlock, BlockInForce
  <2>7. QED
    BY <2>5, <2>6 DEF BlockInv
<1>2. CASE SetPropor
  <2>1. Take("PROPOR")
    BY <1>2 DEF SetPropor
  <2>2. Queued("PARA")' <=> Queued("PARA")
    BY <2>1, EventTaken DEF Events
  <2>3. UNCHANGED <<para, write, asked, lost, overlap>>
    BY <1>2 DEF SetPropor, netParaVars
  <2>4. Restricted(hold, Block)' = Restricted(hold, Block)
    <3>1. CASE debugOn
      <4>1. Sets(Restricted(hold, Opening))
        BY <1>2, <3>1 DEF SetPropor
      <4>2. Restricted(hold, Opening)
               = Restricted(Restricted(hold, Opening), Opening)
        BY DEF Restricted
      <4>3. QED
        BY <4>1, <4>2, SetBoth
    <3>2. CASE ~debugOn
      BY <1>2, <3>2 DEF SetPropor, Restricted, Block
    <3>3. QED
      BY <3>1, <3>2
  <2>5. QED
    BY <2>2, <2>3, <2>4 DEF BlockInv, QueuedBlock, BlockInForce, AllBlock
<1>3. CASE SetOpening
  <2>1. PICK v \in OwnOpening : Sets(Own(v))
    BY <1>3 DEF SetOpening
  <2>2. Own(v) = Restricted(Own(v), Opening)
    BY DEF Own, Restricted
  <2>3. Restricted(hold, Block)' = Restricted(hold, Block)
    BY <2>1, <2>2, SetBoth
  <2>4. UNCHANGED <<para, events, write, asked, lost, overlap>>
    BY <1>3 DEF SetOpening, netParaVars
  <2>5. QED
    BY <2>3, <2>4 DEF BlockInv, QueuedBlock, BlockInForce, AllBlock, Queued
<1>4. CASE EnterDebug \/ Wait \/ Wake
  <2>1. UNCHANGED <<hold, para, events, write, asked, lost, overlap>>
    BY <1>4 DEF EnterDebug, Wait, Wake, netParaVars, histVars
  <2>2. QED
    BY <2>1 DEF BlockInv, QueuedBlock, BlockInForce, AllBlock, Queued, Restricted,
                Block
<1>5. CASE Begin
  <2>1. /\ write = NoWrite /\ UNCHANGED <<hold, para, events, asked, lost>>
        /\ overlap \subseteq overlap'
    BY <1>5 DEF Begin, fsmParaVars
  <2>2. write # AllBlock
    BY <2>1, WholeWrites
  <2>3. QED
    BY <2>1, <2>2 DEF BlockInv, QueuedBlock, BlockInForce, AllBlock, Queued,
                      Restricted, Block
<1>6. CASE PutHigh \/ PutLow
  <2>1. /\ write # NoWrite /\ at \in Covers(write)
        /\ UNCHANGED <<events, para, write, asked, lost, overlap>>
        /\ at \notin Block => Restricted(hold, Block)' = Restricted(hold, Block)
    BY <1>6, StoredOne, RegisterNumbers DEF fsmParaVars, histVars
  <2>2. BlockInForce'
    BY <2>1 DEF BlockInv, BlockInForce, AllBlock, Queued
  <2>3. QueuedBlock'
    <3>1. CASE at \in Block
      <4>1. Writing(Source("PARA"))
        BY <2>1, <3>1 DEF Writing, Source
      <4>2. Queued("PARA") /\ write # AllBlock => "PARA" \in overlap
        BY <4>1, WholeWrites DEF Overlaps, Events
      <4>3. QED
        BY <2>1, <4>2 DEF QueuedBlock, AllBlock, Queued
    <3>2. CASE at \notin Block
      BY <2>1, <3>2 DEF BlockInv, QueuedBlock, AllBlock, Queued
    <3>3. QED
      BY <3>1, <3>2
  <2>4. QED
    BY <2>2, <2>3 DEF BlockInv
<1>7. CASE Done
  <2>1. /\ write # NoWrite /\ write' = NoWrite /\ UNCHANGED <<hold, para, overlap>>
    BY <1>7 DEF Done, Ends, fsmParaVars
  <2>2. Restricted(hold, Block)' = Restricted(hold, Block)
    BY <2>1 DEF Restricted, Block
  <2>3. CASE EventOf(write) = "PARA"
    <3>1. Post("PARA") /\ asked' = Restricted(hold, Block)
      BY <1>7, <2>3 DEF Done
    <3>2. Queued("PARA")' \/ lost'
      BY <3>1, EventPosted DEF Events
    <3>3. QED
      BY <2>2, <3>1, <3>2 DEF BlockInv, QueuedBlock, BlockInForce
  <2>4. CASE EventOf(write) # "PARA"
    <3>1. write # AllBlock
      BY <2>4, WholeWrites
    <3>2. (Queued("PARA")' <=> Queued("PARA")) /\ (lost => lost') /\ asked' = asked
      <4>1. CASE EventOf(write) = "none"
        BY <1>7, <4>1 DEF Done, Queued
      <4>2. CASE EventOf(write) = "PROPOR"
        <5>1. Post("PROPOR") /\ asked' = asked
          BY <1>7, <4>2 DEF Done
        <5>2. QED
          BY <5>1, EventPosted DEF Events
      <4>3. QED
        BY <2>4, <4>1, <4>2, WholeWrites DEF Events
    <3>3. QED
      BY <2>1, <2>2, <3>1, <3>2 DEF BlockInv, QueuedBlock, BlockInForce
  <2>5. QED
    BY <2>3, <2>4
<1>8. QED
  BY <1>1, <1>2, <1>3, <1>4, <1>5, <1>6, <1>7 DEF ParaNext, FsmSteps, GoOn

(***************************************************************************)
(* The opening.                                                            *)
(***************************************************************************)

\* What the state machines set is whole.
LEMMA OwnIsWhole ==
  ASSUME NEW v \in OwnOpening
  PROVE  IsWhole(Own(v))
BY RegisterNumbers DEF IsWhole, OwnOpening

\* A step of the fsmTask.
LEMMA OpeningOfFsm ==
  ASSUME Shapes, Overlaps, OpeningInv,
         SetPara \/ SetPropor \/ SetOpening \/ EnterDebug \/ Wait \/ Wake
  PROVE  OpeningInv'
<1>1. CASE SetPara
  <2>1. Take("PARA")
    BY <1>1 DEF SetPara
  <2>2. (Queued("PROPOR")' <=> Queued("PROPOR")) /\ Len(events') < MaxQueue
    BY <2>1, EventTaken DEF Events
  <2>3. UNCHANGED <<hold, opened, debugOn, write, at, half, writes, clash, overlap, ignored>>
    BY <1>1 DEF SetPara, netParaVars, histVars
  <2>4. QED
    BY <2>2, <2>3 DEF OpeningInv, OnlyManual, Stored, QueuedOpening, OutputWhole,
                      OpeningShown, IsWhole, Own, Restricted, Opening,
                      AllOpening, Writing, Covers
<1>2. CASE SetPropor
  <2>1. Take("PROPOR")
    BY <1>2 DEF SetPropor
  <2>2. Queued("PROPOR") /\ (Queued("PROPOR")' => Queued("PROPOR"))
        /\ Len(events') < MaxQueue
    BY <2>1, EventTaken DEF Events
  <2>3. UNCHANGED <<debugOn, write, at, half, writes, clash, overlap>>
    BY <1>2 DEF SetPropor, netParaVars
  <2>4. CASE debugOn
    <3>1. Sets(Restricted(hold, Opening))
      BY <1>2, <2>4 DEF SetPropor
    <3>2. Restricted(hold, Opening)
               = Restricted(Restricted(hold, Opening), Opening)
      BY DEF Restricted
    <3>3. /\ opened' = Restricted(hold, Opening) /\ Restricted(hold, Opening)' = opened'
          /\ \A r \in Opening : hold'[r] = Restricted(hold, Opening)[r]
      BY <3>1, <3>2, SetBoth
    <3>4. \A r \in Opening : hold'[r] = hold[r]
      BY <3>3 DEF Restricted
    <3>5. OnlyManual'
      BY <2>3, <2>4 DEF OnlyManual
    <3>6. Stored'
      <4>1. half /\ write = AllOpening => at \in Opening
        BY WholeWrites DEF Shapes
      <4>2. QED
        BY <2>3, <3>4, <4>1 DEF OpeningInv, Stored, AllOpening, Opening, High, Low
    <3>7. QueuedOpening'
      BY <2>2, <2>3, <3>3 DEF OpeningInv, QueuedOpening, AllOpening, IsWhole, Own,
                              Opening
    <3>8. OutputWhole'
      BY <2>2, <2>3, <3>3 DEF OpeningInv, QueuedOpening, OutputWhole, AllOpening,
                              IsWhole, Own, Opening
    <3>9. OpeningShown'
      BY <3>3 DEF OpeningShown
    <3>10. QED
      BY <3>5, <3>6, <3>7, <3>8, <3>9 DEF OpeningInv
  <2>5. CASE ~debugOn
    <3>1. ignored' = TRUE /\ UNCHANGED <<opened, hold>>
      BY <1>2, <2>5 DEF SetPropor
    <3>2. IsWhole(opened)'
      BY <2>5, <3>1 DEF OpeningInv, OnlyManual, IsWhole, Own, Opening
    <3>3. OnlyManual' /\ OutputWhole' /\ OpeningShown'
      BY <3>1, <3>2 DEF OnlyManual, OutputWhole, OpeningShown
    <3>4. Stored' /\ QueuedOpening'
      BY <2>2, <2>3, <3>1 DEF OpeningInv, Stored, QueuedOpening, AllOpening, IsWhole,
                              Own, Restricted, Opening
    <3>5. QED
      BY <3>3, <3>4 DEF OpeningInv
  <2>6. QED
    BY <2>4, <2>5
<1>3. CASE SetOpening
  <2>1. PICK v \in OwnOpening : Sets(Own(v))
    BY <1>3 DEF SetOpening
  <2>2. Own(v) = Restricted(Own(v), Opening)
    BY DEF Own, Restricted
  <2>3. opened' = Own(v) /\ Restricted(hold, Opening)' = opened'
    BY <2>1, <2>2, SetBoth
  <2>4. clash' = Writing(Opening) /\ UNCHANGED <<events, write, at, half, writes, overlap>>
    BY <1>3 DEF SetOpening, netParaVars
  <2>5. IsWhole(opened)'
    BY <2>3, OwnIsWhole DEF IsWhole, Own, Opening
  <2>6. Stored'
    <3>1. write = AllOpening => Writing(Opening)
      BY WholeWrites, RegisterNumbers DEF Writing
    <3>2. QED
      BY <2>4, <3>1 DEF Stored, AllOpening
  <2>7. QueuedOpening'
    BY <2>3, <2>5 DEF QueuedOpening
  <2>8. OnlyManual' /\ OutputWhole' /\ OpeningShown'
    BY <2>3, <2>5 DEF OnlyManual, OutputWhole, OpeningShown
  <2>9. QED
    BY <2>6, <2>7, <2>8 DEF OpeningInv
<1>4. CASE EnterDebug \/ Wait \/ Wake
  <2>1. UNCHANGED <<hold, opened, events, write, at, half, writes, clash, overlap, ignored>>
        /\ (~debugOn' => ~debugOn)
    BY <1>4 DEF EnterDebug, Wait, Wake, netParaVars, histVars
  <2>2. QED
    BY <2>1 DEF OpeningInv, OnlyManual, Stored, QueuedOpening, OutputWhole,
                OpeningShown, Queued, IsWhole, Own, Restricted, Opening,
                AllOpening, Writing, Covers
<1>5. QED
  BY <1>1, <1>2, <1>3, <1>4

\* A write begins.
LEMMA OpeningOfBegin ==
  ASSUME Shapes, OpeningInv, Begin
  PROVE  OpeningInv'
<1>1. /\ write = NoWrite /\ write' \in Requests /\ at' = write'[1] /\ ~half'
      /\ UNCHANGED <<hold, events, opened, debugOn, clash, ignored>>
      /\ overlap \subseteq overlap'
  BY DEF Begin, fsmParaVars
<1>2. write # AllOpening /\ ~Writing(Opening)
  BY <1>1, WholeWrites DEF Writing
<1>3. Stored'
  <2>1. write' = AllOpening => \A r \in Opening : ~(r < at')
    BY <1>1, RegisterNumbers DEF AllOpening
  <2>2. QED
    BY <1>1, <2>1 DEF Stored, AllOpening, Opening, High, Low
<1>4. OnlyManual' /\ QueuedOpening'
  BY <1>1, <1>2 DEF OpeningInv, OnlyManual, QueuedOpening, Queued, IsWhole, Own,
                    Restricted, Opening
<1>5. OutputWhole' /\ OpeningShown'
  BY <1>1, <1>2 DEF OpeningInv, OutputWhole, OpeningShown, Queued, IsWhole, Own,
                    Restricted, Opening
<1>6. QED
  BY <1>3, <1>4, <1>5 DEF OpeningInv

\* A byte of a register is stored.
LEMMA OpeningOfStore ==
  ASSUME Shapes, Overlaps, OpeningInv, PutHigh \/ PutLow
  PROVE  OpeningInv'
<1>1. /\ write # NoWrite /\ at \in Covers(write) /\ at \in Regs
      /\ \A r \in Regs : r # at => hold'[r] = hold[r]
      /\ at \notin Opening => Restricted(hold, Opening)' = Restricted(hold, Opening)
      /\ UNCHANGED <<events, opened, debugOn, write, writes, clash, overlap, ignored>>
  BY StoredOne, RegisterNumbers DEF fsmParaVars, histVars
<1>2. Stored'
  <2>1. SUFFICES ASSUME write = AllOpening, ~clash PROVE Stored'
    BY <1>1 DEF Stored, AllOpening
  <2>2. at \in Opening /\ Opening \subseteq Regs /\ Opening \subseteq Nat
    BY <1>1, <2>1, WholeWrites, RegisterNumbers
  <2>3. \A r \in Opening : r < at => hold[r] = Whole(writes)
    BY <2>1 DEF OpeningInv, Stored
  <2>4. CASE PutHigh
    <3>1. hold' = [hold EXCEPT ![at] = {Part(writes, "hi")}] /\ half' = TRUE /\ at' = at
      BY <2>4 DEF PutHigh
    <3>2. hold'[at] = {Part(writes, "hi")}
      BY <1>1, <3>1 DEF Shapes
    <3>3. \A r \in Opening : r < at' => hold'[r] = Whole(writes)
      BY <1>1, <2>2, <2>3, <3>1
    <3>4. QED
      BY <1>1, <3>1, <3>2, <3>3 DEF Stored, Opening, High, Low, Whole, Part
  <2>5. CASE PutLow
    <3>1. half /\ half' = FALSE /\ at' = at + 1
          /\ \/ hold' = [hold EXCEPT ![at] = @ \cup {Part(writes, "lo")}]
             \/ hold' = [hold EXCEPT ![at] = Whole(writes)]
      BY <2>5 DEF PutLow
    <3>2. hold[at] = {Part(writes, "hi")}
      BY <2>1, <3>1 DEF OpeningInv, Stored
    <3>3. hold'[at] = Whole(writes)
      <4>1. hold[at] \cup {Part(writes, "lo")} = Whole(writes)
        BY <3>2 DEF Whole
      <4>2. QED
        BY <1>1, <3>1, <4>1 DEF Shapes
    <3>4. \A r \in Opening : r < at' => hold'[r] = Whole(writes)
      BY <1>1, <2>2, <2>3, <3>1, <3>3
    <3>5. QED
      BY <1>1, <3>1, <3>4 DEF Stored, Opening, High, Low, Whole, Part
  <2>6. QED
    BY <2>4, <2>5
<1>3. QueuedOpening'
  <2>1. CASE at \in Opening
    <3>1. Writing(Source("PROPOR"))
      BY <1>1, <2>1 DEF Writing, Source
    <3>2. Queued("PROPOR") /\ write # AllOpening => "PROPOR" \in overlap
      BY <3>1, WholeWrites DEF Overlaps, Events
    <3>3. QED
      BY <1>1, <3>2 DEF QueuedOpening, AllOpening, Queued
  <2>2. CASE at \notin Opening
    BY <1>1, <2>2 DEF OpeningInv, QueuedOpening, AllOpening, Queued, IsWhole, Own,
                      Opening
  <2>3. QED
    BY <2>1, <2>2
<1>4. OnlyManual' /\ OutputWhole'
  BY <1>1 DEF OpeningInv, OnlyManual, OutputWhole, AllOpening, Queued, IsWhole,
              Own, Opening
<1>5. OpeningShown'
  <2>1. CASE at \in Opening
    <3>1. Writing(Opening)'
      BY <1>1, <2>1 DEF Writing, Covers, Opening
    <3>2. QED
      BY <3>1 DEF OpeningShown
  <2>2. CASE at \notin Opening
    BY <1>1, <2>2 DEF OpeningInv, OpeningShown, Queued, Writing, Covers, Opening
  <2>3. QED
    BY <2>1, <2>2
<1>6. QED
  BY <1>2, <1>3, <1>4, <1>5 DEF OpeningInv

\* A write ends, and its event is posted.
LEMMA OpeningOfDone ==
  ASSUME Shapes, OpeningInv, Done
  PROVE  OpeningInv'
<1>1. /\ write # NoWrite /\ at \notin Covers(write) /\ write' = NoWrite
      /\ UNCHANGED <<hold, opened, debugOn, writes, clash, overlap>>
  BY DEF Done, Ends, fsmParaVars
<1>2. Stored' /\ OnlyManual'
  BY <1>1, WholeWrites DEF OpeningInv, Stored, OnlyManual, IsWhole, Own, Opening,
                           AllOpening
<1>3. Restricted(hold, Opening)' = Restricted(hold, Opening)
      /\ (IsWhole(opened)' <=> IsWhole(opened))
      /\ (IsWhole(Restricted(hold, Opening))'
            <=> IsWhole(Restricted(hold, Opening)))
  BY <1>1 DEF Restricted, Opening, IsWhole, Own
<1>4. CASE EventOf(write) # "PROPOR"
  <2>1. write # AllOpening
    BY <1>4, WholeWrites
  <2>2. (Queued("PROPOR")' <=> Queued("PROPOR"))
        /\ (ignored => ignored') /\ (Writing(Opening) => ignored')
    <3>1. CASE EventOf(write) = "none"
      BY <1>4, <3>1 DEF Done, Queued
    <3>2. CASE EventOf(write) = "PARA"
      <4>1. Post("PARA") /\ ignored' = ignored
        BY <3>2 DEF Done
      <4>2. ~Writing(Opening)
        BY <3>2, WholeWrites, RegisterNumbers DEF Writing
      <4>3. QED
        BY <4>1, <4>2, EventPosted DEF Events
    <3>3. QED
      BY <1>4, <3>1, <3>2, WholeWrites DEF Events
  <2>3. QueuedOpening'
    BY <1>1, <1>3, <2>1, <2>2 DEF OpeningInv, QueuedOpening
  <2>4. OutputWhole'
    BY <1>1, <1>3, <2>1, <2>2 DEF OpeningInv, OutputWhole
  <2>5. OpeningShown'
    BY <1>1, <1>3, <2>2 DEF OpeningInv, OpeningShown
  <2>6. QED
    BY <1>2, <2>3, <2>4, <2>5 DEF OpeningInv
<1>5. CASE EventOf(write) = "PROPOR"
  <2>1. write = AllOpening /\ Covers(write) = Opening
    BY <1>5, WholeWrites
  <2>2. Post("PROPOR") /\ ignored' = (ignored \/ lost')
    BY <1>5 DEF Done
  <2>3. (Queued("PROPOR")' \/ (lost' /\ ~(Len(events) < MaxQueue)))
        /\ (Queued("PROPOR") => Queued("PROPOR")')
    BY <2>2, EventPosted DEF Events
  <2>4. QueuedOpening'
    <3>1. SUFFICES ASSUME ~clash PROVE IsWhole(Restricted(hold, Opening))
      BY <1>1, <1>3 DEF QueuedOpening
    <3>2. at \in (Paras + 1)..(Paras + 3)
      BY <1>1, <2>1, RegisterNumbers DEF Shapes, AllOpening
    <3>3. at = Paras + 3
      BY <1>1, <2>1, <3>2, RegisterNumbers
    <3>4. \A r \in Opening : hold[r] = Whole(writes)
      BY <2>1, <3>1, <3>3, RegisterNumbers DEF OpeningInv, Stored
    <3>5. Restricted(hold, Opening) = Own(writes)
      BY <3>4 DEF Restricted, Own
    <3>6. writes \in 0..(MaxWrites + 2)
      BY RegisterNumbers DEF Shapes
    <3>7. QED
      BY <3>5, <3>6 DEF IsWhole
  <2>5. OutputWhole'
    BY <1>1, <1>3, <2>3 DEF OpeningInv, OutputWhole
  <2>6. OpeningShown'
    BY <2>2, <2>3 DEF OpeningShown
  <2>7. QED
    BY <1>2, <2>4, <2>5, <2>6 DEF OpeningInv
<1>6. QED
  BY <1>4, <1>5

(***************************************************************************)
(* The invariant.                                                          *)
(***************************************************************************)

\* At start-up.
LEMMA ParaInitially ==
  ASSUME ParaInit
  PROVE  ParaInv
<1>1. events = <<>> /\ \A e : ~Queued(e)
  BY DEF ParaInit, Queued
<1>2. write = NoWrite /\ ~half /\ ~Writing(Block)
  BY DEF ParaInit, Writing
<1>3. Shapes
  <2>1. hold = [r \in Regs |-> hold[r]]
    BY DEF ParaInit
  <2>2. events \in Seq(Events) /\ Len(events) <= MaxQueue
    BY <1>1, RegisterNumbers
  <2>3. /\ ~debugOn /\ ~half /\ ~lost /\ ~clash /\ ~ignored
        /\ {debugOn, half, lost, clash, ignored} \subseteq BOOLEAN
        /\ overlap \subseteq Events
    BY DEF ParaInit
  <2>4. at \in Nat /\ writes \in 0..MaxWrites
    BY RegisterNumbers DEF ParaInit
  <2>5. QED
    BY <1>2, <2>1, <2>2, <2>3, <2>4 DEF Shapes
<1>4. BlockInv
  BY <1>1 DEF ParaInit, BlockInv, QueuedBlock, BlockInForce
<1>5. opened = Own(0) /\ Restricted(hold, Opening) = opened /\ 0 \in 0..(MaxWrites + 2)
  BY RegisterNumbers DEF ParaInit, Own, Restricted
<1>6. IsWhole(opened)
  BY <1>5 DEF IsWhole
<1>7. OpeningInv
  BY <1>1, <1>2, <1>5, <1>6, WholeWrites
     DEF OpeningInv, OnlyManual, Stored, QueuedOpening, OutputWhole, OpeningShown
<1>8. QED
  BY <1>1, <1>3, <1>4, <1>7 DEF ParaInv, Overlaps

\* Every step keeps the invariant.
LEMMA ParaKept ==
  ASSUME ParaInv, [ParaNext]_paraVars
  PROVE  ParaInv'
<1>1. CASE ParaNext
  <2>1. OpeningInv'
    BY <1>1, OpeningOfFsm, OpeningOfBegin, OpeningOfStore, OpeningOfDone
       DEF ParaInv, ParaNext, FsmSteps, GoOn
  <2>2. QED
    BY <1>1, <2>1, ShapesKept, OverlapsKept, BlockKept DEF ParaInv
<1>2. CASE UNCHANGED paraVars
  <2>1. Shapes' /\ Overlaps'
    BY <1>2 DEF ParaInv, Shapes, Overlaps, paraVars, fsmParaVars, netParaVars, histVars,
                Queued, Writing, Covers, EventOf
  <2>2. BlockInv'
    BY <1>2 DEF ParaInv, BlockInv, QueuedBlock, BlockInForce, paraVars, fsmParaVars,
                netParaVars, histVars, Queued, Restricted, Block, AllBlock
  <2>3. OpeningInv'
    BY <1>2 DEF ParaInv, OpeningInv, OnlyManual, Stored, QueuedOpening, OutputWhole,
                OpeningShown, paraVars, fsmParaVars, netParaVars, histVars, Queued,
                Writing, Covers, IsWhole, Own, Restricted, Opening,
                AllOpening, High, Low, Whole
  <2>4. QED
    BY <2>1, <2>2, <2>3 DEF ParaInv
<1>3. QED
  BY <1>1, <1>2

\* The invariant of the holding registers holds in every reachable state.
THEOREM ParaInvariant == ParaSpec => []ParaInv
<1>1. ParaInit => ParaInv
  BY ParaInitially
<1>2. ParaInv /\ [ParaNext]_paraVars => ParaInv'
  BY ParaKept
<1>3. QED
  BY <1>1, <1>2, PTL DEF ParaSpec

\* For any number of parameters, any requests and any queue: parameters other
\* than the block asked for last are in force only while a block is written, its
\* event waits, was lost or overlapped (BLL_Modbus.c:371-388, BLL_MainFsm.c:293).
THEOREM MixturePasses == ParaSpec => []MixtureTransient
<1>1. ASSUME ParaInv PROVE MixtureTransient
  <2>1. write = AllBlock => Writing(Block)
    <3>1. 1 \in Block
      BY RegisterNumbers
    <3>2. QED
      BY <3>1, WholeWrites DEF Writing
  <2>2. QED
    BY <1>1, <2>1 DEF ParaInv, BlockInv, BlockInForce, MixtureTransient
<1>2. QED
  BY <1>1, ParaInvariant, PTL

\* For any requests and any queue: the valve is opened by a value that was asked
\* for as a whole and that the registers show, with the exceptions OpeningTrue
\* names (FML_ExtProporV.c:61, BLL_Modbus.c:255).
THEOREM OpeningIsTrue == ParaSpec => []OpeningTrue
<1>1. ASSUME ParaInv PROVE OpeningTrue
  <2>1. write = AllOpening => Writing(Opening)
    BY WholeWrites, RegisterNumbers DEF Writing
  <2>2. QED
    BY <1>1, <2>1 DEF ParaInv, OpeningInv, OutputWhole, OpeningShown, IsWhole,
                      OpeningTrue
<1>2. QED
  BY <1>1, ParaInvariant, PTL
==============================================================================
