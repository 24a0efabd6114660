----------------------------- MODULE CoilMirror -----------------------------
(***************************************************************************)
(* usRegCoilBuf, the coils of BLL_Modbus.c, with two writers that take no  *)
(* lock.  The network task (priority 3) writes the coils the PLC sends, a  *)
(* word of two bytes at a time, and then posts the event of a single coil; *)
(* the fsmTask (priority 28) copies all valve outputs into the buffer      *)
(* whenever it sets one of them, and may do so between any two accesses of *)
(* the network task.  Coils keep their numbers; only those in use here are *)
(* followed, each bit being independent of the others.                     *)
(***************************************************************************)
EXTENDS Naturals, Sequences

CONSTANTS
  Valves,     \* valve coils of this instance
  Cylinders,  \* those of them that the light curtain guards (20 and 21)
  Blocks,     \* blocks <<first coil, number>> the PLC writes with FC 15
  QueueLen    \* events s_fsmQ takes (20 in the code)

Start == 32
Stop  == 33
Coils == Valves \cup {Start, Stop}

ASSUME CoilAssumption == /\ Valves \subseteq 0..21 /\ Cylinders \subseteq Valves
                         /\ Blocks \subseteq (0..35) \X (2..36)
                         /\ QueueLen \in Nat \ {0}

VARIABLES
  out,      \* m_vStateArr, as the set of valves that are on
  image,    \* usRegCoilBuf, as the set of coils that are on
  manual,   \* the debug machine is in DEBUG_ON
  q,        \* the EV_SET_SIG_V of s_fsmQ
  req,      \* the write request the network task works on, or None
  pc,       \* its next access
  chunk,    \* the byte of the request it is at
  low, high,  \* the two bytes it has loaded, as changed
  unheard,  \* since the last valve was set, a written coil had no effect (history)
  last      \* the last of START and STOP that was posted (history)

fsmVars == <<out, manual>>
netVars == <<req, pc, chunk, low, high>>
coilVars == <<fsmVars, netVars, image, q, unheard, last>>

Byte(k) == {c \in Coils : c \div 8 = k}

None == [off |-> 0, n |-> 0, on |-> {}]

\* A request: first coil, number of coils, and the positions written with 1.
Singles  == [off : Coils, n : {1}, on : SUBSET {0}]
Multiple == UNION {[off : {b[1]}, n : {b[2]},
                    on : SUBSET {c - b[1] : c \in Coils \cap b[1]..(b[1] + b[2] - 1)}]
                   : b \in Blocks}

ByteAt(r) == r.off \div 8

\* The coils that byte i of request r writes, and those it writes with 1.  Every
\* byte goes to the first coil of the request: the offset is not advanced.
Width(r, i)   == IF r.n - 8 * i > 8 THEN 8 ELSE r.n - 8 * i
Masked(r, i)  == {c \in Coils : c \in r.off..(r.off + Width(r, i) - 1)}
Written(r, i) == {c \in Masked(r, i) : c - r.off + 8 * i \in r.on}

\* usWordBuf after the bits of one byte were put in.
Changed(byte, r, i) == (byte \ Masked(r, i)) \cup (Written(r, i) \cap Byte(ByteAt(r)))
ChangedNext(byte, r, i) ==
  (byte \ Masked(r, i)) \cup (Written(r, i) \cap Byte(ByteAt(r) + 1))

------------------------------------------------------------------------------
(* The fsmTask. *)

\* Mutant: the callback copies the valve that changed and no other.
ShowsOne(valves) ==
  LET new == (valves \ out) \cup (out \ valves)
  IN  image' = (image \ new) \cup (valves \cap new)

\* valve_setVal ends with update_ext_v_cb: all outputs go to the buffer.
Show(valves) == image' = (image \ Valves) \cup valves

SetOutputs(valves) == out' = valves /\ Show(valves) /\ unheard' = FALSE

With(v, on) == IF on THEN out \cup {v} ELSE out \ {v}

\* The state machines set a valve; in DEBUG_ON only the light-curtain lock does.
SetValve(v, on) ==
  /\ manual => v \in Cylinders
  /\ SetOutputs(With(v, on))
  /\ UNCHANGED <<manual, netVars, q, last>>

\* evSetSingleV: outside DEBUG_ON nothing happens, a cylinder valve stands still
\* while the curtain (an input) is interrupted, and stays off while it is locked.
SetSingleV ==
  /\ q # <<>> /\ q' = Tail(q)
  /\ LET v == Head(q).v
     IN  \/ manual /\ SetOutputs(With(v, Head(q).on))
         \/ manual /\ v \in Cylinders /\ SetOutputs(out \ {v})
         \/ /\ ~manual \/ v \in Cylinders
            /\ unheard' = TRUE /\ UNCHANGED <<out, image>>
  /\ UNCHANGED <<manual, netVars, last>>

ChangeMode == /\ manual' = ~manual
              /\ UNCHANGED <<out, netVars, image, q, unheard, last>>

FsmTask == \/ \E v \in Valves, on \in BOOLEAN : SetValve(v, on)
           \/ SetSingleV \/ ChangeMode

------------------------------------------------------------------------------
(* The network task. *)

\* eMBRegCoilsCB is called for a write.
Request == /\ pc = "idle"
           /\ req' \in Singles \cup Multiple
           /\ pc' = "loadLow" /\ chunk' = 0
           /\ UNCHANGED <<fsmVars, low, high, image, q, unheard, last>>

\* xMBUtilSetBits loads two bytes, changes some bits and stores both.
LoadLow  == /\ pc = "loadLow" /\ pc' = "loadHigh"
            /\ low' = Changed(image \cap Byte(ByteAt(req)), req, chunk)
            /\ UNCHANGED <<fsmVars, req, chunk, high, image, q, unheard, last>>

LoadHigh == /\ pc = "loadHigh" /\ pc' = "storeLow"
            /\ high' = ChangedNext(image \cap Byte(ByteAt(req) + 1), req, chunk)
            /\ UNCHANGED <<fsmVars, req, chunk, low, image, q, unheard, last>>

StoreLow == /\ pc = "storeLow" /\ pc' = "storeHigh"
            /\ image' = (image \ Byte(ByteAt(req))) \cup low
            /\ UNCHANGED <<fsmVars, req, chunk, low, high, q, unheard, last>>

StoreHigh ==
  /\ pc = "storeHigh"
  /\ image' = (image \ Byte(ByteAt(req) + 1)) \cup high
  /\ low' = {} /\ high' = {}
  /\ IF req.n > 8 * (chunk + 1) THEN pc' = "loadLow" /\ chunk' = chunk + 1
                                ELSE pc' = "react" /\ UNCHANGED chunk
  /\ UNCHANGED <<fsmVars, req, q, unheard, last>>

Finish == pc' = "idle" /\ req' = None /\ chunk' = 0

\* Mutant: the command leaves the other coil as it is.
CommandedOnly(c, other) ==
  (IF c \in image THEN last' = c ELSE UNCHANGED last) /\ UNCHANGED image

\* START or STOP was set alone: the other one is cleared, the event is posted.
Commanded(c, other) ==
  IF c \in image THEN image' = image \ {other} /\ last' = c
                 ELSE UNCHANGED <<image, last>>

\* Mutant: the queue is written without looking at its length.
PostAnyway(v) == q' = Append(q, [v |-> v, on |-> v \in image]) /\ UNCHANGED unheard

\* The event of a valve coil takes its level from the buffer, not the request.
PostValve(v) ==
  IF Len(q) < QueueLen
  THEN q' = Append(q, [v |-> v, on |-> v \in image]) /\ UNCHANGED unheard
  ELSE unheard' = TRUE /\ UNCHANGED q

\* What follows the write; a block of coils has no effect of its own.
React ==
  /\ pc = "react" /\ Finish
  /\ \/ req.n = 1 /\ req.off = Start /\ Commanded(Start, Stop) /\ UNCHANGED <<q, unheard>>
     \/ req.n = 1 /\ req.off = Stop /\ Commanded(Stop, Start) /\ UNCHANGED <<q, unheard>>
     \/ req.n = 1 /\ req.off \in Valves /\ PostValve(req.off) /\ UNCHANGED <<image, last>>
     \/ req.n > 1 /\ unheard' = TRUE /\ UNCHANGED <<image, q>>
        /\ last' = IF Masked(req, 0) \cap {Start, Stop} # {} THEN 0 ELSE last
  /\ UNCHANGED <<fsmVars, low, high>>

Write == LoadLow \/ LoadHigh \/ StoreLow \/ StoreHigh \/ React

------------------------------------------------------------------------------
\* Start-up: all outputs off, nothing written.  (last = 0: nothing posted, or a
\* block has overwritten the command coils.)
Init == /\ out = {} /\ image = {} /\ manual = FALSE
        /\ q = <<>> /\ req = None /\ pc = "idle" /\ chunk = 0
        /\ low = {} /\ high = {} /\ unheard = FALSE /\ last = 0

Next == FsmTask \/ Request \/ Write

Spec == Init /\ [][Next]_coilVars

\* A request that has begun is carried through and the fsmTask takes its events:
\* all tasks above the network task wait for messages most of the time.
FairSpec == Spec /\ WF_coilVars(Write) /\ WF_coilVars(SetSingleV)
------------------------------------------------------------------------------
(* Properties *)

\* Every variable holds a value of its type.
TypeOK ==
  /\ out \subseteq Valves /\ image \subseteq Coils
  /\ low \subseteq Coils /\ high \subseteq Coils
  /\ q \in Seq([v : Valves, on : BOOLEAN]) /\ Len(q) <= QueueLen
  /\ req \in Singles \cup Multiple \cup {None}
  /\ pc \in {"idle", "loadLow", "loadHigh", "storeLow", "storeHigh", "react"}
  /\ chunk \in 0..4 /\ last \in {0, Start, Stop}
  /\ {manual, unheard} \subseteq BOOLEAN

Shown == image \cap Valves = out

\* Some write may still disturb the valve bits, or put them right.
ValveWrite == req # None /\ (Byte(ByteAt(req)) \cup Byte(ByteAt(req) + 1)) \cap Valves # {}

\* The valve coils the PLC reads may differ from the outputs only on account of
\* a write of a valve coil that is under way, whose event is still queued, or
\* that was not obeyed: the bytes a preempted write puts back are stale, but the
\* event that follows refreshes them, and commands never disturb the valves
\* (BLL_Modbus.c:222-230 and 453-484, mbutils.c:45-82).
DifferenceExplained == Shown \/ ValveWrite \/ q # <<>> \/ unheard

\* A START coil the PLC reads as set stands for the last command posted, and so
\* does STOP, unless a block was written over them (BLL_Modbus.c:458-474).
CommandCoils == \A c \in {Start, Stop} : (pc = "idle" /\ c \in image) => last \in {0, c}

\* A difference does not last, unless a written coil was not obeyed.
Refreshed == ~Shown ~> (Shown \/ unheard)

\* In manual operation the event of a written valve coil asks for the level the
\* PLC has written
\* (mb.h:363: the values are updated "from the values supplied in the buffer").
LevelOfRequest ==
  [][(manual /\ pc = "react" /\ req.n = 1 /\ q' # q)
       => (q'[Len(q')].on <=> 0 \in req.on)]_coilVars

\* A block that nothing else disturbs leaves each coil with the value sent for
\* it (mb.h:355-364).
BlockWritten ==
  [][(pc = "storeHigh" /\ pc' = "react" /\ req.n > 1)
       => \A c \in Coils \cap req.off..(req.off + req.n - 1) :
            c \in image' <=> c - req.off \in req.on]_coilVars
==============================================================================
