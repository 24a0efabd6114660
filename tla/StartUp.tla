------------------------------ MODULE StartUp ------------------------------
(***************************************************************************)
(* The start of the program: comTask (priority 20) sets up sensors,        *)
(* network and state machine, and the state machine is initialised by      *)
(* whoever comes first: comTask, or the network task (3) in answer to a    *)
(* request.  The network task runs while comTask waits, for the ADC or in  *)
(* enterSTOP.  The sensor timer (31) may overtake both outside critical    *)
(* sections, the fsmTask (28) does as soon as it has work.                 *)
(***************************************************************************)
EXTENDS Naturals, Sequences

CONSTANT MaxEvents   \* length of the event queue (20 in the code)

ASSUME StartUpAssumption == MaxEvents \in Nat \ {0}

Initialisers == {"comTask", "network"}
Queues       == 1..2    \* the queues Mersm_init has created, in order
NoQueue      == 0

VARIABLES
  pc,       \* where each of the two tasks is
  daq,      \* the data acquisition: "none", "starting" or "ready"
  flag,     \* m_isInitFlag
  queue,    \* s_fsmQ: the queue it names, or NoQueue
  made,     \* queues created so far
  events,   \* events in each queue
  fsm,      \* what each fsmTask waits on: a queue, or NoQueue while it works
  sampling, \* the 10 ms sensor timer runs
  cb,       \* what is registered for EXT_SIG_CHANGE: "callback", "instance"
  early     \* who has used a queue, or an object, before it was there (history)

startVars == <<pc, daq, flag, queue, made, events, fsm, sampling, cb, early>>

At(t, place) == pc[t] = place
Goto(t, place) == pc' = [pc EXCEPT ![t] = place]

\* The fsmTasks have nothing to do, so tasks below them run.
FsmWaits == \A i \in 1..Len(fsm) : fsm[i] # NoQueue /\ events[fsm[i]] = 0

\* comTask waits for time to pass, or for messages.
ComWaits == pc["comTask"] \in {"adc", "pause", "run"}

Runs(t) == FsmWaits /\ (t = "network" => ComWaits)

\* xQueueSend on the queue that s_fsmQ names (configASSERT: there is one).
Send(t) == IF queue = NoQueue
           THEN early' = early \cup {t} /\ UNCHANGED events
           ELSE /\ events' = [events EXCEPT ![queue] = IF @ < MaxEvents THEN @ + 1 ELSE @]
                /\ UNCHANGED early

------------------------------------------------------------------------------
(* comTask before Mersm_init. *)

\* exitSingCreate: the sensors are read and sampled from now on.
CreateSensors == /\ At("comTask", "sensors") /\ Goto("comTask", "comm")
                 /\ sampling' = TRUE
                 /\ UNCHANGED <<daq, flag, queue, made, events, fsm, cb, early>>

\* Mutant: without a network comTask does not go on.
GivesUp == /\ At("comTask", "comm")
           /\ pc' \in {[comTask |-> "daq", network |-> "idle"],
                      [comTask |-> "idle", network |-> "deaf"]}
           /\ UNCHANGED <<daq, flag, queue, made, events, fsm, sampling, cb, early>>

\* eMBTCPInit: the network task is created even if lwip_comm_init has failed; it
\* then never gets a connection.
CreateNetwork == /\ At("comTask", "comm")
                 /\ \E link \in {"idle", "deaf"} :
                      pc' = [pc EXCEPT !["comTask"] = "daq", !["network"] = link]
                 /\ UNCHANGED <<daq, flag, queue, made, events, fsm, sampling, cb, early>>

------------------------------------------------------------------------------
(* Mersm_init, by either task t. *)

\* DataSever_create: the first caller sets up the ADC and waits for it, any other
\* one goes on.
CreateDaq(t) ==
  /\ At(t, "daq") /\ Runs(t)
  /\ IF daq = "none" THEN daq' = "starting" /\ Goto(t, "adc")
                     ELSE UNCHANGED daq /\ Goto(t, "check")
  /\ UNCHANGED <<flag, queue, made, events, fsm, sampling, cb, early>>

AdcReady(t) == /\ At(t, "adc") /\ FsmWaits /\ daq' = "ready" /\ Goto(t, "check")
               /\ UNCHANGED <<flag, queue, made, events, fsm, sampling, cb, early>>

\* m_isInitFlag.
CheckFlag(t) == /\ At(t, "check") /\ Runs(t)
                /\ Goto(t, IF flag THEN "done" ELSE "callback")
                /\ UNCHANGED <<daq, flag, queue, made, events, fsm, sampling, cb, early>>

\* registerCallback stores the function and then the object it is called with.
Register(t, from, what, to) ==
  /\ At(t, from) /\ Runs(t) /\ Goto(t, to)
  /\ cb' = cb \cup {what}
  /\ UNCHANGED <<daq, flag, queue, made, events, fsm, sampling, early>>

RegisterCallback(t) == Register(t, "callback", "callback", "instance")
RegisterInstance(t) == Register(t, "instance", "instance", "create")

\* Mutant: no critical section, the new fsmTask runs before the queue exists.
TaskFirst(t) ==
  /\ At(t, "create") /\ Runs(t) /\ UNCHANGED <<daq, sampling, cb, early>>
  /\ IF Len(fsm) = made
     THEN fsm' = Append(fsm, NoQueue) /\ UNCHANGED <<pc, flag, queue, made, events>>
     ELSE /\ queue' = made + 1 /\ made' = made + 1 /\ flag' = TRUE
          /\ Goto(t, "pause") /\ UNCHANGED <<fsm, events>>

\* Mutant: the task is created once, the queue by every caller.
TaskOnce(t) ==
  /\ At(t, "create") /\ Runs(t) /\ Goto(t, "pause")
  /\ fsm' = IF fsm = <<>> THEN <<NoQueue>> ELSE fsm
  /\ queue' = made + 1 /\ made' = made + 1
  /\ flag' = TRUE
  /\ UNCHANGED <<daq, events, sampling, cb, early>>

\* The critical section: fsmTask, queue, first state and flag.  enterSTOP asks
\* for waits, which begin when the section ends.
Create(t) ==
  /\ At(t, "create") /\ Runs(t) /\ Goto(t, "pause")
  /\ fsm' = Append(fsm, NoQueue)
  /\ queue' = made + 1 /\ made' = made + 1
  /\ flag' = TRUE
  /\ UNCHANGED <<daq, events, sampling, cb, early>>

EndPause(t) == /\ At(t, "pause") /\ FsmWaits /\ Goto(t, "done")
               /\ UNCHANGED <<daq, flag, queue, made, events, fsm, sampling, cb, early>>

Initialise(t) == \/ CreateDaq(t) \/ AdcReady(t) \/ CheckFlag(t) \/ RegisterCallback(t)
                 \/ RegisterInstance(t) \/ Create(t) \/ EndPause(t)

------------------------------------------------------------------------------
\* comTask goes on to its loop over g_modbusQ.
StartLoop == /\ At("comTask", "done") /\ FsmWaits /\ Goto("comTask", "run")
             /\ UNCHANGED <<daq, flag, queue, made, events, fsm, sampling, cb, early>>

\* The network task: a coil or holding register is asked for or written; every
\* such request initialises the state machine if need be.
Request == /\ At("network", "idle") /\ Runs("network") /\ Goto("network", "daq")
           /\ UNCHANGED <<daq, flag, queue, made, events, fsm, sampling, cb, early>>

\* Then a written coil sends its event, and the answer goes out.
Reply(sends) == /\ At("network", "done") /\ Runs("network") /\ Goto("network", "idle")
                /\ IF sends THEN Send("network") ELSE UNCHANGED <<events, early>>
                /\ UNCHANGED <<daq, flag, queue, made, fsm, sampling, cb>>

\* exitSwitchCb sees a sensor change: the callback is called if there is one.
SensorChange ==
  /\ sampling
  /\ IF cb = {} THEN UNCHANGED <<events, early>>
     ELSE IF "instance" \in cb THEN Send("sensor")
     ELSE early' = early \cup {"callback"} /\ UNCHANGED events
  /\ UNCHANGED <<pc, daq, flag, queue, made, fsm, sampling, cb>>

\* The i-th fsmTask waits on the queue that s_fsmQ names at this moment.
Await(i) == /\ i \in 1..Len(fsm) /\ fsm[i] = NoQueue
            /\ fsm' = [fsm EXCEPT ![i] = queue]
            /\ early' = IF queue = NoQueue THEN early \cup {"fsmTask"} ELSE early
            /\ UNCHANGED <<pc, daq, flag, queue, made, events, sampling, cb>>

\* It takes an event and handles it.
Handle(i) == /\ i \in 1..Len(fsm) /\ fsm[i] # NoQueue /\ events[fsm[i]] > 0
             /\ events' = [events EXCEPT ![fsm[i]] = @ - 1]
             /\ fsm' = [fsm EXCEPT ![i] = NoQueue]
             /\ UNCHANGED <<pc, daq, flag, queue, made, sampling, cb, early>>

FsmTask == \E i \in Queues : Await(i) \/ Handle(i)
ComTask == CreateSensors \/ CreateNetwork \/ Initialise("comTask") \/ StartLoop
Network == Request \/ Initialise("network") \/ \E sends \in BOOLEAN : Reply(sends)

------------------------------------------------------------------------------
\* start_task has created comTask; the network task does not exist yet.
Init == /\ pc = [t \in Initialisers |-> IF t = "comTask" THEN "sensors" ELSE "none"]
        /\ daq = "none" /\ flag = FALSE /\ queue = NoQueue /\ made = 0
        /\ events = [k \in Queues |-> 0] /\ fsm = <<>>
        /\ sampling = FALSE /\ cb = {} /\ early = {}

Next == FsmTask \/ ComTask \/ Network \/ SensorChange

Spec == Init /\ [][Next]_startVars

\* The fsmTask handles what it has been sent, and comTask goes on when it can:
\* strongly, because events interrupt it.  The sensors, debounced over two
\* samples of 10 ms at least, leave the fsmTask time to empty its queue.
FairSpec == /\ Spec /\ SF_startVars(ComTask) /\ []<>FsmWaits
            /\ \A i \in Queues : WF_startVars(Await(i)) /\ SF_startVars(Handle(i))
------------------------------------------------------------------------------
(* Properties *)

Places == {"none", "deaf", "idle", "sensors", "comm", "daq", "adc", "check", "callback",
           "instance", "create", "pause", "done", "run"}

\* Every variable holds a value of its type; the state machine is created at
\* most twice, once by each of the two tasks.
TypeOK ==
  /\ pc \in [Initialisers -> Places] /\ daq \in {"none", "starting", "ready"}
  /\ flag \in BOOLEAN /\ sampling \in BOOLEAN
  /\ queue \in Queues \cup {NoQueue} /\ made \in 0..2
  /\ events \in [Queues -> 0..MaxEvents]
  /\ fsm \in Seq(Queues \cup {NoQueue}) /\ Len(fsm) <= 2
  /\ cb \subseteq {"callback", "instance"}
  /\ early \subseteq {"network", "sensor", "fsmTask", "callback"}

\* Neither the network task nor the fsmTask ever uses s_fsmQ before it exists:
\* the first initialises what it needs itself, also while comTask is half-way
\* through the same, and the second is created with its queue in one critical
\* section (BLL_MainFsm.c:122-135, BLL_Modbus.c:430-431).
QueueInTime == early \cap {"network", "fsmTask"} = {}

\* Whatever the two tasks did, the queue that events are sent to is the one that
\* the fsmTask created last reads (BLL_MainFsm.c:122-135).
NewestServed == made > 0 => /\ queue = made /\ Len(fsm) = made
                            /\ fsm[made] \in {NoQueue, queue}

\* The start ends: comTask reaches its loop and a state machine waits for events,
\* with a network or without.
StartEnds == <>[](At("comTask", "run") /\ flag)

\* There is one state machine
\* (BLL_MainFsm.c:57: "创建主状态机对象（单例模式）").
Singleton == Len(fsm) <= 1

\* A queue that is written exists (FreeRTOS/queue.c:729, the assertion of
\* xQueueGenericSend).
QueueExists == early \cap {"network", "sensor"} = {}

\* The callback of a sensor is called with the state machine
\* (BLL_MainFsm.c:323).
CalledWithInstance == "callback" \notin early
=============================================================================
