# TLA+ model of the underwater leak tester

The program under `src/` runs on one STM32F767 board. It controls a machine that
closes a chamber over up to four products, evacuates it, lets water in, measures
at a low and at a high pressure whether water gets into a product, drains the
chamber and reports to a PLC over Modbus TCP. This directory models the control
logic: the state machines of the cycle, the event queue and the timers that
drive them, the light-curtain lock over the cylinder, the alarm words and the
way they reach the PLC, the registers PLC and state machines both write, the
server loop and the start of the program. It does not model drivers, the kernel
or the protocol stacks, only what the program relies on in them.

## 1. The system

Four tasks matter. The numbers are their FreeRTOS priorities (higher runs first).

| task | does | blocks on |
|---|---|---|
| timer service (31) | 10 ms sensor sampling, 10 ms delay timer | nothing |
| fsmTask (28) | one handler per event of `s_fsmQ` | `s_fsmQ`, `vTaskDelay` in some exits, `g_modbusQ` for at most 10 ticks |
| comTask (20) | one register update per message of `g_modbusQ` | `g_modbusQ` |
| network task (3) | Modbus TCP server, coil and register callbacks | the socket |

### Components

**Main state machine** (`BLL_MainFsm.c`). State: main state TEST, DRY or DEBUG,
queue `s_fsmQ` (20 events). Operations: one case per event, mode changes,
callbacks that post events. Hard: events posted by three tasks, handled later in
another state; a mode change in the middle of anything. Correct when the main
state and the states of the machines below it agree, the machine changes only at
standby, and no state waits for an event that cannot come.

**Test cycle** (`Mersm_Test.c`). State: one of 14 states, stop count. Operations:
start, stop, delay over, timeout, liquid switch, two cylinder switches, entry and
exit of each state. Hard: `exitWATER_IN` waits 700 ms in the middle of a handler
while timers run and sensors change. Correct when water is let in only in
WATER_IN, every state with water in it leads to the draining, each state ends,
timers belong to the state that runs.

**Leak measurement** (`Mersm_LeakTest.c`). State: stage, test condition, results
at both pressures, result words, four two-bit NG counters in one byte.
Operations: start, stop, next stage, results, counters. Hard: results live
across cycles that are stopped or refused at any stage; packed counters. Correct
when results agree with the measurements and never contradict each other, and
the second NG in a row of a port asks for drying.

**Drying** (`Mersm_Dry.c`). State: six states, a count of pumpings. Correct when
it always ends or is asked to end by a timer, and the cylinder follows the state.

**Manual operation** (`Mersm_Debug.c`). State: OFF, ON, CYL_UP. Operations:
set a single valve, leave (the cylinder is raised first). Correct when nothing is
left open on the way out.

**Flag words** (`BLL_Alarm.c`). State: error word, status word, result word.
Thirty call sites set and clear bits of which some exclude each other. Correct
when the status shown to the PLC is what the machine does.

**Light curtain and valves** (`FML_Grat.c`, `FML_ExtValve.c`). State: 22 outputs,
the lock flag, the remembered outputs. Hard: the position remembered when the
curtain triggers is applied later, in another phase. Correct when locked outputs
are off, and nothing ever drives the cylinder against its phase.

**Delay timers** (`FML_DelayTime.c`). State: two software delays, each counting
ticks of 10 ms, and the time left as the PLC reads it. Hard: starting an active
delay is an assertion and changes only its limit; the display is a register pair
with two writers, timer and comTask, read byte by byte, and setting a delay does not
change it. Correct when no delay ends early and, once a delay has ticked and as long
as nothing has overwritten its display, the PLC is not told of less time than there
is.

**Modbus registers** (`BLL_Modbus.c`). State: `g_modbusQ` (20 messages), input,
holding and coil registers. Operations: one per message, one callback per kind of
register. Hard: messages carry pointers, read later and in two halves; coils, the
parameter block and the opening have two writers that take no lock. Correct when
no change is forgotten, leak rates of two cycles are never mixed, what the PLC
reads of the valves is put right after every disturbance, and the parameters in
force are, in the end, the block it has written last.

**Proportional valve** (`FML_ExtProporV.c`). State: the opening. Correct when it is
a value somebody asked for, and the registers show it.

**Sensors** (`FML_ExtSignal.c`, `key.c`). State: two counters and a level for
each input. Hard: registration after sampling has started. Correct when a steady
level is never missed, a glitch never reported, and the state machine is told of
every change since it registered.

**Network task** (`lwip_client_app.c`). State: the netconn it serves, one receive
buffer, the queue of answers, which are pointers to that buffer. Hard: clients
close or are reset at any moment; `netconn_recv` fails in several ways. Correct
when each answer goes to the client that asked, in order, none twice, and a client
that leaves makes room for the next.

**Start-up** (`RTOS_Task.c`, `Mersm_init`). State: which objects, queues, callbacks
and tasks exist, one flag. Hard: comTask and network task both initialise the state
machine, while timers call what they register. Correct when nothing is used before
it exists and, whoever was first, events reach the state machine.

**Not modelled**: data acquisition (`FML_Daq.c`, `ADS_1256`), the allocators, and the
vendored code (FreeRTOS, LwIP, FreeModbus, HAL, CMSIS). See section 8.

### How they interact

Sensor task, delay timers and coil callbacks append to `s_fsmQ` without waiting:
a full queue drops the event. The fsmTask calls the current machine, which sets
valves (through the lock), starts and stops delays, changes alarm words. The
alarm calls post a pointer on `g_modbusQ`, which the comTask turns into register
contents. The light curtain and the vacuum switch are handled by the main machine
before it looks at its state; everything else goes to the current machine.

## 2. Modules

| module | code | what it holds |
|---|---|---|
| `Alarm` | `BLL_Alarm.c` | the two flag words as a record of sets, one pure operator per call |
| `GratLock` | `FML_Grat.c`, `FML_ExtValve.c` | the two cylinder outputs, lock flag and remembered pair |
| `DelayTimer` | `FML_DelayTime.c` | which of the two delays run; whether the assertion was reached |
| `LeakStages` | `Mersm_LeakTest.h` | stage numbers as functions of the number of ports |
| `FsmCore` | `BLL_MainFsm.c:327-398`, `FML_ExtSignal.c`, coil callback | the variables all machines share, the queue, the steps of the other tasks |
| `TestFsm` | `Mersm_Test.c`, stages of `Mersm_LeakTest.c` | one operator per handler of the test machine |
| `DryFsm` | `Mersm_Dry.c` | the same for drying |
| `DebugFsm` | `Mersm_Debug.c` | the same for manual operation |
| `MainFsm` | `BLL_MainFsm.c` | one action per event; composition of all the above; invariants |
| `MCMainFsm` | | `MainFsm` for TLC |
| `Chamber` | | what the machine promises about the chamber, in four variables |
| `ChamberRefinement` | | the mapping from `MainFsm` to `Chamber` |
| `MainFsmClaims` | | what comments say and the code does not do |
| `LeakTest` | `Mersm_LeakTest.c` | results and counters over many cycles |
| `ModbusMirror` | `BLL_Modbus.c:105-214`, `BLL_Alarm.c` | flag words and leak rates on their way to the registers |
| `CoilMirror`, `MCCoilMirror` | `BLL_Modbus.c:222-230, 421-514`, `mbutils.c` | the coil buffer between network task and fsmTask, access by access |
| `ParaTransfer`, `MCParaTransfer` | `BLL_Modbus.c:354-411`, `BLL_MainFsm.c:293-307`, `FML_ExtProporV.c` | parameter block and opening, register by register, and the events that point at them |
| `OneShot` | `FML_DelayTime.c` | a delay as the state machines use it: it may expire at any moment, once |
| `Countdown` | `FML_DelayTime.c`, `BLL_Modbus.c:115-119, 266-271, 323-343`, `Mersm_Test.c:749-765` | a delay tick by tick, and its display, written by timer and comTask and read byte by byte; implements `OneShot` |
| `Debounce` | `key.c`, `FML_ExtSignal.c` | one input from its samples to the event |
| `ModbusService` | | what the network task promises its clients, in three variables |
| `TcpServer` | `lwip_client_app.c`, the netconn calls of lwIP it uses | the server loop, clients that close or are reset; implements `ModbusService` |
| `StartUp` | `RTOS_Task.c`, `BLL_MainFsm.c:84-137`, `FML_ExtSignal.c` | comTask, network task, fsmTasks and sensor timer until the loops run |
| `MainFsm_proofs`, `LeakTest_proofs`, `ModbusMirror_proofs`, `ModbusBuffers_proofs`, `Countdown_proofs`, `Debounce_proofs`, `TcpServer_proofs`, `StartUp_proofs` | | lemmas, invariants and refinements, checked by TLAPS |

### From code to model

An action of `MainFsm` is one pass of the loop in `mainFsm_eventDispatchThread`:
`Receive` takes the head of the queue, the disjuncts are the branches of the
event's case, and each calls one handler of one machine. `Enter(s, a)` of
`TestFsm` is an exit, the assignment of `m_stateID` and an entry together: the
timers the exit stops, the timer the entry starts, the valves the entry writes in
the order of its loop, the alarm words the handler has computed. The leak
measurement that LOW and HIGH nest appears in `MainFsm` as its stage only;
`LeakTest` has its bookkeeping.

What is abstracted:

- *Analogue readings* (pressures, product and dryness tests) are choices.
- *Time*: in the state machines a running delay may expire at any moment.
  `Countdown` counts the ticks and is shown to implement just that.
- *Valves*: the cylinder pair and the filling valve with its pump; the other
  outputs are set by the same loops and no property is about them.
- *Parameters* (delays, limits) do not change control flow except by readings;
  how they get into force is `ParaTransfer`. There a register holds the set of the
  bytes it was made from, so that a mixture of two writes is seen as one.
- *Atomicity*. A handler runs as one step, because the other tasks only append to
  the queue and flip sensors, and a handler that has read a sensor does not read
  it again. Where two tasks write the same registers (`CoilMirror`,
  `ParaTransfer`, `ModbusMirror`, `Countdown`) each access is a step. `exitWATER_IN` is split at its wait (`Mersm_Test.c:1140, 1142`),
  because the liquid sensor and the timers are looked at after it. The waits in
  `enterSTOP` (754, 756) and in `exitWATER_EXH` (1181, 1183) are not: what follows
  them reads neither, and what happens meanwhile only joins the queue. Several
  inputs that change in one sample are several steps.
- *Events carry the phase they belong to* (`arg` of timer events). The code has
  no such field; only `TimeoutsFresh` looks at it.
- *Priorities*. `ParaTransfer` and `StartUp` let a task of lower priority run only
  while those above it wait, because what can go wrong depends on it; elsewhere any
  task may run at any moment, which includes what the priorities allow.
- *lwIP*: `TcpServer` has of it the accept mailbox with its backlog, one receive
  mailbox for each netconn and the error a reset leaves in it. A request is one
  message; split and joined segments, and peers that fall silent, are left out.
- `s_dryCnt` stops at its limit, as it is only compared with it. In `ModbusMirror`
  a word has one bit for each half that is read by itself.

## 3. Hazards and properties

`PROJECT.json` lists each hazard with its line. The main ones and what guards them:

- **a wait inside a handler, and stale timer events**: `NoLostWakeup` (every state
  that ends by a timer has it running or its event queued), `TimersOwned` (outside
  manual operation no timer survives into a state that did not start it),
  `CycleEnds`.
- **the lock across phases**: `NeverAgainstPhase`, `LockConsistent`,
  `CurtainStops`, `LockReported`.
- **water on unusual paths**: `FillOnlyInWaterIn`, `DrainFirst`,
  `ImplementsChamber`.
- **nested modes**: `ModesAgree`.
- **status bits**: `StatusTruthful`, `ReadyNotWet`.
- **pointers read later**: `NoChangeForgotten`, `Mirrored`, `CyclesApart`;
  `MixtureTransient`, `LastBlockInForce` for the parameter block. Parameters that
  mix two blocks do get into force; these two say for how long.
- **registers with two writers**: `DifferenceExplained`, `CommandCoils`, `Refreshed`
  for the coils, `OpeningTrue` for the opening.
- **values read in parts, with two writers**: `ToldNotShort`. It speaks of the ticks the
  delay has to go, not of the display, and excepts two things the code does: a delay
  that was set is not shown before its first tick, 10 ms later, and the message with
  which `enterSTOP` has the display cleared is taken by the comTask of lower priority
  at any later time, so its 0 may overwrite a delay started meanwhile, until the next
  tick.
- **a timer ticking while others use it**: `NotEarly`, `ImplementsOneShot`. `NotEarly`
  exempts just the delays that were themselves set again while they ran.
- **one buffer for all answers, clients that go away**: `AnswerIntact`,
  `ServesAsPromised`, `Released`, `Answered`.
- **two initialisers, one flag**: `QueueInTime`, `NewestServed`, `StartEnds`.
- **packed counters across abandoned cycles**: `CountedWasNG`, `OneResult`,
  `ResultsAgree`, `SecondNGAsks`.
- **two counters for one level, late registration**: `NoGlitch`, `NoneMissed`,
  `ToldAgrees` (a change before the registration is never told: what the machine was
  told, or else the level at its registration, is the level now).

`lost` (and `dropped` in `ModbusMirror`) remembers that a full queue has dropped
something: properties that need every event say what they promise until then. In
the same way `unheard` and `ignored` remember a written coil and opening that had no effect
(the valve event is obeyed in manual operation only), `overlap` an event whose
registers were written again before it was taken, `clash` an opening set during a
write of it, `outdated` a reading during which the display was not that of the delay
that runs. `since`, `reset` and `behind` of `Countdown`, `recent` and `found` of
`Debounce` are histories too.

Some hazards have no property because the code does go wrong there (section 7);
one, the filter of the readings, because its arithmetic is outside the model.

## 4. Runs

All runs are exhaustive. States are distinct states; times are for two workers.

| run | module | instance | states | shows |
|---|---|---|---|---|
| `cycle` | `MCMainFsm` | start/stop; liquid, vacuum and lower switch; 2 ports | 1.4 M, 50 s | types, timers, wake-ups, status word and the way out of the wet states, one cycle after another |
| `curtain` | `MCMainFsm` | start/stop; curtain, both switches; 1 port | 0.9 M, 2 min | the lock in a cycle; every cycle ends, under fairness |
| `promises` | `ChamberRefinement` | all commands, the filling valve by hand; lower switch, curtain; two pumpings; queue of 1 | 2.1 M, 2 min | refinement of `Chamber`; modes, lock, inlet and status in test, drying and manual operation |
| `leak` | `LeakTest` | 4 ports | 37 k, 2 s | results and counters over any number of cycles |
| `mirror` | `ModbusMirror` | error word, 2 ports, queue of 2, 2 cycles | 0.4 M, 1 min | flag word and leak rates on their way to the registers, under fairness |
| `debounce` | `Debounce` | limits 10 and 5 | 10 k, 1 s | one input against a definition over its samples |
| `coils` | `MCCoilMirror` | valves 8 and 20, start, stop; single writes, a block of 13, a block of 2 | 0.7 M, 2 min | what the coils show, and that it is put right, under fairness |
| `para` | `MCParaTransfer` | 2 parameters and the opening; the block, a part of it, the opening, a half of it; 3 writes | 55 k, 10 s | which parameters and which opening get into force, under fairness |
| `tcp` | `TcpServer` | 3 clients, 2 requests each, backlog of 2 | 0.16 M, 40 s | refinement of `ModbusService`; room is made and answers come, under fairness |
| `startup` | `StartUp` | queue of 2 | 1 k, 1 s | two initialisers and the sensor timer in every order; the start ends, under fairness |
| `countdown` | `Countdown` | bytes of 2 values, delays up to 9 ticks, one message | 0.67 M, 40 s | the display written by two tasks and read in parts; refinement of `OneShot` |
| `claim_unlock` | `MainFsmClaims` | start; curtain, lower switch | | section 7 |

### Bounds

- `QueueLen` 1 or 2 stands for 20 (both queues). With two events several tasks can
  overtake a handler and the queue can overflow, which sets `lost`; a longer queue
  adds only longer runs of the same events. `promises` has three machines and four
  commands, and a queue of one, in which events meet every state and overflow
  often. The theorems hold for every length.
- Sensors and commands are split over the runs so that each run has those that
  interact in what it asks. `Found` is what may be on at power-up: the upper limit
  switch always may, because without it no cycle starts, and `promises` starts with
  the liquid sensor on or off, so that both outcomes of the filling are reached.
- `Ports` 1 or 2 in `MainFsm` (the stages repeat), 4 in `LeakTest`, where the byte
  of the counters is the point.
- `MaxDry` 1 or 2 instead of 50: one pumping within and one at the limit.
- `MaxCycle = 2` in `ModbusMirror`: a cycle, and one whose values could mix with it.
- `CoilMirror`: coils are independent bits, so two of the 22 valves are enough, one
  of them guarded by the curtain; the library changes two bytes at a time, and those
  of coil 8 hold both; the block of 13 has two bytes.
- `Paras = 2` instead of 84: the least in which a block can be torn. Three writes: one
  in force, one waiting, one that writes over it.
- `Conns = 3`, `Backlog = 2`: one served and two waiting; `MaxAsk = 2`: a request
  before and one after an answer. `NetLen` is the length of `g_netQ`.
- `Base = 2`, `MaxTicks = 9`: four binary digits stand for the four bytes, and every
  carry between them happens. `QueueLen = 1` there: messages of `enterSTOP` only, each
  posted with the delay stopped and after two waits in which the comTask empties its
  queue; a second one may be posted between the two halves of the first.
- `MaxEvents = 2` in `StartUp`; two queues at most are created, by the code.

`CHECK_DEADLOCK FALSE` is set where the system may really stop: after the call of
the unassigned handler (`main = "FAULT"`, `promises`), in `tcp` once all clients of
the instance have gone, and in `debounce`, which has no need of a step.

### Fairness

`FairSpec` of `MainFsm` is weak fairness of `Dispatch` and of the expiry of each
timer. Of all tasks only the timer service has a higher priority than the
fsmTask, and it never waits, so the fsmTask gets the processor; a started delay is
counted by a periodic 10 ms timer and expires. Nothing is assumed of sensors, of
the operator or of the network: `CycleEnds` holds although no sensor needs to
change. In `ModbusMirror`, `CoilMirror`, `ParaTransfer` and `TcpServer` weak fairness
of the tasks is assumed (strong in `ParaTransfer`, where a task is held up again and
again by the waits of another), not of the PLC: the tasks above them wait for events
most of the time, and a sender waits 10 ticks. `StartUp` assumes strong fairness of comTask
and of the fsmTask's handlers, which sensor events interrupt again and again, and
that the fsmTask empties its queue now and then (`[]<>FsmWaits`): an input changes
at most once in several samples of 10 ms.

## 5. Proofs

Proved by TLAPS for every value of the constants, from the assumptions in the
modules that declare them: queues of at least one, known sensors, commands and
words, at least one port, one cycle and one pumping; at most four ports where the
byte of their counters is concerned; valve coils and blocks within the buffer, requests
within the registers; limits of the debouncing of at least one; at least two values of
a byte, and delays that fit in four of them.

| module | theorem | states |
|---|---|---|
| `MainFsm_proofs` | `Invariant` | `IInv`, from which the next five follow |
| | `TypesKept`, `ModesAlwaysAgree`, `LockHolds`, `NeverReversed`, `InletCloses` | `TypeOK`, `ModesAgree`, `LockConsistent`, `NeverAgainstPhase`, `FillOnlyInWaterIn` |
| | `StatusAlwaysTrue`, `NeverReadyWet` | `StatusTruthful`, `ReadyNotWet` |
| | `CurtainAlwaysStops`, `LockAlwaysReported` | `CurtainStops`, `LockReported` |
| | `WakeupNeverLost`, `TimersAlwaysOwned` | `NoLostWakeup`, `TimersOwned` (without manual operation) |
| | `AlwaysDrainsFirst`, `Refinement` | `DrainFirst`, `ImplementsChamber` |
| `LeakTest_proofs` | `CountsAlwaysNG`, `AlwaysOneResult`, `ResultsAlwaysAgree`, `SecondNGAlwaysAsks` | `CountedWasNG`, `OneResult`, `ResultsAgree`, `SecondNGAsks` |
| `ModbusBuffers_proofs` | `DifferencesExplained`, `CommandsShown` | `DifferenceExplained`, `CommandCoils` of `CoilMirror` |
| | `MixturePasses`, `OpeningIsTrue` | `MixtureTransient`, `OpeningTrue` of `ParaTransfer` |
| `ModbusMirror_proofs` | `ChangesAreCopied`, `CyclesStayApart` | `NoChangeForgotten`, `CyclesApart` |
| `Countdown_proofs` | `NeverShort`, `NeverEarly`, `OneExpiry` | `ToldNotShort`, `NotEarly`, `ImplementsOneShot` |
| `Debounce_proofs` | `SteadyIsSeen`, `GlitchesAreDropped`, `ToldOfEveryChange` | `NoneMissed`, `NoGlitch`, `ToldAgrees` |
| `TcpServer_proofs` | `AnswersAreIntact`, `ServiceImplemented` | `AnswerIntact`, `ServesAsPromised` |
| `StartUp_proofs` | `QueueIsInTime`, `NewestIsServed` | `QueueInTime`, `NewestServed` |

`ModbusMirror_proofs`, `Countdown_proofs`, `TcpServer_proofs` and `StartUp_proofs` also
prove the type invariant of their module (`TypeCorrect`).

### The state machines

The properties are not inductive one by one. `NeverAgainstPhase` speaks of the
direction of the current phase; what the lock gives back agrees with it only
because an unlocked pair remembers nothing (`LockConsistent`) and because every
entry overwrites what a locked one remembers (lemma `DriveFollows`). A mode change
relies on what the other machines have left: the test machine idle in STOP with
the inlet closed, the drying machine in NULL. `IInv` therefore has one case for
each main state, and each case says what the current machine keeps (`TestGood`,
`DryGood`, `DebugGood`) and what the idle ones have left.

The argument goes up the modules: lemmas on the flag words, the lock and the
timers; one lemma for a state entry (`EnterGood`, `DryEnterGood`), from which each
handler follows because it only chooses the state and the alarm words; one lemma per
way a step can change modes; and one step per event in `DispatchInv` and per task in
`EnvironmentInv`. TLC has checked `IInv` itself on an instance with all four commands,
two single valves, the curtain and the upper switch (2.1 M states) before the proof.

The promises over several events (part 2 of `MainFsm_proofs`) need to know more of a
handler than that it keeps `IInv`: which timers it starts and stops, what it makes of
the alarm words. One lemma per handler says so, and `Turns`, `OthersPost` and `Steps`
reduce every step to three kinds: a turn of the fsmTask (an event taken, or the wait in
`exitWATER_IN` over, and what its handler did), an event posted or dropped by another
task, or nothing. Over these, each promise has its own strengthening:

- *Status* (`StatusInv`). Of the words as a pair: ERR agrees with the error word in
  every mode, whichever calls a handler combines; RUN goes with the state, in the
  drying machine and while the test machine waits in `exitWATER_IN` too.
- *Curtain* (`CurtainInv`). Unless an event was dropped, the newest curtain event in
  the queue carries the level of the curtain, and with none in the queue the lock has
  it (`CurtainKnown`); a lock is reported, or about to be given up (`LockShown`). The
  exception is the time before the first event: a curtain interrupted at power-up has
  sent none, but then nothing has moved yet. An event that is taken leaves the
  next ones in order, an event that is posted becomes the newest.
- *Timers* (`WakeInv`, `OwnTimers`). A state that waits is armed: its timer runs,
  or the event of this timer is in the queue; the handlers that leave a state stop
  all timers it may have started. Manual operation is left with its timeout running, so `TimersAlwaysOwned` assumes that the PLC does not use it, and says so.
  `WakeupNeverLost` needs no such assumption.
- *Draining*. Which states follow a wet one, from the handlers; mode changes only in
  STOP, from `IInv`. That the draining is completed is not claimed: a stop in WATER_EXH
  raises the cylinder at once (section 7).

The refinement (part 3) adds which stage follows which (`TestMove`, `ModeMove`),
handler by handler; the drive of the cylinder comes from the invariant. The
strengthened invariants of part 2 were checked by TLC on the instances of `promises`,
`curtain` and `cycle` (2.1 M, 0.9 M and 1.4 M states) before they were proved.

### The other components

- *Leak test* (`LeakInv`). Within a cycle every port is measured once and in rising
  order, so whatever was found in this cycle was found at ports whose stage has passed
  (`FoundBefore`): no port gets a second result, and a count of the port measured now is
  of an earlier cycle. The byte of the counters is the sum of the counters of the ports
  in `before` (`Packed`), which gives every single call of `addNgCount` and `clearNgCount`:
  no pair reaches three, so nothing is carried. Drying is asked for once in a cycle at most.
- *Coils* (`CoilInv`). What the network task has loaded belongs to the two bytes of its
  request (`Loaded`), so a write of a command coil never puts back a stale valve bit; and
  the fsmTask writes valve bits only, so loaded command coils are never stale
  (`CommandsKept`).
- *Holding registers* (`ParaInv`). While an event waits, the registers it points at hold
  what it announced, unless another write has touched them, which `overlap` then
  records (`Overlaps`, `QueuedBlock`, `QueuedOpening`). The registers that a complete
  write of the opening has passed hold that write (`Stored`), or the fsmTask has set
  the opening meanwhile. That a full queue never leaves a mixed opening in force needs
  an argument of its own (`OutputWhole`): what is in force was mixed by an event
  taken during the write, so there is room for the event of the write; and if manual
  operation ends first, the opening is set (`OnlyManual`). `ModbusBuffers_proofs` extends
  both modules of the buffers, which is why those of `ParaTransfer` have names of their
  own (`ParaSpec`, `MaxQueue`).
  TLC has checked `LeakInv`, `CoilInv` and `ParaInv` on the instances of their runs
  before they were proved.
- *Mirror*. A register that differs from its word has a message on its way
  (`Copied`); the case that needs care is a word that changes while it is being
  copied, after its low half was loaded. For the leak rates, `Leveled` gives a
  level to every message of the queue: the cycle at which the registers will be once
  it is done. Each MB_TEST_OVER raises it by one, each leak rate fits it, the newest
  level is the running cycle; sending appends a level and taking shifts them.
- *Countdown*. `Shows`: a display that is not behind is the time left, so a tick lowers
  it. The comTask can only lower it, whichever half it writes (`Halves`). `LongSide`:
  what has been read of a display that only falls is at least what the display now has
  in its place, because its value divided by a power of the base is monotone and the
  high bytes come first. `Clock`: a delay that was not set while it ran has counted
  exactly the ticks since it was set. The code shows the time as the bits of a float;
  of non-negative floats these are ordered as the times are, which is all the argument
  uses. The theorem on `OneShot` maps
  `active` to the running timer.
- *Debouncing*. Each counter is the length of the newest run of equal samples, as
  far as its limit (`OnRun`, `OffRun`), and at its limit it has had its effect
  (`Settled`).
- *Server*. The mailbox of a connection holds its requests in order from some number
  on (`Ordered`), and that number follows the request in the buffer, or the last
  answer if none waits; those that wait to be accepted are held, once each
  (`Queueing`).
- *Start-up*. At most one of the two tasks is between the test of the flag and the
  creation once something was created (`Created`), so there are two queues at most
  and the newest is the one that is named.

## 6. Only model-checked

Liveness (`CycleEnds`, `Mirrored`, `Refreshed`, `LastBlockInForce`, `Released`,
`Answered`, `StartEnds`), which TLAPS cannot prove under fairness. Every safety
property and every refinement of section 4 is proved.

`TimersOwned` does not hold with manual operation, which may be left while the
cylinder rises, with its timeout running; it is checked on cycles and proved for any
use of the PLC that leaves manual operation alone.

## 7. Where comments, assertions and code disagree

Run `claim_unlock` shows that a state entry under the lock loses the request to lower
the cylinder, so that nothing drives it after the curtain clears
(`FML_ExtValve.c:113` against `FML_Grat.c:54, 70`).

Each of the following is refuted in the same way by `tlc -config <name>.cfg <module>`,
with a configuration that is kept beside the modules:

| configuration | module | what the code does |
|---|---|---|
| `claim_start` | `MainFsmClaims` | `getAllErr` returns 16 bits and ERR_DRY is bit 16, so a cycle starts with it recorded (`BLL_Alarm.c:126` against `Mersm_Test.c:195`) |
| `claim_stale` | `MainFsmClaims` | a filling timeout that expires during the wait of `exitWATER_IN` ends the draining at once (`Mersm_Test.c:1140` against 691) |
| `claim_assert` | `MainFsmClaims` | the liquid sensor bouncing in WATER_IN starts a running delay, the assertion of `FML_DelayTime.c:90` |
| `claim_debug_timeout` | `MainFsmClaims` | `evTimeout` of the debug machine is called but never assigned (`BLL_MainFsm.c:286`, `Mersm_Debug.c:51-68, 226`) |
| `claim_debug_coil` | `MainFsmClaims` | the debug coil toggles instead of following the written level (`BLL_Modbus.c:487, 493`) |
| `claim_drylimit` | `MainFsmClaims` | after the last allowed pumping a failed leak check purges again; the limit is the literal 50, not `DRY_COUNT_MAX` (`Mersm_Dry.c:17, 205, 227`) |
| `claim_coil_block` | `MCCoilMirror` | of a block of more than eight coils every byte is written over the first eight (`BLL_Modbus.c:455`, compare 446) |
| `claim_coil_level` | `MCCoilMirror` | the level of a valve event is read back from the buffer, where the fsmTask may have put the old one meanwhile (`BLL_Modbus.c:480`) |
| `claim_reset` | `TcpServer` | after a reset `netconn_recv` returns its error for ever, and only ERR_CLSD leaves the loop: nobody else is accepted (`lwip_client_app.c:99`) |
| `claim_singleton` | `StartUp` | the flag is tested, after the wait for the ADC, and set 40 lines later without a lock: the network task, let in by that wait, may be overtaken by comTask in between, and both create a queue and an fsmTask (`BLL_MainFsm.c:57, 92`) |
| `claim_queue` | `StartUp` | the sensor callback is registered before the queue exists, with the sensor timer running (`BLL_MainFsm.c:118`, `queue.c:729`) |
| `claim_instance` | `StartUp` | callback and object are stored one after the other and only the first is tested (`FML_ExtSignal.c:289`) |

Seen while modelling, visible in the model, without a configuration:

- The second stop shows READY although the light-curtain error is set again
  (`Mersm_Test.c:232-239`).
- A stop in WATER_EXH goes to CYL_UP without pumping (`Mersm_Test.c:311` against
  284), which is why `Chamber` lets `Open` follow "draining" in every state of it.
- `EV_SET_PARA` copies the registers through a pointer, so a block that is written
  again while its event waits is in force half old, half new, until the event of the
  second write is handled; if only a part of it is written again no event follows, and
  the mixture stays (`BLL_Modbus.c:384`; `overlap` of `ParaTransfer`).

## 8. Not modelled

- Data acquisition (`FML_Daq.c`): running means and a three-sigma filter over
  floating-point samples, whose arithmetic neither TLC nor the provers have. The state
  machines are checked with every outcome of a measurement. By reading alone: samples
  are kept if they differ from the mean by less than three sigma, so of equal samples
  none is kept and the mean is 0/0 (lines 224-230).
- The leak rate itself (`Mersm_LeakTest.c:902-960`), for the same reason; whether it
  is beyond the limit is a choice.
- The 20 outputs other than the cylinder and the filling valve, as physical outputs:
  they are set by the same loops, and the curtain does not lock them. Of the cylinder's
  outputs the pulse of a few instructions that `valve_setVal` gives under the lock, between
  lines 106 and 113 of `FML_ExtValve.c`.
- What the PLC sees inside a handler that waits: `StatusTruthful` holds between handlers;
  `enterSTOP` keeps the status bits of the state before during its two waits of 1 s.
- `leakDispCb` (`Mersm_LeakTest.c:827-876`), which posts the rate of the port being measured
  every 100 ms, as an action of its own: the rate is of the running cycle, so the free
  choice of `Leak` in `ModbusMirror` covers what `CyclesApart` can see of it.
- Registers that one task writes as a whole (sensors, pressures, version): nothing
  can come between.
- In the network task: joined and split segments, and peers that fall silent.
- `malloc.c`, `my_malloc.c`, drivers, kernel and protocol stacks: vendor code or
  register access; what the program relies on is modelled from its use.

## 9. Plan

Done: every component that holds control logic; proofs of all safety properties and
refinements the runs check.

Next, in this order:

1. Several requests in one segment in `TcpServer`.
2. The filter of the readings with exact integers in place of floating point.
