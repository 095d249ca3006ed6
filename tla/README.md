# PowerDEVS: models and proofs

PowerDEVS simulates DEVS models: atomic models, each with a state, a time
advance, an output function and two transition functions, connected by coupled
models that contain them. This directory holds TLA+ models of the program,
TLC configurations that check them, and proofs for TLAPS. Paths of sources
are relative to the repository (`src/engine/...`); `PROJECT.json` maps every
definition to the lines it models.

    tlc -config MCEngine.cfg MCEngine.tla      # any pair of the table of runs
    tlapm ChildHeap_proofs.tla                 # also Engine_proofs, Tcp_proofs, PacketPath_proofs

## 1. Inventory

### The engine (`src/engine/common`)

| part | state | operations |
|---|---|---|
| `ChildHeap` (coupling.cpp) | `heap`, rows of pairs (time, child): a tournament tree | `create`, `update(child)`, `next()` |
| `Simulator` | `tn`, `tl`, `e`, `father`, `myself` | `imessage`, `lambdamessage`, `dintmessage`, `dextmessage`, `externalinput` |
| `Coupling` | `D`, `IC`, `EIC`, `EOC`, `IC_Index`, `transitionChild`, `heap`, and its own `tn` | `init`, `lambda`, `dint`, `dext`, `ta`, `propagate`, `changemytn` |
| `RootCoupling` | as `Coupling` | `changemytn`, passed on to the root simulator |
| `RootSimulator` | `t`, `tf`, `lastTransition`, `stepsCount`, `maxSteps`, `timed`, and the global `abort_simulation` | `init`, `step`, `step(int)`, `run`, `exit`, `changemytn` |

Everything runs in one thread, by nested calls. `RootSimulator::step` takes
`tn` of the root coupling, calls `lambdamessage` on it, which descends along
the transition children to an atomic model; the output of that model climbs back
and is propagated by each coupling on the way, which calls `dextmessage` on the
receivers *inside* the propagation; then `dintmessage` descends the same
way. Each coupled model keeps a cache of who is next (`transitionChild`, `tn`, the
heap), repaired piecemeal by `heap.update` after each call to a child and by
`ta` at the end of each message to the coupled model. What is hard: all of this
is read and written at different depths of the same call, and one stale entry
makes the simulation execute the wrong model, or at the wrong time, with no symptom.

What makes it correct:
- the tree names the earliest child, the first one on a tie, whatever updates came before;
- between steps every coupling knows its first child and its time, at every level;
- events are executed in order of time, each when it is due, and none is left behind;
- an atomic model is only called between its last and its next transition (0 <= e <= ta);
- an output reaches exactly the inputs that the flattened connections say, in their order;
- the simulation ends, also when models schedule zero time for ever.

### Real time and network input (`src/engine/linux`, `portListeners.hpp`, `queue.hpp`)

State: the clock, the queue of received messages, the table of listeners, the
receiving threads. `waitFor` is called by `step(int)` when the simulation is
timed and by `lambdamessage` for an event with a real time mode; it takes messages
from the queue while it waits and hands them to `externalinput` of the listeners,
so an external input enters the engine in the middle of a pending call and
climbs with `changemytn`. Each port has a thread that receives and enqueues. The
threads write `qtyThreads` and `threadSocket` without a lock, while the main thread
starts the next one; `cleanNet` reads both to close the sockets and to kill and join
the threads, and a process may run another simulation afterwards. Correct: an
event is not executed before its time, an external input leaves the caches as
consistent as it found them, messages are handed in order to those who asked for
them in *this* simulation, and everything is released at its end.

### Atomic models with control of their own (`atomics/`)

- **Petri nets** (`petri/`): places and transitions as atomic models. A transition
  reads and subtracts the tokens of its places directly, then makes them
  announce by `externalinput` what is left. Correct: no token is spent twice or
  lost, a transition that can fire does.
- **Packet path** (`network/packetRED_AQM.cpp`, `packetqueue*.cpp`,
  `packetLinkBandwidth.cpp`, `packetDelay.cpp`, `queueing/JobQueue.cpp`): RED drops
  packets before a queue with a bound, which emits on request of the link it feeds; a
  delay line follows. Each keeps a list and a `sigma` that has to belong to
  its head. Correct: order kept, bound kept, one packet for each request, no stall while
  a packet and an idle server wait for each other, every accepted packet arrives, on time.
- **TCP** (`network/packettcpsnd.cpp`, `packettcprcv.cpp`): sender with a window,
  cumulative acknowledgements, fast retransmit and timeouts. Correct: what the
  receiver accepts is what was sent, in order; progress when the network delivers.
- **Dispatching** (`queueing/Dispatcher.cpp`, `DispatcherStrategies/`,
  `ProcesorSharingServer.cpp`): five strategies that choose a processor, servers
  that share it. Correct: what the strategy believes of the processors matches the jobs
  sent, the choice is what the strategy says, no job is lost.
- **Quantized blocks** (`qss/`): inputs and outputs are polynomials; a block plans the
  instant at which its output has to change and sends only then. Correct: at every
  instant between events the last output agrees with what the exact inputs say,
  whatever inputs arrive just when the block is due; no block goes on for ever at
  one instant. Not all of them are (section 3).
- Routers, demultiplexers, loggers, sources and sinks: one call, one result.
- Vector and classic continuous models, the methods of higher order: numerical
  algorithms over doubles.

### Tools

`src/pdppt` generates C++ from a model file; `src/pdme_v2` edits it; `src/pdif` is
the window that runs it, a state machine (STOPPED, RUNNING, STEPPING) that talks to
the simulation process through pipes; `src/py2pdevs` wraps the engine for Python.

## 2. Plan

In order of importance; each line is a module with its MC module and runs.

1. `MinChild`, `ChildHeap`: the tree, its refinement of "the minimum", proved. *Done.*
2. `Engine`: messages and couplings; `FlatDEVS`, `EngineFlat`: the hierarchy
   implements the flat simulator. *Done, checked.* `Engine_proofs`: its safety and the
   refinement, for models in which nothing is connected to itself. *Done, proved.*
3. `EngineRT`: clock, waits, external inputs. *Done, checked.* Its safety is in
   `Engine_proofs`. *Done, proved.*
4. `TokenGame`, `PetriNet`: places and transitions, the external input from
   `dint`. *Done, checked.* `PetriNet_proofs`: its safety and the refinement. *Done, proved.*
5. `Stream`, `Tcp`: sender and receiver over a network that loses, delays,
   reorders. *Done, checked.* `Tcp_proofs`: its safety and the refinement. *Done, proved.*
6. `PacketTime`, `PacketQueue`, `RedAqm`, `PacketLink`, composed by `PacketPath`, with
   `BoundedFifo` as what they promise. *Done, checked.* `PacketPath_proofs`: its
   safety and the refinement. *Done, proved.*
7. `JobFarm`, `DispatcherStrategy`, `ProcessorServer`, composed by `Dispatcher`.
   *Done, checked.* `Dispatcher_proofs`: its safety. *Done, proved.*
8. `NetThreads`: the receiving threads, over several simulations of one process.
   *Done, checked.* `NetThreads_proofs`: its safety. *Done, proved.*
9. `Trajectory`, `QssSwitch`, `QssIntegrator`, `QssDetectors`, `QssLevels`, composed with
   their inputs by `Quantized`. *Done, checked.* `Quantized_proofs`: all its properties.
   *Done, proved.*

Left: `packetSharedQueue`, nets of places over nested couplings, quantized signals
of the second order. A model of the run interface was planned and is not possible:
the shell at the other end of its pipes is not in the repository.

Every safety property and every refinement of the runs that pass is proved (section 5);
what is left to TLC there is liveness.

## 3. The modules

### `ChildHeap`, refining `MinChild`

`heap[level][p]` is the code's `heap`; levels and positions start at 0 as there.
`CreateRow` fills one row of `create`, `Promote` is one turn of the loop of
`update`; `ChildMoves` is the rest of the program, which gives a child another
time and then calls `update` for it. Times are integers between the children's
times and the padding's 1e100 (`PadTime`). `Match` states the tie rules of `create`; the
three branches of `update` are `Wins`, `Ties` and `LosesToNewWinner`, and
`LosesAgain` is the early exit. `MinChild` says what a heap promises: `next()`
is the earliest recorded child, the lowest index on a tie, as the loop that
`Coupling::ta` keeps in a comment computed it.

### `Engine`

The nested calls are made explicit: `todo` is the stack of calls still to be made or
returned from, and an action takes the top one and pushes what it calls. Local
variables of the code live in these operations (`Eoc` holds the loop counter of
`propagate`; the loops over `IC` and `EIC` read nothing that the calls change, so
they are unrolled when they begin). `tc` is `transitionChild`, read again wherever
the code reads it again. `key` is the first row of the heap; the answer of `next()`
is `First(key)`, which `ChildHeap_proofs!Refinement` justifies. An atomic model
is nondeterministic: any output, any time advance out of `Sigmas`, negative ones
included (`simulator.cpp:247` logs them and keeps `tn`), a call of abort, an
exception (`Throw`). `StepEvent` and its three siblings are the ways through
`RootSimulator::step`.

Not in the state: `tl` and `e` of coupled models, which nothing reads; `output`,
overwritten before each read. Abstracted: doubles are integers, so the rounding
of `t + (tn - t)` in `simulator.cpp:249` is not seen. Assumed: the children form
a tree, couplings are not empty (`ta` of an empty one is 10e20, beyond INF),
connections name children that exist, the first `ta` of a model is not negative (`tn`
would be read uninitialised). That no child is connected to itself is assumed by the
run and by some of the proofs, and named there (`NoSelfFeed`).

### `FlatDEVS` and `EngineFlat`

`FlatDEVS` is the simulator one would write for a model without hierarchy: one
list of atomic models, connections between atomic ports, events in order of time
and, among equals, of position. `EngineFlat` maps a state of the engine to it:
the pending inputs of the flat model are those the stack of calls will lead to
(`Inputs`), the model that acts is the leaf under the transition children (`Leaf`).

The flat model of a tree is given by constants. `Rank` is the order of the atomic models,
those of an earlier child first (`FlatAssumption`). `Route[m, p]` lists the atomic inputs
that the output of `m` at port `p` gets to, and `Reach[m, p]` those that an input of `m` at
port `p` is handed to. `RouteAssumption` defines both by the connections, in the order in
which `propagate` and `dext` follow them: a route consists of what the internal connections
reach and then of the routes that leave the coupling. `Reach` goes down the tree and `Route`
goes up before it goes down, so every finite tree has exactly one of each. For the run
both are written down by hand from the drawing, and TLC evaluates the assumption.

### `EngineRT`

Extends `Engine` with the clock. `wait` says where `step(int)` is: about to call
`waitFor`, waiting, or in `step()`. `ExternalInput` is a whole `externalinput` with its
climb: `Climbers` are the models whose father's `changemytn` is called, `Shown`
the times after each of them ran `ta(0)` over a heap that does not yet know the
change, and the update of the heaps comes last, as the calls return. One step is
enough because nothing runs between; it is enabled only while some `waitFor` waits.
That these recursions end is due to `DepthAssumption` of `Engine`: some model is the deepest,
as in every finite tree.

### `PetriNet`, refining `TokenGame`

The engine is reduced to what a net in one coupling sees of it: `key` (the heap), `tc`
and the models' `sigma` and `tl`; an action is one `RootSimulator::step`. `tokens`,
`list` and `flag` are the fields of `place` (`TimeFlag` 0: nothing, 1: the first token
of the list is due at `sigma`, 4: announce); `enabled`, `working`, `heard` and `told`
those of `transition` and its `DataBase` (`portsinit` is "all ports heard", and stays so;
`told` is what `Update2` keeps). `Start` takes the tokens out of the places by direct
calls; `Finish` is the `dint` that calls `externalinput` of each place: `Asked` follows the
calls, `Ask` is one of them with its `changemytn`, which gives the place its new time
(`TnAsked`) and may move `tc` *before* the heap knows of the place; then `Coupling::dint`
updates the heap at whatever `tc` has become. A time that
is over therefore stays in the heap for the transition itself, until its places announce
to it; `NextIsEarliest` says that this does no harm. `TokenGame` is a
Petri net without time; the marking of a place (`Marking`) is what it has available, what
waits in its list and what transitions have taken for it but not sent.

Left out: nets spread over nested couplings, where `changemytn` climbs further with
stale heaps; sources without delay (they fire for ever at one time); arcs that let a
transition read a place through another coupling's ports.

### `Tcp`, refining `Stream`

The sender's variables have the names of `packettcpsnd`; `BUF_SIZE` is always the size
of the buffer. `Request`, `WaitAppOver`, `Send`, `Sent` and `Timeout` are lambda and
dint in each state, `Data` and the three acknowledgement actions the branches
of `dext`, each with the final switch on `mystate`. The receiver is `Receive`, `Overrun`
(its exception) and `Acknowledge`. Sigma is reduced to finite or infinite: what is scheduled
happens at any moment, so timeouts race everything; in the code INTERPACKET_SND_TIME, the
round trip and T_RTO are parameters or measured, in any relation. `WND_CWND`
is a double; `wnd.CWND` is exactly enough of it: all comparisons are with integers.
External: the queue of the application (it answers a request with one packet, at once or
later) and the network. `Stream` says what a session promises, counted in bytes: taken,
accepted and dropped are read off the three sequence numbers.

Left out: segments of other sessions (ignored by the code), round trip
estimates, loggers; the experimental change of the window, whose interval is empty.

### `PacketPath`, refining `BoundedFifo`

`PacketTime` has what all share: times up to `Inf` and packets with a length. An action is
the lambda and dint of one model with the `dext` of those that receive its output, so that
models due at one instant come in any order; `TimePasses` is the only action that
lets time go on, and only when nobody is due. `PacketQueue` is `packetqueue`,
`packetqueue_simple` or `JobQueue`, by `kind`; `WakeUp`, `Notify`, `Dequeue` and
`GoWaiting` are its internal transitions by `mystate`, `Enqueue`, `Refuse` and
`Requested` its `dext`. The output of the link is the queue's next request
(`packetqueue.cpp:47`). The server of a `JobQueue` asks first, as in
`examples/queueing/basic.pdm` (`asked`). `packetOutputTimes` of the line has the time left to each
packet; its `due` is what the order of arrival makes of it.

`pressed` and `elapsed` remember two things that break one packet per request: a forced
period that was over, and a packet refused at an instant at which the queue was
due: the queue goes to WAITING with sigma 0 (`packetqueue.cpp:135`) and takes that for the
end of a forced period (`packetqueue.cpp:174`). A comment calls the list of the line
sorted (`packetDelay.cpp:54`); it is not when the delay falls through port 1. Then a packet
leaves when those before it have left, which is what `LeavesWhenDue` says. The notice of
a drop in RED may be overwritten by another at the same instant; nothing depends on it.

Abstracted: RED's average and probability (any packet may be dropped), contents of
packets. A service takes at least one unit of time, a forced period is not 0.

### `Dispatcher`

`DispatcherStrategy` has the five strategies and what each keeps: ids of idle
places, or a `ProcessorLoad` each, with its odd first call (`JobFinished`).
`ProcessorServer` is one server per processor. `Dispatcher` composes them with the fan-out
between; `NewJob` is `processNewJob`, `ProcessorPublishes` and `ProcessorFinishes` are
`processFinishedJob`. Times of service are left out: a job goes to any place in the
list of its server, whose first job may be done as soon as time has passed since it came.

What the histories are for: `unpaid` are jobs that arrived while the strategy knew of
nobody idle; they go to processor 0 without account, to be refused there, and are
taken in if there is room after all. `overwritten` are jobs replaced in `nextOutputJob` by
another of the same instant (`Dispatcher.cpp:65`). A job overwritten or refused
is never given back to the account; a server that gets jobs before it has published its
capacity publishes it late, and never if it is full and has to discard. With unequal
capacities JOIN_SHORTEST_QUEUE may take a full processor while others are idle and ends
the program with an exception, and so it may with equal ones once a job that was taken in without
account has finished, which adds a place that the processor does not have; RANDOM does so while it
has heard of no processor. `AccountsExact` and `FailsOnlyUnequal` say that nothing else goes wrong,
and `ShortestQueue` that until such a job finishes JOIN_SHORTEST_QUEUE takes a processor with the fewest
jobs on account (`OnAccount`). A processor of capacity 0 counts one job too many in its record and
is never taken. The loop of `JobFinished` over the jobs reported is a recursive function.

### `NetThreads`

Every access of a receiving thread or of the main thread to what they share is an action:
`threadSocket[qtyThreads++] = sockfd` is three (`OpenSocket`, `WriteQty`, `StoreSocket`),
and each turn of the loops of `cleanNet` is one. The kernel's sockets, `bind` and
the network are external. `raced` records that a thread was started, or `cleanNet`
called, before the last thread had registered: nothing in the code excludes it, and then
threads and sockets may survive the simulation or `pthread_kill` be called for no
thread, as the comment "salta segmentation fault" (`pdevslib.linux.cpp:266`) remembers.
The properties say what holds otherwise. `endNet` is set by `cleanNet`, but never
reset nor read.

`threads` and `threadSocket` have ten entries ("TODO hacerlo dinamico",
`pdevslib.linux.cpp:34-35`), `MaxThreads` in the model, and nobody compares `qtyThreads` with that.
`StartThread`, `StoreSocket` and the loops of `cleanNet` (`ReadPast`) set `overrun` when they use an
entry past the end, which is undefined, so that nothing is said of the process from there on.
`TablesHold` says when that can be: a simulation asks for more ports than there are entries,
or a thread was late and more threads than that were started in the process. A simulation
with too many ports therefore does not reach its end, and `AllReleased` says nothing of it.

`waitFor` returns for `t <= 0` before it looks into the queue (lines 76-77): a simulation that is behind
the clock, or not tied to it, hears nothing. `TimeLeft` is the decision that there is time to wait, `Look`
one turn of the loop. `Arrives` says that messages are heard *if* `waitFor` looks
again and again; nothing in the code makes it. The messages that wait in the queue of the system are not
bounded, so that a full queue, at which `msgsnd` would wait, is not seen.

`Told` is the loop of `alertOfMsg` over the listeners of a port. A port has at most `MaxListeners` listeners (10 in the code); more
are dropped in silence.

### `Quantized`

One block at a time (`kind`), with its inputs: any input may come at any instant, also
before or after the block itself at the instant at which it is due. Beside the block runs
`truth`, its inputs as exact functions of time (the integral, for `qss` and
`qss_bounded`), so that the properties compare the last output with the truth at *every*
instant and not only at events. `QssSwitch` has the switch, `QssIntegrator` the two
integrators, `QssDetectors` the hysteresis, the two cross detectors (one sends what came
last on its port 1) and the comparison, and `QssLevels` the saturation, the quantizer and the
signal filter. `Trajectory` has the signals: value, slope, and `tiny`
for the nudges of 1e-20, 1e-14 and 1e-6 by which the blocks keep off a level, which have a
sign and move no clock. Signals are of the first order, values and times whole, slopes -1, 0 or
1, `dQrel` is 0. `MaxV` bounds the signals, a quantum is at most `MaxV`, and `Inf` is beyond
every time a block can plan (`QuantizedAssumption`). The data inputs of a switch move like its
control, since `lambda` advances them to its own instant, but start within `MaxData` (1 in the run,
`MaxV` or less in the proofs). Inputs that are narrower than that: of two inputs of a comparison one
does not move, a signal filter's input moves at most 1 faster than its output, an
integrator and the output of a `cross_detect_withDynamicOutput` read values only. Arithmetic is exact: the rounding of `e`
against `sigma` is not seen.

`astray` marks the cases in which a block is known to be wrong, each until what puts it
right, and the properties except exactly these:
- a switch gets an input, of any port, while it is due with its control on the level: at the crossing it has
  planned, which is the main case, it sends the wrong input, or its transitions go on at that
  instant for ever, against "If u1>level then y=u0. Otherwise y=u2"
  (`hybrid.pdl:230`). `Selects` excepts it until its control comes again, at another moment than
  such a one. That it may go on for ever is `Cycling`: after a data input at the
  crossing `dext` makes `tcross` 0, and `dint` changes side and plans `tcross` again (`qss_switch.cpp:79-88`, 33-35, 43). In exact arithmetic
  only a control at that instant ends it; `Settles` says so, and that nothing else goes on;
- a bounded integrator loses a derivative. `dint` plans `dQ / |X1|` without a look at the bound
  (`qss_bounded.cpp:51-55`), so that the state may go below it; from then on *every* positive derivative, at
  any time, is lost: `dext` plans a transition at once (97-99), and `dint` makes the derivative 0 (43-45).
  So is one that comes when the block is due at its bound, and the one it has when it is given a state while at the
  bound. `WithinQuantum` excepts it until it is given a state while it is not at its bound, or has
  the right state and derivative again;
- a hysteresis whose levels are not opposite, after its own crossing, until the next
  input; and when an input comes before its first output at time 0;
- a cross detector whose input jumps over the level while it moves back towards it (`cross_detect.cpp:23`);
- a comparison of which the inputs cross as they move (the finding below), or of which a change
  planned at time 0 is undone by the next input of that instant;
- a saturation that starts beyond a limit (`xl > 0` or `xu < 0`) and gets an input of time 0
  beyond the same limit before its first output: `dext` replaces the planned output by the next
  crossing (`qss_saturation.cpp:145`), and the limit is never sent.

A saturation whose input is on a limit other than 0 and moves inwards looks again 1e-3 later
(`qss_saturation.cpp:74`). Without that it "would cycle indefinitely": `SaturationDintCycles` is
the same block without it, and breaks `Settles`. The 1e-3 move no clock of the model, so that
`SaturationRight` says nothing of that millisecond.

## 4. Runs

| run | question | instance |
|---|---|---|
| `child_heap` | is `next()` right after any updates | 5 children, three times: odd rows at two levels, all ties |
| `engine` | order of time, caches, elapsed times; does `run()` end; does the hierarchy deliver what the flat model would | tree of three levels with feedback at two of them, two ports; models may answer 0 for ever |
| `engine_rt` | what survives a clock and a network | one listener inside a coupling, a source beside it, two messages |
| `engine_rt_sync` | *violated*: events wait for their own time | the same, no event in real time mode |
| `petri_net` | do the blocks play the token game, in every order of the models | two transitions compete for one place, a source, a triggered transition |
| `tcp` | order of the stream, safety of buffer and position; does the stream arrive | 3 packets, two segments and two acknowledgements under way, all lost or reordered at will (359,403 states) |
| `tcp_confirmed` | *violated*: what the other end confirms leaves the buffer | as `tcp` |
| `packet_path` | order, bound, time and progress from RED to the end of the line | 4 packets, one of double length, capacity 2, each kind of queue with and without forced period, two delays (98,732 states) |
| `dispatcher` | are the accounts right, the choices as promised, has every job an end | 4 jobs, 2 processors with equal or different capacities, each strategy (100,540 states) |
| `net_threads` | is everything released, do messages reach those who asked, in order | two simulations, two ports, tables of two entries, a listener too many, two messages (219,477 states) |
| `quantized` | does the last output agree with the exact signals at every instant | ten blocks, values -2 to 2, data of a switch -1 to 1, two levels, three bands, two quanta (229,964 states) |
| `quantized_compare` | *violated*: the output of a comparison tells which input is larger | a comparison, values -2 to 2 |

Bounds. `Tf = 2` and `MaxSteps = 2` allow several events at one time and at later
times, simultaneous ones in different branches, and the guard against illegitimate
models; nothing in the code depends on the size of times, only on their order, and
the time advances {-1, 0, 1, 2, INF} give every order between three models. The
tree has an atomic model at each level and a path up through two couplings and down
through two; connections fan out within one coupling and to two levels at once.
`RtMax = 5` lets the clock lag behind the simulation and run ahead of it, past
`Tf = 4`; a message makes its listener due at once or passive, so that it may matter to
no coupling above. Deadlock is not checked for the engine: a simulation ends.

`petri_net`: 24 orders of the places and transitions, delays 0 and 1 in every combination,
`Tf = 2`: conflicts at one time, tokens that become available while others are
announced, a place that is input and output of one transition. `tcp`: three packets
need a window that opens and two halvings; `DUP_ACK_LIMIT = 2` is reached by the
answers to retransmissions; `MSS = 2` keeps sequence numbers and counts apart. Deadlock is
not checked: a net may be dead, a session over.

`packet_path`: capacity 2 with packets of length 1 and 2 is exceeded by one
packet or by two; four packets fill queue, link and line at once and leave one to be
refused; the delay changes by 3 while services take 1 or 2, so that packets overtake
their predecessors' times; a forced period of 3 ends while the link is busy and while it
is idle. `dispatcher`: four jobs fill capacities 1 + 1 or 1 + 2 and leave one to refuse, at one
instant or over time. `net_threads`: three threads, of which any may be late, a second
simulation on a port of the first, and a message of each; tables of two entries are full after the
first simulation, and a late thread drives the process past them. That a simulation with
more ports than entries does so without a late thread needs a third port and is too large for TLC;
`TablesAlwaysHold` covers it. `quantized`: values of -2 to
2 leave both sides of every level and quantum. A signal that would leave the range stops time until an
input comes; `e` is cut off after `2 * MaxV`, by when every moving signal has left. Deadlock is not
checked there for the same reason, and in the others because jobs, packets or
simulations come to an end.

Fairness. The engine's `FairSpec` has weak fairness of `Next`: `run()` calls `step` in a
loop, in one thread that the operating system schedules. `Tcp!FairSpec` has weak
fairness of what the models schedule and of the acknowledgements' arrival, and strong
fairness of the arrival of each segment: a network that loses some but not all of its
retransmissions. `PacketPath` and `Dispatcher` have weak fairness of the internal
transitions and of the passing of time: the root simulator executes what is due and then goes
on to the next event; nothing is assumed of sources. In `PacketPath` the server asks for its
first packet in the end, and in `Dispatcher` the first job of a server is done after
a time. `NetThreads` has weak fairness of each thread and of the main thread in what it has begun, but
neither of `TimeLeft`, since nothing makes a simulation wait for the clock, nor of the end of a
simulation, which may come or not: that `waitFor` looks again and again is a premise of `Arrives`. `ChildHeap`, `PetriNet`, `EngineRT` and `Quantized` state
safety only. Nothing is assumed of the atomic models but that their functions return.

### What the violations show

- **`engine_rt_sync`.** `setRealTime()` "Sets if the simulation should synchronize
  all events" (root_simulator.h:60). `step(int)` waits for `t`, but `t` becomes the
  time of the next event only in `step()`, after the wait. Three states: time 0,
  next event at 2, nothing to wait for, executed. Each event is executed when
  the one before it was due.
- **`tcp_confirmed`.** The receiver's acknowledgements are cumulative: they carry "the
  most recent ACK number" (packettcpsnd.cpp:377). The sender accepts only the one it expects
  next. When an acknowledgement is lost, or one overtakes it, the next one confirms two
  packets and is ignored. If the first one is lost, so is every later one, as the receiver never
  confirms less again: the sender retransmits until the end of the simulation.
  `AllAcknowledged` of run `tcp` shows that this is all that prevents progress: as long as no
  acknowledgement is lost or overtaken (`ackLost`) everything arrives and is acknowledged.
- **`quantized_compare`.** "The output is yu when u0>u1. Otherwise, the output is yl"
  (logicalOperators.pdl:469). When the inputs cross as they move the output
  changes rightly; `dint` then sets the difference to 1e-6 on the side that was left
  (compare.cpp:42), so the block finds another crossing 1e-6 later, sends the wrong output and
  keeps it until an input comes.

Seen while modelling, without a run, because no document says otherwise: a message
that arrives while the simulation is ahead of the clock (see `engine_rt_sync`) is stamped
with the clock, so that models may get a negative `e` (simulator.cpp:297);
`changemytn` computes `transitionChild` before `heap.update(child)` (coupling.cpp:211), so that in
real time a step may start with a child that is not the first; threads that are late, and tables
of ten entries (see `NetThreads`). The switch at its own crossing does contradict the words of
`hybrid.pdl:230`; it is stated as an exception of `Selects` and as `Cycling` in `Settles`, and section 3
says how it comes about.

## 5. Proofs

`ChildHeap_proofs` proves for every number of children and all times: `TypeOK`
(every pair that `update` reads exists, though rows have odd widths), `HeapInv`,
`NextIsFirst`, and that the tree implements `MinChild`. The assumptions are those of
the module: at least one child, all times below the padding. The inductive invariant is
`HeapInv`: every node above the leaves repeats the winner of its pair, except,
during an `update`, the one match under way, for which the branch not yet climbed is
still right for the *old* time of the child. This exception is what the early exit
rests on: when a match keeps its winner, and that winner is not the child
itself, nothing above can change. `NextIsFirst` follows by induction on the
height of the tree, with the lemmas on `Children(level, p)`, the leaves below a node.
What several proofs share stands at the head of each module that uses it: the least number of a
set (`LeastNatural`), induction over the naturals as a fact about a set (`InductiveSet`), and functions
defined by recursion over them (`NatRecursion`).

`Engine_proofs` proves for every tree of models, every list of connections between
them and whatever the atomic models answer: `TypeOK`, which needs `UnderWay` as well (an
event under way is not past the end), and `HeapsKnowTimes`. The hazard behind the
second is that `Coupling::dint` calls the transition child and afterwards reads
`transitionChild` *again* to tell the heap which child was called. The invariant
that excludes it is about the stack of calls: either it is `Outward`, the calls of
outputs, which know by themselves whom they call, above the one `dintmessage` to
the root; or it is `Inward`, one path of the tree from the root along the transition
children, with a pending return at each coupling. A return changes the transition
child at the lower end of the path only, and `Level` says that no other coupling
of the path is that one. Assumed are `TreeAssumption` (the models form a tree
and no coupling is empty), `ConnectionAssumption` and `TimeAssumption`, as in the
model. The loops over the connections are a recursive function (`Serve`), whose
value is shown by induction to be calls of children of the coupling.

What follows is about time: no event is left behind (`NothingEverMissed`), `lambda`
is called on a model that is due, and none is due before it (`ImminentAlwaysFirst`), no
elapsed time is illegal (`ElapsedTimeAlwaysLegal`), and between events each transition
child is the first of the heap (`TransitionChildAlwaysFirst`). They need `NoSelfFeed`: no
internal connection of a coupling leads from a child to the same child. The simulator
itself does not forbid it, DEVS does; and without it the properties are false. When
`dext` of a coupling is called by its father because of its own output, it computes
`transitionChild` while its own `dintmessage` is still to come, and the `dintmessage`
then goes to another child than the one whose `lambda` was called. TLC shows it with
three models: `A` holds `a` and the coupling `B`, `B` holds `b` and `a1`, `A` is
connected to itself in `Top`, and `b` is connected to `a1`. None of the 50 models
(`*.pdm`) in the repository, with 407 couplings and 4076 lines between ports, has such a
connection.

The inductive invariants are `CallInv` and `TimeInv`. `CallInv` says what the stack may
be, by means of a set `U` of couplings: the part of the path of transition children
(`PathFrom`) that `dintmessage` has still to go down. Either the event is `Descending`, a
`lambdamessage` on its way down the path to the first model; or `Outgoing`: the outputs
climb the path, each call on the stack is legal (`LegalCall`) in the sense that a
coupling outside of `U` which is given an input returns later and then computes its first
child, and a coupling in `U` is given none, which is where `NoSelfFeed` is needed; or
`Entering`, `dintmessage` going down, with a pending return at each coupling; or
`Leaving`, only returns. So every transition child that is not the first is one
that a call on the stack is going to put right. `TimeInv` says that no model is due
before the time of the event, and none has its last event after it.

`EngineImplementsFlatDEVS` is the refinement, also under `NoSelfFeed`: each step of the engine is
one of the flat model or one it does not see. Four facts carry it.
- `FlattenSeq` of the community modules distributes over concatenation (`FlattenConcat`), though
  it is a recursion that the prover cannot expand: two lists are compared by their partial joins
  (`Joins`). So the inputs of a stack are those of its parts (`InputsConcat`).
- A call is replaced by calls that lead to the same inputs: `InputsServed` for the loops over
  connections, `InputsEntered` for an input of a coupling, `InputsPropagated` for an output, and
  `InputsTurn` for one turn of the loop over `EOC`. Such steps are not seen.
- The model that acts is the first of those due earliest (`LeafEarliest`): when every coupling is
  in order, the first child of each holds that of its atomic models, by induction over
  the tree (`TreeInduction`). `Leaf` is a recursion too; that it is defined everywhere is shown
  from the deepest level upwards (`DownExists`).
- It stays the same model while its output is served, though inputs change transition children.
  `CallInv` has a path `U` that they leave alone; `FlatInv` adds that this path ends in the model
  whose output is being served (`Ends`). So `dintmessage` arrives where `lambdamessage` did, and
  what is left of the outputs (`Passed`, which reads `transitionChild`) is not disturbed.

The last part of `Engine_proofs` is about `EngineRT`: `HeapsKnowTimesInRealTime` for every tree,
every choice of listeners and of events with a real time mode, and any number of messages at any
time (`MaxMessages` and `RtMax` are arbitrary). `ExternalInput` changes times, heaps and transition children in
the middle of an event, which is just what the two kinds of stack seem to forbid. It does no
harm because it comes only while nothing is called or while an output waits (`RtOutward`):
then no call has read a transition child that it will need again. What a message changes
is given by two recursions over the tree, up (`Climbers`) and down (`Shown`); that they are
well defined is shown by induction from the deepest level, for which `DepthAssumption` is needed.

`Tcp_proofs` proves every safety property of the `tcp` run, and that a session
implements `Stream`, for every packet size, limit, threshold and number of packets, and
whatever the network loses, delays or reorders; `TcpAssumption` is all that is assumed.
The invariant adds three parts to the properties. `Order`: an acknowledgement under
way never exceeds what the receiver expects, which never exceeds what was taken from
the application, so that the acknowledgement a sender expects finds its packet in
the buffer. The receiver answers `MSS` before it has accepted anything, which the
first expected acknowledgement, `MSS + 1`, can not be taken for. `Position`: while
nothing has been sent nothing is under way, and the position is 0 only before the
first packet; this is what keeps `dint` from reading a segment that does not exist.
`Window`: beyond the limit of duplicates the threshold is at least 1, because fast
retransmit has set it; the end of fast recovery makes it the window, so an initial
threshold of 0 never closes it. `RemoveAtElements` and `AppendElements` say what a
channel holds after a message has gone or come. `NoneIsSkipped` and `WindowStaysOpen` are
proved although no run lists what they state.

`PacketPath_proofs` proves for all packets and lengths, every capacity, period and delay, and each kind
of queue: `TypeOK`, `DueWithSomething`, `OnePerRequest`, `NotStranded`, `LengthKnown` and
`LeavesWhenDue`. What is inductive is `IInv`: `RedInv` and `LinkInv`, which tie each `sigma`
to the list it belongs to; `QueueInv`, with `QueueDue`, the phases in which a queue may
sleep; `LineInv`, in which `DueInOrder` says that the instants at which packets may leave
never decrease though the times given to them may; `WillNotify`, that a length that has
changed is going to be told; and `Token`, the heart of the argument: the right to send
the next packet is at the server's request, in the queue, or with the one packet in the link,
and in one of these places only unless a forced period or a refusal has made a second.
That queue, link and line together implement `BoundedFifo` rests on two facts more. `BitsRight`:
the counter `qSize_bits`, which the code adds to and subtracts from, is the length of all
that wait (`Size`, a recursion over the list, of which it is shown by induction what a packet
at either end changes). And what is on the way (link, then line) is one list, at the end of which
the queue puts its packet and from whose head the line sends one, since the line is served in
order and not by the times in it.

`PetriNet_proofs` proves for every net, every order of its models and all delays that the
blocks play the token game: `ImplementsTokenGame`, `NextIsEarliest`, `FiringUndisturbed` and
`NoneForgotten`. `NetAssumption` is all that is assumed: at least one place, no model of two kinds,
lists that name each model once, finite delays. What makes it hard is the call in the middle of `dint`, after which the heap may keep a time that is over.
`NetInv` is `TypeOK`; `OnTime`, no model is late; `Pending`, a place that is to announce
is due now; `Firing`, a transition that has taken its tokens is the next to be called; and
`KeysRight`, the heart of it: a time in the heap is right, or it is that of a transition that has
come to rest but is recorded as due now, and then one of *its own places* stands before it in
the order and is due to announce. So it is never first: the place is called before it, and its
announcement makes the coupling read the transition's time again. `WordInvariant` adds
what is known of tokens: `ToldRight` and `EnabledRight` hold for the places that are
`Settled`, those with nothing to announce, now or when a transition that is firing has
finished. For the refinement each step is shown to be a firing of the game or to leave
all markings alone; the order in which `Take` and `Give` visit the places does not
matter, as each is listed once.

`Dispatcher_proofs` proves for any processors, jobs, capacities and strategy `AccountsExact`,
`FailsOnlyUnequal` and `ShortestQueue`; `FarmAssumption`, `StrategyAssumption` and `CapacityAssumption` (a
capacity is a natural number) are all that is assumed. The inductive invariant is `DispatcherInv`.
`OnePlace`: a job that is not finished waits in the dispatcher, is being forwarded or stands in the
queue of the processor it was assigned to, in one of these at most and once, so that nothing is
reported or given back twice. `PublishedOnce`: a server that is still initializing has not
published. `LoadsExact` is about the table of records: each processor once, in the order of their jobs
for JOIN_SHORTEST_QUEUE, none with more jobs than it may have, and as long as no job taken in without account
has finished (`Guests = {}`) `currentJobs` is the number of jobs on account less one. `TotalExact`: the
total is the number of idle places that the records have together, as the cardinality of a set of pairs
(`Slots`), which needs no sum. The lemmas at the head say what `InsertAt`, `RemoveAt`, `SelectInSeq` and `\o`
do to a sequence and a sorted insertion to the table. The case of `SetIdleProcessor` in which two arms
of a CASE could hold at once was found by the proof, and put right after the source.

`NetThreads_proofs` proves for any requests, ports and messages and every interleaving:
`TypeOK`, `AllReleased`, `TablesHold`, `InOrder` and `RightListeners`, for tables of any size. The types alone need `InBounds`:
that there are never more threads than ports asked for, nor a `qtyThreads` beyond the
threads that have written it, is an argument about cardinalities; it also says that nothing past the tables is
used before more than `MaxThreads` threads have been started, late or not. That without
a late thread it takes a simulation of more ports than that is `Few`: the threads of this simulation are no
more than the ports it has asked for. The next three rest on
`Timely`: as long as no thread was late (`~raced`), there is a number `lo` of threads of
earlier simulations, all ended and closed, and the threads after it are `Orderly`: the
i-th has the i-th entry of `threads` and `threadSocket`, and at most the last one is
still at registering. `Killing` and `Joining` follow the two loops of `cleanNet` through these
entries. For the order of messages, `OrderKept` follows a message through all the places it
waits in, the kernel's buffer of the socket, the thread's, `netQueue` and what has been
heard: at every moment one port has one line (`OnePort`, which needs `Timely`, since
a thread that survives its simulation would be a second one) and the numbers along it rise.
`RightListeners` speaks of the requests only and not of the lists: who is to hear a message is a
recursion over the requests of the simulation (`ToHear`). `Listed` says where a request is in
the list of its port, by counting the requests for the port ahead of it; with it the loop of `alertOfMsg` over
the list is shown, by induction over the requests, to tell the same as `ToHear`. That is so
whether threads are late or not. `OfThisSession` says, if none was late, that whatever is under way in a socket, a
buffer or the queue was sent during this simulation.

`Quantized_proofs` proves every property of the `quantized` run, for every quantum, level,
band and bound that `QuantizedAssumption` allows: `WithinQuantum`, `SideKnown`,
`HysteresisRight`, `ComparesUnlessAstray`, `Selects` and `Settles`, with the exceptions that
`astray` and `Cycling` make in the properties and no others. A block keeps its input as of its last
transition, the properties are about the input now, so each block has an invariant that ties
the two: what it has planned (`sigma`) is when its input, moving as it does, comes to the next
level, and until then it is on the side of the level that the output says. For a
detector that is `Toward`, `Across` or `Away`, for a comparison `Closes`, `Wrong` or
`Opens`, and so on; `QuantizerInv` allows an input on the upper end of its band only
when it falls and there is no hysteresis. That a block comes to rest at every instant, whatever
inputs come, is a rank: `SaturationRank` is the number of transitions that are still to come
now, and with those made it is three at most; a cross detector and a quantizer need two. A switch makes
one, or is `Cycling`, and `CyclingStays` shows that no step but a control's leads out of that. All invariants together,
`BlocksInv`, were also checked by TLC in the states of the run.

Only model-checked, and why:
- liveness (`Terminates`, `AllAcknowledged`, `Delivered`, `Served`, `Arrives`): the prover has
  no fairness.

## 6. Not modelled

`PROJECT.json` lists every part with its reason. In short:
- input and output: files, processes, the Windows library, Scilab, Python, loggers,
  sources and sinks, hardware and UDP models;
- the code generator and the editor: sequential translations of text and a graphical program;
- the run interface: its other end, the shell that answers its commands, is not in the repository;
- numerical algorithms over doubles: classic and vector integrators, hybrid flows, QSS of second
  and higher order, bqss, cqss and liqss, static functions;
- blocks read and left out: `packetSharedQueue` (several queues over one memory), the ECN variant
  of RED, routers and demultiplexers (one lookup in a table that does not change),
  `boundaryDetect` (its `lastT` is read before it is written, so that its first output is arbitrary),
  `qss_saturation1` (no library uses it; its `sw` is read before it is written), samplers and
  the blocks of `hybrid/` that no library uses;
- of parts that are modelled: nets of places over nested couplings, a second `init` of the same
  couplings, TCP's retransmission times and segments of other sessions.

The repository also holds a large tree of generated parsers, libraries of random numbers and
examples; only the parts above have state that several calls share.
