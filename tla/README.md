# Verification of the taggy workspace in TLA+

taggy is a ROS 2 workspace for a Unitree Go2 robot dog with a Hesai lidar.  This
directory holds TLA+ models of the parts of it in which order matters, model checks of
them with TLC and proofs about them with TLAPS.  Every definition follows the source;
`PROJECT.json` names the lines under `map`.

Contents: the system (inventory) - the modules - runs - bounds - fairness - proofs -
findings - what is not modelled - plan.

## 1. The system

### Operator's command path
| part | state it keeps | operations | correct when |
|---|---|---|---|
| `keyboard_teleop.py` | own emergency flag, two speeds | one key per loop turn; ESC, exception, Ctrl-C | X always stops; R releases; leaving it leaves no velocity in force |
| `go2_control_node.cpp` | `estop_active_`, one reused request message | three subscription callbacks on one thread | while stopped, no velocity reaches the robot after the DAMP |
| `sport_client.cpp` | none | fills the request and publishes it on `/api/sport/request` | the request says what the call said |
| ROS topics | histories of depth 10 | publish, take | order per topic only; the oldest goes first when full |

The teleop talks to the node over three topics with no order between them.  Two flags
for one stop - the teleop's belief and the node's - are updated on different evidence,
because a posture command clears the node's flag without telling anybody.

### Direct UDP path
| part | state | operations | correct when |
|---|---|---|---|
| `go2_velocity_controller.py` | last Twist and its time, stop flag | two subscriptions, a 50 Hz timer, shutdown | stop is the last word; motion ends after the timeout; limits hold |
| `go2_sdk.py` | current command, current state, socket, receive thread | `set_velocity`, `stop`, `stand`, `disconnect`; state parsing | a datagram carries one whole command |
| `go2_odometry.py`, `go2_state_publisher.py` | a timer each | publish what `go2_sdk` received | - |

### Lidar driver (Hesai SDK and its ROS wrapper)
| part | state | operations | correct when |
|---|---|---|---|
| `Container` (`Ring_SDK`, `BlockingRing`) | slot array, first, size; mutex and one condition variable | push, pop, poll with timeout, clear | a bounded queue; nobody sleeps on while he could go |
| `driver/hesai_lidar_sdk.hpp` | running flags, three threads, the callbacks | `Init`, `Start`, `Stop`, `Run` | a published frame is whole; `Stop` returns |
| `Lidar/lidar.cc` | receive, parser and handle threads, index queues | receive, parse, hand out, compute, record | each queued packet is computed once, for its frame |
| `UdpParser/*`, `lidar_types.h` | the frame, per-slot packet data, completion count | `DecodePacket`, `ComputeXYZI`, frame split, loss counts | a frame is one turn of the mirror |
| `UdpParser/*` as decoders | last azimuth, frame or column number, rotation votes, sequence numbers, the second decoding after a split | `DecodePacket` of the version parsers, `IsNeedFrameSplit`, `CalPktLoss`, `CalPktTimeLoss` | frames end where turns do; each packet is in one frame; counts are exact |
| `serial_source.cc` | byte buffer with two indices, two rings, receive thread | `Open`, `Close`, `Receive`, `ReceivedThread` | packets are those sent, however the bytes are cut; `Close` returns |
| `tcp_source.cc` | byte buffer, ring, thread that reconnects | the same over a connection | the same, across reconnections |
| `pcap_source.cc` | mapped window of the file, position, TCP payload buffer | `Open`, `next`, `Receive`, playing again | every recorded packet once, in order; playback ends |
| `pcap_saver.cc` | packet cache, write buffer, dumping thread | `Dump`, `Save`, `close`, start and stop by the Lidar | a recording holds what came while it was on |
| `ptc_client.cc` | one TCP connection and its timeouts, a mutex | `QueryCommand`, upgrades, the calls with longer timeouts | an answer belongs to its query; timeouts are put back; a query returns |
| `serial_client.cc` | the lidar's mode, the acknowledgement ring of `serial_source.cc` | queries that switch the mode, upgrade by boot loader | the mode is put back; 0 means it is done |
| `logger.cc` | queue, thread, running and exit flags | `Start`, `Stop`, `AddToQueue`, `threadfunc` | queued lines are written; `Stop` returns |
| `source_driver_ros2.hpp` | publishers, spin thread | registers callbacks, converts frames | callbacks run only on a live driver |

What is hard here: callbacks and timers that find a flag somebody else has changed;
threads that share a frame and agree about it only through a count; one condition
variable for two kinds of sleepers; datagrams that vanish; shutdown while a thread waits.
`PROJECT.json` lists these hazards at their lines, with the properties that cover them.

## 2. Modules

| module | models | composed by |
|---|---|---|
| `RosTopics` | the four depth-bounded topics | `SportClient` |
| `SportClient` | the node's robot API: requests in a reused message | `Go2Control` |
| `Go2Control` | `go2_control_node`: one action per callback | `TeleopStack` |
| `KeyboardTeleop` | `keyboard_teleop`: one action per key branch, exit, restart | `TeleopStack` |
| `TeleopStack` | all of it with foreign publishers and the robot | `MCTeleopStack` |
| `EStopGate` | abstract: a gate on the stream of robot requests | refined by `TeleopStack` |
| `Ring` | `Ring_SDK`: indices modulo the array, unsigned size | `BlockingRing` |
| `BlockingRing` | monitor, wait set, `notify_one`, timeouts, spurious wakeups | - |
| `BoundedDeque` | abstract: a bounded double-ended queue | refined by `BlockingRing` |
| `FramePipeline` | `Run`, `ParserThread`, `HandleThread`s, the frame, the count | - |
| `SdkLifecycle` | `HesaiLidarSdk::Init`, `Start`, `Stop`, `InitThread`, `Lidar::Init`, its threads, `~Lidar` | `MCSdkLifecycle` |
| `Go2Sdk` | `Go2HighLevelInterface`, command side, lossy datagrams | `VelocityController` |
| `VelocityController` | `go2_velocity_controller` over a discrete clock | `MCVelocityController` |
| `SerialStream` | `SerialSource`: pieces of bytes, its packets and acknowledgements, two rings, `Close` and reopening at any time | `MCSources` |
| `TcpStream` | `TcpSource`: pieces cut into packets, connections that end or break | `MCSources` |
| `PcapReader` | `PcapSource`: records through a mapped window, UDP and TCP payloads, loops | `MCSources` |
| `PacketDecoder` | `DecodePacket` in its four shapes, rotation votes, loss counts, the frame `Run` builds | `MCSources` |
| `FrameClouds` | what `ComputeXYZI` writes and `Run` makes of it: the array of points, gaps closed, the remade grid, merged frames | `MCSources` |
| `SerialClient` | `SerialClient`: one exchange per step, the lidar and its boot loader | `MCServices` |
| `PtcClient` | `PtcClient` and the socket calls it makes, threads that share it, a lidar that resets the connection | `MCServices` |
| `PcapSaver` | `PcapSaver` and its callers in `Lidar` | `MCServices` |
| `Logger` | `Logger`: callers, thread, `Start` and `Stop` | `MCServices` |
| `TeleopStack_proofs`, `BlockingRing_proofs`, `VelocityController_proofs`, `SdkLifecycle_proofs`, `FramePipeline_proofs` | theorems | - |
| `Services_proofs` | theorems about `MCServices`: the PTC client, the serial client, the recordings | - |
| `Sources_proofs`, `Frames_proofs` | theorems about `MCSources`: the TCP, pcap and serial sources; the decoder, clouds and grids | - |

How state and actions correspond to the code:

* *A callback is one step* in both nodes: they are spun by a single thread.  Which of
  several waiting callbacks is served next is left open, which includes the order the
  executors of `rclcpp` and `rclpy` take.
* *A visit to the ring's monitor is one step*: the mutex is held from the call, or the
  wakeup, to the return or the next wait.
* In `FramePipeline` *a step is what no other thread can cut in two*: taking an index from
  a queue, starting and finishing `ComputeXYZI`, one test of the completion count and,
  separately, the assignment of zero that follows it.  A slot of the frame is remembered
  by whether it holds a packet of the current frame and whether its points were computed
  from such a packet; coordinates are not.  `ComputeXYZI` may see the slot as it was when
  the thread began or as it is when it ends.
* `SdkLifecycle` gives every thread a place in its code; a step runs to the next read of a
  flag another thread writes, or the next wait.  Packets and indices are counted only: what
  happens to them is the subject of `FramePipeline`.  `PtcChanges` stands for the network.
  The flags are plain `bool`s; every loop that polls one calls a function the compiler cannot
  look through, so that it is read anew each time, and this is how they are modelled.
* `VelocityController` counts time in ticks.  Ages stop at `OldAge`, one past the largest
  value any guard or property tells apart.  A float is an integer or `NaN`, and Python's
  `min` and `max` are modelled with their treatment of `NaN`, which depends on the order
  of the arguments.  `unheard` is a history variable.
* *Streams are cut into units, not bytes*: a unit is what no guard of the code looks
  inside of (a marker, a kind, the rest of a message).  A piece that arrives may end after
  any unit, so that a packet is seen in every incomplete form that differs for the code.
  Each unit carries where it came from, and the properties compare what was handed on
  with what was sent.
* `PacketDecoder` numbers the packets, loses some, and gives each what its parser looks at:
  azimuth, frame number, column, sequence number, time stamp.  `done` is what the last frame
  was made of, and the properties compare it with the turn the packets are of.
* In `PtcClient` and `SerialClient` *an exchange is several steps*: the command is sent,
  the answer comes or does not, the wait ends.  An answer names the command and not the
  call it is for, as on the wire; the model remembers which call it was.
* `MCSources` and `MCServices` hold several modules that do not interact: variable `part`
  says which of them runs, and the other modules' variables are `"unused"`.  Their
  reachable states are the disjoint union of those of the modules, so that one run checks
  each on its own instance.  The instances' parameters are constants of the two modules,
  given their values in `sources.cfg` and `services.cfg`, so that the theorems hold for all of
  them; only `Waits`, a small second instance of `PtcClient` for liveness, is fixed.
* Definitions headed *Fault* are the plausible bugs against which the properties are
  tried (`mutants`); no specification uses them.

## 3. Runs

| run | asks |
|---|---|
| `stack_any` | any keys, foreign traffic on all topics, teleop ended and restarted: types, `MovesPrecedeDamp` (a MOVE still queued while stopped has a DAMP behind it) and the refinement of `EStopGate` |
| `stack_live` | one teleop alone: its belief and the node's flag agree where R and X rely on it (`ReleaseKeyReleases`, `NoPhantomStop`), quitting leaves no motion, and a stop reaches the robot |
| `stack_patient` | an operator who waits between keys, foreign velocities: X sticks and the robot ends damped |
| `stack_second_stop` | *violation*: the same with the balance posture |
| `ring` | two producers, a poller that polls again, clears: the ring is a deque (`DequeSpec`), and a producer asleep while there is room wakes up although notifications go astray |
| `pipeline` | one to three computing threads, splits by packet and by silence, overlong frames: frames are published whole, the callbacks are alone with them, no packet is written over one being computed, the wait ends |
| `lifecycle` | socket with PTC and two handle threads, socket with fault messages, TCP; sources that do not open, lidars never recognised, PTC that comes and goes, a `Stop` while the init thread still works: no thread but that one outlives the deleted Lidar, one decoder at a time, no point before its corrections, `Start` and `Stop` return |
| `lifecycle_two_sockets` | *violation*: a receive thread that never exits |
| `velocity` | Twists good, excessive and NaN, stops, releases, lost datagrams, shutdown: limits, last word, age of motion, and the robot comes to rest |
| `sources` | serial line with acknowledgements in between and a `Close` at any time; TCP with a connection that ends or breaks; every recording of up to three records; lidars of the four kinds with packets lost or of another size: what is handed on is what was sent, frames are turns, counts are exact, `Close` and playback end; clouds have the points of their frames, each once, and grids each in its cell |
| `services` | serial commands and upgrades with losses; PTC with two callers, late answers and resets; recordings started and stopped while two threads receive; the log: changes are put back, upgrades that return 0 are whole, answers are one's own, recordings complete, queries return, lines are written |
| `recording_flush` | *violation*: a recorded packet that stays in the write buffer |

### Bounds and why they suffice
* `MaxPresses` 4-5, `MaxForeign` 0-2: key sequences long enough for stop, release, stop
  again, posture and quit; the findings need three or four.  `QueueDepth` 2 makes histories
  overflow; 8 is used where a property assumes that nothing is evicted.
* Ring: two slots make the indices wrap in both directions and let the ring be full and
  empty; with two producers and one poller, which ask one condition variable, a
  notification can reach a sleeper on the wrong side.  `SizeModulus` 8 makes the unsigned size wrap visibly.
* Pipeline: five packets and three handle threads deal to each thread more than once;
  frames of every length from none to five and the overflow path occur.  Queue bounds equal
  to the frame size are tighter than the code's.
* Life cycle: a ring of one packet is full and empty in turn, and its last place is
  contended whenever both receive threads are past their test; one index under way makes
  `Run` wait for it.  Two handle threads are the least that take the notify loop twice.  The
  proofs hold for any capacity and any number of threads.
* Velocity: a timeout of three ticks and a period of two are not multiples, so that the
  timeout can fall anywhere between two timers; wire and history of two can overflow.
* Serial line: three messages, of which one is of the other kind in the middle; a read of
  at most four units in a buffer of seven, so that the buffer is compacted with a packet
  begun in it; rings of one, so that packets are dropped and the thread waits; one `Close`,
  at any unit.
* TCP: four packets of two units, a buffer that is moved twice, one broken or finished
  connection at any unit.
* Recordings: all 400 of up to three records from seven kinds, over a window of three units:
  record headers and payloads lie across its end in every way, one payload is longer
  than is read, one TCP record holds two packets; played up to three times.
* Decoder: a turn of 16 azimuths at 3 per packet never begins twice at the same place; ten
  packets are three turns; both directions, one or two echoes, starts before, at and after
  the frame start; two losses that are not in a row, one packet of another size.
* Clouds: frames of up to three packets of two places, of which filters leave none, one or
  two, computed in any order; sent singly or merged by two, two clouds each; a grid of two
  by two cells with points in, beside and twice in a cell.
* Serial client: two calls, one loss; PTC: two callers, two queries, one reset - the third
  party to every late answer is the second caller.  Liveness of PTC is checked on the smaller
  instance `Waits`.  Saver: three packets, two receivers, two recordings, a cache of two
  and a write buffer of two records, so that both overflow.  Logger: three lines, two callers
  and two starts.

Runs of the stack, of the velocity node, of the life cycle, of the sources and of the
services switch deadlock checking off: an operator may stop pressing keys, a node may be shut
down, a stopped SDK has ended, and a recording, a lidar or the bound on calls comes to its end.

### Fairness
Only what the code's threads guarantee: a callback whose message waits is served, the
robot takes what arrives, a thread that can take the mutex gets it, `try_pop_front` has one
deadline for the whole call (hence strong fairness of the timeout, which no wakeup puts
off), pollers call again because `Run` and `ParserThread` loop.  Nothing obliges operators,
publishers, producers or packets.  In `VelocityController` the assumption on the network is
that of datagrams sent for ever some arrive (strong fairness of a successful send).

`lifecycle` assumes that both time limits are configured (`TimeoutsSet`; with the default of
-1 the waits are unlimited on purpose), that `Run`, once started, sets its flag before the
caller stops (`Careful`), and that a handle thread which has tested its condition is asleep
by the time the destructor, four joins later, notifies it (`NotifyIsLate`).  None of these
is enforced by the code: without `Careful` TLC finds a `Stop` whose cleared flag `Run` sets
again; without `NotifyIsLate` a lost notification and a join that never ends.  The
last two are listed as hazards; only `StartReturns` and `StopReturns` need any of the three.

Nothing keeps the caller from a `Stop` while the init thread still works: the run contains
it.  `Stop` then deletes the Lidar under that thread (`hesai_lidar_sdk.hpp:187`) and joins it
afterwards (193-198).  `OnlyInitOutlivesLidar` says how far this goes: no other thread is ever
left, and the init thread only where a socket let `Start` return early - then it waits for
PTC, loads the corrections or reports - or where the initialisation has failed, at its last
look at the flags.  A recording, a serial or a TCP source that was initialised is safe.  That the thread
*can* be left is the defect; TLC shows it when asked for `lidar = "freed" => Ended("init")`.
What a thread on freed memory does is undefined: the model lets it go on as if nothing had
happened, no property speaks of what it reads, and `StopReturns` promises nothing from there
on.  `StopReturns` also leaves out the configurations with two receive threads, for which
`lifecycle_two_sockets` shows that it fails.

`sources` and `services` assume that the threads go on: `ReceivedThread`, `Receive` of the
serial point ring (the receive thread of the Lidar loops over it), `Open` and `Receive` of a
recording, the threads inside a PTC query, the logger's thread and the rest of a `Stop`.
Nothing is assumed of the lidar: `QueryReturns` holds with no answer at all, by timeout.

What the new modules assume without the code enforcing it, and what TLC finds without it:

| assumption | module | without it |
|---|---|---|
| `DropIsAtomic`: no `Close` falls between `full()` and `eff_pop_front` | `SerialStream` | the size wraps below zero, the ring stays full, `CloseReturns` fails |
| `Cuts = {0}`: the recording's last record is whole | `PcapReader` | `next` fails without setting the end flag, `PlaybackEnds` fails |
| `InOrder`: packets do not overtake each other | `PacketDecoder` | `CountsExact` fails: a late packet counts as almost a whole cycle lost |
| `TimeoutIsLast`: a silence comes after the rest of its field | `PacketDecoder` | `FramesAreTurns` fails |
| `OddIsInside`: no packet that begins a frame has another size | `PacketDecoder` | `PacketsComputedOnce` fails: the second decoding refuses it, its slot is queued all the same |
| `ForwardCopy`: `memcpy` copies overlapping ranges from front to back | `FrameClouds` | `CloudsAreExact` fails: points are overwritten before they are copied |
| `NoneBelow`: no point lies less than a cell below the grid | `FrameClouds` | `GridsAreExact` fails: `DoRemake` truncates towards zero and puts it in row 0 |
| `GridsFit`: no frame of a grid is given up for too many packets | `FrameClouds` | `GridsAreExact` fails: its points stay in the next grid |
| `OnlyDoneIsZero`: in the boot loader only *done* ends with code 0 | `SerialClient` | `UpgradeSound` fails |
| `Settled`: nothing of earlier calls is on its way when an upgrade begins | `SerialClient` | `UpgradeSound` fails: an old answer is taken for a new one |
| `CreationIsAtomic`: two receivers do not create the cache at once | `PcapSaver` | the second replaces the first's cache, `RecordingComplete` fails |
| `NotifyIsLate`: `Stop` does not notify between test and sleep | `Logger` | the notification is lost, the join never ends, `LoggerServes` fails |
| `OldUpgrade = FALSE`: not the overload at `ptc_client.cc:647`, which nobody calls | `PtcClient` | a failed package leaves the long timeouts, `ChangesUndone` fails |

The clock of `VelocityController` assumes that the executor serves a due timer within one
tick; its callbacks neither wait nor block.  `pipeline` assumes with `SleepDrains` that a
queued computation ends within the 100 us sleep after an overlong frame; without it TLC
finds a published frame that lacks points, because a late computation counts for it
(`FramesWhole`); with `MayResize`, a frame split by a packet of another size, one that writes
over a slot under computation (`NoTornPacket`).  `ring` has no popper without a deadline and
one poller: a popper, or a second poller, can swallow the only notification a producer needs
(`StrandedProducersWake` fails); that the ring stays a deque with any number of them is
proved.

## 4. Proofs

TLAPS checks, for every value of the constants:

* `TeleopStack_proofs`: `TypeCorrect`; `StopSilencesMoves` (no MOVE outlives the DAMP);
  `StopIsKnown` and `ReleaseReleases` for a sole operator; `QuitIsStill`, `StopOfPatientSticks`,
  `StopOfPatientDamps`; `StackImplementsGate`.  The
  safety property is inductive given types; the argument is that a published DAMP goes
  behind every MOVE, that eviction removes from the front only, and that no callback adds
  a MOVE while the flag is set.  The belief theorems need `BeliefInv`: the newest
  undelivered message on `/emergency_stop` is what the teleop believes, and when nothing is
  pending a set flag is a stop the teleop believes in - neither property is inductive
  without the pending messages.
  `QuitIsStill` needs no assumption on the operator: `StillInv` says that a stopped node's
  request is no velocity and that, once the teleop has left, what is newest on `/cmd_vel` - or
  the request, when nothing is there - is zero; `RequestIsLast`, that the newest request on its
  way (or the one executed last) is the node's message, carries it to the robot.
  `StopOfPatientSticks` and `StopOfPatientDamps` assume a patient operator who alone sends
  postures and stops (`OnlyOperator`); the latter also that no posture key leaves the stop set
  (`PosturesRelease`), which is the case the finding of `stack_second_stop` breaks.
* `BlockingRing_proofs`: `RingTypeCorrect` and `RingImplementsDeque`.  The refinement mapping
  reads the occupied slots from the front.  Lemmas about it (`StoredLast`, `StoredFirst`,
  `DroppedFirst`, `DroppedLast`) are stated for any array, first index and size, so that each
  operation cites them once for its own values before and after; all the modular arithmetic
  is in them.  Monitor steps that only sleep, wake or time out are stutters.
* `VelocityController_proofs`: `VelocityTypeCorrect`, `VelocityWithinLimits`,
  `StopStaysLastWord`, `MotionExpires`.  `MotionIsRecent` is not inductive: it bounds the age
  of a motion by timeout plus period, but says nothing of where in the period the node is.
  `MotionAge` does - the age is at most the timeout plus the ticks since the timer fired -
  and grows with the clock as its bound does.
* `SdkLifecycle_proofs`: `LifecycleTypeCorrect`, `OnlyInitOutlives`, `OneDecoderAtATime`,
  `CorrectionsComeFirst`, all for every caller, careful or not.  For the first safety property
  the invariant `JoinsDone` says that every join behind the destructor is of a thread that
  has ended.  That is not enough: the init thread starts the threads the destructor joins and
  looks at no stop flag when it does.  `InitFarAfterStart` - when `Start` has returned, the init
  thread is beyond all it starts - makes every ended thread stay ended (`EndedStays`), and
  follows, like the other two theorems, from the order in which that thread sets its flags
  (`FlagsInOrder`).

* `FramePipeline_proofs`: `PipelineTypeCorrect` without assumptions on the threads, and
  `PublishedFramesWhole`, `CallbackIsAlone`, `PacketsStayWhole` under the two assumptions the
  run makes too (`SleepDrains`, and no `MayResize`).  The count the threads agree by says
  nothing of slots, so the invariant `PipelineInv` does: ParserThread lets go of the slots in
  their order; each of those it has let go of is on its way in exactly one queue or thread, or
  its points are there; the count and the number of those on their way add up to the first
  that is left (`Counted`).  When the count matches, nothing is on its way (`MatchedIsIdle`).
  That a handle thread's full queue never drops an index is the pigeonhole principle
  (`QueueIsShort`): it would hold one slot twice.

* `Services_proofs`, about the PTC client: `AnswersAreOwn`, whatever the lidar is late with or leaves
  out, the network breaks and the callers ask; the one assumption is the model's, that no
  byte of an answer's body looks like one of the two identifiers (`BodyLen` in `PtcClient`).  That
  a returned answer is the caller's own says nothing of the bytes still in the socket, which
  the next query reads; `AnswerInv` does.  Answers are whole in what the caller has read
  followed by what is left in the socket (`Whole`), nothing else in it can be taken for the
  start of one, and unless an earlier query stopped waiting, the only answer that is there or
  can still come is to the query that holds the mutex, and nothing follows it (`Fresh`).
  `FoundInChunk` and `HeaderAfterChunk` are the search for the two marker bytes in pieces of
  any size; `RestOfStream` and `StartOfAnswer` say what is left when a piece is taken.
* `Services_proofs`, about the rest: three theorems.  `ChangesAreUndone` joins the serial client's mode and the
  connection's timeouts.  For the mode, `ModeInv` looks at the commands on their way: the last
  one that sets a mode sets the old one.  For the timeouts, `TimeoutInv` says that they are the
  default ones or some call that lengthened them is still under way; it needs `~OldUpgrade`.
  `UpgradeIsSound` follows from `UpgradeInv`: the block the client is at is to be sent, on its
  way, lost, or accepted, all before it are accepted, and at most one *done* is anywhere -
  where a second one could answer for a block it does not belong to, as it does without
  `OnlyDoneIsZero` or `Settled`.  `RecordingsAreComplete` follows from `SaverInv`: the files
  closed, what this file and the write buffer hold together, and the cache are, in this order,
  what was ever put into the cache (`FilesInv`); a thread that has ended leaves nothing in the
  buffer and has taken everything that was owed (`CloseInv`); one receiver at most creates the
  cache, and only when there is none (`CacheInv`, with `CreationIsAtomic`).  `PacketsOfFile` and
  `FileGrows` are the lemmas about the file as a header and records of two writes.
* `Sources_proofs`: `TcpInOrder`, `PlaybackIsExact` and `StreamsInOrder`.  For the first, `TcpInv` keeps a place in
  the lidar's stream: what the kernel holds are the last units sent, the first of them begins a
  packet, and everything handed on lies before it; a read that takes whole packets moves that
  place on by as many (`RecvUncut`).
  For the second, `PcapInv` says that no byte was read outside its chunk and that the reader of
  a whole recording of single packets stands at the start of a record, or at the end, and has
  handed on what lies before (`AtRecord`).  `CopiedWhole` says what the loop of `read` copies
  round by round: all the bytes, in order, each from the chunk that holds it (`MappedAt`).
  For the third, `SerialInv` lays out everything that came over the line: what was handed on,
  what the thread holds, then what waits in the buffer and in the port.  What waits is in order, with gaps
  only where the port overflowed (`Waits`); the packets cut lie one behind the other and have no
  other gaps inside (`LaidCut`); without an overflow each is a message, and without a miss they
  are all the messages up to one, after which exactly the rest waits (`AllUpTo`).  A scan
  is what could break that: `ScanBounded` says that it never leaves the buffer,
  `ScanFindsStart` that what it takes for points begins where a message does - the
  acknowledgement's last two bytes look like such a start - and `ScanAtStart` that, from the start of a message
  on, it takes that message whole or waits for more of it.
* `Frames_proofs`, about the decoder: `PacketsOnce`, under `OddIsInside`; `CountsRight`, for packets in order and
  runs of losses shorter than the sequence numbers; `TurnsFound`, for packets in order, under
  `TimeoutIsLast` and `GapsAreShort`.  For the first, `FrameInv` says
  that the frame is exactly what of the buffer was counted and that it and the one before are the
  end of what was accepted; the first packet of all does not end a frame (`FirstBeginsFrame`, for
  each of the four rules), so that a packet decoded again always finds a first slot to be put into.
  For the second, `LossInv` ties the loss message to the last packet - `WrappedStep`: a sequence
  number that wraps has moved as far as the packets that went by - and `TimeInv` the clock's count
  to the set of the packets at which it went back (`BackOfGrows`).  What `Accepted` computes is
  proved from the least natural at which two recursions differ (`LeastNatural`, `RecursionExists`).
  For the third, `GapsAreShort` says what the four rules rely on: between two packets that come
  the lidar moves less than half a turn, a run of losses is shorter than a frame, and the jump
  from field to field is longer than any within one (the run's lidars satisfy it).  `OrderInv`
  places the last packets; `VoteInv` says that of the votes for a direction of turn only the first
  can be wrong, since two azimuths still hold zeros then, and that it is outvoted before a
  split can follow from it; `TurnInv` says that the last azimuth is the last packet's and that the splits so far
  were where turns began; `RoundTheCircle` is the arithmetic of azimuths that wrap.
* `Frames_proofs`, about the clouds: `GridsExact`, under `NoneBelow` and `GridsFit`, and `CloudsExact`, under
  `ForwardCopy`.  For the first, `GridsInv` says of the array, while the frame is being computed,
  what the property says of a cloud that was sent: a cell holds a point computed so far that lies
  in it, or is blank (`GridComputed`; `CellIs` is the arithmetic of `DoRemake`), and what was
  merged are such grids, one after the other (`GridsGrow`).  For the second, `SlotsInv` says that
  the points of a computed packet are in the places of its slot, in order, and counted
  (`SlotsComputed`, `PlacesApart`).  Closing the gaps is an induction over the slots: those before
  one are in front, one after the other, and those from it on are where they were (`SlotClosed`),
  because a copy moves a slot to the front, never past its own end (`MovedUp`, `BeforeFits`).  What
  is merged is flattened frame by frame (`FlatGrows`, `FramesGrow`).

`VelocityTypeCorrect`, `LifecycleTypeCorrect` and `PipelineTypeCorrect` stand in for runs: `velocity`, `lifecycle` and
`pipeline` leave types to the proofs.  The theorems rest on the named assumptions on constants in the modules (`QueueDepthAssumption`,
`StackAssumption`, `RingAssumption`, `ThreadsAssumption`, `WireCapAssumption`,
`ControllerAssumption`, `LifecycleAssumption`, `PipelineAssumption`, and those `MCServices` and
`MCSources` state of their instances), which TLC evaluates in the runs.  They ask for positive sizes and for names that
are not the model's own words (no caller is called `"none"`).  The assumptions of section 3 are
hypotheses of the theorems that need them, and written there.

Every invariant that a run finds to hold is proved.  Only model-checked: every liveness property
(fairness and `ENABLED` are beyond the prover; `QueryReturns`, `LoggerServes`, `CloseReturns` and `PlaybackEnds` among them).
What `read`, `Accepted` and the like compute by recursion is proved for every input, as
functions, from the least natural at which two of them differ.

## 5. Findings

* **A second stop does nothing.**  X, then a posture that does not clear the stop (balance,
  sit, hello, stretch), then X: the node drops the second stop because its flag is set, and
  the robot, which the posture has taken out of damping, is not damped again.
* **A receive thread may never exit.**  With a fault message port two threads push into the
  origin ring.  Both look at `running_` before a push that waits for room without limit; when
  `Run` has been joined and the other took the last place, `Stop` waits for ever.
* **A recording keeps its last packets to itself.**  The comment at `pcap_saver.cc:118`
  flushes when the buffer is nearly full or no more data came; the condition at 119 flushes
  when there *is* more.  A packet written last stays in the buffer until the next one, or the
  end of the recording.

Remarks, which the models or the reading showed and which have no violating run of their own:

* R does nothing after the teleop was restarted during a stop: it sends a release only if it
  believes in a stop (`README.md:100`; `stack_live` with `MayRestart` fails).
* A frame can lose points, or `Run` wait for ever, after an overlong frame (`SleepDrains`).
* `general_parser.cc:283-284` speaks of -1 and of the first two packets; 49-50 start with zeros.
* `next` of `pcap_source.cc` returns -1 at 533 for a truncated record without `is_pcap_end`:
  the playback never ends.  The buffered branch at 798 hands out the first packet again.
* `TcpSource` lets a `recv` write at `dataIndex`, over the piece of a packet it already has
  (`tcp_source.cc:223`): after the first `recv` that ends inside a packet no packet is right any
  more, with or without a new connection.  `StreamsFaithful` speaks of the time before.
* `TcpSource` does not notice that `recv` returned 0: a connection the lidar has finished is
  read on until something else ends it.
* `PtcClient` flushes old answers with 0xFF as the flags of `recv`, which removes nothing
  (`ptc_client.cc:206`); a socket opened again by `Send` or `Receive` has no timeouts (`untimed` in
  `QueryReturns`); the overload of `UpgradeLidar` at 647 returns without restoring them.
* A serial upgrade sends the rest of the file as one block (`serial_client.cc:519-527`).
* `exit_` of the logger is never reset: a second `Start` gives a thread that returns at once.
* A frame given up for too many packets is not blanked as a published one is
  (`hesai_lidar_sdk.hpp:356` and 387), and `DoRemake` puts a point just below the grid into its
  first row: grids show points that do not belong there.
* The gaps between packets are closed with `memcpy` on ranges that may overlap.
* `_parse_state` passes 80 bytes to a format of 89, so the robot's state never updates.

## 6. Not modelled

Numeric decoding of packet layouts, field-of-view filters (arithmetic on single points), CUDA kernels, conversion of frames to messages, terminal and
socket I/O, launch files, vendored and generated code.

* *The state side of `go2_sdk.py`*, `go2_odometry.py`, `go2_state_publisher.py`: no state
  ever arrives (`_parse_state` raises for every packet), so that there is nothing to order.
* *The socket source* keeps nothing between two calls but its sockets; *TLS* has the shape of
  the TCP client that `PtcClient` models; the many Get and Set calls of PTC differ in payload.
* *`PcapSaver::TcpDump`* and the `Save` of a vector have no caller; *the pacing of a
  playback* is time between packets, of which no property speaks.
* *`UpgradeLidar` over the serial port* opens two ports; that the second does not open has the
  same way out as the first, which is modelled.
* *The version parsers* are present in four shapes: what differs within a shape is layout.
* *The ROS wrapper* registers callbacks and converts; its start-up race is a listed hazard.
  The map names about 3,800 lines of the program's own control.  Of the 50,000 lines of the
  repository's code nearly half are `nlohmann/json`, and most of the rest packet layouts, GPU
  code, byte arithmetic and generated message types.

The data race between `ClearPacketBuffer` and `HandleThread` on the deques is undefined
behaviour without a useful set of outcomes; the model clears them in one step.
`eff_pop_front` on an empty ring is kept out by a guard in `BlockingRing`; `SerialStream`,
whose ring is emptied by others, models it with its wrapped size.

The life cycle leaves out the ROS packet source and `PushOriginPacketBuffer`, a second `Init`
after `Stop`, and `thread_num` 0, with which `SetThreadNum` starts no thread at all.

## 7. Plan

1. Done: command path, blocking ring, frame pipeline, velocity controller.
2. Done: life cycle of the lidar driver.
3. Done: sources, decoding into frames, recording, PTC and serial commands, logger.
4. Done: clouds and grids of points, merged frames.
   Next: packets pushed in from outside, the ROS wrapper's start-up and shutdown.
5. Done: proofs about the services: recordings, answers, timeouts, modes and upgrades; about the
   decoder: each packet in one frame, exact counts, where frames end; about the TCP stream, the
   serial stream and the playback; about clouds and grids.
