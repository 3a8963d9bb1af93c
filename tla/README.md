# reactionwheel: models, checks and proofs

`reactionwheel` balances a body with a spinning wheel. It is one process on a
small Linux board: a sensor thread reads an accelerometer (MPU6050) and sends
steering commands, a motor thread owns the driver of a motor controller chip
(DRV10975) and obeys them, and the main thread runs a curses interface in which
a user watches both and types commands. The threads share nothing but three
channels made of lock-free queues and one stop flag.

This directory holds TLA+ models of that program, the TLC configurations that
check them, and proofs that TLAPS checks. File names and line numbers below are
relative to the program's directory, `src/` of the repository.

## 1. Inventory

| part | files | state it keeps | operations | meets the others through |
|---|---|---|---|---|
| motor driver | `drv10975.cpp/.hpp`, `drv10975_dir.cpp` | open descriptor, `mSpeedCtrl1/2`; in hardware: speed, direction pin, configuration registers | constructor, `speed(short)`, `speed()`, `read_driver_status`, register write (`swallow`), destructor | called by the motor thread only; i2c bus; GPIO |
| i2c access | `i2c.cpp/.hpp` | the descriptor | open and select, register reads and writes; each throws on failure | called by both drivers |
| sensor driver | `mpu6050.cpp/.h` | `mAcceleration` and the other readings | constructor, `update`, `acceleration`, ... | called by the sensor thread only; a second i2c bus |
| lock-free queue | `readerwriterqueue.h` | ring of blocks of cells, `frontBlock`, `tailBlock`, indices with shadow copies | constructor, `enqueue`, `try_enqueue`, `try_dequeue`, `pop`, `peek`, `size_approx`, destructor | one producer thread and one consumer thread |
| blocking queue | `readerwriterqueue.h` (`BlockingReaderWriterQueue`) | a lock-free queue and a semaphore | the same, and `wait_dequeue`, `wait_dequeue_timed` | the same; the header offers it, the program does not use it yet |
| atomics and semaphores | `atomicops.h` | `m_count`, the semaphore of the system | `wait`, `tryWait`, `signal`, `availableApprox`; fences, `weak_atomic` | the blocking queue; the queue's indices are `weak_atomic` |
| thread bus | `thread_bus.h/.cpp` | per channel: two queues; a reference count; `stop_flag` | `create_pair`, `post`, `try_pop`, `stop`, `stopped` | all threads |
| program threads | `main.cpp` | where each thread is | `main`, `frontend_main`, `sensor_main`, `motor_main` | channels, stop flag, join |
| user interface | `frontend.cpp/.h` | command line, page, displayed values | `live`, the commands, the `update_*` functions | posts to the motor thread, sets the stop flag |
| helpers | `vector3.h`, `enum_bitset.hpp`, `platform.h`, `precompiled.hpp` | none | | |
| build files, `stepper.py`, `file.proto` | | | | not part of the program |

How they interact. `main` creates three channels (frontend and sensor, frontend
and motor, sensor and motor), hands the ports to two threads it starts, opens
the curses session and runs `frontend_main`; when that returns or throws, `main`
sets the stop flag and joins. `sensor_main` loops: read the sensor, send the
data to the frontend, send a steering speed of plus or minus 50 to the motor.
`motor_main` loops: read the chip's status, send it to the frontend, take one
command (the frontend's if there is one, else the sensor's) and execute it. Both
loops end when the stop flag is set; a failed bus transfer throws out of the
loop, and the handler sets the stop flag.

What makes it correct:

* driver: a call that returns has taken effect as a whole; the chip never runs
  at a mixture of two requests; the wheel stands still when the driver is gone,
  however it went; nothing of an earlier process survives in a ready driver;
* queue: a FIFO under every interleaving, its own assertions hold, no cell is
  touched by both threads, nothing leaks, nothing gets stuck; its size is off by
  no more than what the other thread did meanwhile;
* blocking queue: who gets past the semaphore finds an element, no signal is
  lost, and a timeout that races a signal leaves the counter as it should be;
* sensor: a stored reading is the signed number that the chip measured, however
  the two transfers that fetched its bytes were ordered;
* interface: the command line never asks for a position that is not there, the
  terminal shows what the objects hold, and a stop comes to be shown;
* bus: a channel lives exactly as long as someone may use it, and every message
  arrives at the thread it is meant for;
* program: every failure and every exit stops the wheel and ends the process;
  commands are obeyed, and a stop is obeyed promptly.

What is hard here is not any single function but failures between two bus
transfers, two threads inside the queue, a wait that times out at the moment it is
answered, and threads that end in any order. The
`hazards` of `PROJECT.json` list each such place with its line and the
properties aimed at it.

## 2. Modules

```
Drv10975 ----+
             +--> ReactionWheel --> MCReactionWheel
ThreadBus ---+
   (its queues are FIFOs; why they are is the business of)
Fifo  <--refines-- ReaderWriterQueue --> MCReaderWriterQueue
                        |
Fifo  <--refines-- QueueOrder --> QueueSize --> MCQueueSize
Fifo -------------------+
                        +--> BlockingQueue --> MCBlockingQueue
LightweightSemaphore ---+
Wheel <--refines-- DriverWheel (Drv10975 and the mapping) --> MCDrv10975
Frontend --> MCFrontend        Mpu6050  --> MCMpu6050

Drv10975 --> Drv10975_proofs --> DriverWheel_proofs ----+
ReactionWheel ------------------------------------------+--> ReactionWheel_proofs
Frontend --> Frontend_proofs     Mpu6050 --> Mpu6050_proofs
ReaderWriterQueue --> ReaderWriterQueue_proofs --+
QueueSize (with QueueOrder) ---------------------+--> QueueOrder_proofs
BlockingQueue --> BlockingQueue_proofs
```

`ReactionWheel` sees of the interface and of the sensor object only what they do
to the other threads (post, stop, leave, fail); what they do within themselves is
in `Frontend` and `Mpu6050`, which share nothing with the other threads but the
stop flag and the chip.

**`Drv10975`** is class `drv10975` with what it commands. `life` says whether
the object is being constructed, ready, in its destructor or gone; `at` names
the next bus transfer of the operation in progress; `hwSpeed`, `hwMsb`, `hwDir`,
`hwDirOut`, `hwConfig` are the chip and the pin. One action is one bus or pin
access; the constructor's `init_dir_pin()` and `set_dir_pin(true)` are three (`InitDirPin`,
`ClearDirPin`, `SetDirPin`), so the pin is low for a moment in between. Each transfer may fail, with or without having reached the chip; the
exception then unwinds as C++ does it: out of the constructor only the `i2c_device`
member is destroyed, out of any other operation the stack of `motor_main`
unwinds into the destructor, which talks to the same bus, and out of the
destructor the process is terminated. Hardware state is not reset in
`DriverInit`: an earlier process may have been killed at any moment. `request`
is the only history variable. `ClientCall` is the most general single-threaded
client.

**`Wheel`** is what the driver promises, without registers, pins and transfers:
orders are obeyed one after the other, the wheel never runs at a speed that is
not the one ordered last, it stands still once it has been given up, and only a
process that dies leaves it running. While it is being started its direction may be tried out
(`TryDirection`), but only as long as it stands still. **`DriverWheel`** is the mapping: the stage is
what the life of the object and the death of its process make, an order is the
speed and direction that `request` asks for, speed and direction are those of the
chip and the pin. A failed transfer in `speed()` is a wheel given up, perhaps with its
order obeyed at the last moment, because a transfer may fail after it has
reached the chip. An assertion that fails is an order that kills the process.

**`ThreadBus`** is `thread_bus.h`: ports, channels with their shared ownership,
post, pop, stop flag. It gives operators; `ReactionWheel` makes them actions.

**`ReactionWheel`** is the program: `mainPc`, `sensorPc` and `motorPc` follow
the three functions of `main.cpp`, and one action is one access to something
shared with the thread-local code around it. It EXTENDS `Drv10975`, so the motor
thread runs the real driver one transfer at a time. The user is "any key at any
time": a live round may do nothing, send a speed, send a register override, stop,
or leave. `accel` and `cmdmsg` are program variables; `late` is a history
variable that counts commands popped after the stop flag was set.

**`Fifo`** is the abstract specification of a queue between one producer and
one consumer whose calls overlap: an enqueue takes effect at one instant or, when
memory is exhausted or must not be asked for, not at all; a call of the consumer
takes, drops or looks at the oldest message at one instant, and comes back empty
only if there was none when it was called.

**`ReaderWriterQueue`** is the constructor, `inner_enqueue` (as `enqueue` and as
`try_enqueue`), `try_dequeue`, `pop` and `peek`, one action per access to shared
memory, with the shadow copies `localFront` and `localTail` that let each thread
avoid reading the other's index. The three calls of the consumer share their
control up to the point where the element is reached, as they do in the code,
so they share the actions up to there. `Init` is the constructor for `maxSize`
elements: one block, or a ring of several. `ImplementsFifo` is `Fifo` under the
mapping defined just above it: the contents are the cells from front to tail of
the blocks from `frontBlock` to `tailBlock`, `element` is what is being enqueued, and
`Popping`, made of `consumer` and `sawEmpty`, is what the consumer's call may still do. The effect of an enqueue is at its
`tail` or `tailBlock` store, that of a dequeue at the move out of the cell.
The history variables `sawEmpty` and `roomAtCall` record what was true when a
call was made.

**`QueueOrder`** is the same queue with two history variables: `held`, to which every
store that publishes an element appends it and from which every move out removes the
first, and `emptyAtCall`. `OrderIsFifo` is `Fifo` with `held` as its contents. A call
that hands out any element but the first of `held`, or none although there was one at
the call, is no step of `Fifo`. It says the same as `ImplementsFifo` without a walk
around the ring; `ImplementsFifo` shows in addition that the elements are in the cells
where the code, and its destructor, look for them.

**`QueueSize`** adds `size_approx()`: a walk around the ring by the thread that calls
it, one action per access, while the other thread goes on with every call it may
make. The other thread may move `frontBlock` and link new blocks into the ring under
the walk.

**`LightweightSemaphore`** is the semaphore of `atomicops.h` as compiled for a POSIX
system: `m_count`, the system's semaphore `m_sema` below it, `signal()` and
the three waits, with one action per access to either. `signalling` and
`waiting` say where the two threads are. The loop that spins before it sleeps is
one action, `Spin`: it has seen a count, or has looked for the last time.
A deadline is the nanoseconds `tv_nsec` that the timed wait computes
from the clock and the timeout; the system refuses one that is not below a second,
and the code takes that refusal for success, which is what `WakeUp` does.

**`BlockingQueue`** composes the semaphore with the inner queue, which it takes as
`Fifo`: what `ReaderWriterQueue` has been shown to implement. The producer enqueues and then
signals; the consumer asks the semaphore and then calls the inner queue, whose
answer it takes for granted. `peek()` goes past the semaphore.

**`Frontend`** is class `frontend` with its command line and text boxes. `mContent`
and `mContentOffset` are the command line, `mValue` what the text boxes hold,
`row` and `screen` what the terminal shows: `render()` and `curses_write` change
only the columns they write, so the screen remembers what nobody cleared. One
action is one call of `frontend_main`: a round of `live()` with at most one key, or
the display of a message. The parser of commands is not modelled: Enter may
stop the program or fail, and clears the line in either case.

**`Mpu6050`** is class `mpu6050` and its chip. `update()` is one action per byte;
the chip measures between any two of them (`Measure`), the two bytes of a
quantity come in either order because the operands of `|` are unsequenced, and
the conversion from two bytes to a `short` is modelled with its widths. `meant`
and `torn` are history: the measurement whose first byte was read, and whether
it was replaced before the second.

**`Drv10975_proofs`**, **`DriverWheel_proofs`**, **`ReactionWheel_proofs`**, **`ReaderWriterQueue_proofs`**,
**`QueueOrder_proofs`**, **`BlockingQueue_proofs`**, **`Frontend_proofs`** and **`Mpu6050_proofs`** hold the
theorems of section 5, those about `size_approx()` in `QueueOrder_proofs`. The proofs about the program build on those about the
driver: `WheelInv` contains the driver's invariant, and the program's steps are mapped to
the abstract wheel by way of the driver's.

Operators whose comment starts with "Mutant:" are variants of the definition
below them with a plausible bug. `PROJECT.json` pairs each property with one:
put in place of the original, it makes TLC report that property violated, so
no property holds for lack of anything to say.

## 3. Runs

| run | configuration | question | states |
|---|---|---|---|
| `driver` | `MCDrv10975.cfg` | Is the driver an abstract wheel under any client and any failures, even when numbers out of range get through (`NDEBUG`)? | 2,214 |
| `program` | `MCReactionWheel.cfg` | Safety of the three threads with failures everywhere and assertions compiled in. | 624,019 |
| `shutdown` | `MCReactionWheelShutdown.cfg` | Does every stop and every failure end the workers and the process? | 229,441 |
| `commands` | `MCReactionWheelCommands.cfg` | Are commands obeyed? | 229,441 |
| `assertion` | `MCReactionWheelAssert.cfg` | Can the assertion of `drv10975.cpp:106` fail? (It can.) | |
| `queue` | `MCReaderWriterQueue.cfg` | The queue as the program uses it, with reuse and growth, every interleaving; does what was enqueued come out? | 259,500 |
| `queue_calls` | `MCQueueSize.cfg` | All calls of the consumer, blocks of different sizes: does every call get the oldest element, and how far off is `size_approx()`, whichever thread calls it? | 3,748,064 |
| `queue_reserved` | `MCReaderWriterQueueReserved.cfg` | Constructed with several blocks: does it hold what it was constructed for, whatever is called? | 1,750,082 |
| `blocking` | `MCBlockingQueue.cfg` | Waits, timeouts and signals in every order. | 34,441 |
| `blocking_timeout` | `MCBlockingQueueTimeout.cfg` | And when the clock and the timeout add up to a whole second? (The wait is refused, and taken for successful.) | |
| `interface` | `MCFrontend.cfg` | The command line, the pages and the terminal under any keys and messages. | 11,724 |
| `sensor` | `MCMpu6050.cfg` | Two-byte readings of a chip that goes on measuring, with failures. | 411,024 |

Properties, by what they are about:

* driver: `IdleAgrees` (chip, pin and cache agree with the last request between
  calls), `CommitsRequest` (no mixed speed, an action property),
  `StoppedWhenGone`, `FullyConfigured`; the refinement `ImplementsWheel` and its
  liveness `WheelGoesOn`;
* program: `CleanExit`, `ChannelLifetime`, `RoutedMessages`, `StopIsPrompt`;
  liveness `StopEndsWorkers`, `FailureStopsWheel`, `LeavingEndsProcess`,
  `UserCommandApplied`, `SteeringApplied`;
* queue: `ImplementsFifo`, `OrderIsFifo`, `AssertionsHold`, `CellsAreOwned`, `NothingLeaks`,
  `AllOnRing`, `HoldsMaxSize`, `SizeIsBracketed`, liveness `SomethingIsFound`;
* blocking queue: `SuccessAsserted`, `SignalAssertion`, `SizeAgrees`,
  `GivesUpOnlyWhenEmpty` (an action property), liveness `WaitIsServed` and `TimedWaitEnds`;
* interface: `OffsetAgrees`, `RowShowsLine`, `ScreenIsPage`, liveness
  `StoppedIsShown`;
* sensor: `ReadingIsMeasurement`;
* one type invariant per system: `QueueTypeOK`, and `TypeOK` of `ReactionWheel` (which
  contains `DriverTypeOK`), `BlockingQueue`, `Frontend` and `Mpu6050`. That of the blocking queue
  says that no thread takes a token from the system's semaphore that is not there.

Three of the liveness statements end in "or the process was terminated"
(`~Alive`). That is what the code does when the driver's destructor fails, when
an assertion fails, and when `main` is left by an exception of the set-up; a
statement without it would promise more than the code keeps.

### Bounds, and why they are enough

* `Requests`, `UserSpeeds`: driver runs use both ends of the range, one number
  past it, the short that negation maps to itself, and numbers that differ in
  the ninth bit and in the low byte. In the program run the user's numbers are
  65536 + 300, so that the narrowing to `short` matters, and 600, so that an assertion
  fails in the middle of everything else. The theorems are for
  every set of shorts.
* `ConfigWrites` and `StatusReads` are 12 and 11 in the code. They are loop
  counts; 3 has a first, a middle and a last round and 1 suffices where only
  "some transfer of this loop fails" matters. The theorems are for every number.
* `MaxBacklog = 1`: a thread starts no round while a queue it posts to holds a
  message. The code has no such limit. With one message per queue there is still
  every order of posts and pops between the threads, a full and an empty queue
  for each pop, and messages left behind at shutdown; the queue's own behaviour
  with more messages is the subject of `ReaderWriterQueue`. The bound sits in the
  guards `Room(...)`, one round early, so that no thread is ever blocked in
  the middle of a round, and it does not apply to the check of the stop flag.
* `maxSize = 1`, `MaxBlockSize = 2`, `MaxBlocks = 3` in `queue` (15, 512 and
  memory in the code): a block of two cells holds one element, so every enqueue
  is at the boundary; three blocks let the tail run ahead of, catch up with and be
  overtaken around the ring; reaching `MaxBlocks` is the failed allocation. Two
  elements suffice to tell an overtaking from the right order. In `queue_calls`
  `MaxBlockSize = 4` and `MaxBlocks = 2`, so the second block is twice the first and comes into the ring
  while a walk is under way. It has two elements as well, and up to four of them in the queue; they are
  symmetric (`ElementSymmetry`), which is sound because the queue never looks at an element and
  the run has no liveness property. Its producer calls only `enqueue`: `try_enqueue` is the
  same call without memory for a block, which is the case here from the second block on.
  `queue_reserved` constructs a queue
  for four elements of blocks of two cells, so for more than twice
  `MaxBlockSize`: five blocks, and memory is exhausted from then on.
* `MaxLength = 3`, `NsecsInSec = 4` in `blocking` (memory and 10^9 in the code; the inner
  enqueue fails when there is no memory for another element, and may fail before):
  more elements than the one that can be promised, and sums of clock and
  timeout on both sides of a second. `MCClock` and `MCFractions` leave out the sum of exactly one
  second, which is the finding of `blocking_timeout`. Two elements tell the order.
* `Width = 3`, `Space = 3`, `MaxLine = 5` in `interface` (the width of the
  terminal, 10 to 20, no limit): the line gets shorter than, as long as and two
  longer than the window, and texts are shorter than, as long as and longer than
  their box. `MaxLine` is the guard of `LiveCharacter`.
* `Quantities = 2` in `sensor` (7 in the code): one that is read first and one
  that is read last. `MCSamples` has both signs and low bytes on both sides of 128.

### Fairness

`FairSpec` of `ReactionWheel` is weak fairness of each thread's steps: the
operating system schedules every runnable thread, no thread waits for a lock,
and an `ioctl` returns or fails. It is fairness of the whole thread, never of a
particular choice: a user who never types, a bus that always fails and a
session that does not start are all allowed. `SteeringApplied` has the
antecedent that the motor thread looks at the sensor's queue again and again:
`motor_main` prefers the user's queue, so a user (or a script) that always has
another command ready holds steering up for ever; the property says that this is
the only way. `FairSpec` of `Frontend` is weak fairness of `Live`: `frontend_main` calls `live()` in
a loop until it returns false; which key is pressed, if any, is open, and so is
whether messages ever arrive. `FairSpec` of `ReaderWriterQueue` is weak fairness of the consumer,
which every loop of `main.cpp` justifies; the producer may stop at any point,
even in the middle of an enqueue. `FairDriverSpec` is weak fairness of the driver's transfers: an
operation that has been called goes on, whether its transfers succeed or fail;
nobody has to call one. `FairSpec` of `BlockingQueue` is weak fairness of each thread within its calls,
again with no obligation to call anything: `WaitIsServed` has to follow from the enqueue that did happen.
A sleeping thread whose token is there is woken by the system; one without a
token in a timed wait times out.

Deadlock is checked in every run that passes. `Finished`, `ProcessEnded` and `Ended` are the
explicit ends of the driver, of the process and of the interface; there is no
other state without a step.

## 4. Findings

* **Unchecked speed.** `frontend.cpp:53` forwards any `int` that the user types
  after "motor speed", and `main.cpp:165` passes it to `speed(short)`, whose line
  106 asserts `0 <= speed && speed <= 511`. The run `assertion` shows the way
  from the keyboard to the failed assertion, which aborts the process without
  the destructor that stops the wheel; the direction pin has already been
  switched by line 100.
* **A timeout on the whole second.** `atomicops.h:527` says "sem_timedwait bombs if
  you have more than 1e9 in tv_nsec" and "so we have to clean things up before
  passing it in"; line 529 carries only if `tv_nsec` exceeds 1000000000, so a sum of exactly that is
  passed on. The system refuses it, and line 538 takes every failure but a timeout for
  success: `wait_dequeue_timed()` goes on without an element, into the
  `assert(success)` of `readerwriterqueue.h:748`, and the subtraction from `m_count`
  stays. The run `blocking_timeout` is that wait; the theorems of section 5 show that with
  no such sum the assertion holds always. The program does not call a timed wait.

Also noticed while reading, without a run: the comments of
`readerwriterqueue.h:629` and `:632` say that elements are enqueued to `frontBlock` and
dequeued from `tailBlock`, and line 72 that a new block has the size of the last
one; `AdvanceTail`, `AdvanceFront` and `NextSize` follow the code, which does the opposite
and doubles the size up to `MAX_BLOCK_SIZE`. `drv10975_dir.cpp:16` clears the direction pin
before `drv10975.cpp:75` sets it; a wheel that spins after an earlier process was killed would be reversed, had
`drv10975.cpp:71` not stopped it before (`ImplementsWheel`, by `TryDirection`). Line 77 says that several blocks are
reserved if more than `MAX_BLOCK_SIZE` elements are requested; line 93 does so only
from twice that size on, and in between there is one larger block.

## 5. What is proved

Every theorem below is about all values of the constants that satisfy the one
assumption of its module. The shape is the same each time: an invariant `I` with
`Init => I` and `I /\ [Next]_vars => I'`, one lemma per thread or per kind of
step, `AlwaysI == Spec => []I`, and theorems that read the property off `I`.

### The driver

`Drv10975_proofs` proves, for every set `Requests` of shorts that contains 0,
every number of configuration registers and status reads, with and without
assertions (that is `DriverAssumption`, and nothing else is assumed):

| theorem | states |
|---|---|
| `DriverTypeCorrect` | `DriverSpec => []DriverTypeOK` |
| `SpeedTakesEffect` | `DriverSpec => []IdleAgrees` |
| `MotorIsStopped` | `DriverSpec => []StoppedWhenGone` |
| `NothingLeftOver` | `DriverSpec => []FullyConfigured` |
| `NoMixedSpeed` | `DriverSpec => CommitsRequest` |

None of these is inductive. That the chip agrees with the request when a call
returns depends on what each of the transfers before it has achieved. The
inductive invariant therefore says, for each value of `at`, what already holds
there: which values of `life` can be at that point and whether the
descriptor is open; that from the first speed transfer on `mSpeedCtrl` is the
nine bits of `request` and the pin shows its direction; that before the low byte
the high bit has been received; that in the configuration loop the registers up to `step` are no longer left over; and
what a finished speed call has left behind when an operation that is no speed
call is under way. The arithmetic (nine bits are the high bit times 256 plus the
low byte, and the magnitude on the wire is within nine bits) is in the lemmas
`SplitSpeed` and `WireNineBits`; `InitInv` and `StepInv` are the two halves of
the induction, with one step per action; `AlwaysInv` concludes. `NoMixedSpeed`
is an action property that follows from the invariant in the state before the
step.

`DriverWheel_proofs` adds, from the same assumption:

| theorem | states |
|---|---|
| `DriverIsWheel` | `DriverSpec => ImplementsWheel` |

Each transfer is mapped to one step of the wheel or to none, one lemma per transfer that
shows. The invariant says what the mapping needs: that a call is made
only when the last order has been obeyed (`Settled`), and that the low byte,
when it is written, completes the speed that was ordered. `ThrowRefines` is the
part that failures share: where the exception goes from there, and that what the chip
has received by then is nothing or the ordered speed. `DirPinRefines` is the constructor's
pin, which is written low before it is set: both steps are `TryDirection` or none, because
the invariant says that the chip has received speed 0 by then (`ConstructionOK`), which
only the order of the constructor's statements brings about.

### The program

`ReactionWheel_proofs` proves, for every set of numbers the user may type and of
readings, every backlog and every driver as above (`WheelAssumption` and
`DriverAssumption`):

| theorem | states |
|---|---|
| `ProgramTypeCorrect` | `Spec => []TypeOK` |
| `ChannelsLiveWhileUsed` | `Spec => []ChannelLifetime` |
| `MessagesAreRouted` | `Spec => []RoutedMessages` |
| `StopIsObeyedPromptly` | `Spec => []StopIsPrompt` |
| `ExitIsClean` | `Spec => []CleanExit` |
| `ProgramUsesDriver` | `Spec => DriverInit /\ [][DriverNext \/ SetupFails]_driverVars` |
| `NoMixedSpeedInProgram` | `Spec => CommitsRequest` |
| `ProgramIsWheel` | `Spec => ImplementsWheel` |

The inductive invariant is `WheelInv == DriverInv /\ BusInv /\ ThreadInv /\ MotorInv`.

* `BusInv`: every queue holds only what its producer sends (`Allowed`); a channel
  without owners holds nothing; the reference counts are what the positions of
  the threads imply. `CleanExit` needs the middle part: that the queues are empty at the end
  follows from the counts only if destruction has emptied them.
* `ThreadInv`: who has not been started yet and who has been joined. Without it
  `main` could return while, as far as the invariant knows, the motor thread runs.
* `MotorInv`: the driver exists while the motor thread is inside its scope, what
  is about to be executed is a command, and how far the thread can have come since
  it popped a command after the stop. `StopIsPrompt` alone is not inductive: nothing
  in it says that the one command that may be late is the last.
* `DriverInv` is the driver's own invariant. `ProgramUsesDriver` shows why it carries
  over: each step of the program is a step of the driver or leaves it alone, except a
  failed set-up, which terminates the process. The commands that reach the driver are
  in its `Requests` (`CommandsAreRequests`), whether the user or the sensor sent them.
* `ProgramIsWheel` follows from `ProgramUsesDriver`, the driver's refinement and
  `SetupFailsRefines` (a failed set-up is a wheel that dies): the commands of two
  threads, failures and stops are to the wheel one sequence of orders.

### The queue

`ReaderWriterQueue_proofs` proves, for every set of elements, every combination of calls,
every `maxSize` below 2^20, every block size up to 2^20 and every amount of memory (`QueueAssumption`):

| theorem | states |
|---|---|
| `QueueTypeCorrect` | `Spec => []QueueTypeOK` |
| `AssertionsNeverFail` | `Spec => []AssertionsHold` |
| `CellsHaveOneOwner` | `Spec => []CellsAreOwned` |
| `NothingIsLeaked` | `Spec => []NothingLeaks` |
| `EveryBlockStaysOnRing` | `Spec => []AllOnRing` |
| `MaxSizeIsReserved` | `Spec => []HoldsMaxSize` |

2^20 is where `PowersOfTwo` ends; beyond it `CeilToPow2` would have no value. The
assertions fail or hold by what the other thread did since a pointer was
read, so the invariant has to say what the shape of the whole ring is at every moment:

* `BlocksInv`, per block: seen from `front`, the copy `localTail` is not past `tail`, and
  seen from `localFront`, `front` is not past `tail`. The lemmas on `Dist` and `Between`
  are the arithmetic of positions in a ring that this needs.
* `RingInv`: `next` is injective on the ring, and walking it from the last
  filled block one meets free blocks up to `frontBlock` and none from there on. The last
  filled block is `tailBlock`, or, between the publication of an element and the
  store to `tailBlock`, the block after it. This is stated for each block and its successor,
  so nothing has to walk the ring and no induction over its length is needed.
* `ProducerInv`, `ConsumerInv`: what a thread found out and may still rely on: that the
  following block is not the front block, that the front block is empty for good
  and `nextBlock` its successor, that there is room, that there is an element.
* `CellsInv`: a cell holds an element if and only if it is between `front` and
  `tail`, but for the one the consumer has emptied and not released and the one
  the producer has filled and not published.

`NextHolds` is the consumer's assertion, the first step of `UseFollowingStep` the
producer's. Both stores to the ring (`LinkStep`, `AdvanceFrontStep`) and the first
publication in a free block (`PublishAheadStep`) re-establish `RingInv`; all
other steps keep it by `RingKept`.

`RingInv` alone would allow two rings beside each other. `EveryBlockStaysOnRing` and
`MaxSizeIsReserved` speak of all blocks at once and need two more invariants:

* `OneCycle`: a nonempty set of blocks of the ring that no `next` leads out of is the whole
  ring. It says that the ring is one cycle without walking it, `StepOneCycle` keeps it (only
  `LinkStep` changes a link), and it takes the place of an induction over the length of the
  ring: to show that a walk gets everywhere, one shows that the blocks it has passed are
  closed under `next`. Where numbers must be counted up all the same (the walk `Ahead` itself,
  powers of two), `SetInduction` does it with sets of numbers and their least elements
  (`LeastElement`), which needs no operator as a parameter.
* `ReserveInv`: blocks are at least as large and as many as the constructor made them
  (`SizesInv`); while the producer looks for memory the tail block is full, or is the front
  block (`TailIsFull`); every block between the front block and the last filled one is full,
  however often the consumer has moved on (`MiddleIsFull`); and what the producer has
  already found out about the cells in use at its call (`RoomInv`, which also covers a queue of
  one block). Then, when the block that
  follows the full tail block is the front block, all blocks but the front block are full, and
  the constructor's arithmetic (`Reserved`: the blocks but one hold `maxSize` elements, with
  a spare cell in each) shows that at least `maxSize` cells are in use (`NoRoomLeft`). Only
  cells in use at the call count: the consumer frees some meanwhile, and
  `roomAtCall` remembers that there were fewer than `maxSize`.

`QueueOrder_proofs` builds on it and proves, from the same assumption:

| theorem | states |
|---|---|
| `QueueIsFifo` | `OrderSpec => OrderIsFifo` |
| `QueueImplementsFifo` | `OrderSpec => ImplementsFifo` |
| `SizedQueueIsFifo` | `SizedSpec => OrderIsFifo` |
| `SizeIsApproximate` | `SizedSpec => []SizeIsBracketed` |

* `InOrder` numbers the elements in the order of their publication: there are a log of
  all elements ever published, the numbers `taken` and `sent` between which they are
  held, and for each block the number `first` of its foremost cell. `ChainIs` says that
  the number after the last cell of a block in use is the first of the next block, that
  the front block begins with `taken` and that the tail block ends with `sent`. Every
  cell in use holds the element with its number (`CellIs`). All of this speaks of one
  block and its successor.
* `Live` are the blocks this is said of: those that are not free, without the one
  that the producer has filled ahead and that `tailBlock` has yet to move to. The element
  in it gets its number when `tailBlock` moves, which is when the consumer may find it.
* `PendingInv`: the element that the producer is about to publish is in the cell that it is
  about to publish.
* `CallInv` is why a call may come back empty-handed: a consumer that finds the front
  block empty although there was something at the call cannot also find it to be
  `tailBlock`, because then nothing would be held (`EmptyWhenAlone`).

Each step of the queue is one lemma: a step that keeps the numbers (`QuietStep`), one of
the two stores that publish (`PublishInOrder`, `AdvanceInOrder`), or one of the three by
which the consumer goes on (`TakeInOrder`, `ReleaseInOrder`, `AdvanceFrontOrder`).

`QueueImplementsFifo` is the same refinement with the contents where the code and its
destructor look for them, in the cells from `frontBlock` to `tailBlock`. `ContentsAreHeld` shows
that the walk and the history agree in every state of the invariant: the cells of one block
are a `Piece` of the log (`CellsArePiece`), the pieces of the blocks walked adjoin by
`ChainIs`, adjoining pieces flattened are a piece (`PiecesFlatten`), and the walk from
`frontBlock` meets live blocks up to `tailBlock` (`WalkIsLive`). `SawInv` says the same of
the two variables that remember an empty queue. It is stated for `OrderSpec`, which restricts
no behaviour of `Spec`: `held` and `emptyAtCall` are read by no step of the queue, and each
step determines their next values.

`SizeIsApproximate` is about a walk around a ring that changes meanwhile.

* `CountInv` ties the cells to the elements: the cells in use on the ring (`RingCells`) are as many
  as are held, one more while the consumer has emptied a cell and not released it, and one
  more while the producer has filled a block that `tailBlock` has yet to move to.
* `WalkIs` says of the blocks the walk has passed that `next` leads from them to each other or to
  the block at hand. A block that the producer links in behind the walk counts as passed;
  one linked in ahead will be met. That `next` is injective decides which it is. When the
  walk is back at its start, the passed blocks are closed, so by `OneCycle` they are all
  (`WalkedAll`).
* `CountIs` brackets the set of cells counted: of the blocks looked at, it contains every cell
  that was in use at the call and still is, and it contains none that has never been in
  use since the call. If the producer walks, the cells in use only shrink meanwhile; if the consumer does,
  they only grow; so the bracket lies between the cells at the call and those now, and
  cardinalities give `SizeIsBracketed`. `FrontIs` is the same for the block at hand between the
  reads of its two indices, where the other thread may move the one that has
  been read.

The sets in `WalkIs` and `CountIs` are bound by `\E` in the invariant. Before it was proved it was checked by
TLC, with these sets as history variables, on the instance of `queue_calls`.

### The blocking queue

`BlockingQueue_proofs` proves, for every set of elements, every bound on the length and every
clock and timeout (`BlockingAssumption`, `SemaphoreAssumption`), all but the first on the condition
`NeverAWholeSecond` that no clock value and timeout add up to exactly one second:

| theorem | states |
|---|---|
| `TypeCorrect` | `Spec => []TypeOK` |
| `CounterMeaning` | `Spec => []Inv` |
| `PromisesAreKept` | `Spec => []SuccessAsserted` |
| `OneWaiter` | `Spec => []SignalAssertion` |
| `CountIsExactAtRest` | `Spec => []SizeAgrees` |
| `NoSignalIsLost` | `Spec => []SleeperIsWoken` |
| `NoElementIsOverlooked` | `Spec => GivesUpOnlyWhenEmpty` |

The counter alone means nothing while a call is under way; the invariant says what it
means together with the two threads' positions. `Balance`: the counter, the element
that the consumer has been promised and the one whose signal is still to come add up
to the elements in the queue. `Tokens`: there is a token in the system's
semaphore, or about to be put there, exactly when a consumer that has subtracted one
has been answered. This is where a timeout that races a signal is decided: the
consumer may not go before it has either undone its subtraction or taken the
token. `CountBounds`: below zero the counter is minus one and the consumer sleeps
or is about to undo its subtraction. Nothing is assumed about who goes first.

`NoSignalIsLost` is the part of `WaitIsServed` that is about states: whenever the consumer sleeps
and there is an element, its token is in the system's semaphore or the producer is still within
`signal()`. What remains for TLC is that the threads then go on.

### The interface

`Frontend_proofs` proves, for every width of the command line and of the text boxes, every set of
characters and texts, and lines up to every length (`FrontendAssumption`):

| theorem | states |
|---|---|
| `InterfaceTypeCorrect` | `Spec => []TypeOK` |
| `OffsetIsRight` | `Spec => []OffsetAgrees` |
| `LineIsShown` | `Spec => []RowShowsLine` |
| `PageIsShown` | `Spec => []ScreenIsPage` |

`RowShowsLine` is not inductive on its own, because `render()` writes and clears
only the columns before the last. `LastColumnBlank` supplies the rest: as long as the
row shows the line, the last column is blank, since the offset always leaves one column
for the cursor. The page needs that every text box holds nothing or a text of
exactly its width, so that a new value covers the old one (`FittedType`, `WrittenOver`).

### The sensor

`Mpu6050_proofs` proves, for every number of quantities and every set of shorts that the
chip may measure (`SensorAssumption`):

| theorem | states |
|---|---|
| `SensorTypeCorrect` | `Spec => []TypeOK` |
| `ReadingsAreMeasurements` | `Spec => []ReadingIsMeasurement` |

The strengthening is `FirstByte`: a byte that has been read belongs to the measurement
that is meant, and the chip still holds it unless the reading is torn. The
arithmetic, that `read16` undoes the chip's two's complement for all 65,536 values, is
`BytesRoundTrip`.

## 6. Only model-checked

Every type invariant, every safety invariant, every action property and every refinement that
a passing run checks is a theorem of section 5. Only liveness is left to TLC: `WheelGoesOn`,
`StopEndsWorkers`, `FailureStopsWheel`, `LeavingEndsProcess`, `UserCommandApplied`, `SteeringApplied`,
`SomethingIsFound`, `WaitIsServed`, `TimedWaitEnds` and `StoppedIsShown`. Each follows from
weak fairness, so its proof would need `ENABLED` of an action, which this prover's
backends do not treat.

The library's induction theorems take an operator as a parameter, which none of the installed
provers can instantiate. `SetInduction` of `ReaderWriterQueue_proofs` takes a set
of numbers in its place; that is enough for the one recursive function of the
models, `Ahead`.

## 7. Not modelled

* The memory model. `ReaderWriterQueue`, `QueueSize` and `BlockingQueue` are sequentially
  consistent: the fences and `weak_atomic` of `atomicops.h` are taken to do their
  work. A model of reordered accesses needs another state space than
  that of these modules.
* The semaphores of other systems (Windows, Mach) in `atomicops.h`, and signals of more than one
  unit at a time, which the blocking queue does not send.
* In the program model a post never fails for lack of memory; `post` ignores the
  queue's answer, so the message would be lost. `Fifo` allows it and
  `ReaderWriterQueue` does it.
* The unused i2c transfers, the load estimates (`update_queue_load`, whose padding would be
  negative for a load of more than five digits) and the operators of `vector3.h` and
  `enum_bitset.hpp`: nothing in the program calls them.
* That `size_approx()` returns is not stated as liveness. What `SizeIsBracketed` says at every
  step is that the walk has never counted more than there can be, so it passes no
  block with elements twice.
* The width of control characters: `frontend.cpp:92` accepts the codes 1 to 31 and 127, which curses
  may show in two columns; `Frontend` gives every character one.
* Values: the fields of the status message and the values of configuration
  registers. The two bytes of speed, period and back-EMF constant are read in two
  transfers while the motor changes them (`drv10975.cpp:127`), so a displayed value
  may be torn, as in `Mpu6050`; it is only displayed. In `ReactionWheel` a reading is an arbitrary member of `Readings`; a
  register is known by who wrote it last. In the liveness runs every reading steers the same way.
* The timing counters that `drv10975` keeps for display, the rate limit of
  `live()`, the curses library, the command parser (any command may fail or be
  called), the formatting of numbers.
* `stepper.py`, `file.proto` and the build files.

## 8. Plan

1. Done: `Drv10975`, `ThreadBus` and `ReactionWheel`; `Fifo` and `ReaderWriterQueue` with all
   calls of its two threads, `QueueOrder`, `QueueSize`; `Frontend`; `Mpu6050`; `LightweightSemaphore` and
   `BlockingQueue`; `Wheel` and `DriverWheel`.
2. Done: `Drv10975_proofs`, `DriverWheel_proofs`, `ReactionWheel_proofs`,
   `ReaderWriterQueue_proofs`, `QueueOrder_proofs` (order as a statement about neighbouring
   cells and blocks; the walks of the destructor and of `size_approx()` by `OneCycle`),
   `BlockingQueue_proofs`, `Frontend_proofs`, `Mpu6050_proofs`.
3. Open: `DriverStatus`: the assembly of the status message from its registers while the
   motor changes them. `ceilToPow2` as the bit algorithm it is.
