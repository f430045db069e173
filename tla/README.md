# RacingShip: a verification project

TLA+ models of the two programs of this repository, the TLC runs that check
them on small instances and TLAPS proofs of what matters most for every value
of the constants.  `src/Ship` is the program of the ship, `src/Current voltage
detector` the one of a current and voltage meter that reports by radio.  Both
run on an STM32F103 under RT-Thread 3.1.0; all but some 2500 lines of the
repository is the kernel, the chip libraries and a motion library.

Paths below are shortened: `S/` is `src/Ship/rt-thread3.1.0/bsp/stm32f10x/`,
`V/` the same directory of the detector, `K/` is `src/Ship/rt-thread3.1.0/`.

## 1. Inventory

### Ship

| Part | State | Operations | Meets |
|---|---|---|---|
| Control thread, `S/applications/control_app.c` | `debugControl`, place in the self test and in the loop | self test; loop: idle (0), line following (1), sensor test (2 and up, counted out to 1002) | the shell's commands through `debugControl` and the outputs |
| Shell commands | command line, statement reached | `debug 0/1/2`, `motor1_control`, `motor2_control`, `pwm`, `adc_average`, `i2c_test` | control thread (outputs, beeper, bus) |
| Probe scan, `control_function.c`, `read_io_port.c` | none | row of 9 near probes, row of 26 far probes to one feedback each | drive law |
| Outputs, `motor.c`, `steeringengine.c`, `pwm.c`, `beep.c` | direction pins, compare registers, beeper pin | two pin writes and a register write per motor command; range checks; beep rounds | both threads write them, no lock |
| Radio, `wireless_app.c`, with `K/components/drivers/serial/serial.c`, `K/src/ipc.c` | ring of received bytes, event, open or not | open, put character and string, get character; receive interrupt | master thread, interrupt, a reader |
| Start-up, `application.c`, `startup.c`, `master_app.c` | which threads exist, their delays | INIT_BOARD and INIT_APP lists, `master_thread_entry`, `control_app_init`, `finsh_system_init` | everything |
| Timers, `pwm.c` | clocks and time bases of TIM1, TIM2, TIM3 | `rt_hw_pwm_init` | outputs |
| MPU9250, `drv_mpu9250.c` and the vendored `inv_mpu.c` | `st.chip_cfg`; in the chip: FIFO, overflow flag, DMP | `mpu9250_init` with a retry loop, `mpu_dmp_init`, `mpu_mpl_get_data`, `mpu_reset_fifo` | init and control thread; I2C bus |
| I2C, `drv_i2c.c`, `K/components/drivers/i2c`, `K/src/ipc.c` | bus mutex with its owner and original priority | transfers, `i2c_test` | control thread and shell |

### Detector

| Part | State | Operations | Meets |
|---|---|---|---|
| Thread App_1, `V/applications/volt_app.c` | `DebugFlag`, `temp_val`, loop positions | five samples of the current, five of the battery, then a frame or a print | the shell through `DebugFlag` and the converter |
| Converter, `V/drivers/adc.c` | selected channel, conversion, EOC | `Get_Adc`; `adc_average` of the shell | both threads, no lock |
| Frame and display, `volt_app.c` | none | packing into seven bytes with a sum; decimal digits | receiver, operator |

### What is hard here, and what makes each part correct

Hardly anything is locked.  On the ship a thread of priority 5 (control) and the
shell at 20 write the same mode, pins and registers; on the detector App_1 at 9
and the shell share a converter whose end-of-conversion flag belongs to nobody.
The higher thread gives up the processor only in delays, so its part between two
delays is atomic for the shell, while the shell can be interrupted between any
two statements.  The one mutex, that of the I2C bus, covers a transfer, not a
reading.  The sensor driver drops the results of many transfers, and nothing but
the lengths of delays orders the threads at start-up.  Hence:

* control and shell: a stop stays a stop; a mode takes effect; motor pins are
  never both high for long; the beeper falls silent; commands return; the
  sensor test ends.
* probes and drive law: what is computed is accepted by the outputs; the rudder
  follows the line and treats both sides alike.
* converter: a frame is made of the right number of samples of the right
  channel; rounds go on; a command of the shell returns.
* frame: it decodes to what was measured, and a corrupted one is noticed.
* radio: no byte is lost unless the ring is full, no wake-up is lost, the
  greeting cannot block the ship.
* start-up: each part is initialised before it is used, the timers run at the
  rates the drive law assumes, a finished retry loop means a working sensor,
  the operator gets a command line.
* bus and sensor: a reading is one whole packet, an overrun is noticed, a
  reading or a scan comes to its end whoever else uses the bus.

PROJECT.json lists these as hazards, each at its line.

## 2. Modules

| Module | Models | Used by |
|---|---|---|
| `Steering` | probe scan and drive law, pure operators | `ShipControl`, `LineFollowing` |
| `Actuators` | direction pins, compare registers, accepted ranges | `ShipControl`, `LineFollowing`, `ShipStartup` |
| `ShipControl` | control thread, shell commands, outputs | `MCShipControl`, `ShipControlProofs`, `ShipCommandProofs` |
| `LineFollowing` | a line drifting under the probes, on top of the two pure modules | `MCLineFollowing`, `LineFollowingProofs` |
| `VoltFrame` | arithmetic of the detector, pure | `VoltReadings` |
| `VoltReadings` | drifting averages and their frames | `MCVoltReadings`, `VoltReadingsProofs` |
| `VoltAdc` | App_1, the shell and the converter | `MCVoltAdc`, `VoltAdcProofs` |
| `RxQueue` | what a receive path promises: a lossy queue | `Wireless` (instance, refinement) |
| `Wireless` | open, greeting, receive interrupt, ring, event, reader | `MCWireless`, `WirelessProofs` |
| `ShipStartup` | timers, init thread, set-up of the sensor and its retries, creation of the threads | `ShipStartupProofs` |
| `SensorBus` | bus mutex, the transfers of a reading and of `i2c_test`, the sensor's FIFO | `SensorBusProofs` |

`Steering`.  `ScanLoop` is the loop both scans run, bit by bit; `MeanOf` is what
it is meant to compute, and the properties compare the two.

`ShipControl`.  One action of the control thread is all it does from one delay
to the next (`SelfTest`, `EndSelfTest`, `Iterate`, ...); one action of the shell
is one statement that touches shared state (`SetMode`, `ResetFirst`,
`SetSecond`, `WritePwm`, `Centre`, ...).  `mode` is `debugControl`, `duty` the
compare registers of the twelve channels, `pins` the direction pins that are
high.  A sensor read may return at once or block inside the driver (`ctl =
"mpu"`): `mpu_reset_fifo` waits 50 ms (`inv_mpu.c:1204`) and a stretched I2C
clock waits too.  `landed` and `cut` are history variables; they say where a
command met the control thread and constrain nothing.

`VoltAdc`.  A sample is represented by the channel it came from and `temp_val`
by how many samples of each channel it holds; this is all the properties need,
the arithmetic is in `VoltFrame`.  The converter (`Select`, `Start`, `Fetch`,
`Convert`) is external, modelled from the STM32F1 behaviour `adc.c` relies on.
`Get_Adc` of the shell is one action per access: `ShSelect`, `ShStart`,
`ShCheck` (the flag is seen, `adc.c:54`), `ShFetch` (the data is read, line 56),
and App_1 may take a sample of its own between any two.  App_1 is interrupted
by no thread, so its four accesses make two steps; the module's header says why
no conversion can end inside the first and why it does not matter in the
second.  `met`, `alone`, `cutIn` and `torn` are history variables: whether a
sample of the round was begun with EOC standing, whether the shell stayed at its
prompt for the round, how App_1 met the shell's `Get_Adc`, and whether App_1 has
ever come between `ShCheck` and `ShFetch`.

`Wireless`.  The interrupt (`Receive`) comes between any two steps of the
threads; one step of a thread is one section with interrupts disabled or one
call.  One interrupt stores one byte; a burst drained by a single interrupt
ends in the same state as the same bytes one by one.  No thread of the program
calls `wireless_getchar` today: the reader models the use it is written for.

`ShipStartup`.  One action is one call of the init thread, one step of
`mpu_dmp_init`, or one step of another thread; the clock (`Tick`, `wake`) is
there because two delays alone decide which thread exists first.  A step of
`mpu_dmp_init` is a series of I2C transfers any of which may fail; its action
says which errors it returns, which it ignores, and in what state each leaves
`st.chip_cfg` (`cfg`) and the chip (`chip`).  What the chip's registers hold is
reduced to whether packets have the right layout and scale, whether the compass
is set up and whether packets come.  `inv_init_mpl` and `inv_start_mpl` are
taken not to fail: what the repository has of them (`mllite`) initialises
memory, also when called again, and the library behind it is not there.  A timer
without a clock takes no writes: that is why `stm32_tim2_init`, which writes
TIM3's time base (`pwm.c:84`), does no harm.

`SensorBus`.  One action is one transfer, or one byte of the packet; a thread is
at a place (`pos`), takes the mutex, is on the bus, sleeps in a stretched clock,
and hands the mutex over, each as `rt_mutex_take` and `rt_mutex_release` do it,
with inherited priorities.  The FIFO is a number of bytes; its last byte always
ends a packet, so a reading is whole when it begins at a multiple of the packet
length and meets no byte of another.  `disturbed` is a history variable: what
has happened since the last reset that may tear a reading.

## 3. Runs

Bounds are constants of the MC modules and cfgs.

| Run | Checks | Instance |
|---|---|---|
| `ship_commands` | `TypeOK`, `StopHolds`, `RaceOutcome`, `ImuHoldsStill`, `DriveHolds`, `BrakeOnlyWhenTorn`, `BeeperReleased`, `ImuDrains`, `CommandCompletes`, `StopEventually` | `debug 0/1/2`, both motors reversed, a refused value, a register by hand; every near feedback, no line and both ends of the far row; the sensor test wraps at 4 instead of 1002 |
| `ship_lost_stop` | `StopKeepsMode`, violated | `debug 0` and `debug 2` |
| `line_law` | `CommandsAccepted`, `MirrorBias`, `RudderFollows` | all 512 near readings; every contiguous stretch and every pair of the 26 far probes |
| `row_of_three` | `ThreeAsCommented`, violated | as above |
| `volt_shared` | `TypeOK`, `FrameClean`, `ShellClean`, `LostForGood`, `RoundsContinue`, `AverageReturnsOrLost` | averages of 2 samples instead of 5; `debug()`, `adc_average` of 2, 1 and 0 samples on App_1's two channels |
| `volt_hang` | `AverageReturns`, violated | as above |
| `volt_readings` | `FrameDecodes`, `BitErrorDetected`, `DisplayMatchesFrame` | all 4096 values of each reading, the other at an end or a boundary |
| `radio_link` | `TypeOK`, `NoLostWakeup`, `QueueSpec`, `Drains`, `MasterFinishes` | ring of 3 slots, 7 bytes of 3 values, 3 tries instead of 500, 2 characters |
| `radio_early` | `EventAsserted`, violated | the port opens |
| `ship_startup` | `TypeOK`, `DrivenAtItsRate`, `ControlFirst`, `NoReadBeforeInit`, `ReadyUnlessIgnored`, `ShellComesUp` | the delays of the code: 5 and 10 ticks; every state of the chip at reset; any number of errors and retries |
| `startup_ready` | `ZeroMeansReady`, violated | as above |
| `sensor_bus` | `TypeOK`, `BusMutex`, `WholeUnlessDisturbed`, `OverrunNoticed`, `LostForGood`, `KeepsReading`, `ScanReturns` | packets of 2 bytes, a FIFO of 8 (four packets), addresses 0 and 1, 2 packets between two delays of the control thread, 1 fault |

Why the bounds are enough.  `Wrap` only has to keep mode 2 apart from the wrap.
The seven safety properties of `ship_commands` are proved for every `Wrap`,
every command line and all 27 far feedbacks; the three liveness properties do
not depend on which value the rudder is given, only on whether an output moves,
and no line and the two ends of the row do both.  Two samples tell the first, a
middle and the last pass of a loop apart, and the safety properties of `VoltAdc`
are proved for every `Samples`. Three slots are the smallest ring in which a
queue of more than one byte fills, overflows and goes round; seven bytes go
round it twice; the refinement is proved for every size.  The two numeric runs
cover each range but not every combination (2^26 far readings, 2^24 pairs of
readings); what they check is proved for all of them.  `ship_startup` has no
bound but the model itself.  In `sensor_bus` a packet of two bytes has a first
and a last one, and a FIFO of four packets has readings below, at and above
half, overruns, and overruns of a packet being read; one fault is enough to cut
a transfer, to stretch a clock or to abort a reset, at every transfer; the five
safety properties are proved for every size and number of faults, so only the
two liveness properties rest on these numbers.

Deadlock is checked in every run.  In `Wireless` the end (everyone waits, the
bound on the peer's bytes reached, or a failed assertion, which loops in
`kservice.c`) is the stuttering action `Idle`.

### What the violated runs show

* `ship_lost_stop`: `debug 0` while the control thread is blocked inside
  `mpu_mpl_get_data`.  The command stops the motors, centres the rudder and
  prints `debugControl=0`; the read returns, `debugControl++`
  (`control_app.c:91`) makes it 1 and the ship starts to follow the line.
  `StopHolds` and `RaceOutcome`, which pass, say that this is the only case and
  that in this case it always happens.
* `volt_hang`: App_1 samples between the start and the end of the shell's
  conversion.  It restarts the converter and clears EOC by reading its own
  value; the shell waits forever on `adc.c:54`.  `LostForGood` says that
  nothing rescues it, `AverageReturnsOrLost` that nothing else delays it.
* `row_of_three`: the comment beside `control_app.c:49` gives the row of three
  probes two values, 650 and 850, one on each side of the centre 750.  The code
  commands 740 for one outer probe and 660 for the other, with 750 (line 60)
  for the middle one between them: both outer probes turn the rudder to the same
  side.  `RudderFollows`, which passes, is therefore stated for the far row and
  for the row of six alone.
* `radio_early`: the receive interrupt is enabled (`wireless_app.c:69`) before
  `rt_event_init` (line 83); a byte in between fails an assertion of
  `rt_event_send` and the interrupt never returns.
* `startup_ready`: `mpu_init` fails, `mpu_dmp_init` skips its body and answers
  0, the retry loop ends and prints that all is well.  `ReadyUnlessIgnored` says
  which errors are the only ways.  Six calls drop errors: `mpu_init`,
  `mpu_configure_fifo` (`inv_mpu.c:1660`), `mpu_set_sample_rate` (1503, 1507),
  `dmp_enable_feature`, `run_self_test` when it restores the settings and pushes
  the biases to the DMP, and `mpu_set_dmp_state`.  What the second and the third
  drop (interrupt enable, filter, compass rate) the last one writes again; the
  other four (`Unrepaired`) can leave a sensor that does not work behind a 0.

Also met while modelling, without a run of their own: when App_1 comes between
the shell's sight of EOC (`adc.c:54`) and its read (line 56), it takes the
shell's value for its own, and the flag of its own conversion is left standing.
From then on every sample of either thread finds the flag of the conversion
before it and returns that one's value at once, until a conversion happens to
end between the start and the check of a sample.  The frames of App_1 alone are
then one sample late, the first battery sample being a current (`FrameClean`),
and an `adc_average` nobody interrupts begins with a value of App_1's channel
(`ShellClean`).  Further: after a failed
`wireless_open` the master thread goes on to write to no device and fails an
assertion (`master_app.c:12`, `device.c:404`; `MasterFinishes` names the case);
the comment of `control_app.c:76` gives the far probes a range of 250-1250
where at most 500-1000 is commanded and accepted; the calibration table in
`volt_app.c:7-11` gives 1111 for 2 A, which is shown and sent as -1.89.

What else the passing runs of `sensor_bus` and `ship_startup` say: an aborted
`mpu_reset_fifo` can leave the DMP off, and then nothing but a power-up brings
the sensor back (`LostForGood`); `i2c_test` of the FIFO register is the only
command that breaks a packet, and a broken packet that fails the check of its
quaternion resets the FIFO; the control thread exists before the command line
only because 50 ms are less than 100 ms (`ControlFirst`).

### Fairness

* `ShipControl`: weak fairness of the control thread (delays end, highest
  priority) and of the shell, which the control thread leaves the processor to
  in every iteration and whose statements stay enabled.  Nothing obliges the
  operator to type.
* `VoltAdc`: weak fairness of the converter and of App_1; strong fairness of the
  shell's steps, since App_1 interrupts it again and again but spends nearly
  all its time in delays, in which the shell runs.
* `Wireless`: weak fairness of the master thread and of the reader.  None of the
  peer: it need not send.  A run ends after `MaxBytes` bytes, which is why
  `Drains` may assume that the peer pauses.

* `ShipStartup`: weak fairness of the init thread, of the master's step, of the
  control thread and of the clock: a thread that can run does, the tick
  interrupt always runs.  Errors are not assumed to stop; `ShellComesUp` is
  conditional on it.  The self test may keep failing only while there are
  errors or the ship moves in its own self test, which ends.
* `SensorBus`: weak fairness of the control thread, which is the highest one;
  strong fairness of the shell, which gets the processor whenever control is in
  a delay; weak fairness of the sensor, which has a clock of its own.  None of
  the operator nor of faults.

## 4. Proofs

`tlapm` proves every obligation of eight modules.

* `ShipControlProofs!TypeCorrect`: `TypeOK` of `ShipControl`.  The one
  nontrivial part is that the drive law yields numbers that `pwm` takes, from
  the range of the feedback values.
* `ShipCommandProofs`: first `StopHolds`, `RaceOutcome` and `ImuHoldsStill` from
  `StopInv`.  The three properties speak of a command that has completed; the
  invariant follows its execution: `ModeInv` says what `debugControl` is after
  the command's first statement (and what line 91 made of it), `CallInv` which
  call the shell is in, `OutInv` that an output is where the command wants it
  as soon as it has been written, `StageInv` and the stage numbers in `OutInv`
  that the self test may undo it until its last blocks.  It is needed because
  `StopHolds` alone says nothing about a command under way.
  Then `DriveHolds` from `DriveInv`, which also says where the control thread is
  while a `debug 1` that met the sensor read waits for line 91;
  `BrakeOnlyWhenTorn` from `PinInv`, which knows the pins of motor 1 between
  the two writes too; `BeeperReleased`, which is inductive as it stands.
* `VoltAdcProofs`: `FrameClean`, `ShellClean`, `LostForGood`, and that without
  `adc_average` all is clean, from `SharingInv`.  `AdcIdle` says that until the
  first torn read of the shell the converter is idle outside the two `Get_Adc`.
  A sample begun with EOC clear gets its own channel (`RoundInv`).  In a round
  without the shell only the sample before the first of either half can be
  foreign, torn read or not (`AloneInv`).  A `Get_Adc` of the shell that is not
  cut and began with EOC clear is the only conversion (`GetAdcInv`); `SumInv`
  bounds the sums for `TypeOK`.
* `WirelessProofs`: `NoLostWakeup`, and `RingImplementsQueue`: `Wireless`
  implements `RxQueue` with `Contents`, the bytes between the two indices, as
  the queue.  `LinkInv` adds that equal indices mean an empty ring although
  `is_full` may be set, and that a reader exists only once the event does.
  `TakeReturns` and `StoreArrives` are the two refinement steps, the second
  with its two cases: room left, or the interrupt pushes the reader's index on.
* `ShipStartupProofs`: `TypeOK`, `ControlFirst`, `NoReadBeforeInit`,
  `DrivenAtItsRate` and `ReadyUnlessIgnored` from `StartupInv`.  `Order` relates
  the clocks: while the master thread is in its delay the init thread is in its
  first one, with at least as many ticks left.  `TimersReset` and `TimersSet`
  are the two states the timers are ever in.  `Progress` says, for each call of
  `mpu_dmp_init`, which parts of driver and chip are set up by then unless one
  of the four unrepaired errors was dropped; the rate is right only after
  `mpu_set_dmp_state`, whatever the calls before it dropped.  An attempt starts
  from any state the last one left.
* `SensorBusProofs`: `BusMutex`, `TypeOK`, `WholeUnlessDisturbed`,
  `OverrunNoticed` and `LostForGood`.  `LockInv` says that the priority to be
  given back is the owner's own, `WholeInv` that who is about to read a packet
  has found one and that what is in the FIFO and what has been read are whole
  packets together, `OverrunInv` what the flag and the count are while a packet
  that was overrun is still being read.  The lemmas on `%` carry the
  arithmetic.

* `LineFollowingProofs`: `CommandsAccepted`, `MirrorBias` and `RudderFollows` for
  every far reading, from `ScanIsMean`: the loop of the scans returns the
  truncated mean, for any number of probes.  The means are then compared by
  what a shift or a mirror image does to a sum (`ImageSum`), and the drive law
  is monotone on them (`FarClampMonotone`); for the row of six alone it is linear.
  All of it is induction over finite sets; the library's induction theorems
  cannot be used, since they take a predicate as a parameter.  `SubsetInduction`
  takes the set of good subsets instead and is proved from a minimal
  counterexample.  With it `SumsExist`
  says that the recursive function inside `SumSet` exists, and `SumSetRemove`
  that the sum does not depend on the order in which it takes the elements out,
  while the loop takes them in the order of the bits (`Totals`, `OneMoreBit`).
  `ScansDecoded` is what `ShipControl` assumes of its readings.
* `VoltReadingsProofs`: `FrameDecodes`, `BitErrorDetected` and
  `DisplayMatchesFrame` for every pair of readings.  `FrameBytes` writes the
  frame out; `PayloadNumbers` puts two bytes together again, for negative
  currents too; a flipped bit moves the sum by less than 256, hence its
  remainder (`FlipNoticed`); the lemmas on digits say what the divisions
  of the display leave, which truncate towards zero.

Assumptions are the named ASSUMEs of the modules: `Wrap` between 4 and the width
of `debugControl`, readings among those `ScansDecoded` proves to be all, command
lines whose numbers fit their C types, a ring of at least two slots, at least
one sample, character and try; a delay of the master that is not the longer one;
a FIFO of at least four whole packets; far readings and averages to start from
that are readings.  TLC evaluates them in the runs.

Only model-checked: the liveness properties (`ImuDrains`, `CommandCompletes`,
`StopEventually`, `RoundsContinue`, `AverageReturnsOrLost`, `Drains`,
`MasterFinishes`, `ShellComesUp`, `KeepsReading`, `ScanReturns`), which need
fairness and ENABLED, out of the prover's reach.  Every other property of a
passing run is also a theorem.

## 5. Not modelled

* The DMP and MPL arithmetic, the finsh shell, the scheduler and the chip
  libraries are third-party; the models take from them what section 2 and the
  module comments name.
* Ship's own `adc_average` has no second user; the detector's copy of
  `wireless_app.c` sends the frames and its kernel has the same ring.
* The levels of the two I2C lines and the microsecond delay, which ends early
  when the down-counter reloads (`drv_i2c.c:93`): `SensorBus` lets any transfer
  fail, whatever the cause.
* The time stamps and the temperature the MPL is given, which are uninitialised
  (`inv_mpu.c:3530`, `3659`), and the biases a self test measures on a moving
  ship (`inv_mpu.c:3492`): sensor data no property tells apart.
* A sensor that answers but never samples, on which the bias loop of the self
  test never ends (`inv_mpu.c:2613`).
* Mode changes during a reading of `SensorBus`: the control thread reads on and
  on; what the modes do is in `ShipControl`.
* The pin modes of the outputs and the channels nothing is connected to (TIM2's
  keep the time base of reset).
* Time, except in `ShipStartup`: delays end, in any order the priorities allow.

## 6. What remains

A composition of `SensorBus` with the modes of `ShipControl` (a reading that
stops when the mode changes, a FIFO that fills in mode 1 meanwhile); the ship's
`adc_average` if it ever gets a second user; measures that decrease, to carry
part of the liveness arguments.
