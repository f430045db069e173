------------------------------ MODULE SensorBus -----------------------------
(***************************************************************************)
(* The I2C bus of the ship and the FIFO of the motion sensor on it.  Two   *)
(* threads use them: the control thread reads one packet per round of its  *)
(* loop (inv_mpu.c, inv_mpu_dmp_motion_driver.c; mode >= 2), the shell's   *)
(* i2c_test(cmd) reads register cmd of every address (drv_i2c.c:145).  The *)
(* bus mutex is held for one transfer (i2c_core.c:76), a reading is many.  *)
(*                                                                         *)
(* Scheduling.  Control has priority 5, the shell 20: the shell runs while *)
(* control is blocked, is stopped between any two steps when it is not,    *)
(* and inherits priority 5 while control waits for its transfer            *)
(* (rt_mutex_take, ipc.c:732).                                             *)
(*                                                                         *)
(* Faults.  A stretched clock puts the thread to sleep inside its transfer *)
(* (i2c-bit-ops.c:69); a transfer that times out or is not acknowledged    *)
(* fails: a write has taken effect or not, a read stops at some byte.      *)
(*                                                                         *)
(* The sensor (external) pushes whole packets while its DMP is on.  The    *)
(* FIFO is a number of bytes: its last byte ends a packet, so it begins    *)
(* with a packet when the number is a multiple of the packet length.  When *)
(* it is full a push drops the oldest bytes and sets the overflow flag;    *)
(* reading the interrupt status clears the flag.                           *)
(*                                                                         *)
(* disturbed is a history variable: what has happened since the last FIFO  *)
(* reset that a reading may suffer from.  It restricts no action.          *)
(***************************************************************************)
EXTENDS Integers

CONSTANTS
  PacketLength,  \* dmp.packet_length: 32
  FifoSize,      \* st.hw->max_fifo: 1024
  LastAddr,      \* i2c_test looks at the addresses 0..LastAddr: 127
  SensorAddr,    \* st.hw->addr: 0x68
  MaxBurst,      \* packets the sensor makes from one delay of the control
                 \* thread to the next: 2 (a packet takes 10 ms, as does the
                 \* delay of the loop, and a reading takes less)
  MaxFaults      \* bound: stretched clocks and failed transfers

ASSUME FifoAssumption ==
  /\ PacketLength \in Nat /\ PacketLength > 1
  /\ FifoSize \in Nat
  /\ FifoSize % PacketLength = 0 /\ FifoSize >= 4 * PacketLength
ASSUME AddrAssumption == LastAddr \in Nat /\ SensorAddr \in 0..LastAddr
ASSUME MaxBurstAssumption == MaxBurst \in Nat \ {0}
ASSUME MaxFaultsAssumption == MaxFaults \in Nat

VARIABLES
  pos,        \* where a thread is
  owner, waiter, saved,   \* the mutex: its owner, the suspended thread, and
                          \* original_priority
  prio,       \* current priority of the threads
  op,         \* the control thread's current or next transfer
  got, torn,  \* the packet being read: its bytes so far, and whether they are
              \* not those of one packet
  result,     \* of the last reading
  cmd, addr,  \* i2c_test: the register, the address
  fifo, overflow, dmp,    \* the sensor
  burst,      \* packets since the control thread's last delay
  faults,     \* so far
  disturbed   \* history

mutex   == <<owner, waiter, saved, prio>>
reading == <<op, got, torn, result>>
scan    == <<cmd, addr>>
sensor  == <<fifo, overflow, dmp>>
vars    == <<pos, mutex, reading, scan, sensor, burst, faults, disturbed>>

-----------------------------------------------------------------------------
Threads == {"control", "shell"}
None    == "none"
High    == 5
Low     == 20
NoPrio  == 255

\* The transfers of mpu_reset_fifo, the pointless ones (interrupt and data
\* source masks, with the DMP on) included.
ResetOps == {"intOff", "sourceOff", "userOff", "userReset", "userOn", "intOn",
             "sourceOn"}
Ops  == {"count", "status", "data", "temperature", "compass"} \cup ResetOps
Cmds == {"fifo", "status", "other"}

\* blocked: control in a delay, the shell at its prompt; ready: about to begin a
\* transfer; waiting: for the mutex; transfer, asleep: in rt_i2c_transfer.
TypeOK ==
  /\ pos \in [Threads -> {"blocked", "ready", "waiting", "transfer", "asleep"}]
  /\ owner \in Threads \cup {None} /\ waiter \in Threads \cup {None}
  /\ saved \in {High, Low, NoPrio}
  /\ prio \in [Threads -> {High, Low}]
  /\ op \in Ops
  /\ got \in 0..(PacketLength - 1) /\ torn \in BOOLEAN
  /\ result \in {"none", "ok", "failed", "overflow", "rejected"}
  /\ cmd \in Cmds /\ addr \in 0..LastAddr
  /\ fifo \in 0..FifoSize /\ overflow \in BOOLEAN /\ dmp \in {"off", "on"}
  /\ burst \in 0..MaxBurst /\ faults \in 0..MaxFaults
  /\ disturbed \subseteq {"stolen", "cut", "overrun", "cleared", "aborted"}

\* The sensor has been filling its FIFO since it was set up.
Init ==
  /\ pos = [t \in Threads |-> "blocked"]
  /\ owner = None /\ waiter = None /\ saved = NoPrio
  /\ prio = [control |-> High, shell |-> Low]
  /\ op = "count" /\ got = 0 /\ torn = FALSE /\ result = "none"
  /\ cmd = "other" /\ addr = 0
  /\ \E n \in 0..FifoSize : n % PacketLength = 0 /\ fifo = n
  /\ overflow \in {FALSE, fifo = FifoSize}
  /\ dmp = "on"
  /\ burst = 0 /\ faults = 0 /\ disturbed = {}

-----------------------------------------------------------------------------
(* Scheduler and mutex.                                                    *)

Runnable(t) == pos[t] \in {"ready", "transfer"}
Runs(t) == Runnable(t) /\ \A u \in Threads : Runnable(u) => prio[t] <= prio[u]
OnBus(t) == pos[t] = "transfer" /\ Runs(t)

\* rt_mutex_take: the free mutex, or a wait during which its owner has at least
\* the priority of who waits.
Take(t) ==
  /\ pos[t] = "ready" /\ Runs(t)
  /\ \/ /\ owner = None
        /\ owner' = t /\ saved' = prio[t]
        /\ pos' = [pos EXCEPT ![t] = "transfer"]
        /\ UNCHANGED <<waiter, prio>>
     \/ /\ owner # None
        /\ waiter' = t
        /\ prio' = [prio EXCEPT ![owner] = IF prio[t] < @ THEN prio[t] ELSE @]
        /\ pos' = [pos EXCEPT ![t] = "waiting"]
        /\ UNCHANGED <<owner, saved>>
  /\ UNCHANGED <<reading, scan, sensor, burst, faults, disturbed>>

\* rt_mutex_release: the owner's own priority again, and the mutex to who waits;
\* thread t goes on at next.
\* Mutants: the inherited priority stays; who waits is not resumed.
HandOver(t, next) ==
  \/ /\ waiter = None
     /\ owner' = None /\ saved' = NoPrio
     /\ pos' = [pos EXCEPT ![t] = next]
     /\ UNCHANGED waiter
  \/ /\ waiter # None
     /\ owner' = waiter /\ saved' = prio[waiter] /\ waiter' = None
     /\ pos' = [pos EXCEPT ![t] = next, ![waiter] = "transfer"]

ReleaseKeepsPriority(t, next) == prio' = prio /\ HandOver(t, next)
ReleaseResumesNobody(t, next) ==
  /\ prio' = [prio EXCEPT ![t] = saved]
  /\ owner' = None /\ saved' = NoPrio
  /\ pos' = [pos EXCEPT ![t] = next]
  /\ UNCHANGED waiter

Release(t, next) == prio' = [prio EXCEPT ![t] = saved] /\ HandOver(t, next)

Fault == faults < MaxFaults /\ faults' = faults + 1

\* SCL_H finds the clock low and delays, the mutex held.
Stretch(t) ==
  /\ OnBus(t) /\ Fault
  /\ pos' = [pos EXCEPT ![t] = "asleep"]
  /\ UNCHANGED <<mutex, reading, scan, sensor, burst, disturbed>>

Wake(t) ==
  /\ pos[t] = "asleep"
  /\ pos' = [pos EXCEPT ![t] = "transfer"]
  /\ UNCHANGED <<mutex, reading, scan, sensor, burst, faults, disturbed>>

-----------------------------------------------------------------------------
(* The control thread: mpu_mpl_get_data, one transfer at a time.           *)

\* A delay is over: that of the loop, or the 50 ms in mpu_reset_fifo.
DelayOver ==
  /\ pos["control"] = "blocked"
  /\ pos' = [pos EXCEPT !["control"] = "ready"]
  /\ burst' = 0
  /\ UNCHANGED <<mutex, reading, scan, sensor, faults, disturbed>>

\* The transfer is over, another follows; or the reading is over.
Follow(o) == op' = o /\ Release("control", "ready")
Over     == op' = "count" /\ Release("control", "blocked")
Transfer(o) == OnBus("control") /\ op = o /\ UNCHANGED <<scan, burst>>

\* mpu_read_fifo_stream: what follows a FIFO count of n.  Less than a packet
\* ends the reading, more than half of the FIFO asks for the overflow flag.
\* Mutants: the flag is not looked at; too few bytes reset the FIFO.
AfterCountBlind(n)  == IF n < PacketLength THEN None ELSE "data"
AfterCountResets(n) == IF n < PacketLength THEN "intOff"
                       ELSE IF 2 * n > FifoSize THEN "status" ELSE "data"

AfterCount(n) == IF n < PacketLength THEN None
                 ELSE IF 2 * n > FifoSize THEN "status" ELSE "data"

ReadCount ==
  /\ Transfer("count")
  /\ \/ Fault /\ result' = "failed" /\ Over
     \/ /\ IF AfterCount(fifo) = None THEN result' = "failed" /\ Over
                                      ELSE UNCHANGED result /\ Follow(AfterCount(fifo))
        /\ UNCHANGED faults
  /\ UNCHANGED <<got, torn, sensor, disturbed>>

\* The interrupt status; an overflow resets the FIFO.
ReadStatus ==
  /\ Transfer("status")
  /\ \/ /\ Fault /\ result' = "failed" /\ Over
        /\ \/ UNCHANGED <<overflow, disturbed>>
           \/ overflow' = FALSE /\ disturbed' = disturbed \cup {"cleared"}
     \/ /\ IF overflow THEN result' = "overflow" /\ Follow("intOff")
                       ELSE UNCHANGED result /\ Follow("data")
        /\ overflow' = FALSE
        /\ UNCHANGED <<faults, disturbed>>
  /\ UNCHANGED <<got, torn, fifo, dmp>>

\* One byte leaves the FIFO; an empty one returns something.
\* Mutant: the FIFO counts below zero.
PopBelow(n) == n - 1
Pop(n) == IF n = 0 THEN 0 ELSE n - 1

\* Mutant: the packet is read one byte short.
LastShort == PacketLength - 2
LastByte  == PacketLength - 1

\* With the byte to be read the packet is not one whole packet.
Tears == \/ fifo = 0
         \/ IF got = 0 THEN fifo % PacketLength # 0 ELSE torn

ReadByte ==
  /\ Transfer("data") /\ got < LastByte
  /\ got' = got + 1 /\ torn' = Tears /\ fifo' = Pop(fifo)
  /\ UNCHANGED <<pos, mutex, op, result, overflow, dmp, faults, disturbed>>

\* The last byte, then the check of the quaternion, which a torn packet may
\* fail; its failure resets the FIFO.
\* Mutant: a failed check does not reset.
ReadLastByteNoReset ==
  /\ Transfer("data") /\ got = LastByte
  /\ \/ UNCHANGED result /\ Follow("temperature")
     \/ Tears /\ result' = "rejected" /\ Over
  /\ got' = 0 /\ torn' = Tears /\ fifo' = Pop(fifo)
  /\ UNCHANGED <<overflow, dmp, faults, disturbed>>

ReadLastByte ==
  /\ Transfer("data") /\ got = LastByte
  /\ \/ UNCHANGED result /\ Follow("temperature")
     \/ Tears /\ result' = "rejected" /\ Follow("intOff")
  /\ got' = 0 /\ torn' = Tears /\ fifo' = Pop(fifo)
  /\ UNCHANGED <<overflow, dmp, faults, disturbed>>

\* The transfer fails at the next byte, which the sensor has sent or not.
CutData ==
  /\ Transfer("data") /\ Fault
  /\ result' = "failed" /\ Over
  /\ got' = 0 /\ torn' = FALSE
  /\ fifo' \in {fifo, Pop(fifo)}
  /\ disturbed' = disturbed \cup {"cut"}
  /\ UNCHANGED <<overflow, dmp>>

\* mpu_get_temperature and mpu_get_compass_reg: a failure changes the values
\* the MPL is given, not the course of the reading.
ReadTemperature ==
  /\ Transfer("temperature") /\ Follow("compass")
  /\ (Fault \/ UNCHANGED faults)
  /\ UNCHANGED <<got, torn, result, sensor, disturbed>>

ReadCompass ==
  /\ Transfer("compass") /\ result' = "ok" /\ Over
  /\ (Fault \/ UNCHANGED faults)
  /\ UNCHANGED <<got, torn, sensor, disturbed>>

\* mpu_reset_fifo.  What its writes do to the sensor:
Writes(o) ==
  CASE o = "userOff"   -> dmp' = "off" /\ UNCHANGED <<fifo, torn, disturbed>>
    [] o = "userReset" -> fifo' = 0 /\ torn' = FALSE /\ disturbed' = {} /\ UNCHANGED dmp
    [] o = "userOn"    -> dmp' = "on" /\ UNCHANGED <<fifo, torn, disturbed>>
    [] OTHER           -> UNCHANGED <<dmp, fifo, torn, disturbed>>

\* and in which order they come; after the reset it delays.
After(o) ==
  CASE o = "intOff"    -> "sourceOff"
    [] o = "sourceOff" -> "userOff"
    [] o = "userOff"   -> "userReset"
    [] o = "userReset" -> "userOn"
    [] o = "userOn"    -> "intOn"
    [] o = "intOn"     -> "sourceOn"

Written(o) ==
  \/ o = "userReset" /\ op' = After(o) /\ Release("control", "blocked")
  \/ o = "sourceOn" /\ Over
  \/ o \notin {"userReset", "sourceOn"} /\ Follow(After(o))

ResetWrite ==
  /\ op \in ResetOps /\ Transfer(op)
  /\ Writes(op) /\ Written(op)
  /\ UNCHANGED <<got, result, overflow, faults>>

\* A failed write ends mpu_reset_fifo; its callers do not look at that.
ResetAborts ==
  /\ op \in ResetOps /\ Transfer(op) /\ Fault /\ Over
  /\ \/ /\ UNCHANGED <<dmp, fifo, torn>>
        /\ disturbed' = disturbed \cup {"aborted"}
     \/ /\ op = "userOff"   /\ dmp' = "off" /\ UNCHANGED <<fifo, torn>>
        /\ disturbed' = disturbed \cup {"aborted"}
     \/ /\ op = "userReset" /\ fifo' = 0 /\ torn' = FALSE /\ UNCHANGED dmp
        /\ disturbed' = {"aborted"}
     \/ /\ op = "userOn"    /\ dmp' = "on" /\ UNCHANGED <<fifo, torn>>
        /\ disturbed' = disturbed \cup {"aborted"}
  /\ UNCHANGED <<got, result, overflow>>

ControlTransfer ==
  \/ ReadCount \/ ReadStatus \/ ReadByte \/ ReadLastByte \/ CutData
  \/ ReadTemperature \/ ReadCompass \/ ResetWrite \/ ResetAborts

-----------------------------------------------------------------------------
(* The shell: i2c_test.                                                    *)

Enter(c) ==
  /\ pos["shell"] = "blocked" /\ ~Runnable("control")
  /\ pos' = [pos EXCEPT !["shell"] = "ready"]
  /\ cmd' = c /\ addr' = 0
  /\ UNCHANGED <<mutex, reading, sensor, burst, faults, disturbed>>

\* Only the sensor answers; what the read of the register does to it.
Probe ==
  \/ /\ addr = SensorAddr /\ cmd = "fifo"
     /\ fifo' = Pop(fifo)
     /\ disturbed' = IF fifo = 0 THEN disturbed ELSE disturbed \cup {"stolen"}
     /\ UNCHANGED overflow
  \/ /\ addr = SensorAddr /\ cmd = "status"
     /\ overflow' = FALSE
     /\ disturbed' = IF overflow THEN disturbed \cup {"cleared"} ELSE disturbed
     /\ UNCHANGED fifo
  \/ /\ addr # SensorAddr \/ cmd = "other"
     /\ UNCHANGED <<fifo, overflow, disturbed>>

ShellTransfer ==
  /\ OnBus("shell")
  /\ \/ Probe /\ (Fault \/ UNCHANGED faults)
     \/ Fault /\ UNCHANGED <<fifo, overflow, disturbed>>
  /\ \/ addr < LastAddr /\ addr' = addr + 1 /\ Release("shell", "ready")
     \/ addr = LastAddr /\ UNCHANGED addr /\ Release("shell", "blocked")
  /\ UNCHANGED <<reading, cmd, dmp, burst>>

-----------------------------------------------------------------------------
(* The sensor.                                                             *)

\* Packets come at their rate: any number while a thread sleeps in a transfer,
\* else MaxBurst between two delays.  One that does not fit tears the one being
\* read.
Push ==
  /\ dmp = "on"
  /\ IF \E t \in Threads : pos[t] = "asleep"
       THEN UNCHANGED burst
       ELSE burst < MaxBurst /\ burst' = burst + 1
  /\ \/ /\ fifo + PacketLength <= FifoSize
        /\ fifo' = fifo + PacketLength
        /\ UNCHANGED <<overflow, torn, disturbed>>
     \/ /\ fifo + PacketLength > FifoSize
        /\ fifo' = FifoSize /\ overflow' = TRUE
        /\ IF got > 0 THEN torn' = TRUE /\ disturbed' = disturbed \cup {"overrun"}
                      ELSE UNCHANGED <<torn, disturbed>>
  /\ UNCHANGED <<pos, mutex, op, got, result, scan, dmp, faults>>

ControlRun == DelayOver \/ Take("control") \/ ControlTransfer \/ Wake("control")
ShellRun   == Take("shell") \/ ShellTransfer \/ Wake("shell")

Next == \/ ControlRun \/ ShellRun \/ Push
        \/ \E t \in Threads : Stretch(t)
        \/ \E c \in Cmds : Enter(c)

\* The threads run when they can, and the shell gets the processor again and
\* again because control is blocked again and again.
Spec == /\ Init /\ [][Next]_vars
        /\ WF_vars(ControlRun) /\ SF_vars(ShellRun) /\ WF_vars(Push)

-----------------------------------------------------------------------------
(* Properties.                                                             *)

\* One transfer at a time, that of the mutex's owner; who waits waits for the
\* other one; and the shell has control's priority exactly while control waits
\* for it, so that nothing between 5 and 20 keeps control waiting (ipc.c:664-890).
InTransfer(t) == pos[t] \in {"transfer", "asleep"}
BusMutex ==
  /\ \A t \in Threads : /\ InTransfer(t) <=> owner = t
                        /\ pos[t] = "waiting" <=> waiter = t
  /\ waiter # None => owner # None
  /\ owner = None => saved = NoPrio
  /\ prio["control"] = High
  /\ prio["shell"] = IF waiter = "control" THEN High ELSE Low

\* A reading is one whole packet, unless since the last reset of the FIFO the
\* shell took a byte, a transfer was cut, or a packet overran the one being
\* read: no interleaving of the many transfers of a reading with those of
\* i2c_test does it otherwise (i2c_core.c:76, inv_mpu.c:1908-1928).
WholeUnlessDisturbed ==
  disturbed \cap {"stolen", "cut", "overrun", "aborted"} = {} =>
    ~torn /\ (fifo + got) % PacketLength = 0

\* A reading torn by an overrun is the only one: the overflow flag is set and
\* the FIFO more than half full, so the next reading resets it, unless something
\* else interfered (inv_mpu.c:1916).
OverrunNoticed ==
  disturbed = {"overrun"} /\ op \notin ResetOps => overflow /\ 2 * fifo > FifoSize

\* The DMP is off and too few bytes are left for a reading.
Lost == dmp = "off" /\ fifo < PacketLength /\ op \in {"count", "temperature", "compass"}

\* A reset that was cut short leaves the sensor lost until the next power-up: no
\* reading turns the DMP on again (inv_mpu.c:1911, 1923).
LostForGood == [][Lost => Lost']_vars

\* Nothing else silences the sensor: while the operator leaves the bus alone
\* readings, or resets after an overflow, come again and again.
KeepsReading ==
  <>[](pos["shell"] = "blocked") =>
    []<>(result \in {"ok", "overflow"}) \/ <>[]Lost

\* i2c_test comes back, although control takes the bus from it over and over.
ScanReturns == pos["shell"] # "blocked" ~> pos["shell"] = "blocked"
=============================================================================
