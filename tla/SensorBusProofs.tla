--------------------------- MODULE SensorBusProofs --------------------------
(***************************************************************************)
(* The bus mutex, whole readings and the lost sensor, for every length of  *)
(* a packet, size of the FIFO, address range, and number of faults.        *)
(*                                                                         *)
(* The argument.  Only who is in a transfer owns the mutex, and the        *)
(* priority it will get back is its own one (LockInv): releases therefore  *)
(* undo inheritance.  Unless disturbed, the bytes in the FIFO and those    *)
(* already read are whole packets, and whoever reads data has found at     *)
(* least one packet (WholeInv): the arithmetic is in the lemmas on %.      *)
(***************************************************************************)
EXTENDS SensorBus, TLAPS

-----------------------------------------------------------------------------
(* Lemmas about constants and whole packets.                               *)

LEMMA FifoFacts ==
  /\ PacketLength \in Nat /\ PacketLength > 1
  /\ FifoSize \in Nat /\ FifoSize % PacketLength = 0
  /\ FifoSize >= 4 * PacketLength
BY FifoAssumption

LEMMA PopFacts ==
  ASSUME NEW n \in 0..FifoSize
  PROVE  Pop(n) \in 0..FifoSize /\ (n > 0 => Pop(n) = n - 1) /\ (n = 0 => Pop(n) = 0)
BY FifoFacts DEF Pop

\* Less than a packet is whole packets only when it is nothing.
LEMMA PartPacket ==
  ASSUME NEW n \in Nat, n < PacketLength
  PROVE  n % PacketLength = n
BY FifoFacts

LEMMA Remainder ==
  ASSUME NEW q \in Nat, NEW r \in 0..(PacketLength - 1), NEW n \in Nat,
         n = PacketLength * q + r
  PROVE  n % PacketLength = r
BY FifoFacts

LEMMA OnePacketMore ==
  ASSUME NEW n \in Nat
  PROVE  (n + PacketLength) % PacketLength = n % PacketLength
<1>1. PacketLength \in Nat /\ PacketLength > 0
  BY FifoFacts
<1>2. PICK q \in Nat, r \in 0..(PacketLength - 1) : n = PacketLength * q + r
  <2>1. n = PacketLength * (n \div PacketLength) + (n % PacketLength)
    BY <1>1
  <2>2. n % PacketLength \in 0..(PacketLength - 1) /\ n \div PacketLength \in Nat
    BY <1>1
  <2> QED BY <2>1, <2>2
<1>3. n + PacketLength = PacketLength * (q + 1) + r /\ q + 1 \in Nat
  BY <1>1, <1>2
<1>4. n % PacketLength = r
  BY <1>2, Remainder
<1>5. \A m \in Nat, k \in Nat : m = PacketLength * k + r => m % PacketLength = r
  BY <1>2, Remainder
<1>6. n + PacketLength \in Nat
  BY <1>1
<1>7. (n + PacketLength) % PacketLength = r
  BY <1>3, <1>5, <1>6, Zenon
<1> QED BY <1>4, <1>7

-----------------------------------------------------------------------------
(* The mutex and the scheduler.                                            *)

\* The priority a thread was created with.
Own(t) == IF t = "control" THEN High ELSE Low

\* The mutex remembers its owner's own priority.
LockInv == BusMutex /\ (owner # None => saved = Own(owner))

LockTypes ==
  /\ pos \in [Threads -> {"blocked", "ready", "waiting", "transfer", "asleep"}]
  /\ owner \in Threads \cup {None} /\ waiter \in Threads \cup {None}
  /\ saved \in {High, Low, NoPrio}
  /\ prio \in [Threads -> {High, Low}]

LEMMA ThreadFacts == Threads = {"control", "shell"} /\ None \notin Threads
BY DEF Threads, None

LEMMA TakeLock ==
  ASSUME LockTypes, LockInv, NEW t \in Threads, Take(t)
  PROVE  LockTypes' /\ LockInv'
<1> USE ThreadFacts DEF LockTypes, LockInv, BusMutex, InTransfer, Own, High, Low, None
<1>1. CASE owner = None
  <2>1. /\ pos' = [pos EXCEPT ![t] = "transfer"]
        /\ owner' = t /\ saved' = prio[t] /\ UNCHANGED <<waiter, prio>>
    BY <1>1 DEF Take
  <2>2. prio[t] = Own(t)
    BY <1>1
  <2> QED BY <1>1, <2>1, <2>2 DEF Take
<1>2. CASE owner # None
  <2>1. /\ pos' = [pos EXCEPT ![t] = "waiting"] /\ waiter' = t
        /\ prio' = [prio EXCEPT ![owner] = IF prio[t] < @ THEN prio[t] ELSE @]
        /\ UNCHANGED <<owner, saved>>
        /\ pos[t] = "ready"
    BY <1>2 DEF Take
  <2>2. owner # t /\ owner \in Threads /\ waiter = None
    BY <1>2, <2>1
  <2>3. CASE t = "control"
    BY <2>1, <2>2, <2>3
  <2>4. CASE t = "shell"
    BY <2>1, <2>2, <2>4
  <2> QED BY <2>3, <2>4
<1> QED BY <1>1, <1>2

LEMMA ReleaseLock ==
  ASSUME LockTypes, LockInv, NEW t \in Threads, OnBus(t),
         NEW next \in {"ready", "blocked"}, Release(t, next)
  PROVE  LockTypes' /\ LockInv'
<1> USE ThreadFacts DEF LockTypes, LockInv, BusMutex, InTransfer, Own, High, Low, None
<1>1. pos[t] = "transfer" /\ owner = t /\ saved = Own(t) /\ waiter # t
  BY DEF OnBus
<1>2. prio' = [prio EXCEPT ![t] = Own(t)]
  BY <1>1 DEF Release
<1>3. CASE waiter = None
  <2>1. /\ owner' = None /\ saved' = NoPrio /\ waiter' = None
        /\ pos' = [pos EXCEPT ![t] = next]
    BY <1>3 DEF Release, HandOver
  <2> QED BY <1>1, <1>2, <1>3, <2>1
<1>4. CASE waiter # None
  <2>1. /\ owner' = waiter /\ saved' = prio[waiter] /\ waiter' = None
        /\ pos' = [pos EXCEPT ![t] = next, ![waiter] = "transfer"]
    BY <1>4 DEF Release, HandOver
  <2>2. prio[waiter] = Own(waiter) /\ waiter \in Threads
    BY <1>1, <1>4
  <2>3. CASE t = "control"
    BY <1>1, <1>2, <1>4, <2>1, <2>2, <2>3
  <2>4. CASE t = "shell"
    BY <1>1, <1>2, <1>4, <2>1, <2>2, <2>4
  <2> QED BY <2>3, <2>4
<1> QED BY <1>3, <1>4

\* A step inside a transfer, of a delay or of a thread that begins one.
LEMMA MoveLock ==
  ASSUME LockTypes, LockInv, UNCHANGED mutex, NEW t \in Threads,
         NEW from, NEW to, pos[t] = from, pos' = [pos EXCEPT ![t] = to],
         \/ from = "blocked" /\ to = "ready"
         \/ from \in {"transfer", "asleep"} /\ to \in {"transfer", "asleep"}
  PROVE  LockTypes' /\ LockInv'
BY ThreadFacts DEF mutex, LockTypes, LockInv, BusMutex, InTransfer, Own

LEMMA KeepLock ==
  ASSUME LockTypes, LockInv, UNCHANGED <<pos, mutex>>
  PROVE  LockTypes' /\ LockInv'
BY DEF mutex, LockTypes, LockInv, BusMutex, InTransfer, Own

-----------------------------------------------------------------------------
(* What the transfers of the two threads do to the mutex.                  *)

LEMMA ControlMoves ==
  ASSUME ControlTransfer
  PROVE  /\ OnBus("control")
         /\ \/ UNCHANGED <<pos, mutex>>
            \/ \E next \in {"ready", "blocked"} : Release("control", next)
<1> USE DEF Transfer, Follow, Over
<1>1. CASE ReadCount
  BY <1>1 DEF ReadCount
<1>2. CASE ReadStatus
  BY <1>2 DEF ReadStatus
<1>3. CASE ReadByte
  BY <1>3 DEF ReadByte
<1>4. CASE ReadLastByte
  BY <1>4 DEF ReadLastByte
<1>5. CASE CutData
  BY <1>5 DEF CutData
<1>6. CASE ReadTemperature \/ ReadCompass
  BY <1>6 DEF ReadTemperature, ReadCompass
<1>7. CASE ResetWrite
  BY <1>7 DEF ResetWrite, Written
<1>8. CASE ResetAborts
  BY <1>8 DEF ResetAborts
<1> QED BY <1>1, <1>2, <1>3, <1>4, <1>5, <1>6, <1>7, <1>8 DEF ControlTransfer

LEMMA ShellMoves ==
  ASSUME ShellTransfer
  PROVE  /\ OnBus("shell")
         /\ \E next \in {"ready", "blocked"} : Release("shell", next)
BY DEF ShellTransfer

LEMMA LockInit == Init => LockTypes /\ LockInv
BY ThreadFacts DEF Init, LockTypes, LockInv, BusMutex, InTransfer, None, High, Low, NoPrio

LEMMA LockNext ==
  LockTypes /\ LockInv /\ [Next]_vars => LockTypes' /\ LockInv'
<1> SUFFICES ASSUME LockTypes, LockInv, [Next]_vars PROVE LockTypes' /\ LockInv'
  OBVIOUS
<1>1. CASE ControlRun
  <2>1. CASE DelayOver
    BY <2>1, MoveLock, ThreadFacts DEF DelayOver
  <2>2. CASE Take("control")
    BY <2>2, TakeLock, ThreadFacts
  <2>3. CASE ControlTransfer
    BY <2>3, ControlMoves, ReleaseLock, KeepLock, ThreadFacts
  <2>4. CASE Wake("control")
    BY <2>4, MoveLock, ThreadFacts DEF Wake
  <2> QED BY <1>1, <2>1, <2>2, <2>3, <2>4 DEF ControlRun
<1>2. CASE ShellRun
  <2>1. CASE Take("shell")
    BY <2>1, TakeLock, ThreadFacts
  <2>2. CASE ShellTransfer
    BY <2>2, ShellMoves, ReleaseLock, ThreadFacts
  <2>3. CASE Wake("shell")
    BY <2>3, MoveLock, ThreadFacts DEF Wake
  <2> QED BY <1>2, <2>1, <2>2, <2>3 DEF ShellRun
<1>3. CASE Push
  BY <1>3, KeepLock DEF Push
<1>4. CASE \E t \in Threads : Stretch(t)
  BY <1>4, MoveLock DEF Stretch, OnBus
<1>5. CASE \E c \in Cmds : Enter(c)
  BY <1>5, MoveLock, ThreadFacts DEF Enter
<1>6. CASE UNCHANGED vars
  BY <1>6, KeepLock DEF vars
<1> QED BY <1>1, <1>2, <1>3, <1>4, <1>5, <1>6 DEF Next

\* One transfer at a time, and priority inheritance exactly while control waits
\* (ipc.c:664-890), whatever the threads transfer.
THEOREM MutexCorrect == Spec => []BusMutex
<1>1. LockInv => BusMutex
  BY DEF LockInv
<1> QED BY LockInit, LockNext, <1>1, PTL DEF Spec

-----------------------------------------------------------------------------
(* Type correctness.                                                       *)

DataTypes ==
  /\ op \in Ops
  /\ got \in 0..(PacketLength - 1) /\ torn \in BOOLEAN
  /\ result \in {"none", "ok", "failed", "overflow", "rejected"}
  /\ cmd \in Cmds /\ addr \in 0..LastAddr
  /\ fifo \in 0..FifoSize /\ overflow \in BOOLEAN /\ dmp \in {"off", "on"}
  /\ burst \in 0..MaxBurst /\ faults \in 0..MaxFaults
  /\ disturbed \subseteq {"stolen", "cut", "overrun", "cleared", "aborted"}

LEMMA TypeParts == TypeOK <=> LockTypes /\ DataTypes
BY DEF TypeOK, LockTypes, DataTypes

LEMMA FaultFacts ==
  ASSUME DataTypes, Fault \/ UNCHANGED faults
  PROVE  faults' \in 0..MaxFaults
BY MaxFaultsAssumption DEF Fault, DataTypes

LEMMA PopTypes == DataTypes => Pop(fifo) \in 0..FifoSize
BY PopFacts DEF DataTypes

LEMMA DataInit == Init => DataTypes
<1> SUFFICES ASSUME Init PROVE DataTypes
  OBVIOUS
<1>1. got \in 0..(PacketLength - 1) /\ fifo \in 0..FifoSize /\ addr \in 0..LastAddr
  BY FifoFacts, AddrAssumption DEF Init
<1>2. burst \in 0..MaxBurst /\ faults \in 0..MaxFaults
  BY MaxBurstAssumption, MaxFaultsAssumption DEF Init
<1>3. op \in Ops /\ cmd \in Cmds
  BY DEF Init, Ops, Cmds
<1>4. /\ torn \in BOOLEAN /\ result \in {"none", "ok", "failed", "overflow", "rejected"}
      /\ overflow \in BOOLEAN /\ dmp \in {"off", "on"}
      /\ disturbed \subseteq {"stolen", "cut", "overrun", "cleared", "aborted"}
  BY DEF Init
<1> QED BY <1>1, <1>2, <1>3, <1>4 DEF DataTypes

LEMMA DataControl == DataTypes /\ ControlTransfer => DataTypes'
<1> SUFFICES ASSUME DataTypes, ControlTransfer PROVE DataTypes'
  OBVIOUS
<1>0. /\ got \in Nat /\ got < PacketLength /\ Pop(fifo) \in 0..FifoSize
      /\ 0 \in 0..(PacketLength - 1) /\ 0 \in 0..FifoSize
  BY PopTypes, FifoFacts DEF DataTypes
<1> USE DEF Transfer, Follow, Over, scan, sensor, Ops, ResetOps
<1>1. CASE ReadCount
  <2>1. AfterCount(fifo) = None \/ AfterCount(fifo) \in Ops
    BY DEF AfterCount
  <2> QED BY <1>1, <2>1, FaultFacts DEF ReadCount, DataTypes
<1>2. CASE ReadStatus
  BY <1>2, FaultFacts DEF ReadStatus, DataTypes
<1>3. CASE ReadByte
  <2>1. got' \in 0..(PacketLength - 1)
    BY <1>0, <1>3, FifoFacts DEF ReadByte, LastByte
  <2> QED BY <1>0, <1>3, <2>1 DEF ReadByte, Tears, DataTypes
<1>4. CASE ReadLastByte
  BY <1>0, <1>4 DEF ReadLastByte, Tears, DataTypes
<1>5. CASE CutData
  BY <1>0, <1>5, FaultFacts DEF CutData, DataTypes
<1>6. CASE ReadTemperature \/ ReadCompass
  BY <1>6, FaultFacts DEF ReadTemperature, ReadCompass, DataTypes
<1>7. CASE ResetWrite
  <2>1. op' \in Ops
    BY <1>7 DEF ResetWrite, Written, After
  <2>2. /\ fifo' \in 0..FifoSize /\ dmp' \in {"off", "on"} /\ torn' \in BOOLEAN
        /\ disturbed' \in {disturbed, {}}
    BY <1>0, <1>7 DEF ResetWrite, Writes, DataTypes
  <2> QED BY <1>7, <2>1, <2>2 DEF ResetWrite, DataTypes
<1>8. CASE ResetAborts
  BY <1>0, <1>8, FaultFacts DEF ResetAborts, DataTypes
<1> QED BY <1>1, <1>2, <1>3, <1>4, <1>5, <1>6, <1>7, <1>8 DEF ControlTransfer

LEMMA DataNext == DataTypes /\ [Next]_vars => DataTypes'
<1> SUFFICES ASSUME DataTypes, [Next]_vars PROVE DataTypes'
  OBVIOUS
<1> USE DEF reading, scan, sensor
<1>1. CASE ControlRun
  <2>1. CASE DelayOver
    BY <2>1, MaxBurstAssumption DEF DelayOver, DataTypes
  <2>2. CASE Take("control") \/ Wake("control")
    BY <2>2 DEF Take, Wake, DataTypes
  <2>3. CASE ControlTransfer
    BY <2>3, DataControl
  <2> QED BY <1>1, <2>1, <2>2, <2>3 DEF ControlRun
<1>2. CASE ShellRun
  <2>1. CASE ShellTransfer
    <3>1. addr' \in 0..LastAddr
      BY <2>1, AddrAssumption DEF ShellTransfer, DataTypes
    <3>2. faults' \in 0..MaxFaults
      BY <2>1, FaultFacts DEF ShellTransfer
    <3>3. /\ fifo' \in 0..FifoSize /\ overflow' \in BOOLEAN
          /\ disturbed' \subseteq disturbed \cup {"stolen", "cleared"}
      BY <2>1, PopTypes DEF ShellTransfer, Probe, DataTypes
    <3> QED BY <2>1, <3>1, <3>2, <3>3 DEF ShellTransfer, DataTypes
  <2>2. CASE Take("shell") \/ Wake("shell")
    BY <2>2 DEF Take, Wake, DataTypes
  <2> QED BY <1>2, <2>1, <2>2 DEF ShellRun
<1>3. CASE Push
  <2>1. burst' \in 0..MaxBurst
    BY <1>3, MaxBurstAssumption DEF Push, DataTypes
  <2>2. fifo' \in 0..FifoSize
    BY <1>3, FifoFacts DEF Push, DataTypes
  <2>3. /\ overflow' \in BOOLEAN /\ torn' \in BOOLEAN
        /\ disturbed' \subseteq disturbed \cup {"overrun"}
    BY <1>3 DEF Push, DataTypes
  <2> QED BY <1>3, <2>1, <2>2, <2>3 DEF Push, DataTypes
<1>4. CASE \E t \in Threads : Stretch(t)
  BY <1>4, FaultFacts DEF Stretch, DataTypes
<1>5. CASE \E c \in Cmds : Enter(c)
  BY <1>5, AddrAssumption DEF Enter, DataTypes
<1>6. CASE UNCHANGED vars
  BY <1>6 DEF vars, DataTypes
<1> QED BY <1>1, <1>2, <1>3, <1>4, <1>5, <1>6 DEF Next

\* Type correctness for every size: the FIFO counts neither below zero nor beyond
\* its size, a packet is never read past its length, and priorities are the two
\* the threads were created with.
THEOREM TypeCorrect == Spec => []TypeOK
BY LockInit, LockNext, DataInit, DataNext, TypeParts, PTL DEF Spec

-----------------------------------------------------------------------------
(* Whole readings.                                                         *)

Undisturbed == disturbed \cap {"stolen", "cut", "overrun", "aborted"} = {}
Whole == (fifo + got) % PacketLength = 0

\* Bytes are counted only in a data transfer; undisturbed, FIFO and reading are
\* whole packets, and who reads or is about to has found one.
WholeInv ==
  /\ op # "data" => got = 0
  /\ Undisturbed => /\ ~torn /\ Whole
                    /\ op \in {"data", "status"} => fifo + got >= PacketLength

\* A whole number of packets, and bytes read: the FIFO is not empty.
LEMMA NotEmpty ==
  ASSUME DataTypes, WholeInv, Undisturbed, op = "data"
  PROVE  fifo > 0 /\ ~Tears
<1>1. fifo \in Nat /\ got \in Nat /\ got < PacketLength /\ fifo + got >= PacketLength
  BY FifoFacts DEF DataTypes, WholeInv
<1>2. fifo > 0
  BY <1>1, FifoFacts
<1>3. got = 0 => fifo % PacketLength = 0
  BY <1>1 DEF WholeInv, Whole
<1> QED BY <1>1, <1>2, <1>3 DEF Tears, WholeInv

LEMMA WholeReset == 0 % PacketLength = 0
BY FifoFacts, PartPacket

LEMMA WholeInit == Init => WholeInv
BY FifoFacts DEF Init, WholeInv, Whole, Undisturbed

LEMMA WholeControl ==
  DataTypes /\ WholeInv /\ ControlTransfer => WholeInv'
<1> SUFFICES ASSUME DataTypes, WholeInv, ControlTransfer PROVE WholeInv'
  OBVIOUS
<1>0. /\ fifo \in Nat /\ got \in Nat /\ got < PacketLength
      /\ PacketLength \in Nat /\ PacketLength > 1
  BY FifoFacts DEF DataTypes
<1> USE DEF Transfer, Follow, Over, sensor, WholeInv, Whole, Undisturbed
<1>1. CASE ReadCount
  <2>1. AfterCount(fifo) \in {None, "data", "status"}
    BY DEF AfterCount
  <2>2. AfterCount(fifo) # None => fifo >= PacketLength
    BY <1>0 DEF AfterCount
  <2>3. op = "count" /\ op' \in {"count", "data", "status"}
    BY <1>1, <2>1 DEF ReadCount
  <2>4. UNCHANGED <<got, torn, fifo, disturbed>> /\ got = 0
    BY <1>1, <2>3 DEF ReadCount
  <2>5. op' \in {"data", "status"} => fifo >= PacketLength
    BY <1>1, <2>2 DEF ReadCount
  <2> QED BY <1>0, <2>3, <2>4, <2>5
<1>2. CASE ReadStatus
  <2>1. /\ op = "status" /\ op' \in {"count", "intOff", "data"}
        /\ UNCHANGED <<got, torn, fifo>> /\ got = 0
    BY <1>2 DEF ReadStatus
  <2>2. disturbed' \in {disturbed, disturbed \cup {"cleared"}}
    BY <1>2 DEF ReadStatus
  <2> QED BY <2>1, <2>2
<1>3. CASE ReadByte
  <2>1. op = "data" /\ op' = "data" /\ disturbed' = disturbed
    BY <1>3 DEF ReadByte
  <2>2. ASSUME Undisturbed PROVE fifo' = fifo - 1 /\ got' = got + 1 /\ ~torn'
    BY <1>0, <1>3, <2>1, <2>2, NotEmpty DEF ReadByte, Pop
  <2>3. ASSUME Undisturbed PROVE fifo' + got' = fifo + got
    BY <1>0, <2>2, <2>3
  <2> QED BY <2>1, <2>2, <2>3
<1>4. CASE ReadLastByte
  <2>1. op = "data" /\ op' # "data" /\ got' = 0 /\ disturbed' = disturbed
    BY <1>4 DEF ReadLastByte
  <2>2. ASSUME Undisturbed
        PROVE  /\ fifo > 0 /\ fifo' = fifo - 1 /\ got = PacketLength - 1
               /\ ~torn' /\ op' = "temperature"
    BY <1>0, <1>4, <2>1, <2>2, NotEmpty DEF ReadLastByte, Pop, LastByte
  <2>3. ASSUME Undisturbed PROVE (fifo' + got') % PacketLength = 0
    <3>1. fifo' \in Nat /\ fifo' + PacketLength = fifo + got
      BY <1>0, <2>2, <2>3
    <3>2. (fifo' + PacketLength) % PacketLength = 0
      BY <2>3, <3>1
    <3> QED BY <2>1, <3>1, <3>2, OnePacketMore
  <2> QED BY <2>1, <2>2, <2>3
<1>5. CASE CutData
  BY <1>5 DEF CutData
<1>6. CASE ReadTemperature \/ ReadCompass
  BY <1>6 DEF ReadTemperature, ReadCompass
<1>7. CASE ResetWrite
  <2>1. op \in ResetOps /\ op' \in ResetOps \cup {"count"} /\ got' = got /\ got = 0
    BY <1>7 DEF ResetWrite, Written, After, ResetOps
  <2>2. \/ UNCHANGED <<fifo, torn, disturbed>>
        \/ fifo' = 0 /\ torn' = FALSE
    BY <1>7 DEF ResetWrite, Writes
  <2> QED BY <2>1, <2>2, WholeReset DEF ResetOps
<1>8. CASE ResetAborts
  <2>1. op \in ResetOps /\ op' = "count" /\ got' = got
    BY <1>8 DEF ResetAborts
  <2>2. "aborted" \in disturbed'
    BY <1>8 DEF ResetAborts
  <2> QED BY <2>1, <2>2 DEF ResetOps
<1> QED BY <1>1, <1>2, <1>3, <1>4, <1>5, <1>6, <1>7, <1>8 DEF ControlTransfer

LEMMA WholeNext == DataTypes /\ WholeInv /\ [Next]_vars => WholeInv'
<1> SUFFICES ASSUME DataTypes, WholeInv, [Next]_vars PROVE WholeInv'
  OBVIOUS
<1>0. /\ fifo \in Nat /\ got \in Nat /\ PacketLength \in Nat
  BY FifoFacts DEF DataTypes
<1> USE DEF reading, sensor, WholeInv, Whole, Undisturbed
<1>1. CASE ControlTransfer
  BY <1>1, WholeControl
<1>2. CASE ShellTransfer
  <2>1. UNCHANGED <<op, got, torn>> /\ disturbed \subseteq disturbed'
    BY <1>2 DEF ShellTransfer, Probe
  <2>2. fifo' = fifo \/ "stolen" \in disturbed'
    BY <1>2 DEF ShellTransfer, Probe, Pop
  <2> QED BY <2>1, <2>2
<1>3. CASE Push
  <2>1. UNCHANGED <<op, got>> /\ disturbed \subseteq disturbed'
    BY <1>3 DEF Push
  <2>2. CASE fifo + PacketLength <= FifoSize
    <3>1. fifo' = fifo + PacketLength /\ torn' = torn
      BY <1>0, <1>3, <2>2, FifoFacts DEF Push
    <3>2. fifo' + got' = (fifo + got) + PacketLength /\ fifo + got \in Nat
      BY <1>0, <2>1, <3>1
    <3>3. (fifo' + got') % PacketLength = (fifo + got) % PacketLength
      BY <3>2, OnePacketMore
    <3> QED BY <1>0, <2>1, <3>1, <3>2, <3>3
  <2>3. CASE fifo + PacketLength > FifoSize
    <3>1. fifo' = FifoSize /\ (got = 0 => torn' = torn)
      BY <1>0, <1>3, <2>3, FifoFacts DEF Push
    <3>2. got > 0 => "overrun" \in disturbed'
      BY <1>0, <1>3, <2>3, FifoFacts DEF Push
    <3>3. got = 0 => fifo' + got' = FifoSize
      BY <2>1, <3>1, FifoFacts
    <3> QED BY <1>0, <2>1, <3>1, <3>2, <3>3, FifoFacts
  <2> QED BY <1>0, <2>2, <2>3, FifoFacts
<1>4. CASE DelayOver \/ (\E t \in Threads : Take(t) \/ Wake(t) \/ Stretch(t))
  BY <1>4 DEF DelayOver, Take, Wake, Stretch
<1>5. CASE \E c \in Cmds : Enter(c)
  BY <1>5 DEF Enter
<1>6. CASE UNCHANGED vars
  BY <1>6 DEF vars
<1> QED BY <1>1, <1>2, <1>3, <1>4, <1>5, <1>6, ThreadFacts DEF Next, ControlRun, ShellRun

\* No interleaving of the many transfers of a reading with those of i2c_test tears
\* a packet (i2c_core.c:76): only a stolen byte, a transfer that was cut, a reset
\* that was cut or a full FIFO does.
THEOREM WholeCorrect == Spec => []WholeUnlessDisturbed
<1>1. WholeInv => WholeUnlessDisturbed
  BY DEF WholeInv, Whole, Undisturbed, WholeUnlessDisturbed
<1> QED BY DataInit, DataNext, WholeInit, WholeNext, <1>1, PTL DEF Spec

-----------------------------------------------------------------------------
(* An overrun is noticed.                                                  *)

\* After an overrun the FIFO has lost no more bytes than the reading has taken
\* since; the reset that ends it leaves none behind.
OverrunInv ==
  /\ op \in {"userOn", "intOn", "sourceOn"} => "overrun" \notin disturbed
  /\ disturbed = {"overrun"} /\ op \notin ResetOps =>
       /\ overflow
       /\ fifo + (IF op = "data" THEN got ELSE PacketLength) >= FifoSize

\* Then the FIFO is more than half full, and not empty.
LEMMA StillFull ==
  ASSUME NEW f \in Nat, NEW g \in Nat, g <= PacketLength, f + g >= FifoSize
  PROVE  2 * f > FifoSize /\ f > 0
BY FifoFacts

LEMMA OverrunInit == Init => OverrunInv
BY DEF Init, OverrunInv

LEMMA OverrunControl ==
  DataTypes /\ WholeInv /\ OverrunInv /\ ControlTransfer => OverrunInv'
<1> SUFFICES ASSUME DataTypes, WholeInv, OverrunInv, ControlTransfer PROVE OverrunInv'
  OBVIOUS
<1>0. /\ fifo \in Nat /\ got \in Nat /\ got < PacketLength
      /\ PacketLength \in Nat /\ FifoSize \in Nat
  BY FifoFacts DEF DataTypes
<1> USE DEF Transfer, Follow, Over, sensor, OverrunInv
<1>1. CASE ReadCount
  <2>1. op = "count" /\ UNCHANGED <<fifo, overflow, disturbed>>
    BY <1>1 DEF ReadCount
  <2>2. ASSUME disturbed = {"overrun"} PROVE op' \in {"count", "status"}
    <3>0. fifo + PacketLength >= FifoSize
      BY <2>1, <2>2 DEF ResetOps
    <3>1. 2 * fifo > FifoSize
      BY <1>0, <3>0, StillFull
    <3>2. AfterCount(fifo) \in {None, "status"}
      BY <3>1 DEF AfterCount
    <3> QED BY <1>1, <3>2 DEF ReadCount
  <2>3. op' \in {"count", "status", "data"}
    BY <1>1 DEF ReadCount, AfterCount
  <2> QED BY <1>0, <2>1, <2>2, <2>3 DEF ResetOps
<1>2. CASE ReadStatus
  <2>1. op = "status" /\ op' \in {"count", "intOff", "data"} /\ fifo' = fifo
    BY <1>2 DEF ReadStatus
  <2>2. disturbed' = disturbed \/ "cleared" \in disturbed'
    BY <1>2 DEF ReadStatus
  <2>3. \/ "cleared" \in disturbed'
        \/ overflow' = overflow \/ op' = "intOff" \/ ~overflow
    BY <1>2 DEF ReadStatus
  <2>4. overflow /\ op' = "data" => FALSE
    BY <1>2 DEF ReadStatus
  <2> QED BY <1>0, <2>1, <2>2, <2>3, <2>4 DEF ResetOps
<1>3. CASE ReadByte
  <2>1. /\ op = "data" /\ op' = "data" /\ disturbed' = disturbed
        /\ overflow' = overflow /\ got' = got + 1 /\ fifo' = Pop(fifo)
    BY <1>3 DEF ReadByte
  <2>2. disturbed = {"overrun"} => fifo > 0
    BY <1>0, <2>1, StillFull DEF ResetOps
  <2>3. disturbed = {"overrun"} => fifo' + got' = fifo + got
    BY <1>0, <2>1, <2>2 DEF Pop
  <2> QED BY <1>0, <2>1, <2>3 DEF ResetOps
<1>4. CASE ReadLastByte
  <2>1. /\ op = "data" /\ op' \in {"temperature", "intOff"} /\ disturbed' = disturbed
        /\ overflow' = overflow /\ got = PacketLength - 1 /\ fifo' = Pop(fifo)
    BY <1>4 DEF ReadLastByte, LastByte
  <2>2. disturbed = {"overrun"} => fifo > 0
    BY <1>0, <2>1, StillFull DEF ResetOps
  <2>3. disturbed = {"overrun"} => fifo' + PacketLength = fifo + got
    BY <1>0, <2>1, <2>2 DEF Pop
  <2> QED BY <1>0, <2>1, <2>3 DEF ResetOps
<1>5. CASE CutData
  BY <1>5 DEF CutData
<1>6. CASE ReadTemperature \/ ReadCompass
  BY <1>6 DEF ReadTemperature, ReadCompass, ResetOps
<1>7. CASE ResetWrite
  <2>1. op \in ResetOps /\ overflow' = overflow
    BY <1>7 DEF ResetWrite
  <2>2. /\ op' \in {"userOn", "intOn", "sourceOn", "count"} =>
             op \in {"userReset", "userOn", "intOn", "sourceOn"}
        /\ op' \in ResetOps \cup {"count"}
    BY <1>7, <2>1 DEF ResetWrite, Written, After, ResetOps
  <2>3. disturbed' = IF op = "userReset" THEN {} ELSE disturbed
    BY <1>7, <2>1 DEF ResetWrite, Writes, ResetOps
  <2> QED BY <2>1, <2>2, <2>3 DEF ResetOps
<1>8. CASE ResetAborts
  <2>1. "aborted" \in disturbed' /\ op' = "count"
    BY <1>8 DEF ResetAborts
  <2> QED BY <2>1
<1> QED BY <1>1, <1>2, <1>3, <1>4, <1>5, <1>6, <1>7, <1>8 DEF ControlTransfer

LEMMA OverrunNext ==
  DataTypes /\ WholeInv /\ OverrunInv /\ [Next]_vars => OverrunInv'
<1> SUFFICES ASSUME DataTypes, WholeInv, OverrunInv, [Next]_vars PROVE OverrunInv'
  OBVIOUS
<1>0. /\ fifo \in Nat /\ got \in Nat /\ PacketLength \in Nat /\ FifoSize \in Nat
  BY FifoFacts DEF DataTypes
<1> USE DEF reading, sensor, OverrunInv
<1>1. CASE ControlTransfer
  BY <1>1, OverrunControl
<1>2. CASE ShellTransfer
  <2>1. /\ UNCHANGED <<op, got>> /\ disturbed \subseteq disturbed'
        /\ disturbed' \subseteq disturbed \cup {"stolen", "cleared"}
    BY <1>2 DEF ShellTransfer, Probe
  <2>2. fifo' = fifo \/ "stolen" \in disturbed'
    BY <1>2 DEF ShellTransfer, Probe, Pop
  <2>3. overflow' = overflow \/ ~overflow \/ "cleared" \in disturbed'
    BY <1>2 DEF ShellTransfer, Probe
  <2>4. disturbed' = {"overrun"} => fifo' = fifo /\ (overflow => overflow') /\ disturbed = {"overrun"}
    <3> SUFFICES ASSUME disturbed' = {"overrun"}
                 PROVE  fifo' = fifo /\ (overflow => overflow') /\ disturbed = {"overrun"}
      OBVIOUS
    <3>1. disturbed' = disturbed
      BY <1>2 DEF ShellTransfer, Probe
    <3> QED BY <2>2, <2>3, <3>1
  <2> QED BY <2>1, <2>4
<1>3. CASE Push
  <2>1. UNCHANGED <<op, got>>
    BY <1>3 DEF Push
  <2>2. \/ fifo' = fifo + PacketLength /\ UNCHANGED <<overflow, disturbed>>
        \/ fifo' = FifoSize /\ overflow' = TRUE
    BY <1>3 DEF Push
  <2>3. disturbed' = disturbed \/ got > 0
    BY <1>3 DEF Push
  <2>4. got > 0 => op = "data"
    BY <1>0 DEF WholeInv
  <2> QED BY <1>0, <2>1, <2>2, <2>3, <2>4
<1>4. CASE DelayOver \/ (\E t \in Threads : Take(t) \/ Wake(t) \/ Stretch(t))
  BY <1>4 DEF DelayOver, Take, Wake, Stretch
<1>5. CASE \E c \in Cmds : Enter(c)
  BY <1>5 DEF Enter
<1>6. CASE UNCHANGED vars
  BY <1>6 DEF vars
<1> QED BY <1>1, <1>2, <1>3, <1>4, <1>5, <1>6, ThreadFacts DEF Next, ControlRun, ShellRun

\* A reading torn by an overrun is the only one: its successor finds the overflow
\* flag, because FifoSize is at least four packets (inv_mpu.c:1916).
THEOREM OverrunCorrect == Spec => []OverrunNoticed
<1>1. DataTypes /\ WholeInv /\ OverrunInv => OverrunNoticed
  <2> SUFFICES ASSUME DataTypes, OverrunInv, disturbed = {"overrun"}, op \notin ResetOps
               PROVE  overflow /\ 2 * fifo > FifoSize
    BY DEF OverrunNoticed
  <2>1. fifo \in Nat /\ got \in Nat /\ got <= PacketLength /\ PacketLength \in Nat
    BY FifoFacts DEF DataTypes
  <2> QED BY <2>1, StillFull DEF OverrunInv
<1> QED BY DataInit, DataNext, WholeInit, WholeNext, OverrunInit, OverrunNext, <1>1, PTL DEF Spec

-----------------------------------------------------------------------------
(* A reset that was cut.                                                   *)

LEMMA LostStep == DataTypes /\ [Next]_vars => [Lost => Lost']_vars
<1> SUFFICES ASSUME DataTypes, [Next]_vars, Lost PROVE Lost'
  OBVIOUS
<1>0. fifo \in Nat /\ PacketLength \in Nat
  BY FifoFacts DEF DataTypes
<1> USE DEF Lost, reading, sensor
<1>1. CASE ControlTransfer
  <2>1. AfterCount(fifo) = None
    BY <1>0 DEF AfterCount
  <2>2. ReadCount \/ ReadTemperature \/ ReadCompass
    BY <1>1 DEF ControlTransfer, ReadStatus, ReadByte, ReadLastByte, CutData,
                ResetWrite, ResetAborts, Transfer, ResetOps
  <2> QED BY <2>1, <2>2 DEF ReadCount, ReadTemperature, ReadCompass, Transfer, Follow, Over
<1>2. CASE ShellTransfer
  <2>1. UNCHANGED <<op, dmp>> /\ (fifo' = fifo \/ fifo' = Pop(fifo))
    BY <1>2 DEF ShellTransfer, Probe
  <2> QED BY <1>0, <2>1 DEF Pop
<1>3. CASE Push
  BY <1>3 DEF Push
<1>4. CASE DelayOver \/ (\E t \in Threads : Take(t) \/ Wake(t) \/ Stretch(t))
  BY <1>4 DEF DelayOver, Take, Wake, Stretch
<1>5. CASE \E c \in Cmds : Enter(c)
  BY <1>5 DEF Enter
<1>6. CASE UNCHANGED vars
  BY <1>6 DEF vars
<1> QED BY <1>1, <1>2, <1>3, <1>4, <1>5, <1>6, ThreadFacts DEF Next, ControlRun, ShellRun

\* No step of the two threads turns a DMP on again that a cut reset left off
\* (inv_mpu.c:1911, 1923).
THEOREM LostCorrect == Spec => LostForGood
BY DataInit, DataNext, LostStep, PTL DEF Spec, LostForGood
=============================================================================
