------------------------------ MODULE Wireless ------------------------------
(***************************************************************************)
(* The radio link of the ship on uart3: opening it and the master thread's *)
(* greeting (wireless_app.c, master_app.c), the receive interrupt with its *)
(* ring buffer (serial.c) and the event that wakes a thread blocked in     *)
(* wireless_getchar (ipc.c).  The reader is a thread that calls            *)
(* wireless_getchar over and over, the use the function is written for; no *)
(* thread of the program does so today.                                    *)
(*                                                                         *)
(* The interrupt comes between any two steps of the threads.  A step of a  *)
(* thread is what it does with interrupts disabled, or one call that the   *)
(* interrupt cannot see in the middle.                                     *)
(*                                                                         *)
(* A failed RT_ASSERT prints a message and loops (kservice.c), in the      *)
(* interrupt or in the master thread of priority 5: the system is halted.  *)
(***************************************************************************)
EXTENDS Integers, Sequences

CONSTANTS
  Bytes,     \* values of a byte
  BufSz,     \* serial->config.bufsz: 64
  Lookups,   \* what wireless_open may meet: "ok", "missing", "refused"
  Chars,     \* characters of the greeting
  Tries,     \* calls of rt_device_write for one character: 500
  MaxBytes   \* bound: bytes the peer sends

ASSUME BufSzAssumption == BufSz \in Nat /\ BufSz >= 2
ASSUME LookupsAssumption == Lookups \subseteq {"ok", "missing", "refused"}
ASSUME GreetingAssumption == Chars \in Nat \ {0} /\ Tries \in Nat \ {0}
ASSUME MaxBytesAssumption == MaxBytes \in Nat

VARIABLES
  master,   \* the master thread's next call
  found,    \* outcome of rt_device_find and rt_device_open
  irq,      \* the receive interrupt is enabled
  buf, put, get, full,   \* the ring: buffer, put_index, get_index, is_full
  event,    \* wirelessevent: not initialised, or its one flag
  reader,   \* the reader's next call
  last,     \* the byte wireless_getchar returned last
  left, timeout,  \* wireless_putstring: characters left, tries of this one
  written,  \* characters of the greeting the device has taken
  halted,   \* where an assertion failed
  sent      \* bytes the peer has sent

ring   == <<buf, put, get, full>>
hello  == <<left, timeout, written>>
vars   == <<master, found, irq, ring, event, reader, last, hello, halted, sent>>

TypeOK ==
  /\ master \in {"find", "open", "eventInit", "greet", "done"}
  /\ found \in {"ok", "missing", "refused"}
  /\ irq \in {"off", "on"}
  /\ buf \in [0..(BufSz - 1) -> Bytes]
  /\ put \in 0..(BufSz - 1) /\ get \in 0..(BufSz - 1)
  /\ full \in {"no", "yes"}
  /\ event \in {"raw", "clear", "set"}
  /\ reader \in {"waiting", "read", "recv", "suspended"}
  /\ last \in Bytes
  /\ left \in 0..Chars /\ timeout \in 0..(Tries - 1)
  /\ written \in 0..(Chars - left)
  /\ halted \in {"no", "send", "write"}
  /\ sent \in 0..MaxBytes

Init ==
  /\ master = "find" /\ found = "missing" /\ irq = "off"
  /\ \E b \in Bytes : buf = [k \in 0..(BufSz - 1) |-> b] /\ last = b
  /\ put = 0 /\ get = 0 /\ full = "no"
  /\ event = "raw" /\ reader = "waiting"
  /\ left = Chars /\ timeout = 0 /\ written = 0
  /\ halted = "no" /\ sent = 0

-----------------------------------------------------------------------------
(* The ring.                                                               *)

\* Mutant: an index that runs over the end.
AdvanceOver(index) == IF index + 1 > BufSz THEN 0 ELSE index + 1

Advance(index) == IF index + 1 >= BufSz THEN 0 ELSE index + 1

NoData == get = put /\ full = "no"

\* The interrupt stores a byte; when it catches up with the reader it discards
\* the oldest one.
\* Mutant: the oldest byte is not discarded.
StoreNoDiscard(b) ==
  /\ buf' = [buf EXCEPT ![put] = b]
  /\ put' = Advance(put)
  /\ UNCHANGED <<get, full>>

Store(b) ==
  /\ buf' = [buf EXCEPT ![put] = b]
  /\ put' = Advance(put)
  /\ IF put' = get THEN get' = Advance(get) /\ full' = "yes"
                   ELSE UNCHANGED <<get, full>>

\* _serial_int_rx with length 1, when there is data.
Take ==
  /\ last' = buf[get]
  /\ get' = Advance(get)
  /\ full' = "no"
  /\ UNCHANGED <<buf, put>>

-----------------------------------------------------------------------------
(* The receive interrupt: store, then wireless_intput -> rt_event_send.    *)

\* Mutant: the flag stays clear when nobody waits.
SendEventLost ==
  \/ event = "raw" /\ halted' = "send" /\ UNCHANGED <<event, reader>>
  \/ event # "raw" /\ reader = "suspended"
     /\ event' = "clear" /\ reader' = "read" /\ UNCHANGED halted
  \/ event # "raw" /\ reader # "suspended"
     /\ UNCHANGED <<event, reader, halted>>

\* rt_event_send asserts that the event is an event; a thread that waits for
\* the flag takes it and is resumed.
SendEvent ==
  \/ event = "raw" /\ halted' = "send" /\ UNCHANGED <<event, reader>>
  \/ event # "raw" /\ reader = "suspended"
     /\ event' = "clear" /\ reader' = "read" /\ UNCHANGED halted
  \/ event # "raw" /\ reader # "suspended"
     /\ event' = "set" /\ UNCHANGED <<reader, halted>>

Receive(b) ==
  /\ halted = "no" /\ irq = "on" /\ sent < MaxBytes
  /\ sent' = sent + 1
  /\ Store(b)
  /\ SendEvent
  /\ UNCHANGED <<master, found, irq, last, hello>>

-----------------------------------------------------------------------------
(* The master thread.                                                      *)

\* rt_device_find and rt_device_set_rx_indicate; an error goes straight to the
\* greeting, the event stays as it is.
Find ==
  /\ halted = "no" /\ master = "find"
  /\ found' \in Lookups
  /\ master' = IF found' = "missing" THEN "greet" ELSE "open"
  /\ UNCHANGED <<irq, ring, event, reader, last, hello, halted, sent>>

\* rt_device_open: the ring is empty and the interrupt enabled, or the device
\* refuses the flags.
Open ==
  /\ halted = "no" /\ master = "open"
  /\ IF found = "ok" THEN irq' = "on" /\ master' = "eventInit"
                     ELSE master' = "greet" /\ UNCHANGED irq
  /\ UNCHANGED <<found, ring, event, reader, last, hello, halted, sent>>

\* rt_event_init; the port is ready for a reader.
EventInit ==
  /\ halted = "no" /\ master = "eventInit"
  /\ event' = "clear" /\ reader' = "read" /\ master' = "greet"
  /\ UNCHANGED <<found, irq, ring, last, hello, halted, sent>>

\* One round of the loop of wireless_putchar.  rt_device_write asserts that
\* there is a device, takes the character of an open one and nothing of another.
\* Mutant: the tries are not counted.
PutCharForever ==
  /\ halted = "no" /\ master = "greet" /\ left > 0
  /\ CASE found = "missing" -> halted' = "write" /\ UNCHANGED hello
       [] found = "ok"      -> /\ left' = left - 1 /\ written' = written + 1
                               /\ UNCHANGED <<timeout, halted>>
       [] found = "refused" -> UNCHANGED <<hello, halted>>
  /\ UNCHANGED <<master, found, irq, ring, event, reader, last, sent>>

PutChar ==
  /\ halted = "no" /\ master = "greet" /\ left > 0
  /\ \/ /\ found = "missing"
        /\ halted' = "write" /\ UNCHANGED hello
     \/ /\ found = "ok"
        /\ left' = left - 1 /\ written' = written + 1 /\ timeout' = 0
        /\ UNCHANGED halted
     \/ /\ found = "refused" /\ timeout + 1 < Tries
        /\ timeout' = timeout + 1 /\ UNCHANGED <<left, written, halted>>
     \/ /\ found = "refused" /\ timeout + 1 >= Tries
        /\ left' = left - 1 /\ timeout' = 0 /\ UNCHANGED <<written, halted>>
  /\ UNCHANGED <<master, found, irq, ring, event, reader, last, sent>>

\* The greeting is over; the thread goes on to control_app_init.
Greeted ==
  /\ halted = "no" /\ master = "greet" /\ left = 0
  /\ master' = "done"
  /\ UNCHANGED <<found, irq, ring, event, reader, last, hello, halted, sent>>

Master == Find \/ Open \/ EventInit \/ PutChar \/ Greeted

-----------------------------------------------------------------------------
(* The reader in wireless_getchar.                                         *)

\* rt_device_read: a byte, or nothing and on to rt_event_recv.
Read ==
  /\ halted = "no" /\ reader = "read"
  /\ IF NoData THEN reader' = "recv" /\ UNCHANGED <<ring, last>>
               ELSE Take /\ UNCHANGED reader
  /\ UNCHANGED <<master, found, irq, event, hello, halted, sent>>

\* rt_event_recv with CLEAR: take the flag or suspend.
\* Mutant: suspends although the flag is set.
RecvBlind ==
  /\ halted = "no" /\ reader = "recv"
  /\ reader' = "suspended" /\ UNCHANGED event
  /\ UNCHANGED <<master, found, irq, ring, last, hello, halted, sent>>

Recv ==
  /\ halted = "no" /\ reader = "recv"
  /\ IF event = "set" THEN event' = "clear" /\ reader' = "read"
                      ELSE reader' = "suspended" /\ UNCHANGED event
  /\ UNCHANGED <<master, found, irq, ring, last, hello, halted, sent>>

Reader == Read \/ Recv

\* The peer has said all it has to say and everyone waits, or an assertion
\* has failed and loops.
Idle == /\ \/ halted # "no"
           \/ /\ master = "done" /\ reader \in {"waiting", "suspended"}
              /\ sent = MaxBytes \/ irq = "off"
        /\ UNCHANGED vars

Next == Master \/ Reader \/ Idle \/ \E b \in Bytes : Receive(b)

\* The threads run when they can; the peer need not send.
Spec == Init /\ [][Next]_vars /\ WF_vars(Master) /\ WF_vars(Reader)

-----------------------------------------------------------------------------
(* Properties.                                                             *)

\* The bytes in the ring, oldest first; their number is what the interrupt
\* computes as rx_length.
Count    == IF put >= get THEN put - get ELSE BufSz - (get - put)
Slot(k)  == IF get + k - 1 >= BufSz THEN get + k - 1 - BufSz ELSE get + k - 1
Contents == [k \in 1..Count |-> buf[Slot(k)]]

\* The ring with its two indices and is_full behaves as a queue of BufSz - 1
\* bytes that gives up the oldest byte (serial.c:272-315, 1150-1174).
Queue == INSTANCE RxQueue WITH Capacity <- BufSz - 1, queue <- Contents
QueueSpec == Queue!Spec

\* A reader that is about to wait, or waits, has not missed a byte: what came
\* in after its last look at the ring left the flag set (wireless_app.c:25-29).
NoLostWakeup ==
  /\ reader = "recv" /\ Contents # <<>> => event = "set"
  /\ reader = "suspended" => Contents = <<>>

\* Every byte received reaches the reader, or is overtaken, and the reader gets
\* to the end of what was sent.
Drains == sent = MaxBytes /\ reader # "waiting" ~> Contents = <<>>

\* The master thread gets to control_app_init, also when the device refuses to
\* open and every character of the greeting is given up (wireless_app.c:34-41),
\* except in two cases: there is no device to greet with (device.c:404), or a
\* byte came before the event was initialised (ipc.c:1049).
MasterFinishes ==
  <>(\/ master = "done"
     \/ halted = "write" /\ found = "missing"
     \/ halted = "send" /\ master = "eventInit" /\ sent > 0)

\* ipc.c:1049: rt_event_send is only given an initialised event.
EventAsserted == halted # "send"
=============================================================================
