--------------------------- MODULE WirelessProofs ---------------------------
(***************************************************************************)
(* Type correctness of Wireless, that a waiting reader has missed nothing, *)
(* and that the ring implements RxQueue, for every size of the ring, every *)
(* set of bytes and every outcome of wireless_open.                        *)
(*                                                                         *)
(* The argument.  The interrupt moves get on when put reaches it, so the   *)
(* indices are equal only when nothing is stored and is_full is then clear *)
(* (LinkInv); the ring is the queue of its BufSz - 1 used slots, and the   *)
(* discarded byte is the head of that queue.  A byte stored after the last *)
(* look of the reader leaves the flag set because the reader is not yet    *)
(* suspended, and the event is initialised before there is a reader.       *)
(***************************************************************************)
EXTENDS Wireless, SequenceTheorems, TLAPS

\* The inductive invariant.
LinkInv ==
  /\ get = put => full = "no"
  /\ reader # "waiting" => event # "raw"
  /\ NoLostWakeup

IInv == TypeOK /\ LinkInv

-----------------------------------------------------------------------------
(* The ring.                                                               *)

Indices == 0..(BufSz - 1)

LEMMA RingFacts ==
  ASSUME TypeOK
  PROVE  /\ get \in Indices /\ put \in Indices /\ buf \in [Indices -> Bytes]
         /\ BufSz \in Nat /\ BufSz >= 2
BY BufSzAssumption DEF TypeOK, Indices

LEMMA AdvanceFacts ==
  ASSUME NEW i \in Indices
  PROVE  Advance(i) \in Indices /\ Advance(i) = IF i = BufSz - 1 THEN 0 ELSE i + 1
BY BufSzAssumption DEF Advance, Indices

LEMMA ContentsFacts ==
  ASSUME TypeOK
  PROVE  /\ Count \in 0..(BufSz - 1)
         /\ Contents \in Seq(Bytes) /\ Len(Contents) = Count
         /\ \A k \in 1..Count : /\ Slot(k) \in Indices
                                /\ Contents[k] = buf[Slot(k)]
         /\ Contents = <<>> <=> get = put
<1>1. Count \in 0..(BufSz - 1) /\ (Count = 0 <=> get = put)
  BY RingFacts DEF Count, Indices
<1>2. ASSUME NEW k \in 1..Count PROVE Slot(k) \in Indices
  BY <1>1, RingFacts DEF Count, Slot, Indices
<1>3. \A k \in 1..Count : buf[Slot(k)] \in Bytes
  BY <1>2, RingFacts
<1>4. Contents \in Seq(Bytes) /\ Len(Contents) = Count
  BY <1>1, <1>3 DEF Contents
<1>5. \A k \in 1..Count : Contents[k] = buf[Slot(k)]
  BY DEF Contents
<1>6. Contents = <<>> <=> Count = 0
  BY <1>1, <1>4
<1> QED BY <1>1, <1>2, <1>4, <1>5, <1>6

\* Taking a byte out of the ring returns the head of the queue.
LEMMA TakeReturns ==
  ASSUME TypeOK, Take, get # put
  PROVE  Queue!Return
<1>1. /\ get' = Advance(get) /\ put' = put /\ buf' = buf /\ last' = buf[get]
      /\ get' \in Indices /\ get' = IF get = BufSz - 1 THEN 0 ELSE get + 1
  BY RingFacts, AdvanceFacts DEF Take
<1>2. Count \in 1..(BufSz - 1) /\ Count' = Count - 1
  BY <1>1, RingFacts DEF Count, Indices
<1>3. Slot(1) = get
  BY RingFacts DEF Slot, Indices
<1>4. ASSUME NEW k \in 1..(Count - 1) PROVE Slot(k)' = Slot(k + 1)
  BY <1>1, <1>2, RingFacts DEF Slot, Indices
<1>5. Contents # <<>> /\ Head(Contents) = buf[get]
  <2>1. Contents # <<>> /\ Contents[1] = buf[Slot(1)]
    BY ContentsFacts, <1>2
  <2> QED BY <2>1, <1>3, ContentsFacts
<1>6. Contents' = Tail(Contents)
  <2>1. Contents' = [k \in 1..(Count - 1) |-> buf[Slot(k + 1)]]
    BY <1>1, <1>2, <1>4 DEF Contents
  <2>2. \A k \in 1..(Count - 1) : buf[Slot(k + 1)] \in Bytes
    BY <1>2, ContentsFacts, RingFacts
  <2>3. Contents' \in Seq(Bytes) /\ Len(Contents') = Count - 1
    BY <1>2, <2>1, <2>2
  <2>4. /\ Tail(Contents) \in Seq(Bytes) /\ Len(Tail(Contents)) = Count - 1
        /\ \A k \in 1..(Count - 1) : Tail(Contents)[k] = Contents[k + 1]
    BY ContentsFacts, <1>5, HeadTailProperties
  <2>5. \A k \in 1..(Count - 1) : Contents'[k] = Tail(Contents)[k]
    BY <1>2, <2>1, <2>4, ContentsFacts
  <2> QED BY <2>3, <2>4, <2>5, SeqEqual
<1> QED BY <1>1, <1>5, <1>6 DEF Queue!Return

\* Storing a byte appends it, and gives up the head of a queue that is full.
LEMMA StoreArrives ==
  ASSUME TypeOK, NEW b \in Bytes, Store(b), UNCHANGED last
  PROVE  Queue!Arrive(b) /\ Contents' # <<>> /\ get' # put'
<1>1. /\ buf' = [buf EXCEPT ![put] = b]
      /\ put' \in Indices /\ put' = IF put = BufSz - 1 THEN 0 ELSE put + 1
      /\ put' # get => get' = get
      /\ put' = get => get' \in Indices /\ get' = IF get = BufSz - 1 THEN 0 ELSE get + 1
  BY RingFacts, AdvanceFacts DEF Store
<1>2. /\ Contents \in Seq(Bytes) /\ Len(Contents) = Count /\ Count \in 0..(BufSz - 1)
      /\ get' # put'
  BY ContentsFacts, RingFacts, <1>1 DEF Indices
<1> DEFINE kept == IF put' = get THEN Tail(Contents) ELSE Contents
<1>0. PICK n \in Nat : n = IF put' = get THEN BufSz - 2 ELSE Count
  BY <1>2, RingFacts
<1>3. Count' = n + 1 /\ (put' = get <=> Count = BufSz - 1)
  <2>1. CASE put' = get
    BY <1>0, <1>1, <2>1, RingFacts DEF Count, Indices
  <2>2. CASE put' # get
    BY <1>0, <1>1, <2>2, RingFacts DEF Count, Indices
  <2> QED BY <2>1, <2>2
<1>4. kept \in Seq(Bytes) /\ Len(kept) = n
  <2>1. CASE put' = get
    <3>1. Contents # <<>> /\ Len(Contents) = n + 1
      BY <1>0, <1>2, <1>3, <2>1, RingFacts
    <3>2. Tail(Contents) \in Seq(Bytes) /\ Len(Tail(Contents)) = Len(Contents) - 1
      BY <1>2, <3>1, HeadTailProperties
    <3> QED BY <2>1, <3>1, <3>2
  <2>2. CASE put' # get
    BY <1>0, <1>2, <2>2
  <2> QED BY <2>1, <2>2
<1>5. ASSUME NEW k \in 1..n
      PROVE  /\ Slot(k)' \in Indices /\ Slot(k)' # put
             /\ kept[k] = buf[Slot(k)']
  <2>1. CASE put' = get
    <3>1. k + 1 \in 1..Count /\ Slot(k)' = Slot(k + 1) /\ Slot(k + 1) # put
      BY <1>0, <1>1, <1>3, <2>1, RingFacts DEF Slot, Indices
    <3>2. Contents # <<>> /\ kept[k] = Contents[k + 1]
      BY <1>2, <1>3, <1>4, <2>1, <3>1, HeadTailProperties
    <3> QED BY <3>1, <3>2, ContentsFacts
  <2>2. CASE put' # get
    <3>1. k \in 1..Count /\ Slot(k)' = Slot(k) /\ Slot(k) # put
      BY <1>0, <1>1, <2>2, RingFacts DEF Slot, Count, Indices
    <3> QED BY <2>2, <3>1, ContentsFacts
  <2> QED BY <2>1, <2>2
<1>6. Slot(n + 1)' = put
  <2>1. CASE put' = get
    BY <1>0, <1>1, <2>1, RingFacts DEF Slot, Indices
  <2>2. CASE put' # get
    BY <1>0, <1>1, <2>2, RingFacts DEF Slot, Count, Indices
  <2> QED BY <2>1, <2>2
<1>7. Contents' = [k \in 1..(n + 1) |-> buf'[Slot(k)']]
  BY <1>3 DEF Contents
<1> HIDE DEF kept
<1>8. ASSUME NEW k \in 1..(n + 1)
      PROVE  /\ Contents'[k] = IF k = n + 1 THEN b ELSE kept[k]
             /\ Contents'[k] \in Bytes
  <2>1. Contents'[k] = buf'[Slot(k)']
    BY <1>7
  <2>2. CASE k = n + 1
    BY <1>1, <1>6, <2>1, <2>2, RingFacts
  <2>3. CASE k # n + 1
    <3>1. k \in 1..n
      BY <1>3, <2>3
    <3> QED BY <1>1, <1>4, <1>5, <2>1, <2>3, <3>1, RingFacts
  <2> QED BY <2>2, <2>3
<1>9. Contents' \in Seq(Bytes) /\ Len(Contents') = n + 1
  BY <1>3, <1>7, <1>8
<1>10. Contents' = Append(kept, b)
  <2>1. /\ Append(kept, b) \in Seq(Bytes) /\ Len(Append(kept, b)) = n + 1
        /\ \A k \in 1..(n + 1) : Append(kept, b)[k] = IF k = n + 1 THEN b ELSE kept[k]
    BY <1>3, <1>4
  <2> QED BY <1>8, <1>9, <2>1, SeqEqual
<1>11. kept = IF Len(Contents) < BufSz - 1 THEN Contents ELSE Tail(Contents)
  BY <1>2, <1>3, RingFacts DEF kept
<1>12. Contents' # <<>>
  BY <1>3, <1>9
<1> QED BY <1>2, <1>10, <1>11, <1>12 DEF Queue!Arrive

-----------------------------------------------------------------------------
(* Type correctness.                                                       *)

LEMMA TypeInit == Init => TypeOK
<1> SUFFICES ASSUME Init PROVE TypeOK
  OBVIOUS
<1>1. /\ 0 \in 0..(BufSz - 1) /\ 0 \in 0..(Tries - 1) /\ Chars \in 0..Chars
      /\ 0 \in 0..(Chars - Chars) /\ 0 \in 0..MaxBytes
  BY BufSzAssumption, GreetingAssumption, MaxBytesAssumption
<1>2. buf \in [0..(BufSz - 1) -> Bytes] /\ last \in Bytes
  BY DEF Init
<1> QED BY <1>1, <1>2 DEF Init, TypeOK

LEMMA TypeStep == TypeOK /\ [Next]_vars => TypeOK'
<1> SUFFICES ASSUME TypeOK, [Next]_vars PROVE TypeOK'
  OBVIOUS
<1>1. ASSUME Find PROVE TypeOK'
  BY <1>1, LookupsAssumption DEF TypeOK, Find, ring, hello
<1>2. ASSUME Open PROVE TypeOK'
  BY <1>2 DEF TypeOK, Open, ring, hello
<1>3. ASSUME EventInit PROVE TypeOK'
  BY <1>3 DEF TypeOK, EventInit, ring, hello
<1>4. ASSUME PutChar PROVE TypeOK'
  <2>1. /\ left' \in 0..Chars /\ timeout' \in 0..(Tries - 1)
        /\ written' \in 0..(Chars - left')
    BY <1>4, GreetingAssumption DEF TypeOK, PutChar, hello
  <2> QED BY <1>4, <2>1 DEF TypeOK, PutChar, ring, hello
<1>5. ASSUME Greeted PROVE TypeOK'
  BY <1>5 DEF TypeOK, Greeted, ring, hello
<1>6. ASSUME Read PROVE TypeOK'
  <2>1. /\ buf' = buf /\ put' = put /\ get' \in Indices
        /\ full' \in {"no", "yes"} /\ last' \in Bytes
    BY <1>6, RingFacts, AdvanceFacts DEF TypeOK, Read, Take, ring
  <2> QED BY <1>6, <2>1 DEF TypeOK, Read, Indices, hello
<1>7. ASSUME Recv PROVE TypeOK'
  BY <1>7 DEF TypeOK, Recv, ring, hello
<1>8. ASSUME NEW b \in Bytes, Receive(b) PROVE TypeOK'
  <2>1. /\ buf' \in [Indices -> Bytes] /\ put' \in Indices /\ get' \in Indices
        /\ full' \in {"no", "yes"}
    BY <1>8, RingFacts, AdvanceFacts DEF TypeOK, Receive, Store
  <2>2. sent' \in 0..MaxBytes
    BY <1>8, MaxBytesAssumption DEF TypeOK, Receive
  <2> QED BY <1>8, <2>1, <2>2 DEF TypeOK, Receive, SendEvent, Indices, hello
<1>9. ASSUME UNCHANGED vars PROVE TypeOK'
  BY <1>9 DEF TypeOK, vars, ring, hello
<1> QED BY <1>1, <1>2, <1>3, <1>4, <1>5, <1>6, <1>7, <1>8, <1>9
        DEF Next, Master, Reader, Idle

\* Every variable keeps its type: the indices stay inside the buffer however the
\* interrupt and the reader interleave (serial.c:302, 1157, 1163).
THEOREM TypeCorrect == Spec => []TypeOK
BY TypeInit, TypeStep, PTL DEF Spec

-----------------------------------------------------------------------------
(* The waiting reader.                                                     *)

LEMMA LinkInit == Init => LinkInv
<1> SUFFICES ASSUME Init PROVE LinkInv
  OBVIOUS
<1> QED BY DEF Init, LinkInv, NoLostWakeup

LEMMA LinkStep == IInv /\ [Next]_vars => LinkInv'
<1> SUFFICES ASSUME TypeOK, LinkInv, [Next]_vars PROVE LinkInv'
  BY DEF IInv
<1>1. ASSUME UNCHANGED <<ring, event, reader>> PROVE LinkInv'
  <2>1. Contents' = Contents
    BY <1>1 DEF ring, Contents, Count, Slot
  <2> QED BY <1>1, <2>1 DEF LinkInv, NoLostWakeup, ring
<1>2. ASSUME EventInit PROVE LinkInv'
  BY <1>2 DEF EventInit, LinkInv, NoLostWakeup, ring
<1>3. ASSUME Read PROVE LinkInv'
  <2>1. CASE NoData
    <3>1. UNCHANGED <<ring, event>> /\ reader' = "recv" /\ reader = "read"
      BY <1>3, <2>1 DEF Read
    <3>2. Contents' = <<>>
      <4>1. Contents = <<>>
        BY <2>1, ContentsFacts DEF NoData
      <4> QED BY <3>1, <4>1 DEF ring, Contents, Count, Slot
    <3> QED BY <3>1, <3>2 DEF LinkInv, NoLostWakeup, ring
  <2>2. CASE ~NoData
    BY <1>3, <2>2 DEF Read, Take, LinkInv, NoLostWakeup
  <2> QED BY <2>1, <2>2
<1>4. ASSUME Recv PROVE LinkInv'
  <2>1. Contents' = Contents
    BY <1>4 DEF Recv, ring, Contents, Count, Slot
  <2> QED BY <1>4, <2>1 DEF Recv, LinkInv, NoLostWakeup, ring
<1>5. ASSUME NEW b \in Bytes, Receive(b) PROVE LinkInv'
  <2>1. get' # put'
    BY <1>5, StoreArrives DEF Receive
  <2> QED BY <1>5, <2>1 DEF Receive, SendEvent, LinkInv, NoLostWakeup
<1>6. ASSUME Find \/ Open \/ PutChar \/ Greeted \/ UNCHANGED vars PROVE LinkInv'
  <2>1. UNCHANGED <<ring, event, reader>>
    BY <1>6 DEF Find, Open, PutChar, Greeted, vars
  <2> QED BY <1>1, <2>1
<1> QED BY <1>2, <1>3, <1>4, <1>5, <1>6 DEF Next, Master, Reader, Idle

LEMMA LinkInvariant == Spec => []IInv
BY TypeInit, TypeStep, LinkInit, LinkStep, PTL DEF Spec, IInv

\* A reader that waits, or is about to, has missed no byte, wherever the
\* interrupt came (wireless_app.c:25-29, ipc.c:1057-1100, 1165-1215).
THEOREM WakeupCorrect == Spec => []NoLostWakeup
<1>1. IInv => NoLostWakeup
  BY DEF IInv, LinkInv
<1> QED BY LinkInvariant, <1>1, PTL

-----------------------------------------------------------------------------
(* The ring implements the queue.                                          *)

LEMMA QueueInit == Init => Queue!Init
<1> SUFFICES ASSUME Init PROVE Queue!Init
  OBVIOUS
<1>1. Contents = <<>>
  BY TypeInit, ContentsFacts DEF Init
<1> QED BY <1>1 DEF Init, Queue!Init

LEMMA QueueStep == IInv /\ [Next]_vars => [Queue!Next]_<<Contents, last>>
<1> SUFFICES ASSUME TypeOK, LinkInv, [Next]_vars
             PROVE  Queue!Next \/ UNCHANGED <<Contents, last>>
  BY DEF IInv
<1>1. ASSUME UNCHANGED <<ring, last>> PROVE UNCHANGED <<Contents, last>>
  BY <1>1 DEF ring, Contents, Count, Slot
<1>2. ASSUME Read PROVE Queue!Next \/ UNCHANGED <<Contents, last>>
  <2>1. CASE NoData
    BY <1>1, <1>2, <2>1 DEF Read
  <2>2. CASE ~NoData
    <3>1. Take /\ get # put
      BY <1>2, <2>2 DEF Read, NoData, LinkInv
    <3> QED BY <3>1, TakeReturns DEF Queue!Next
  <2> QED BY <2>1, <2>2
<1>3. ASSUME NEW b \in Bytes, Receive(b) PROVE Queue!Next
  BY <1>3, StoreArrives DEF Receive, Queue!Next
<1>4. ASSUME Find \/ Open \/ EventInit \/ PutChar \/ Greeted \/ Recv \/ UNCHANGED vars
      PROVE  UNCHANGED <<Contents, last>>
  BY <1>1, <1>4 DEF Find, Open, EventInit, PutChar, Greeted, Recv, vars
<1> QED BY <1>2, <1>3, <1>4 DEF Next, Master, Reader, Idle

\* The ring, with the interrupt that moves the reader's index, is a queue of
\* BufSz - 1 bytes that gives up the oldest one (serial.c:272-315, 1150-1174).
THEOREM RingImplementsQueue == Spec => QueueSpec
BY LinkInvariant, QueueInit, QueueStep, PTL DEF Spec, QueueSpec, Queue!Spec
=============================================================================
