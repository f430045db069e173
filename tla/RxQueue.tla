------------------------------ MODULE RxQueue -------------------------------
(***************************************************************************)
(* What the receive path of a serial port promises its reader: a queue of  *)
(* at most Capacity bytes that hands them out in the order of arrival and, *)
(* when it is full, gives up the oldest byte for the newest.               *)
(***************************************************************************)
EXTENDS Naturals, Sequences

CONSTANTS Bytes,     \* values of a byte
          Capacity   \* bytes it holds, at least one

VARIABLES queue,  \* the bytes received and not yet returned
          last    \* the last byte returned to the reader

Init == queue = <<>> /\ last \in Bytes

Arrive(b) ==
  /\ queue' = Append(IF Len(queue) < Capacity THEN queue ELSE Tail(queue), b)
  /\ UNCHANGED last

Return ==
  /\ queue # <<>>
  /\ last' = Head(queue) /\ queue' = Tail(queue)

Next == Return \/ \E b \in Bytes : Arrive(b)

Spec == Init /\ [][Next]_<<queue, last>>
=============================================================================
