------------------------------ MODULE ByteFifo ------------------------------
(***************************************************************************)
(* What a one-producer, one-consumer byte buffer promises its two sides:   *)
(* bytes come out in the order they went in, none is invented, duplicated  *)
(* or overtaken on the way, and never more than Capacity are waiting.  A   *)
(* device reset empties it.  ReplRx implements this module.                *)
(***************************************************************************)
EXTENDS Naturals, Sequences

CONSTANTS
  Byte,      \* the values a byte takes
  Capacity,  \* how many bytes can wait
  NoByte     \* "nothing has been read yet"

VARIABLES
  queue,     \* the bytes waiting, oldest first
  last       \* the byte the consumer took last

fifoVars == <<queue, last>>

Init ==
  /\ queue = << >>
  /\ last = NoByte

Put(b) ==
  /\ Len(queue) < Capacity
  /\ queue' = Append(queue, b)
  /\ UNCHANGED last

Get ==
  /\ queue # << >>
  /\ last' = Head(queue)
  /\ queue' = Tail(queue)

Reset ==
  /\ queue' = << >>
  /\ last' = NoByte

Next == (\E b \in Byte : Put(b)) \/ Get \/ Reset

Spec == Init /\ [][Next]_fifoVars
=============================================================================
