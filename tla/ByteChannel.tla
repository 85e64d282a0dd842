---------------------------- MODULE ByteChannel ----------------------------
(***************************************************************************)
(* What the dummy device and its driver promise together: a bounded first- *)
(* in first-out channel of bytes.  Bytes enter one at a time at the tail   *)
(* and leave in runs from the head, and none is lost, repeated or changed. *)
(***************************************************************************)
EXTENDS Integers, Sequences

CONSTANTS Byte, Capacity

VARIABLES
  queue,      \* bytes in the channel
  delivered   \* bytes handed out so far

Init ==
  /\ queue = << >>
  /\ delivered = << >>

Put ==
  /\ Len(queue) < Capacity
  /\ \E b \in Byte : queue' = Append(queue, b)
  /\ UNCHANGED delivered

Get ==
  \E n \in 1 .. Len(queue) :
    /\ delivered' = delivered \o SubSeq(queue, 1, n)
    /\ queue' = SubSeq(queue, n + 1, Len(queue))

Next == Put \/ Get

Spec == Init /\ [][Next]_<<queue, delivered>>

=============================================================================
