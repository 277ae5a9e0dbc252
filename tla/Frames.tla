------------------------------- MODULE Frames -------------------------------
(***************************************************************************)
(* The dongle's report (src/src/maxwell/frame.rs): what the dongle writes  *)
(* to it, and the messages that are found in it again.  The property is    *)
(* about the bytes, so they are kept as they are on the wire.              *)
(*                                                                         *)
(* Sequences are counted from 1: byte i of the code is here byte i + 1.    *)
(***************************************************************************)
EXTENDS Integers, Sequences

MSG_SIZE == 62
FRESH_LEN_OFFSET == 1
PAYLOAD_OFFSET == 3

\* Not the code: what the answer has in common with the acknowledgement.
CommandBytes == <<214, 12, 0>>

\* 5d 05 00 d6 0c 00 00, and 5d 0e 00 b1 2c 00 02
BATTERY_ANSWER == <<93, 5, 0, 214, 12, 0, 0>>
LINK_EVENT == <<93, 14, 0, 177, 44, 0, 2>>

Capacity == MSG_SIZE - PAYLOAD_OFFSET

\* Not the code: the whole payload counts, leftovers included.
Everything(frame) == SubSeq(frame, PAYLOAD_OFFSET + 1, Len(frame))

\* The part of a report written since it was last fetched.
fresh(frame) ==
  LET end == PAYLOAD_OFFSET + frame[FRESH_LEN_OFFSET + 1]
  IN  SubSeq(frame, PAYLOAD_OFFSET + 1, IF end <= Len(frame) THEN end ELSE Len(frame))

Follows(header, data, at) ==
  \A i \in 1..Len(header) : data[at + i - 1] = header[i]

\* Where a message starts whose header is whole and which has the byte that
\* follows it.  A level above 100 says nothing.
Speaks(data, at) ==
  LET value == at + Len(BATTERY_ANSWER) IN
  /\ value <= Len(data)
  /\ \/ Follows(BATTERY_ANSWER, data, at) /\ data[value] <= 100
     \/ Follows(LINK_EVENT, data, at)

WhatIsSaid(data, at) ==
  LET value == data[at + Len(BATTERY_ANSWER)] IN
  IF Follows(BATTERY_ANSWER, data, at) THEN [battery |-> value]
  ELSE [link |-> IF value # 0 THEN "Up" ELSE "Down"]

\* Every message of a report, at the place where its header starts.
messages(frame) ==
  LET data == fresh(frame)
  IN  [at \in {at \in 1..Len(data) : Speaks(data, at)} |-> WhatIsSaid(data, at)]

-----------------------------------------------------------------------------
(* What the dongle writes, as captured in the tests of frame.rs: bytes, a  *)
(* record to the line, and the messages they carry, each at the place      *)
(* where its header starts.  Acknowledgements and status records carry     *)
(* none.                                                                   *)

PowerOn(level) ==
  [bytes |-> <<5, 92, 3, 0, 128, 44, 1,
               5, 93, 14, 0, 177, 44, 0, 2, 1, 1, 141, 144, 155, 103, 137, 194, 128, 1,
               5, 92, 3, 0, 128, 44, 3,
               5, 91, 3, 0, 214, 12, 0,
               5, 93, 5, 0, 214, 12, 0, 0, level>>,
   says |-> [at \in {9, 41} |-> IF at = 9 THEN [link |-> "Up"] ELSE [battery |-> level]]]

PowerOff ==
  [bytes |-> <<5, 93, 14, 0, 177, 44, 0, 2, 0, 1, 141, 144, 155, 103, 137, 194, 255, 0,
               5, 92, 3, 0, 128, 44, 1>>,
   says |-> [at \in {2} |-> [link |-> "Down"]]]

Answer(level) ==
  [bytes |-> <<5, 91, 3, 0, 214, 12, 0,
               5, 93, 5, 0, 214, 12, 0, 0, level>>,
   says |-> [at \in {9} |-> [battery |-> level]]]
=============================================================================
