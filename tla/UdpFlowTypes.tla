---------------------------- MODULE UdpFlowTypes ----------------------------
(***************************************************************************)
(* The vocabulary of Roxie's UDP flow control (roxie/udplib/udpsha.hpp):   *)
(* the commands the two ends exchange and the arithmetic of the flow       *)
(* sequence numbers that name a request and the permit that answers it.    *)
(*                                                                         *)
(* A flow sequence number is a 32-bit unsigned integer; FlowMod stands for *)
(* 2^32.  0 is never a valid number: it is the null value of both ends.    *)
(***************************************************************************)
EXTENDS Integers

CONSTANT FlowMod       \* number of values of a sequence_t (2^32 in the code)

ASSUME FlowModAssumption == FlowMod \in Nat /\ FlowMod >= 3

FlowSeq   == 0 .. FlowMod - 1          \* any value of a sequence_t
FlowSeqId == 1 .. FlowMod - 1          \* a value that names a request

\* UdpReceiverEntry::nextFlowSequence, and the receiver's own computation of
\* the next number: add one, but never return the null value 0.
NextFlowSeq(s) == IF s + 1 = FlowMod THEN 1 ELSE s + 1

\* (int)(a - b) >= 0 on 32-bit unsigned a and b: a is not older than b.
NotOlder(a, b) == (a - b) % FlowMod < (FlowMod + 1) \div 2

\* (int)(a - b) <= 0 on 32-bit unsigned a and b: a is not newer than b.
NotNewer(a, b) == a = b \/ (a - b) % FlowMod >= (FlowMod + 1) \div 2

-----------------------------------------------------------------------------
\* flowType::flowCmd of the messages a sender writes, and the socket of each.
FlowSocketCmd == {"request_to_send", "send_start"}
DataSocketCmd == {"send_completed", "request_to_send_more"}

\* UdpRequestToSendMsg: what a sender tells the receiver.  packets is the
\* number about to be sent or just sent (0 for a request), sendSeq the next
\* packet sequence number of the sender.
FlowMsg(cmd, packets, flowSeq, sendSeq) ==
  [cmd |-> cmd, packets |-> packets, flowSeq |-> flowSeq, sendSeq |-> sendSeq]

\* A data packet.  Its content is abstracted to its sequence number.
DataMsg(sendSeq, resent) ==
  [cmd |-> "data", sendSeq |-> sendSeq, resent |-> resent]
=============================================================================
