--------------------------- MODULE ReliableTransfer ---------------------------
(***************************************************************************)
(* What the data path of the UDP transport promises: every packet a sender  *)
(* hands over is passed on to the receiver's collator, once, and the sender  *)
(* keeps it until then.  Packets may be passed on in any order (the collator *)
(* restores it).                                                            *)
(***************************************************************************)
EXTENDS Naturals

CONSTANT MaxSent       \* bound: packets ever handed over

VARIABLES
  sent,                \* number of packets handed over: 0 .. sent - 1
  passed,              \* passed[n]: how often packet n was passed on
  forgotten            \* the packets the sender no longer keeps

transferVars == <<sent, passed, forgotten>>

Packets == 0 .. MaxSent - 1

TransferInit ==
  /\ sent = 0
  /\ passed = [n \in Packets |-> 0]
  /\ forgotten = {}

\* The sender hands over more packets, and may forget those passed on.
Send ==
  /\ sent' \in sent .. MaxSent
  /\ forgotten \subseteq forgotten'
  /\ \A n \in forgotten' : passed[n] = 1
  /\ UNCHANGED passed

PassOn(n) ==
  /\ n < sent
  /\ passed[n] = 0
  /\ passed' = [passed EXCEPT ![n] = 1]
  /\ UNCHANGED <<sent, forgotten>>

TransferNext == Send \/ \E n \in Packets : PassOn(n)

\* Every packet handed over is passed on in the end.
Delivery == \A n \in Packets : n < sent ~> passed[n] = 1

TransferSpec == TransferInit /\ [][TransferNext]_transferVars /\ Delivery
=============================================================================
