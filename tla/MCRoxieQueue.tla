---------------------------- MODULE MCRoxieQueue ----------------------------
(* Instances of RoxieQueue for TLC. *)
EXTENDS RoxieQueue

\* One datagram gets lost and the server sends the request again, at any time;
\* datagrams overtake each other; agents fail; and one request is followed to the end.
OneKindOfTrouble ==
  {Circumstance({}, TRUE, 1, 1, FALSE), Circumstance({}, FALSE, 1, 0, FALSE),
   Circumstance({0}, TRUE, 0, 0, FALSE),
   Circumstance({1}, TRUE, 0, 0, FALSE), Circumstance({0, 1}, TRUE, 0, 0, FALSE),
   Circumstance({}, TRUE, 0, 0, TRUE)}

\* The primary fails; the network loses nothing and keeps datagrams in order.
PrimaryFails == {Circumstance({0}, TRUE, 0, 1, FALSE)}
=============================================================================
