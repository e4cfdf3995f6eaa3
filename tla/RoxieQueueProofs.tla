-------------------------- MODULE RoxieQueueProofs --------------------------
(* Proofs about RoxieQueue, for any number of agents, retries, losses and    *)
(* failures, timeouts that pass at any time and replies read in any order:   *)
(* its types, when a request can be forgotten, and when it is given up.      *)
EXTENDS RoxieQueue, CountingLemmas

-----------------------------------------------------------------------------
(* Datagrams that are written and taken from the network.                  *)

LEMMA DatagramsAre ==
  /\ Ibyti \in Datagram /\ Abort \in Datagram
  /\ Ibyti.kind = "ibyti" /\ Abort.kind = "abort"
  /\ \A r \in Retries : Request(r) \in Datagram /\ Request(r).kind = "request"
                        /\ Request(r).retries = r
  /\ \A d \in Datagram : d.kind = "request" => d.retries \in Retries
BY DEF Datagram, Ibyti, Abort, Request

\* channelWrite
LEMMA WrittenIs ==
  ASSUME NEW net \in Nets, NEW from \in Nodes, NEW to, NEW d \in Datagram
  PROVE  /\ Written(net, from, to, d) \in Nets
         /\ \A n \in Nodes, a \in Agents :
              Written(net, from, to, d)[n][a] =
                IF n = from /\ a \in to THEN Append(net[n][a], d) ELSE net[n][a]
<1> DEFINE row == [b \in Agents |-> IF b \in to THEN Append(net[from][b], d) ELSE net[from][b]]
<1>1. row \in [Agents -> Seq(Datagram)]
  <2>1. \A b \in Agents : net[from][b] \in Seq(Datagram)
    BY DEF Nets
  <2>2. \A b \in Agents : Append(net[from][b], d) \in Seq(Datagram)
    BY <2>1, AppendProperties
  <2>3. QED
    BY <2>1, <2>2
<1>2. Written(net, from, to, d) = [net EXCEPT ![from] = row]
  BY DEF Written, Nets
<1>3. \A a \in Agents : row[a] = IF a \in to THEN Append(net[from][a], d) ELSE net[from][a]
  OBVIOUS
<1> HIDE DEF row
<1>4. QED
  BY <1>1, <1>2, <1>3 DEF Nets

\* A datagram is read, or lost.
LEMMA TakenIs ==
  ASSUME datagrams \in Nets, NEW n \in Nodes, NEW a \in Agents,
         NEW i \in DOMAIN datagrams[n][a]
  PROVE  /\ Taken(n, a, i) \in Nets
         /\ \A m \in Nodes, b \in Agents :
              Taken(n, a, i)[m][b] =
                IF m = n /\ b = a THEN RemoveAt(datagrams[n][a], i) ELSE datagrams[m][b]
<1>1. datagrams[n][a] \in Seq(Datagram) /\ i \in 1 .. Len(datagrams[n][a])
  BY DEF Nets
<1>2. RemoveAt(datagrams[n][a], i) \in Seq(Datagram)
  BY <1>1, RemoveAtType
<1> DEFINE q == RemoveAt(datagrams[n][a], i)
<1> HIDE DEF q
<1>3. Taken(n, a, i) = [datagrams EXCEPT ![n] = [datagrams[n] EXCEPT ![a] = q]]
  BY DEF Taken, Nets, q
<1>4. q \in Seq(Datagram)
  BY <1>2 DEF q
<1>5. /\ [datagrams[n] EXCEPT ![a] = q] \in [Agents -> Seq(Datagram)]
      /\ \A b \in Agents : [datagrams[n] EXCEPT ![a] = q][b] =
                             IF b = a THEN q ELSE datagrams[n][b]
  BY <1>4 DEF Nets
<1>6. QED
  BY <1>3, <1>5 DEF Nets, q

-----------------------------------------------------------------------------
(* Types.                                                                  *)

LEMMA AgentsAre ==
  /\ Server \in Nodes /\ Agents \subseteq Nodes /\ Server \notin Agents /\ 0 \in Agents
  /\ Mask \in Nat \ {0} /\ NoPacket \notin Retries
  /\ \A c \in Circumstances :
       c.failing \subseteq Agents /\ c.maxLost \in Nat /\ c.maxResends \in Nat
BY QueueAssumption DEF Nodes, Agents, Retries

LEMMA OfferedIs ==
  ASSUME NEW net \in Nets, NEW from \in Nodes, NEW r \in Retries
  PROVE  Offered(net, from, r) \in Nets
BY WrittenIs, DatagramsAre DEF Offered

Quiet == [n \in Nodes |-> [a \in Agents |-> <<>>]]

LEMMA TypeInit == Init => TypeOK
<1> SUFFICES ASSUME Init PROVE TypeOK
  OBVIOUS
<1>1. NoRetries \in Retries
  BY AgentsAre DEF NoRetries, Retries
<1>2. Quiet \in Nets
  BY DEF Nets, Quiet
<1>3. datagrams \in Nets
  BY <1>1, <1>2, OfferedIs, AgentsAre DEF Init, Quiet
<1>4. given.maxLost \in Nat /\ given.maxResends \in Nat /\ given \in Circumstances
  BY AgentsAre DEF Init
<1>5. retries \in Retries /\ resends \in 0 .. given.maxResends /\ lost \in 0 .. given.maxLost
  BY <1>1, <1>4 DEF Init
<1>6. /\ replies \in [Agents -> [ReplyKinds -> Nat]]
      /\ delayed \in [Agents -> Seq(Retries)] /\ waiting \in [Agents -> Seq(Retries)]
  BY DEF Init
<1>7. QED
  BY <1>3, <1>4, <1>5, <1>6 DEF Init, TypeOK

LEMMA RetriedIs ==
  ASSUME retries \in Retries
  PROVE  /\ Retried \in Retries
         /\ \A a \in Agents : NoteException(a) \in Retries /\ [retries EXCEPT ![a] = 0] \in Retries
BY AgentsAre DEF Retries, Retried, NoteException

LEMMA WritesAre ==
  ASSUME TypeOK
  PROVE  /\ \A r \in Retries, n \in Nodes : Offered(datagrams, n, r) \in Nets
         /\ \A a \in Agents : WithIbyti(datagrams, a) \in Nets
         /\ Written(datagrams, Server, Agents, Abort) \in Nets
<1>1. datagrams \in Nets
  BY DEF TypeOK
<1>2. \A a \in Agents : Written(datagrams, a, Agents \ {a}, Ibyti) \in Nets
  BY <1>1, WrittenIs, DatagramsAre, AgentsAre
<1>3. Written(datagrams, Server, Agents, Abort) \in Nets
  BY <1>1, WrittenIs, DatagramsAre, AgentsAre
<1>4. QED
  BY <1>1, <1>2, <1>3, OfferedIs DEF WithIbyti

\* A reply is sent, or read.
LEMMA RepliesAre ==
  ASSUME TypeOK, NEW a \in Agents, NEW kind \in ReplyKinds
  PROVE  /\ Sent(a, kind) \in [Agents -> [ReplyKinds -> Nat]]
         /\ \A b \in Agents, k \in ReplyKinds :
              Sent(a, kind)[b][k] =
                IF b = a /\ k = kind THEN replies[b][k] + 1 ELSE replies[b][k]
         /\ replies[a][kind] > 0 =>
              /\ [replies EXCEPT ![a][kind] = @ - 1] \in [Agents -> [ReplyKinds -> Nat]]
              /\ \A b \in Agents, k \in ReplyKinds :
                   [replies EXCEPT ![a][kind] = @ - 1][b][k] =
                     IF b = a /\ k = kind THEN replies[b][k] - 1 ELSE replies[b][k]
BY DEF TypeOK, Sent

LEMMA RetryPendingType == ASSUME TypeOK, RetryPending PROVE TypeOK'
<1>1. retries' \in Retries
  BY RetriedIs DEF RetryPending, TypeOK
<1>2. datagrams' \in Nets
  <2>1. Retried \in Retries
    BY RetriedIs DEF TypeOK
  <2>2. \/ datagrams' = Written(datagrams, Server, Agents, Abort)
        \/ datagrams' = Offered(datagrams, Server, Retried)
    BY DEF RetryPending
  <2>3. QED
    BY <2>1, <2>2, WritesAre, AgentsAre
<1>3. resends' \in 0 .. given.maxResends
  BY AgentsAre DEF RetryPending, TypeOK
<1>4. QED
  BY <1>1, <1>2, <1>3 DEF RetryPending, TypeOK, queueVars, workerVars, history

LEMMA GetNextUnpackerType == ASSUME TypeOK, GetNextUnpacker PROVE TypeOK'
<1>1. PICK a \in Agents, kind \in ReplyKinds :
        /\ replies[a][kind] > 0
        /\ replies' = [replies EXCEPT ![a][kind] = @ - 1]
        /\ \/ UNCHANGED <<retries, acknowledged, result, datagrams, noted>>
           \/ /\ acknowledged' = TRUE /\ retries' = [retries EXCEPT ![a] = 0]
              /\ noted' \in {noted, "alive"}
              /\ UNCHANGED <<result, datagrams>>
           \/ /\ retries' = NoteException(a)
              /\ noted' \in {noted, "exception"}
              /\ \/ /\ result' = "exception"
                    /\ datagrams' = Written(datagrams, Server, Agents, Abort)
                    /\ UNCHANGED acknowledged
                 \/ acknowledged' = FALSE /\ UNCHANGED <<result, datagrams>>
           \/ result' = "answer" /\ UNCHANGED <<retries, acknowledged, datagrams, noted>>
  BY DEF GetNextUnpacker
<1>2. replies' \in [Agents -> [ReplyKinds -> Nat]]
  BY <1>1, RepliesAre
<1>3. retries' \in Retries
  <2>1. retries \in Retries
    BY DEF TypeOK
  <2>2. NoteException(a) \in Retries /\ [retries EXCEPT ![a] = 0] \in Retries
    BY <2>1, RetriedIs
  <2>3. QED
    BY <1>1, <2>1, <2>2
<1>4. datagrams' \in Nets
  <2>1. datagrams \in Nets /\ Written(datagrams, Server, Agents, Abort) \in Nets
    BY WritesAre DEF TypeOK
  <2>2. QED
    BY <1>1, <2>1
<1>5. /\ acknowledged' \in BOOLEAN /\ result' \in {"none", "answer", "exception", "error"}
      /\ noted' \in {"none", "exception", "alive"}
  BY <1>1 DEF TypeOK
<1>6. UNCHANGED <<resends, given, lost, queueVars, workerVars, claimed>>
  BY DEF GetNextUnpacker
<1>7. QED
  BY <1>2, <1>3, <1>4, <1>5, <1>6 DEF TypeOK, queueVars, workerVars

LEMMA WorkerType == ASSUME TypeOK, NEW a \in Agents, Worker(a) PROVE TypeOK'
<1> USE DEF TypeOK, Step, serverVars, netVars, queueVars, history
<1>1. CASE Dequeue(a)
  <2>1. /\ Head(waiting[a]) \in Retries /\ Tail(waiting[a]) \in Seq(Retries)
    BY <1>1 DEF Dequeue
  <2>2. packet' \in [Agents -> Retries \cup {NoPacket}] /\ waiting' \in [Agents -> Seq(Retries)]
    BY <1>1, <2>1 DEF Dequeue
  <2>3. \A b \in Agents : packet'[b] = NoPacket <=> worker'[b] = "idle"
    BY <1>1, <2>1, AgentsAre DEF Dequeue
  <2>4. QED
    BY <1>1, <2>2, <2>3 DEF Dequeue
<1>2. CASE SetPacket(a)
  BY <1>2 DEF SetPacket
<1>3. CASE Launch(a)
  BY <1>3 DEF Launch
<1>4. CASE SendIbyti(a)
  <2>1. datagrams' \in Nets
    BY <1>4, WritesAre DEF SendIbyti
  <2>2. QED
    BY <1>4, <2>1 DEF SendIbyti
<1>5. CASE Process(a)
  <2>1. replies' \in [Agents -> [ReplyKinds -> Nat]]
    BY <1>5, RepliesAre DEF Process, ReplyKinds
  <2>2. QED
    BY <1>5, <2>1 DEF Process, EndActivity
<1>6. CASE ThrowRemoteException(a)
  <2> DEFINE failed == [packet[a] EXCEPT ![a] = Mask]
  <2>1. failed \in Retries
    <3>1. packet[a] \in Retries
      BY <1>6 DEF ThrowRemoteException, EndActivity
    <3> HIDE DEF TypeOK
    <3>2. Mask \in 0 .. Mask
      BY AgentsAre
    <3>3. QED
      BY <3>1, <3>2 DEF Retries
  <2>2. /\ packet' = [packet EXCEPT ![a] = failed]
        /\ datagrams' = Offered(datagrams, a, failed)
        /\ replies' = Sent(a, "exception")
        /\ worker' = [worker EXCEPT ![a] = "post"]
        /\ aborted' = [aborted EXCEPT ![a] = FALSE]
        /\ threw' = threw \cup {a}
        /\ UNCHANGED <<serverVars, given, lost, queueVars, abortLaunch, history>>
    BY <1>6 DEF ThrowRemoteException, EndActivity
  <2> HIDE DEF failed
  <2>3. datagrams' \in Nets
    BY <2>1, <2>2, WritesAre, AgentsAre
  <2>4. \A b \in Agents : packet'[b] = NoPacket <=> worker'[b] = "idle"
    <3>1. failed # NoPacket
      BY <2>1, AgentsAre
    <3>2. QED
      BY <2>2, <3>1
  <2>5. packet' \in [Agents -> Retries \cup {NoPacket}]
    BY <2>1, <2>2
  <2>6. threw' \subseteq given'.failing
    BY <1>6 DEF ThrowRemoteException
  <2>7. replies' \in [Agents -> [ReplyKinds -> Nat]]
    BY <2>2, RepliesAre DEF ReplyKinds
  <2>8. QED
    BY <2>2, <2>3, <2>4, <2>5, <2>6, <2>7
<1>7. CASE ClearPacket(a)
  BY <1>7 DEF ClearPacket
<1>8. QED
  BY <1>1, <1>2, <1>3, <1>4, <1>5, <1>6, <1>7 DEF Worker

\* What is taken from the network, before an IBYTI is written in answer.
LEMMA TakesAre ==
  ASSUME TypeOK, NEW n \in DOMAIN datagrams, NEW a \in Agents, NEW i \in DOMAIN datagrams[n][a]
  PROVE  /\ n \in Nodes /\ Taken(n, a, i) \in Nets /\ WithIbyti(Taken(n, a, i), a) \in Nets
         /\ datagrams[n][a][i] \in Datagram
<1>1. n \in Nodes /\ datagrams \in Nets
  BY DEF TypeOK, Nets
<1>2. Taken(n, a, i) \in Nets
  BY <1>1, TakenIs
<1>3. WithIbyti(Taken(n, a, i), a) \in Nets
  BY <1>2, WrittenIs, DatagramsAre, AgentsAre DEF WithIbyti
<1>4. datagrams[n][a][i] \in Datagram
  BY <1>1 DEF Nets
<1>5. QED
  BY <1>1, <1>2, <1>3, <1>4

LEMMA QueueRequestType ==
  ASSUME TypeOK, NEW a \in Agents, NEW r \in Retries, QueueRequest(a, r)
  PROVE  delayed' \in [Agents -> Seq(Retries)] /\ waiting' \in [Agents -> Seq(Retries)]
<1>1. /\ delayed \in [Agents -> Seq(Retries)] /\ waiting \in [Agents -> Seq(Retries)]
      /\ Append(delayed[a], r) \in Seq(Retries) /\ Append(waiting[a], r) \in Seq(Retries)
  BY AppendProperties DEF TypeOK
<1>2. /\ \/ delayed' = [delayed EXCEPT ![a] = Append(delayed[a], r)]
         \/ delayed' = delayed
      /\ \/ waiting' = [waiting EXCEPT ![a] = Append(waiting[a], r)]
         \/ waiting' = waiting
  BY <1>1 DEF QueueRequest
<1>3. QED
  BY <1>1, <1>2

LEMMA ReceiverType == ASSUME TypeOK, NEW a \in Agents, Receiver(a) PROVE TypeOK'
<1>1. CASE ReceiveRequest(a)
  <2>1. PICK n, i :
          /\ n \in DOMAIN datagrams /\ i \in DOMAIN datagrams[n][a]
          /\ datagrams[n][a][i].kind = "request"
          /\ \/ replies' = replies
             \/ replies' = Sent(a, "alive")
          /\ \/ datagrams' = Taken(n, a, i)
             \/ datagrams' = WithIbyti(Taken(n, a, i), a)
          /\ UNCHANGED <<delayed, waiting>> \/ QueueRequest(a, datagrams[n][a][i].retries)
    BY <1>1 DEF ReceiveRequest, Received
  <2>2. datagrams' \in Nets
    BY <2>1, TakesAre
  <2>3. delayed' \in [Agents -> Seq(Retries)] /\ waiting' \in [Agents -> Seq(Retries)]
    <3>1. datagrams[n][a][i].retries \in Retries
      BY <2>1, TakesAre, DatagramsAre
    <3>2. CASE QueueRequest(a, datagrams[n][a][i].retries)
      BY <3>1, <3>2, QueueRequestType
    <3>3. CASE UNCHANGED <<delayed, waiting>>
      BY <3>3 DEF TypeOK
    <3>4. QED
      BY <2>1, <3>2, <3>3
  <2>4. replies' \in [Agents -> [ReplyKinds -> Nat]]
    BY <2>1, RepliesAre DEF TypeOK, ReplyKinds
  <2>5. UNCHANGED <<serverVars, given, lost, orphan, workerVars, noted>> /\ claimed' \in BOOLEAN
    BY <1>1 DEF ReceiveRequest, TypeOK
  <2>6. QED
    BY <2>2, <2>3, <2>4, <2>5 DEF TypeOK, serverVars, workerVars
<1>2. CASE DoIbyti(a)
  <2>1. PICK n, i :
          /\ n \in DOMAIN datagrams /\ i \in DOMAIN datagrams[n][a]
          /\ datagrams' = Taken(n, a, i)
    BY <1>2 DEF DoIbyti, Received
  <2>2. datagrams' \in Nets
    BY <2>1, TakesAre
  <2>3. delayed' \in [Agents -> Seq(Retries)] /\ waiting' \in [Agents -> Seq(Retries)]
    <3>1. \A q \in Seq(Retries) : q # <<>> => Tail(q) \in Seq(Retries)
      OBVIOUS
    <3>2. delayed \in [Agents -> Seq(Retries)] /\ waiting \in [Agents -> Seq(Retries)]
      BY DEF TypeOK
    <3>3. \/ delayed' = delayed
          \/ delayed[a] # <<>> /\ delayed' = [delayed EXCEPT ![a] = Tail(delayed[a])]
      BY <1>2, <3>2 DEF DoIbyti
    <3>4. \/ waiting' = waiting
          \/ waiting[a] # <<>> /\ waiting' = [waiting EXCEPT ![a] = Tail(waiting[a])]
      BY <1>2, <3>2 DEF DoIbyti
    <3>5. delayed' \in [Agents -> Seq(Retries)]
      BY <3>1, <3>2, <3>3
    <3>6. waiting' \in [Agents -> Seq(Retries)]
      BY <3>1, <3>2, <3>4
    <3>7. QED
      BY <3>5, <3>6
  <2>4. orphan' \in [Agents -> BOOLEAN]
    BY <1>2 DEF DoIbyti, TypeOK
  <2>5. abortLaunch' \in [Agents -> BOOLEAN] /\ aborted' \in [Agents -> BOOLEAN]
    BY <1>2 DEF DoIbyti, TypeOK, CheckAbort
  <2>6. UNCHANGED <<serverVars, given, lost, replies, worker, packet, threw, history>>
    BY <1>2 DEF DoIbyti
  <2>7. QED
    BY <2>2, <2>3, <2>4, <2>5, <2>6 DEF TypeOK, serverVars, history
<1>3. CASE CheckExpired(a)
  <2>1. Head(delayed[a]) \in Retries /\ Tail(delayed[a]) \in Seq(Retries)
    BY <1>3 DEF CheckExpired, TypeOK
  <2>2. Append(waiting[a], Head(delayed[a])) \in Seq(Retries)
    BY <2>1, AppendProperties DEF TypeOK
  <2>3. delayed' \in [Agents -> Seq(Retries)] /\ waiting' \in [Agents -> Seq(Retries)]
    BY <1>3, <2>1, <2>2 DEF CheckExpired, TypeOK
  <2>4. QED
    BY <1>3, <2>3 DEF CheckExpired, TypeOK, serverVars, netVars, workerVars, history
<1>4. CASE OrphanExpires(a)
  BY <1>4 DEF OrphanExpires, TypeOK, serverVars, netVars, workerVars, history
<1>5. QED
  BY <1>1, <1>2, <1>3, <1>4 DEF Receiver

LEMMA LoseType == ASSUME TypeOK, Lose PROVE TypeOK'
<1>1. datagrams' \in Nets
  <2>1. PICK n, a, i :
          /\ n \in DOMAIN datagrams /\ a \in Agents /\ i \in DOMAIN datagrams[n][a]
          /\ datagrams' = Taken(n, a, i)
    BY DEF Lose
  <2>2. QED
    BY <2>1, TakesAre
<1>2. lost' \in 0 .. given.maxLost
  BY AgentsAre DEF Lose, TypeOK
<1>3. QED
  BY <1>1, <1>2 DEF Lose, TypeOK, serverVars, queueVars, workerVars, history

\* Every variable keeps its type; no count of retries passes its limit of
\* SUBCHANNEL_BITS bits into the one beside it (RoxiePacketHeader::retry,
\* throwRemoteException), and the worker has a packet while it is at work.
THEOREM TypeCorrect == Spec => []TypeOK
<1>1. TypeOK /\ [Next]_vars => TypeOK'
  <2> SUFFICES ASSUME TypeOK, [Next]_vars PROVE TypeOK'
    OBVIOUS
  <2>1. CASE UNCHANGED vars
    BY <2>1 DEF TypeOK, vars, serverVars, netVars, queueVars, workerVars, history
  <2>2. QED
    BY <2>1, RetryPendingType, GetNextUnpackerType, WorkerType, ReceiverType, LoseType
    DEF Next, ServerSteps
<1>2. QED
  BY <1>1, TypeInit, PTL DEF Spec
-----------------------------------------------------------------------------
(* What a step adds to the network.                                        *)

LEMMA CarriesWritten ==
  ASSUME NEW net \in Nets, NEW from \in Nodes, NEW to, NEW d \in Datagram,
         NEW n \in Nodes, NEW a \in Agents, NEW kind,
         Carries(Written(net, from, to, d), n, a, kind)
  PROVE  Carries(net, n, a, kind) \/ (n = from /\ a \in to /\ kind = d.kind)
<1>1. Written(net, from, to, d)[n][a] =
        IF n = from /\ a \in to THEN Append(net[n][a], d) ELSE net[n][a]
  BY WrittenIs
<1>2. net[n][a] \in Seq(Datagram)
  BY DEF Nets
<1>3. PICK i \in DOMAIN Written(net, from, to, d)[n][a] :
        Written(net, from, to, d)[n][a][i].kind = kind
  BY DEF Carries
<1>4. CASE n = from /\ a \in to
  <2> DEFINE q == net[n][a]
  <2>1. q \in Seq(Datagram) /\ i \in DOMAIN Append(q, d) /\ Append(q, d)[i].kind = kind
    BY <1>1, <1>2, <1>3, <1>4
  <2> HIDE DEF q
  <2>2. i = Len(q) + 1 => kind = d.kind
    BY <2>1
  <2>3. i # Len(q) + 1 => i \in DOMAIN q /\ q[i].kind = kind
    BY <2>1
  <2>4. QED
    BY <1>4, <2>2, <2>3 DEF q, Carries
<1>5. CASE ~(n = from /\ a \in to)
  <2>1. Written(net, from, to, d)[n][a] = net[n][a]
    BY <1>1, <1>5
  <2>2. QED
    BY <1>3, <2>1 DEF Carries
<1>6. QED
  BY <1>4, <1>5

LEMMA InTransitNext ==
  \A n \in Nodes, a \in Agents, kind \in {"request", "ibyti", "abort"} :
    InTransit(n, a, kind)' <=> Carries(datagrams', n, a, kind)
BY DEF InTransit, Carries

LEMMA CarriesTaken ==
  ASSUME TypeOK, NEW m \in Nodes, NEW b \in Agents, NEW i \in DOMAIN datagrams[m][b],
         NEW n \in Nodes, NEW a \in Agents, NEW kind, Carries(Taken(m, b, i), n, a, kind)
  PROVE  InTransit(n, a, kind)
<1>1. datagrams \in Nets /\ datagrams[m][b] \in Seq(Datagram) /\ i \in 1 .. Len(datagrams[m][b])
  BY DEF TypeOK, Nets
<1>2. Taken(m, b, i)[n][a] =
        IF n = m /\ a = b THEN RemoveAt(datagrams[m][b], i) ELSE datagrams[n][a]
  BY <1>1, TakenIs
<1>3. PICK j \in DOMAIN Taken(m, b, i)[n][a] : Taken(m, b, i)[n][a][j].kind = kind
  BY DEF Carries
<1>4. CASE n = m /\ a = b
  <2> DEFINE q == datagrams[m][b]
  <2>1. q \in Seq(Datagram) /\ i \in 1 .. Len(q) /\ j \in DOMAIN RemoveAt(q, i)
        /\ RemoveAt(q, i)[j].kind = kind
    BY <1>1, <1>2, <1>3, <1>4
  <2> HIDE DEF q
  <2>2. /\ DOMAIN RemoveAt(q, i) = 1 .. Len(q) - 1
        /\ \A k \in 1 .. Len(q) - 1 : RemoveAt(q, i)[k] = q[IF k < i THEN k ELSE k + 1]
    BY <2>1, RemoveAtElements
  <2>3. DOMAIN q = 1 .. Len(q) /\ Len(q) \in Nat
    BY <2>1
  <2>4. (IF j < i THEN j ELSE j + 1) \in DOMAIN q
    BY <2>1, <2>2, <2>3
  <2>5. q[IF j < i THEN j ELSE j + 1].kind = kind
    BY <2>1, <2>2
  <2>6. QED
    BY <1>4, <2>4, <2>5 DEF q, InTransit, Carries
<1>5. CASE ~(n = m /\ a = b)
  BY <1>2, <1>3, <1>5 DEF InTransit, Carries
<1>6. QED
  BY <1>4, <1>5

\* Aborts are written only by a step that gives the request a result, IBYTIs only
\* by an agent, to the others.
LEMMA ServerAdds ==
  ASSUME TypeOK, ServerSteps, NEW n \in Nodes, NEW a \in Agents, NEW kind,
         kind \in {"ibyti", "abort"}, InTransit(n, a, kind)'
  PROVE  InTransit(n, a, kind) \/ (kind = "abort" /\ result' # "none")
<1>1. \/ UNCHANGED datagrams
      \/ \E r \in Retries : datagrams' = Offered(datagrams, Server, r)
      \/ datagrams' = Written(datagrams, Server, Agents, Abort) /\ result' # "none"
  <2>1. Retried \in Retries
    BY RetriedIs DEF TypeOK
  <2>2. CASE RetryPending
    BY <2>1, <2>2 DEF RetryPending
  <2>3. CASE GetNextUnpacker
    BY <2>3 DEF GetNextUnpacker
  <2>4. QED
    BY <2>2, <2>3 DEF ServerSteps
<1>2. CASE UNCHANGED datagrams
  BY <1>2, InTransitNext DEF InTransit
<1>3. ASSUME NEW r \in Retries, datagrams' = Offered(datagrams, Server, r)
      PROVE  InTransit(n, a, kind)
  <2>1. Carries(Offered(datagrams, Server, r), n, a, kind)
    BY <1>3, InTransitNext
  <2>2. Request(r) \in Datagram /\ Request(r).kind = "request" /\ datagrams \in Nets
    BY DatagramsAre DEF TypeOK
  <2>3. Carries(datagrams, n, a, kind)
    BY <2>1, <2>2, CarriesWritten, AgentsAre DEF Offered
  <2>4. QED
    BY <2>3 DEF InTransit
<1>4. CASE datagrams' = Written(datagrams, Server, Agents, Abort) /\ result' # "none"
  <2>1. Carries(Written(datagrams, Server, Agents, Abort), n, a, kind)
    BY <1>4, InTransitNext
  <2>2. QED
    BY <1>4, <2>1, CarriesWritten, DatagramsAre, AgentsAre DEF TypeOK, InTransit
<1>5. QED
  BY <1>1, <1>2, <1>3, <1>4

LEMMA IbytiAdds ==
  ASSUME NEW net \in Nets, NEW b \in Agents, NEW n \in Nodes, NEW a \in Agents, NEW kind,
         Carries(WithIbyti(net, b), n, a, kind)
  PROVE  Carries(net, n, a, kind) \/ (n = b /\ a # b /\ kind = "ibyti")
BY CarriesWritten, DatagramsAre, AgentsAre DEF WithIbyti

\* What a step may do to the network, but for writing requests.
WritesIbyti(a) ==
  \A n \in Nodes, b \in Agents :
    /\ InTransit(n, b, "ibyti")' => InTransit(n, b, "ibyti") \/ n = a
    /\ InTransit(n, b, "abort")' => InTransit(n, b, "abort")

WritesNone ==
  \A n \in Nodes, b \in Agents, kind \in {"ibyti", "abort"} :
    InTransit(n, b, kind)' => InTransit(n, b, kind)

LEMMA WorkerAdds ==
  ASSUME TypeOK, NEW a \in Agents, Worker(a)
  PROVE  (SendIbyti(a) /\ WritesIbyti(a)) \/ (~SendIbyti(a) /\ WritesNone)
<1>1. CASE SendIbyti(a)
  <2>1. datagrams \in Nets /\ datagrams' = WithIbyti(datagrams, a)
    BY <1>1 DEF SendIbyti, TypeOK
  <2>2. \A n \in Nodes, b \in Agents, kind \in {"ibyti", "abort"} :
          InTransit(n, b, kind)' => InTransit(n, b, kind) \/ (n = a /\ kind = "ibyti")
    BY <2>1, IbytiAdds, InTransitNext DEF InTransit
  <2>3. QED
    BY <1>1, <2>2 DEF WritesIbyti
<1>2. CASE ~SendIbyti(a)
  <2>1. CASE ThrowRemoteException(a)
    <3> DEFINE failed == [packet[a] EXCEPT ![a] = Mask]
    <3>1. failed \in Retries
      <4>1. packet[a] \in Retries
        BY <2>1 DEF ThrowRemoteException, EndActivity, Step, TypeOK
      <4>2. Mask \in 0 .. Mask
        BY AgentsAre
      <4>3. QED
        BY <4>1, <4>2 DEF Retries
    <3>2. datagrams' = Written(datagrams, a, {b \in Agents : failed[b] # Mask}, Request(failed))
      BY <2>1 DEF ThrowRemoteException, Offered
    <3> HIDE DEF failed
    <3>3. Request(failed) \in Datagram /\ Request(failed).kind = "request" /\ a \in Nodes
      BY <3>1, DatagramsAre, AgentsAre
    <3>4. QED
      BY <1>2, <3>2, <3>3, CarriesWritten, InTransitNext DEF TypeOK, WritesNone, InTransit
  <2>2. CASE ~ThrowRemoteException(a)
    <3>1. UNCHANGED datagrams
      BY <1>2, <2>2 DEF Worker, Dequeue, SetPacket, Launch, Process, ClearPacket, netVars
    <3>2. QED
      BY <1>2, <3>1, InTransitNext DEF WritesNone, InTransit
  <2>3. QED
    BY <2>1, <2>2
<1>3. QED
  BY <1>1, <1>2

\* An agent that gets the request again tells the others, if it has it.
Answers(a) == Matches(a) \/ ReplyPending(a)

LEMMA ReceiverAdds ==
  ASSUME TypeOK, NEW a \in Agents, Receiver(a)
  PROVE  \/ /\ WritesNone
            /\ ReceiveRequest(a) => orphan[a] \/ \E r \in Retries : QueueRequest(a, r)
         \/ /\ ReceiveRequest(a) /\ Answers(a) /\ WritesIbyti(a)
            /\ claimed' = (claimed \/ ~HasOrHad(a))
<1>1. CASE ReceiveRequest(a)
  <2>1. PICK n \in DOMAIN datagrams : \E i \in DOMAIN datagrams[n][a] :
          /\ datagrams[n][a][i].kind = "request"
          /\ \/ /\ orphan[a] \/ QueueRequest(a, datagrams[n][a][i].retries)
                /\ datagrams' = Taken(n, a, i)
             \/ /\ Answers(a) /\ datagrams' = WithIbyti(Taken(n, a, i), a)
                /\ claimed' = (claimed \/ ~HasOrHad(a))
    BY <1>1 DEF ReceiveRequest, Received, Answers
  <2>2. PICK i \in DOMAIN datagrams[n][a] :
          /\ datagrams[n][a][i].kind = "request"
          /\ \/ /\ orphan[a] \/ QueueRequest(a, datagrams[n][a][i].retries)
                /\ datagrams' = Taken(n, a, i)
             \/ /\ Answers(a) /\ datagrams' = WithIbyti(Taken(n, a, i), a)
                /\ claimed' = (claimed \/ ~HasOrHad(a))
    BY <2>1
  <2>3. /\ n \in Nodes /\ Taken(n, a, i) \in Nets
        /\ datagrams[n][a][i].retries \in Retries
    BY <2>2, TakesAre, DatagramsAre
  <2>4. \A m \in Nodes, b \in Agents, kind \in {"ibyti", "abort"} :
          Carries(Taken(n, a, i), m, b, kind) => InTransit(m, b, kind)
    BY <2>3, CarriesTaken
  <2>5. CASE /\ orphan[a] \/ QueueRequest(a, datagrams[n][a][i].retries)
             /\ datagrams' = Taken(n, a, i)
    BY <2>3, <2>4, <2>5, InTransitNext DEF WritesNone
  <2>6. CASE /\ Answers(a) /\ datagrams' = WithIbyti(Taken(n, a, i), a)
             /\ claimed' = (claimed \/ ~HasOrHad(a))
    <3>1. \A m \in Nodes, b \in Agents, kind \in {"ibyti", "abort"} :
            Carries(WithIbyti(Taken(n, a, i), a), m, b, kind) =>
              InTransit(m, b, kind) \/ (m = a /\ kind = "ibyti")
      BY <2>3, <2>4, IbytiAdds
    <3>2. QED
      BY <1>1, <2>6, <3>1, InTransitNext DEF WritesIbyti
  <2>7. QED
    BY <2>2, <2>5, <2>6
<1>2. CASE DoIbyti(a) /\ ~ReceiveRequest(a)
  <2>1. PICK n \in DOMAIN datagrams : \E i \in DOMAIN datagrams[n][a] :
          datagrams' = Taken(n, a, i)
    BY <1>2 DEF DoIbyti, Received
  <2>2. PICK i \in DOMAIN datagrams[n][a] : datagrams' = Taken(n, a, i)
    BY <2>1
  <2>3. n \in Nodes
    BY TakesAre
  <2>4. WritesNone
    BY <2>2, <2>3, CarriesTaken, InTransitNext DEF WritesNone
  <2>5. QED
    BY <1>2, <2>4
<1>3. CASE (CheckExpired(a) \/ OrphanExpires(a)) /\ ~ReceiveRequest(a)
  BY <1>3, InTransitNext DEF CheckExpired, OrphanExpires, netVars, WritesNone, InTransit
<1>4. QED
  BY <1>1, <1>2, <1>3 DEF Receiver

LEMMA LoseAdds == ASSUME TypeOK, Lose PROVE WritesNone
<1>1. PICK n \in DOMAIN datagrams, a \in Agents : \E i \in DOMAIN datagrams[n][a] :
        datagrams' = Taken(n, a, i)
  BY DEF Lose
<1>2. PICK i \in DOMAIN datagrams[n][a] : datagrams' = Taken(n, a, i)
  BY <1>1
<1>3. n \in Nodes
  BY TakesAre
<1>4. QED
  BY <1>2, <1>3, CarriesTaken, InTransitNext DEF WritesNone
-----------------------------------------------------------------------------
(* The invariant, a conjunct at a time.                                    *)

LEMMA ReplyKindsAre == {"alive", "data", "exception"} = ReplyKinds
BY DEF ReplyKinds

LEMMA StepsAre ==
  ASSUME Next
  PROVE  ServerSteps \/ Lose \/ \E a \in Agents : Worker(a) \/ Receiver(a)
BY DEF Next

\* A result is never taken back.
LEMMA ResultIsFinal ==
  ASSUME TypeOK, Next
  PROVE  /\ result' # result => ServerSteps /\ result = "none"
         /\ ~ServerSteps => UNCHANGED <<retries, acknowledged, result, resends>>
<1>1. CASE ServerSteps
  BY <1>1 DEF ServerSteps, RetryPending, GetNextUnpacker
<1>2. CASE Lose
  BY <1>2 DEF Lose, serverVars
<1>3. ASSUME NEW a \in Agents, Worker(a) PROVE UNCHANGED serverVars
  BY <1>3 DEF Worker, Dequeue, SetPacket, Launch, SendIbyti, Process, ThrowRemoteException,
              ClearPacket, EndActivity, Step
<1>4. ASSUME NEW a \in Agents, Receiver(a) PROVE UNCHANGED serverVars
  BY <1>4 DEF Receiver, ReceiveRequest, DoIbyti, CheckExpired, OrphanExpires
<1>5. QED
  BY <1>1, <1>2, <1>3, <1>4, StepsAre DEF serverVars

LEMMA FlagsInUseNext == ASSUME TypeOK, FlagsInUse, Next PROVE FlagsInUse'
<1> USE DEF FlagsInUse
<1>1. CASE ServerSteps
  BY <1>1 DEF ServerSteps, RetryPending, GetNextUnpacker, workerVars
<1>2. CASE Lose
  BY <1>2 DEF Lose, workerVars
<1>3. ASSUME NEW a \in Agents, Worker(a) PROVE FlagsInUse'
  <2> USE DEF Step, EndActivity, TypeOK
  <2>1. CASE Dequeue(a)
    BY <2>1 DEF Dequeue
  <2>2. CASE SetPacket(a)
    BY <2>2 DEF SetPacket
  <2>3. CASE Launch(a)
    BY <2>3 DEF Launch
  <2>4. CASE SendIbyti(a)
    BY <2>4 DEF SendIbyti
  <2>5. CASE Process(a)
    BY <2>5 DEF Process
  <2>6. CASE ThrowRemoteException(a)
    BY <2>6 DEF ThrowRemoteException
  <2>7. CASE ClearPacket(a)
    BY <2>7 DEF ClearPacket
  <2>8. QED
    BY <1>3, <2>1, <2>2, <2>3, <2>4, <2>5, <2>6, <2>7 DEF Worker
<1>4. ASSUME NEW a \in Agents, Receiver(a) PROVE FlagsInUse'
  BY <1>4 DEF Receiver, ReceiveRequest, DoIbyti, CheckExpired, OrphanExpires, CheckAbort,
              HasActivity, workerVars, TypeOK
<1>5. QED
  BY <1>1, <1>2, <1>3, <1>4, StepsAre

\* No step but the server's writes an abort.
LEMMA AbortsAreFinalNext == ASSUME TypeOK, AbortsAreFinal, Next PROVE AbortsAreFinal'
<1> SUFFICES ASSUME NEW n \in Nodes, NEW a \in Agents, InTransit(n, a, "abort")'
             PROVE  result' # "none"
  BY DEF AbortsAreFinal
<1>1. InTransit(n, a, "abort") \/ result' # "none"
  <2>1. CASE ServerSteps
    BY <2>1, ServerAdds
  <2>2. CASE Lose
    BY <2>2, LoseAdds DEF WritesNone
  <2>3. ASSUME NEW b \in Agents, Worker(b) PROVE InTransit(n, a, "abort")
    BY <2>3, WorkerAdds DEF WritesNone, WritesIbyti
  <2>4. ASSUME NEW b \in Agents, Receiver(b) PROVE InTransit(n, a, "abort")
    BY <2>4, ReceiverAdds DEF WritesNone, WritesIbyti
  <2>5. QED
    BY <2>1, <2>2, <2>3, <2>4, StepsAre
<1>2. QED
  BY <1>1, ResultIsFinal DEF AbortsAreFinal

\* A reply is read.
LEMMA ReadIs ==
  ASSUME TypeOK, GetNextUnpacker
  PROVE  \E a \in Agents, kind \in ReplyKinds :
           /\ Replied(a, kind)
           /\ \A b \in Agents, k \in ReplyKinds :
                /\ Replied(b, k)' => Replied(b, k)
                /\ Replied(b, k) => Replied(b, k)' \/ (b = a /\ k = kind)
           /\ \/ result # "none" /\ UNCHANGED <<retries, acknowledged, result, noted>>
              \/ /\ result = "none" /\ kind = "alive" /\ acknowledged' = TRUE
                 /\ retries' = [retries EXCEPT ![a] = 0]
                 /\ noted' = IF noted = "exception" THEN "alive" ELSE noted
                 /\ UNCHANGED result
              \/ /\ result = "none" /\ kind = "exception"
                 /\ retries' = NoteException(a)
                 /\ noted' = IF noted = "none" THEN "exception" ELSE noted
                 /\ \/ AllChannelsFailed(NoteException(a)) /\ result' = "exception"
                    \/ acknowledged' = FALSE /\ UNCHANGED result
              \/ /\ result = "none" /\ kind = "data" /\ result' = "answer"
                 /\ UNCHANGED <<retries, acknowledged, noted>>
<1>1. PICK a \in Agents, kind \in ReplyKinds :
        /\ replies[a][kind] > 0
        /\ replies' = [replies EXCEPT ![a][kind] = @ - 1]
        /\ \/ result # "none" /\ UNCHANGED <<retries, acknowledged, result, noted>>
           \/ /\ result = "none" /\ kind = "alive" /\ acknowledged' = TRUE
              /\ retries' = [retries EXCEPT ![a] = 0]
              /\ noted' = IF noted = "exception" THEN "alive" ELSE noted
              /\ UNCHANGED result
           \/ /\ result = "none" /\ kind = "exception"
              /\ retries' = NoteException(a)
              /\ noted' = IF noted = "none" THEN "exception" ELSE noted
              /\ \/ AllChannelsFailed(NoteException(a)) /\ result' = "exception"
                 \/ acknowledged' = FALSE /\ UNCHANGED result
           \/ /\ result = "none" /\ kind = "data" /\ result' = "answer"
              /\ UNCHANGED <<retries, acknowledged, noted>>
  BY DEF GetNextUnpacker
<1>2. \A b \in Agents, k \in ReplyKinds :
        /\ replies[b][k] \in Nat
        /\ replies'[b][k] = IF b = a /\ k = kind THEN replies[b][k] - 1 ELSE replies[b][k]
  <2>1. replies \in [Agents -> [ReplyKinds -> Nat]]
    BY DEF TypeOK
  <2>2. QED
    BY <1>1, <2>1
<1>3. \A b \in Agents, k \in ReplyKinds :
        /\ Replied(b, k)' => Replied(b, k)
        /\ Replied(b, k) => Replied(b, k)' \/ (b = a /\ k = kind)
  BY <1>2 DEF Replied
<1>4. Replied(a, kind)
  BY <1>1 DEF Replied
<1>5. QED
  BY <1>1, <1>3, <1>4

\* A reply is sent by an activity that ends, or by the receiver.
LEMMA SendsAre ==
  ASSUME TypeOK, Lose \/ \E c \in Agents : Worker(c) \/ Receiver(c),
         NEW b \in Agents, NEW k \in ReplyKinds
  PROVE  /\ Replied(b, k) => Replied(b, k)'
         /\ k = "exception" /\ Replied(b, k)' => Replied(b, k) \/ ThrowRemoteException(b)
<1>1. CASE UNCHANGED replies
  BY <1>1 DEF Replied
<1>2. ASSUME NEW a \in Agents, NEW kind \in ReplyKinds, replies' = Sent(a, kind),
             kind = "exception" => ThrowRemoteException(a)
      PROVE  /\ Replied(b, k) => Replied(b, k)'
             /\ k = "exception" /\ Replied(b, k)' => Replied(b, k) \/ ThrowRemoteException(b)
  <2>1. /\ replies[b][k] \in Nat
        /\ replies'[b][k] = IF b = a /\ k = kind THEN replies[b][k] + 1 ELSE replies[b][k]
    BY <1>2, RepliesAre DEF TypeOK
  <2>2. QED
    BY <1>2, <2>1 DEF Replied
<1>3. CASE Lose
  BY <1>1, <1>3 DEF Lose
<1>4. ASSUME NEW a \in Agents, Worker(a)
      PROVE  UNCHANGED replies \/ replies' = Sent(a, "data")
             \/ (ThrowRemoteException(a) /\ replies' = Sent(a, "exception"))
  <2>1. CASE ThrowRemoteException(a)
    BY <2>1 DEF ThrowRemoteException
  <2>2. CASE ~ThrowRemoteException(a)
    BY <1>4, <2>2 DEF Worker, Dequeue, SetPacket, Launch, SendIbyti, Process, ClearPacket, netVars
  <2>3. QED
    BY <2>1, <2>2
<1>5. ASSUME NEW a \in Agents, Receiver(a)
      PROVE  UNCHANGED replies \/ replies' = Sent(a, "alive")
  BY <1>5 DEF Receiver, ReceiveRequest, DoIbyti, CheckExpired, OrphanExpires, netVars
<1>6. QED
  BY <1>1, <1>2, <1>3, <1>4, <1>5, ReplyKindsAre

LEMMA HistoryIs ==
  ASSUME TypeOK, Next
  PROVE  /\ threw \subseteq threw'
         /\ \A a \in Agents : ThrowRemoteException(a) => a \in threw'
         /\ claimed => claimed'
         /\ ~ServerSteps => UNCHANGED noted
         /\ threw' # threw => \E a \in Agents : ThrowRemoteException(a)
<1>1. \A a \in Agents : ThrowRemoteException(a) => a \in threw'
  BY DEF ThrowRemoteException
<1>2. CASE ServerSteps
  BY <1>1, <1>2 DEF ServerSteps, RetryPending, GetNextUnpacker, workerVars, history
<1>3. CASE Lose
  BY <1>1, <1>3 DEF Lose, workerVars, history
<1>4. ASSUME NEW a \in Agents, Worker(a)
      PROVE  UNCHANGED <<claimed, noted>> /\ (UNCHANGED threw \/ (ThrowRemoteException(a) /\ threw' = threw \cup {a}))
  <2>1. CASE ThrowRemoteException(a)
    BY <2>1 DEF ThrowRemoteException, history
  <2>2. CASE ~ThrowRemoteException(a)
    BY <1>4, <2>2 DEF Worker, Dequeue, SetPacket, Launch, SendIbyti, Process, ClearPacket, history
  <2>3. QED
    BY <2>1, <2>2
<1>5. ASSUME NEW a \in Agents, Receiver(a)
      PROVE  UNCHANGED <<threw, noted>> /\ (claimed => claimed')
  <2>1. CASE ReceiveRequest(a)
    <3>1. claimed' = claimed \/ claimed' = (claimed \/ ~HasOrHad(a))
      BY <2>1 DEF ReceiveRequest
    <3>2. UNCHANGED <<threw, noted>>
      BY <2>1 DEF ReceiveRequest, workerVars
    <3>3. claimed \in BOOLEAN
      BY DEF TypeOK
    <3>4. QED
      BY <3>1, <3>2, <3>3
  <2>2. CASE ~ReceiveRequest(a)
    <3>1. UNCHANGED <<threw, noted, claimed>>
      BY <1>5, <2>2 DEF Receiver, DoIbyti, CheckExpired, OrphanExpires, workerVars, history
    <3>2. QED
      BY <3>1
  <2>3. QED
    BY <2>1, <2>2
<1>6. QED
  BY <1>1, <1>2, <1>3, <1>4, <1>5, StepsAre

LEMMA ThrownIsReportedNext == ASSUME TypeOK, ThrownIsReported, Next PROVE ThrownIsReported'
<1>1. CASE GetNextUnpacker
  <2>1. PICK a \in Agents, kind \in ReplyKinds :
           /\ Replied(a, kind)
           /\ \A b \in Agents, k \in ReplyKinds :
                /\ Replied(b, k)' => Replied(b, k)
                /\ Replied(b, k) => Replied(b, k)' \/ (b = a /\ k = kind)
           /\ \/ result # "none" /\ UNCHANGED <<retries, acknowledged, result, noted>>
              \/ /\ result = "none" /\ kind = "alive" /\ acknowledged' = TRUE
                 /\ noted' = IF noted = "exception" THEN "alive" ELSE noted
                 /\ UNCHANGED result
              \/ /\ result = "none" /\ kind = "exception"
                 /\ noted' = IF noted = "none" THEN "exception" ELSE noted
                 /\ \/ result' = "exception"
                    \/ acknowledged' = FALSE /\ UNCHANGED result
              \/ /\ result = "none" /\ kind = "data" /\ result' = "answer"
                 /\ UNCHANGED <<retries, acknowledged, noted>>
    BY <1>1, ReadIs
  <2>2. \A b \in Agents : Replied(b, "exception")' => b \in threw'
    BY <1>1, <2>1, ReplyKindsAre DEF ThrownIsReported, GetNextUnpacker, workerVars
  <2>3. ASSUME threw' # {}, noted' = "none", result' = "none"
        PROVE  \E b \in Agents : Replied(b, "exception")'
    <3>1. kind # "exception" /\ noted = "none" /\ result = "none"
      BY <2>1, <2>3
    <3>2. threw # {}
      BY <1>1, <2>3 DEF GetNextUnpacker, workerVars
    <3>3. PICK b \in Agents : Replied(b, "exception")
      BY <3>1, <3>2 DEF ThrownIsReported
    <3>4. QED
      BY <2>1, <3>1, <3>3, ReplyKindsAre
  <2>4. noted' = "exception" /\ result' = "none" => ~acknowledged'
    BY <2>1 DEF ThrownIsReported
  <2>5. QED
    BY <2>2, <2>3, <2>4 DEF ThrownIsReported
<1>2. CASE RetryPending
  BY <1>2 DEF RetryPending, ThrownIsReported, Replied, workerVars, history
<1>3. CASE ~ServerSteps
  <2>1. UNCHANGED <<acknowledged, result, noted>>
    BY <1>3, ResultIsFinal, HistoryIs
  <2>2. \A b \in Agents : Replied(b, "exception")' => b \in threw'
    BY <1>3, SendsAre, StepsAre, HistoryIs, ReplyKindsAre DEF ThrownIsReported
  <2>3. ASSUME threw' # {}, noted' = "none", result' = "none"
        PROVE  \E b \in Agents : Replied(b, "exception")'
    <3>1. CASE threw # {}
      BY <1>3, <2>1, <2>3, <3>1, SendsAre, StepsAre, ReplyKindsAre DEF ThrownIsReported
    <3>2. CASE threw = {}
      <4>1. PICK b \in Agents : ThrowRemoteException(b)
        BY <2>3, <3>2, HistoryIs
      <4>2. replies' = Sent(b, "exception")
        BY <4>1 DEF ThrowRemoteException
      <4>3. replies[b]["exception"] \in Nat /\ replies'[b]["exception"] = replies[b]["exception"] + 1
        BY <4>2, RepliesAre, ReplyKindsAre DEF TypeOK
      <4>4. QED
        BY <4>3 DEF Replied
    <3>3. QED
      BY <3>1, <3>2
  <2>4. noted' = "exception" /\ result' = "none" => ~acknowledged'
    BY <2>1 DEF ThrownIsReported
  <2>5. QED
    BY <2>2, <2>3, <2>4 DEF ThrownIsReported
<1>4. QED
  BY <1>1, <1>2, <1>3 DEF ServerSteps

\* Each resend adds one to a count of retries at most; noteAlive makes it less.
LEMMA RetriesNext ==
  ASSUME TypeOK, ThrownIsReported, RetriesAreResends, FailsOnlyWhenAllFailed, Next
  PROVE  RetriesAreResends' /\ FailsOnlyWhenAllFailed'
<1>1. /\ threw \subseteq threw' /\ retries \in Retries /\ resends \in Nat /\ Mask \in Nat \ {0}
      /\ \A a \in Agents : retries[a] \in Nat
  <2>1. given.maxResends \in Nat /\ resends \in 0 .. given.maxResends
    BY AgentsAre DEF TypeOK
  <2>2. retries \in Retries /\ \A a \in Agents : retries[a] \in Nat
    BY DEF TypeOK, Retries
  <2>3. QED
    BY <2>1, <2>2, HistoryIs, AgentsAre
<1>2. CASE ~ServerSteps
  BY <1>1, <1>2, ResultIsFinal DEF RetriesAreResends, FailsOnlyWhenAllFailed
<1>3. CASE RetryPending
  <2>1. \A a \in Agents : Retried[a] <= retries[a] + 1
    BY <1>1 DEF Retried
  <2>2. /\ retries' = Retried /\ UNCHANGED threw /\ result = "none"
        /\ \/ /\ AllChannelsFailed(Retried) /\ result' = "error" /\ UNCHANGED resends
           \/ resends' = resends + 1 /\ UNCHANGED result
    BY <1>3 DEF RetryPending, workerVars
  <2>3. CASE AllChannelsFailed(Retried) /\ result' = "error" /\ UNCHANGED resends
    <3>1. \A a \in Agents \ threw : retries[a] <= resends /\ Mask <= retries[a] + 1
      BY <2>1, <2>2, <2>3 DEF AllChannelsFailed, RetriesAreResends
    <3>2. \A a \in Agents \ threw : resends >= Mask - 1
      BY <1>1, <3>1
    <3>3. QED
      BY <2>2, <2>3, <3>2 DEF RetriesAreResends, FailsOnlyWhenAllFailed
  <2>4. CASE resends' = resends + 1 /\ UNCHANGED result
    <3>1. \A a \in Agents \ threw : Retried[a] <= resends + 1
      <4> SUFFICES ASSUME NEW a \in Agents \ threw PROVE Retried[a] <= resends + 1
        OBVIOUS
      <4>1. retries[a] <= resends
        BY <2>2 DEF RetriesAreResends
      <4>2. Retried[a] \in Nat
        BY RetriedIs DEF TypeOK, Retries
      <4>3. QED
        BY <1>1, <2>1, <4>1, <4>2
    <3>2. QED
      BY <2>2, <2>4, <3>1 DEF RetriesAreResends, FailsOnlyWhenAllFailed
  <2>5. QED
    BY <2>2, <2>3, <2>4
<1>4. CASE GetNextUnpacker
  <2>1. UNCHANGED <<resends, threw>>
    BY <1>4 DEF GetNextUnpacker, workerVars
  <2>2. PICK a \in Agents, kind \in ReplyKinds :
           /\ Replied(a, kind)
           /\ \/ UNCHANGED <<retries, result>>
              \/ retries' = [retries EXCEPT ![a] = 0] /\ UNCHANGED result
              \/ /\ kind = "exception" /\ retries' = NoteException(a) /\ result = "none"
                 /\ \/ AllChannelsFailed(NoteException(a)) /\ result' = "exception"
                    \/ UNCHANGED result
              \/ result' = "answer"
    BY <1>4, ReadIs
  <2>3. CASE UNCHANGED <<retries, result>>
    BY <2>1, <2>3 DEF RetriesAreResends, FailsOnlyWhenAllFailed
  <2>4. CASE retries' = [retries EXCEPT ![a] = 0] /\ UNCHANGED result
    <3>1. \A b \in Agents : retries'[b] = IF b = a THEN 0 ELSE retries[b]
      BY <1>1, <2>4 DEF Retries
    <3>2. QED
      BY <1>1, <2>1, <2>4, <3>1 DEF RetriesAreResends, FailsOnlyWhenAllFailed
  <2>5. CASE /\ kind = "exception" /\ retries' = NoteException(a) /\ result = "none"
             /\ \/ AllChannelsFailed(NoteException(a)) /\ result' = "exception"
                \/ UNCHANGED result
    <3>1. a \in threw
      BY <2>2, <2>5 DEF ThrownIsReported
    <3>2. \A b \in Agents \ threw : retries'[b] = retries[b] /\ retries[b] <= resends
      BY <1>1, <2>5, <3>1 DEF NoteException, Retries, RetriesAreResends
    <3>3. AllChannelsFailed(NoteException(a)) => \A b \in Agents \ threw : Mask <= resends
      BY <2>5, <3>2 DEF AllChannelsFailed
    <3>4. RetriesAreResends'
      BY <2>1, <3>2 DEF RetriesAreResends
    <3>5. CASE UNCHANGED result
      BY <2>1, <2>5, <3>4, <3>5 DEF FailsOnlyWhenAllFailed
    <3>6. CASE AllChannelsFailed(NoteException(a)) /\ result' = "exception"
      BY <1>1, <2>1, <3>3, <3>4, <3>6 DEF FailsOnlyWhenAllFailed
    <3>7. QED
      BY <2>5, <3>5, <3>6
  <2>6. CASE result' = "answer"
    BY <2>6 DEF RetriesAreResends, FailsOnlyWhenAllFailed
  <2>7. QED
    BY <2>2, <2>3, <2>4, <2>5, <2>6
<1>5. QED
  BY <1>2, <1>3, <1>4 DEF ServerSteps

-----------------------------------------------------------------------------
(* Someone leads: as long as nobody has thrown or claimed wrongly, the       *)
(* request has not been dropped by all.                                      *)

NoTrouble == result = "none" /\ threw = {} /\ ~claimed

LEMMA NoTroubleBefore == ASSUME TypeOK, Next, NoTrouble' PROVE NoTrouble
BY ResultIsFinal, HistoryIs DEF NoTrouble

\* Neither the lead nor the request that has not been started is lost by a step
\* that leaves the workers and what they have sent as they are.
LEMMA LeadKept ==
  ASSUME NEW l \in Agents, Leads(l), WritesNone, UNCHANGED <<worker, aborted>>,
         Replied(l, "data") => Replied(l, "data")'
  PROVE  Leads(l)'
BY DEF Leads, WritesNone, Replied

LEMMA SomeoneLeadsServer ==
  ASSUME TypeOK, QueueInv, ServerSteps, NoTrouble', NoTrouble
  PROVE  Unstarted' \/ \E a \in Agents : Leads(a)'
<1>1. UNCHANGED <<queueVars, workerVars>>
  BY DEF ServerSteps, RetryPending, GetNextUnpacker
<1>2. \A n \in Nodes, b \in Agents : InTransit(n, b, "ibyti")' => InTransit(n, b, "ibyti")
  BY ServerAdds
<1>3. WritesNone
  BY <1>2, ServerAdds DEF WritesNone, NoTrouble
<1>4. \A a \in Agents : Replied(a, "data") => Replied(a, "data")'
  <2>1. CASE RetryPending
    BY <2>1 DEF RetryPending, Replied
  <2>2. CASE GetNextUnpacker
    BY <2>2, ReadIs, ReplyKindsAre DEF NoTrouble
  <2>3. QED
    BY <2>1, <2>2 DEF ServerSteps
<1>5. ASSUME NEW l \in Agents, Leads(l) PROVE Leads(l)'
  BY <1>1, <1>3, <1>4, <1>5, LeadKept DEF workerVars
<1>6. CASE Unstarted
  <2> DEFINE Someone == \E a \in Agents : delayed[a] # <<>> \/ waiting[a] # <<>> \/ worker[a] # "idle"
  <2>1. Silent' \/ Someone
    <3>1. CASE Someone
      BY <3>1
    <3>2. CASE Silent /\ RetryPending
      BY <3>2 DEF Silent, RetryPending, Unread, Replied
    <3>3. CASE Silent /\ GetNextUnpacker
      BY <3>3, ReadIs DEF Silent, Unread
    <3>4. QED
      BY <1>6, <3>1, <3>2, <3>3 DEF Unstarted, ServerSteps
  <2>2. Someone => Someone'
    BY <1>1 DEF queueVars, workerVars
  <2>3. QED
    BY <1>1, <1>2, <1>6, <2>1, <2>2 DEF Unstarted, queueVars, workerVars
<1>7. QED
  BY <1>5, <1>6 DEF QueueInv, SomeoneLeads, NoTrouble

LEMMA SomeoneLeadsLose ==
  ASSUME TypeOK, QueueInv, Lose, NoTrouble
  PROVE  Unstarted' \/ \E a \in Agents : Leads(a)'
<1>1. WritesNone /\ UNCHANGED <<serverVars, replies, queueVars, workerVars>>
  BY LoseAdds DEF Lose
<1>2. ASSUME NEW l \in Agents, Leads(l) PROVE Leads(l)'
  BY <1>1, <1>2, LeadKept DEF workerVars, Replied
<1>3. CASE Unstarted
  BY <1>1, <1>3 DEF WritesNone, Unstarted, Silent, Unread, Replied, serverVars, queueVars, workerVars
<1>4. QED
  BY <1>2, <1>3 DEF QueueInv, SomeoneLeads, NoTrouble

\* The worker that starts leads, unless the leader is more primary.
LEMMA SomeoneLeadsWorker ==
  ASSUME TypeOK, QueueInv, NEW a \in Agents, Worker(a), NoTrouble', NoTrouble
  PROVE  Unstarted' \/ \E l \in Agents : Leads(l)'
<1> DEFINE Someone == \E b \in Agents : delayed[b] # <<>> \/ waiting[b] # <<>> \/ worker[b] # "idle"
<1>1. /\ worker \in [Agents -> {"idle", "dequeued", "set", "launching", "running", "post"}]
      /\ aborted \in [Agents -> BOOLEAN] /\ abortLaunch \in [Agents -> BOOLEAN]
      /\ \A b \in Agents : b \in Int
      /\ FlagsInUse /\ (Unstarted \/ \E l \in Agents : Leads(l))
  BY DEF TypeOK, QueueInv, SomeoneLeads, NoTrouble, Agents
<1>2. CASE Dequeue(a) \/ SetPacket(a) \/ Launch(a) \/ ClearPacket(a)
  <2>1. /\ UNCHANGED <<datagrams, replies, acknowledged, orphan, aborted, delayed>>
        /\ WritesNone
        /\ \E to : worker' = [worker EXCEPT ![a] = to]
        /\ \A b \in Agents : abortLaunch'[b] => abortLaunch[b]
    <3>1. UNCHANGED <<datagrams, replies, acknowledged, orphan, aborted, delayed>>
      BY <1>2 DEF Dequeue, SetPacket, Launch, ClearPacket, serverVars, netVars, queueVars
    <3>2. \A b \in Agents : abortLaunch'[b] => abortLaunch[b]
      BY <1>1, <1>2 DEF Dequeue, SetPacket, Launch, ClearPacket
    <3>3. \E to : worker' = [worker EXCEPT ![a] = to]
      BY <1>2 DEF Dequeue, SetPacket, Launch, ClearPacket, Step
    <3>4. WritesNone
      BY <3>1, InTransitNext DEF WritesNone, InTransit
    <3>5. QED
      BY <3>1, <3>2, <3>3, <3>4
  <2>2. worker[a] \notin {"launching", "running"}
    BY <1>2 DEF Dequeue, SetPacket, Launch, ClearPacket, Step
  <2>3. ASSUME NEW l \in Agents, Leads(l) PROVE Leads(l)'
    <3>1. worker[l] \in {"launching", "running"} => worker'[l] = worker[l]
      BY <1>1, <2>1, <2>2
    <3>2. QED
      BY <2>1, <2>3, <3>1 DEF Leads, WritesNone, Replied
  <2>4. CASE Unstarted
    <3>1. worker'[a] \in {"dequeued", "set", "launching"}
      <4>1. ~ClearPacket(a) /\ ~abortLaunch[a]
        BY <2>4 DEF Unstarted, ClearPacket, Step
      <4>2. QED
        BY <1>1, <1>2, <4>1 DEF Dequeue, SetPacket, Launch, Step
    <3>2. \A b \in Agents : worker'[b] \in {"idle", "dequeued", "set", "launching"}
      BY <1>1, <2>1, <2>4, <3>1 DEF Unstarted
    <3>3. QED
      BY <2>1, <2>4, <3>1, <3>2 DEF Unstarted, WritesNone
  <2>5. QED
    BY <1>1, <2>3, <2>4
<1>3. CASE SendIbyti(a)
  <2>1. /\ worker[a] = "launching" /\ worker' = [worker EXCEPT ![a] = "running"]
        /\ UNCHANGED <<replies, aborted>>
        /\ \A n \in Nodes, b \in Agents : InTransit(n, b, "ibyti")' => InTransit(n, b, "ibyti") \/ n = a
    <3>1. WritesIbyti(a)
      BY <1>3, WorkerAdds
    <3>2. QED
      BY <1>3, <3>1 DEF SendIbyti, Step, WritesIbyti
  <2>2. worker'[a] = "running" /\ ~aborted'[a]
    BY <1>1, <2>1 DEF FlagsInUse
  <2>3. CASE Unstarted
    <3>1. \A b \in Agents : ~aborted'[b]
      BY <1>1, <2>1, <2>3 DEF Unstarted, FlagsInUse
    <3>2. \A n \in Nodes, b \in Agents : InTransit(n, b, "ibyti")' => n = a
      BY <2>1, <2>3 DEF Unstarted
    <3>3. Leads(a)'
      BY <1>1, <2>2, <3>1, <3>2 DEF Leads
    <3>4. QED
      BY <3>3
  <2>4. ASSUME NEW l \in Agents, Leads(l), a < l PROVE Leads(a)'
    <3>1. \A b \in Agents : aborted'[b] => a < b
      BY <1>1, <2>1, <2>4 DEF Leads
    <3>2. \A n \in Nodes, b \in Agents : InTransit(n, b, "ibyti")' => n \in Agents /\ a <= n
      BY <1>1, <2>1, <2>4 DEF Leads
    <3>3. QED
      BY <2>2, <3>1, <3>2 DEF Leads
  <2>5. ASSUME NEW l \in Agents, Leads(l), ~(a < l) PROVE Leads(l)'
    <3>1. \A n \in Nodes, b \in Agents : InTransit(n, b, "ibyti")' => n \in Agents /\ l <= n
      BY <1>1, <2>1, <2>5 DEF Leads
    <3>2. worker'[l] \in {"launching", "running"} \/ Replied(l, "data")'
      BY <1>1, <2>1, <2>5 DEF Leads, Replied
    <3>3. worker'[l] = "running" => ~aborted'[l] \/ Replied(l, "data")'
      BY <1>1, <2>1, <2>2, <2>5 DEF Leads, Replied
    <3>4. QED
      BY <2>1, <2>5, <3>1, <3>2, <3>3 DEF Leads
  <2>6. QED
    BY <1>1, <2>3, <2>4, <2>5
<1>4. CASE Process(a)
  <2>1. /\ worker[a] = "running" /\ worker' = [worker EXCEPT ![a] = "post"]
        /\ aborted' = [aborted EXCEPT ![a] = FALSE] /\ UNCHANGED datagrams
        /\ replies' = Sent(a, "data") \/ (aborted[a] /\ UNCHANGED replies)
    BY <1>4 DEF Process, EndActivity, Step
  <2>2. ~Unstarted
    BY <2>1 DEF Unstarted
  <2>3. \A b \in Agents : aborted'[b] => aborted[b]
    BY <1>1, <2>1
  <2>4. WritesNone
    BY <2>1, InTransitNext DEF WritesNone, InTransit
  <2>5. ASSUME NEW l \in Agents, Leads(l) PROVE Leads(l)'
    <3>1. Replied(l, "data") => Replied(l, "data")'
      <4>1. CASE UNCHANGED replies
        BY <4>1 DEF Replied
      <4>2. CASE replies' = Sent(a, "data")
        <5>1. /\ replies[l]["data"] \in Nat
              /\ replies'[l]["data"] = IF l = a THEN replies[l]["data"] + 1 ELSE replies[l]["data"]
          BY <4>2, RepliesAre, ReplyKindsAre DEF TypeOK
        <5>2. QED
          BY <5>1 DEF Replied
      <4>3. QED
        BY <2>1, <4>1, <4>2
    <3>2. CASE l # a
      <4>1. worker'[l] = worker[l] /\ aborted'[l] = aborted[l]
        BY <1>1, <2>1, <3>2
      <4>2. QED
        BY <2>3, <2>4, <2>5, <3>1, <4>1 DEF Leads, WritesNone
    <3>3. CASE l = a
      <4>1. Replied(a, "data")'
        <5>1. CASE replies' = Sent(a, "data")
          <6>1. replies[a]["data"] \in Nat /\ replies'[a]["data"] = replies[a]["data"] + 1
            BY <5>1, RepliesAre, ReplyKindsAre DEF TypeOK
          <6>2. QED
            BY <6>1 DEF Replied
        <5>2. CASE aborted[a] /\ UNCHANGED replies
          BY <2>1, <2>5, <3>1, <3>3, <5>2 DEF Leads
        <5>3. QED
          BY <2>1, <5>1, <5>2
      <4>2. QED
        BY <2>3, <2>4, <2>5, <3>3, <4>1 DEF Leads, WritesNone
    <3>4. QED
      BY <3>2, <3>3
  <2>6. QED
    BY <1>1, <2>2, <2>5
<1>5. CASE ThrowRemoteException(a)
  BY <1>5, HistoryIs DEF NoTrouble, ThrowRemoteException
<1>6. QED
  BY <1>2, <1>3, <1>4, <1>5 DEF Worker

\* A queued request is one that somebody has.
LEMMA QueueRequestQueues ==
  ASSUME TypeOK, NEW a \in Agents, NEW r \in Retries, QueueRequest(a, r)
  PROVE  /\ delayed'[a] # <<>> \/ waiting'[a] # <<>>
         /\ \A b \in Agents : (delayed[b] # <<>> => delayed'[b] # <<>>)
                              /\ (waiting[b] # <<>> => waiting'[b] # <<>>)
<1>1. \A q \in Seq(Retries) : Append(q, r) # <<>>
  <2>1. \A q \in Seq(Retries) : Len(Append(q, r)) = Len(q) + 1 /\ Len(q) \in Nat
    BY AppendProperties
  <2>2. QED
    BY <2>1, EmptySeq
<1>2. delayed \in [Agents -> Seq(Retries)] /\ waiting \in [Agents -> Seq(Retries)]
  BY DEF TypeOK
<1>3. \/ delayed' = [delayed EXCEPT ![a] = Append(delayed[a], r)] /\ UNCHANGED waiting
      \/ waiting' = [waiting EXCEPT ![a] = Append(waiting[a], r)] /\ UNCHANGED delayed
      \/ waiting[a] # <<>> /\ UNCHANGED <<delayed, waiting>>
  BY <1>2 DEF QueueRequest
<1>4. QED
  BY <1>1, <1>2, <1>3

\* An IBYTI stops only an activity that the leader is more primary than.
LEMMA SomeoneLeadsDoIbyti ==
  ASSUME TypeOK, QueueInv, NEW a \in Agents, DoIbyti(a), WritesNone, NoTrouble', NoTrouble
  PROVE  \E l \in Agents : Leads(l)'
<1>1. PICK n \in DOMAIN datagrams : \E i \in DOMAIN datagrams[n][a] :
        /\ datagrams[n][a][i].kind \in {"ibyti", "abort"}
        /\ aborted' = aborted \/ CheckAbort(a, datagrams[n][a][i].kind = "ibyti", n)
  BY DEF DoIbyti, Received
<1>2. PICK i \in DOMAIN datagrams[n][a] :
        /\ datagrams[n][a][i].kind \in {"ibyti", "abort"}
        /\ aborted' = aborted \/ CheckAbort(a, datagrams[n][a][i].kind = "ibyti", n)
  BY <1>1
<1>3. InTransit(n, a, "ibyti") /\ datagrams[n][a][i].kind = "ibyti"
  <2>1. n \in Nodes
    BY TakesAre
  <2>2. InTransit(n, a, datagrams[n][a][i].kind)
    BY DEF InTransit, Carries
  <2>3. QED
    BY <1>2, <2>1, <2>2 DEF QueueInv, AbortsAreFinal, NoTrouble
<1>4. PICK l \in Agents : Leads(l)
  BY <1>3, TakesAre DEF QueueInv, SomeoneLeads, NoTrouble, Unstarted
<1>5. n \in Agents /\ l <= n
  BY <1>3, <1>4, TakesAre DEF Leads
<1>6. /\ \A b \in Agents : b \in Int
      /\ aborted \in [Agents -> BOOLEAN]
      /\ UNCHANGED <<worker, replies>>
  BY DEF TypeOK, DoIbyti, Agents
<1>7. \A b \in Agents : aborted'[b] => aborted[b] \/ (b = a /\ n < a)
  BY <1>2, <1>3, <1>6 DEF CheckAbort, GivesWay
<1>8. \A b \in Agents : aborted'[b] => l < b
  BY <1>4, <1>5, <1>6, <1>7 DEF Leads
<1>9. ~aborted'[l]
  BY <1>6, <1>8
<1>10. Leads(l)'
  BY <1>4, <1>6, <1>8, <1>9 DEF Leads, WritesNone, Replied
<1>11. QED
  BY <1>10

\* An agent that answers a retry with an IBYTI leads, unless the leader is more
\* primary.
LEMMA SomeoneLeadsAnswer ==
  ASSUME TypeOK, QueueInv, NEW a \in Agents, ReceiveRequest(a), Answers(a), WritesIbyti(a),
         HasOrHad(a), NoTrouble
  PROVE  \E l \in Agents : Leads(l)'
<1>1. /\ UNCHANGED <<worker, aborted>> /\ (Replied(a, "data") => Replied(a, "data")')
      /\ \A b \in Agents : b \in Int
      /\ FlagsInUse /\ (Unstarted \/ \E l \in Agents : Leads(l))
  BY SendsAre, ReplyKindsAre
  DEF Receiver, ReceiveRequest, workerVars, QueueInv, SomeoneLeads, NoTrouble, Agents
<1>2. /\ worker[a] \in {"launching", "running"} \/ Replied(a, "data")
      /\ \A n \in Nodes, b \in Agents : InTransit(n, b, "ibyti")' => InTransit(n, b, "ibyti") \/ n = a
  BY DEF Answers, Matches, HasOrHad, ReplyPending, Replied, WritesIbyti, TypeOK
<1>3. CASE Unstarted
  <2>1. \A b \in Agents : ~aborted'[b]
    BY <1>1, <1>3 DEF Unstarted, FlagsInUse
  <2>2. \A n \in Nodes, b \in Agents : InTransit(n, b, "ibyti")' => n = a
    BY <1>2, <1>3 DEF Unstarted
  <2>3. Leads(a)'
    BY <1>1, <1>2, <1>3, <2>1, <2>2 DEF Leads, Unstarted
  <2>4. QED
    BY <2>3
<1>4. ASSUME NEW l \in Agents, Leads(l), a < l PROVE Leads(a)'
  <2>1. \A b \in Agents : aborted'[b] => a < b
    BY <1>1, <1>4 DEF Leads
  <2>2. \A n \in Nodes, b \in Agents : InTransit(n, b, "ibyti")' => n \in Agents /\ a <= n
    BY <1>1, <1>2, <1>4 DEF Leads
  <2>3. ~aborted'[a]
    BY <1>1, <2>1
  <2>4. QED
    BY <1>1, <1>2, <2>1, <2>2, <2>3 DEF Leads
<1>5. ASSUME NEW l \in Agents, Leads(l), ~(a < l) PROVE Leads(l)'
  <2>1. \A n \in Nodes, b \in Agents : InTransit(n, b, "ibyti")' => n \in Agents /\ l <= n
    BY <1>1, <1>2, <1>5 DEF Leads
  <2>2. Replied(l, "data") => Replied(l, "data")'
    BY SendsAre, ReplyKindsAre DEF Receiver
  <2>3. QED
    BY <1>1, <1>5, <2>1, <2>2 DEF Leads
<1>6. QED
  BY <1>1, <1>3, <1>4, <1>5

LEMMA SomeoneLeadsReceiver ==
  ASSUME TypeOK, QueueInv, NEW a \in Agents, Receiver(a), NoTrouble', NoTrouble
  PROVE  Unstarted' \/ \E l \in Agents : Leads(l)'
<1>1. CASE /\ ReceiveRequest(a) /\ Answers(a) /\ WritesIbyti(a)
           /\ claimed' = (claimed \/ ~HasOrHad(a))
  <2>1. HasOrHad(a)
    BY <1>1 DEF NoTrouble
  <2>2. QED
    BY <1>1, <2>1, SomeoneLeadsAnswer
<1>2. CASE WritesNone /\ DoIbyti(a)
  BY <1>2, SomeoneLeadsDoIbyti
<1>3. CASE /\ WritesNone /\ ~DoIbyti(a)
           /\ ReceiveRequest(a) => orphan[a] \/ \E r \in Retries : QueueRequest(a, r)
  <2>1. /\ UNCHANGED <<worker, aborted, abortLaunch, acknowledged>>
        /\ \A b \in Agents : orphan'[b] => orphan[b]
    BY <1>3 DEF Receiver, ReceiveRequest, CheckExpired, OrphanExpires, workerVars, serverVars, TypeOK
  <2>2. ASSUME NEW l \in Agents, Leads(l) PROVE Leads(l)'
    <3>1. Replied(l, "data") => Replied(l, "data")'
      BY SendsAre, ReplyKindsAre
    <3>2. QED
      BY <1>3, <2>1, <2>2, <3>1, LeadKept
  <2>3. CASE Unstarted
    <3>1. delayed'[a] # <<>> \/ waiting'[a] # <<>>
      <4>1. CASE CheckExpired(a)
        <5>1. /\ delayed[a] \in Seq(Retries) /\ delayed[a] # <<>> /\ waiting \in [Agents -> Seq(Retries)]
              /\ waiting' = [waiting EXCEPT ![a] = Append(waiting[a], Head(delayed[a]))]
          BY <4>1 DEF CheckExpired, TypeOK
        <5>2. Len(Append(waiting[a], Head(delayed[a]))) = Len(waiting[a]) + 1 /\ Len(waiting[a]) \in Nat
          BY <5>1, AppendProperties
        <5>3. QED
          BY <5>1, <5>2, EmptySeq
      <4>2. CASE ReceiveRequest(a)
        BY <1>3, <2>3, <4>2, QueueRequestQueues DEF Unstarted
      <4>3. ~OrphanExpires(a)
        BY <2>3 DEF Unstarted, OrphanExpires
      <4>4. QED
        BY <1>3, <4>1, <4>2, <4>3 DEF Receiver
    <3>2. QED
      BY <1>3, <2>1, <2>3, <3>1 DEF Unstarted, WritesNone
  <2>4. QED
    BY <2>2, <2>3 DEF QueueInv, SomeoneLeads, NoTrouble
<1>4. QED
  BY <1>1, <1>2, <1>3, ReceiverAdds

-----------------------------------------------------------------------------
(* The theorems.                                                           *)

LEMMA QueueInvInit == Init => QueueInv
<1> SUFFICES ASSUME Init PROVE QueueInv
  OBVIOUS
<1>1. \A n \in Nodes, a \in Agents, kind \in {"ibyti", "abort"} : ~InTransit(n, a, kind)
  <2>1. NoRetries \in Retries /\ Quiet \in Nets /\ Server \in Nodes
    BY AgentsAre DEF NoRetries, Retries, Quiet, Nets
  <2>2. datagrams = Offered(Quiet, Server, NoRetries)
    BY DEF Init, Quiet
  <2>3. \A n \in Nodes, a \in Agents : \A kind : ~Carries(Quiet, n, a, kind)
    BY DEF Carries, Quiet
  <2>4. Request(NoRetries) \in Datagram /\ Request(NoRetries).kind = "request"
    BY <2>1, DatagramsAre
  <2>5. QED
    BY <2>1, <2>2, <2>3, <2>4, CarriesWritten DEF InTransit, Offered
<1>2. \A a \in Agents : ~Unread(a) /\ ~Replied(a, "exception")
  BY DEF Init, Unread, Replied, ReplyKinds
<1>3. FlagsInUse /\ AbortsAreFinal /\ FailsOnlyWhenAllFailed
  BY <1>1 DEF Init, FlagsInUse, AbortsAreFinal, FailsOnlyWhenAllFailed
<1>4. ThrownIsReported /\ RetriesAreResends
  BY <1>2 DEF Init, ThrownIsReported, RetriesAreResends, NoRetries
<1>5. SomeoneLeads
  BY <1>1, <1>2 DEF Init, SomeoneLeads, Unstarted, Silent
<1>6. QED
  BY <1>3, <1>4, <1>5 DEF QueueInv

LEMMA QueueInvNext == ASSUME TypeOK, QueueInv, [Next]_vars PROVE QueueInv'
<1>1. CASE UNCHANGED vars
  <2> USE <1>1 DEF vars, serverVars, netVars, queueVars, workerVars, history, Replied, InTransit, Carries
  <2>1. FlagsInUse' /\ AbortsAreFinal' /\ ThrownIsReported' /\ RetriesAreResends'
        /\ FailsOnlyWhenAllFailed'
    BY DEF QueueInv, FlagsInUse, AbortsAreFinal, ThrownIsReported, RetriesAreResends,
           FailsOnlyWhenAllFailed
  <2>2. SomeoneLeads'
    BY DEF QueueInv, SomeoneLeads, Unstarted, Silent, Unread, Leads
  <2>3. QED
    BY <2>1, <2>2 DEF QueueInv
<1>2. CASE Next
  <2>1. FlagsInUse' /\ AbortsAreFinal' /\ ThrownIsReported' /\ RetriesAreResends'
        /\ FailsOnlyWhenAllFailed'
    BY <1>2, FlagsInUseNext, AbortsAreFinalNext, ThrownIsReportedNext, RetriesNext DEF QueueInv
  <2>2. SomeoneLeads'
    <3> SUFFICES ASSUME NoTrouble' PROVE Unstarted' \/ \E a \in Agents : Leads(a)'
      BY DEF SomeoneLeads, NoTrouble
    <3>1. NoTrouble
      BY <1>2, NoTroubleBefore
    <3>2. QED
      BY <1>2, <3>1, StepsAre, SomeoneLeadsServer, SomeoneLeadsLose, SomeoneLeadsWorker,
         SomeoneLeadsReceiver
  <2>3. QED
    BY <2>1, <2>2 DEF QueueInv
<1>3. QED
  BY <1>1, <1>2

LEMMA QueueInvImplies == ASSUME TypeOK, QueueInv PROVE NotForgotten
<1> SUFFICES ASSUME ~claimed, noted # "alive", result = "none", acknowledged, ~Pursued
             PROVE  FALSE
  BY DEF NotForgotten, Forgotten
<1>1. \A a \in Agents : ~Unread(a)
  BY DEF Pursued
<1>2. threw = {}
  <2>1. \A a \in Agents : ~Replied(a, "exception")
    BY <1>1, ReplyKindsAre DEF Unread
  <2>2. QED
    BY <2>1 DEF QueueInv, ThrownIsReported, TypeOK
<1>3. CASE Unstarted
  <2>1. PICK a \in Agents : delayed[a] # <<>> \/ waiting[a] # <<>> \/ worker[a] # "idle"
    BY <1>3 DEF Unstarted, Silent
  <2>2. QED
    BY <1>3, <2>1 DEF Unstarted, Pursued
<1>4. ASSUME NEW a \in Agents, Leads(a) PROVE FALSE
  BY <1>1, <1>4, ReplyKindsAre DEF Leads, Unread, Pursued
<1>5. QED
  BY <1>2, <1>3, <1>4 DEF QueueInv, SomeoneLeads

LEMMA QueueInvAlways == Spec => []QueueInv
<1>1. TypeOK /\ QueueInv /\ [Next]_vars => QueueInv'
  BY QueueInvNext
<1>2. QED
  BY <1>1, QueueInvInit, TypeCorrect, PTL DEF Spec

\* However many agents there are, whichever of them may throw, whatever datagrams
\* are lost or overtaken and however early or often the server sends the request
\* again, the agents do not all give way to one another over it (doIbyti,
\* checkAbort, noteOrphanIBYTI, processMessage): when the server has been told
\* that it is being worked on, it is, or something is still on its way, unless an
\* agent has answered a retry on account of a request that it then dropped, or a
\* ROXIE_ALIVE has been read after an exception.
THEOREM RequestIsNotForgotten == Spec => []NotForgotten
<1>1. TypeOK /\ QueueInv => NotForgotten
  BY QueueInvImplies
<1>2. QED
  BY <1>1, TypeCorrect, QueueInvAlways, PTL

\* The server gives a request up only when each agent has thrown or has been sent
\* it again Mask - 1 times at least (retry, noteException, noteAlive): the
\* exception of one agent uses up no retry of another, nor does a ROXIE_ALIVE
\* that is read late.  It does not say that anything was lost.
THEOREM GivenUpOnlyAfterRetries == Spec => []FailsOnlyWhenAllFailed
<1>1. QueueInv => FailsOnlyWhenAllFailed
  BY DEF QueueInv
<1>2. QED
  BY <1>1, QueueInvAlways, PTL
=============================================================================
