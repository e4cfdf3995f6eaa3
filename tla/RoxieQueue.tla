----------------------------- MODULE RoxieQueue -----------------------------
(***************************************************************************)
(* One request of a Roxie server, and the agents of its channel, each of   *)
(* which could answer it (roxie/ccd/ccdqueue.cpp and CRemoteResultAdaptor  *)
(* of roxie/ccd/ccdserver.cpp, with acknowledgeAllRequests, the default).  *)
(*                                                                         *)
(* An agent is the number of its subChannel: 0 is the primary.  Agents     *)
(* tell their buddies "I beat you to it" (IBYTI) when they start; a buddy  *)
(* then drops the request if it has not started, or gives way if its rank  *)
(* is lower.  Requests and IBYTIs are datagrams: they may get lost, and    *)
(* may arrive at any moment.  Replies are not lost, and are read in any    *)
(* order: UDP queue 0 and the front of the collator's list are for those   *)
(* that are out of band.  A timeout may pass at any moment too, while      *)
(* requests, replies and activities are under way.                         *)
(*                                                                         *)
(* One worker of an agent is concerned with this request at a time.        *)
(***************************************************************************)
EXTENDS Integers, FiniteSets, Sequences, SequencesExt

CONSTANTS
  NumAgents,       \* getNumAgents(channel)
  Mask,            \* SUBCHANNEL_MASK: the largest number of retries
  Circumstances,   \* what may go wrong: [failing, inOrder, maxLost, maxResends]
  Server,          \* the node of the server
  NoPacket         \* null pointer

ASSUME QueueAssumption ==
  /\ NumAgents \in Nat \ {0, 1}                  \* hasBuddies
  /\ Mask \in Nat \ {0}
  /\ Server \notin 0 .. NumAgents - 1
  /\ NoPacket \notin [0 .. NumAgents - 1 -> 0 .. Mask]
  /\ \A c \in Circumstances :
       c.failing \subseteq 0 .. NumAgents - 1 /\ c.maxLost \in Nat /\ c.maxResends \in Nat

Agents == 0 .. NumAgents - 1

\* Agents on which the activity may throw; whether the datagrams one node sends
\* another are received in the order sent; how many of them may get lost; how often
\* the server may send the request again; whether the behaviour is followed once the
\* request has a result.  The last three are bounds of the model.
Circumstance(failing, inOrder, maxLost, maxResends, onwards) ==
  [failing |-> failing, inOrder |-> inOrder, maxLost |-> maxLost,
   maxResends |-> maxResends, onwards |-> onwards]

VARIABLES
  given,           \* the circumstances of this behaviour
  retries,         \* server: per subChannel, in the header of its packet
  acknowledged,    \* server: packet->acknowledged
  result,          \* server: "none", "answer", "exception" or "error"
  resends,         \* server: requests resent
  datagrams,       \* per sender and agent: requests, IBYTIs, aborts in transit
  lost,            \* datagrams lost
  replies,         \* per agent and kind: replies sent that have not been read
  delayed,         \* agent: DelayedPacketQueue, the retries of each packet
  waiting,         \* agent: RoxieQueue::waiting
  orphan,          \* agent: the IBYTIbuffer holds an IBYTI that is not expired
  worker,          \* agent: "idle", "dequeued", "set", "launching", "running", "post"
  packet,          \* agent: the worker's packet
  abortLaunch,     \* agent: the worker's abortLaunch
  aborted,         \* agent: activity->aborted
  (* History: what has happened, for the properties.  No action reads it. *)
  threw,           \* agents whose activity has thrown
  claimed,         \* an agent has told the others that it has the request, on
                   \*   account of a worker that has not launched it yet or has
                   \*   dropped it
  noted            \* "exception" from when the server has read one, "alive" from
                   \*   when it has read a ROXIE_ALIVE after that

serverVars == <<retries, acknowledged, result, resends>>
netVars == <<given, datagrams, lost, replies>>
queueVars == <<delayed, waiting, orphan>>
workerVars == <<worker, packet, abortLaunch, aborted, threw>>
history == <<claimed, noted>>
vars == <<serverVars, netVars, queueVars, workerVars, history>>

Request(r) == [kind |-> "request", retries |-> r]
Ibyti == [kind |-> "ibyti", retries |-> <<>>]
Abort == [kind |-> "abort", retries |-> <<>>]

\* channelWrite to the agents of the channel; sendIbyti leaves out the sender.
Written(net, from, to, d) ==
  [net EXCEPT ![from] = [b \in Agents |-> IF b \in to THEN Append(@[b], d) ELSE @[b]]]

\* A request, for the agents that have not failed; the others ignore it.
Offered(net, from, r) == Written(net, from, {b \in Agents : r[b] # Mask}, Request(r))
WithIbyti(net, a) == Written(net, a, Agents \ {a}, Ibyti)

\* What may be received next of the datagrams from one to another.
Received(q) == IF given.inOrder THEN DOMAIN q \cap {1} ELSE DOMAIN q
Taken(from, to, i) == [datagrams EXCEPT ![from][to] = RemoveAt(@, i)]

Sent(a, kind) == [replies EXCEPT ![a][kind] = @ + 1]

\* Once the request has a result, the behaviour need not be followed.
Onwards == result = "none" \/ given.onwards

Retries == [Agents -> 0 .. Mask]
Nodes == Agents \cup {Server}
Datagram == [kind : {"request"}, retries : Retries] \cup {Ibyti, Abort}
ReplyKinds == {"alive", "data", "exception"}
Nets == [Nodes -> [Agents -> Seq(Datagram)]]

TypeOK ==
  /\ given \in Circumstances
  /\ retries \in Retries /\ acknowledged \in BOOLEAN
  /\ result \in {"none", "answer", "exception", "error"} /\ resends \in 0 .. given.maxResends
  /\ datagrams \in Nets
  /\ lost \in 0 .. given.maxLost
  /\ replies \in [Agents -> [ReplyKinds -> Nat]]
  /\ delayed \in [Agents -> Seq(Retries)] /\ waiting \in [Agents -> Seq(Retries)]
  /\ orphan \in [Agents -> BOOLEAN]
  /\ worker \in [Agents -> {"idle", "dequeued", "set", "launching", "running", "post"}]
  /\ packet \in [Agents -> Retries \cup {NoPacket}]
  /\ \A a \in Agents : packet[a] = NoPacket <=> worker[a] = "idle"
  /\ abortLaunch \in [Agents -> BOOLEAN] /\ aborted \in [Agents -> BOOLEAN]
  /\ threw \subseteq given.failing
  /\ claimed \in BOOLEAN /\ noted \in {"none", "exception", "alive"}

AllChannelsFailed(r) == \A a \in Agents : r[a] = Mask

NoRetries == [a \in Agents |-> 0]

Init ==
  /\ given \in Circumstances
  /\ retries = NoRetries /\ acknowledged = FALSE /\ result = "none" /\ resends = 0
  /\ datagrams = Offered([n \in Nodes |-> [a \in Agents |-> <<>>]], Server, NoRetries)
  /\ lost = 0 /\ replies = [a \in Agents |-> [kind \in ReplyKinds |-> 0]]
  /\ delayed = [a \in Agents |-> <<>>] /\ waiting = [a \in Agents |-> <<>>]
  /\ orphan = [a \in Agents |-> FALSE]
  /\ worker = [a \in Agents |-> "idle"] /\ packet = [a \in Agents |-> NoPacket]
  /\ abortLaunch = [a \in Agents |-> FALSE] /\ aborted = [a \in Agents |-> FALSE]
  /\ threw = {} /\ claimed = FALSE /\ noted = "none"

-----------------------------------------------------------------------------
(* The server.                                                             *)

\* RoxiePacketHeader::retry
Retried == [a \in Agents |-> IF retries[a] = Mask THEN Mask ELSE retries[a] + 1]

\* retryPending, once packetAcknowledgeTimeout has passed (resendNeeded).  It runs
\* before replies that have come are read, and knows of none.
RetryPending ==
  /\ result = "none" /\ ~acknowledged
  /\ retries' = Retried
  /\ IF AllChannelsFailed(Retried)
     THEN /\ result' = "error"                  \* "Failed to get response from agent(s)"
          /\ datagrams' = Written(datagrams, Server, Agents, Abort)
          /\ UNCHANGED resends
     ELSE /\ resends < given.maxResends                       \* bound
          /\ resends' = resends + 1
          /\ datagrams' = Offered(datagrams, Server, Retried)
          /\ UNCHANGED result
  /\ UNCHANGED <<acknowledged, given, lost, replies, queueVars, workerVars, history>>

\* Seeded fault: the exception of one agent counts for all.
NoteException_All(a) == [b \in Agents |-> Mask]

NoteException(a) == [retries EXCEPT ![a] = Mask]

\* getNextUnpacker: a reply is read; of several out-of-band ones, the last to come
\* is the first.  Replies to a request with a result are discarded.
GetNextUnpacker ==
  /\ Onwards                                                         \* bound
  /\ \E a \in Agents : \E kind \in ReplyKinds :
       /\ replies[a][kind] > 0
       /\ replies' = [replies EXCEPT ![a][kind] = @ - 1]
       /\ \/ /\ result # "none"
             /\ UNCHANGED <<retries, acknowledged, result, datagrams, noted>>
          \/ /\ result = "none" /\ kind = "alive"
             /\ acknowledged' = TRUE
             /\ retries' = [retries EXCEPT ![a] = 0]          \* noteAlive
             /\ noted' = IF noted = "exception" THEN "alive" ELSE noted
             /\ UNCHANGED <<result, datagrams>>
          \/ /\ result = "none" /\ kind = "exception"
             /\ retries' = NoteException(a)
             /\ noted' = IF noted = "none" THEN "exception" ELSE noted
             /\ IF AllChannelsFailed(NoteException(a))
                THEN /\ result' = "exception"
                     /\ datagrams' = Written(datagrams, Server, Agents, Abort)
                     /\ UNCHANGED acknowledged
                ELSE /\ acknowledged' = FALSE
                     /\ UNCHANGED <<result, datagrams>>
          \/ /\ result = "none" /\ kind = "data"
             /\ result' = "answer"
             /\ UNCHANGED <<retries, acknowledged, datagrams, noted>>
  /\ UNCHANGED <<resends, given, lost, queueVars, workerVars, claimed>>

-----------------------------------------------------------------------------
(* The worker of an agent (CRoxieWorker).                                  *)

Matches(a) == worker[a] \notin {"idle", "dequeued"}
HasActivity(a) == worker[a] = "running"

\* Seeded fault: the rank of the responder is not looked at.
GivesWay_Always(a, responder) == TRUE

\* checkRank: the responder is more primary.
GivesWay(a, responder) == responder < a

\* checkAbort of a worker: the activity is stopped, or never started.
AbortsRunning(a, checkRank, responder) ==
  \/ /\ HasActivity(a)
     /\ ~checkRank \/ GivesWay(a, responder)
  \/ worker[a] \in {"set", "launching"}

CheckAbort(a, checkRank, responder) ==
  /\ abortLaunch' = [abortLaunch EXCEPT ![a] = @ \/ worker[a] = "set"]
  /\ aborted' = [aborted EXCEPT ![a] =
       @ \/ (HasActivity(a) /\ (~checkRank \/ GivesWay(a, responder)))]

Step(a, from, to) ==
  /\ Onwards                                                         \* bound
  /\ worker[a] = from /\ worker' = [worker EXCEPT ![a] = to]

Dequeue(a) ==
  /\ Step(a, "idle", "dequeued") /\ waiting[a] # <<>>
  /\ packet' = [packet EXCEPT ![a] = Head(waiting[a])]
  /\ waiting' = [waiting EXCEPT ![a] = Tail(@)]
  /\ UNCHANGED <<serverVars, netVars, delayed, orphan, abortLaunch, aborted, threw, history>>

SetPacket(a) ==
  /\ Step(a, "dequeued", "set")
  /\ UNCHANGED <<serverVars, netVars, queueVars, packet, abortLaunch, aborted, threw, history>>

\* doActivity, up to the test of abortLaunch, which is reset for each packet.
Launch(a) ==
  /\ Step(a, "set", IF abortLaunch[a] THEN "post" ELSE "launching")
  /\ abortLaunch' = [abortLaunch EXCEPT ![a] = FALSE]
  /\ UNCHANGED <<serverVars, netVars, queueVars, packet, aborted, threw, history>>

\* The activity is created and the others are told.
SendIbyti(a) ==
  /\ Step(a, "launching", "running")
  /\ datagrams' = WithIbyti(datagrams, a)
  /\ UNCHANGED <<serverVars, given, lost, replies, queueVars, packet, abortLaunch, aborted, threw, history>>

\* The activity ends, and its abort flag with it.
EndActivity(a) ==
  /\ Step(a, "running", "post")
  /\ aborted' = [aborted EXCEPT ![a] = FALSE]

\* process returns: a result, which is sent, or nothing if it was aborted in time.
Process(a) ==
  /\ EndActivity(a)
  /\ \/ replies' = Sent(a, "data")
     \/ aborted[a] /\ UNCHANGED replies
  /\ UNCHANGED <<serverVars, given, datagrams, lost, queueVars, packet, abortLaunch, threw, history>>

\* process throws: the request is sent again in case others want to try it, and
\* the server is told.
ThrowRemoteException(a) ==
  /\ a \in given.failing
  /\ EndActivity(a)
  /\ LET failed == [packet[a] EXCEPT ![a] = Mask]
     IN  /\ packet' = [packet EXCEPT ![a] = failed]
         /\ datagrams' = Offered(datagrams, a, failed)
  /\ replies' = Sent(a, "exception")
  /\ threw' = threw \cup {a}
  /\ UNCHANGED <<serverVars, given, lost, queueVars, abortLaunch, history>>

\* Seeded fault: the packet is kept.
ClearPacket_Keeps(a) ==
  /\ Step(a, "post", "idle")
  /\ UNCHANGED <<serverVars, netVars, queueVars, packet, abortLaunch, aborted, threw, history>>

\* setPacket(nullptr)
ClearPacket(a) ==
  /\ Step(a, "post", "idle")
  /\ packet' = [packet EXCEPT ![a] = NoPacket]
  /\ UNCHANGED <<serverVars, netVars, queueVars, abortLaunch, aborted, threw, history>>

-----------------------------------------------------------------------------
(* The receiver thread of an agent, under ibytiCrit.                       *)

\* dataQueued: the reply may still be in the send queue.
ReplyPending(a) == replies[a]["data"] > 0

\* The worker that matches runs the activity, or its result is on its way.
HasOrHad(a) == worker[a] \notin {"set", "post"} \/ ReplyPending(a)

\* Only the primary queues a request at once; a retry only if it is not queued.
QueueRequest(a, r) ==
  \/ /\ a # 0
     /\ delayed' = [delayed EXCEPT ![a] = Append(@, r)]
     /\ UNCHANGED waiting
  \/ /\ a = 0 /\ ~(r[a] > 0 /\ waiting[a] # <<>>)             \* enqueueUnique
     /\ waiting' = [waiting EXCEPT ![a] = Append(@, r)]
     /\ UNCHANGED delayed
  \/ /\ a = 0 /\ r[a] > 0 /\ waiting[a] # <<>>
     /\ UNCHANGED <<delayed, waiting>>

\* processMessage, of a request.
ReceiveRequest(a) ==
  /\ Onwards                                                         \* bound
  /\ \E n \in DOMAIN datagrams : \E i \in Received(datagrams[n][a]) :
       LET d == datagrams[n][a][i]
           r == d.retries
       IN
       /\ d.kind = "request"
       /\ \/ /\ orphan[a]                             \* ignored
             /\ datagrams' = Taken(n, a, i)
             /\ UNCHANGED <<replies, delayed, waiting, claimed>>
          \/ /\ ~orphan[a]
             /\ replies' = Sent(a, "alive")
             /\ \/ /\ r[a] > 0 /\ (Matches(a) \/ ReplyPending(a))
                   /\ datagrams' = WithIbyti(Taken(n, a, i), a)
                   /\ claimed' = (claimed \/ ~HasOrHad(a))
                   /\ UNCHANGED <<delayed, waiting>>
                \/ /\ ~(r[a] > 0 /\ Matches(a))
                   /\ datagrams' = Taken(n, a, i)
                   /\ QueueRequest(a, r)
                   /\ UNCHANGED claimed
  /\ UNCHANGED <<serverVars, given, lost, orphan, workerVars, noted>>

\* doIbyti: the request is dropped from a queue, or its activity aborted, or the
\* IBYTI is noted in case it is early.
DoIbyti(a) ==
  /\ Onwards                                                         \* bound
  /\ \E n \in DOMAIN datagrams : \E i \in Received(datagrams[n][a]) :
       LET d == datagrams[n][a][i]
       IN
       /\ d.kind \in {"ibyti", "abort"}
       /\ datagrams' = Taken(n, a, i)
       /\ \/ /\ delayed[a] # <<>>
             /\ delayed' = [delayed EXCEPT ![a] = Tail(@)]
             /\ UNCHANGED <<waiting, orphan, abortLaunch, aborted>>
          \/ /\ delayed[a] = <<>> /\ waiting[a] # <<>>
             /\ waiting' = [waiting EXCEPT ![a] = Tail(@)]
             /\ UNCHANGED <<delayed, orphan, abortLaunch, aborted>>
          \/ /\ delayed[a] = <<>> /\ waiting[a] = <<>>
             /\ CheckAbort(a, d.kind = "ibyti", n)
             /\ orphan' = [orphan EXCEPT ![a] = @ \/
                  (d.kind = "ibyti" /\ ~AbortsRunning(a, TRUE, n))]
             /\ UNCHANGED <<delayed, waiting>>
  /\ UNCHANGED <<serverVars, given, lost, replies, worker, packet, threw, history>>

\* checkExpired: no IBYTI has come in time.
CheckExpired(a) ==
  /\ Onwards                                                         \* bound
  /\ delayed[a] # <<>>
  /\ waiting' = [waiting EXCEPT ![a] = Append(@, Head(delayed[a]))]
  /\ delayed' = [delayed EXCEPT ![a] = Tail(@)]
  /\ UNCHANGED <<serverVars, netVars, orphan, workerVars, history>>

\* IBYTIbufferLifetime has passed.
OrphanExpires(a) ==
  /\ Onwards                                                         \* bound
  /\ orphan[a]
  /\ orphan' = [orphan EXCEPT ![a] = FALSE]
  /\ UNCHANGED <<serverVars, netVars, delayed, waiting, workerVars, history>>

Lose ==
  /\ Onwards                                                         \* bound
  /\ lost < given.maxLost                                           \* bound
  /\ \E n \in DOMAIN datagrams, a \in Agents : \E i \in DOMAIN datagrams[n][a] :
       datagrams' = Taken(n, a, i)
  /\ lost' = lost + 1
  /\ UNCHANGED <<serverVars, given, replies, queueVars, workerVars, history>>

-----------------------------------------------------------------------------
ServerSteps == RetryPending \/ GetNextUnpacker

Worker(a) ==
  \/ Dequeue(a) \/ SetPacket(a) \/ Launch(a) \/ SendIbyti(a) \/ Process(a)
  \/ ThrowRemoteException(a) \/ ClearPacket(a)

Receiver(a) == ReceiveRequest(a) \/ DoIbyti(a) \/ CheckExpired(a) \/ OrphanExpires(a)

Next == ServerSteps \/ Lose \/ \E a \in Agents : Worker(a) \/ Receiver(a)

Spec == Init /\ [][Next]_vars

\* Timers expire, threads run, activities end, and what is not lost arrives.
FairSpec ==
  /\ Spec
  /\ WF_vars(RetryPending) /\ WF_vars(GetNextUnpacker)
  /\ \A a \in Agents :
       /\ WF_vars(Worker(a))
       /\ WF_vars(ReceiveRequest(a)) /\ WF_vars(DoIbyti(a))
       /\ WF_vars(CheckExpired(a)) /\ WF_vars(OrphanExpires(a))

-----------------------------------------------------------------------------
(* Properties.                                                             *)

Carries(net, n, a, kind) == \E i \in DOMAIN net[n][a] : net[n][a][i].kind = kind
InTransit(n, a, kind) == Carries(datagrams, n, a, kind)
Replied(a, kind) == replies[a][kind] > 0
Unread(a) == \E kind \in ReplyKinds : Replied(a, kind)

\* Somewhere the request is on its way to a result: a server that has been told
\* so sends no more, and nothing else would notice that all have dropped it.
Pursued ==
  \E a \in Agents :
       \/ \E n \in Nodes : InTransit(n, a, "request")
       \/ Unread(a) \/ delayed[a] # <<>> \/ waiting[a] # <<>>
       \/ worker[a] \in {"dequeued", "launching"}
       \/ worker[a] = "set" /\ ~abortLaunch[a]
       \/ worker[a] = "running" /\ ~aborted[a]

\* Nobody has the request, and the server waits without a timeout.
Forgotten == result = "none" /\ acknowledged /\ ~Pursued

\* The agents never all give way to one another, whatever is lost, overtaken or
\* sent again too early: a request is forgotten only if an agent has claimed one
\* that it then dropped, or an exception has been followed by a ROXIE_ALIVE
\* (doIbyti, checkAbort, noteOrphanIBYTI, processMessage, throwRemoteException).
NotForgotten == ~claimed /\ noted # "alive" => ~Forgotten

\* An exception is recoverable: the server retries, or someone has the request
\* (getNextUnpacker, clearAcknowledged, throwRemoteException).
Recoverable == ~claimed => ~Forgotten

\* A request is given up only when each agent has thrown or has been sent it as
\* often as there are retries (noteException, allChannelsFailed, retry, noteAlive).
FailsOnlyWhenAllFailed ==
  result \in {"exception", "error"} => \A a \in Agents \ threw : resends >= Mask - 1

\* The server is about to send the request once more than the model follows.
BeyondBound ==
  ~acknowledged /\ ~AllChannelsFailed(Retried) /\ resends = given.maxResends

-----------------------------------------------------------------------------
(* The inductive invariant behind the first and the third.                 *)

\* A flag is up only while the worker can look at it.
FlagsInUse ==
  \A a \in Agents :
    (abortLaunch[a] => worker[a] = "set") /\ (aborted[a] => worker[a] = "running")

AbortsAreFinal ==
  \A n \in Nodes, a \in Agents : InTransit(n, a, "abort") => result # "none"

\* Until the server has read an exception, one is on its way.
ThrownIsReported ==
  /\ \A a \in Agents : Replied(a, "exception") => a \in threw
  /\ threw # {} /\ noted = "none" /\ result = "none" =>
       \E a \in Agents : Replied(a, "exception")
  /\ noted = "exception" /\ result = "none" => ~acknowledged

RetriesAreResends ==
  result = "none" => \A a \in Agents \ threw : retries[a] <= resends

\* No activity has started, and what arrived is still there ...
Silent == ~acknowledged /\ \A a \in Agents : ~Unread(a)

Unstarted ==
  /\ \A a \in Agents :
       /\ worker[a] \in {"idle", "dequeued", "set", "launching"}
       /\ ~abortLaunch[a] /\ ~orphan[a]
  /\ \A n \in Nodes, a \in Agents : ~InTransit(n, a, "ibyti")
  /\ Silent \/ \E a \in Agents : delayed[a] # <<>> \/ waiting[a] # <<>> \/ worker[a] # "idle"

\* ... or the most primary of those that have it has not been stopped, and nobody
\* that it gives way to will tell it to.
Leads(a) ==
  /\ \/ worker[a] = "launching"
     \/ worker[a] = "running" /\ ~aborted[a]
     \/ Replied(a, "data")
  /\ \A n \in Nodes, b \in Agents : InTransit(n, b, "ibyti") => n \in Agents /\ a <= n
  /\ \A b \in Agents : aborted[b] => a < b

SomeoneLeads ==
  result = "none" /\ threw = {} /\ ~claimed => Unstarted \/ \E a \in Agents : Leads(a)

QueueInv ==
  /\ FlagsInUse /\ AbortsAreFinal /\ ThrownIsReported /\ RetriesAreResends
  /\ SomeoneLeads /\ FailsOnlyWhenAllFailed
=============================================================================
