----------------------------- MODULE UdpReceiver -----------------------------
(***************************************************************************)
(* The receiving half of Roxie's UDP flow control: CUdpReceiveManager of    *)
(* roxie/udplib/udptrr.cpp, for any number of senders.                      *)
(*                                                                          *)
(*   flow thread   receive_receive_flow: handles one flow message (or times *)
(*                 out), then expires and grants permits                    *)
(*   data thread   receive_data: counts data packets against the permits,   *)
(*                 queues them, and forwards the flow messages of its socket *)
(*   collator      takes packets off the input queue                        *)
(*                                                                          *)
(* Each sender is reduced to the flow protocol of UdpSender: it requests,    *)
(* repeats the request while no permit comes, and sends at most what a       *)
(* permit for its current request allows.  The network may lose and, unless  *)
(* InOrder, reorder what is on its way; requests are also repeated.          *)
(* A permit is named by its owner and its place in the owner's array.        *)
(***************************************************************************)
EXTENDS UdpFlowTypes, OrderedSets, SequencesExt, FiniteSetsExt

CONSTANTS
  Senders,
  MaxPermitsPerSender,               \* size of UdpSenderEntry::permits
  QueueSize,                         \* input_queue_size
  maxSlotsPerSender,
  udpMaxPendingPermits, udpMinSlotsPerSender, udpMaxPermitDeadTimeouts,
  udpAllowAsyncPermits, udpResendDelay,  \* the latter TRUE iff it is not 0
  InOrder,                           \* the network does not reorder flow messages
  MaxFlow,                           \* bound: requests of a sender
  MaxData,                           \* bound: packets a sender ever sends
  MaxResend,                         \* bound: needless resends under a permit
  MaxMsgSeq,                         \* bound: message numbers in data packets
  NetLimit                           \* bound: messages in flight on a socket

ASSUME ReceiverAssumption ==
  /\ MaxPermitsPerSender \in Nat \ {0} /\ QueueSize \in Nat \ {0}
  /\ maxSlotsPerSender \in 1 .. QueueSize /\ udpMinSlotsPerSender \in Nat \ {0}
  /\ udpMaxPendingPermits \in Nat \ {0} /\ udpMaxPermitDeadTimeouts \in Nat
  /\ udpAllowAsyncPermits \in BOOLEAN /\ udpResendDelay \in BOOLEAN
  /\ InOrder \in BOOLEAN
  /\ MaxFlow \in Nat /\ MaxFlow < FlowMod - 1
  /\ MaxData \in Nat /\ MaxResend \in Nat /\ MaxMsgSeq \in Nat /\ NetLimit \in Nat

Places == 1 .. MaxPermitsPerSender

\* UdpSenderEntry and SendPermit.  flowSeq 0 marks a permit that is not active.
SendPermit == [flowSeq : FlowSeq, num : Int, sendSeq : Nat]
Inactive   == [flowSeq |-> 0, num |-> 0, sendSeq |-> 0]
Entry == [state    : {"idle", "requested", "granted"},
          flowSeq  : FlowSeq,
          sendSeq  : Nat,
          timeouts : 0 .. udpMaxPermitDeadTimeouts + 1,
          permits  : [Places -> SendPermit],
          last     : Places]                        \* lastDataPermit

Active(e)    == {k \in Places : e.permits[k].flowSeq # 0}
OfFlow(e, f) == {k \in Active(e) : e.permits[k].flowSeq = f}

\* getNumReserved
Reserved(p) == IF p.num > 0 THEN p.num ELSE 0

VARIABLES
  entry,           \* sendersTable
  pendingRequests, \* senders that wait for a permit
  pendingPermits,  \* active permits, oldest first, as <<sender, place>>
  queued,          \* packets in input_queue
  flowPc, issued,                    \* the flow thread: position, permitsIssued
  dataThread,                        \* the data thread: see DataThread
  flowNet, dataNet,                  \* messages on the flow and the data socket
  okToSend,        \* the last ok_to_send written to each sender
  cur, waiting, nextSend             \* senders: activeFlow, requested, nextSend

lists     == <<pendingRequests, pendingPermits>>
flowVars  == <<flowPc, issued>>
senderVars == <<cur, waiting, nextSend>>
netVars   == <<flowNet, dataNet>>
vars == <<entry, lists, queued, flowVars, dataThread, netVars, okToSend, senderVars>>

\* The data thread reads a packet, counts it against a permit (place k of the
\* array of sender s), and pushes it on the input queue.
Reading        == [pc |-> "read"]
Counting(s, k) == [pc |-> "count", from |-> s, place |-> k]
Pushing        == [pc |-> "push"]
DataThread     == {Reading, Pushing} \cup {Counting(s, k) : s \in Senders, k \in Places}

NoOkToSend == [flowSeq |-> 0, max |-> 0]
Data(seen) == [cmd |-> "data", seen |-> seen]        \* seen: a needless resend
FlowMsgs == [cmd : FlowSocketCmd \cup DataSocketCmd, packets : Nat,
             flowSeq : FlowSeqId, sendSeq : Nat]

TypeOK ==
  /\ entry \in [Senders -> Entry]
  /\ pendingRequests \in Seq(Senders)
  /\ pendingPermits \in Seq(Senders \X Places)
  /\ queued \in Nat
  /\ flowPc \in {"wait", "expire", "grant"} /\ issued \in Nat
  /\ dataThread \in DataThread
  /\ flowNet \in [Senders -> Seq(FlowMsgs)]
  /\ dataNet \in [Senders -> Seq(FlowMsgs \cup {Data(FALSE), Data(TRUE)})]
  /\ okToSend \in [Senders -> [flowSeq : FlowSeq, max : Nat]]
  /\ cur \in [Senders -> FlowSeq] /\ waiting \in [Senders -> BOOLEAN]
  /\ nextSend \in [Senders -> Nat]

Init ==
  /\ entry = [s \in Senders |->
                [state |-> "idle", flowSeq |-> 0, sendSeq |-> 0, timeouts |-> 0,
                 permits |-> [k \in Places |-> Inactive], last |-> 1]]
  /\ pendingRequests = <<>> /\ pendingPermits = <<>>
  /\ queued = 0
  /\ flowPc = "wait" /\ issued = 0
  /\ dataThread = Reading
  /\ flowNet = [s \in Senders |-> <<>>]
  /\ dataNet = flowNet
  /\ okToSend = [s \in Senders |-> NoOkToSend]
  /\ cur = [s \in Senders |-> 0] /\ waiting = [s \in Senders |-> FALSE]
  /\ nextSend = [s \in Senders |-> 0]
-----------------------------------------------------------------------------
(* Senders, as the receiver sees them (UdpSender is the real one).         *)

Request(s, f) == FlowMsg("request_to_send", 0, f, nextSend[s])

Room(net, n) == Len(net) + n <= NetLimit                             \* bound

\* requestToSendNew: data was queued and no request is active.
SenderRequests(s) ==
  /\ ~waiting[s] /\ cur[s] < MaxFlow                                \* bound
  /\ Room(flowNet[s], 1)
  /\ waiting' = [waiting EXCEPT ![s] = TRUE]
  /\ cur' = [cur EXCEPT ![s] = NextFlowSeq(@)]
  /\ flowNet' = [flowNet EXCEPT ![s] = Append(@, Request(s, cur'[s]))]
  /\ UNCHANGED <<entry, lists, queued, flowVars, dataThread, dataNet,
                 okToSend, nextSend>>

\* resendRequestToSend: no permit for the current request in time.
SenderRepeats(s) ==
  /\ waiting[s]
  /\ Room(flowNet[s], 1)
  /\ flowNet' = [flowNet EXCEPT ![s] = Append(@, Request(s, cur[s]))]
  /\ UNCHANGED <<entry, lists, queued, flowVars, dataThread, dataNet,
                 okToSend, senderVars>>

\* sendData: n new and r resent packets are sent under the permit; sendDone
\* then asks for another permit, or says that there is no more.
SendPackets(s, n, r, more) ==
  LET after == nextSend[s] + n
      start == IF n + r > 0 THEN <<FlowMsg("send_start", n + r, cur[s], after)>> ELSE <<>>
      next  == NextFlowSeq(cur[s])
      rts   == IF more /\ udpAllowAsyncPermits
                 THEN <<FlowMsg("request_to_send", 0, next, after)>> ELSE <<>>
      done  == FlowMsg(IF more /\ ~udpAllowAsyncPermits
                         THEN "request_to_send_more" ELSE "send_completed",
                       n + r, cur[s], after)
      data  == [i \in 1 .. r |-> Data(TRUE)] \o [i \in 1 .. n |-> Data(FALSE)]
  IN
  /\ more => waiting[s] /\ cur[s] < MaxFlow                          \* bound
  /\ after <= MaxData                                                \* bound
  /\ Room(flowNet[s], 2) /\ Room(dataNet[s], n + r + 1)
  /\ flowNet' = [flowNet EXCEPT ![s] = @ \o start \o rts]
  /\ dataNet' = [dataNet EXCEPT ![s] = Append(@ \o data, done)]
  /\ nextSend' = [nextSend EXCEPT ![s] = after]
  /\ waiting' = [waiting EXCEPT ![s] = more]
  /\ cur' = [cur EXCEPT ![s] = IF more THEN next ELSE @]

\* A permit for the current request is used, once, for at most max new packets
\* and some resent ones.
SenderSends(s) ==
  /\ cur[s] # 0 /\ okToSend[s].flowSeq = cur[s]
  /\ \E n \in 0 .. okToSend[s].max, r \in 0 .. MaxResend, more \in BOOLEAN :
       SendPackets(s, n, r, more)
  /\ okToSend' = [okToSend EXCEPT ![s] = NoOkToSend]
  /\ UNCHANGED <<entry, lists, queued, flowVars, dataThread>>

\* The network loses what is at the head of a socket's queue.
LoseFlow(s) ==
  /\ flowNet[s] # <<>>
  /\ flowNet' = [flowNet EXCEPT ![s] = Tail(@)]
  /\ UNCHANGED <<entry, lists, queued, flowVars, dataThread, dataNet,
                 okToSend, senderVars>>

LoseData(s) ==
  /\ dataNet[s] # <<>>
  /\ dataNet' = [dataNet EXCEPT ![s] = Tail(@)]
  /\ UNCHANGED <<entry, lists, queued, flowVars, dataThread, flowNet,
                 okToSend, senderVars>>

-----------------------------------------------------------------------------
(* The data thread and the collator.                                       *)

\* decPermit's choice: the permit used last if the packet may belong to it,
\* else the active one with the latest sendSeq not after the packet's number.
PermitFor(e, msgSeq) ==
  LET candidates == {k \in Active(e) : e.permits[k].sendSeq <= msgSeq}
  IN  IF e.last \in candidates THEN {e.last}
      ELSE {k \in candidates : \A j \in candidates :
              \/ e.permits[j].sendSeq < e.permits[k].sendSeq
              \/ e.permits[j].sendSeq = e.permits[k].sendSeq /\ k <= j}

\* A data packet.  Its msgSeq is a number of its own: messages are counted
\* per node, packets per destination.  A duplicate is not counted.
ReadData(s) ==
  /\ dataThread = Reading
  /\ dataNet[s] # <<>> /\ Head(dataNet[s]).cmd = "data"
  /\ dataNet' = [dataNet EXCEPT ![s] = Tail(@)]
  /\ \E msgSeq \in 1 .. MaxMsgSeq :
       LET found == IF Head(dataNet[s]).seen THEN {} ELSE PermitFor(entry[s], msgSeq) IN
       \/ /\ found = {}
          /\ dataThread' = Pushing
          /\ UNCHANGED entry
       \/ \E k \in found :
            /\ dataThread' = Counting(s, k)
            /\ entry' = [entry EXCEPT ![s].last = k]
  /\ UNCHANGED <<lists, queued, flowVars, flowNet, okToSend, senderVars>>

\* numPackets.fetch_sub(1): by now the permit may be another one, or none.
CountData ==
  /\ dataThread.pc = "count"
  /\ entry' = [entry EXCEPT ![dataThread.from].permits[dataThread.place].num = @ - 1]
  /\ dataThread' = Pushing
  /\ UNCHANGED <<lists, queued, flowVars, netVars, okToSend, senderVars>>

\* input_queue->pushOwn(b): never blocks, so the queue's limit is a soft one.
PushData ==
  /\ dataThread = Pushing
  /\ queued' = queued + 1
  /\ dataThread' = Reading
  /\ UNCHANGED <<entry, lists, flowVars, netVars, okToSend, senderVars>>

\* A flow message on the data socket is forwarded to the flow socket, so that
\* it does not overtake the data before it.  There it comes after what has
\* arrived and before what is still on its way, the ones forwarded in order.
ForwardFlow(s) ==
  LET forwarded == {i \in DOMAIN flowNet[s] : flowNet[s][i].cmd \in DataSocketCmd} IN
  /\ dataThread = Reading
  /\ dataNet[s] # <<>> /\ Head(dataNet[s]).cmd # "data"
  /\ \E arrived \in Max({0} \cup forwarded) .. Len(flowNet[s]) :
       flowNet' = [flowNet EXCEPT ![s] = InsertAt(@, arrived + 1, Head(dataNet[s]))]
  /\ dataNet' = [dataNet EXCEPT ![s] = Tail(@)]
  /\ UNCHANGED <<entry, lists, queued, flowVars, dataThread, okToSend, senderVars>>

\* Seeded fault: pop does not wait for data_avail.
Collate_NoWait ==
  /\ queued' = queued - 1
  /\ UNCHANGED <<entry, lists, flowVars, dataThread, netVars, okToSend, senderVars>>

\* collatePackets: input_queue->pop
Collate ==
  /\ queued > 0
  /\ queued' = queued - 1
  /\ UNCHANGED <<entry, lists, flowVars, dataThread, netVars, okToSend, senderVars>>

-----------------------------------------------------------------------------
(* The flow thread: doFlowRequest, then checkPendingRequests.  The handlers *)
(* take and return what they change: the entry of sender s, the two lists   *)
(* and the last ok_to_send.                                                 *)

Current(s) == [e |-> entry[s], requests |-> pendingRequests,
               permits |-> pendingPermits, ok |-> okToSend[s]]

Becomes(s, w) ==
  /\ entry' = [entry EXCEPT ![s] = w.e]
  /\ pendingRequests' = w.requests
  /\ pendingPermits' = w.permits
  /\ okToSend' = [okToSend EXCEPT ![s] = w.ok]

\* sendPermitToSend: the message names the entry's flowSeq.
OkToSend(e, slots) == [flowSeq |-> e.flowSeq, max |-> slots]

\* Seeded fault: a repeated request is put on the list again.
Queued_Always(w, s) ==
  [w EXCEPT !.e.state = "requested", !.requests = Append(@, s)]

\* Put a sender on the list of pending requests, unless it is there.
Queued(w, s) ==
  [w EXCEPT !.e.state  = "requested",
            !.requests = IF w.e.state = "requested" THEN @ ELSE Append(@, s)]

\* acknowledgeRequest (the message itself has no effect on the receiver).
Acknowledged(w, f, seq) ==
  [w EXCEPT !.e.flowSeq = f, !.e.sendSeq = seq, !.e.timeouts = 0]

NoteRequest(w, s, f, seq) ==
  LET live == OfFlow(w.e, f) IN
  IF live # {}
    THEN [w EXCEPT !.ok = OkToSend(w.e, Reserved(w.e.permits[Min(live)]))]
    ELSE Acknowledged(Queued(w, s), f, seq)

\* revokePermit, and removal from the list of active permits.
Revoked(w, s, places) ==
  [w EXCEPT !.e.permits = [k \in Places |-> IF k \in places THEN Inactive ELSE @[k]],
            !.permits   = Without(@, {s} \X places)]

\* Seeded fault: all permits end, also those of later requests.
Ended_All(e, f) == Active(e)

\* The permits that end with request f: all data sent under them is here, or
\* lost.
Ended(e, f) == {k \in Active(e) : NotNewer(e.permits[k].flowSeq, f)}

\* noteDone; only the end of the latest request changes the sender's state.
NoteDone(w, s, f) ==
  LET r == Revoked(w, s, Ended(w.e, f)) IN
  IF f = w.e.flowSeq
    THEN [r EXCEPT !.e.state = "idle",
                   !.requests = Without(@, {s})]
    ELSE r

\* send_start: the reservation becomes the number of packets on their way.
UpdateNumReserved(w, f, n) ==
  LET live == OfFlow(w.e, f) IN
  IF live = {} THEN w ELSE [w EXCEPT !.e.permits[Min(live)].num = n]

DoFlowRequest(s, msg) ==
  LET w == Current(s) IN
  \/ /\ msg.cmd = "request_to_send"
     /\ Becomes(s, NoteRequest(w, s, msg.flowSeq, msg.sendSeq))
  \/ /\ msg.cmd = "send_start"
     /\ Becomes(s, UpdateNumReserved(w, msg.flowSeq, msg.packets))
  \/ /\ msg.cmd = "send_completed"
     /\ Becomes(s, NoteDone(w, s, msg.flowSeq))
  \/ /\ msg.cmd = "request_to_send_more"
     /\ Becomes(s, NoteRequest(NoteDone(w, s, msg.flowSeq), s,
                               NextFlowSeq(msg.flowSeq), msg.sendSeq))

\* The flow socket yields a message.
ReceiveFlow(s) ==
  /\ flowPc = "wait"
  /\ flowPc' = "expire"
  /\ \E i \in DOMAIN flowNet[s] :
       /\ i = 1 \/ ~InOrder
       /\ DoFlowRequest(s, flowNet[s][i])
       /\ flowNet' = [flowNet EXCEPT ![s] = RemoveAt(@, i)]
  /\ UNCHANGED <<queued, issued, dataThread, dataNet, senderVars>>

\* wait_read times out.
FlowTimeout ==
  /\ flowPc = "wait"
  /\ flowPc' = "expire"
  /\ UNCHANGED <<entry, lists, queued, issued, dataThread, netVars, okToSend,
                 senderVars>>

\* The oldest permit has expired: revoke it and put its owner back on the list
\* of requests, or give up after too many timeouts.
ExpirePermit ==
  LET s    == Head(pendingPermits)[1]
      w    == Revoked(Current(s), s, {Head(pendingPermits)[2]})
      t    == w.e.timeouts + 1
      dead == t > udpMaxPermitDeadTimeouts /\ udpMaxPermitDeadTimeouts # 0
      last == Active(w.e) = {} /\ w.e.state # "requested"
      counted == [w EXCEPT !.e.timeouts = Min({t, udpMaxPermitDeadTimeouts + 1})]
  IN
  /\ flowPc = "expire" /\ pendingPermits # <<>>
  /\ \/ ~dead          /\ Becomes(s, Queued(counted, s))
     \/ dead /\ ~last  /\ Becomes(s, counted)
     \/ dead /\ last   /\ Becomes(s, [counted EXCEPT !.e.state = "idle"])
  /\ UNCHANGED <<queued, flowVars, dataThread, netVars, senderVars>>

ReservedBy(p) == Reserved(entry[p[1]].permits[p[2]])

\* The slots reserved by active permits: permitsIssued is their number.
ReservedSlots == UNION {{p} \X (1 .. ReservedBy(p)) : p \in ToSet(pendingPermits)}

\* The permits that are left have not expired: add up their reservations.
SumReserved ==
  /\ flowPc = "expire"
  /\ flowPc' = "grant"
  /\ issued' = Cardinality(ReservedSlots)
  /\ UNCHANGED <<entry, lists, queued, dataThread, netVars, okToSend, senderVars>>

\* Seeded fault: only the queue is looked at, not what is reserved.
FreeSlots_Unreserved == Max({0, QueueSize - queued})

\* input_queue->available() less what is reserved, never below 0.
FreeSlots == Max({0, Max({0, QueueSize - queued}) - issued})

\* Seeded fault: the smallest number of slots is not enough.
EnoughSlots_Strict == FreeSlots > udpMinSlotsPerSender

EnoughSlots == FreeSlots >= udpMinSlotsPerSender

\* The first requests on the list that can be granted: those with an unused
\* permit that canSendAny does not hold back (it never does without
\* udpResendDelay).
Grantable(blocked) ==
  {i \in DOMAIN pendingRequests :
     LET s == pendingRequests[i] IN s \notin blocked /\ Active(entry[s]) # Places}

\* grantPermit
Grant(s, slots) ==
  LET w == Current(s)
      k == Min(Places \ Active(w.e))
      permit == [flowSeq |-> w.e.flowSeq, num |-> slots, sendSeq |-> w.e.sendSeq]
  IN  Becomes(s, [w EXCEPT !.e.permits[k] = permit,
                           !.e.state  = "granted",
                           !.requests = Without(@, {s}),
                           !.permits  = Append(@, <<s, k>>),
                           !.ok       = OkToSend(w.e, slots)])

\* The loop over the pending requests ends with the first grant: removing the
\* entry from the list has cleared its next pointer.
CheckPending ==
  /\ flowPc = "grant"
  /\ flowPc' = "wait" /\ issued' = 0
  /\ \E blocked \in IF udpResendDelay THEN SUBSET Senders ELSE {{}} :
       LET able == Grantable(blocked) IN
       IF /\ Len(pendingPermits) < udpMaxPendingPermits
          /\ EnoughSlots
          /\ able # {}
         THEN Grant(pendingRequests[Min(able)],
                    Min({FreeSlots, maxSlotsPerSender, QueueSize - issued}))
         ELSE UNCHANGED <<entry, lists, okToSend>>
  /\ UNCHANGED <<queued, dataThread, netVars, senderVars>>

-----------------------------------------------------------------------------
Sender(s) == SenderRequests(s) \/ SenderRepeats(s) \/ SenderSends(s)

Network(s) == LoseFlow(s) \/ LoseData(s)

DataStep == (\E s \in Senders : ReadData(s) \/ ForwardFlow(s)) \/ CountData \/ PushData

Next ==
  \/ \E s \in Senders : Sender(s) \/ Network(s) \/ ReceiveFlow(s)
  \/ DataStep
  \/ Collate
  \/ FlowTimeout
  \/ ExpirePermit
  \/ SumReserved
  \/ CheckPending

Spec == Init /\ [][Next]_vars

FlowStep ==
  FlowTimeout \/ (\E s \in Senders : ReceiveFlow(s)) \/ ExpirePermit \/ SumReserved
    \/ CheckPending

\* The three threads run, and an unused permit expires in the end.  Senders owe
\* nothing, and every message may be lost.
FairSpec ==
  /\ Spec
  /\ WF_vars(FlowStep) /\ WF_vars(DataStep) /\ WF_vars(Collate)
  /\ SF_vars(ExpirePermit)

-----------------------------------------------------------------------------
(* Properties.                                                             *)

\* The lists and the states of the senders agree: a sender is on the list of
\* requests, once, exactly while its state is "requested", and the other list
\* holds each active permit once.  LinkedListOf::append asserts it: an entry
\* appended twice would make the flow thread lose the rest of the list.
ListsAgree ==
  /\ \A s \in Senders : s \in ToSet(pendingRequests) <=> entry[s].state = "requested"
  /\ IsInjective(pendingRequests) /\ IsInjective(pendingPermits)
  /\ \A s \in Senders, k \in Places :
       <<s, k>> \in ToSet(pendingPermits) <=> k \in Active(entry[s])
  /\ Len(pendingPermits) <= udpMaxPendingPermits

\* A grant never promises more than is free: whatever the data thread counted
\* and queued since the reservations were added up, they and the packets in
\* the queue fit in it.  (A packet counted and not queued yet is in neither.)
GrantFits ==
  [][Len(pendingPermits') > Len(pendingPermits) =>
       Cardinality(ReservedSlots') + queued <= QueueSize]_vars

\* A request on the list is granted, or its sender completes without it, even
\* if every message that would end an earlier permit is lost.
RequestIsAnswered ==
  \A s \in Senders : entry[s].state = "requested" ~> entry[s].state # "requested"

\* "granted, // at least one permit granted and NO pending request"
\* (udptrr.cpp, ReceiveState): a sender is not left in that state with nothing
\* that could expire and put it back on the list.
GrantedHasPermit ==
  \A s \in Senders : entry[s].state = "granted" => Active(entry[s]) # {}

\* "Decrease the number of active reservations to balance having received a
\* new data packet" (udptrr.cpp, receive_data): a new packet of a sender that
\* has slots reserved is counted against one of its permits.
NewDataIsCounted ==
  [][\A s \in Senders :
       /\ dataNet[s] # <<>> /\ Head(dataNet[s]) = Data(FALSE)
       /\ dataNet'[s] # dataNet[s] /\ dataThread' # dataThread
       /\ \E k \in Active(entry[s]) : entry[s].permits[k].num > 0
       => dataThread'.pc = "count"]_vars
-----------------------------------------------------------------------------
(* The inductive invariant behind ListsAgree and GrantFits.                *)

\* A permit that is granted names a request: 0 would leave it inactive.  A
\* sender that repeats a request has made it.
FlowNamed ==
  \A s \in Senders :
    /\ Active(entry[s]) # {} \/ entry[s].state = "requested" => entry[s].flowSeq # 0
    /\ waiting[s] => cur[s] # 0

\* While the flow thread decides on a grant, the data thread only uses up what
\* was reserved when permitsIssued was added up.
IssuedCovers == flowPc = "grant" => Cardinality(ReservedSlots) <= issued

ReceiverInv == TypeOK /\ ListsAgree /\ FlowNamed /\ IssuedCovers

(* The inductive invariant behind GrantedHasPermit, where permits are       *)
(* asynchronous and the network keeps the order of flow messages: then a    *)
(* sender asks on one socket only.                                          *)

\* The requests on their way ascend from the one the receiver noted last to the
\* one the sender made last.
RequestsAscend(s) ==
  LET Requests == {i \in DOMAIN flowNet[s] : flowNet[s][i].cmd = "request_to_send"} IN
  /\ entry[s].flowSeq <= cur[s] /\ cur[s] <= MaxFlow
  /\ \A i \in Requests :
       /\ entry[s].flowSeq <= flowNet[s][i].flowSeq /\ flowNet[s][i].flowSeq <= cur[s]
       /\ \A j \in Requests : i < j => flowNet[s][i].flowSeq <= flowNet[s][j].flowSeq

\* What a sender may use or has completed is a request that the receiver noted.
Noted(msg, s) == msg.cmd # "request_to_send_more"
  /\ (msg.cmd = "send_completed" => msg.flowSeq <= entry[s].flowSeq)

EndsAreNoted(s) ==
  /\ okToSend[s].flowSeq <= entry[s].flowSeq
  /\ \A i \in DOMAIN flowNet[s] : Noted(flowNet[s][i], s)
  /\ \A i \in DOMAIN dataNet[s] :
       dataNet[s][i].cmd \notin FlowSocketCmd /\ Noted(dataNet[s][i], s)

\* The permits of a sender were granted in the order of its requests ...
FlowOf(i) == entry[pendingPermits[i][1]].permits[pendingPermits[i][2]].flowSeq

PermitsAscend(s) ==
  LET Own == {i \in DOMAIN pendingPermits : pendingPermits[i][1] = s} IN
  /\ \A k \in Active(entry[s]) : entry[s].permits[k].flowSeq <= entry[s].flowSeq
  /\ \A i, j \in Own : i < j => FlowOf(i) <= FlowOf(j)

\* ... and while its state is "granted" the latest one has a permit.
LatestGranted(s) ==
  entry[s].state = "granted" => OfFlow(entry[s], entry[s].flowSeq) # {}

FlowOrderInv ==
  udpAllowAsyncPermits /\ InOrder =>
    \A s \in Senders : RequestsAscend(s) /\ EndsAreNoted(s) /\ PermitsAscend(s) /\ LatestGranted(s)
=============================================================================
