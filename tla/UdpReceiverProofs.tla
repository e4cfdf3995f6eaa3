-------------------------- MODULE UdpReceiverProofs --------------------------
(* Proofs about UdpReceiver, for any senders, array and list sizes, queue    *)
(* limit and setting.  ReceiverInv is inductive; the properties follow.      *)
EXTENDS UdpReceiver, CountingLemmas

-----------------------------------------------------------------------------
(* What a handler of the flow thread takes and returns.                      *)

Work == [e : Entry, requests : Seq(Senders), permits : Seq(Senders \X Places),
         ok : [flowSeq : FlowSeq, max : Nat]]

\* The lists that come with entry e of sender s agree with it, each sender and
\* permit is on its list once, and other senders are where they were.
Agrees(w, s) ==
  /\ IsInjective(w.requests) /\ IsInjective(w.permits)
  /\ Len(w.permits) <= udpMaxPendingPermits
  /\ s \in ToSet(w.requests) <=> w.e.state = "requested"
  /\ \A k \in Places : <<s, k>> \in ToSet(w.permits) <=> k \in Active(w.e)
  /\ \A u \in Senders \ {s} :
       /\ u \in ToSet(w.requests) <=> u \in ToSet(pendingRequests)
       /\ \A k \in Places : <<u, k>> \in ToSet(w.permits) <=> <<u, k>> \in ToSet(pendingPermits)

Named(e) == Active(e) # {} \/ e.state = "requested" => e.flowSeq # 0

Handled(w, s) == w \in Work /\ Agrees(w, s) /\ Named(w.e)

LEMMA NextFlowSeqId ==
  ASSUME NEW f \in FlowSeq
  PROVE  NextFlowSeq(f) \in FlowSeqId /\ NextFlowSeq(f) \in FlowSeq
BY FlowModAssumption DEF FlowSeq, FlowSeqId, NextFlowSeq

\* The flow thread begins with what is recorded for the sender ...
LEMMA CurrentHandled ==
  ASSUME TypeOK, ListsAgree, FlowNamed, NEW s \in Senders
  PROVE  Handled(Current(s), s)
<1>1. Current(s) \in Work
  BY DEF TypeOK, Current, Work
<1>2. Agrees(Current(s), s)
  BY DEF ListsAgree, Current, Agrees
<1>3. Named(Current(s).e)
  BY DEF FlowNamed, Current, Named
<1>4. QED
  BY <1>1, <1>2, <1>3 DEF Handled

\* ... and records what a handler returns.
LEMMA BecomesHandled ==
  ASSUME TypeOK, ListsAgree, FlowNamed, NEW s \in Senders, NEW w, Handled(w, s),
         Becomes(s, w), UNCHANGED senderVars
  PROVE  /\ entry' \in [Senders -> Entry]
         /\ pendingRequests' \in Seq(Senders)
         /\ pendingPermits' \in Seq(Senders \X Places)
         /\ okToSend' \in [Senders -> [flowSeq : FlowSeq, max : Nat]]
         /\ ListsAgree' /\ FlowNamed'
<1>1. /\ w.e \in Entry /\ w.requests \in Seq(Senders)
      /\ w.permits \in Seq(Senders \X Places) /\ w.ok \in [flowSeq : FlowSeq, max : Nat]
  BY DEF Handled, Work
<1>2. /\ entry' \in [Senders -> Entry] /\ entry'[s] = w.e
      /\ \A u \in Senders \ {s} : entry'[u] = entry[u]
  BY <1>1 DEF TypeOK, Becomes
<1>3. /\ pendingRequests' = w.requests /\ pendingPermits' = w.permits
      /\ okToSend' \in [Senders -> [flowSeq : FlowSeq, max : Nat]]
  BY <1>1 DEF TypeOK, Becomes
<1>4. Agrees(w, s) /\ Named(w.e)
  BY DEF Handled
<1>5. ListsAgree'
  BY ONLY <1>2, <1>3, <1>4, ListsAgree, s \in Senders, SMTT(30) DEF ListsAgree, Agrees, Active
<1>6. FlowNamed'
  BY <1>2, <1>4 DEF FlowNamed, Named, Active, senderVars
<1>7. QED
  BY <1>1, <1>2, <1>3, <1>5, <1>6

\* Queued puts the sender on the list unless it is there.  Its flow number is
\* set afterwards, or was set before.
LEMMA QueuedAgrees ==
  ASSUME NEW s \in Senders, NEW w, w \in Work, Agrees(w, s)
  PROVE  Queued(w, s) \in Work /\ Agrees(Queued(w, s), s)
<1> DEFINE q == Queued(w, s)
<1>1. /\ q.e = [w.e EXCEPT !.state = "requested"]
      /\ q.requests = IF w.e.state = "requested" THEN w.requests ELSE Append(w.requests, s)
      /\ q.permits = w.permits /\ q.ok = w.ok
  BY DEF Queued, Work
<1>2. /\ w.e \in Entry /\ w.requests \in Seq(Senders) /\ w.permits \in Seq(Senders \X Places)
      /\ w.ok \in [flowSeq : FlowSeq, max : Nat]
  BY DEF Work
<1> HIDE DEF q
<1>3. q.e \in Entry /\ q.e.state = "requested" /\ q.e.permits = w.e.permits
  BY <1>1, <1>2 DEF Entry
<1>4. /\ q.requests \in Seq(Senders) /\ IsInjective(q.requests)
      /\ ToSet(q.requests) = ToSet(w.requests) \cup {s}
  <2>1. CASE w.e.state = "requested"
    BY <1>1, <1>2, <2>1 DEF Agrees
  <2>2. CASE w.e.state # "requested"
    <3>1. IsInjective(w.requests) /\ s \notin ToSet(w.requests)
      BY <2>2 DEF Agrees
    <3>2. QED
      BY <1>1, <1>2, <2>2, <3>1, AppendElements
  <2>3. QED
    BY <2>1, <2>2
<1>5. q \in Work
  BY <1>1, <1>2, <1>3, <1>4 DEF Work, Queued, q
<1>6. Agrees(q, s)
  BY <1>1, <1>3, <1>4 DEF Agrees, Active
<1>7. QED
  BY <1>5, <1>6 DEF q

\* A revoked permit is neither active nor on the list.
LEMMA RevokedHandled ==
  ASSUME NEW s \in Senders, NEW w, Handled(w, s), NEW places \in SUBSET Places
  PROVE  /\ Handled(Revoked(w, s, places), s)
         /\ Revoked(w, s, places).e.state = w.e.state
         /\ Revoked(w, s, places).e.flowSeq = w.e.flowSeq
         /\ Active(Revoked(w, s, places).e) = Active(w.e) \ places
<1> DEFINE r == Revoked(w, s, places)
<1>0. w \in Work /\ Agrees(w, s) /\ Named(w.e)
  BY DEF Handled
<1>1. /\ r.e = [w.e EXCEPT !.permits = [k \in Places |-> IF k \in places THEN Inactive ELSE @[k]]]
      /\ r.requests = w.requests /\ r.permits = Without(w.permits, {s} \X places) /\ r.ok = w.ok
  BY <1>0 DEF Revoked, Work
<1>2. /\ w.e \in Entry /\ w.requests \in Seq(Senders) /\ w.permits \in Seq(Senders \X Places)
      /\ w.ok \in [flowSeq : FlowSeq, max : Nat]
  BY <1>0 DEF Work
<1> HIDE DEF r
<1>3. /\ r.e \in Entry /\ r.e.state = w.e.state /\ r.e.flowSeq = w.e.flowSeq
      /\ \A k \in Places : r.e.permits[k] = IF k \in places THEN Inactive ELSE w.e.permits[k]
  <2>1. Inactive \in SendPermit
    BY FlowModAssumption DEF SendPermit, Inactive, FlowSeq
  <2> DEFINE left == [k \in Places |-> IF k \in places THEN Inactive ELSE w.e.permits[k]]
  <2>2. left \in [Places -> SendPermit]
    BY <1>2, <2>1 DEF Entry
  <2>3. r.e = [w.e EXCEPT !.permits = left]
    BY <1>1, <1>2 DEF Entry
  <2>4. \A k \in Places : left[k] = IF k \in places THEN Inactive ELSE w.e.permits[k]
    OBVIOUS
  <2> HIDE DEF left
  <2>5. QED
    BY <1>2, <2>2, <2>3, <2>4 DEF Entry
<1>4. Active(r.e) = Active(w.e) \ places
  BY <1>3 DEF Active, Inactive
<1>5. /\ r.permits \in Seq(Senders \X Places) /\ Len(r.permits) <= Len(w.permits)
      /\ ToSet(r.permits) = ToSet(w.permits) \ ({s} \X places)
      /\ IsInjective(w.permits) => IsInjective(r.permits)
  BY <1>1, <1>2, WithoutKeepsOthers
<1>6. r \in Work
  BY <1>0, <1>1, <1>2, <1>3, <1>5 DEF Work, Revoked, r
<1>7. Len(r.permits) <= udpMaxPendingPermits
  <2>1. /\ Len(r.permits) \in Nat /\ Len(w.permits) \in Nat /\ udpMaxPendingPermits \in Nat
        /\ Len(w.permits) <= udpMaxPendingPermits
    BY <1>0, <1>2, <1>5, ReceiverAssumption, SMTT(30) DEF Agrees
  <2>2. QED
    BY <1>5, <2>1
<1>8. Agrees(r, s)
  BY <1>0, <1>1, <1>3, <1>4, <1>5, <1>7 DEF Agrees
<1>9. Named(r.e)
  BY <1>0, <1>3, <1>4 DEF Named
<1>10. QED
  BY <1>3, <1>4, <1>6, <1>8, <1>9 DEF Handled, r

LEMMA AcknowledgedHandled ==
  ASSUME NEW s \in Senders, NEW w, w \in Work, Agrees(w, s),
         NEW f \in FlowSeqId, NEW seq \in Nat
  PROVE  Handled(Acknowledged(w, f, seq), s)
<1> DEFINE a == Acknowledged(w, f, seq)
<1>1. /\ a.e = [w.e EXCEPT !.flowSeq = f, !.sendSeq = seq, !.timeouts = 0]
      /\ a.requests = w.requests /\ a.permits = w.permits /\ a.ok = w.ok
  BY DEF Acknowledged, Work
<1>2. w.e \in Entry /\ f \in FlowSeq /\ f # 0
  BY DEF Work, FlowSeq, FlowSeqId
<1> HIDE DEF a
<1>3. a.e \in Entry /\ a.e.state = w.e.state /\ a.e.flowSeq = f /\ a.e.permits = w.e.permits
  <2>1. 0 \in 0 .. udpMaxPermitDeadTimeouts + 1
    BY ReceiverAssumption
  <2>2. QED
    BY <1>1, <1>2, <2>1 DEF Entry
<1>4. a \in Work
  BY <1>1, <1>2, <1>3 DEF Work, Acknowledged, a
<1>5. QED
  BY <1>1, <1>2, <1>3, <1>4 DEF Handled, Agrees, Named, Active, a

\* The permit that answers a request is one of the active ones.
LEMMA LivePermit ==
  ASSUME NEW e \in Entry, NEW f, OfFlow(e, f) # {}
  PROVE  Min(OfFlow(e, f)) \in Places /\ Min(OfFlow(e, f)) \in Active(e)
<1>1. OfFlow(e, f) \in SUBSET Nat /\ OfFlow(e, f) \subseteq Active(e) /\ Active(e) \subseteq Places
  BY ReceiverAssumption DEF OfFlow, Active, Places
<1>2. Min(OfFlow(e, f)) \in OfFlow(e, f)
  BY <1>1, MinNat
<1>3. QED
  BY <1>1, <1>2

LEMMA ReservedType ==
  ASSUME NEW p \in SendPermit
  PROVE  Reserved(p) \in Nat
BY DEF SendPermit, Reserved

LEMMA NoteRequestHandled ==
  ASSUME NEW s \in Senders, NEW w, Handled(w, s), NEW f \in FlowSeqId, NEW seq \in Nat
  PROVE  Handled(NoteRequest(w, s, f, seq), s)
<1> DEFINE live == OfFlow(w.e, f)
<1>0. w \in Work /\ w.e \in Entry /\ Agrees(w, s) /\ Named(w.e)
  BY DEF Handled, Work
<1>1. CASE live # {}
  <2> DEFINE answer == OkToSend(w.e, Reserved(w.e.permits[Min(live)]))
             r == [w EXCEPT !.ok = answer]
  <2>1. Min(live) \in Places
    BY <1>0, <1>1, LivePermit
  <2>2. Reserved(w.e.permits[Min(live)]) \in Nat
    BY <1>0, <2>1, ReservedType DEF Entry
  <2>3. w.e.flowSeq \in FlowSeq
    BY <1>0 DEF Entry
  <2>4. answer \in [flowSeq : FlowSeq, max : Nat]
    BY <2>2, <2>3 DEF OkToSend
  <2> HIDE DEF answer
  <2>5. r \in Work /\ r.e = w.e /\ r.requests = w.requests /\ r.permits = w.permits
    BY <1>0, <2>4 DEF Work
  <2>6. NoteRequest(w, s, f, seq) = r
    BY <1>1 DEF NoteRequest, answer
  <2> HIDE DEF r
  <2>7. QED
    BY <1>0, <2>5, <2>6 DEF Handled, Agrees
<1>2. CASE live = {}
  <2>1. NoteRequest(w, s, f, seq) = Acknowledged(Queued(w, s), f, seq)
    BY <1>2 DEF NoteRequest
  <2>2. Queued(w, s) \in Work /\ Agrees(Queued(w, s), s)
    BY <1>0, QueuedAgrees
  <2>3. QED
    BY <2>1, <2>2, AcknowledgedHandled
<1>3. QED
  BY <1>1, <1>2

LEMMA NoteDoneHandled ==
  ASSUME NEW s \in Senders, NEW w, Handled(w, s), NEW f
  PROVE  Handled(NoteDone(w, s, f), s)
<1> DEFINE r == Revoked(w, s, Ended(w.e, f))
           d == [r EXCEPT !.e.state = "idle", !.requests = Without(@, {s})]
<1>1. Ended(w.e, f) \in SUBSET Places
  BY DEF Ended, Active
<1>2. Handled(r, s)
  BY <1>1, RevokedHandled
<1>3. NoteDone(w, s, f) = IF f = w.e.flowSeq THEN d ELSE r
  BY DEF NoteDone
<1> HIDE DEF r
<1>4. r \in Work /\ Agrees(r, s) /\ Named(r.e)
  BY <1>2 DEF Handled
<1>5. /\ Without(r.requests, {s}) \in Seq(Senders)
      /\ ToSet(Without(r.requests, {s})) = ToSet(r.requests) \ {s}
      /\ IsInjective(r.requests) => IsInjective(Without(r.requests, {s}))
  BY <1>4, WithoutKeepsOthers DEF Work
<1>6. /\ d \in Work /\ d.e.state = "idle" /\ d.e.permits = r.e.permits
      /\ d.e.flowSeq = r.e.flowSeq
      /\ d.requests = Without(r.requests, {s}) /\ d.permits = r.permits
  BY <1>4, <1>5 DEF Work, Entry
<1> HIDE DEF d
<1>7. Handled(d, s)
  BY <1>4, <1>5, <1>6 DEF Handled, Agrees, Named, Active
<1>8. QED
  BY <1>2, <1>3, <1>7

LEMMA UpdateNumHandled ==
  ASSUME NEW s \in Senders, NEW w, Handled(w, s), NEW f, NEW n \in Nat
  PROVE  Handled(UpdateNumReserved(w, f, n), s)
<1> DEFINE live == OfFlow(w.e, f)
           k == Min(live)
           r == [w EXCEPT !.e.permits[k].num = n]
<1>0. w \in Work /\ w.e \in Entry /\ Agrees(w, s) /\ Named(w.e)
  BY DEF Handled, Work
<1>1. CASE live = {}
  BY <1>1 DEF UpdateNumReserved
<1>2. CASE live # {}
  <2>1. k \in Places
    BY <1>0, <1>2, LivePermit
  <2>2. UpdateNumReserved(w, f, n) = r
    BY <1>2 DEF UpdateNumReserved
  <2> HIDE DEF k
  <2>3. /\ r \in Work /\ r.e.state = w.e.state /\ r.e.flowSeq = w.e.flowSeq
        /\ r.requests = w.requests /\ r.permits = w.permits
        /\ \A j \in Places : r.e.permits[j].flowSeq = w.e.permits[j].flowSeq
    <3> DEFINE after == [w.e.permits EXCEPT ![k].num = n]
    <3>1. /\ after \in [Places -> SendPermit]
          /\ \A j \in Places : after[j].flowSeq = w.e.permits[j].flowSeq
      BY <1>0, <2>1 DEF Entry, SendPermit
    <3>2. r = [w EXCEPT !.e.permits = after]
      BY <1>0 DEF Work, Entry
    <3> HIDE DEF after, r
    <3>3. QED
      BY <1>0, <3>1, <3>2 DEF Work, Entry
  <2> HIDE DEF r
  <2>4. Active(r.e) = Active(w.e)
    BY <2>3 DEF Active
  <2>5. QED
    BY <1>0, <2>2, <2>3, <2>4 DEF Handled, Agrees, Named
<1>3. QED
  BY <1>1, <1>2

\* A flow message leaves the lists right.
LEMMA DoFlowRequestHandled ==
  ASSUME TypeOK, ListsAgree, FlowNamed, NEW s \in Senders, NEW msg \in FlowMsgs,
         DoFlowRequest(s, msg)
  PROVE  \E w : Handled(w, s) /\ Becomes(s, w)
<1> DEFINE c == Current(s)
<1>1. Handled(c, s)
  BY CurrentHandled
<1>2. msg.flowSeq \in FlowSeqId /\ msg.flowSeq \in FlowSeq /\ msg.packets \in Nat /\ msg.sendSeq \in Nat
  BY DEF FlowMsgs, FlowSeqId, FlowSeq
<1> HIDE DEF c
<1>3. CASE Becomes(s, NoteRequest(c, s, msg.flowSeq, msg.sendSeq))
  BY <1>1, <1>2, <1>3, NoteRequestHandled
<1>4. CASE Becomes(s, UpdateNumReserved(c, msg.flowSeq, msg.packets))
  BY <1>1, <1>2, <1>4, UpdateNumHandled
<1>5. CASE Becomes(s, NoteDone(c, s, msg.flowSeq))
  BY <1>1, <1>5, NoteDoneHandled
<1>6. CASE Becomes(s, NoteRequest(NoteDone(c, s, msg.flowSeq), s,
                                  NextFlowSeq(msg.flowSeq), msg.sendSeq))
  <2>1. Handled(NoteDone(c, s, msg.flowSeq), s)
    BY <1>1, NoteDoneHandled
  <2>2. NextFlowSeq(msg.flowSeq) \in FlowSeqId
    BY <1>2, NextFlowSeqId
  <2>3. Handled(NoteRequest(NoteDone(c, s, msg.flowSeq), s,
                            NextFlowSeq(msg.flowSeq), msg.sendSeq), s)
    BY <1>2, <2>1, <2>2, NoteRequestHandled
  <2>4. QED
    BY <1>6, <2>3
<1>7. QED
  BY <1>3, <1>4, <1>5, <1>6 DEF DoFlowRequest, c

\* An expired permit is revoked; its sender is queued again, unless it is given
\* up.
LEMMA ExpirePermitHandled ==
  ASSUME TypeOK, ListsAgree, FlowNamed, ExpirePermit
  PROVE  \E s \in Senders : \E w : Handled(w, s) /\ Becomes(s, w)
<1> DEFINE s == Head(pendingPermits)[1]
           k == Head(pendingPermits)[2]
           w == Revoked(Current(s), s, {k})
           t == w.e.timeouts + 1
           counted == [w EXCEPT !.e.timeouts = Min({t, udpMaxPermitDeadTimeouts + 1})]
           idle == [counted EXCEPT !.e.state = "idle"]
<1>1. s \in Senders /\ k \in Places /\ <<s, k>> \in ToSet(pendingPermits)
  <2>1. pendingPermits \in Seq(Senders \X Places) /\ pendingPermits # <<>>
    BY DEF TypeOK, ExpirePermit
  <2>2. /\ Head(pendingPermits) \in Senders \X Places
        /\ Head(pendingPermits) = pendingPermits[1] /\ 1 \in DOMAIN pendingPermits
    BY <2>1
  <2>3. QED
    BY <2>2 DEF ToSet
<1>2. entry[s].flowSeq # 0
  BY <1>1 DEF ListsAgree, FlowNamed
<1>3. /\ \/ Becomes(s, Queued(counted, s))
         \/ Becomes(s, counted)
         \/ Becomes(s, idle) /\ Active(w.e) = {} /\ w.e.state # "requested"
  BY Zenon DEF ExpirePermit
<1>4. /\ Handled(w, s) /\ w.e.flowSeq # 0
  <2>1. Handled(Current(s), s) /\ Current(s).e.flowSeq = entry[s].flowSeq
    BY <1>1, CurrentHandled DEF Current
  <2>2. QED
    BY <1>1, <1>2, <2>1, RevokedHandled
<1> HIDE DEF s, k, w
<1>5. w \in Work /\ w.e \in Entry /\ Agrees(w, s) /\ Named(w.e)
  BY <1>4 DEF Handled, Work
<1>6. Min({t, udpMaxPermitDeadTimeouts + 1}) \in 0 .. udpMaxPermitDeadTimeouts + 1
  <2>1. t \in Nat /\ udpMaxPermitDeadTimeouts + 1 \in Nat
    BY <1>5, ReceiverAssumption DEF Entry
  <2>2. /\ Min({t, udpMaxPermitDeadTimeouts + 1}) \in {t, udpMaxPermitDeadTimeouts + 1}
        /\ Min({t, udpMaxPermitDeadTimeouts + 1}) <= udpMaxPermitDeadTimeouts + 1
    BY <2>1, MinNat
  <2>3. QED
    BY <2>1, <2>2
<1>7. /\ counted \in Work /\ counted.e.state = w.e.state /\ counted.e.flowSeq = w.e.flowSeq
      /\ counted.e.permits = w.e.permits
      /\ counted.requests = w.requests /\ counted.permits = w.permits
  BY <1>5, <1>6 DEF Work, Entry
<1> HIDE DEF counted
<1>8. Agrees(counted, s) /\ Named(counted.e)
  BY <1>5, <1>7 DEF Agrees, Named, Active
<1>9. CASE Becomes(s, Queued(counted, s))
  <2>1. Queued(counted, s) \in Work /\ Agrees(Queued(counted, s), s)
    BY <1>1, <1>7, <1>8, QueuedAgrees
  <2>2. Queued(counted, s).e.flowSeq = counted.e.flowSeq
    BY <1>7 DEF Queued, Work, Entry
  <2>3. Handled(Queued(counted, s), s)
    BY <1>4, <1>7, <2>1, <2>2 DEF Handled, Named
  <2>4. QED
    BY <1>1, <1>9, <2>3
<1>10. CASE Becomes(s, counted)
  BY <1>1, <1>7, <1>8, <1>10 DEF Handled
<1>11. CASE Becomes(s, idle) /\ Active(w.e) = {} /\ w.e.state # "requested"
  <2>1. /\ idle \in Work /\ idle.e.state = "idle" /\ idle.e.permits = counted.e.permits
        /\ idle.requests = counted.requests /\ idle.permits = counted.permits
    BY <1>7 DEF Work, Entry
  <2> HIDE DEF idle
  <2>2. Active(idle.e) = {}
    BY <1>7, <1>11, <2>1 DEF Active
  <2>3. Agrees(idle, s) /\ Named(idle.e)
    BY <1>7, <1>8, <1>11, <2>1, <2>2 DEF Agrees, Named, Active
  <2>4. QED
    BY <1>1, <1>11, <2>1, <2>3 DEF Handled
<1>12. QED
  BY <1>3, <1>9, <1>10, <1>11

\* The permit a grant writes is an unused one of a sender that waits; no other
\* one changes.
GrantedTo(s, k, slots) ==
  /\ k \in Places \ Active(entry[s])
  /\ entry'[s].permits[k].num = slots
  /\ \A u \in Senders, j \in Places :
       <<u, j>> # <<s, k>> => entry'[u].permits[j] = entry[u].permits[j]
  /\ pendingPermits' = Append(pendingPermits, <<s, k>>)

LEMMA GrantHandled ==
  ASSUME TypeOK, ListsAgree, FlowNamed, NEW s \in Senders, NEW slots \in Nat,
         entry[s].state = "requested", Active(entry[s]) # Places,
         Len(pendingPermits) < udpMaxPendingPermits, Grant(s, slots)
  PROVE  /\ \E w : Handled(w, s) /\ Becomes(s, w)
         /\ \E k \in Places : GrantedTo(s, k, slots)
<1> DEFINE c == Current(s)
           k == Min(Places \ Active(c.e))
           permit == [flowSeq |-> c.e.flowSeq, num |-> slots, sendSeq |-> c.e.sendSeq]
           w == [c EXCEPT !.e.permits[k] = permit,
                          !.e.state  = "granted",
                          !.requests = Without(@, {s}),
                          !.permits  = Append(@, <<s, k>>),
                          !.ok       = OkToSend(c.e, slots)]
<1>1. Becomes(s, w)
  BY Zenon DEF Grant
<1>2. /\ c.e = entry[s] /\ c.requests = pendingRequests /\ c.permits = pendingPermits
      /\ Handled(c, s)
  BY CurrentHandled DEF Current
<1> HIDE DEF c
<1>3. c \in Work /\ c.e \in Entry /\ Agrees(c, s) /\ c.e.flowSeq # 0
  BY <1>2 DEF Handled, Work, Named
<1>4. k \in Places /\ k \notin Active(c.e)
  <2>1. Places \ Active(c.e) \in SUBSET Nat /\ Places \ Active(c.e) # {}
    BY <1>2, ReceiverAssumption DEF Active, Places
  <2>2. k \in Places \ Active(c.e)
    BY <2>1, MinNat
  <2>3. QED
    BY <2>2
<1> HIDE DEF k
<1>5. permit \in SendPermit /\ permit.flowSeq # 0 /\ permit.num = slots
  BY <1>3 DEF SendPermit, Entry
<1>6. OkToSend(c.e, slots) \in [flowSeq : FlowSeq, max : Nat]
  BY <1>3 DEF OkToSend, Entry
<1> HIDE DEF permit
<1> DEFINE after == [c.e.permits EXCEPT ![k] = permit]
<1>7. /\ after \in [Places -> SendPermit] /\ after[k] = permit
      /\ \A j \in Places \ {k} : after[j] = c.e.permits[j]
  BY <1>3, <1>4, <1>5 DEF Entry
<1>8. /\ Without(c.requests, {s}) \in Seq(Senders)
      /\ ToSet(Without(c.requests, {s})) = ToSet(c.requests) \ {s}
      /\ IsInjective(c.requests) => IsInjective(Without(c.requests, {s}))
  BY <1>3, WithoutKeepsOthers DEF Work
<1>9. <<s, k>> \notin ToSet(c.permits)
  BY <1>3, <1>4 DEF Agrees
<1>10. /\ Append(c.permits, <<s, k>>) \in Seq(Senders \X Places)
       /\ Len(Append(c.permits, <<s, k>>)) = Len(c.permits) + 1
       /\ ToSet(Append(c.permits, <<s, k>>)) = ToSet(c.permits) \cup {<<s, k>>}
       /\ IsInjective(c.permits) => IsInjective(Append(c.permits, <<s, k>>))
  BY <1>3, <1>4, <1>9, AppendElements, SMTT(30) DEF Work
<1>11. /\ w.e.permits = after /\ w.e.state = "granted" /\ w.e.flowSeq = c.e.flowSeq
       /\ w.requests = Without(c.requests, {s}) /\ w.permits = Append(c.permits, <<s, k>>)
  BY <1>3, <1>4 DEF Work, Entry
<1>12. w \in Work
  <2>1. w = [c EXCEPT !.e.permits = after, !.e.state = "granted",
                      !.requests = Without(c.requests, {s}),
                      !.permits = Append(c.permits, <<s, k>>),
                      !.ok = OkToSend(c.e, slots)]
    BY <1>3, <1>4 DEF Work, Entry
  <2> HIDE DEF w, after
  <2>2. QED
    BY <1>3, <1>6, <1>7, <1>8, <1>10, <2>1 DEF Work, Entry
<1> HIDE DEF w, after
<1>13. Active(w.e) = Active(c.e) \cup {k}
  BY <1>4, <1>5, <1>7, <1>11 DEF Active
<1>14. Len(w.permits) <= udpMaxPendingPermits
  <2>1. Len(pendingPermits) \in Nat /\ udpMaxPendingPermits \in Nat
    BY <1>2, ReceiverAssumption DEF TypeOK
  <2>2. QED
    BY <1>2, <1>10, <1>11, <2>1
<1>15. Agrees(w, s)
  <2>1. s \notin ToSet(w.requests) /\ w.e.state # "requested"
    BY <1>8, <1>11
  <2>2. \A j \in Places : <<s, j>> \in ToSet(w.permits) <=> j \in Active(w.e)
    BY <1>3, <1>4, <1>10, <1>11, <1>13, SMTT(30) DEF Agrees
  <2>3. ASSUME NEW u \in Senders \ {s}
        PROVE  /\ u \in ToSet(w.requests) <=> u \in ToSet(c.requests)
               /\ \A j \in Places : <<u, j>> \in ToSet(w.permits) <=> <<u, j>> \in ToSet(c.permits)
    <3>1. u # s /\ \A j \in Places : <<u, j>> # <<s, k>>
      OBVIOUS
    <3>2. /\ ToSet(w.requests) = ToSet(c.requests) \ {s}
          /\ ToSet(w.permits) = ToSet(c.permits) \cup {<<s, k>>}
      BY <1>8, <1>10, <1>11
    <3>3. QED
      BY ONLY <3>1, <3>2, Zenon
  <2>4. IsInjective(w.requests) /\ IsInjective(w.permits)
    BY <1>3, <1>8, <1>10, <1>11 DEF Agrees
  <2>5. QED
    BY <1>3, <1>14, <2>1, <2>2, <2>3, <2>4 DEF Agrees
<1>16. GrantedTo(s, k, slots)
  <2>1. pendingPermits' = Append(pendingPermits, <<s, k>>)
    BY <1>1, <1>2, <1>11 DEF Becomes
  <2>2. entry'[s] = w.e /\ \A u \in Senders \ {s} : entry'[u] = entry[u]
    BY <1>1 DEF Becomes, TypeOK
  <2>3. QED
    BY <1>2, <1>4, <1>5, <1>7, <1>11, <2>1, <2>2 DEF GrantedTo
<1>17. Handled(w, s)
  BY <1>3, <1>11, <1>12, <1>15 DEF Handled, Named
<1>18. QED
  BY <1>1, <1>4, <1>16, <1>17

-----------------------------------------------------------------------------
(* What is reserved.                                                         *)

Reservation == [p \in Senders \X Places |-> ReservedBy(p)]

LEMMA ReservedAreSlots ==
  ASSUME TypeOK
  PROVE  /\ ReservedSlots = Slots(ToSet(pendingPermits), Reservation)
         /\ \A p \in Senders \X Places : Reservation[p] \in Nat /\ Reservation[p] = ReservedBy(p)
         /\ ToSet(pendingPermits) \subseteq Senders \X Places
         /\ IsFiniteSet(ReservedSlots) /\ Cardinality(ReservedSlots) \in Nat
<1> DEFINE P == ToSet(pendingPermits)
<1>1. pendingPermits \in Seq(Senders \X Places)
  BY DEF TypeOK
<1>2. P \subseteq Senders \X Places /\ IsFiniteSet(P)
  BY <1>1, ToSetFinite DEF ToSet
<1>3. ASSUME NEW p \in Senders \X Places
      PROVE  ReservedBy(p) \in Nat
  <2>1. entry[p[1]].permits[p[2]] \in SendPermit
    BY DEF TypeOK, Entry
  <2>2. QED
    BY <2>1, ReservedType DEF ReservedBy
<1>4. \A p \in Senders \X Places : Reservation[p] \in Nat /\ Reservation[p] = ReservedBy(p)
  BY <1>3 DEF Reservation
<1> HIDE DEF P
<1>5. Slots(P, Reservation) = UNION {{p} \X (1 .. ReservedBy(p)) : p \in P}
  <2>1. \A p \in P : Reservation[p] = ReservedBy(p)
    BY <1>2, <1>4
  <2>2. {{p} \X (1 .. Reservation[p]) : p \in P} = {{p} \X (1 .. ReservedBy(p)) : p \in P}
    BY <2>1, Zenon
  <2>3. QED
    BY <2>2 DEF Slots
<1>6. \A p \in P : Reservation[p] \in Nat
  BY <1>2, <1>4
<1>7. IsFiniteSet(Slots(P, Reservation))
  BY <1>2, <1>6, SlotsFinite
<1>8. ReservedSlots = Slots(P, Reservation)
  BY <1>5 DEF ReservedSlots, P
<1>9. QED
  BY <1>2, <1>4, <1>7, <1>8, FS_CardinalityType DEF P

\* A step that leaves the permits and the flow thread alone leaves what is
\* reserved covered.
LEMMA ReservedUnchanged ==
  ASSUME ReceiverInv, TypeOK', UNCHANGED <<pendingPermits, issued>>, flowPc' = flowPc,
         \A u \in Senders, k \in Places : entry'[u].permits[k] = entry[u].permits[k]
  PROVE  IssuedCovers'
<1>1. ToSet(pendingPermits) \subseteq Senders \X Places
  BY ReservedAreSlots DEF ReceiverInv
<1>2. \A p \in ToSet(pendingPermits) : entry'[p[1]].permits[p[2]] = entry[p[1]].permits[p[2]]
  BY <1>1
<1>3. {{p} \X (1 .. Reserved(entry[p[1]].permits[p[2]])) : p \in ToSet(pendingPermits)}
        = {{p} \X (1 .. Reserved(entry'[p[1]].permits[p[2]])) : p \in ToSet(pendingPermits)}
  BY <1>2, Zenon
<1>4. ReservedSlots' = ReservedSlots
  BY <1>3 DEF ReservedSlots, ReservedBy
<1>5. QED
  BY <1>4 DEF ReceiverInv, IssuedCovers

-----------------------------------------------------------------------------
(* The steps of the senders and of the network.                              *)

LEMMA MessageType ==
  ASSUME NEW cmd \in FlowSocketCmd \cup DataSocketCmd, NEW n \in Nat,
         NEW f \in FlowSeqId, NEW seq \in Nat
  PROVE  FlowMsg(cmd, n, f, seq) \in FlowMsgs
BY DEF FlowMsg, FlowMsgs

\* They change neither the receiver's lists nor its entries.
LEMMA OutsideStep ==
  ASSUME ReceiverInv, TypeOK', UNCHANGED <<entry, lists, flowVars>>,
         \A s \in Senders : waiting'[s] => cur'[s] # 0
  PROVE  ReceiverInv'
<1>1. ListsAgree' /\ FlowNamed'
  BY DEF ReceiverInv, ListsAgree, FlowNamed, lists, Active
<1>2. IssuedCovers'
  BY ReservedUnchanged DEF lists, flowVars
<1>3. QED
  BY <1>1, <1>2 DEF ReceiverInv

LEMMA SenderRequestsStep ==
  ASSUME ReceiverInv, NEW s \in Senders, SenderRequests(s)
  PROVE  ReceiverInv'
<1>1. cur[s] \in FlowSeq /\ nextSend[s] \in Nat /\ cur'[s] = NextFlowSeq(cur[s])
  BY DEF ReceiverInv, TypeOK, SenderRequests
<1>2. cur'[s] \in FlowSeqId /\ cur'[s] \in FlowSeq /\ cur'[s] # 0
  BY <1>1, NextFlowSeqId DEF FlowSeqId
<1>3. Request(s, cur'[s]) \in FlowMsgs
  BY <1>1, <1>2, MessageType DEF Request, FlowSocketCmd
<1>4. TypeOK'
  <2>1. flowNet' \in [Senders -> Seq(FlowMsgs)]
    BY <1>3 DEF ReceiverInv, TypeOK, SenderRequests
  <2>2. cur' \in [Senders -> FlowSeq] /\ waiting' \in [Senders -> BOOLEAN]
    BY <1>2 DEF ReceiverInv, TypeOK, SenderRequests
  <2>3. QED
    BY <2>1, <2>2 DEF ReceiverInv, TypeOK, SenderRequests, lists, flowVars
<1>5. \A u \in Senders : waiting'[u] => cur'[u] # 0
  BY <1>2 DEF ReceiverInv, TypeOK, FlowNamed, SenderRequests
<1>6. QED
  BY <1>4, <1>5, OutsideStep DEF SenderRequests

LEMMA SenderRepeatsStep ==
  ASSUME ReceiverInv, NEW s \in Senders, SenderRepeats(s)
  PROVE  ReceiverInv'
<1>1. cur[s] \in FlowSeqId /\ nextSend[s] \in Nat
  BY DEF ReceiverInv, TypeOK, FlowNamed, SenderRepeats, FlowSeq, FlowSeqId
<1>2. Request(s, cur[s]) \in FlowMsgs
  BY <1>1, MessageType DEF Request, FlowSocketCmd
<1>3. TypeOK'
  <2>1. flowNet' \in [Senders -> Seq(FlowMsgs)]
    BY <1>2 DEF ReceiverInv, TypeOK, SenderRepeats
  <2>2. QED
    BY <2>1 DEF ReceiverInv, TypeOK, SenderRepeats, lists, flowVars, senderVars
<1>4. QED
  BY <1>3, OutsideStep DEF ReceiverInv, FlowNamed, SenderRepeats, senderVars

LEMMA SenderSendsStep ==
  ASSUME ReceiverInv, NEW s \in Senders, SenderSends(s)
  PROVE  ReceiverInv'
<1>1. PICK n \in 0 .. okToSend[s].max, r \in 0 .. MaxResend, more \in BOOLEAN :
        SendPackets(s, n, r, more)
  BY DEF SenderSends
<1> DEFINE after == nextSend[s] + n
           next  == NextFlowSeq(cur[s])
           start == IF n + r > 0 THEN <<FlowMsg("send_start", n + r, cur[s], after)>> ELSE <<>>
           rts   == IF more /\ udpAllowAsyncPermits
                      THEN <<FlowMsg("request_to_send", 0, next, after)>> ELSE <<>>
           done  == FlowMsg(IF more /\ ~udpAllowAsyncPermits
                              THEN "request_to_send_more" ELSE "send_completed",
                            n + r, cur[s], after)
           resent == [i \in 1 .. r |-> Data(TRUE)]
           fresh  == [i \in 1 .. n |-> Data(FALSE)]
           DataMsgs == FlowMsgs \cup {Data(FALSE), Data(TRUE)}
<1>2. /\ cur[s] \in FlowSeqId /\ cur[s] \in FlowSeq /\ nextSend[s] \in Nat
      /\ okToSend[s].max \in Nat
  BY DEF ReceiverInv, TypeOK, SenderSends, FlowSeq, FlowSeqId
<1>3. n \in Nat /\ r \in Nat /\ n + r \in Nat /\ after \in Nat
  BY <1>2, ReceiverAssumption
<1>4. next \in FlowSeqId /\ next \in FlowSeq /\ next # 0
  BY <1>2, NextFlowSeqId DEF FlowSeqId
<1> HIDE DEF after, next
<1>5. start \in Seq(FlowMsgs) /\ rts \in Seq(FlowMsgs) /\ done \in FlowMsgs
  <2>1. /\ FlowMsg("send_start", n + r, cur[s], after) \in FlowMsgs
        /\ FlowMsg("request_to_send", 0, next, after) \in FlowMsgs
        /\ FlowMsg("request_to_send_more", n + r, cur[s], after) \in FlowMsgs
        /\ FlowMsg("send_completed", n + r, cur[s], after) \in FlowMsgs
    BY <1>2, <1>3, <1>4, MessageType DEF FlowSocketCmd, DataSocketCmd
  <2>2. QED
    BY <2>1
<1> HIDE DEF start, rts, done
<1>6. resent \o fresh \in Seq(DataMsgs)
  <2>1. resent \in Seq(DataMsgs) /\ fresh \in Seq(DataMsgs)
    BY <1>3
  <2> HIDE DEF resent, fresh, DataMsgs
  <2>2. QED
    BY <2>1, ConcatProperties
<1>7. flowNet' \in [Senders -> Seq(FlowMsgs)]
  <2>1. flowNet' = [flowNet EXCEPT ![s] = @ \o start \o rts]
    BY <1>1 DEF SendPackets, start, rts, after, next
  <2>2. flowNet \in [Senders -> Seq(FlowMsgs)]
    BY DEF ReceiverInv, TypeOK
  <2>3. flowNet[s] \o start \o rts \in Seq(FlowMsgs)
    BY <1>5, <2>2, ConcatProperties
  <2>4. QED
    BY <2>1, <2>2, <2>3
<1>8. dataNet' \in [Senders -> Seq(DataMsgs)]
  <2>1. dataNet' = [dataNet EXCEPT ![s] = Append(@ \o (resent \o fresh), done)]
    BY <1>1 DEF SendPackets, done, after
  <2>2. dataNet \in [Senders -> Seq(DataMsgs)] /\ done \in DataMsgs
    BY <1>5 DEF ReceiverInv, TypeOK
  <2> HIDE DEF resent, fresh, DataMsgs
  <2>3. dataNet[s] \o (resent \o fresh) \in Seq(DataMsgs)
    BY <1>6, <2>2, ConcatProperties
  <2>4. Append(dataNet[s] \o (resent \o fresh), done) \in Seq(DataMsgs)
    BY <2>2, <2>3, AppendProperties
  <2>5. QED
    BY <2>1, <2>2, <2>4
<1>9. /\ nextSend' = [nextSend EXCEPT ![s] = after]
      /\ waiting' = [waiting EXCEPT ![s] = more]
      /\ cur' = [cur EXCEPT ![s] = IF more THEN next ELSE @]
  BY <1>1 DEF SendPackets, after, next
<1>10. /\ nextSend' \in [Senders -> Nat] /\ waiting' \in [Senders -> BOOLEAN]
       /\ cur' \in [Senders -> FlowSeq]
  BY <1>2, <1>3, <1>4, <1>9 DEF ReceiverInv, TypeOK
<1>11. okToSend' \in [Senders -> [flowSeq : FlowSeq, max : Nat]]
  <2>1. NoOkToSend \in [flowSeq : FlowSeq, max : Nat]
    BY FlowModAssumption DEF NoOkToSend, FlowSeq
  <2>2. QED
    BY <2>1 DEF ReceiverInv, TypeOK, SenderSends
<1>12. TypeOK'
  BY <1>7, <1>8, <1>10, <1>11 DEF ReceiverInv, TypeOK, SenderSends, lists, flowVars
<1>13. \A u \in Senders : waiting'[u] => cur'[u] # 0
  BY <1>2, <1>4, <1>9 DEF ReceiverInv, TypeOK, FlowNamed, FlowSeqId
<1>14. QED
  BY <1>12, <1>13, OutsideStep DEF SenderSends

LEMMA TailType ==
  ASSUME NEW T, NEW N \in [Senders -> Seq(T)], NEW s \in Senders, N[s] # <<>>
  PROVE  /\ [N EXCEPT ![s] = Tail(@)] \in [Senders -> Seq(T)]
         /\ Head(N[s]) \in T
OBVIOUS

LEMMA NetworkStep ==
  ASSUME ReceiverInv, NEW s \in Senders, Network(s)
  PROVE  ReceiverInv'
<1>1. TypeOK' /\ UNCHANGED <<entry, lists, flowVars, senderVars>>
  <2>1. CASE LoseFlow(s)
    <3>1. flowNet' \in [Senders -> Seq(FlowMsgs)]
      BY <2>1, TailType DEF ReceiverInv, TypeOK, LoseFlow
    <3>2. QED
      BY <2>1, <3>1 DEF ReceiverInv, TypeOK, LoseFlow, lists, flowVars, senderVars
  <2>2. CASE LoseData(s)
    <3>1. dataNet' \in [Senders -> Seq(FlowMsgs \cup {Data(FALSE), Data(TRUE)})]
      BY <2>2, TailType DEF ReceiverInv, TypeOK, LoseData
    <3>2. QED
      BY <2>2, <3>1 DEF ReceiverInv, TypeOK, LoseData, lists, flowVars, senderVars
  <2>3. QED
    BY <2>1, <2>2 DEF Network
<1>2. QED
  BY <1>1, OutsideStep DEF ReceiverInv, FlowNamed, senderVars

-----------------------------------------------------------------------------
(* The data thread and the collator.                                         *)

DataMsgs == FlowMsgs \cup {Data(FALSE), Data(TRUE)}

\* Steps that keep every sender's state, request and active permits.
LEMMA EntriesStep ==
  ASSUME ReceiverInv, UNCHANGED <<lists, senderVars>>,
         \A u \in Senders :
           /\ entry'[u].state = entry[u].state /\ entry'[u].flowSeq = entry[u].flowSeq
           /\ \A k \in Places : entry'[u].permits[k].flowSeq = entry[u].permits[k].flowSeq
  PROVE  ListsAgree' /\ FlowNamed'
<1>1. \A u \in Senders : Active(entry[u])' = Active(entry[u])
  BY DEF Active
<1>2. pendingRequests' = pendingRequests /\ pendingPermits' = pendingPermits
      /\ waiting' = waiting /\ cur' = cur
  BY DEF lists, senderVars
<1>3. ListsAgree'
  BY <1>1, <1>2 DEF ReceiverInv, ListsAgree
<1>4. FlowNamed'
  BY <1>1, <1>2 DEF ReceiverInv, FlowNamed
<1>5. QED
  BY <1>3, <1>4

LEMMA ReadDataStep ==
  ASSUME ReceiverInv, NEW s \in Senders, ReadData(s)
  PROVE  ReceiverInv'
<1>1. dataNet' \in [Senders -> Seq(DataMsgs)]
  BY TailType DEF ReceiverInv, TypeOK, ReadData, DataMsgs
<1>2. /\ dataThread' \in DataThread /\ entry' \in [Senders -> Entry]
      /\ \A u \in Senders : /\ entry'[u].state = entry[u].state
                            /\ entry'[u].flowSeq = entry[u].flowSeq
                            /\ entry'[u].permits = entry[u].permits
  <2>1. entry \in [Senders -> Entry]
    BY DEF ReceiverInv, TypeOK
  <2>2. \/ dataThread' = Pushing /\ entry' = entry
        \/ \E msgSeq \in 1 .. MaxMsgSeq : \E k \in PermitFor(entry[s], msgSeq) :
             dataThread' = Counting(s, k) /\ entry' = [entry EXCEPT ![s].last = k]
    BY DEF ReadData
  <2>3. CASE dataThread' = Pushing /\ entry' = entry
    BY <2>1, <2>3 DEF DataThread
  <2>4. ASSUME NEW msgSeq \in 1 .. MaxMsgSeq, NEW k \in PermitFor(entry[s], msgSeq),
               dataThread' = Counting(s, k), entry' = [entry EXCEPT ![s].last = k]
        PROVE  /\ dataThread' \in DataThread /\ entry' \in [Senders -> Entry]
               /\ \A u \in Senders : /\ entry'[u].state = entry[u].state
                                     /\ entry'[u].flowSeq = entry[u].flowSeq
                                     /\ entry'[u].permits = entry[u].permits
    <3>1. k \in Places
      BY DEF PermitFor, Active
    <3>2. dataThread' \in DataThread
      BY <2>4, <3>1 DEF DataThread
    <3>3. QED
      BY <2>1, <2>4, <3>1, <3>2 DEF Entry
  <2>5. QED
    BY <2>2, <2>3, <2>4
<1>3. TypeOK'
  BY <1>1, <1>2 DEF ReceiverInv, TypeOK, ReadData, lists, flowVars, senderVars, DataMsgs
<1>4. ListsAgree' /\ FlowNamed'
  BY <1>2, EntriesStep DEF ReadData
<1>5. IssuedCovers'
  BY <1>2, <1>3, ReservedUnchanged DEF ReadData, lists, flowVars
<1>6. QED
  BY <1>3, <1>4, <1>5 DEF ReceiverInv

\* A packet that is counted takes at most what was reserved.
LEMMA CountDataStep ==
  ASSUME ReceiverInv, CountData
  PROVE  ReceiverInv'
<1> DEFINE s == dataThread.from
           k == dataThread.place
<1>1. s \in Senders /\ k \in Places
  BY DEF ReceiverInv, TypeOK, DataThread, Reading, Pushing, Counting, CountData
<1>2. entry \in [Senders -> Entry]
  BY DEF ReceiverInv, TypeOK
<1>0. /\ dataThread' = Pushing
      /\ UNCHANGED <<lists, queued, flowVars, netVars, okToSend, senderVars>>
  BY DEF CountData
<1> HIDE DEF s, k
<1> DEFINE after == [entry[s].permits EXCEPT ![k].num = @ - 1]
<1>3. /\ after \in [Places -> SendPermit]
      /\ after[k].num = entry[s].permits[k].num - 1
      /\ \A j \in Places : after[j].flowSeq = entry[s].permits[j].flowSeq
      /\ \A j \in Places \ {k} : after[j] = entry[s].permits[j]
  BY <1>1, <1>2 DEF Entry, SendPermit
<1>4. entry' = [entry EXCEPT ![s].permits = after]
  <2>1. entry' = [entry EXCEPT ![s].permits[k].num = @ - 1]
    BY DEF CountData, s, k
  <2>2. QED
    BY <1>1, <1>2, <2>1 DEF Entry
<1> HIDE DEF after
<1>5. /\ entry' \in [Senders -> Entry]
      /\ \A u \in Senders : /\ entry'[u].state = entry[u].state
                            /\ entry'[u].flowSeq = entry[u].flowSeq
                            /\ entry'[u].permits = IF u = s THEN after ELSE entry[u].permits
  BY <1>1, <1>2, <1>3, <1>4 DEF Entry
<1>6. TypeOK'
  <2>1. dataThread' \in DataThread
    BY <1>0 DEF DataThread
  <2>2. QED
    BY <1>0, <1>5, <2>1 DEF ReceiverInv, TypeOK, lists, flowVars, senderVars, netVars
<1>7. ListsAgree' /\ FlowNamed'
  <2>1. \A u \in Senders :
          /\ entry'[u].state = entry[u].state /\ entry'[u].flowSeq = entry[u].flowSeq
          /\ \A j \in Places : entry'[u].permits[j].flowSeq = entry[u].permits[j].flowSeq
    BY <1>3, <1>5
  <2>2. QED
    BY <1>0, <2>1, EntriesStep
<1>8. \A p \in Senders \X Places : ReservedBy(p) \in Nat /\ ReservedBy(p)' \in Nat
                                   /\ ReservedBy(p)' <= ReservedBy(p)
  <2>1. ASSUME NEW u \in Senders, NEW j \in Places
        PROVE  /\ Reserved(entry[u].permits[j]) \in Nat /\ Reserved(entry'[u].permits[j]) \in Nat
               /\ Reserved(entry'[u].permits[j]) <= Reserved(entry[u].permits[j])
    <3>1. entry[u].permits[j] \in SendPermit /\ entry'[u].permits[j] \in SendPermit
      BY <1>2, <1>5 DEF Entry
    <3>2. \/ entry'[u].permits[j] = entry[u].permits[j]
          \/ entry'[u].permits[j].num = entry[u].permits[j].num - 1
      BY <1>3, <1>5
    <3>3. QED
      BY <3>1, <3>2 DEF Reserved, SendPermit
  <2>2. QED
    BY <2>1 DEF ReservedBy
<1>9. /\ Cardinality(ReservedSlots') <= Cardinality(ReservedSlots)
      /\ Cardinality(ReservedSlots) \in Nat /\ Cardinality(ReservedSlots') \in Nat
  <2>1. ToSet(pendingPermits) \subseteq Senders \X Places /\ IsFiniteSet(ReservedSlots)
    BY ReservedAreSlots DEF ReceiverInv
  <2>2. pendingPermits' = pendingPermits
    BY <1>0 DEF lists
  <2>3. ReservedSlots' \subseteq ReservedSlots
    <3>1. ASSUME NEW p \in ToSet(pendingPermits), NEW i \in 1 .. ReservedBy(p)'
          PROVE  i \in 1 .. ReservedBy(p)
      BY <1>8, <2>1
    <3>2. QED
      BY <2>2, <3>1 DEF ReservedSlots
  <2>4. QED
    BY <2>1, <2>3, FS_Subset, FS_CardinalityType
<1>10. IssuedCovers'
  <2>1. issued \in Nat /\ issued' = issued /\ flowPc' = flowPc
    BY <1>0 DEF ReceiverInv, TypeOK, flowVars
  <2>2. QED
    BY <1>9, <2>1 DEF ReceiverInv, IssuedCovers
<1>11. QED
  BY <1>6, <1>7, <1>10 DEF ReceiverInv

LEMMA ForwardFlowStep ==
  ASSUME ReceiverInv, NEW s \in Senders, ForwardFlow(s)
  PROVE  ReceiverInv'
<1>1. /\ dataNet' \in [Senders -> Seq(DataMsgs)] /\ Head(dataNet[s]) \in DataMsgs
      /\ Head(dataNet[s]).cmd # "data"
  BY TailType DEF ReceiverInv, TypeOK, ForwardFlow, DataMsgs
<1>2. Head(dataNet[s]) \in FlowMsgs
  BY <1>1 DEF DataMsgs, Data
<1>3. flowNet' \in [Senders -> Seq(FlowMsgs)]
  <2> DEFINE forwarded == {i \in DOMAIN flowNet[s] : flowNet[s][i].cmd \in DataSocketCmd}
  <2>1. PICK arrived \in Max({0} \cup forwarded) .. Len(flowNet[s]) :
          flowNet' = [flowNet EXCEPT ![s] = InsertAt(@, arrived + 1, Head(dataNet[s]))]
    BY DEF ForwardFlow
  <2>2. flowNet \in [Senders -> Seq(FlowMsgs)]
    BY DEF ReceiverInv, TypeOK
  <2>3. arrived + 1 \in 1 .. Len(flowNet[s]) + 1
    <3>1. forwarded \subseteq 1 .. Len(flowNet[s]) /\ Len(flowNet[s]) \in Nat
      BY <2>2
    <3> HIDE DEF forwarded
    <3>2. {0} \cup forwarded \in SUBSET (0 .. Len(flowNet[s])) /\ {0} \cup forwarded # {}
      BY <3>1
    <3>3. Max({0} \cup forwarded) \in Nat
      <4> DEFINE known == {0} \cup forwarded
                 len == Len(flowNet[s])
      <4>1. len \in Nat /\ known \in SUBSET (0 .. len) /\ known # {}
        BY <3>1, <3>2
      <4> HIDE DEF known, len
      <4>2. Max(known) \in known
        BY <4>1, MaxNat
      <4>3. QED
        BY <4>1, <4>2 DEF known
    <3>4. QED
      BY <3>1, <3>3
  <2>4. InsertAt(flowNet[s], arrived + 1, Head(dataNet[s])) \in Seq(FlowMsgs)
    BY <1>2, <2>2, <2>3, InsertAtType
  <2>5. QED
    BY <2>1, <2>2, <2>4
<1>4. TypeOK'
  BY <1>1, <1>3 DEF ReceiverInv, TypeOK, ForwardFlow, lists, flowVars, senderVars, DataMsgs
<1>5. QED
  BY <1>4, OutsideStep DEF ReceiverInv, FlowNamed, ForwardFlow, senderVars

LEMMA QueueStep ==
  ASSUME ReceiverInv, PushData \/ Collate
  PROVE  ReceiverInv'
<1>1. TypeOK' /\ UNCHANGED <<entry, lists, flowVars, senderVars>>
  <2>1. CASE PushData
    <3>1. queued' \in Nat /\ dataThread' \in DataThread
      BY <2>1 DEF ReceiverInv, TypeOK, PushData, DataThread
    <3>2. QED
      BY <2>1, <3>1 DEF ReceiverInv, TypeOK, PushData, lists, flowVars, senderVars, netVars
  <2>2. CASE Collate
    <3>1. queued' \in Nat
      BY <2>2 DEF ReceiverInv, TypeOK, Collate
    <3>2. QED
      BY <2>2, <3>1 DEF ReceiverInv, TypeOK, Collate, lists, flowVars, senderVars, netVars
  <2>3. QED
    BY <2>1, <2>2
<1>2. QED
  BY <1>1, OutsideStep DEF ReceiverInv, FlowNamed, senderVars

-----------------------------------------------------------------------------
(* The flow thread.                                                          *)

LEMMA ReceiveFlowStep ==
  ASSUME ReceiverInv, NEW s \in Senders, ReceiveFlow(s)
  PROVE  ReceiverInv'
<1>1. PICK i \in DOMAIN flowNet[s] :
        /\ DoFlowRequest(s, flowNet[s][i])
        /\ flowNet' = [flowNet EXCEPT ![s] = RemoveAt(@, i)]
  BY DEF ReceiveFlow
<1>2. /\ flowPc' = "expire"
      /\ UNCHANGED <<queued, issued, dataThread, dataNet, senderVars>>
  BY DEF ReceiveFlow
<1>3. flowNet \in [Senders -> Seq(FlowMsgs)] /\ i \in 1 .. Len(flowNet[s])
  BY DEF ReceiverInv, TypeOK
<1>4. flowNet' \in [Senders -> Seq(FlowMsgs)] /\ flowNet[s][i] \in FlowMsgs
  <2>1. RemoveAt(flowNet[s], i) \in Seq(FlowMsgs)
    BY <1>3, RemoveAtType
  <2>2. QED
    BY <1>1, <1>3, <2>1
<1>5. PICK w : Handled(w, s) /\ Becomes(s, w)
  BY <1>1, <1>4, DoFlowRequestHandled DEF ReceiverInv
<1>6. /\ entry' \in [Senders -> Entry]
      /\ pendingRequests' \in Seq(Senders) /\ pendingPermits' \in Seq(Senders \X Places)
      /\ okToSend' \in [Senders -> [flowSeq : FlowSeq, max : Nat]]
      /\ ListsAgree' /\ FlowNamed'
  BY <1>2, <1>5, BecomesHandled DEF ReceiverInv
<1>7. TypeOK'
  BY <1>2, <1>4, <1>6 DEF ReceiverInv, TypeOK, senderVars
<1>8. QED
  BY <1>2, <1>6, <1>7 DEF ReceiverInv, IssuedCovers

LEMMA ExpirePermitStep ==
  ASSUME ReceiverInv, ExpirePermit
  PROVE  ReceiverInv'
<1>1. PICK s \in Senders : \E w : Handled(w, s) /\ Becomes(s, w)
  BY ExpirePermitHandled DEF ReceiverInv
<1>2. flowPc = "expire" /\ UNCHANGED <<queued, flowVars, dataThread, netVars, senderVars>>
  BY DEF ExpirePermit
<1>3. /\ entry' \in [Senders -> Entry]
      /\ pendingRequests' \in Seq(Senders) /\ pendingPermits' \in Seq(Senders \X Places)
      /\ okToSend' \in [Senders -> [flowSeq : FlowSeq, max : Nat]]
      /\ ListsAgree' /\ FlowNamed'
  BY <1>1, <1>2, BecomesHandled DEF ReceiverInv
<1>4. TypeOK'
  BY <1>2, <1>3 DEF ReceiverInv, TypeOK, flowVars, netVars, senderVars
<1>5. QED
  BY <1>2, <1>3, <1>4 DEF ReceiverInv, IssuedCovers, flowVars

LEMMA WaitStep ==
  ASSUME ReceiverInv, FlowTimeout \/ SumReserved
  PROVE  ReceiverInv'
<1>1. /\ UNCHANGED <<entry, lists, queued, dataThread, netVars, okToSend, senderVars>>
      /\ flowPc' \in {"wait", "expire", "grant"}
      /\ \/ flowPc' # "grant" /\ issued' = issued
         \/ issued' = Cardinality(ReservedSlots)
  BY DEF FlowTimeout, SumReserved
<1>2. Cardinality(ReservedSlots) \in Nat
  BY ReservedAreSlots DEF ReceiverInv
<1>3. TypeOK'
  BY <1>1, <1>2 DEF ReceiverInv, TypeOK, lists, netVars, senderVars
<1>4. ReservedSlots' = ReservedSlots
  BY <1>1 DEF ReservedSlots, ReservedBy, lists
<1>5. IssuedCovers'
  BY <1>1, <1>2, <1>4 DEF IssuedCovers
<1>6. ListsAgree' /\ FlowNamed'
  BY <1>1, EntriesStep
<1>7. QED
  BY <1>3, <1>5, <1>6 DEF ReceiverInv

\* The sender a grant picks waits and has an unused permit.
LEMMA AbleSender ==
  ASSUME TypeOK, ListsAgree, NEW blocked, Grantable(blocked) # {}
  PROVE  LET s == pendingRequests[Min(Grantable(blocked))] IN
         s \in Senders /\ entry[s].state = "requested" /\ Active(entry[s]) # Places
<1> DEFINE able == Grantable(blocked)
           i == Min(able)
<1>1. pendingRequests \in Seq(Senders) /\ able \subseteq DOMAIN pendingRequests
  BY DEF TypeOK, Grantable
<1>2. able \in SUBSET Nat /\ able # {}
  BY <1>1
<1>3. i \in able
  BY <1>2, MinNat
<1>4. i \in DOMAIN pendingRequests /\ Active(entry[pendingRequests[i]]) # Places
  BY <1>3 DEF Grantable
<1> HIDE DEF i
<1>5. pendingRequests[i] \in Senders /\ pendingRequests[i] \in ToSet(pendingRequests)
  BY <1>1, <1>4 DEF ToSet
<1>6. QED
  BY <1>4, <1>5 DEF ListsAgree, i

\* What a grant promises is no more than what is free.
LEMMA FreeSlotsBound ==
  ASSUME TypeOK, EnoughSlots
  PROVE  LET slots == Min({FreeSlots, maxSlotsPerSender, QueueSize - issued}) IN
         slots \in Nat /\ slots + issued + queued <= QueueSize
<1> DEFINE left == Max({0, QueueSize - queued})
           slots == Min({FreeSlots, maxSlotsPerSender, QueueSize - issued})
<1>1. /\ QueueSize \in Nat /\ queued \in Nat /\ issued \in Nat /\ maxSlotsPerSender \in Nat
      /\ udpMinSlotsPerSender \in Nat /\ udpMinSlotsPerSender >= 1
  BY ReceiverAssumption DEF TypeOK
<1>2. \A n \in Int : Max({0, n}) = IF n > 0 THEN n ELSE 0
  BY DEF Max
<1>3. left \in Nat /\ left = IF QueueSize > queued THEN QueueSize - queued ELSE 0
  BY <1>1, <1>2
<1> HIDE DEF left
<1>4. FreeSlots = IF left > issued THEN left - issued ELSE 0
  BY <1>1, <1>2, <1>3 DEF FreeSlots, left
<1>5. FreeSlots >= 1
  BY <1>1, <1>3, <1>4 DEF EnoughSlots
<1>6. FreeSlots \in Nat /\ FreeSlots = QueueSize - queued - issued
  BY <1>1, <1>3, <1>4, <1>5
<1>7. {FreeSlots, maxSlotsPerSender, QueueSize - issued} \in SUBSET Nat
  BY <1>1, <1>6
<1>8. slots \in Nat /\ slots <= FreeSlots
  BY <1>7, MinNat
<1> HIDE DEF slots
<1>9. QED
  BY <1>1, <1>6, <1>8 DEF slots

\* Either nobody is granted anything, or the first one that can be is.
LEMMA CheckPendingCases ==
  ASSUME ReceiverInv, CheckPending
  PROVE  \/ UNCHANGED <<entry, lists, okToSend>>
         \/ \E s \in Senders, slots \in Nat :
              /\ slots + issued + queued <= QueueSize
              /\ Grant(s, slots)
              /\ \E w : Handled(w, s) /\ Becomes(s, w)
              /\ \E k \in Places : GrantedTo(s, k, slots)
<1> DEFINE slots == Min({FreeSlots, maxSlotsPerSender, QueueSize - issued})
<1>1. CASE UNCHANGED <<entry, lists, okToSend>>
  BY <1>1
<1>2. CASE ~ UNCHANGED <<entry, lists, okToSend>>
  <2>1. PICK blocked : /\ Len(pendingPermits) < udpMaxPendingPermits
                       /\ EnoughSlots
                       /\ Grantable(blocked) # {}
                       /\ Grant(pendingRequests[Min(Grantable(blocked))], slots)
    BY <1>2 DEF CheckPending
  <2> DEFINE s == pendingRequests[Min(Grantable(blocked))]
  <2>2. s \in Senders /\ entry[s].state = "requested" /\ Active(entry[s]) # Places
    BY <2>1, AbleSender DEF ReceiverInv
  <2>3. slots \in Nat /\ slots + issued + queued <= QueueSize
    BY <2>1, FreeSlotsBound DEF ReceiverInv
  <2> HIDE DEF s, slots
  <2>4. Grant(s, slots)
    BY <2>1 DEF s, slots
  <2>5. /\ \E w : Handled(w, s) /\ Becomes(s, w)
        /\ \E k \in Places : GrantedTo(s, k, slots)
    BY <2>1, <2>2, <2>3, <2>4, GrantHandled DEF ReceiverInv
  <2>6. QED
    BY <2>2, <2>3, <2>4, <2>5
<1>3. QED
  BY <1>1, <1>2

LEMMA CheckPendingStep ==
  ASSUME ReceiverInv, CheckPending
  PROVE  ReceiverInv'
<1>1. /\ flowPc' = "wait" /\ issued' = 0
      /\ UNCHANGED <<queued, dataThread, netVars, senderVars>>
  BY DEF CheckPending
<1>2. CASE UNCHANGED <<entry, lists, okToSend>>
  <2>1. TypeOK'
    BY <1>1, <1>2 DEF ReceiverInv, TypeOK, lists, netVars, senderVars
  <2>2. ListsAgree' /\ FlowNamed'
    BY <1>1, <1>2, EntriesStep
  <2>3. QED
    BY <1>1, <2>1, <2>2 DEF ReceiverInv, IssuedCovers
<1>3. CASE \E s \in Senders : \E w : Handled(w, s) /\ Becomes(s, w)
  <2>1. /\ entry' \in [Senders -> Entry]
        /\ pendingRequests' \in Seq(Senders) /\ pendingPermits' \in Seq(Senders \X Places)
        /\ okToSend' \in [Senders -> [flowSeq : FlowSeq, max : Nat]]
        /\ ListsAgree' /\ FlowNamed'
    BY <1>1, <1>3, BecomesHandled DEF ReceiverInv
  <2>2. TypeOK'
    BY <1>1, <2>1 DEF ReceiverInv, TypeOK, netVars, senderVars
  <2>3. QED
    BY <1>1, <2>1, <2>2 DEF ReceiverInv, IssuedCovers
<1>4. QED
  BY <1>2, <1>3, CheckPendingCases

-----------------------------------------------------------------------------
(* The theorems.                                                             *)

LEMMA ReceiverInitially ==
  ASSUME Init
  PROVE  ReceiverInv
<1>1. TypeOK
  <2>1. Inactive \in SendPermit /\ 0 \in FlowSeq /\ NoOkToSend \in [flowSeq : FlowSeq, max : Nat]
    BY FlowModAssumption DEF Inactive, SendPermit, FlowSeq, NoOkToSend
  <2>2. 0 \in 0 .. udpMaxPermitDeadTimeouts + 1 /\ 1 \in Places
    BY ReceiverAssumption DEF Places
  <2>3. entry \in [Senders -> Entry]
    BY <2>1, <2>2 DEF Init, Entry
  <2>4. Reading \in DataThread
    BY DEF DataThread
  <2>5. QED
    BY <2>1, <2>3, <2>4 DEF Init, TypeOK
<1>2. ListsAgree
  <2>1. \A s \in Senders : Active(entry[s]) = {} /\ entry[s].state # "requested"
    BY DEF Init, Active, Inactive
  <2>2. Len(pendingPermits) <= udpMaxPendingPermits
    BY ReceiverAssumption DEF Init
  <2>3. QED
    BY <2>1, <2>2 DEF Init, ListsAgree, ToSet, IsInjective
<1>3. FlowNamed
  BY DEF Init, FlowNamed, Active, Inactive
<1>4. IssuedCovers
  BY DEF Init, IssuedCovers
<1>5. QED
  BY <1>1, <1>2, <1>3, <1>4 DEF ReceiverInv

LEMMA ReceiverStep ==
  ASSUME ReceiverInv, [Next]_vars
  PROVE  ReceiverInv'
<1>1. ASSUME NEW s \in Senders, Sender(s) PROVE ReceiverInv'
  BY <1>1, SenderRequestsStep, SenderRepeatsStep, SenderSendsStep DEF Sender
<1>2. ASSUME NEW s \in Senders, Network(s) PROVE ReceiverInv'
  BY <1>2, NetworkStep
<1>3. ASSUME NEW s \in Senders, ReceiveFlow(s) PROVE ReceiverInv'
  BY <1>3, ReceiveFlowStep
<1>4. ASSUME DataStep PROVE ReceiverInv'
  BY <1>4, ReadDataStep, ForwardFlowStep, CountDataStep, QueueStep DEF DataStep
<1>5. ASSUME UNCHANGED vars PROVE ReceiverInv'
  <2>1. TypeOK'
    BY <1>5 DEF ReceiverInv, TypeOK, vars, lists, flowVars, netVars, senderVars
  <2>2. QED
    BY <1>5, <2>1, OutsideStep DEF ReceiverInv, FlowNamed, vars, senderVars
<1>6. QED
  BY <1>1, <1>2, <1>3, <1>4, <1>5, QueueStep, WaitStep, ExpirePermitStep, CheckPendingStep
  DEF Next

THEOREM ReceiverInvariant == Spec => []ReceiverInv
BY ReceiverInitially, ReceiverStep, PTL DEF Spec

\* The variables of the receiver have their types in every reachable state
\* (udptrr.cpp, CUdpReceiveManager).
THEOREM TypeCorrect == Spec => []TypeOK
<1>1. ReceiverInv => TypeOK
  BY DEF ReceiverInv
<1>2. QED
  BY <1>1, ReceiverInvariant, PTL

\* Whatever the network loses or reorders: the list of pending requests holds
\* each waiting sender once, the list of active permits each active permit
\* once, and there are never more permits than udpMaxPendingPermits.
THEOREM ListsStayRight == Spec => []ListsAgree
<1>1. ReceiverInv => ListsAgree
  BY DEF ReceiverInv
<1>2. QED
  BY <1>1, ReceiverInvariant, PTL

\* A grant adds its slots to what is reserved; nothing else changes there.
LEMMA GrantReserves ==
  ASSUME ReceiverInv, NEW s \in Senders, NEW k \in Places, NEW slots \in Nat,
         GrantedTo(s, k, slots)
  PROVE  Cardinality(ReservedSlots') = Cardinality(ReservedSlots) + slots
<1> DEFINE P == ToSet(pendingPermits)
           p == <<s, k>>
           after == [q \in Senders \X Places |-> Reserved(entry'[q[1]].permits[q[2]])]
<1>1. /\ ReservedSlots = Slots(P, Reservation)
      /\ \A q \in Senders \X Places : Reservation[q] \in Nat /\ Reservation[q] = ReservedBy(q)
      /\ P \subseteq Senders \X Places
      /\ IsFiniteSet(ReservedSlots) /\ Cardinality(ReservedSlots) \in Nat
  BY ReservedAreSlots DEF ReceiverInv
<1>2. p \in Senders \X Places /\ p \notin P
  BY DEF GrantedTo, ReceiverInv, ListsAgree
<1>3. ToSet(pendingPermits') = P \cup {p}
  <2>1. pendingPermits \in Seq(Senders \X Places) /\ pendingPermits' = Append(pendingPermits, p)
    BY DEF GrantedTo, ReceiverInv, TypeOK
  <2>2. QED
    BY <1>2, <2>1, AppendElements
<1>4. after[p] = slots /\ \A q \in P : after[q] = Reservation[q]
  <2>1. after[p] = slots
    <3>1. after[p] = Reserved(entry'[s].permits[k])
      BY <1>2
    <3>2. entry'[s].permits[k].num = slots
      BY DEF GrantedTo
    <3>3. Reserved(entry'[s].permits[k]) = slots
      BY ONLY <3>2, slots \in Nat DEF Reserved
    <3> HIDE DEF after
    <3>4. QED
      BY <3>1, <3>3
  <2>2. ASSUME NEW q \in P
        PROVE  after[q] = Reservation[q]
    <3>1. q \in Senders \X Places /\ q[1] \in Senders /\ q[2] \in Places /\ <<q[1], q[2]>> # <<s, k>>
      BY <1>1, <1>2
    <3>2. entry'[q[1]].permits[q[2]] = entry[q[1]].permits[q[2]]
      BY <3>1 DEF GrantedTo
    <3>3. after[q] = Reserved(entry'[q[1]].permits[q[2]])
      BY <3>1
    <3> HIDE DEF after
    <3>4. QED
      BY <1>1, <3>1, <3>2, <3>3 DEF ReservedBy
  <2> HIDE DEF after
  <2>3. QED
    BY <2>1, <2>2
<1>5. ReservedSlots' = Slots(P \cup {p}, after)
  <2>1. ReservedSlots' = UNION {{q} \X (1 .. Reserved(entry'[q[1]].permits[q[2]])) : q \in P \cup {p}}
    BY <1>3 DEF ReservedSlots, ReservedBy
  <2>2. \A q \in P \cup {p} : after[q] = Reserved(entry'[q[1]].permits[q[2]])
    BY <1>1, <1>2
  <2> HIDE DEF P, after, p
  <2>3. {{q} \X (1 .. after[q]) : q \in P \cup {p}}
          = {{q} \X (1 .. Reserved(entry'[q[1]].permits[q[2]])) : q \in P \cup {p}}
    BY <2>2, Zenon
  <2>4. QED
    BY <2>1, <2>3 DEF Slots
<1> HIDE DEF P, p, after
<1>6. Slots(P, after) = Slots(P, Reservation)
  <2>1. {{q} \X (1 .. after[q]) : q \in P} = {{q} \X (1 .. Reservation[q]) : q \in P}
    BY <1>4, Zenon
  <2>2. QED
    BY <2>1 DEF Slots
<1>7. (P \cup {p}) \ {p} = P
  BY <1>2
<1>8. Cardinality(Slots(P \cup {p}, after)) = Cardinality(Slots((P \cup {p}) \ {p}, after)) + after[p]
  <2>1. p \in P \cup {p} /\ after[p] \in Nat /\ IsFiniteSet(Slots((P \cup {p}) \ {p}, after))
    BY <1>1, <1>4, <1>6, <1>7
  <2>2. QED
    BY ONLY <2>1, SlotsWithout
<1>9. QED
  BY <1>1, <1>4, <1>5, <1>6, <1>7, <1>8

\* The handlers of flow messages and of expired permits take permits from the
\* list and add none.
LEMMA HandlersTakePermits ==
  ASSUME NEW w \in Work, NEW s, NEW places, NEW f, NEW seq, NEW n
  PROVE  /\ Len(Revoked(w, s, places).permits) <= Len(w.permits)
         /\ Len(NoteDone(w, s, f).permits) <= Len(w.permits)
         /\ Queued(w, s).permits = w.permits
         /\ NoteRequest(w, s, f, seq).permits = w.permits
         /\ UpdateNumReserved(w, f, n).permits = w.permits
<1>1. ASSUME NEW gone PROVE Len(Without(w.permits, gone)) <= Len(w.permits)
  BY WithoutKeepsOthers DEF Work
<1>2. ASSUME NEW which PROVE Len(Revoked(w, s, which).permits) <= Len(w.permits)
  <2>1. Revoked(w, s, which).permits = Without(w.permits, {s} \X which)
    BY DEF Revoked, Work
  <2>2. QED
    BY <1>1, <2>1
<1>3. NoteDone(w, s, f).permits = Revoked(w, s, Ended(w.e, f)).permits
  <2> DEFINE r == Revoked(w, s, Ended(w.e, f))
  <2>1. r.permits = [r EXCEPT !.e.state = "idle", !.requests = Without(@, {s})].permits
    BY DEF Revoked, Work
  <2> HIDE DEF r
  <2>2. QED
    BY <2>1 DEF NoteDone, r
<1>4. Queued(w, s).permits = w.permits
  BY DEF Queued, Work
<1>5. NoteRequest(w, s, f, seq).permits = w.permits
  BY DEF NoteRequest, Queued, Acknowledged, Work
<1>6. UpdateNumReserved(w, f, n).permits = w.permits
  BY DEF UpdateNumReserved, Work
<1>7. QED
  BY <1>2, <1>3, <1>4, <1>5, <1>6

\* Only a grant makes the list of active permits longer.
LEMMA OnlyGrantsAdd ==
  ASSUME ReceiverInv, [Next]_vars, ~ CheckPending
  PROVE  Len(pendingPermits') <= Len(pendingPermits)
<1>1. pendingPermits \in Seq(Senders \X Places) /\ Len(pendingPermits) \in Nat
  BY DEF ReceiverInv, TypeOK
<1>2. ASSUME NEW s \in Senders, ReceiveFlow(s)
      PROVE  Len(pendingPermits') <= Len(pendingPermits)
  <2> DEFINE c == Current(s)
  <2>1. c \in Work /\ c.permits = pendingPermits
    BY CurrentHandled DEF ReceiverInv, Handled, Current
  <2>2. PICK msg : DoFlowRequest(s, msg)
    BY <1>2 DEF ReceiveFlow
  <2> DEFINE f == msg.flowSeq
             done == NoteDone(c, s, f)
  <2> HIDE DEF c
  <2>3. done \in Work
    BY CurrentHandled, NoteDoneHandled DEF ReceiverInv, Handled, c
  <2>4. /\ Len(done.permits) <= Len(c.permits)
        /\ NoteRequest(c, s, f, msg.sendSeq).permits = c.permits
        /\ UpdateNumReserved(c, f, msg.packets).permits = c.permits
    BY <2>1, HandlersTakePermits
  <2>5. NoteRequest(done, s, NextFlowSeq(f), msg.sendSeq).permits = done.permits
    BY <2>3, HandlersTakePermits
  <2>6. \/ pendingPermits' = NoteRequest(c, s, f, msg.sendSeq).permits
        \/ pendingPermits' = UpdateNumReserved(c, f, msg.packets).permits
        \/ pendingPermits' = done.permits
        \/ pendingPermits' = NoteRequest(done, s, NextFlowSeq(f), msg.sendSeq).permits
    BY <2>2, Zenon DEF DoFlowRequest, Becomes, c
  <2> HIDE DEF done
  <2>7. QED
    BY <1>1, <2>1, <2>4, <2>5, <2>6
<1>3. ASSUME ExpirePermit
      PROVE  Len(pendingPermits') <= Len(pendingPermits)
  <2> DEFINE s == Head(pendingPermits)[1]
             c == Current(s)
             w == Revoked(c, s, {Head(pendingPermits)[2]})
             counted == [w EXCEPT !.e.timeouts = Min({w.e.timeouts + 1, udpMaxPermitDeadTimeouts + 1})]
             idle == [counted EXCEPT !.e.state = "idle"]
  <2>1. s \in Senders /\ Head(pendingPermits)[2] \in Places
    <3>1. pendingPermits # <<>>
      BY <1>3 DEF ExpirePermit
    <3>2. Head(pendingPermits) \in Senders \X Places
      BY <1>1, <3>1
    <3>3. QED
      BY <3>2
  <2>2. c \in Work /\ c.permits = pendingPermits /\ w \in Work
    BY <2>1, CurrentHandled, RevokedHandled DEF ReceiverInv, Handled, Current
  <2>3. Len(w.permits) <= Len(pendingPermits)
    BY <2>2, HandlersTakePermits
  <2>4. \/ pendingPermits' = Queued(counted, s).permits
        \/ pendingPermits' = counted.permits
        \/ pendingPermits' = idle.permits
    BY <1>3, Zenon DEF ExpirePermit, Becomes
  <2> HIDE DEF w, s, c
  <2>5. counted.permits = w.permits /\ idle.permits = w.permits /\ Queued(counted, s).permits = w.permits
    BY <2>2 DEF Work, Queued
  <2> HIDE DEF counted, idle
  <2>6. QED
    BY <2>3, <2>4, <2>5
<1>4. ASSUME UNCHANGED lists
      PROVE  Len(pendingPermits') <= Len(pendingPermits)
  BY <1>1, <1>4 DEF lists
<1>5. \/ \E s \in Senders : ReceiveFlow(s)
      \/ ExpirePermit
      \/ UNCHANGED lists
  BY DEF Next, Sender, Network, DataStep, SenderRequests, SenderRepeats, SenderSends,
         LoseFlow, LoseData, ReadData, ForwardFlow, CountData, PushData, Collate,
         FlowTimeout, SumReserved, vars
<1>6. QED
  BY <1>2, <1>3, <1>4, <1>5

\* A grant never promises more than is free, whatever the data thread counted
\* and queued since the flow thread added up the reservations.
THEOREM GrantsFit == Spec => GrantFits
<1> DEFINE Fits == Len(pendingPermits') > Len(pendingPermits) =>
                     Cardinality(ReservedSlots') + queued <= QueueSize
<1>1. ASSUME ReceiverInv, ReceiverInv', [Next]_vars PROVE Fits
  <2> SUFFICES ASSUME Len(pendingPermits') > Len(pendingPermits)
               PROVE  Cardinality(ReservedSlots') + queued <= QueueSize
    OBVIOUS
  <2>1. Len(pendingPermits) \in Nat /\ Len(pendingPermits') \in Nat
    BY <1>1 DEF ReceiverInv, TypeOK
  <2>2. CheckPending /\ pendingPermits' # pendingPermits
    BY <1>1, <2>1, OnlyGrantsAdd
  <2>3. PICK s \in Senders, slots \in Nat :
          /\ slots + issued + queued <= QueueSize
          /\ \E k \in Places : GrantedTo(s, k, slots)
    BY <1>1, <2>2, CheckPendingCases DEF lists
  <2>4. Cardinality(ReservedSlots') = Cardinality(ReservedSlots) + slots
    BY <1>1, <2>3, GrantReserves
  <2>5. Cardinality(ReservedSlots) \in Nat /\ Cardinality(ReservedSlots) <= issued
    BY <1>1, <2>2, ReservedAreSlots DEF ReceiverInv, IssuedCovers, CheckPending
  <2>6. queued \in Nat /\ issued \in Nat /\ QueueSize \in Nat
    BY <1>1, ReceiverAssumption DEF ReceiverInv, TypeOK
  <2> HIDE DEF Fits
  <2>7. QED
    BY <2>3, <2>4, <2>5, <2>6
<1>2. QED
  BY <1>1, ReceiverInvariant, PTL DEF Spec, GrantFits

-----------------------------------------------------------------------------
(* The order of the flow numbers: what a handler of the flow thread keeps.   *)

\* Where the flow number of a permit is found while a message of s is handled.
FlowAt(w, s, p) ==
  IF p[1] = s THEN w.e.permits[p[2]].flowSeq ELSE entry[p[1]].permits[p[2]].flowSeq

\* What PermitsAscend and EndsAreNoted say of what a handler returns, and that
\* it does not set the flow number back.
Ascending(w, s) ==
  /\ \A k \in Active(w.e) : w.e.permits[k].flowSeq <= w.e.flowSeq
  /\ \A i, j \in DOMAIN w.permits :
       i < j /\ w.permits[i][1] = w.permits[j][1] =>
         FlowAt(w, s, w.permits[i]) <= FlowAt(w, s, w.permits[j])
  /\ w.ok.flowSeq <= w.e.flowSeq
  /\ entry[s].flowSeq <= w.e.flowSeq

Latest(e) == e.state = "granted" => OfFlow(e, e.flowSeq) # {}

LEMMA EntryNumbers ==
  ASSUME NEW e \in Entry
  PROVE  e.flowSeq \in Int /\ \A k \in Places : e.permits[k].flowSeq \in Int
BY FlowModAssumption DEF Entry, SendPermit, FlowSeq

LEMMA CurrentAscends ==
  ASSUME TypeOK, NEW s \in Senders, EndsAreNoted(s), \A u \in Senders : PermitsAscend(u)
  PROVE  Ascending(Current(s), s)
<1> DEFINE c == Current(s)
<1>1. c.e = entry[s] /\ c.permits = pendingPermits /\ c.ok = okToSend[s]
  BY DEF Current
<1>2. pendingPermits \in Seq(Senders \X Places) /\ entry[s] \in Entry
  BY DEF TypeOK
<1> HIDE DEF c
<1>3. ASSUME NEW i \in DOMAIN pendingPermits, NEW j \in DOMAIN pendingPermits, i < j,
             pendingPermits[i][1] = pendingPermits[j][1]
      PROVE  FlowAt(c, s, pendingPermits[i]) <= FlowAt(c, s, pendingPermits[j])
  <2>1. pendingPermits[i][1] \in Senders
    BY <1>2
  <2>2. FlowOf(i) <= FlowOf(j)
    BY <1>3, <2>1 DEF PermitsAscend
  <2>3. \A l \in DOMAIN pendingPermits : FlowAt(c, s, pendingPermits[l]) = FlowOf(l)
    BY <1>1 DEF FlowAt, FlowOf
  <2>4. QED
    BY <2>2, <2>3
<1>4. entry[s].flowSeq \in Int
  BY <1>2, FlowModAssumption DEF Entry, FlowSeq
<1>5. /\ okToSend[s].flowSeq <= entry[s].flowSeq
      /\ \A k \in Active(entry[s]) : entry[s].permits[k].flowSeq <= entry[s].flowSeq
  BY DEF EndsAreNoted, PermitsAscend
<1>6. QED
  BY <1>1, <1>3, <1>4, <1>5 DEF Ascending, c

\* A handler that leaves the permits alone keeps them in order.
LEMMA SamePermits ==
  ASSUME NEW s \in Senders, NEW w \in Work, Ascending(w, s), NEW r \in Work, entry[s] \in Entry,
         r.permits = w.permits, \A k \in Places : r.e.permits[k].flowSeq = w.e.permits[k].flowSeq,
         w.e.flowSeq <= r.e.flowSeq, r.ok.flowSeq <= r.e.flowSeq
  PROVE  Ascending(r, s)
<1>1. /\ w.e.flowSeq \in Int /\ r.e.flowSeq \in Int /\ entry[s].flowSeq \in Int
      /\ \A k \in Places : w.e.permits[k].flowSeq \in Int
      /\ w.permits \in Seq(Senders \X Places)
  <2>1. w.e \in Entry /\ r.e \in Entry /\ w.permits \in Seq(Senders \X Places)
    BY DEF Work
  <2>2. QED
    BY <2>1, EntryNumbers
<1>2. Active(r.e) = Active(w.e) /\ Active(w.e) \subseteq Places
  BY DEF Active
<1>3. \A k \in Active(r.e) : r.e.permits[k].flowSeq <= r.e.flowSeq
  BY <1>1, <1>2 DEF Ascending
<1>4. \A i \in DOMAIN w.permits : FlowAt(r, s, w.permits[i]) = FlowAt(w, s, w.permits[i])
  BY <1>1 DEF FlowAt
<1>5. \A i, j \in DOMAIN r.permits :
        i < j /\ r.permits[i][1] = r.permits[j][1] =>
          FlowAt(r, s, r.permits[i]) <= FlowAt(r, s, r.permits[j])
  BY <1>4 DEF Ascending
<1>6. entry[s].flowSeq <= r.e.flowSeq
  BY <1>1 DEF Ascending
<1>7. QED
  BY <1>3, <1>5, <1>6 DEF Ascending

\* Revoked permits leave the others in order.
LEMMA RevokedAscends ==
  ASSUME NEW s \in Senders, NEW w, Handled(w, s), Ascending(w, s), NEW places \in SUBSET Places
  PROVE  /\ Ascending(Revoked(w, s, places), s)
         /\ \A k \in Places \ places :
              Revoked(w, s, places).e.permits[k].flowSeq = w.e.permits[k].flowSeq
<1> DEFINE r == Revoked(w, s, places)
           gone == {s} \X places
<1>1. /\ r.e = [w.e EXCEPT !.permits = [k \in Places |-> IF k \in places THEN Inactive ELSE @[k]]]
      /\ r.permits = Without(w.permits, gone) /\ r.ok = w.ok
  BY DEF Revoked, Handled, Work
<1>2. w.e \in Entry /\ w.permits \in Seq(Senders \X Places)
  BY DEF Handled, Work
<1> HIDE DEF r
<1>3. /\ r.e.flowSeq = w.e.flowSeq
      /\ \A k \in Places : r.e.permits[k] = IF k \in places THEN Inactive ELSE w.e.permits[k]
  BY <1>1, <1>2 DEF Entry
<1>4. Active(r.e) \subseteq Active(w.e) \ places
  BY <1>3 DEF Active, Inactive
<1>5. \A k \in Active(r.e) : r.e.permits[k].flowSeq <= r.e.flowSeq
  BY <1>3, <1>4 DEF Ascending, Active
<1>6. PICK at \in [DOMAIN r.permits -> DOMAIN w.permits] :
        /\ \A i \in DOMAIN at : r.permits[i] = w.permits[at[i]] /\ w.permits[at[i]] \notin gone
        /\ \A i, j \in DOMAIN at : i < j => at[i] < at[j]
  <2> DEFINE list == w.permits
  <2>1. list \in Seq(Senders \X Places) /\ r.permits = Without(list, gone)
    BY <1>1, <1>2
  <2> HIDE DEF list, gone
  <2>2. \E at \in [DOMAIN Without(list, gone) -> DOMAIN list] :
          /\ \A i \in DOMAIN at : Without(list, gone)[i] = list[at[i]] /\ list[at[i]] \notin gone
          /\ \A i, j \in DOMAIN at : i < j => at[i] < at[j]
    BY <2>1, WithoutKeepsOrder
  <2>3. QED
    BY <2>1, <2>2, Zenon DEF list
<1>7. \A i \in DOMAIN r.permits : FlowAt(r, s, r.permits[i]) = FlowAt(w, s, w.permits[at[i]])
  <2> TAKE i \in DOMAIN r.permits
  <2>1. /\ r.permits[i] = w.permits[at[i]] /\ w.permits[at[i]] \in Senders \X Places
        /\ w.permits[at[i]] \notin gone
    BY <1>2, <1>6
  <2> DEFINE p == w.permits[at[i]]
  <2>2. p[1] = s => p[2] \in Places /\ p[2] \notin places
    BY <2>1
  <2> HIDE DEF p
  <2>3. FlowAt(r, s, p) = FlowAt(w, s, p)
    BY <1>3, <2>2 DEF FlowAt
  <2>4. QED
    BY <2>1, <2>3 DEF p
<1>8. ASSUME NEW i \in DOMAIN r.permits, NEW j \in DOMAIN r.permits, i < j,
             r.permits[i][1] = r.permits[j][1]
      PROVE  FlowAt(r, s, r.permits[i]) <= FlowAt(r, s, r.permits[j])
  <2>1. /\ at[i] \in DOMAIN w.permits /\ at[j] \in DOMAIN w.permits /\ at[i] < at[j]
        /\ w.permits[at[i]][1] = w.permits[at[j]][1]
    BY <1>6, <1>8
  <2>2. FlowAt(w, s, w.permits[at[i]]) <= FlowAt(w, s, w.permits[at[j]])
    BY <2>1 DEF Ascending
  <2>3. QED
    BY <1>7, <2>2
<1>9. Ascending(r, s)
  BY <1>1, <1>3, <1>5, <1>8 DEF Ascending
<1>10. QED
  BY <1>3, <1>9 DEF r

\* A request that is not older than the last one.
LEMMA NoteRequestAscends ==
  ASSUME NEW s \in Senders, entry[s] \in Entry, NEW w, Handled(w, s), Ascending(w, s), Latest(w.e),
         NEW f \in FlowSeqId, NEW seq \in Nat, w.e.flowSeq <= f
  PROVE  LET r == NoteRequest(w, s, f, seq) IN
         /\ Ascending(r, s) /\ Latest(r.e)
         /\ r.e.flowSeq = w.e.flowSeq \/ r.e.flowSeq = f
<1> DEFINE r == NoteRequest(w, s, f, seq)
           live == OfFlow(w.e, f)
<1>1. w \in Work /\ w.e \in Entry /\ r \in Work
  BY NoteRequestHandled DEF Handled, Work
<1>2. w.e.flowSeq \in Int /\ w.ok.flowSeq \in Int /\ f \in Int /\ w.ok.flowSeq <= w.e.flowSeq
  BY <1>1, EntryNumbers, FlowModAssumption DEF Work, FlowSeq, FlowSeqId, Ascending
<1>3. CASE live # {}
  <2> DEFINE answer == OkToSend(w.e, Reserved(w.e.permits[Min(live)]))
  <2>1. r = [w EXCEPT !.ok = answer] /\ answer.flowSeq = w.e.flowSeq
    BY <1>3 DEF NoteRequest, OkToSend
  <2> HIDE DEF answer
  <2>2. r.e = w.e /\ r.permits = w.permits /\ r.ok.flowSeq = w.e.flowSeq
    BY <1>1, <2>1 DEF Work
  <2> HIDE DEF r
  <2>3. Ascending(r, s)
    BY <1>1, <1>2, <2>2, SamePermits
  <2>4. QED
    BY <2>2, <2>3 DEF r
<1>4. CASE live = {}
  <2>1. r = Acknowledged(Queued(w, s), f, seq)
    BY <1>4 DEF NoteRequest
  <2>2. /\ r.e.flowSeq = f /\ r.e.state = "requested" /\ r.e.permits = w.e.permits
        /\ r.permits = w.permits /\ r.ok = w.ok
    <3> DEFINE q == Queued(w, s)
    <3>1. /\ q.e = [w.e EXCEPT !.state = "requested"] /\ q.permits = w.permits /\ q.ok = w.ok
          /\ q \in Work
      BY <1>1, QueuedAgrees DEF Queued, Work, Handled
    <3> HIDE DEF q
    <3>2. /\ r.e = [q.e EXCEPT !.flowSeq = f, !.sendSeq = seq, !.timeouts = 0]
          /\ r.permits = q.permits /\ r.ok = q.ok
      BY <2>1, <3>1 DEF Acknowledged, Work, q
    <3> HIDE DEF r
    <3>3. QED
      BY <1>1, <3>1, <3>2 DEF Entry
  <2> HIDE DEF r
  <2>3. Ascending(r, s)
    BY <1>1, <1>2, <2>2, SamePermits
  <2>4. QED
    BY <2>2, <2>3 DEF r, Latest
<1>5. QED
  BY <1>3, <1>4

\* The number of packets of a permit says nothing of its place.
LEMMA UpdateNumAscends ==
  ASSUME NEW s \in Senders, entry[s] \in Entry, NEW w, Handled(w, s), Ascending(w, s), Latest(w.e),
         NEW f, NEW n \in Nat
  PROVE  LET r == UpdateNumReserved(w, f, n) IN
         Ascending(r, s) /\ Latest(r.e) /\ r.e.flowSeq = w.e.flowSeq
<1> DEFINE r == UpdateNumReserved(w, f, n)
           live == OfFlow(w.e, f)
           k == Min(live)
<1>1. w \in Work /\ w.e \in Entry /\ r \in Work
  BY UpdateNumHandled DEF Handled, Work
<1>2. CASE live = {}
  BY <1>2 DEF UpdateNumReserved
<1>3. CASE live # {}
  <2>1. k \in Places
    BY <1>1, <1>3, LivePermit
  <2>2. r = [w EXCEPT !.e.permits[k].num = n]
    BY <1>3 DEF UpdateNumReserved
  <2> HIDE DEF k, r
  <2>3. /\ r.e.state = w.e.state /\ r.e.flowSeq = w.e.flowSeq /\ r.permits = w.permits /\ r.ok = w.ok
        /\ \A j \in Places : r.e.permits[j].flowSeq = w.e.permits[j].flowSeq
    <3> DEFINE after == [w.e.permits EXCEPT ![k].num = n]
    <3>1. \A j \in Places : after[j].flowSeq = w.e.permits[j].flowSeq
      BY <1>1, <2>1 DEF Entry, SendPermit
    <3>2. r = [w EXCEPT !.e.permits = after]
      BY <1>1, <2>2 DEF Work, Entry
    <3> HIDE DEF after
    <3>3. QED
      BY <1>1, <3>1, <3>2 DEF Work, Entry
  <2>4. w.e.flowSeq \in Int /\ w.ok.flowSeq <= w.e.flowSeq
    BY <1>1, EntryNumbers DEF Ascending
  <2>5. Ascending(r, s)
    BY <1>1, <2>3, <2>4, SamePermits
  <2>6. Latest(r.e)
    BY <2>3 DEF Latest, OfFlow, Active
  <2>7. QED
    BY <2>3, <2>5, <2>6 DEF r
<1>4. QED
  BY <1>2, <1>3

\* Requests are less than half the range apart: the end of one does not take
\* the permit of a later one for an older.
FlowsDoNotWrap == 2 * MaxFlow < FlowMod

LEMMA NewerIsNewer ==
  ASSUME FlowsDoNotWrap, NEW a \in FlowSeq, NEW f \in FlowSeq, f < a, a <= MaxFlow
  PROVE  ~NotNewer(a, f)
<1>1. FlowMod \in Nat \ {0} /\ MaxFlow \in Nat /\ a \in Nat /\ f \in Nat
  BY FlowModAssumption, ReceiverAssumption DEF FlowSeq
<1>2. a - f \in Int /\ 0 < a - f /\ 2 * (a - f) < FlowMod
  BY <1>1 DEF FlowsDoNotWrap
<1>3. (a - f) % FlowMod = a - f
  <2> DEFINE d == a - f
  <2>1. d \in Int /\ 0 <= d /\ d < FlowMod
    BY <1>1, <1>2
  <2> HIDE DEF d
  <2>2. d % FlowMod = d
    BY <1>1, <2>1, SmallModulo
  <2>3. QED
    BY <2>2 DEF d
<1>4. a - f < (FlowMod + 1) \div 2
  BY <1>1, <1>2
<1>5. QED
  BY <1>1, <1>2, <1>3, <1>4 DEF NotNewer

\* The end of a request the receiver has noted leaves the permit of a later one.
LEMMA NoteDoneAscends ==
  ASSUME FlowsDoNotWrap, NEW s \in Senders, entry[s] \in Entry, NEW w, Handled(w, s),
         Ascending(w, s), Latest(w.e), NEW f \in FlowSeq, f <= w.e.flowSeq, w.e.flowSeq <= MaxFlow
  PROVE  LET d == NoteDone(w, s, f) IN
         Ascending(d, s) /\ Latest(d.e) /\ d.e.flowSeq = w.e.flowSeq
<1> DEFINE r == Revoked(w, s, Ended(w.e, f))
           d == NoteDone(w, s, f)
<1>1. w \in Work /\ w.e \in Entry /\ Ended(w.e, f) \in SUBSET Places
  BY DEF Handled, Work, Ended, Active
<1>2. /\ Handled(r, s) /\ r.e.state = w.e.state /\ r.e.flowSeq = w.e.flowSeq
      /\ Active(r.e) = Active(w.e) \ Ended(w.e, f)
  BY <1>1, RevokedHandled
<1>3. Ascending(r, s) /\ \A k \in Places \ Ended(w.e, f) : r.e.permits[k].flowSeq = w.e.permits[k].flowSeq
  BY <1>1, RevokedAscends
<1>4. d = IF f = w.e.flowSeq THEN [r EXCEPT !.e.state = "idle", !.requests = Without(@, {s})] ELSE r
  BY DEF NoteDone
<1>5. d \in Work
  BY NoteDoneHandled DEF Handled
<1> HIDE DEF r, d
<1>6. r \in Work /\ r.e \in Entry
  BY <1>2 DEF Handled, Work
<1>7. CASE f = w.e.flowSeq
  <2>1. /\ d.e.state = "idle" /\ d.e.flowSeq = r.e.flowSeq /\ d.e.permits = r.e.permits
        /\ d.permits = r.permits /\ d.ok = r.ok
    BY <1>4, <1>6, <1>7 DEF Work, Entry
  <2>2. r.e.flowSeq \in Int /\ r.ok.flowSeq <= r.e.flowSeq
    BY <1>3, <1>6, EntryNumbers DEF Ascending
  <2>3. Ascending(d, s)
    BY <1>3, <1>5, <1>6, <2>1, <2>2, SamePermits
  <2>4. QED
    BY <1>2, <2>1, <2>3 DEF Latest, d
<1>8. CASE f # w.e.flowSeq
  <2>1. d = r
    BY <1>4, <1>8
  <2>2. Latest(r.e)
    <3>1. SUFFICES ASSUME w.e.state = "granted" PROVE OfFlow(r.e, r.e.flowSeq) # {}
      BY <1>2 DEF Latest
    <3>2. PICK k \in OfFlow(w.e, w.e.flowSeq) : TRUE
      BY <3>1 DEF Latest
    <3>3. k \in Places /\ k \in Active(w.e) /\ w.e.permits[k].flowSeq = w.e.flowSeq
      BY <3>2 DEF OfFlow, Active
    <3>4. w.e.flowSeq \in FlowSeq /\ f < w.e.flowSeq
      BY <1>1, <1>8, FlowModAssumption DEF Entry, FlowSeq
    <3>5. k \notin Ended(w.e, f)
      BY <3>3, <3>4, NewerIsNewer DEF Ended
    <3>6. k \in Active(r.e) /\ r.e.permits[k].flowSeq = r.e.flowSeq
      BY <1>2, <1>3, <3>3, <3>5
    <3>7. QED
      BY <3>6 DEF OfFlow
  <2>3. QED
    BY <1>2, <1>3, <2>1, <2>2 DEF d
<1>9. QED
  BY <1>7, <1>8

FlowOrder ==
  \A s \in Senders : RequestsAscend(s) /\ EndsAreNoted(s) /\ PermitsAscend(s) /\ LatestGranted(s)

\* What a handler returns becomes the state of the flow thread.
LEMMA BecomesOrdered ==
  ASSUME TypeOK, FlowOrder, NEW s \in Senders, NEW w, Handled(w, s), Becomes(s, w),
         Ascending(w, s), Latest(w.e)
  PROVE  /\ entry'[s].flowSeq = w.e.flowSeq
         /\ \A u \in Senders :
              /\ PermitsAscend(u)' /\ LatestGranted(u)'
              /\ okToSend'[u].flowSeq <= entry'[u].flowSeq
              /\ entry[u].flowSeq <= entry'[u].flowSeq
              /\ u # s => entry'[u].flowSeq = entry[u].flowSeq
<1>1. /\ entry'[s] = w.e /\ \A u \in Senders \ {s} : entry'[u] = entry[u]
      /\ okToSend'[s] = w.ok /\ \A u \in Senders \ {s} : okToSend'[u] = okToSend[u]
      /\ pendingPermits' = w.permits
  BY DEF TypeOK, Becomes
<1>2. w.permits \in Seq(Senders \X Places) /\ \A u \in Senders : entry[u] \in Entry
  BY DEF Handled, Work, TypeOK
<1>3. \A i \in DOMAIN w.permits : FlowOf(i)' = FlowAt(w, s, w.permits[i])
  <2> TAKE i \in DOMAIN w.permits
  <2>1. w.permits[i][1] \in Senders
    BY <1>2
  <2>2. FlowOf(i)' = entry'[w.permits[i][1]].permits[w.permits[i][2]].flowSeq
    BY <1>1 DEF FlowOf
  <2>3. QED
    BY <1>1, <2>1, <2>2 DEF FlowAt
<1>4. ASSUME NEW u \in Senders
      PROVE  PermitsAscend(u)'
  <2>1. \A k \in Active(entry'[u]) : entry'[u].permits[k].flowSeq <= entry'[u].flowSeq
    BY <1>1 DEF Ascending, FlowOrder, PermitsAscend
  <2>2. ASSUME NEW i \in DOMAIN w.permits, NEW j \in DOMAIN w.permits,
               w.permits[i][1] = u, w.permits[j][1] = u, i < j
        PROVE  FlowOf(i)' <= FlowOf(j)'
    BY <1>3, <2>2 DEF Ascending
  <2>3. QED
    BY <1>1, <2>1, <2>2 DEF PermitsAscend, Active
<1>5. ASSUME NEW u \in Senders
      PROVE  LatestGranted(u)' /\ okToSend'[u].flowSeq <= entry'[u].flowSeq
             /\ entry[u].flowSeq <= entry'[u].flowSeq
  <2>1. entry[u].flowSeq <= entry[u].flowSeq
    BY <1>2, EntryNumbers
  <2>2. CASE u = s
    BY <1>1, <2>2 DEF Ascending, Latest, LatestGranted, OfFlow, Active
  <2>3. CASE u # s
    BY <1>1, <2>1, <2>3 DEF FlowOrder, EndsAreNoted, LatestGranted, OfFlow, Active
  <2>4. QED
    BY <2>2, <2>3
<1>6. QED
  BY <1>1, <1>4, <1>5

\* One message of the flow socket, as the sender's requests and ends come.
LEMMA DoFlowAscends ==
  ASSUME ReceiverInv, FlowOrder, FlowsDoNotWrap, NEW s \in Senders, NEW msg \in FlowMsgs,
         DoFlowRequest(s, msg), Noted(msg, s),
         msg.cmd = "request_to_send" => entry[s].flowSeq <= msg.flowSeq
  PROVE  \E w : /\ Handled(w, s) /\ Becomes(s, w) /\ Ascending(w, s) /\ Latest(w.e)
                /\ \/ w.e.flowSeq = entry[s].flowSeq
                   \/ msg.cmd = "request_to_send" /\ w.e.flowSeq = msg.flowSeq
<1> DEFINE c == Current(s)
           f == msg.flowSeq
<1>1. Handled(c, s) /\ Ascending(c, s) /\ c.e = entry[s] /\ entry[s] \in Entry
  BY CurrentHandled, CurrentAscends DEF ReceiverInv, FlowOrder, Current, TypeOK
<1>2. Latest(c.e) /\ entry[s].flowSeq <= MaxFlow
  <2>1. cur[s] \in Int /\ entry[s].flowSeq \in Int /\ MaxFlow \in Int
    BY <1>1, EntryNumbers, FlowModAssumption, ReceiverAssumption DEF ReceiverInv, TypeOK, FlowSeq
  <2>2. QED
    BY <1>1, <2>1 DEF FlowOrder, LatestGranted, Latest, RequestsAscend
<1>3. f \in FlowSeqId /\ f \in FlowSeq /\ msg.packets \in Nat /\ msg.sendSeq \in Nat
  BY DEF FlowMsgs, FlowSeqId, FlowSeq
<1> HIDE DEF c
<1>4. CASE msg.cmd = "request_to_send"
  <2> DEFINE w == NoteRequest(c, s, f, msg.sendSeq)
  <2>1. Becomes(s, w)
    BY <1>4 DEF DoFlowRequest, c
  <2>2. Handled(w, s)
    BY <1>1, <1>3, NoteRequestHandled
  <2>3. c.e.flowSeq <= f
    BY <1>1, <1>4
  <2>4. Ascending(w, s) /\ Latest(w.e) /\ (w.e.flowSeq = c.e.flowSeq \/ w.e.flowSeq = f)
    BY <1>1, <1>2, <1>3, <2>3, NoteRequestAscends
  <2>5. QED
    BY <1>1, <1>4, <2>1, <2>2, <2>4
<1>5. CASE msg.cmd = "send_start"
  <2> DEFINE w == UpdateNumReserved(c, f, msg.packets)
  <2>1. Becomes(s, w)
    BY <1>5 DEF DoFlowRequest, c
  <2>2. Handled(w, s)
    BY <1>1, <1>3, UpdateNumHandled
  <2>3. Ascending(w, s) /\ Latest(w.e) /\ w.e.flowSeq = c.e.flowSeq
    BY <1>1, <1>2, <1>3, UpdateNumAscends
  <2>4. QED
    BY <1>1, <2>1, <2>2, <2>3
<1>6. CASE msg.cmd = "send_completed"
  <2> DEFINE w == NoteDone(c, s, f)
  <2>1. Becomes(s, w)
    BY <1>6 DEF DoFlowRequest, c
  <2>2. Handled(w, s)
    BY <1>1, NoteDoneHandled
  <2>3. f <= c.e.flowSeq /\ c.e.flowSeq <= MaxFlow
    BY <1>1, <1>2, <1>6 DEF Noted
  <2>4. Ascending(w, s) /\ Latest(w.e) /\ w.e.flowSeq = c.e.flowSeq
    BY <1>1, <1>2, <1>3, <2>3, NoteDoneAscends
  <2>5. QED
    BY <1>1, <2>1, <2>2, <2>4
<1>7. QED
  BY <1>4, <1>5, <1>6 DEF DoFlowRequest, Noted

\* The oldest permit expires: if another one of the sender is left, it was
\* granted for the same request or a later one.
LEMMA ExpireAscends ==
  ASSUME ReceiverInv, FlowOrder, ExpirePermit
  PROVE  \E s \in Senders : \E w :
           /\ Handled(w, s) /\ Becomes(s, w) /\ Ascending(w, s) /\ Latest(w.e)
           /\ w.e.flowSeq = entry[s].flowSeq
<1> DEFINE p == Head(pendingPermits)
           s == p[1]
           k == p[2]
           c == Current(s)
           w == Revoked(c, s, {k})
           t == w.e.timeouts + 1
           counted == [w EXCEPT !.e.timeouts = Min({t, udpMaxPermitDeadTimeouts + 1})]
           idle == [counted EXCEPT !.e.state = "idle"]
<1>1. /\ p \in Senders \X Places /\ s \in Senders /\ k \in Places /\ p = <<s, k>>
      /\ 1 \in DOMAIN pendingPermits /\ pendingPermits[1] = p
  <2>1. pendingPermits \in Seq(Senders \X Places) /\ pendingPermits # <<>>
    BY DEF ReceiverInv, TypeOK, ExpirePermit
  <2>2. p \in Senders \X Places /\ 1 \in DOMAIN pendingPermits /\ pendingPermits[1] = p
    BY <2>1
  <2> HIDE DEF p
  <2>3. QED
    BY <2>2
<1>2. \/ Becomes(s, Queued(counted, s))
      \/ Becomes(s, counted) /\ (Active(w.e) # {} \/ w.e.state = "requested")
      \/ Becomes(s, idle) /\ Active(w.e) = {} /\ w.e.state # "requested"
  BY Zenon DEF ExpirePermit
<1>3. /\ Handled(c, s) /\ Ascending(c, s) /\ c.e = entry[s] /\ c.permits = pendingPermits
      /\ entry[s] \in Entry /\ Latest(c.e)
  BY <1>1, CurrentHandled, CurrentAscends
  DEF ReceiverInv, FlowOrder, Current, TypeOK, LatestGranted, Latest
<1> HIDE DEF p, c
<1>4. /\ Handled(w, s) /\ w.e.state = c.e.state /\ w.e.flowSeq = c.e.flowSeq
      /\ Active(w.e) = Active(c.e) \ {k} /\ Ascending(w, s)
      /\ \A j \in Places \ {k} : w.e.permits[j].flowSeq = c.e.permits[j].flowSeq
  <2>1. {k} \in SUBSET Places
    BY <1>1
  <2> DEFINE gone == {k}
  <2> HIDE DEF gone, k, s
  <2>2. /\ Handled(Revoked(c, s, gone), s) /\ Revoked(c, s, gone).e.state = c.e.state
        /\ Revoked(c, s, gone).e.flowSeq = c.e.flowSeq
        /\ Active(Revoked(c, s, gone).e) = Active(c.e) \ gone
    BY ONLY <1>1, <1>3, <2>1, RevokedHandled DEF gone
  <2>3. /\ Ascending(Revoked(c, s, gone), s)
        /\ \A j \in Places \ gone :
             Revoked(c, s, gone).e.permits[j].flowSeq = c.e.permits[j].flowSeq
    BY ONLY <1>1, <1>3, <2>1, RevokedAscends DEF gone
  <2>4. QED
    BY <2>2, <2>3 DEF gone
<1>5. ASSUME w.e.state = "granted", Active(w.e) # {}
      PROVE  \E j \in Active(w.e) : w.e.permits[j].flowSeq = w.e.flowSeq
  <2>1. PICK l \in Active(c.e) : c.e.permits[l].flowSeq = c.e.flowSeq
    BY <1>3, <1>4, <1>5 DEF Latest, OfFlow
  <2>2. CASE l # k
    BY <1>4, <2>1, <2>2 DEF Active
  <2>3. CASE l = k
    <3>1. PICK j \in Active(w.e) : TRUE
      BY <1>5
    <3>2. j \in Active(entry[s]) /\ j \in Places /\ j # k
      BY <1>3, <1>4, <3>1 DEF Active
    <3>3. PICK i \in DOMAIN pendingPermits : pendingPermits[i] = <<s, j>>
      BY <1>1, <3>2 DEF ReceiverInv, ListsAgree, ToSet
    <3>4. i # 1 /\ 1 < i
      BY <1>1, <3>2, <3>3, SMTT(30) DEF ReceiverInv, TypeOK
    <3>5. FlowOf(1) <= FlowOf(i)
      BY <1>1, <3>3, <3>4 DEF FlowOrder, PermitsAscend
    <3>6. FlowOf(1) = entry[s].permits[k].flowSeq /\ FlowOf(i) = entry[s].permits[j].flowSeq
      BY <1>1, <3>3 DEF FlowOf
    <3>7. entry[s].permits[j].flowSeq <= entry[s].flowSeq
      BY <1>1, <3>2 DEF FlowOrder, PermitsAscend
    <3>8. entry[s].permits[j].flowSeq = entry[s].flowSeq
      BY <1>3, <2>1, <2>3, <3>2, <3>5, <3>6, <3>7, EntryNumbers
    <3>9. QED
      BY <1>3, <1>4, <3>1, <3>2, <3>8
  <2>4. QED
    BY <2>2, <2>3
<1> HIDE DEF w, k, s
<1>6. w \in Work /\ w.e \in Entry /\ Agrees(w, s) /\ Named(w.e)
  BY <1>4 DEF Handled, Work
<1>7. Min({t, udpMaxPermitDeadTimeouts + 1}) \in 0 .. udpMaxPermitDeadTimeouts + 1
  <2>1. t \in Nat /\ udpMaxPermitDeadTimeouts + 1 \in Nat
    BY <1>6, ReceiverAssumption DEF Entry
  <2>2. /\ Min({t, udpMaxPermitDeadTimeouts + 1}) \in {t, udpMaxPermitDeadTimeouts + 1}
        /\ Min({t, udpMaxPermitDeadTimeouts + 1}) <= udpMaxPermitDeadTimeouts + 1
    BY <2>1, MinNat
  <2>3. QED
    BY <2>1, <2>2
<1> HIDE DEF t
<1>8. /\ counted \in Work /\ counted.e.state = w.e.state /\ counted.e.flowSeq = w.e.flowSeq
      /\ counted.e.permits = w.e.permits
      /\ counted.requests = w.requests /\ counted.permits = w.permits /\ counted.ok = w.ok
  BY <1>6, <1>7 DEF Work, Entry
<1> HIDE DEF counted
<1>9. Agrees(counted, s) /\ Named(counted.e) /\ Active(counted.e) = Active(w.e)
  BY <1>6, <1>8 DEF Agrees, Named, Active
<1>10. Ascending(counted, s)
  BY <1>1, <1>3, <1>4, <1>6, <1>8, EntryNumbers, SamePermits DEF Ascending
<1>11. counted.ok.flowSeq <= counted.e.flowSeq /\ counted.e.flowSeq \in Int
       /\ counted.e.flowSeq = entry[s].flowSeq /\ s \in Senders /\ entry[s] \in Entry
  BY <1>1, <1>3, <1>4, <1>8, <1>10, EntryNumbers DEF Ascending
<1>12. ASSUME NEW r \in Work, Becomes(s, r), Handled(r, s), r.e.permits = counted.e.permits,
              r.permits = counted.permits, r.ok = counted.ok, r.e.flowSeq = counted.e.flowSeq,
              r.e.state # "granted"
       PROVE  Ascending(r, s) /\ Latest(r.e) /\ r.e.flowSeq = entry[s].flowSeq
  BY <1>8, <1>10, <1>11, <1>12, SamePermits DEF Latest
<1>13. CASE Becomes(s, Queued(counted, s))
  <2> DEFINE r == Queued(counted, s)
  <2>1. r \in Work /\ Agrees(r, s)
    BY <1>8, <1>9, <1>11, QueuedAgrees
  <2>2. /\ r.e.state = "requested" /\ r.e.flowSeq = counted.e.flowSeq /\ r.ok = counted.ok
        /\ r.e.permits = counted.e.permits /\ r.permits = counted.permits
    BY <1>8 DEF Queued, Work, Entry
  <2>3. r.e.flowSeq # 0
    <3>1. k \in Active(entry[s])
      BY <1>1, Zenon DEF ReceiverInv, ListsAgree, ToSet
    <3>2. QED
      BY <1>11, <2>2, <3>1 DEF ReceiverInv, FlowNamed
  <2> HIDE DEF r
  <2>4. Handled(r, s)
    BY <2>1, <2>3 DEF Handled, Named
  <2>5. Becomes(s, r)
    BY <1>13 DEF r
  <2>6. QED
    BY <1>11, <1>12, <2>1, <2>2, <2>4, <2>5
<1>14. CASE Becomes(s, counted) /\ (Active(w.e) # {} \/ w.e.state = "requested")
  <2>1. Latest(counted.e)
    <3>1. SUFFICES ASSUME counted.e.state = "granted"
                   PROVE  OfFlow(counted.e, counted.e.flowSeq) # {}
      BY DEF Latest
    <3>2. PICK j \in Active(w.e) : w.e.permits[j].flowSeq = w.e.flowSeq
      BY <1>5, <1>8, <1>14, <3>1
    <3>3. QED
      BY <1>8, <1>9, <3>2 DEF OfFlow
  <2>2. QED
    BY <1>8, <1>9, <1>10, <1>11, <1>14, <2>1 DEF Handled
<1>15. CASE Becomes(s, idle) /\ Active(w.e) = {} /\ w.e.state # "requested"
  <2>1. /\ idle \in Work /\ idle.e.state = "idle" /\ idle.e.permits = counted.e.permits
        /\ idle.e.flowSeq = counted.e.flowSeq /\ idle.ok = counted.ok
        /\ idle.requests = counted.requests /\ idle.permits = counted.permits
    BY <1>8 DEF Work, Entry
  <2>2. Becomes(s, idle)
    BY <1>15
  <2> HIDE DEF idle
  <2>3. Active(idle.e) = {}
    BY <1>9, <1>15, <2>1 DEF Active
  <2>4. Handled(idle, s)
    BY <1>8, <1>9, <1>15, <2>1, <2>3 DEF Agrees, Named, Handled
  <2>5. Ascending(idle, s) /\ Latest(idle.e) /\ idle.e.flowSeq = entry[s].flowSeq
    BY <1>12, <2>1, <2>2, <2>4
  <2>6. QED
    BY <1>11, <2>2, <2>4, <2>5
<1>16. QED
  BY <1>2, <1>13, <1>14, <1>15

\* The permit of a grant is for the latest request of the sender.
LEMMA GrantAscends ==
  ASSUME ReceiverInv, FlowOrder, NEW s \in Senders, NEW slots \in Nat, Grant(s, slots),
         NEW k \in Places, GrantedTo(s, k, slots), NEW w, Handled(w, s), Becomes(s, w)
  PROVE  Ascending(w, s) /\ Latest(w.e) /\ w.e.flowSeq = entry[s].flowSeq
<1> DEFINE m == Min(Places \ Active(entry[s]))
           permit == [flowSeq |-> entry[s].flowSeq, num |-> slots, sendSeq |-> entry[s].sendSeq]
<1>1. /\ entry \in [Senders -> Entry] /\ entry[s] \in Entry /\ pendingPermits \in Seq(Senders \X Places)
      /\ okToSend \in [Senders -> [flowSeq : FlowSeq, max : Nat]]
      /\ \A u \in Senders : entry[u] \in Entry
  BY DEF ReceiverInv, TypeOK
<1>2. /\ entry' = [entry EXCEPT ![s] = [entry[s] EXCEPT !.permits[m] = permit, !.state = "granted"]]
      /\ pendingPermits' = Append(pendingPermits, <<s, m>>)
      /\ okToSend' = [okToSend EXCEPT ![s] = OkToSend(entry[s], slots)]
  BY DEF Grant, Becomes, Current
<1> HIDE DEF m, permit
<1>3. m = k
  <2>1. Append(pendingPermits, <<s, m>>) = Append(pendingPermits, <<s, k>>)
    BY <1>2 DEF GrantedTo
  <2>2. Append(pendingPermits, <<s, m>>)[Len(pendingPermits) + 1] = <<s, m>>
        /\ Append(pendingPermits, <<s, k>>)[Len(pendingPermits) + 1] = <<s, k>>
    BY <1>1
  <2>3. QED
    BY <2>1, <2>2
<1>4. w.e = entry'[s] /\ w.permits = pendingPermits' /\ w.ok = okToSend'[s] /\ w \in Work
  BY <1>1 DEF Becomes, Handled, Work
<1>5. w.e = [entry[s] EXCEPT !.permits[k] = permit, !.state = "granted"]
  BY <1>1, <1>2, <1>3, <1>4
<1>6. /\ w.e.flowSeq = entry[s].flowSeq /\ w.e.permits[k] = permit
      /\ \A j \in Places \ {k} : w.e.permits[j] = entry[s].permits[j]
  BY <1>1, <1>5 DEF Entry
<1>7. w.e.permits[k].flowSeq = entry[s].flowSeq
  BY <1>6 DEF permit
<1>8. w.ok.flowSeq = entry[s].flowSeq
  BY <1>1, <1>2, <1>4 DEF OkToSend
<1>9. w.permits = Append(pendingPermits, <<s, k>>)
  BY <1>2, <1>3, <1>4
<1>10. k \in Active(w.e)
  <2>1. w.permits[Len(pendingPermits) + 1] = <<s, k>>
        /\ Len(pendingPermits) + 1 \in DOMAIN w.permits
    BY <1>1, <1>9
  <2>2. <<s, k>> \in ToSet(w.permits)
    BY <2>1 DEF ToSet
  <2>3. QED
    BY <2>2 DEF Handled, Agrees
<1>11. /\ entry[s].flowSeq \in Int /\ entry[s].flowSeq <= entry[s].flowSeq
       /\ \A u \in Senders : /\ entry[u].flowSeq \in Int
                             /\ \A j \in Places : entry[u].permits[j].flowSeq \in Int
  BY <1>1, EntryNumbers
<1>12. \A j \in Active(entry[s]) : entry[s].permits[j].flowSeq <= entry[s].flowSeq
  BY DEF FlowOrder, PermitsAscend
<1>13. \A j \in Active(w.e) : w.e.permits[j].flowSeq <= w.e.flowSeq
  BY <1>6, <1>7, <1>11, <1>12 DEF Active
<1>14. \A i \in DOMAIN pendingPermits :
         /\ pendingPermits[i] \in Senders \X Places /\ pendingPermits[i] # <<s, k>>
         /\ pendingPermits[i][2] \in Active(entry[pendingPermits[i][1]])
  <2> TAKE i \in DOMAIN pendingPermits
  <2>1. PICK u \in Senders, j \in Places : pendingPermits[i] = <<u, j>>
    BY <1>1
  <2>2. <<u, j>> \in ToSet(pendingPermits)
    BY <2>1 DEF ToSet
  <2>3. j \in Active(entry[u])
    BY <2>2 DEF ReceiverInv, ListsAgree
  <2>4. <<u, j>> # <<s, k>>
    BY <2>3 DEF GrantedTo
  <2>5. QED
    BY <2>1, <2>3, <2>4
<1>15. \A i \in DOMAIN pendingPermits : FlowAt(w, s, pendingPermits[i]) = FlowOf(i)
  <2> TAKE i \in DOMAIN pendingPermits
  <2>1. PICK u \in Senders, j \in Places : pendingPermits[i] = <<u, j>> /\ <<u, j>> # <<s, k>>
    BY <1>14
  <2>2. QED
    BY <1>6, <2>1 DEF FlowAt, FlowOf
<1>16. FlowAt(w, s, <<s, k>>) = entry[s].flowSeq
  BY <1>7 DEF FlowAt
<1>17. ASSUME NEW i \in DOMAIN w.permits, NEW j \in DOMAIN w.permits, i < j,
              w.permits[i][1] = w.permits[j][1]
       PROVE  FlowAt(w, s, w.permits[i]) <= FlowAt(w, s, w.permits[j])
  <2>1. /\ i \in DOMAIN pendingPermits /\ w.permits[i] = pendingPermits[i]
        /\ \/ j \in DOMAIN pendingPermits /\ w.permits[j] = pendingPermits[j]
           \/ w.permits[j] = <<s, k>>
    BY <1>1, <1>9, <1>17
  <2>2. CASE j \in DOMAIN pendingPermits /\ w.permits[j] = pendingPermits[j]
    <3>1. pendingPermits[i][1] \in Senders
      BY <1>14, <2>1
    <3>2. FlowOf(i) <= FlowOf(j)
      BY <1>17, <2>1, <2>2, <3>1 DEF FlowOrder, PermitsAscend
    <3>3. QED
      BY <1>15, <2>1, <2>2, <3>2
  <2>3. CASE w.permits[j] = <<s, k>>
    <3>1. pendingPermits[i][1] = s /\ pendingPermits[i][2] \in Active(entry[s])
      BY <1>14, <1>17, <2>1, <2>3
    <3>2. FlowOf(i) <= entry[s].flowSeq
      BY <1>12, <3>1 DEF FlowOf
    <3>3. QED
      BY <1>15, <1>16, <2>1, <2>3, <3>2
  <2>4. QED
    BY <2>1, <2>2, <2>3
<1>18. Ascending(w, s)
  BY <1>6, <1>8, <1>11, <1>13, <1>17 DEF Ascending
<1>19. Latest(w.e)
  BY <1>6, <1>7, <1>10 DEF Latest, OfFlow
<1>20. QED
  BY <1>6, <1>18, <1>19

-----------------------------------------------------------------------------
(* The order of the flow numbers: the messages on the sockets.              *)

\* What RequestsAscend and EndsAreNoted say of the messages on a socket.
AscendFrom(net, low, high) ==
  \A i \in DOMAIN net : net[i].cmd = "request_to_send" =>
    /\ low <= net[i].flowSeq /\ net[i].flowSeq <= high
    /\ \A j \in DOMAIN net : net[j].cmd = "request_to_send" /\ i < j =>
         net[i].flowSeq <= net[j].flowSeq

NotedUpTo(net, n) ==
  \A i \in DOMAIN net :
    /\ net[i].cmd # "request_to_send_more"
    /\ net[i].cmd = "send_completed" => net[i].flowSeq <= n

NoRequests(net) == \A i \in DOMAIN net : net[i].cmd \notin FlowSocketCmd

LEMMA SocketsOrdered ==
  ASSUME NEW s \in Senders
  PROVE  /\ RequestsAscend(s) <=> /\ entry[s].flowSeq <= cur[s] /\ cur[s] <= MaxFlow
                                  /\ AscendFrom(flowNet[s], entry[s].flowSeq, cur[s])
         /\ EndsAreNoted(s) <=> /\ okToSend[s].flowSeq <= entry[s].flowSeq
                                /\ NotedUpTo(flowNet[s], entry[s].flowSeq)
                                /\ NotedUpTo(dataNet[s], entry[s].flowSeq)
                                /\ NoRequests(dataNet[s])
BY DEF RequestsAscend, EndsAreNoted, Noted, AscendFrom, NotedUpTo, NoRequests

LEMMA MessageNumbers ==
  ASSUME NEW m \in DataMsgs, m.cmd # "data"
  PROVE  m \in FlowMsgs /\ m.flowSeq \in Int
BY FlowModAssumption DEF DataMsgs, Data, FlowMsgs, FlowSeqId

\* The oldest message leaves: those behind it are not older.
LEMMA FirstLeaves ==
  ASSUME NEW net \in Seq(FlowMsgs), NEW left \in Seq(FlowMsgs), Len(left) = Len(net) - 1,
         \A j \in DOMAIN left : left[j] = net[j + 1], NEW low, NEW high, AscendFrom(net, low, high)
  PROVE  /\ AscendFrom(left, low, high)
         /\ Len(net) > 0 /\ net[1].cmd = "request_to_send" => AscendFrom(left, net[1].flowSeq, high)
<1>1. /\ Len(net) \in Nat /\ DOMAIN net = 1 .. Len(net)
      /\ DOMAIN left = 1 .. (Len(net) - 1)
  OBVIOUS
<1>2. \A j \in DOMAIN left : j \in Nat /\ j + 1 \in DOMAIN net /\ 1 < j + 1
  BY <1>1
<1>3. \A i, j \in DOMAIN left : i < j => i + 1 < j + 1
  BY <1>1
<1>4. AscendFrom(left, low, high)
  BY <1>2, <1>3 DEF AscendFrom
<1>5. ASSUME Len(net) > 0, net[1].cmd = "request_to_send"
      PROVE  AscendFrom(left, net[1].flowSeq, high)
  <2>1. 1 \in DOMAIN net
    BY <1>1, <1>5
  <2>2. \A j \in DOMAIN left : left[j].cmd = "request_to_send" => net[1].flowSeq <= left[j].flowSeq
    BY <1>2, <1>5, <2>1 DEF AscendFrom
  <2>3. QED
    BY <1>4, <2>2 DEF AscendFrom
<1>6. QED
  BY <1>4, <1>5

LEMMA NotedLeaves ==
  ASSUME NEW net \in Seq(DataMsgs), NEW left \in Seq(DataMsgs), Len(left) = Len(net) - 1,
         \A j \in DOMAIN left : left[j] = net[j + 1], NEW n, NotedUpTo(net, n)
  PROVE  NotedUpTo(left, n) /\ (NoRequests(net) => NoRequests(left))
<1>1. \A j \in DOMAIN left : j + 1 \in DOMAIN net
  OBVIOUS
<1>2. QED
  BY <1>1 DEF NotedUpTo, NoRequests

\* The entry may have noted a later request meanwhile.
LEMMA NotedLater ==
  ASSUME NEW net \in Seq(DataMsgs), NEW n \in Int, NEW later \in Int, n <= later, NotedUpTo(net, n)
  PROVE  NotedUpTo(net, later)
<1>1. \A i \in DOMAIN net : net[i] \in DataMsgs
  OBVIOUS
<1>2. \A i \in DOMAIN net : net[i].cmd = "send_completed" => net[i].flowSeq \in Int
  BY <1>1, MessageNumbers
<1>3. QED
  BY <1>2 DEF NotedUpTo

\* A sender asks for nothing older than what it asked for before.
LEMMA RequestsFollow ==
  ASSUME NEW net \in Seq(FlowMsgs), NEW q \in Seq(FlowMsgs), NEW low \in Int, NEW high \in Int,
         NEW next \in Int, AscendFrom(net, low, high), low <= high, high <= next,
         \A i \in DOMAIN q : q[i].cmd = "request_to_send" => q[i].flowSeq = next
  PROVE  AscendFrom(net \o q, low, next)
<1> DEFINE all == net \o q
<1>1. /\ DOMAIN all = 1 .. Len(net) + Len(q) /\ Len(net) \in Nat /\ Len(q) \in Nat
      /\ \A i \in DOMAIN all : all[i] = IF i <= Len(net) THEN net[i] ELSE q[i - Len(net)]
  OBVIOUS
<1>2. \A i \in DOMAIN all : \/ i \in DOMAIN net /\ all[i] = net[i]
                            \/ /\ i \notin DOMAIN net /\ i > Len(net)
                               /\ all[i].cmd = "request_to_send" => all[i].flowSeq = next
  <2> TAKE i \in DOMAIN all
  <2>1. CASE i <= Len(net)
    BY <1>1, <2>1
  <2>2. CASE i > Len(net)
    <3>1. i - Len(net) \in DOMAIN q /\ all[i] = q[i - Len(net)]
      BY <1>1, <2>2
    <3>2. QED
      BY <2>2, <3>1
  <2>3. QED
    BY <1>1, <2>1, <2>2
<1>3. \A i \in DOMAIN net : net[i].flowSeq \in Int
  <2>1. \A i \in DOMAIN net : net[i] \in FlowMsgs
    OBVIOUS
  <2>2. \A m \in FlowMsgs : m.flowSeq \in Int
    BY FlowModAssumption DEF FlowMsgs, FlowSeqId
  <2>3. QED
    BY <2>1, <2>2
<1>4. \A i, j \in DOMAIN all : i < j /\ i \notin DOMAIN net => j \notin DOMAIN net
  BY <1>1
<1> HIDE DEF all
<1>5. \A i \in DOMAIN all : all[i].cmd = "request_to_send" =>
        low <= all[i].flowSeq /\ all[i].flowSeq <= next
  BY <1>2, <1>3 DEF AscendFrom
<1>6. ASSUME NEW i \in DOMAIN all, NEW j \in DOMAIN all, i < j,
             all[i].cmd = "request_to_send", all[j].cmd = "request_to_send"
      PROVE  all[i].flowSeq <= all[j].flowSeq
  <2>1. CASE j \in DOMAIN net
    BY <1>2, <1>4, <1>6, <2>1 DEF AscendFrom
  <2>2. CASE j \notin DOMAIN net
    BY <1>2, <1>5, <1>6, <2>2
  <2>3. QED
    BY <2>1, <2>2
<1>7. QED
  BY <1>5, <1>6 DEF AscendFrom, all

LEMMA NotedFollow ==
  ASSUME NEW net \in Seq(DataMsgs), NEW q \in Seq(DataMsgs), NEW n, NotedUpTo(net, n), NotedUpTo(q, n)
  PROVE  /\ NotedUpTo(net \o q, n)
         /\ NoRequests(net) /\ NoRequests(q) => NoRequests(net \o q)
<1> DEFINE all == net \o q
<1>1. \A i \in DOMAIN all : \/ i \in DOMAIN net /\ all[i] = net[i]
                            \/ i - Len(net) \in DOMAIN q /\ all[i] = q[i - Len(net)]
  OBVIOUS
<1>2. QED
  BY <1>1 DEF NotedUpTo, NoRequests

\* A message of the data socket is put among those of the flow socket.
LEMMA ForwardedBetween ==
  ASSUME NEW net \in Seq(FlowMsgs), NEW i \in 1 .. Len(net) + 1, NEW m \in FlowMsgs,
         m.cmd # "request_to_send", NEW low, NEW high, AscendFrom(net, low, high),
         NEW n, NotedUpTo(net, n), NotedUpTo(<<m>>, n)
  PROVE  AscendFrom(InsertAt(net, i, m), low, high) /\ NotedUpTo(InsertAt(net, i, m), n)
<1>0. m \in FlowMsgs /\ net \in Seq(FlowMsgs) /\ i \in 1 .. Len(net) + 1
  OBVIOUS
<1> DEFINE all == InsertAt(net, i, m)
           Old(j) == IF j < i THEN j ELSE j - 1
<1>1. /\ Len(all) = Len(net) + 1 /\ all \in Seq(FlowMsgs)
      /\ \A j \in 1 .. Len(net) + 1 : all[j] = IF j < i THEN net[j] ELSE IF j = i THEN m ELSE net[j - 1]
  <2>1. all \in Seq(FlowMsgs)
    BY InsertAtType
  <2>2. /\ Len(all) = Len(net) + 1
        /\ \A j \in 1 .. Len(net) + 1 : all[j] = IF j < i THEN net[j] ELSE IF j = i THEN m ELSE net[j - 1]
    BY ONLY <1>0, InsertAtElements, SMTT(60)
  <2>3. QED
    BY <2>1, <2>2
<1> HIDE DEF all
<1>2. \A j \in DOMAIN all : j # i => Old(j) \in DOMAIN net /\ all[j] = net[Old(j)]
  BY <1>1
<1>3. \A j \in DOMAIN all : j = i => all[j] = m
  BY <1>1
<1>4. \A j, k \in DOMAIN all : j < k /\ j # i /\ k # i => Old(j) < Old(k)
  BY <1>1
<1> HIDE DEF Old
<1>5. AscendFrom(all, low, high)
  BY <1>2, <1>3, <1>4 DEF AscendFrom
<1>6. m.cmd # "request_to_send_more" /\ (m.cmd = "send_completed" => m.flowSeq <= n)
  <2>1. 1 \in DOMAIN <<m>> /\ <<m>>[1] = m
    OBVIOUS
  <2>2. QED
    BY <2>1 DEF NotedUpTo
<1>7. NotedUpTo(all, n)
  BY <1>2, <1>3, <1>6 DEF NotedUpTo
<1>8. QED
  BY <1>5, <1>7 DEF all

-----------------------------------------------------------------------------
(* The order of the flow numbers: the steps.                                *)

\* The order of the flow numbers survives a step if it does for one sender's
\* sockets, and the others' stay as they are.
LEMMA OneSenderOrdered ==
  ASSUME FlowOrder, NEW s \in Senders,
         \A u \in Senders : /\ PermitsAscend(u)' /\ LatestGranted(u)'
                            /\ okToSend'[u].flowSeq <= entry'[u].flowSeq,
         \A u \in Senders \ {s} : /\ entry'[u].flowSeq = entry[u].flowSeq /\ cur'[u] = cur[u]
                                  /\ flowNet'[u] = flowNet[u] /\ dataNet'[u] = dataNet[u],
         entry'[s].flowSeq <= cur'[s], cur'[s] <= MaxFlow,
         AscendFrom(flowNet'[s], entry'[s].flowSeq, cur'[s]),
         NotedUpTo(flowNet'[s], entry'[s].flowSeq), NotedUpTo(dataNet'[s], entry'[s].flowSeq),
         NoRequests(dataNet'[s])
  PROVE  FlowOrder'
<1>1. ASSUME NEW u \in Senders
      PROVE  /\ entry'[u].flowSeq <= cur'[u] /\ cur'[u] <= MaxFlow
             /\ AscendFrom(flowNet'[u], entry'[u].flowSeq, cur'[u])
             /\ NotedUpTo(flowNet'[u], entry'[u].flowSeq)
             /\ NotedUpTo(dataNet'[u], entry'[u].flowSeq) /\ NoRequests(dataNet'[u])
  <2>1. CASE u = s
    BY <2>1
  <2>2. CASE u # s
    <3>1. RequestsAscend(u) /\ EndsAreNoted(u)
      BY DEF FlowOrder
    <3>2. /\ entry[u].flowSeq <= cur[u] /\ cur[u] <= MaxFlow
          /\ AscendFrom(flowNet[u], entry[u].flowSeq, cur[u])
          /\ NotedUpTo(flowNet[u], entry[u].flowSeq)
          /\ NotedUpTo(dataNet[u], entry[u].flowSeq) /\ NoRequests(dataNet[u])
      BY <3>1, SocketsOrdered
    <3>3. QED
      BY <2>2, <3>2
  <2>3. QED
    BY <2>1, <2>2
<1>2. ASSUME NEW u \in Senders
      PROVE  RequestsAscend(u)' /\ EndsAreNoted(u)'
  BY <1>1 DEF RequestsAscend, EndsAreNoted, Noted, AscendFrom, NotedUpTo, NoRequests
<1>3. QED
  BY <1>2 DEF FlowOrder

\* A step that keeps the states, requests and permits of the receiver.
LEMMA PermitsStay ==
  ASSUME ReceiverInv, FlowOrder, pendingPermits' = pendingPermits,
         \A u \in Senders :
           /\ entry'[u].state = entry[u].state /\ entry'[u].flowSeq = entry[u].flowSeq
           /\ \A k \in Places : entry'[u].permits[k].flowSeq = entry[u].permits[k].flowSeq
           /\ okToSend'[u].flowSeq = okToSend[u].flowSeq \/ okToSend'[u].flowSeq = 0
  PROVE  \A u \in Senders : /\ PermitsAscend(u)' /\ LatestGranted(u)'
                            /\ okToSend'[u].flowSeq <= entry'[u].flowSeq
<1> TAKE u \in Senders
<1>1. pendingPermits \in Seq(Senders \X Places) /\ entry[u].flowSeq \in Nat
  BY FlowModAssumption DEF ReceiverInv, TypeOK, Entry, FlowSeq
<1>2. Active(entry'[u]) = Active(entry[u])
  BY DEF Active
<1>3. \A i \in DOMAIN pendingPermits : FlowOf(i)' = FlowOf(i)
  <2> TAKE i \in DOMAIN pendingPermits
  <2>1. PICK v \in Senders, k \in Places : pendingPermits[i] = <<v, k>>
    BY <1>1
  <2>2. QED
    BY <2>1 DEF FlowOf
<1>4. PermitsAscend(u)'
  <2>1. \A k \in Active(entry'[u]) : entry'[u].permits[k].flowSeq <= entry'[u].flowSeq
    BY <1>2 DEF FlowOrder, PermitsAscend, Active
  <2>2. \A i, j \in DOMAIN pendingPermits :
          i < j /\ pendingPermits[i][1] = u /\ pendingPermits[j][1] = u => FlowOf(i)' <= FlowOf(j)'
    BY <1>3 DEF FlowOrder, PermitsAscend
  <2>3. QED
    BY <2>1, <2>2 DEF PermitsAscend
<1>5. LatestGranted(u)'
  <2>1. OfFlow(entry'[u], entry'[u].flowSeq) = OfFlow(entry[u], entry[u].flowSeq)
    BY <1>2 DEF OfFlow, Active
  <2>2. QED
    BY <2>1 DEF FlowOrder, LatestGranted
<1>6. okToSend'[u].flowSeq <= entry'[u].flowSeq
  BY <1>1 DEF FlowOrder, EndsAreNoted
<1>7. QED
  BY <1>4, <1>5, <1>6

\* The types of what the lemmas on sockets are about.
LEMMA SocketTypes ==
  ASSUME ReceiverInv, NEW s \in Senders
  PROVE  /\ flowNet[s] \in Seq(FlowMsgs) /\ flowNet[s] \in Seq(DataMsgs) /\ dataNet[s] \in Seq(DataMsgs)
         /\ entry[s].flowSeq \in Nat /\ cur[s] \in Nat /\ okToSend[s].flowSeq \in Nat /\ MaxFlow \in Nat
         /\ FlowMod \in Nat /\ MaxFlow < FlowMod - 1 /\ nextSend[s] \in Nat
<1>1. flowNet[s] \in Seq(FlowMsgs) /\ dataNet[s] \in Seq(DataMsgs)
  BY DEF ReceiverInv, TypeOK, DataMsgs
<1>2. flowNet[s] \in Seq(DataMsgs)
  <2>1. FlowMsgs \subseteq DataMsgs
    BY DEF DataMsgs
  <2>2. QED
    BY ONLY <1>1, <2>1, SMT
<1>3. entry[s].flowSeq \in Nat /\ cur[s] \in Nat /\ okToSend[s].flowSeq \in Nat /\ nextSend[s] \in Nat
  BY FlowModAssumption DEF ReceiverInv, TypeOK, Entry, FlowSeq
<1>4. QED
  BY <1>1, <1>2, <1>3, FlowModAssumption, ReceiverAssumption

LEMMA RequestsOrdered ==
  ASSUME ReceiverInv, FlowOrder, NEW s \in Senders, SenderRequests(s) \/ SenderRepeats(s)
  PROVE  FlowOrder'
<1> DEFINE m == Request(s, cur'[s])
           q == <<m>>
<1>1. /\ flowNet[s] \in Seq(FlowMsgs) /\ flowNet[s] \in Seq(DataMsgs) /\ dataNet[s] \in Seq(DataMsgs)
      /\ entry[s].flowSeq \in Nat /\ cur[s] \in Nat /\ MaxFlow \in Nat
      /\ FlowMod \in Nat /\ MaxFlow < FlowMod - 1 /\ nextSend[s] \in Nat
  BY SocketTypes
<1>2. /\ entry[s].flowSeq <= cur[s] /\ cur[s] <= MaxFlow
      /\ AscendFrom(flowNet[s], entry[s].flowSeq, cur[s])
      /\ NotedUpTo(flowNet[s], entry[s].flowSeq) /\ NotedUpTo(dataNet[s], entry[s].flowSeq)
      /\ NoRequests(dataNet[s])
  BY SocketsOrdered DEF FlowOrder
<1>3. /\ cur'[s] \in Nat /\ cur[s] <= cur'[s] /\ cur'[s] <= MaxFlow /\ cur'[s] \in FlowSeqId
      /\ \A u \in Senders \ {s} : cur'[u] = cur[u]
  <2>1. CASE SenderRequests(s)
    <3>1. cur[s] < MaxFlow /\ cur' = [cur EXCEPT ![s] = NextFlowSeq(@)] /\ cur \in [Senders -> FlowSeq]
      BY <2>1 DEF SenderRequests, ReceiverInv, TypeOK
    <3>2. NextFlowSeq(cur[s]) = cur[s] + 1
      BY <1>1, <3>1 DEF NextFlowSeq
    <3>3. cur'[s] = cur[s] + 1
      BY <3>1, <3>2
    <3>4. QED
      BY <1>1, <3>1, <3>3 DEF FlowSeqId
  <2>2. CASE SenderRepeats(s)
    <3>1. cur' = cur /\ cur[s] # 0
      BY <2>2 DEF SenderRepeats, senderVars, ReceiverInv, FlowNamed
    <3>2. QED
      BY <1>1, <1>2, <3>1 DEF FlowSeqId
  <2>3. QED
    BY <2>1, <2>2
<1>4. /\ flowNet' = [flowNet EXCEPT ![s] = Append(@, m)]
      /\ UNCHANGED <<entry, lists, dataNet, okToSend>>
  <2>1. CASE SenderRequests(s)
    BY <2>1 DEF SenderRequests
  <2>2. CASE SenderRepeats(s)
    <3>1. cur' = cur
      BY <2>2 DEF SenderRepeats, senderVars
    <3>2. QED
      BY <2>2, <3>1 DEF SenderRepeats
  <2>3. QED
    BY <2>1, <2>2
<1>5. /\ m \in FlowMsgs /\ m \in DataMsgs /\ m.cmd = "request_to_send" /\ m.flowSeq = cur'[s]
  BY <1>1, <1>3, MessageType DEF Request, FlowMsg, FlowSocketCmd, DataMsgs
<1> HIDE DEF m
<1>6. /\ q \in Seq(FlowMsgs) /\ q \in Seq(DataMsgs)
      /\ \A i \in DOMAIN q : q[i] = m
  BY <1>5
<1>7. /\ flowNet'[s] = flowNet[s] \o q /\ \A u \in Senders \ {s} : flowNet'[u] = flowNet[u]
  BY <1>1, <1>4, <1>5 DEF ReceiverInv, TypeOK
<1> HIDE DEF q
<1>8. AscendFrom(flowNet[s] \o q, entry[s].flowSeq, cur'[s])
  <2>1. \A i \in DOMAIN q : q[i].cmd = "request_to_send" => q[i].flowSeq = cur'[s]
    BY <1>5, <1>6
  <2>2. QED
    BY <1>1, <1>2, <1>3, <1>6, <2>1, RequestsFollow
<1>9. NotedUpTo(flowNet[s] \o q, entry[s].flowSeq)
  <2>1. NotedUpTo(q, entry[s].flowSeq)
    BY <1>5, <1>6 DEF NotedUpTo
  <2>2. QED
    BY <1>1, <1>2, <1>6, <2>1, NotedFollow
<1>10. \A u \in Senders : /\ PermitsAscend(u)' /\ LatestGranted(u)'
                          /\ okToSend'[u].flowSeq <= entry'[u].flowSeq
  BY <1>4, PermitsStay DEF lists
<1>11. entry'[s].flowSeq <= cur'[s]
  BY <1>1, <1>2, <1>3, <1>4
<1>12. QED
  BY <1>2, <1>3, <1>4, <1>7, <1>8, <1>9, <1>10, <1>11, OneSenderOrdered

LEMMA SendsOrdered ==
  ASSUME ReceiverInv, FlowOrder, udpAllowAsyncPermits, NEW s \in Senders, SenderSends(s)
  PROVE  FlowOrder'
<1>1. PICK n \in 0 .. okToSend[s].max, r \in 0 .. MaxResend, more \in BOOLEAN :
        SendPackets(s, n, r, more)
  BY DEF SenderSends
<1> DEFINE after == nextSend[s] + n
           next  == NextFlowSeq(cur[s])
           start == IF n + r > 0 THEN <<FlowMsg("send_start", n + r, cur[s], after)>> ELSE <<>>
           rts   == IF more THEN <<FlowMsg("request_to_send", 0, next, after)>> ELSE <<>>
           done  == FlowMsg("send_completed", n + r, cur[s], after)
           data  == [i \in 1 .. r |-> Data(TRUE)] \o [i \in 1 .. n |-> Data(FALSE)]
           last  == data \o <<done>>
<1>2. /\ flowNet[s] \in Seq(FlowMsgs) /\ flowNet[s] \in Seq(DataMsgs) /\ dataNet[s] \in Seq(DataMsgs)
      /\ entry[s].flowSeq \in Nat /\ cur[s] \in Nat /\ MaxFlow \in Nat
      /\ FlowMod \in Nat /\ MaxFlow < FlowMod - 1 /\ nextSend[s] \in Nat
  BY SocketTypes
<1>3. /\ entry[s].flowSeq <= cur[s] /\ cur[s] <= MaxFlow
      /\ AscendFrom(flowNet[s], entry[s].flowSeq, cur[s])
      /\ NotedUpTo(flowNet[s], entry[s].flowSeq) /\ NotedUpTo(dataNet[s], entry[s].flowSeq)
      /\ NoRequests(dataNet[s]) /\ okToSend[s].flowSeq <= entry[s].flowSeq
  BY SocketsOrdered DEF FlowOrder
<1>4. /\ cur[s] # 0 /\ okToSend[s].flowSeq = cur[s]
      /\ okToSend' = [okToSend EXCEPT ![s] = NoOkToSend]
      /\ UNCHANGED <<entry, lists, queued, flowVars, dataThread>>
  BY DEF SenderSends
<1>5. /\ more => cur[s] < MaxFlow
      /\ flowNet' = [flowNet EXCEPT ![s] = @ \o start \o rts]
      /\ dataNet' = [dataNet EXCEPT ![s] = Append(@ \o data, done)]
      /\ cur' = [cur EXCEPT ![s] = IF more THEN next ELSE @]
  BY <1>1 DEF SendPackets
<1>6. n \in Nat /\ r \in Nat /\ n + r \in Nat /\ after \in Nat /\ cur[s] \in FlowSeqId
  BY <1>2, <1>4, ReceiverAssumption DEF ReceiverInv, TypeOK, FlowSeq, FlowSeqId
<1>7. more => next = cur[s] + 1 /\ next \in FlowSeqId
  BY <1>2, <1>5, SMTT(30) DEF NextFlowSeq, FlowSeqId
<1>8. /\ cur'[s] = (IF more THEN next ELSE cur[s]) /\ cur'[s] \in Nat /\ cur[s] <= cur'[s]
      /\ cur'[s] <= MaxFlow /\ \A u \in Senders \ {s} : cur'[u] = cur[u]
  BY <1>2, <1>3, <1>5, <1>7, SMTT(30) DEF ReceiverInv, TypeOK
<1> HIDE DEF after, next
<1>9. /\ start \in Seq(FlowMsgs) /\ rts \in Seq(FlowMsgs) /\ done \in FlowMsgs
      /\ \A i \in DOMAIN start : start[i].cmd = "send_start"
      /\ \A i \in DOMAIN rts : rts[i].cmd = "request_to_send" /\ rts[i].flowSeq = cur'[s]
      /\ done.cmd = "send_completed" /\ done.flowSeq = cur[s]
  <2> DEFINE a == FlowMsg("send_start", n + r, cur[s], after)
             b == FlowMsg("request_to_send", 0, next, after)
  <2>1. a \in FlowMsgs /\ a.cmd = "send_start"
    BY <1>6, MessageType DEF FlowMsg, FlowSocketCmd
  <2>2. done \in FlowMsgs /\ done.cmd = "send_completed" /\ done.flowSeq = cur[s]
    BY <1>6, MessageType DEF FlowMsg, DataSocketCmd
  <2>3. more => b \in FlowMsgs
    BY <1>6, <1>7, MessageType DEF FlowSocketCmd
  <2>4. b.cmd = "request_to_send" /\ b.flowSeq = next
    BY DEF FlowMsg
  <2> HIDE DEF a, b
  <2>5. start \in Seq(FlowMsgs) /\ \A i \in DOMAIN start : start[i].cmd = "send_start"
    BY <2>1 DEF a
  <2>6. rts \in Seq(FlowMsgs) /\ \A i \in DOMAIN rts : rts[i].cmd = "request_to_send" /\ rts[i].flowSeq = cur'[s]
    BY <1>8, <2>3, <2>4 DEF b
  <2>7. QED
    BY <2>2, <2>5, <2>6
<1>10. /\ data \in Seq(DataMsgs) /\ \A i \in DOMAIN data : data[i].cmd = "data"
  <2> DEFINE x == [i \in 1 .. r |-> Data(TRUE)]
             y == [i \in 1 .. n |-> Data(FALSE)]
  <2>1. /\ x \in Seq({Data(FALSE), Data(TRUE)}) /\ y \in Seq({Data(FALSE), Data(TRUE)})
    BY <1>6
  <2> HIDE DEF x, y
  <2>2. data \in Seq({Data(FALSE), Data(TRUE)})
    BY <2>1, ConcatProperties DEF x, y
  <2> HIDE DEF data
  <2>3. {Data(FALSE), Data(TRUE)} \subseteq DataMsgs
    BY DEF DataMsgs
  <2>4. \A m \in {Data(FALSE), Data(TRUE)} : m.cmd = "data"
    BY DEF Data
  <2> DEFINE Packets == {Data(FALSE), Data(TRUE)}
  <2> HIDE DEF Packets
  <2>5. data \in Seq(Packets) /\ Packets \subseteq DataMsgs /\ \A m \in Packets : m.cmd = "data"
    BY <2>2, <2>3, <2>4 DEF Packets
  <2>6. QED
    BY ONLY <2>5, SMT
<1> DEFINE q == start \o rts
<1> HIDE DEF start, rts, done, data
<1>11. q \in Seq(FlowMsgs) /\ q \in Seq(DataMsgs)
       /\ \A i \in DOMAIN q : \/ q[i].cmd = "send_start"
                              \/ q[i].cmd = "request_to_send" /\ q[i].flowSeq = cur'[s]
  <2>1. q \in Seq(FlowMsgs)
    BY <1>9, ConcatProperties
  <2>2. FlowMsgs \subseteq DataMsgs
    BY DEF DataMsgs
  <2>3. q \in Seq(DataMsgs)
    BY ONLY <2>1, <2>2, SMT
  <2>4. \A i \in DOMAIN q : \/ i \in DOMAIN start /\ q[i] = start[i]
                            \/ i - Len(start) \in DOMAIN rts /\ q[i] = rts[i - Len(start)]
    BY <1>9
  <2>5. QED
    BY <1>9, <2>1, <2>3, <2>4
<1>12. /\ last \in Seq(DataMsgs)
       /\ \A i \in DOMAIN last : last[i].cmd = "data" \/ last[i] = done
  <2>1. done \in DataMsgs
    BY <1>9 DEF DataMsgs
  <2>2. QED
    BY <1>10, <2>1
<1>13. /\ flowNet'[s] = flowNet[s] \o q /\ dataNet'[s] = dataNet[s] \o last
       /\ \A u \in Senders \ {s} : flowNet'[u] = flowNet[u] /\ dataNet'[u] = dataNet[u]
  <2>1. /\ flowNet'[s] = flowNet[s] \o start \o rts
        /\ dataNet'[s] = Append(dataNet[s] \o data, done)
        /\ \A u \in Senders \ {s} : flowNet'[u] = flowNet[u] /\ dataNet'[u] = dataNet[u]
    BY <1>5 DEF ReceiverInv, TypeOK
  <2>2. flowNet[s] \o start \o rts = flowNet[s] \o q
    <3>1. flowNet[s] \in Seq(FlowMsgs) /\ start \in Seq(FlowMsgs) /\ rts \in Seq(FlowMsgs)
      BY <1>2, <1>9
    <3> DEFINE net == flowNet[s]
    <3>2. net \in Seq(FlowMsgs)
      BY <3>1
    <3> HIDE DEF net
    <3>3. (net \o start) \o rts = net \o (start \o rts)
      BY ONLY <3>1, <3>2, ConcatAssociative, SMTT(30)
    <3>4. QED
      BY <3>3 DEF net
  <2>3. Append(dataNet[s] \o data, done) = dataNet[s] \o last
    <3>1. done \in DataMsgs
      BY <1>9 DEF DataMsgs
    <3>2. QED
      <4> DEFINE net == dataNet[s]
                 one == <<done>>
      <4>1. net \in Seq(DataMsgs) /\ data \in Seq(DataMsgs) /\ one \in Seq(DataMsgs)
        BY <1>2, <1>10, <3>1
      <4>2. dataNet[s] \o data \in Seq(DataMsgs)
        BY <1>2, <1>10, ConcatProperties
      <4>3. Append(dataNet[s] \o data, done) = (dataNet[s] \o data) \o <<done>>
        BY <3>1, <4>2, AppendIsConcat
      <4> HIDE DEF net, one
      <4>4. (net \o data) \o one = net \o (data \o one)
        BY ONLY <4>1, ConcatAssociative, SMTT(30)
      <4>5. QED
        BY <4>3, <4>4 DEF net, one
  <2>4. QED
    BY <2>1, <2>2, <2>3
<1> HIDE DEF q, last
<1>14. AscendFrom(flowNet[s] \o q, entry[s].flowSeq, cur'[s])
  <2>1. \A i \in DOMAIN q : q[i].cmd = "request_to_send" => q[i].flowSeq = cur'[s]
    BY <1>11
  <2>2. /\ flowNet[s] \in Seq(FlowMsgs) /\ q \in Seq(FlowMsgs)
        /\ entry[s].flowSeq \in Int /\ cur[s] \in Int /\ cur'[s] \in Int
        /\ AscendFrom(flowNet[s], entry[s].flowSeq, cur[s])
        /\ entry[s].flowSeq <= cur[s] /\ cur[s] <= cur'[s]
    BY <1>2, <1>3, <1>8, <1>11
  <2>3. QED
    BY ONLY <2>1, <2>2, RequestsFollow
<1>15. NotedUpTo(flowNet[s] \o q, entry[s].flowSeq)
  <2>1. NotedUpTo(q, entry[s].flowSeq)
    BY <1>11 DEF NotedUpTo
  <2>2. QED
    BY <1>2, <1>3, <1>11, <2>1, NotedFollow
<1>16. NotedUpTo(dataNet[s] \o last, entry[s].flowSeq) /\ NoRequests(dataNet[s] \o last)
  <2>1. NotedUpTo(last, entry[s].flowSeq) /\ NoRequests(last)
    BY <1>3, <1>4, <1>9, <1>12 DEF NotedUpTo, NoRequests, FlowSocketCmd
  <2>2. QED
    BY <1>2, <1>3, <1>12, <2>1, NotedFollow
<1>17. \A u \in Senders : /\ PermitsAscend(u)' /\ LatestGranted(u)'
                          /\ okToSend'[u].flowSeq <= entry'[u].flowSeq
  <2>1. \A u \in Senders : okToSend'[u].flowSeq = okToSend[u].flowSeq \/ okToSend'[u].flowSeq = 0
    BY <1>4 DEF ReceiverInv, TypeOK, NoOkToSend
  <2>2. QED
    BY <1>4, <2>1, PermitsStay DEF lists
<1>18. entry'[s].flowSeq <= cur'[s] /\ entry' = entry
  BY <1>2, <1>3, <1>4, <1>8
<1>19. QED
  BY <1>8, <1>13, <1>14, <1>15, <1>16, <1>17, <1>18, OneSenderOrdered

\* What is lost or taken off leaves what is behind it in order.
LEMMA TailBehind ==
  ASSUME NEW T, NEW net \in Seq(T), net # <<>>
  PROVE  /\ Tail(net) \in Seq(T) /\ Len(Tail(net)) = Len(net) - 1
         /\ \A j \in DOMAIN Tail(net) : Tail(net)[j] = net[j + 1]
         /\ 1 \in DOMAIN net /\ Head(net) = net[1]
OBVIOUS

\* A step that changes the sockets of one sender at most, and nothing that the
\* receiver has recorded of requests and permits.
LEMMA SocketsStep ==
  ASSUME ReceiverInv, FlowOrder, NEW s \in Senders, pendingPermits' = pendingPermits,
         okToSend' = okToSend, cur' = cur,
         \A u \in Senders :
           /\ entry'[u].state = entry[u].state /\ entry'[u].flowSeq = entry[u].flowSeq
           /\ \A k \in Places : entry'[u].permits[k].flowSeq = entry[u].permits[k].flowSeq,
         \A u \in Senders \ {s} : flowNet'[u] = flowNet[u] /\ dataNet'[u] = dataNet[u],
         AscendFrom(flowNet'[s], entry[s].flowSeq, cur[s]),
         NotedUpTo(flowNet'[s], entry[s].flowSeq), NotedUpTo(dataNet'[s], entry[s].flowSeq),
         NoRequests(dataNet'[s])
  PROVE  FlowOrder'
<1>1. \A u \in Senders : /\ PermitsAscend(u)' /\ LatestGranted(u)'
                         /\ okToSend'[u].flowSeq <= entry'[u].flowSeq
  BY PermitsStay
<1>2. entry[s].flowSeq <= cur[s] /\ cur[s] <= MaxFlow
  BY DEF FlowOrder, RequestsAscend
<1>3. QED
  BY <1>1, <1>2, OneSenderOrdered

LEMMA NetworkOrdered ==
  ASSUME ReceiverInv, FlowOrder, NEW s \in Senders, Network(s)
  PROVE  FlowOrder'
<1>1. /\ flowNet[s] \in Seq(FlowMsgs) /\ flowNet[s] \in Seq(DataMsgs) /\ dataNet[s] \in Seq(DataMsgs)
  BY SocketTypes
<1>2. /\ AscendFrom(flowNet[s], entry[s].flowSeq, cur[s])
      /\ NotedUpTo(flowNet[s], entry[s].flowSeq) /\ NotedUpTo(dataNet[s], entry[s].flowSeq)
      /\ NoRequests(dataNet[s])
  BY SocketsOrdered DEF FlowOrder
<1>3. CASE LoseFlow(s)
  <2>1. /\ flowNet'[s] = Tail(flowNet[s]) /\ flowNet[s] # <<>> /\ dataNet' = dataNet
        /\ \A u \in Senders \ {s} : flowNet'[u] = flowNet[u]
    BY <1>3 DEF LoseFlow, ReceiverInv, TypeOK
  <2>2. AscendFrom(Tail(flowNet[s]), entry[s].flowSeq, cur[s])
    <3> DEFINE net == flowNet[s]
               left == Tail(net)
    <3>1. net \in Seq(FlowMsgs) /\ net # <<>> /\ AscendFrom(net, entry[s].flowSeq, cur[s])
      BY <1>1, <1>2, <2>1
    <3> HIDE DEF net
    <3>2. /\ left \in Seq(FlowMsgs) /\ Len(left) = Len(net) - 1
          /\ \A j \in DOMAIN left : left[j] = net[j + 1]
      BY <3>1, TailBehind
    <3> HIDE DEF left
    <3>3. AscendFrom(left, entry[s].flowSeq, cur[s])
      BY ONLY <3>1, <3>2, FirstLeaves
    <3>4. QED
      BY <3>3 DEF left, net
  <2>3. NotedUpTo(Tail(flowNet[s]), entry[s].flowSeq)
    <3> DEFINE net == flowNet[s]
               left == Tail(net)
    <3>1. net \in Seq(DataMsgs) /\ net # <<>> /\ NotedUpTo(net, entry[s].flowSeq)
      BY <1>1, <1>2, <2>1
    <3> HIDE DEF net
    <3>2. /\ left \in Seq(DataMsgs) /\ Len(left) = Len(net) - 1
          /\ \A j \in DOMAIN left : left[j] = net[j + 1]
      BY <3>1, TailBehind
    <3> HIDE DEF left
    <3>3. NotedUpTo(left, entry[s].flowSeq) /\ (NoRequests(net) => NoRequests(left))
      BY ONLY <3>1, <3>2, NotedLeaves
    <3>4. QED
      BY <1>2, <3>3 DEF left, net
  <2>4. QED
    BY <1>2, <1>3, <2>1, <2>2, <2>3, SocketsStep DEF LoseFlow, lists, senderVars
<1>4. CASE LoseData(s)
  <2>1. /\ dataNet'[s] = Tail(dataNet[s]) /\ dataNet[s] # <<>> /\ flowNet' = flowNet
        /\ \A u \in Senders \ {s} : dataNet'[u] = dataNet[u]
    BY <1>4 DEF LoseData, ReceiverInv, TypeOK
  <2>2. NotedUpTo(Tail(dataNet[s]), entry[s].flowSeq) /\ NoRequests(Tail(dataNet[s]))
    <3> DEFINE net == dataNet[s]
               left == Tail(net)
    <3>1. net \in Seq(DataMsgs) /\ net # <<>> /\ NotedUpTo(net, entry[s].flowSeq)
      BY <1>1, <1>2, <2>1
    <3> HIDE DEF net
    <3>2. /\ left \in Seq(DataMsgs) /\ Len(left) = Len(net) - 1
          /\ \A j \in DOMAIN left : left[j] = net[j + 1]
      BY <3>1, TailBehind
    <3> HIDE DEF left
    <3>3. NotedUpTo(left, entry[s].flowSeq) /\ (NoRequests(net) => NoRequests(left))
      BY ONLY <3>1, <3>2, NotedLeaves
    <3>4. QED
      BY <1>2, <3>3 DEF left, net
  <2>3. QED
    BY <1>2, <1>4, <2>1, <2>2, SocketsStep DEF LoseData, lists, senderVars
<1>5. QED
  BY <1>3, <1>4 DEF Network

LEMMA ReadDataOrdered ==
  ASSUME ReceiverInv, FlowOrder, NEW s \in Senders, ReadData(s)
  PROVE  FlowOrder'
<1>1. flowNet[s] \in Seq(FlowMsgs) /\ dataNet[s] \in Seq(DataMsgs)
  BY SocketTypes
<1>2. /\ AscendFrom(flowNet[s], entry[s].flowSeq, cur[s])
      /\ NotedUpTo(flowNet[s], entry[s].flowSeq) /\ NotedUpTo(dataNet[s], entry[s].flowSeq)
      /\ NoRequests(dataNet[s])
  BY SocketsOrdered DEF FlowOrder
<1>3. /\ dataNet'[s] = Tail(dataNet[s]) /\ dataNet[s] # <<>>
      /\ \A u \in Senders \ {s} : dataNet'[u] = dataNet[u]
      /\ UNCHANGED <<lists, queued, flowVars, flowNet, okToSend, senderVars>>
  BY DEF ReadData, ReceiverInv, TypeOK
<1>4. \A u \in Senders : /\ entry'[u].state = entry[u].state /\ entry'[u].flowSeq = entry[u].flowSeq
                         /\ entry'[u].permits = entry[u].permits
  <2>1. entry \in [Senders -> Entry]
    BY DEF ReceiverInv, TypeOK
  <2>2. UNCHANGED entry \/ \E k : entry' = [entry EXCEPT ![s].last = k]
    BY DEF ReadData
  <2>3. QED
    BY <2>1, <2>2 DEF Entry
<1>5. NotedUpTo(Tail(dataNet[s]), entry[s].flowSeq) /\ NoRequests(Tail(dataNet[s]))
  <2> DEFINE net == dataNet[s]
             left == Tail(net)
  <2>1. net \in Seq(DataMsgs) /\ net # <<>> /\ NotedUpTo(net, entry[s].flowSeq)
    BY <1>1, <1>2, <1>3
  <2> HIDE DEF net
  <2>2. /\ left \in Seq(DataMsgs) /\ Len(left) = Len(net) - 1
        /\ \A j \in DOMAIN left : left[j] = net[j + 1]
    BY <2>1, TailBehind
  <2> HIDE DEF left
  <2>3. NotedUpTo(left, entry[s].flowSeq) /\ (NoRequests(net) => NoRequests(left))
    BY ONLY <2>1, <2>2, NotedLeaves
  <2>4. QED
    BY <1>2, <2>3 DEF left, net
<1>6. QED
  BY <1>2, <1>3, <1>4, <1>5, SocketsStep DEF lists, senderVars

\* The message is the end of a request the receiver has noted.
LEMMA ForwardFlowOrdered ==
  ASSUME ReceiverInv, FlowOrder, NEW s \in Senders, ForwardFlow(s)
  PROVE  FlowOrder'
<1> DEFINE m == Head(dataNet[s])
           forwarded == {i \in DOMAIN flowNet[s] : flowNet[s][i].cmd \in DataSocketCmd}
<1>1. flowNet[s] \in Seq(FlowMsgs) /\ dataNet[s] \in Seq(DataMsgs)
  BY SocketTypes
<1>2. /\ AscendFrom(flowNet[s], entry[s].flowSeq, cur[s])
      /\ NotedUpTo(flowNet[s], entry[s].flowSeq) /\ NotedUpTo(dataNet[s], entry[s].flowSeq)
      /\ NoRequests(dataNet[s])
  BY SocketsOrdered DEF FlowOrder
<1>3. /\ dataNet'[s] = Tail(dataNet[s]) /\ dataNet[s] # <<>> /\ m.cmd # "data"
      /\ \A u \in Senders \ {s} : dataNet'[u] = dataNet[u]
      /\ UNCHANGED <<entry, lists, queued, flowVars, dataThread, okToSend, senderVars>>
  BY DEF ForwardFlow, ReceiverInv, TypeOK
<1>4. PICK arrived \in Max({0} \cup forwarded) .. Len(flowNet[s]) :
        flowNet' = [flowNet EXCEPT ![s] = InsertAt(@, arrived + 1, m)]
  BY DEF ForwardFlow
<1>5. arrived + 1 \in 1 .. Len(flowNet[s]) + 1
  <2> DEFINE known == {0} \cup forwarded
             len == Len(flowNet[s])
  <2>1. len \in Nat /\ known \in SUBSET (0 .. len) /\ known # {} /\ 0 \in known
    BY <1>1
  <2>2. arrived \in Max(known) .. len
    BY <1>4
  <2> HIDE DEF known, len
  <2> DEFINE most == Max(known)
  <2>3. most \in known
    BY <2>1, MaxNat
  <2>4. arrived \in 0 .. len
    <3>1. most \in 0 .. len /\ arrived \in most .. len
      BY <2>1, <2>2, <2>3
    <3> HIDE DEF most
    <3>2. QED
      BY <2>1, <3>1
  <2>5. QED
    BY <2>1, <2>4 DEF len
<1>6. /\ flowNet'[s] = InsertAt(flowNet[s], arrived + 1, m)
      /\ \A u \in Senders \ {s} : flowNet'[u] = flowNet[u]
  BY <1>4 DEF ReceiverInv, TypeOK
<1>7. m \in FlowMsgs /\ m.cmd # "request_to_send" /\ NotedUpTo(<<m>>, entry[s].flowSeq)
  <2>1. 1 \in DOMAIN dataNet[s] /\ m = dataNet[s][1] /\ m \in DataMsgs
    BY <1>1, <1>3
  <2> HIDE DEF m
  <2>2. m \in FlowMsgs
    BY <1>3, <2>1, MessageNumbers
  <2>3. m.cmd # "request_to_send"
    BY <1>2, <2>1 DEF NoRequests, FlowSocketCmd
  <2>4. NotedUpTo(<<m>>, entry[s].flowSeq)
    BY <1>2, <2>1 DEF NotedUpTo
  <2>5. QED
    BY <2>2, <2>3, <2>4
<1> HIDE DEF m
<1>8. /\ AscendFrom(flowNet'[s], entry[s].flowSeq, cur[s]) /\ NotedUpTo(flowNet'[s], entry[s].flowSeq)
  <2> DEFINE net == flowNet[s]
             i == arrived + 1
  <2>1. /\ net \in Seq(FlowMsgs) /\ i \in 1 .. Len(net) + 1
        /\ AscendFrom(net, entry[s].flowSeq, cur[s]) /\ NotedUpTo(net, entry[s].flowSeq)
    BY <1>1, <1>2, <1>5
  <2> HIDE DEF net, i
  <2>2. /\ AscendFrom(InsertAt(net, i, m), entry[s].flowSeq, cur[s])
        /\ NotedUpTo(InsertAt(net, i, m), entry[s].flowSeq)
    BY ONLY <1>7, <2>1, ForwardedBetween
  <2>3. QED
    BY <1>6, <2>2 DEF net, i
<1>9. NotedUpTo(Tail(dataNet[s]), entry[s].flowSeq) /\ NoRequests(Tail(dataNet[s]))
  <2> DEFINE net == dataNet[s]
             left == Tail(net)
  <2>1. net \in Seq(DataMsgs) /\ net # <<>> /\ NotedUpTo(net, entry[s].flowSeq)
    BY <1>1, <1>2, <1>3
  <2> HIDE DEF net
  <2>2. /\ left \in Seq(DataMsgs) /\ Len(left) = Len(net) - 1
        /\ \A j \in DOMAIN left : left[j] = net[j + 1]
    BY <2>1, TailBehind
  <2> HIDE DEF left
  <2>3. NotedUpTo(left, entry[s].flowSeq) /\ (NoRequests(net) => NoRequests(left))
    BY ONLY <2>1, <2>2, NotedLeaves
  <2>4. QED
    BY <1>2, <2>3 DEF left, net
<1>10. QED
  BY <1>2, <1>3, <1>6, <1>8, <1>9, SocketsStep DEF lists, senderVars

\* A step of the flow thread that changes one entry as a handler says, and of
\* the sockets at most the flow socket of that sender.
LEMMA FlowThreadStep ==
  ASSUME ReceiverInv, FlowOrder, NEW s \in Senders, NEW w, Handled(w, s), Becomes(s, w),
         Ascending(w, s), Latest(w.e), w.e.flowSeq <= cur[s], cur' = cur, dataNet' = dataNet,
         \A u \in Senders \ {s} : flowNet'[u] = flowNet[u],
         AscendFrom(flowNet'[s], w.e.flowSeq, cur[s]), NotedUpTo(flowNet'[s], entry[s].flowSeq),
         flowNet'[s] \in Seq(DataMsgs)
  PROVE  FlowOrder'
<1>1. /\ entry'[s].flowSeq = w.e.flowSeq
      /\ \A u \in Senders :
           /\ PermitsAscend(u)' /\ LatestGranted(u)'
           /\ okToSend'[u].flowSeq <= entry'[u].flowSeq
           /\ entry[u].flowSeq <= entry'[u].flowSeq
           /\ u # s => entry'[u].flowSeq = entry[u].flowSeq
  BY BecomesOrdered DEF ReceiverInv
<1>2. /\ dataNet[s] \in Seq(DataMsgs) /\ entry[s].flowSeq \in Int /\ w.e.flowSeq \in Int
  <2>1. w.e \in Entry
    BY DEF Handled, Work
  <2>2. QED
    BY <2>1, EntryNumbers, SocketTypes
<1>3. cur[s] <= MaxFlow /\ NotedUpTo(dataNet[s], entry[s].flowSeq) /\ NoRequests(dataNet[s])
  BY SocketsOrdered DEF FlowOrder
<1>4. NotedUpTo(dataNet[s], w.e.flowSeq)
  <2> DEFINE net == dataNet[s]
             before == entry[s].flowSeq
             later == w.e.flowSeq
  <2>1. net \in Seq(DataMsgs) /\ before \in Int /\ later \in Int /\ before <= later /\ NotedUpTo(net, before)
    BY <1>1, <1>2, <1>3
  <2> HIDE DEF net, before, later
  <2>2. NotedUpTo(net, later)
    BY ONLY <2>1, NotedLater
  <2>3. QED
    BY <2>2 DEF net, later
<1>5. NotedUpTo(flowNet'[s], w.e.flowSeq)
  <2> DEFINE net == flowNet'[s]
             before == entry[s].flowSeq
             later == w.e.flowSeq
  <2>1. net \in Seq(DataMsgs) /\ before \in Int /\ later \in Int /\ before <= later /\ NotedUpTo(net, before)
    BY <1>1, <1>2
  <2> HIDE DEF net, before, later
  <2>2. NotedUpTo(net, later)
    BY ONLY <2>1, NotedLater
  <2>3. QED
    BY <2>2 DEF net, later
<1>6. QED
  BY <1>1, <1>3, <1>4, <1>5, OneSenderOrdered

LEMMA ReceiveOrdered ==
  ASSUME ReceiverInv, FlowOrder, FlowsDoNotWrap, InOrder, NEW s \in Senders, ReceiveFlow(s)
  PROVE  FlowOrder'
<1> DEFINE net == flowNet[s]
           left == RemoveAt(net, 1)
           m == net[1]
<1>1. /\ DoFlowRequest(s, m) /\ flowNet' = [flowNet EXCEPT ![s] = left] /\ 1 \in DOMAIN net
      /\ UNCHANGED <<queued, issued, dataThread, dataNet, senderVars>>
  BY DEF ReceiveFlow
<1>2. /\ net \in Seq(FlowMsgs) /\ entry[s].flowSeq \in Nat /\ cur[s] \in Nat
  BY SocketTypes
<1>3. /\ AscendFrom(net, entry[s].flowSeq, cur[s]) /\ NotedUpTo(net, entry[s].flowSeq)
      /\ entry[s].flowSeq <= cur[s]
  BY SocketsOrdered DEF FlowOrder
<1>4. flowNet'[s] = left /\ \A u \in Senders \ {s} : flowNet'[u] = flowNet[u]
  BY <1>1 DEF ReceiverInv, TypeOK
<1> HIDE DEF net
<1>5. m \in FlowMsgs /\ 1 \in 1 .. Len(net) /\ Len(net) > 0
  BY <1>1, <1>2
<1>6. /\ left \in Seq(FlowMsgs) /\ Len(left) = Len(net) - 1
      /\ \A j \in DOMAIN left : left[j] = net[j + 1]
  <2>1. /\ left \in Seq(FlowMsgs) /\ Len(left) = Len(net) - 1
    BY <1>2, <1>5, RemoveAtElements, RemoveAtType
  <2>2. /\ DOMAIN left = 1 .. Len(net) - 1
        /\ \A j \in 1 .. Len(net) - 1 : left[j] = net[IF j < 1 THEN j ELSE j + 1]
    BY <1>2, <1>5, RemoveAtElements
  <2> HIDE DEF left
  <2>3. \A j \in DOMAIN left : left[j] = net[j + 1]
    BY <1>2, <2>2
  <2>4. QED
    BY <2>1, <2>3
<1> HIDE DEF left
<1>7. /\ AscendFrom(left, entry[s].flowSeq, cur[s])
      /\ m.cmd = "request_to_send" => AscendFrom(left, m.flowSeq, cur[s])
  BY ONLY <1>2, <1>3, <1>5, <1>6, FirstLeaves
<1>8. left \in Seq(DataMsgs) /\ NotedUpTo(left, entry[s].flowSeq)
  <2>1. FlowMsgs \subseteq DataMsgs
    BY DEF DataMsgs
  <2>2. left \in Seq(DataMsgs) /\ net \in Seq(DataMsgs)
    BY ONLY <1>2, <1>6, <2>1, SMT
  <2>3. QED
    BY ONLY <1>3, <1>6, <2>2, NotedLeaves
<1>9. /\ Noted(m, s)
      /\ m.cmd = "request_to_send" => entry[s].flowSeq <= m.flowSeq /\ m.flowSeq <= cur[s]
  BY <1>1, <1>3 DEF AscendFrom, NotedUpTo, Noted
<1> HIDE DEF m
<1>10. PICK w : /\ Handled(w, s) /\ Becomes(s, w) /\ Ascending(w, s) /\ Latest(w.e)
                /\ \/ w.e.flowSeq = entry[s].flowSeq
                   \/ m.cmd = "request_to_send" /\ w.e.flowSeq = m.flowSeq
  BY <1>1, <1>5, <1>9, DoFlowAscends DEF m
<1>11. w.e.flowSeq <= cur[s] /\ AscendFrom(left, w.e.flowSeq, cur[s])
  BY <1>3, <1>7, <1>9, <1>10
<1>12. cur' = cur /\ dataNet' = dataNet
  BY <1>1 DEF senderVars
<1>13. QED
  BY <1>4, <1>8, <1>10, <1>11, <1>12, FlowThreadStep

\* The flow thread expires and grants permits between two messages.
LEMMA BetweenMessages ==
  ASSUME ReceiverInv, FlowOrder, NEW s \in Senders, NEW w, Handled(w, s), Becomes(s, w),
         Ascending(w, s), Latest(w.e), w.e.flowSeq = entry[s].flowSeq,
         UNCHANGED <<netVars, senderVars>>
  PROVE  FlowOrder'
<1>1. flowNet' = flowNet /\ dataNet' = dataNet /\ cur' = cur
  BY DEF netVars, senderVars
<1>2. /\ AscendFrom(flowNet[s], entry[s].flowSeq, cur[s])
      /\ NotedUpTo(flowNet[s], entry[s].flowSeq) /\ entry[s].flowSeq <= cur[s]
      /\ flowNet[s] \in Seq(DataMsgs)
  BY SocketsOrdered, SocketTypes DEF FlowOrder
<1>3. QED
  BY <1>1, <1>2, FlowThreadStep

LEMMA ExpireOrdered ==
  ASSUME ReceiverInv, FlowOrder, ExpirePermit
  PROVE  FlowOrder'
<1>1. PICK s \in Senders : \E w :
        /\ Handled(w, s) /\ Becomes(s, w) /\ Ascending(w, s) /\ Latest(w.e)
        /\ w.e.flowSeq = entry[s].flowSeq
  BY ExpireAscends
<1>2. UNCHANGED <<netVars, senderVars>>
  BY DEF ExpirePermit
<1>3. QED
  BY <1>1, <1>2, BetweenMessages

\* What changes no sender's state, request, permits or messages.
LEMMA QuietStep ==
  ASSUME ReceiverInv, FlowOrder, pendingPermits' = pendingPermits, okToSend' = okToSend,
         cur' = cur, flowNet' = flowNet, dataNet' = dataNet,
         \A u \in Senders :
           /\ entry'[u].state = entry[u].state /\ entry'[u].flowSeq = entry[u].flowSeq
           /\ \A k \in Places : entry'[u].permits[k].flowSeq = entry[u].permits[k].flowSeq
  PROVE  FlowOrder'
<1>1. ASSUME NEW s \in Senders PROVE FlowOrder'
  <2>1. /\ AscendFrom(flowNet[s], entry[s].flowSeq, cur[s])
        /\ NotedUpTo(flowNet[s], entry[s].flowSeq) /\ NotedUpTo(dataNet[s], entry[s].flowSeq)
        /\ NoRequests(dataNet[s])
    BY SocketsOrdered DEF FlowOrder
  <2>2. QED
    BY <2>1, SocketsStep
<1>2. CASE Senders = {}
  BY <1>2 DEF FlowOrder
<1>3. QED
  BY <1>1, <1>2

LEMMA GrantOrdered ==
  ASSUME ReceiverInv, FlowOrder, CheckPending
  PROVE  FlowOrder'
<1>1. UNCHANGED <<netVars, senderVars>>
  BY DEF CheckPending
<1>2. CASE UNCHANGED <<entry, lists, okToSend>>
  BY <1>1, <1>2, QuietStep DEF netVars, senderVars, lists
<1>3. ASSUME NEW s \in Senders, NEW slots \in Nat, Grant(s, slots),
             NEW k \in Places, GrantedTo(s, k, slots), NEW w, Handled(w, s), Becomes(s, w)
      PROVE  FlowOrder'
  <2>1. Ascending(w, s) /\ Latest(w.e) /\ w.e.flowSeq = entry[s].flowSeq
    BY <1>3, GrantAscends
  <2>2. QED
    BY <1>1, <1>3, <2>1, BetweenMessages
<1>4. QED
  BY <1>2, <1>3, CheckPendingCases

LEMMA CountDataOrdered ==
  ASSUME ReceiverInv, FlowOrder, CountData
  PROVE  FlowOrder'
<1> DEFINE s == dataThread.from
           k == dataThread.place
<1>1. s \in Senders /\ k \in Places /\ entry \in [Senders -> Entry]
  BY DEF ReceiverInv, TypeOK, DataThread, Reading, Pushing, Counting, CountData
<1>2. entry' = [entry EXCEPT ![s].permits[k].num = @ - 1]
      /\ UNCHANGED <<lists, queued, flowVars, netVars, okToSend, senderVars>>
  BY DEF CountData
<1> HIDE DEF s, k
<1> DEFINE after == [entry[s].permits EXCEPT ![k].num = @ - 1]
<1>3. \A j \in Places : after[j].flowSeq = entry[s].permits[j].flowSeq
  BY <1>1 DEF Entry, SendPermit
<1>4. entry' = [entry EXCEPT ![s].permits = after]
  BY <1>1, <1>2 DEF Entry
<1> HIDE DEF after
<1>5. \A u \in Senders :
        /\ entry'[u].state = entry[u].state /\ entry'[u].flowSeq = entry[u].flowSeq
        /\ \A j \in Places : entry'[u].permits[j].flowSeq = entry[u].permits[j].flowSeq
  BY <1>1, <1>3, <1>4 DEF Entry
<1>6. QED
  BY <1>2, <1>5, QuietStep DEF lists, netVars, senderVars

\* At the start nothing is asked for and nothing is on its way.
LEMMA OrderedInitially ==
  ASSUME Init
  PROVE  FlowOrder
<1>1. ASSUME NEW s \in Senders
      PROVE  RequestsAscend(s) /\ EndsAreNoted(s) /\ PermitsAscend(s) /\ LatestGranted(s)
  <2>1. /\ entry[s].flowSeq = 0 /\ entry[s].state = "idle" /\ cur[s] = 0 /\ okToSend[s].flowSeq = 0
        /\ flowNet[s] = <<>> /\ dataNet[s] = <<>> /\ pendingPermits = <<>>
        /\ Active(entry[s]) = {} /\ MaxFlow \in Nat
    BY ReceiverAssumption DEF Init, NoOkToSend, Active, Inactive
  <2>2. QED
    BY <2>1 DEF RequestsAscend, EndsAreNoted, PermitsAscend, LatestGranted
<1>2. QED
  BY <1>1 DEF FlowOrder

LEMMA FlowOrderStep ==
  ASSUME udpAllowAsyncPermits, InOrder, FlowsDoNotWrap, ReceiverInv, FlowOrder, [Next]_vars
  PROVE  FlowOrder'
<1>1. ASSUME NEW s \in Senders, Sender(s) PROVE FlowOrder'
  BY <1>1, RequestsOrdered, SendsOrdered DEF Sender
<1>2. ASSUME NEW s \in Senders, Network(s) PROVE FlowOrder'
  BY <1>2, NetworkOrdered
<1>3. ASSUME NEW s \in Senders, ReceiveFlow(s) PROVE FlowOrder'
  BY <1>3, ReceiveOrdered
<1>4. ASSUME PushData \/ Collate \/ FlowTimeout \/ SumReserved \/ UNCHANGED vars PROVE FlowOrder'
  <2>1. /\ pendingPermits' = pendingPermits /\ okToSend' = okToSend /\ cur' = cur
        /\ flowNet' = flowNet /\ dataNet' = dataNet /\ entry' = entry
    BY <1>4 DEF PushData, Collate, FlowTimeout, SumReserved, vars, lists, netVars, senderVars
  <2>2. QED
    BY <2>1, QuietStep
<1>5. ASSUME DataStep PROVE FlowOrder'
  BY <1>4, <1>5, ReadDataOrdered, ForwardFlowOrdered, CountDataOrdered DEF DataStep
<1>6. QED
  BY <1>1, <1>2, <1>3, <1>4, <1>5, ExpireOrdered, GrantOrdered DEF Next

\* Where permits are asynchronous and flow messages keep their order, the
\* requests on their way, the ones noted and the ones granted are in the order
\* in which the sender made them, and no end of a request comes before the
\* request was noted (udptrr.cpp, doFlowRequest and grantPermit).
THEOREM FlowNumbersAscend ==
  ASSUME FlowsDoNotWrap
  PROVE  Spec => []FlowOrderInv
<1>1. CASE udpAllowAsyncPermits /\ InOrder
  <2>1. Init => ReceiverInv /\ FlowOrder
    BY ReceiverInitially, OrderedInitially
  <2>2. ReceiverInv /\ FlowOrder /\ [Next]_vars => ReceiverInv' /\ FlowOrder'
    BY <1>1, ReceiverStep, FlowOrderStep
  <2>3. FlowOrder => FlowOrderInv
    BY DEF FlowOrder, FlowOrderInv
  <2>4. QED
    BY <2>1, <2>2, <2>3, PTL DEF Spec
<1>2. CASE ~(udpAllowAsyncPermits /\ InOrder)
  <2>1. FlowOrderInv
    BY <1>2 DEF FlowOrderInv
  <2>2. QED
    BY <2>1, PTL
<1>3. QED
  BY <1>1, <1>2

\* "granted, // at least one permit granted and NO pending request" (udptrr.cpp,
\* ReceiveState): where permits are asynchronous and flow messages keep their
\* order, a sender in that state has a permit, which will end or expire.
THEOREM GrantedKeepsPermit ==
  ASSUME udpAllowAsyncPermits, InOrder, FlowsDoNotWrap
  PROVE  Spec => []GrantedHasPermit
<1>1. FlowOrderInv => GrantedHasPermit
  BY DEF FlowOrderInv, LatestGranted, GrantedHasPermit, OfFlow
<1>2. QED
  BY <1>1, FlowNumbersAscend, PTL
=============================================================================
