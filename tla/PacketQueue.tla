----------------------------- MODULE PacketQueue -----------------------------
(***************************************************************************)
(* queue_t of roxie/udplib: the list of data buffers that stands between   *)
(* the threads that write replies and the one that sends them, and between *)
(* the thread that reads the data socket and the one that collates.        *)
(*                                                                         *)
(* use = "output": writers block in pushOwnWait while the list is full,    *)
(*   send_data pops without blocking, other threads call removeData.       *)
(* use = "input":  receive_data adds with pushOwn, whatever the length,    *)
(*   CPacketCollator pops and blocks.                                      *)
(*                                                                         *)
(* An action is a stretch of a thread's code between two of: the critical  *)
(* section c_region, a wait for a semaphore, a signal of one.  The chain   *)
(* of buffers is a number of buffers, a removal takes any of them away,    *)
(* and a wait that merely times out and is repeated is no step.            *)
(***************************************************************************)
EXTENDS Integers, FiniteSets

CONSTANTS
  Writers,        \* threads that push
  Popper,         \* the thread that pops
  Removers,       \* threads that call removeData
  Limit,          \* limit, of set_queue_size
  MaxWrites       \* bound of the model: buffers ever pushed

ASSUME QueueAssumption ==
  /\ Limit \in Nat \ {0} /\ MaxWrites \in Nat
  /\ IsFiniteSet(Writers) /\ IsFiniteSet(Removers)
  /\ Popper \notin Removers

Takers == Removers \cup {Popper}

VARIABLES
  use,               \* what the queue is used for
  count,             \* buffers in the list
  data_avail,        \* semaphore
  free_sl,           \* semaphore
  signal_free_sl,    \* people waiting in free_sl who have not been signalled
  pushPc, takePc,    \* positions of the threads
  signalFreeSlots,   \* posts of free_sl a thread still has to make
  written            \* history: buffers pushed

vars == <<use, count, data_avail, free_sl, signal_free_sl, pushPc, takePc,
          signalFreeSlots, written>>

TypeOK ==
  /\ use \in {"output", "input"}
  /\ count \in Nat /\ data_avail \in Nat /\ free_sl \in Nat
  /\ signal_free_sl \in Nat
  /\ pushPc \in [Writers -> {"idle", "enter", "wait", "retry", "signal"}]
  /\ takePc \in [Takers -> {"idle", "take", "free"}]
  /\ signalFreeSlots \in [Takers -> Nat]
  /\ written \in Nat

Init ==
  /\ use \in {"output", "input"}
  /\ count = 0 /\ data_avail = 0 /\ free_sl = 0 /\ signal_free_sl = 0
  /\ pushPc = [w \in Writers |-> "idle"]
  /\ takePc = [t \in Takers |-> "idle"]
  /\ signalFreeSlots = [t \in Takers |-> 0]
  /\ written = 0

-----------------------------------------------------------------------------
(* Writers.                                                                *)

Push(w) ==
  /\ pushPc[w] = "idle"
  /\ written < MaxWrites                                      \* bound
  /\ written' = written + 1
  /\ pushPc' = [pushPc EXCEPT ![w] = "enter"]
  /\ UNCHANGED <<use, count, data_avail, free_sl, signal_free_sl, takePc,
                 signalFreeSlots>>

\* Only pushOwnWait looks at the limit.
HasRoom == use = "input" \/ count < Limit

Enqueue(w) ==
  /\ pushPc[w] \in {"enter", "retry"} /\ HasRoom
  /\ count' = count + 1
  /\ pushPc' = [pushPc EXCEPT ![w] = "signal"]
  /\ UNCHANGED <<use, data_avail, free_sl, signal_free_sl, takePc,
                 signalFreeSlots, written>>

Register(w) ==
  /\ pushPc[w] \in {"enter", "retry"} /\ ~HasRoom
  /\ signal_free_sl' = signal_free_sl + 1
  /\ pushPc' = [pushPc EXCEPT ![w] = "wait"]
  /\ UNCHANGED <<use, count, data_avail, free_sl, takePc, signalFreeSlots, written>>

Wake(w) ==
  /\ pushPc[w] = "wait" /\ free_sl > 0
  /\ free_sl' = free_sl - 1
  /\ pushPc' = [pushPc EXCEPT ![w] = "retry"]
  /\ UNCHANGED <<use, count, data_avail, signal_free_sl, takePc,
                 signalFreeSlots, written>>

\* Seeded fault: data_avail is an event, not a count.
SignalData_Event(w) ==
  /\ pushPc[w] = "signal"
  /\ data_avail' = 1
  /\ pushPc' = [pushPc EXCEPT ![w] = "idle"]
  /\ UNCHANGED <<use, count, free_sl, signal_free_sl, takePc, signalFreeSlots, written>>

SignalData(w) ==
  /\ pushPc[w] = "signal"
  /\ data_avail' = data_avail + 1
  /\ pushPc' = [pushPc EXCEPT ![w] = "idle"]
  /\ UNCHANGED <<use, count, free_sl, signal_free_sl, takePc, signalFreeSlots, written>>

-----------------------------------------------------------------------------
(* The popper.  With data_avail at 0 a pop that does not block returns      *)
(* nothing, one that blocks waits: neither is a step.                       *)

PopWait ==
  /\ takePc[Popper] = "idle" /\ data_avail > 0
  /\ data_avail' = data_avail - 1
  /\ takePc' = [takePc EXCEPT ![Popper] = "take"]
  /\ UNCHANGED <<use, count, free_sl, signal_free_sl, pushPc, signalFreeSlots, written>>

\* The list was emptied after it was signalled.
PopNothing ==
  /\ takePc[Popper] = "take" /\ count = 0
  /\ takePc' = [takePc EXCEPT ![Popper] = "idle"]
  /\ UNCHANGED <<use, count, data_avail, free_sl, signal_free_sl, pushPc,
                 signalFreeSlots, written>>

\* Seeded fault: a slot is signalled only when the list stops being full.
ToSignal_AtLimit(n) == IF n = Limit - 1 /\ signal_free_sl > 0 THEN 1 ELSE 0

\* Seeded fault: a slot is signalled whether or not somebody waits.
ToSignal_Always(n) == IF n < Limit THEN 1 ELSE 0

\* The writers to signal when a buffer leaves: one, if it leaves room.
ToSignal(n) == IF n < Limit /\ signal_free_sl > 0 THEN 1 ELSE 0

PopTake ==
  /\ takePc[Popper] = "take" /\ count > 0
  /\ count' = count - 1
  /\ signal_free_sl' = signal_free_sl - ToSignal(count - 1)
  /\ signalFreeSlots' = [signalFreeSlots EXCEPT ![Popper] = ToSignal(count - 1)]
  /\ takePc' = [takePc EXCEPT ![Popper] = "free"]
  /\ UNCHANGED <<use, data_avail, free_sl, pushPc, written>>

-----------------------------------------------------------------------------
(* removeData.                                                             *)

\* One writer for each removed buffer that leaves room, while any waits.
ToSignalAll(removed) ==
  LET room == Cardinality({k \in 1 .. removed : count - k < Limit})
  IN  IF room < signal_free_sl THEN room ELSE signal_free_sl

RemoveData(t) ==
  /\ use = "output" /\ takePc[t] = "idle"
  /\ \E removed \in 1 .. count :
       /\ count' = count - removed
       /\ signal_free_sl' = signal_free_sl - ToSignalAll(removed)
       /\ signalFreeSlots' = [signalFreeSlots EXCEPT ![t] = ToSignalAll(removed)]
  /\ takePc' = [takePc EXCEPT ![t] = "free"]
  /\ UNCHANGED <<use, data_avail, free_sl, pushPc, written>>

\* Seeded fault: one post, however many buffers were removed.
SignalFree_Once(t) ==
  /\ takePc[t] = "free" /\ signalFreeSlots[t] > 0
  /\ free_sl' = free_sl + 1
  /\ signalFreeSlots' = [signalFreeSlots EXCEPT ![t] = 0]
  /\ UNCHANGED <<use, count, data_avail, signal_free_sl, pushPc, takePc, written>>

\* free_sl.signal(signalFreeSlots) posts one at a time.
SignalFree(t) ==
  /\ takePc[t] = "free" /\ signalFreeSlots[t] > 0
  /\ free_sl' = free_sl + 1
  /\ signalFreeSlots' = [signalFreeSlots EXCEPT ![t] = @ - 1]
  /\ UNCHANGED <<use, count, data_avail, signal_free_sl, pushPc, takePc, written>>

TakeReturns(t) ==
  /\ takePc[t] = "free" /\ signalFreeSlots[t] = 0
  /\ takePc' = [takePc EXCEPT ![t] = "idle"]
  /\ UNCHANGED <<use, count, data_avail, free_sl, signal_free_sl, pushPc,
                 signalFreeSlots, written>>

-----------------------------------------------------------------------------
Writer(w) == Enqueue(w) \/ Register(w) \/ Wake(w) \/ SignalData(w)
Taker(t) == SignalFree(t) \/ TakeReturns(t)
Pop == PopWait \/ PopNothing \/ PopTake

Next ==
  \/ \E w \in Writers : Push(w) \/ Writer(w)
  \/ Pop
  \/ \E t \in Removers : RemoveData(t)
  \/ \E t \in Takers : Taker(t)

Spec == Init /\ [][Next]_vars

\* Threads that are inside a call go on, and the popper pops whatever is
\* there: send_data does so as long as the receiver grants permits.
FairSpec ==
  /\ Spec
  /\ \A w \in Writers : WF_vars(Writer(w))
  /\ \A t \in Takers : WF_vars(Taker(t))
  /\ WF_vars(Pop)

-----------------------------------------------------------------------------
(* Properties.                                                             *)

Waiting  == {w \in Writers : pushPc[w] = "wait"}
Retrying == {w \in Writers : pushPc[w] = "retry"}
Posts == UNION {{t} \X (1 .. signalFreeSlots[t]) : t \in Takers}
Signalling == {w \in Writers : pushPc[w] = "signal"}

\* No lost wakeup: while a writer waits that nobody has signalled, the
\* buffers in the list and the writers that have been signalled but have not
\* come back for their slot fill the list.  So a free slot always has a
\* writer on its way to it (signal_free_sl, pop, removeData).
NoLostWakeup ==
  signal_free_sl > 0 =>
    count + (Cardinality(Waiting) - signal_free_sl) + Cardinality(Retrying) >= Limit

\* A writer that waits is either still counted in signal_free_sl or is owed
\* exactly one post of free_sl: no post is lost and none is left over for a
\* writer that comes later.
WaitersCounted ==
  Cardinality(Waiting) = signal_free_sl + free_sl + Cardinality(Posts)

\* No buffer is stranded: every buffer in the list has a unit of data_avail,
\* present, about to be signalled, or in the popper's hands.  Where nothing is
\* removed there are no more units than buffers, so that the collator's
\* blocking pop, whose result it does not test, never returns nothing
\* (collatePackets).
DataSignalled ==
  LET units == data_avail + Cardinality(Signalling)
                 + (IF takePc[Popper] = "take" THEN 1 ELSE 0)
  IN  /\ units >= count
      /\ use = "input" => units = count

\* A writer blocked on a full list gets through, as long as something pops.
WriteReturns == \A w \in Writers : pushPc[w] = "wait" ~> pushPc[w] = "idle"

=============================================================================
