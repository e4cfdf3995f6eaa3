--------------------------- MODULE SdsStoreProofs ---------------------------
(* Proofs, for any number of changes, editions, crashes and failed writes, *)
(* that the markers keep the delta writer and Sasha apart, unless the      *)
(* server starts while Sasha is at work; and, in Ordinary circumstances,   *)
(* that the files bring back what has been written, and that every step is *)
(* one of DurableTree or none.                                             *)
EXTENDS SdsStore, FiniteSetTheorems, SequenceTheorems, TLAPS

Steps ==
  {"idle", "flush", "save", "saved", "rename", "clear", "write", "load", "loaded",
   "loadDelta", "detachMark", "detachWait", "detach", "detachUnmark", "deltaMark",
   "deltaWait", "renameDelta", "deltaUnmark"}

Writing == {"data", "header", "remove"}

Marked == {"detachWait", "detach", "detachUnmark", "deltaWait", "renameDelta", "deltaUnmark"}

Inside == {"detach", "detachUnmark", "renameDelta", "deltaUnmark"}

\* The handshake: each side has put up its marker before it looks for the
\* other's, so they are never both past that look.
Handshake ==
  /\ wpc \in Writing \cup {"check"} => deltaMark
  /\ pc["sasha"] \in Marked => detachMark = "live"
  /\ pc["sasha"] \in Inside => wpc \notin Writing

ExclusionInv ==
  /\ given \in Circumstances
  /\ pc \in [Savers -> Steps]
  /\ wpc \in Writing \cup {"idle", "check", "blocked", "stopped"}
  /\ ~up => wpc = "idle"
  /\ pc["sasha"] # "idle" => session
  /\ ~given.both => OneSaves
  /\ Handshake

LEMMA Sizes ==
  /\ MaxEdition \in Nat /\ MaxChanges \in Nat /\ KeepStores \in Nat /\ KeepStores >= 1
  /\ NoFile \notin Changes /\ NoFile \notin DeltaFile
  /\ 0 \in Editions /\ "dali" \in Savers /\ "sasha" \in Savers
  /\ \A s \in Savers : s = "dali" \/ s = "sasha"
  /\ \A e \in Editions : e \in Nat /\ e <= MaxEdition
  /\ \A e \in Editions : e < MaxEdition => e + 1 \in Editions
BY StoreAssumption DEF Editions, Savers

\* At the start nobody is at work.
LEMMA ExclusionInit == Init => ExclusionInv
  BY DEF Init, ExclusionInv, OneSaves, Handshake, Savers, Steps, Writing, Marked, Inside

\* The writer: save() and writeDelta (dasds.cpp:997, 9234) keep the handshake.
LEMMA WriterStep ==
  ASSUME ExclusionInv, Change \/ Writer \/ WriteFails
  PROVE  ExclusionInv'
<1> USE DEF ExclusionInv, OneSaves, Handshake, Steps, Writing, Marked, Inside
<1>1. CASE Change
  BY <1>1 DEF Change, saverVars, markVars
<1>2. CASE BeginBatch
  BY <1>2 DEF BeginBatch, saverVars
<1>3. CASE CheckDetach
  BY <1>3 DEF CheckDetach, saverVars
<1>4. CASE WriteData
  BY <1>4 DEF WriteData, saverVars, markVars
<1>5. CASE WriteHeader
  BY <1>5 DEF WriteHeader, saverVars, markVars
<1>6. CASE EndBatch
  BY <1>6 DEF EndBatch, saverVars
<1>7. CASE WriteFails
  BY <1>7 DEF WriteFails, saverVars, markVars
<1> QED
  BY <1>1, <1>2, <1>3, <1>4, <1>5, <1>6, <1>7 DEF Writer

\* saveStore of either saver (dasds.cpp:5948) leaves the markers alone, except
\* that Sasha's goes through CheckDeltaBlock.
LEMMA SaveStep ==
  ASSUME ExclusionInv, NEW s \in Savers, Save(s)
  PROVE  ExclusionInv'
<1> USE DEF ExclusionInv, OneSaves, Handshake, Steps, Writing, Marked, Inside
<1>1. UNCHANGED <<given, wpc, up, deltaMark, detachMark, session>>
  BY DEF Save, SaveToFile, CheckEdition, RenameStore, ClearInfo, WriteInfo,
         UnchangedButSaver, daliVars, markVars
<1>2. /\ pc' \in [Savers -> Steps]
      /\ \/ pc'["sasha"] = pc["sasha"]
         \/ pc["sasha"] # "idle" /\ pc'["sasha"] \notin Marked
      /\ pc[s] # "idle" /\ \A t \in Savers \ {s} : pc'[t] = pc[t]
  <2>1. CASE SaveToFile(s)
    BY <2>1 DEF SaveToFile, At, Savers
  <2>2. CASE CheckEdition(s)
    BY <2>2 DEF CheckEdition, Savers
  <2>3. CASE RenameStore(s)
    BY <2>3 DEF RenameStore, At, Savers
  <2>4. CASE ClearInfo(s)
    BY <2>4 DEF ClearInfo, At, Savers
  <2>5. CASE WriteInfo(s)
    BY <2>5 DEF WriteInfo, At, Savers
  <2> QED
    BY <2>1, <2>2, <2>3, <2>4, <2>5 DEF Save
<1>3. OneSaves => OneSaves'
  <2> SUFFICES ASSUME OneSaves PROVE OneSaves'
    OBVIOUS
  <2>1. PICK t \in Savers : pc[t] = "idle"
    BY DEF OneSaves
  <2> QED
    BY <1>2, <2>1
<1> QED
  BY <1>1, <1>2, <1>3

\* Dali's own coalescer and its stop (dasds.cpp:6903, 8579) do not touch Sasha.
LEMMA DaliSaverStep ==
  ASSUME ExclusionInv, BeginBlockingSave \/ Flushed \/ BeginStop \/ Stopped
  PROVE  ExclusionInv'
<1> USE DEF ExclusionInv, OneSaves, Handshake, Steps, Writing, Marked, Inside
<1>1. CASE BeginBlockingSave
  BY <1>1 DEF BeginBlockingSave, Alone, At, Savers, UnchangedButSaver, daliVars, markVars
<1>2. CASE Flushed
  BY <1>2 DEF Flushed, At, Savers, UnchangedButSaver, daliVars, markVars
<1>3. CASE BeginStop
  BY <1>3 DEF BeginStop, Alone, At, Savers, markVars
<1>4. CASE Stopped
  BY <1>4 DEF Stopped, saverVars, markVars
<1> QED
  BY <1>1, <1>2, <1>3, <1>4

\* Sasha: its marker is up before it waits, and it waits for the writer's to go
\* (CheckDeltaBlock, dasds.cpp:5597).
LEMMA SashaStep ==
  ASSUME ExclusionInv, BeginCoalesce \/ Coalesce
  PROVE  ExclusionInv'
<1> USE DEF ExclusionInv, OneSaves, Handshake, Steps, Writing, Marked, Inside
<1>0. "sasha" \in Savers /\ \A s \in Savers : s = "dali" \/ s = "sasha"
  BY DEF Savers
<1>1. CASE BeginCoalesce
  <2>1. ~given.both => pc["dali"] = "idle"
    BY <1>1, Sizes DEF BeginCoalesce, Alone
  <2>2. ~given'.both => OneSaves'
    BY <1>0, <1>1, <2>1, Sizes DEF BeginCoalesce, At
  <2> QED
    BY <1>0, <1>1, <2>2 DEF BeginCoalesce, At, daliVars, markVars
<1>2. CASE LoadBase
  BY <1>0, <1>2 DEF LoadBase, At, UnchangedButSaver, daliVars, markVars
<1>3. CASE CheckBase
  BY <1>0, <1>3 DEF CheckBase, UnchangedButSaver, daliVars, markVars
<1>4. CASE Mark
  BY <1>0, <1>4 DEF Mark, At, daliVars
<1>5. CASE WaitForWriter
  BY <1>0, <1>5 DEF WaitForWriter, At, UnchangedButSaver, daliVars, markVars
<1>6. CASE Detach
  BY <1>0, <1>6 DEF Detach, At, daliVars, markVars
<1>7. CASE Unmark
  BY <1>0, <1>7 DEF Unmark, At, daliVars
<1>8. CASE LoadDetached
  BY <1>0, <1>8 DEF LoadDetached, At, daliVars, markVars
<1>9. CASE RenameDelta
  BY <1>0, <1>9 DEF RenameDelta, At, daliVars, markVars
<1>10. CASE Save("sasha")
  BY <1>0, <1>10, SaveStep
<1> QED
  BY <1>1, <1>2, <1>3, <1>4, <1>5, <1>6, <1>7, <1>8, <1>9, <1>10 DEF Coalesce

\* A crash of either, and a start of the server while Sasha is not at work.
LEMMA FaultStep ==
  ASSUME ExclusionInv, \A c \in Circumstances : ~c.torn,
         CrashDali \/ CrashSasha \/ StartDali
  PROVE  ExclusionInv'
<1> USE DEF ExclusionInv, OneSaves, Handshake, Steps, Writing, Marked, Inside
<1>1. CASE CrashDali
  BY <1>1 DEF CrashDali, Savers, markVars
<1>2. CASE CrashSasha
  BY <1>2 DEF CrashSasha, Savers, daliVars
<1>3. CASE StartDali
  BY <1>3 DEF StartDali
<1> QED
  BY <1>1, <1>2, <1>3

\* ExclusionInv holds as long as the server does not start while Sasha is at work
\* on the files (delta.progress and detach.progress, dasds.cpp:5597, 9283).
THEOREM MarkersHold ==
  ASSUME \A c \in Circumstances : ~c.torn
  PROVE  Spec => []ExclusionInv
<1>1. Init => ExclusionInv
  BY ExclusionInit
<1>2. ExclusionInv /\ [Next]_vars => ExclusionInv'
  <2> SUFFICES ASSUME ExclusionInv, [Next]_vars PROVE ExclusionInv'
    OBVIOUS
  <2>1. CASE UNCHANGED vars
    BY <2>1 DEF vars, ExclusionInv, OneSaves, Handshake, daliVars, saverVars, markVars
  <2>2. CASE Next
    <3>1. "dali" \in Savers
      BY DEF Savers
    <3> QED
      BY <2>2, <3>1, WriterStep, SaveStep, DaliSaverStep, SashaStep, FaultStep DEF Next
  <2> QED
    BY <2>1, <2>2
<1> QED
  BY <1>1, <1>2, PTL DEF Spec

\* The writer of the server and Sasha never have a delta in hand at once, under
\* the same proviso.
THEOREM WriterIsAlone ==
  ASSUME \A c \in Circumstances : ~c.torn
  PROVE  Spec => []WriterAlone
<1>1. ExclusionInv => WriterAlone
  BY DEF ExclusionInv, Handshake, WriterAlone, Writing, Inside
<1> QED
  BY <1>1, MarkersHold, PTL

-----------------------------------------------------------------------------
(* Types, prefixes and files.                                              *)

Typed ==
  /\ given \in Circumstances /\ faults \in 0 .. given.faults /\ up \in BOOLEAN
  /\ tree \in Changes /\ pending \in Changes /\ batch \in Changes /\ written \in Changes
  /\ wpc \in {"idle", "check", "blocked", "data", "header", "remove", "stopped"}
  /\ opened \in Editions
  /\ base \in [Savers -> Editions] /\ root \in [Savers -> Changes]
  /\ info \subseteq Editions /\ Cardinality(info) <= 1
  /\ xml \in [Editions -> Changes \cup {NoFile}] /\ bin \in [Editions -> Changes \cup {NoFile}]
  /\ delta \in [Editions -> DeltaFile \cup {NoFile}]
  /\ detached \in [Editions -> DeltaFile \cup {NoFile}]
  /\ deltaMark \in BOOLEAN /\ session \in BOOLEAN
  /\ detachMark \in {"none", "live", "stale"}

LEMMA TypedIs ==
  /\ TypeOK <=> Typed
  /\ TypeOK' <=> Typed'
<1>1. TypeOK <=> Typed
  BY DEF TypeOK, Typed
<1>2. TypeOK' <=> Typed'
  BY DEF TypeOK, Typed
<1> QED
  BY <1>1, <1>2

LEMMA ConcatFacts ==
  /\ <<>> \in Changes
  /\ \A a \in Changes : a \o <<>> = a /\ <<>> \o a = a /\ Len(a) \in Nat
  /\ \A a, b \in Changes : a \o b \in Changes /\ Len(a \o b) = Len(a) + Len(b)
  /\ \A a, b, c \in Changes : (a \o b) \o c = a \o (b \o c)
<1>1. <<>> \in Changes
  BY DEF Changes
<1>2. \A a \in Changes : a \o <<>> = a /\ <<>> \o a = a /\ Len(a) \in Nat
  BY ConcatEmptySeq DEF Changes
<1>3. \A a, b \in Changes : a \o b \in Changes /\ Len(a \o b) = Len(a) + Len(b)
  BY ConcatProperties DEF Changes
<1>4. \A a, b, c \in Changes : (a \o b) \o c = a \o (b \o c)
  BY ConcatAssociative, SMTT(30) DEF Changes
<1> QED
  BY <1>1, <1>2, <1>3, <1>4

LEMMA Associative ==
  ASSUME NEW a \in Changes, NEW b \in Changes, NEW c \in Changes
  PROVE  (a \o b) \o c = a \o (b \o c)
BY ConcatAssociative, SMTT(30) DEF Changes

LEMMA Regroup ==
  ASSUME NEW a \in Changes, NEW b \in Changes, NEW c \in Changes
  PROVE  /\ (a \o b) \o c = a \o (b \o c) /\ a \o b \o c \in Changes
         /\ a \o <<>> \o b = a \o b /\ a \o b \o <<>> = a \o b
<1>1. (a \o b) \o c = a \o (b \o c)
  BY ConcatAssociative, SMTT(30) DEF Changes
<1>2. a \o b \in Changes /\ a \o <<>> = a
  BY ConcatFacts
<1>3. (a \o b) \o <<>> = a \o b /\ (a \o b) \o c \in Changes
  BY <1>2, ConcatFacts
<1> QED
  BY <1>1, <1>2, <1>3

LEMMA PrefixFacts ==
  ASSUME NEW a \in Changes, NEW b \in Changes
  PROVE  /\ IsPrefix(a, a \o b)
         /\ IsPrefix(a, a)
         /\ IsPrefix(a, b) => Len(a) <= Len(b) /\ (Len(a) = Len(b) => a = b)
<1>1. a \in Seq(1 .. MaxChanges) /\ b \in Seq(1 .. MaxChanges) /\ Len(a) \in Nat /\ Len(b) \in Nat
  BY DEF Changes
<1>2. SubSeq(a, 1, Len(a)) = a /\ SubSeq(b, 1, Len(b)) = b
  BY <1>1, SubSeqFull
<1>3. IsPrefix(a, a)
  BY <1>1, <1>2 DEF IsPrefix
<1>4. IsPrefix(a, a \o b)
  <2>1. Len(a \o b) = Len(a) + Len(b) /\ Len(a) <= Len(a \o b)
    BY <1>1
  <2>2. CASE Len(a) = 0
    <3>1. SubSeq(a \o b, 1, Len(a)) = <<>> /\ SubSeq(a, 1, Len(a)) = <<>>
      BY <2>2, SubSeqEmpty
    <3> QED
      BY <2>1, <3>1 DEF IsPrefix
  <2>3. CASE Len(a) # 0
    <3>1. SubSeq(a \o b, 1, Len(a)) = SubSeq(a, 1, Len(a))
      <4>1. 1 \in 1 .. Len(a) /\ Len(a) \in 1 .. Len(a)
        BY <1>1, <2>3
      <4> QED
        BY <1>1, <4>1, SubSeqOfConcat1
    <3> QED
      BY <2>1, <3>1 DEF IsPrefix
  <2> QED
    BY <2>2, <2>3
<1>5. IsPrefix(a, b) => Len(a) <= Len(b) /\ (Len(a) = Len(b) => a = b)
  BY <1>2 DEF IsPrefix
<1>6. QED
  BY <1>3, <1>4, <1>5

LEMMA OneMore ==
  ASSUME NEW a \in Changes, NEW b \in Changes, NEW c \in Changes, NEW x \in 1 .. MaxChanges
  PROVE  /\ Append(c, x) \in Changes /\ Len(Append(c, x)) = Len(c) + 1
         /\ Append(a \o b \o c, x) = a \o b \o Append(c, x)
         /\ IsPrefix(c, Append(c, x))
<1> DEFINE one == <<x>>
<1>1. one \in Changes
  BY DEF Changes
<1>2. a \o b \in Changes /\ a \o b \o c \in Changes
  BY ConcatFacts
<1>3. \A s \in Changes : Append(s, x) = s \o one
  BY AppendIsConcat DEF Changes
<1> HIDE DEF one
<1>4. Append(a \o b \o c, x) = (a \o b \o c) \o one
  BY <1>2, <1>3
<1>5. ((a \o b) \o c) \o one = (a \o b) \o (c \o one)
  <2> DEFINE d == a \o b
  <2>1. d \in Changes
    BY <1>2
  <2> HIDE DEF d
  <2>2. (d \o c) \o one = d \o (c \o one)
    BY <1>1, <2>1, Regroup, ZenonT(40)
  <2> QED
    BY <2>2 DEF d
<1>6. Append(c, x) = c \o one /\ c \o one \in Changes
  BY <1>1, <1>3, ConcatFacts
<1>7. Append(c, x) \in Changes /\ Len(Append(c, x)) = Len(c) + 1
  BY <1>6, AppendProperties DEF Changes
<1>8. IsPrefix(c, c \o one)
  BY <1>1, PrefixFacts
<1> QED
  BY <1>4, <1>5, <1>6, <1>7, <1>8

LEMMA FileTypes ==
  /\ NewDelta \in DeltaFile /\ NewDelta.good = <<>> /\ NewDelta.tail = <<>>
  /\ Good(NoFile) = <<>> /\ Tail_(NoFile) = <<>> /\ Trimmed(NoFile) = NoFile
  /\ \A f \in DeltaFile :
       /\ f # NoFile /\ f.good \in Changes /\ f.tail \in Changes
       /\ Good(f) = f.good /\ Tail_(f) = f.tail
       /\ Trimmed(f) \in DeltaFile /\ Trimmed(f).good = f.good /\ Trimmed(f).tail = <<>>
  /\ \A f \in DeltaFile \cup {NoFile} :
       /\ Good(f) \in Changes /\ Tail_(f) \in Changes
       /\ Trimmed(f) \in DeltaFile \cup {NoFile}
       /\ Good(Trimmed(f)) = Good(f) /\ Tail_(Trimmed(f)) = <<>>
<1>1. NewDelta \in DeltaFile /\ NewDelta.good = <<>> /\ NewDelta.tail = <<>>
  BY ConcatFacts DEF NewDelta, DeltaFile
<1>2. Good(NoFile) = <<>> /\ Tail_(NoFile) = <<>> /\ Trimmed(NoFile) = NoFile
  BY DEF Good, Tail_, Trimmed
<1>3. ASSUME NEW f \in DeltaFile
      PROVE  /\ f # NoFile /\ f.good \in Changes /\ f.tail \in Changes
             /\ Good(f) = f.good /\ Tail_(f) = f.tail
             /\ Trimmed(f) \in DeltaFile /\ Trimmed(f).good = f.good /\ Trimmed(f).tail = <<>>
  <2>1. f # NoFile
    BY Sizes
  <2>2. f.good \in Changes /\ f.tail \in Changes /\ Good(f) = f.good /\ Tail_(f) = f.tail
    BY <2>1 DEF Good, Tail_, DeltaFile
  <2>3. Trimmed(f) = [f EXCEPT !.tail = <<>>]
    BY <2>1 DEF Trimmed
  <2>4. Trimmed(f) \in DeltaFile /\ Trimmed(f).good = f.good /\ Trimmed(f).tail = <<>>
    BY <2>3, ConcatFacts DEF DeltaFile
  <2> QED
    BY <2>1, <2>2, <2>4
<1>4. ASSUME NEW f \in DeltaFile \cup {NoFile}
      PROVE  /\ Good(f) \in Changes /\ Tail_(f) \in Changes
             /\ Trimmed(f) \in DeltaFile \cup {NoFile}
             /\ Good(Trimmed(f)) = Good(f) /\ Tail_(Trimmed(f)) = <<>>
  <2>1. CASE f = NoFile
    BY <1>2, <2>1, ConcatFacts
  <2>2. CASE f \in DeltaFile
    BY <1>3, <2>2
  <2> QED
    BY <2>1, <2>2
<1> QED
  BY <1>1, <1>2, <1>3, <1>4

\* loadStore gives a tree, whatever files are there; the same one from the same
\* files.
LEMMA StoreIs ==
  ASSUME TypeOK, NEW e \in Editions
  PROVE  /\ StoreOf(e) \in Changes
         /\ bin'[e] = bin[e] /\ xml'[e] = xml[e] => StoreOf(e)' = StoreOf(e)
<1>1. bin[e] \in Changes \cup {NoFile} /\ xml[e] \in Changes \cup {NoFile}
  BY TypedIs DEF Typed
<1>2. StoreOf(e) \in Changes
  BY <1>1, ConcatFacts DEF StoreOf
<1>3. bin'[e] = bin[e] /\ xml'[e] = xml[e] => StoreOf(e)' = StoreOf(e)
  BY DEF StoreOf
<1> QED
  BY <1>2, <1>3

LEMMA EditionIs ==
  ASSUME NEW e, EditionInv(e), info # {}
  PROVE  /\ info = {e} /\ Edition = e /\ Checked(info) = {e}
         /\ (CHOOSE f \in Checked(info) : TRUE) = e
         /\ \A s \in Savers : pc[s] # "write"
BY DEF EditionInv, Edition, Checked

-----------------------------------------------------------------------------
(* The steps keep StoreInv.                                                *)

\* StoreInv and the handshake, for the edition in use.
Kept(e) ==
  /\ TypeOK /\ ExclusionInv /\ MemoryInv
  /\ EditionInv(e) /\ ContentInv(e) /\ TailInv(e)

\* The circumstances this behaviour has.
LEMMA GivenIs ==
  ASSUME Ordinary, TypeOK
  PROVE  /\ ~given.torn /\ ~given.both
         /\ given.binaryFails => given.faults = 0
         /\ given.faults \in Nat /\ faults \in Nat
BY TypedIs, StoreAssumption DEF Typed, Ordinary

\* Steps that leave the files, and what the savers know, alone.
LEMMA FilesUntouched ==
  ASSUME NEW e, EditionInv(e), ContentInv(e),
         UNCHANGED <<given, pc, base, root, info, xml, bin, delta, detached, written>>
  PROVE  EditionInv(e)' /\ ContentInv(e)'
BY DEF EditionInv, ContentInv, HasBase, HasRenamed, HasMoved, StoreOf

LEMMA ChangeStep ==
  ASSUME NEW e, Kept(e), ExclusionInv', Change
  PROVE  Kept(e)'
<1>1. /\ up /\ wpc # "stopped" /\ pc["dali"] = "idle"
      /\ Len(written \o batch \o pending) < MaxChanges
      /\ tree' = Append(tree, Len(tree) + 1) /\ pending' = Append(pending, Len(tree) + 1)
      /\ UNCHANGED <<given, faults, up, batch, wpc, opened, pc, base, root, session, info, xml, bin,
                     delta, detached, deltaMark, detachMark, written>>
  BY DEF Change, saverVars, storeVars, deltaVars, markVars
<1>2. /\ tree \in Changes /\ pending \in Changes /\ batch \in Changes /\ written \in Changes
      /\ tree = written \o batch \o pending
  BY <1>1, TypedIs DEF Kept, Typed, MemoryInv
<1> DEFINE c == Len(tree) + 1
<1>3. c \in 1 .. MaxChanges
  BY <1>1, <1>2, ConcatFacts, Sizes
<1>4. tree' = Append(tree, c) /\ pending' = Append(pending, c)
  BY <1>1
<1> HIDE DEF c
<1>5. tree' \in Changes /\ pending' \in Changes /\ tree' = written \o batch \o pending'
  <2>1. Append(tree, c) \in Changes /\ Append(pending, c) \in Changes
    BY <1>2, <1>3, OneMore
  <2>2. Append(written \o batch \o pending, c) = written \o batch \o Append(pending, c)
    <3>1. \A a, b, d \in Changes : Append(a \o b \o d, c) = a \o b \o Append(d, c)
      BY <1>3, OneMore, ZenonT(40)
    <3> QED
      BY <1>2, <3>1, ZenonT(40)
  <2> QED
    BY <1>2, <1>4, <2>1, <2>2
<1>6. TypeOK'
  BY <1>1, <1>5, TypedIs DEF Kept, Typed
<1>7. MemoryInv'
  BY <1>1, <1>5 DEF Kept, MemoryInv, DaliSaves
<1>8. EditionInv(e)' /\ ContentInv(e)'
  BY <1>1, FilesUntouched DEF Kept
<1>9. TailInv(e)'
  BY <1>1 DEF Kept, TailInv, HasMoved
<1> QED
  BY <1>6, <1>7, <1>8, <1>9 DEF Kept

LEMMA BeginBatchStep ==
  ASSUME NEW e, Kept(e), ExclusionInv', BeginBatch
  PROVE  Kept(e)'
<1>1. /\ up /\ wpc \in {"idle", "blocked"} /\ ~DaliSaves /\ wpc' = "check" /\ deltaMark' = TRUE
      /\ \/ wpc = "idle" /\ pending # <<>> /\ batch' = pending /\ pending' = <<>>
         \/ wpc = "blocked" /\ UNCHANGED <<batch, pending>>
      /\ UNCHANGED <<given, faults, up, tree, opened, pc, base, root, session, info, xml, bin,
                     delta, detached, detachMark, written>>
  BY DEF BeginBatch, saverVars, storeVars, deltaVars
<1>2. Typed
  BY TypedIs DEF Kept
<1>3. batch' \in Changes /\ pending' \in Changes /\ batch' # <<>>
      /\ tree' = written' \o batch' \o pending'
  <2>1. /\ batch \in Changes /\ pending \in Changes /\ written \in Changes /\ <<>> \in Changes
        /\ tree = written \o batch \o pending
        /\ wpc = "idle" => batch = <<>>
        /\ wpc = "blocked" => batch # <<>>
    BY <1>1, <1>2, ConcatFacts DEF Kept, MemoryInv, Typed
  <2>2. written \o <<>> \o pending = written \o pending /\ written \o pending \o <<>> = written \o pending
    BY <2>1, Regroup
  <2> QED
    BY <1>1, <2>1, <2>2
<1>4. TypeOK'
  BY <1>1, <1>2, <1>3, TypedIs DEF Typed
<1>5. MemoryInv'
  BY <1>1, <1>3 DEF Kept, MemoryInv, DaliSaves
<1>6. EditionInv(e)' /\ ContentInv(e)'
  BY <1>1, FilesUntouched DEF Kept
<1>7. TailInv(e)'
  BY <1>1 DEF Kept, TailInv, HasMoved
<1> QED
  BY <1>4, <1>5, <1>6, <1>7 DEF Kept

LEMMA CheckDetachStep ==
  ASSUME NEW e, Kept(e), ExclusionInv', CheckDetach
  PROVE  Kept(e)'
<1>1. /\ up /\ wpc = "check" /\ wpc' \in {"blocked", "data"}
      /\ deltaMark' \in BOOLEAN /\ detachMark' \in {detachMark, "none"}
      /\ UNCHANGED <<given, faults, up, tree, pending, batch, opened, pc, base, root, session,
                     info, xml, bin, delta, detached, written>>
  BY TypedIs DEF CheckDetach, saverVars, storeVars, deltaVars, Kept, Typed
<1>2. TypeOK'
  BY <1>1, TypedIs DEF Kept, Typed
<1>3. MemoryInv'
  BY <1>1 DEF Kept, MemoryInv, DaliSaves
<1>4. EditionInv(e)' /\ ContentInv(e)'
  BY <1>1, FilesUntouched DEF Kept
<1>5. TailInv(e)'
  BY <1>1 DEF Kept, TailInv, HasMoved
<1> QED
  BY <1>2, <1>3, <1>4, <1>5 DEF Kept

\* writeDelta goes to the file of the edition in use, and Sasha is not at it.
LEMMA WriteDataStep ==
  ASSUME Ordinary, NEW e \in Editions, Kept(e), ExclusionInv', WriteData
  PROVE  Kept(e)'
<1> DEFINE f == IF delta[e] = NoFile THEN NewDelta ELSE delta[e]
           new == [f EXCEPT !.tail = @ \o batch]
<1>1. info # {} /\ Edition = e
  BY EditionIs DEF WriteData, Kept
<1>2. /\ up /\ wpc = "data" /\ (pc["sasha"] = "clear" => given.torn)
      /\ opened' = e /\ wpc' = "header" /\ delta' = [delta EXCEPT ![e] = new]
      /\ UNCHANGED <<given, faults, up, tree, pending, batch, pc, base, root, session, info, xml, bin,
                     detached, deltaMark, detachMark, written>>
  BY <1>1 DEF WriteData, saverVars, storeVars, markVars
<1>3. Typed
  BY TypedIs DEF Kept
<1>4. delta[e] \in DeltaFile \cup {NoFile} /\ f \in DeltaFile /\ batch \in Changes
  BY <1>3, FileTypes DEF Typed
<1>5. Good(delta[e]) = f.good /\ f.tail = <<>>
  <2>1. Tail_(delta[e]) = <<>>
    BY <1>2 DEF Kept, TailInv
  <2>2. CASE delta[e] = NoFile
    BY <2>2, FileTypes
  <2>3. CASE delta[e] # NoFile
    <3>1. delta[e] \in DeltaFile /\ f = delta[e]
      BY <1>4, <2>3
    <3> HIDE DEF f
    <3> QED
      BY <2>1, <3>1, FileTypes
  <2> QED
    BY <2>2, <2>3
<1>6. new \in DeltaFile /\ new.good = f.good /\ new.tail = batch
  BY <1>4, <1>5, ConcatFacts DEF DeltaFile
<1> HIDE DEF f, new
<1>7. new # NoFile /\ Good(new) = Good(delta[e]) /\ Tail_(new) = batch
  BY <1>5, <1>6, FileTypes
<1>8. ~HasMoved
  <2>1. pc["sasha"] # "deltaUnmark"
    BY <1>2 DEF Kept, ExclusionInv, Handshake, Inside, Writing
  <2>2. pc["sasha"] # "clear"
    BY <1>2, GivenIs DEF Kept
  <2>3. pc["sasha"] # "write"
    BY <1>1, EditionIs DEF Kept, Savers
  <2> QED
    BY <2>1, <2>2, <2>3 DEF HasMoved
<1>9. /\ delta' \in [Editions -> DeltaFile \cup {NoFile}]
      /\ delta'[e] = new /\ \A g \in Editions : g # e => delta'[g] = delta[g]
  BY <1>2, <1>3, <1>6 DEF Typed
<1>10. TypeOK'
  BY <1>2, <1>3, <1>9, TypedIs DEF Typed
<1>11. MemoryInv'
  BY <1>2 DEF Kept, MemoryInv, DaliSaves
<1>12. \A g \in Editions : StoreOf(g)' = StoreOf(g)
  BY <1>2 DEF StoreOf
<1>13. EditionInv(e)'
  <2>1. \A s \in Savers : HasRenamed(s) => StoreOf(e + 1)' = root'[s]
    BY <1>2 DEF Kept, EditionInv, StoreOf
  <2> QED
    BY <1>2, <1>9, <2>1, Sizes DEF Kept, EditionInv, HasBase, HasRenamed, HasMoved
<1>14. ContentInv(e)'
  BY <1>2, <1>7, <1>8, <1>9, <1>12 DEF Kept, ContentInv, HasMoved
<1>15. TailInv(e)'
  <2>1. ~HasMoved' /\ pc'["sasha"] \notin {"detach", "detachUnmark", "renameDelta", "deltaUnmark"}
        /\ deltaMark' = TRUE
    BY <1>2, <1>8 DEF Kept, ExclusionInv, Handshake, Inside, Writing, HasMoved
  <2> QED
    BY <1>2, <1>6, <1>7, <1>9, <2>1 DEF TailInv
<1> QED
  BY <1>10, <1>11, <1>13, <1>14, <1>15 DEF Kept

\* The header commits what writeDelta has put at the end.
LEMMA WriteHeaderStep ==
  ASSUME NEW e \in Editions, Kept(e), ExclusionInv', WriteHeader
  PROVE  Kept(e)'
<1> DEFINE new == [good |-> Good(delta[e]) \o Tail_(delta[e]), tail |-> <<>>]
<1>1. /\ opened = e /\ delta[e] # NoFile /\ Tail_(delta[e]) = batch /\ ~HasMoved
  BY DEF WriteHeader, Kept, TailInv, Tail_
<1>2. /\ up /\ wpc = "header" /\ delta' = [delta EXCEPT ![e] = new]
      /\ written' = written \o batch /\ batch' = <<>> /\ wpc' = "remove"
      /\ UNCHANGED <<given, faults, up, tree, pending, opened, pc, base, root, session, info, xml, bin,
                     detached, deltaMark, detachMark>>
  BY <1>1 DEF WriteHeader, saverVars, storeVars, markVars
<1>3. Typed
  BY TypedIs DEF Kept
<1>4. /\ batch \in Changes /\ pending \in Changes /\ written \in Changes /\ <<>> \in Changes
      /\ Good(delta[e]) \in Changes /\ Good(detached[e]) \in Changes
  BY <1>3, ConcatFacts, FileTypes DEF Typed
<1>5. /\ new \in DeltaFile /\ new # NoFile /\ Tail_(new) = <<>>
      /\ Good(new) = Good(delta[e]) \o batch
  <2>1. Good(delta[e]) \o batch \in Changes
    BY <1>4, ConcatFacts
  <2>2. new = [good |-> Good(delta[e]) \o batch, tail |-> <<>>]
    BY <1>1
  <2> HIDE DEF new
  <2>3. new \in DeltaFile /\ new.good = Good(delta[e]) \o batch /\ new.tail = <<>>
    BY <1>4, <2>1, <2>2 DEF DeltaFile
  <2> QED
    BY <2>3, FileTypes
<1> HIDE DEF new
<1>6. /\ delta' \in [Editions -> DeltaFile \cup {NoFile}]
      /\ delta'[e] = new /\ \A g \in Editions : g # e => delta'[g] = delta[g]
  BY <1>2, <1>3, <1>5 DEF Typed
<1>7. written' \in Changes /\ tree' = written' \o batch' \o pending'
  <2>1. tree = written \o batch \o pending
    BY <1>2 DEF Kept, MemoryInv
  <2>2. written \o batch \in Changes
    BY <1>4, ConcatFacts
  <2>3. (written \o batch) \o <<>> = written \o batch
    BY <2>2, ConcatFacts
  <2> QED
    BY <1>2, <2>1, <2>2, <2>3
<1>8. TypeOK'
  BY <1>2, <1>3, <1>4, <1>6, <1>7, TypedIs DEF Typed
<1>9. MemoryInv'
  BY <1>2, <1>7 DEF Kept, MemoryInv, DaliSaves
<1>10. EditionInv(e)'
  <2>1. \A s \in Savers : HasRenamed(s) => StoreOf(e + 1)' = root'[s]
    BY <1>2 DEF Kept, EditionInv, StoreOf
  <2> QED
    BY <1>2, <1>6, <2>1, Sizes DEF Kept, EditionInv, HasBase, HasRenamed, HasMoved
<1>11. ContentInv(e)'
  <2>1. StoreOf(e)' = StoreOf(e)
    BY <1>2 DEF StoreOf
  <2> DEFINE before == StoreOf(e) \o Good(detached[e])
  <2>2. before \in Changes
    BY <1>3, <1>4, StoreIs, ConcatFacts DEF Kept
  <2>3. before \o Good(delta[e]) = written
    BY <1>1 DEF Kept, ContentInv
  <2> HIDE DEF before
  <2>4. before \o (Good(delta[e]) \o batch) = written \o batch
    <3> DEFINE g == Good(delta[e])
    <3>1. g \in Changes
      BY <1>4
    <3>0. batch \in Changes
      BY <1>4
    <3> HIDE DEF g
    <3>2. (before \o g) \o batch = before \o (g \o batch)
      BY <2>2, <3>0, <3>1, Associative
    <3> QED
      BY <2>3, <3>2 DEF g
  <2> QED
    BY <1>1, <1>2, <1>5, <1>6, <2>1, <2>4 DEF Kept, ContentInv, HasMoved, before
<1>12. TailInv(e)'
  BY <1>1, <1>2, <1>5, <1>6 DEF TailInv, HasMoved
<1> QED
  BY <1>8, <1>9, <1>10, <1>11, <1>12 DEF Kept

LEMMA EndBatchStep ==
  ASSUME NEW e, Kept(e), ExclusionInv', EndBatch
  PROVE  Kept(e)'
<1>1. /\ up /\ wpc = "remove" /\ wpc' = "idle" /\ deltaMark' = FALSE
      /\ UNCHANGED <<given, faults, up, tree, pending, batch, opened, pc, base, root, session,
                     info, xml, bin, delta, detached, detachMark, written>>
  BY DEF EndBatch, saverVars, storeVars, deltaVars
<1>2. TypeOK'
  BY <1>1, TypedIs DEF Kept, Typed
<1>3. MemoryInv'
  BY <1>1 DEF Kept, MemoryInv, DaliSaves
<1>4. EditionInv(e)' /\ ContentInv(e)'
  BY <1>1, FilesUntouched DEF Kept
<1>5. TailInv(e)'
  BY <1>1 DEF Kept, TailInv, HasMoved
<1> QED
  BY <1>2, <1>3, <1>4, <1>5 DEF Kept

\* A write that fails takes back what it has put at the end.
LEMMA WriteFailsStep ==
  ASSUME Ordinary, NEW e \in Editions, Kept(e), ExclusionInv', WriteFails
  PROVE  Kept(e)'
<1> DEFINE new == [delta[e] EXCEPT !.tail = <<>>]
<1>1. opened = e /\ delta[e] \in DeltaFile /\ delta[e].tail = batch /\ ~HasMoved
  BY TypedIs DEF WriteFails, Kept, TailInv, Typed
<1>2. /\ up /\ wpc = "header" /\ faults < given.faults /\ faults' = faults + 1 /\ wpc' = "data"
      /\ delta' = [delta EXCEPT ![e] = new]
      /\ UNCHANGED <<given, up, tree, pending, batch, opened, pc, base, root, session, info, xml, bin,
                     detached, deltaMark, detachMark, written>>
  <2>1. batch \in Changes /\ Len(batch) \in Nat
    BY TypedIs, ConcatFacts DEF Kept, Typed
  <2>2. SubSeq(batch, 1, Len(batch) - Len(batch)) = <<>>
    BY <2>1, SubSeqEmpty
  <2>3. delta' = [delta EXCEPT ![e] = [delta[e] EXCEPT !.tail =
                    SubSeq(delta[e].tail, 1, Len(delta[e].tail) - Len(batch))]]
    BY <1>1 DEF WriteFails
  <2> QED
    BY <1>1, <2>2, <2>3 DEF WriteFails, saverVars, storeVars, markVars
<1>3. Typed
  BY TypedIs DEF Kept
<1>4. new \in DeltaFile /\ new # NoFile /\ Tail_(new) = <<>> /\ Good(new) = Good(delta[e])
  <2>1. new \in DeltaFile /\ new.tail = <<>> /\ new.good = delta[e].good
    BY <1>1, ConcatFacts DEF DeltaFile
  <2> HIDE DEF new
  <2> QED
    BY <1>1, <2>1, FileTypes
<1> HIDE DEF new
<1>5. /\ delta' \in [Editions -> DeltaFile \cup {NoFile}]
      /\ delta'[e] = new /\ \A g \in Editions : g # e => delta'[g] = delta[g]
  BY <1>2, <1>3, <1>4 DEF Typed
<1>6. TypeOK'
  <2>1. faults' \in 0 .. given'.faults
    BY <1>2, GivenIs DEF Kept
  <2> QED
    BY <1>2, <1>3, <1>5, <2>1, TypedIs DEF Typed
<1>7. MemoryInv'
  BY <1>2 DEF Kept, MemoryInv, DaliSaves
<1>8. EditionInv(e)'
  <2>1. \A s \in Savers : HasRenamed(s) => StoreOf(e + 1)' = root'[s]
    BY <1>2 DEF Kept, EditionInv, StoreOf
  <2> QED
    BY <1>2, <1>5, <2>1, Sizes DEF Kept, EditionInv, HasBase, HasRenamed, HasMoved
<1>9. ContentInv(e)'
  BY <1>1, <1>2, <1>4, <1>5 DEF Kept, ContentInv, HasMoved, StoreOf
<1>10. TailInv(e)'
  BY <1>1, <1>2, <1>4, <1>5 DEF TailInv, HasMoved
<1> QED
  BY <1>6, <1>7, <1>8, <1>9, <1>10 DEF Kept

\* The writer's steps and the clients'.
LEMMA WriterKeeps ==
  ASSUME Ordinary, NEW e \in Editions, Kept(e), ExclusionInv', Change \/ Writer \/ WriteFails
  PROVE  Kept(e)'
BY ChangeStep, BeginBatchStep, CheckDetachStep, WriteDataStep, WriteHeaderStep, EndBatchStep,
   WriteFailsStep DEF Writer

-----------------------------------------------------------------------------
(* The savers                                                              *)

\* Only one of the savers is ever at work.
LEMMA OneAtWork ==
  ASSUME Ordinary, NEW e, Kept(e), NEW s \in Savers, NEW t \in Savers, s # t, pc[s] # "idle"
  PROVE  pc[t] = "idle"
BY GivenIs DEF Kept, ExclusionInv, OneSaves, Savers

\* A step of Dali's saver that leaves the files alone.
LEMMA DaliFilesUntouched ==
  ASSUME NEW e, EditionInv(e), ContentInv(e), pc' \in [Savers -> Steps], pc \in [Savers -> Steps],
         UNCHANGED <<given, base, info, xml, bin, delta, detached, written>>,
         pc'["sasha"] = pc["sasha"], root'["sasha"] = root["sasha"],
         pc["dali"] # "write" /\ pc'["dali"] # "write",
         pc'["dali"] # "idle" => "dali" \in given.savers,
         ~HasRenamed("dali")', ~HasRenamed("dali"), HasBase("dali")' => base["dali"] = e /\ e < MaxEdition
  PROVE  EditionInv(e)' /\ ContentInv(e)'
<1>1. "dali" \in Savers /\ "sasha" \in Savers /\ \A s \in Savers : s = "dali" \/ s = "sasha"
  BY Sizes
<1>2. (HasBase("sasha")' <=> HasBase("sasha")) /\ (HasRenamed("sasha")' <=> HasRenamed("sasha"))
      /\ (HasMoved' <=> HasMoved)
  BY DEF HasBase, HasRenamed, HasMoved
<1>3. \A f : StoreOf(f)' = StoreOf(f)
  BY DEF StoreOf
<1>4. (\E s \in Savers : pc'[s] = "write") <=> (\E s \in Savers : pc[s] = "write")
  BY <1>1
<1>5. (\E s \in Savers : HasRenamed(s)') <=> (\E s \in Savers : HasRenamed(s))
  BY <1>1, <1>2
<1>6. EditionInv(e)'
  BY <1>1, <1>2, <1>3, <1>4, <1>5 DEF EditionInv
<1>7. ContentInv(e)'
  BY <1>2, <1>3 DEF ContentInv
<1> QED
  BY <1>6, <1>7

\* Steps that do not touch what the server has in memory, or its delta.
LEMMA MemoryUntouched ==
  ASSUME MemoryInv, UNCHANGED <<up, tree, pending, batch, wpc, written>>,
         root'["dali"] = root["dali"], DaliSaves' => DaliSaves,
         pc["dali"] = "idle" => pc'["dali"] = "idle"
  PROVE  MemoryInv'
BY DEF MemoryInv

LEMMA TailUntouched ==
  ASSUME NEW e, TailInv(e), UNCHANGED <<up, wpc, opened, batch, delta, deltaMark>>,
         HasMoved' => HasMoved, pc'["sasha"] \in Inside => pc["sasha"] \in Inside
  PROVE  TailInv(e)'
BY DEF TailInv, Inside

LEMMA BeginBlockingSaveStep ==
  ASSUME NEW e, Kept(e), ExclusionInv', BeginBlockingSave
  PROVE  Kept(e)'
<1>1. /\ up /\ "dali" \in given.savers /\ wpc # "stopped"
      /\ pc["dali"] = "idle" /\ pc'["dali"] = "flush" /\ pc'["sasha"] = pc["sasha"]
      /\ UNCHANGED <<given, faults, up, tree, pending, batch, wpc, opened, base, root, session,
                     info, xml, bin, delta, detached, deltaMark, detachMark, written>>
  BY DEF BeginBlockingSave, At, UnchangedButSaver, daliVars, storeVars, deltaVars, markVars,
         Kept, ExclusionInv, Savers
<1>2. TypeOK'
  BY <1>1, TypedIs DEF Kept, Typed
<1>3. MemoryInv'
  BY <1>1 DEF Kept, MemoryInv, DaliSaves
<1>4. EditionInv(e)' /\ ContentInv(e)'
  <2>1. ~HasBase("dali")' /\ ~HasRenamed("dali")' /\ ~HasRenamed("dali")
    BY <1>1 DEF HasBase, HasRenamed
  <2> QED
    BY <1>1, <2>1, DaliFilesUntouched DEF Kept, ExclusionInv
<1>5. TailInv(e)'
  BY <1>1, TailUntouched DEF Kept, HasMoved
<1> QED
  BY <1>2, <1>3, <1>4, <1>5 DEF Kept

\* The writer has written all there was: the tree is what the files hold.
LEMMA FlushedStep ==
  ASSUME NEW e, Kept(e), ExclusionInv', Flushed
  PROVE  Kept(e)'
<1>1. /\ up /\ pending = <<>> /\ wpc = "idle"
      /\ pc["dali"] = "flush" /\ pc'["dali"] = "save" /\ pc'["sasha"] = pc["sasha"]
      /\ root' = [root EXCEPT !["dali"] = tree]
      /\ UNCHANGED <<given, faults, up, tree, pending, batch, wpc, opened, base, session,
                     info, xml, bin, delta, detached, deltaMark, detachMark, written>>
  BY DEF Flushed, At, UnchangedButSaver, daliVars, storeVars, deltaVars, markVars,
         Kept, ExclusionInv, Savers
<1>2. Typed
  BY TypedIs DEF Kept
<1>3. root' \in [Savers -> Changes] /\ root'["dali"] = tree /\ root'["sasha"] = root["sasha"]
  BY <1>1, <1>2, Sizes DEF Typed
<1>4. TypeOK'
  BY <1>1, <1>2, <1>3, TypedIs DEF Typed
<1>5. MemoryInv'
  BY <1>1, <1>3 DEF Kept, MemoryInv, DaliSaves
<1>6. EditionInv(e)' /\ ContentInv(e)'
  <2>1. ~HasBase("dali")' /\ ~HasRenamed("dali")' /\ ~HasRenamed("dali")
    BY <1>1 DEF HasBase, HasRenamed
  <2>2. "dali" \in given.savers
    BY <1>1, Sizes DEF Kept, EditionInv
  <2> QED
    BY <1>1, <1>3, <2>1, <2>2, DaliFilesUntouched DEF Kept, ExclusionInv
<1>7. TailInv(e)'
  BY <1>1, TailUntouched DEF Kept, HasMoved
<1> QED
  BY <1>4, <1>5, <1>6, <1>7 DEF Kept

\* An orderly stop: what has been written is a part of the tree that is saved.
LEMMA BeginStopStep ==
  ASSUME NEW e, Kept(e), ExclusionInv', BeginStop
  PROVE  Kept(e)'
<1>1. /\ up /\ "dali" \in given.savers /\ wpc = "idle" /\ wpc' = "stopped" /\ pending' = <<>>
      /\ pc["dali"] = "idle" /\ pc'["dali"] = "save" /\ pc'["sasha"] = pc["sasha"]
      /\ root' = [root EXCEPT !["dali"] = tree]
      /\ UNCHANGED <<given, faults, up, tree, batch, opened, base, session,
                     info, xml, bin, delta, detached, deltaMark, detachMark, written>>
  BY DEF BeginStop, At, storeVars, deltaVars, markVars, Kept, ExclusionInv, Savers
<1>2. Typed
  BY TypedIs DEF Kept
<1>3. root' \in [Savers -> Changes] /\ root'["dali"] = tree /\ root'["sasha"] = root["sasha"]
  BY <1>1, <1>2, Sizes DEF Typed
<1>4. TypeOK'
  BY <1>1, <1>2, <1>3, TypedIs, ConcatFacts DEF Typed
<1>5. IsPrefix(written, tree)
  <2>1. tree = written \o <<>> \o pending /\ written \in Changes /\ pending \in Changes
    BY <1>1, <1>2 DEF Kept, MemoryInv, Typed
  <2>2. written \o <<>> \o pending = written \o pending
    BY <2>1, Regroup
  <2>3. IsPrefix(written, written \o pending)
    BY <2>1, PrefixFacts
  <2> QED
    BY <2>1, <2>2, <2>3
<1>6. MemoryInv'
  BY <1>1, <1>3, <1>5 DEF Kept, MemoryInv, DaliSaves
<1>7. EditionInv(e)' /\ ContentInv(e)'
  <2>1. ~HasBase("dali")' /\ ~HasRenamed("dali")' /\ ~HasRenamed("dali")
    BY <1>1 DEF HasBase, HasRenamed
  <2> QED
    BY <1>1, <1>3, <2>1, DaliFilesUntouched DEF Kept, ExclusionInv
<1>8. TailInv(e)'
  BY <1>1 DEF Kept, TailInv, HasMoved
<1> QED
  BY <1>4, <1>6, <1>7, <1>8 DEF Kept

LEMMA StoppedStep ==
  ASSUME NEW e, Kept(e), ExclusionInv', Stopped
  PROVE  Kept(e)'
<1>1. /\ up /\ wpc = "stopped" /\ pc["dali"] = "idle" /\ up' = FALSE /\ tree' = <<>> /\ wpc' = "idle"
      /\ UNCHANGED <<given, faults, pending, batch, opened, pc, base, root, session,
                     info, xml, bin, delta, detached, deltaMark, detachMark, written>>
  BY DEF Stopped, saverVars, storeVars, deltaVars, markVars
<1>2. TypeOK'
  BY <1>1, TypedIs, ConcatFacts DEF Kept, Typed
<1>3. MemoryInv'
  BY <1>1 DEF Kept, MemoryInv, DaliSaves
<1>4. EditionInv(e)' /\ ContentInv(e)'
  BY <1>1, FilesUntouched DEF Kept
<1>5. TailInv(e)'
  BY <1>1 DEF Kept, TailInv, HasMoved
<1> QED
  BY <1>2, <1>3, <1>4, <1>5 DEF Kept

\* The steps of saveStore, by either saver: what they have in common.
LEMMA SaverFrame ==
  ASSUME NEW e, Kept(e), NEW s \in Savers,
         pc' = [pc EXCEPT ![s] = pc'[s]], pc[s] # "idle", pc'[s] \notin Inside,
         DaliSaves' => DaliSaves, HasMoved' => HasMoved,
         UNCHANGED <<up, tree, pending, batch, wpc, opened, root, delta, deltaMark, written>>
  PROVE  /\ MemoryInv' /\ TailInv(e)'
         /\ \A t \in Savers : t # s => pc'[t] = pc[t]
<1>1. \A t \in Savers : t # s => pc'[t] = pc[t]
  BY DEF Kept, ExclusionInv
<1>2. MemoryInv'
  BY <1>1, Sizes, MemoryUntouched DEF Kept
<1>3. TailInv(e)'
  BY <1>1, Sizes, TailUntouched DEF Kept
<1> QED
  BY <1>1, <1>2, <1>3

LEMMA SaveToFileStep ==
  ASSUME NEW e, Kept(e), ExclusionInv', NEW s \in Savers, SaveToFile(s)
  PROVE  Kept(e)'
<1>1. info # {} /\ Edition = e
  BY EditionIs DEF SaveToFile, Kept
<1>2. /\ pc[s] = "save" /\ pc' = [pc EXCEPT ![s] = "saved"] /\ e < MaxEdition
      /\ base' = [base EXCEPT ![s] = e]
      /\ UNCHANGED <<given, faults, up, tree, pending, batch, wpc, opened, root, session,
                     info, xml, bin, delta, detached, deltaMark, detachMark, written>>
  BY <1>1 DEF SaveToFile, At, UnchangedButSaver, daliVars, storeVars, deltaVars, markVars
<1>3. Typed /\ pc \in [Savers -> Steps]
  BY TypedIs DEF Kept, ExclusionInv
<1>4. e \in Editions
  BY <1>1, <1>3, EditionIs DEF Kept, Typed
<1>5. /\ pc'[s] = "saved" /\ base'[s] = e
      /\ \A t \in Savers : t # s => pc'[t] = pc[t] /\ base'[t] = base[t]
      /\ base' \in [Savers -> Editions]
  BY <1>2, <1>3, <1>4 DEF Typed
<1>6. TypeOK'
  BY <1>2, <1>3, <1>5, TypedIs DEF Typed
<1>7. (HasMoved' <=> HasMoved) /\ (DaliSaves' <=> DaliSaves)
  BY <1>2, <1>5, Sizes DEF HasMoved, DaliSaves
<1>8. MemoryInv' /\ TailInv(e)'
  BY <1>2, <1>3, <1>5, <1>7, SaverFrame DEF Inside
<1>9. \A f : StoreOf(f)' = StoreOf(f)
  BY <1>2 DEF StoreOf
<1>10. EditionInv(e)'
  <2>1. \A t \in Savers : (HasRenamed(t)' <=> HasRenamed(t)) /\ (pc'[t] = "write" <=> pc[t] = "write")
    BY <1>2, <1>5 DEF HasRenamed
  <2>2. \A t \in Savers : HasBase(t)' => base'[t] = e /\ e < MaxEdition
    BY <1>2, <1>5 DEF HasBase, Kept, EditionInv
  <2>3. \A t \in Savers : pc'[t] # "idle" => t \in given.savers
    BY <1>2, <1>5 DEF Kept, EditionInv
  <2> QED
    BY <1>2, <1>7, <1>9, <2>1, <2>2, <2>3 DEF Kept, EditionInv
<1>11. ContentInv(e)'
  BY <1>2, <1>5, <1>7, <1>9, Sizes DEF Kept, ContentInv
<1> QED
  BY <1>6, <1>8, <1>10, <1>11 DEF Kept

\* With one saver at work the edition is still the one it started from.
LEMMA CheckEditionStep ==
  ASSUME NEW e, Kept(e), ExclusionInv', NEW s \in Savers, CheckEdition(s)
  PROVE  Kept(e)'
<1>1. info # {} /\ Edition = e
  BY EditionIs DEF CheckEdition, Kept
<1>2. base[s] = e
  BY DEF CheckEdition, Kept, EditionInv, HasBase
<1>3. /\ pc[s] = "saved" /\ pc' = [pc EXCEPT ![s] = "rename"]
      /\ UNCHANGED <<given, faults, up, tree, pending, batch, wpc, opened, base, root, session,
                     info, xml, bin, delta, detached, deltaMark, detachMark, written>>
  BY <1>1, <1>2 DEF CheckEdition, UnchangedButSaver, daliVars, storeVars, deltaVars, markVars
<1>4. Typed /\ pc \in [Savers -> Steps]
  BY TypedIs DEF Kept, ExclusionInv
<1>5. pc'[s] = "rename" /\ \A t \in Savers : t # s => pc'[t] = pc[t]
  BY <1>3, <1>4
<1>6. TypeOK'
  BY <1>3, <1>4, TypedIs DEF Typed
<1>7. (HasMoved' <=> HasMoved) /\ (DaliSaves' <=> DaliSaves)
  BY <1>3, <1>5, Sizes DEF HasMoved, DaliSaves
<1>8. MemoryInv' /\ TailInv(e)'
  BY <1>3, <1>5, <1>7, SaverFrame DEF Inside
<1>9. \A f : StoreOf(f)' = StoreOf(f)
  BY <1>3 DEF StoreOf
<1>10. EditionInv(e)'
  <2>1. \A t \in Savers : (HasRenamed(t)' <=> HasRenamed(t)) /\ (pc'[t] = "write" <=> pc[t] = "write")
    BY <1>3, <1>5 DEF HasRenamed
  <2>2. \A t \in Savers : HasBase(t)' => HasBase(t)
    BY <1>3, <1>5 DEF HasBase
  <2>3. \A t \in Savers : pc'[t] # "idle" => pc[t] # "idle"
    BY <1>3, <1>5
  <2> QED
    BY <1>3, <1>7, <1>9, <2>1, <2>2, <2>3 DEF Kept, EditionInv
<1>11. ContentInv(e)'
  BY <1>3, <1>5, <1>7, <1>9, Sizes DEF Kept, ContentInv
<1> QED
  BY <1>6, <1>8, <1>10, <1>11 DEF Kept

\* The new store is there, under either name, and an old binary one of that
\* edition has not been left by anyone.
LEMMA RenameStoreStep ==
  ASSUME Ordinary, NEW e \in Editions, Kept(e), ExclusionInv', NEW s \in Savers, RenameStore(s)
  PROVE  Kept(e)'
<1>1. Typed /\ pc \in [Savers -> Steps]
  BY TypedIs DEF Kept, ExclusionInv
<1>2. pc[s] = "rename" /\ base[s] = e /\ e < MaxEdition /\ e \in Nat /\ e + 1 \in Editions
  <2>1. pc[s] = "rename" /\ base[s] = e /\ e < MaxEdition
    BY DEF RenameStore, At, Kept, EditionInv, HasBase
  <2> QED
    BY <2>1, Sizes
<1>3. /\ pc' = [pc EXCEPT ![s] = IF s = "sasha" THEN "deltaMark" ELSE "clear"]
      /\ xml' = [xml EXCEPT ![e + 1] = root[s]]
      /\ bin' = [bin EXCEPT ![e + 1] = root[s]] \/ (given.binaryFails /\ bin' = bin)
      /\ UNCHANGED <<given, faults, up, tree, pending, batch, wpc, opened, base, root, session,
                     info, delta, detached, deltaMark, detachMark, written>>
  BY <1>2 DEF RenameStore, At, daliVars, deltaVars, markVars
<1>4. /\ pc'[s] = IF s = "sasha" THEN "deltaMark" ELSE "clear"
      /\ \A t \in Savers : t # s => pc'[t] = pc[t]
  BY <1>1, <1>3
<1>5. root[s] \in Changes /\ root[s] # NoFile
  BY <1>1, Sizes DEF Typed
<1>6. /\ xml' \in [Editions -> Changes \cup {NoFile}] /\ bin' \in [Editions -> Changes \cup {NoFile}]
      /\ xml'[e + 1] = root[s]
      /\ \A f \in Editions : f # e + 1 => xml'[f] = xml[f] /\ bin'[f] = bin[f]
      /\ bin'[e + 1] = root[s] \/ (given.binaryFails /\ bin'[e + 1] = bin[e + 1])
  BY <1>1, <1>2, <1>3, <1>5 DEF Typed
<1>7. TypeOK'
  BY <1>1, <1>3, <1>6, TypedIs DEF Typed
<1>8. ~HasMoved' /\ ~HasMoved /\ (DaliSaves' => DaliSaves)
  <2>1. s # "sasha" => pc["sasha"] = "idle" /\ pc'["sasha"] = "idle"
    BY <1>2, <1>4, OneAtWork, Sizes
  <2> QED
    BY <1>2, <1>4, <2>1, Sizes DEF HasMoved, DaliSaves
<1>9. MemoryInv' /\ TailInv(e)'
  <2>1. pc' = [pc EXCEPT ![s] = pc'[s]] /\ pc[s] # "idle" /\ pc'[s] \notin Inside
    <3> DEFINE to == IF s = "sasha" THEN "deltaMark" ELSE "clear"
    <3>1. to \notin Inside /\ pc' = [pc EXCEPT ![s] = to] /\ pc'[s] = to
      BY <1>3, <1>4 DEF Inside
    <3> HIDE DEF to
    <3>2. pc' = [pc EXCEPT ![s] = pc'[s]]
      BY <3>1
    <3> QED
      BY <1>2, <3>1, <3>2
  <2>2. UNCHANGED <<up, tree, pending, batch, wpc, opened, root, delta, deltaMark, written>>
    BY <1>3
  <2>3. (DaliSaves' => DaliSaves) /\ (HasMoved' => HasMoved)
    BY <1>8
  <2> QED
    BY <2>1, <2>2, <2>3, SaverFrame
<1>10. \A t \in Savers : t # s => pc[t] = "idle" /\ pc'[t] = "idle"
  BY <1>2, <1>4, OneAtWork
<1>11. StoreOf(e + 1)' = root[s]
  <2>1. given.binaryFails => bin[e + 1] = NoFile
    <3>1. \A t \in Savers : ~HasRenamed(t)
      BY <1>2, <1>10 DEF HasRenamed
    <3>2. e + 1 > e
      BY <1>2
    <3> QED
      BY <1>2, <3>1, <3>2 DEF Kept, EditionInv
  <2> QED
    BY <1>5, <1>6, <2>1 DEF StoreOf
<1>12. StoreOf(e)' = StoreOf(e)
  <2>1. e # e + 1
    BY <1>2
  <2> QED
    BY <1>6, <2>1, StoreIs DEF Kept
<1>13. EditionInv(e)'
  <2>1. pc'[s] # "write" /\ HasRenamed(s)' /\ info' = {e}
    <3>1. \A t \in Savers : pc[t] # "write" /\ pc'[t] # "write"
      BY <1>2, <1>4, <1>10
    <3> QED
      BY <1>3, <1>4, <3>1 DEF HasRenamed, Kept, EditionInv
  <2>2. info' = IF \E t \in Savers : pc'[t] = "write" THEN {} ELSE {e}
    BY <1>10, <2>1
  <2>3. ASSUME NEW t \in Savers
        PROVE  /\ pc'[t] # "idle" => t \in given'.savers
               /\ HasBase(t)' => base'[t] = e /\ e < MaxEdition
               /\ HasRenamed(t)' => StoreOf(e + 1)' = root'[t]
    <3>1. CASE t = s
      BY <1>2, <1>3, <1>11, <3>1 DEF Kept, EditionInv
    <3>2. CASE t # s
      BY <1>10, <3>2 DEF HasBase, HasRenamed
    <3> QED
      BY <3>1, <3>2
  <2>4. ASSUME NEW f \in Editions, f > e
        PROVE  /\ detached'[f] = NoFile
               /\ delta'[f] = NoFile \/ (HasMoved' /\ f = e + 1)
               /\ given'.binaryFails => bin'[f] = NoFile \/ (f = e + 1 /\ \E t \in Savers : HasRenamed(t)')
    <3>1. detached[f] = NoFile /\ delta[f] = NoFile
      BY <1>8, <2>4 DEF Kept, EditionInv
    <3>2. given.binaryFails => bin[f] = NoFile \/ f = e + 1
      BY <2>4 DEF Kept, EditionInv
    <3> QED
      BY <1>3, <1>6, <2>1, <3>1, <3>2
  <2> QED
    BY <2>2, <2>3, <2>4 DEF EditionInv
<1>14. ContentInv(e)'
  <2>1. CASE s = "sasha"
    BY <1>2, <1>3, <1>4, <1>8, <1>12, <2>1 DEF Kept, ContentInv
  <2>2. CASE s = "dali"
    <3>1. pc["sasha"] = "idle" /\ pc'["sasha"] = "idle"
      BY <1>10, <2>2, Sizes
    <3> QED
      BY <1>3, <1>8, <1>12, <3>1 DEF Kept, ContentInv
  <2> QED
    BY <2>1, <2>2, Sizes
<1> QED
  BY <1>7, <1>9, <1>13, <1>14 DEF Kept

LEMMA ClearInfoStep ==
  ASSUME Ordinary, NEW e, Kept(e), ExclusionInv', NEW s \in Savers, ClearInfo(s)
  PROVE  Kept(e)'
<1>1. Typed /\ pc \in [Savers -> Steps]
  BY TypedIs DEF Kept, ExclusionInv
<1>2. /\ pc[s] = "clear" /\ pc' = [pc EXCEPT ![s] = "write"] /\ info' = {}
      /\ UNCHANGED <<given, faults, up, tree, pending, batch, wpc, opened, base, root, session,
                     xml, bin, delta, detached, deltaMark, detachMark, written>>
  BY DEF ClearInfo, At, daliVars, deltaVars, markVars
<1>3. pc'[s] = "write" /\ \A t \in Savers : t # s => pc'[t] = pc[t]
  BY <1>1, <1>2
<1>4. TypeOK'
  <2>1. Cardinality(info') <= 1
    BY <1>2, FS_EmptySet
  <2> QED
    BY <1>1, <1>2, <2>1, TypedIs DEF Typed
<1>5. (HasMoved' <=> HasMoved) /\ (DaliSaves' <=> DaliSaves)
  BY <1>2, <1>3, Sizes DEF HasMoved, DaliSaves
<1>6. MemoryInv' /\ TailInv(e)'
  BY <1>2, <1>3, <1>5, SaverFrame DEF Inside
<1>7. \A f : StoreOf(f)' = StoreOf(f)
  BY <1>2 DEF StoreOf
<1>8. EditionInv(e)'
  <2>1. \A t \in Savers : HasRenamed(t)' <=> HasRenamed(t)
    BY <1>2, <1>3 DEF HasRenamed
  <2>2. \A t \in Savers : HasBase(t)' <=> HasBase(t)
    BY <1>2, <1>3 DEF HasBase
  <2>3. \A t \in Savers : pc'[t] # "idle" => pc[t] # "idle"
    BY <1>2, <1>3
  <2>4. \E t \in Savers : pc'[t] = "write"
    BY <1>3
  <2> QED
    BY <1>2, <1>5, <1>7, <2>1, <2>2, <2>3, <2>4 DEF Kept, EditionInv
<1>9. ContentInv(e)'
  BY <1>2, <1>3, <1>5, <1>7, Sizes DEF Kept, ContentInv
<1> QED
  BY <1>4, <1>6, <1>8, <1>9 DEF Kept

\* store.<edition> names the new store: Sasha has left the rest to the new delta,
\* and Dali's has everything in it.
LEMMA WriteInfoStep ==
  ASSUME Ordinary, NEW e \in Editions, Kept(e), ExclusionInv', NEW s \in Savers, WriteInfo(s)
  PROVE  e + 1 \in Editions /\ Kept(e + 1)'
<1> DEFINE gone(files) == [f \in Editions |-> IF f = e - KeepStores THEN NoFile ELSE files[f]]
<1>1. Typed /\ pc \in [Savers -> Steps]
  BY TypedIs DEF Kept, ExclusionInv
<1>2. /\ pc[s] = "write" /\ base[s] = e /\ e < MaxEdition /\ e \in Nat /\ e + 1 \in Editions
      /\ StoreOf(e + 1) = root[s] /\ info = {}
  <2>1. pc[s] = "write"
    BY DEF WriteInfo, At
  <2> QED
    BY <2>1, Sizes DEF Kept, EditionInv, HasBase, HasRenamed
<1>3. /\ pc' = [pc EXCEPT ![s] = "idle"] /\ info' = {e + 1}
      /\ xml' = gone(xml) /\ bin' = gone(bin) /\ delta' = gone(delta) /\ detached' = gone(detached)
      /\ written' = IF s = "dali" THEN root[s] ELSE written
      /\ UNCHANGED <<given, faults, up, tree, pending, batch, wpc, opened, base, root, session,
                     deltaMark, detachMark>>
  BY <1>2 DEF WriteInfo, At, daliVars, markVars
<1>4. /\ xml' \in [Editions -> Changes \cup {NoFile}] /\ bin' \in [Editions -> Changes \cup {NoFile}]
      /\ delta' \in [Editions -> DeltaFile \cup {NoFile}]
      /\ detached' \in [Editions -> DeltaFile \cup {NoFile}]
      /\ \A f \in Editions : f > e =>
           xml'[f] = xml[f] /\ bin'[f] = bin[f] /\ delta'[f] = delta[f] /\ detached'[f] = detached[f]
  <2>1. \A f \in Editions : f > e => f # e - KeepStores
    BY <1>2, Sizes
  <2> QED
    BY <1>1, <1>3, <2>1 DEF Typed
<1> HIDE DEF gone
<1>5. \A t \in Savers : pc'[t] = "idle" /\ (t # s => pc[t] = "idle")
  BY <1>1, <1>2, <1>3, OneAtWork
<1>6. StoreOf(e + 1)' = root[s] /\ detached'[e + 1] = NoFile
  <2>1. e + 1 > e
    BY <1>2
  <2>2. StoreOf(e + 1)' = StoreOf(e + 1)
    BY <1>2, <1>4, <2>1, StoreIs DEF Kept
  <2> QED
    BY <1>2, <1>4, <2>1, <2>2 DEF Kept, EditionInv
<1>7. /\ StoreOf(e + 1)' \o Good(delta'[e + 1]) = written' /\ written' \in Changes
      /\ Tail_(delta'[e + 1]) = <<>> /\ wpc # "header" /\ MemoryInv'
  <2>1. delta'[e + 1] = delta[e + 1]
    <3>1. e + 1 > e
      BY <1>2
    <3> QED
      BY <1>2, <1>4, <3>1
  <2>2. CASE s = "sasha"
    <3>1. HasMoved
      BY <1>2, <2>2 DEF HasMoved
    <3>2. MemoryInv'
      BY <1>2, <1>3, <1>5, <2>2, Sizes, MemoryUntouched DEF Kept, DaliSaves
    <3> QED
      BY <1>1, <1>3, <1>6, <2>1, <2>2, <3>1, <3>2 DEF Kept, ContentInv, TailInv, Typed
  <2>3. CASE s = "dali"
    <3>1. DaliSaves /\ pc["sasha"] = "idle"
      BY <1>2, <1>5, <2>3, Sizes DEF DaliSaves
    <3>2. /\ up /\ root["dali"] = tree /\ pending = <<>> /\ batch = <<>>
          /\ wpc \in {"idle", "stopped"}
      BY <1>2, <2>3, <3>1 DEF Kept, MemoryInv
    <3>3. delta[e + 1] = NoFile
      <4>1. e + 1 > e /\ ~HasMoved
        BY <1>2, <3>1 DEF HasMoved
      <4> QED
        BY <1>2, <4>1 DEF Kept, EditionInv
    <3>4. written' = tree /\ tree \in Changes
      BY <1>1, <1>3, <2>3, <3>2 DEF Typed
    <3>5. tree \o <<>> = tree /\ tree \o <<>> \o <<>> = tree /\ IsPrefix(tree, tree)
      BY <3>4, ConcatFacts, PrefixFacts
    <3>6. StoreOf(e + 1)' \o Good(delta'[e + 1]) = written' /\ Tail_(delta'[e + 1]) = <<>>
      BY <1>6, <2>1, <2>3, <3>2, <3>3, <3>4, <3>5, FileTypes
    <3>7. MemoryInv'
      BY <1>3, <1>5, <3>2, <3>4, <3>5, Sizes DEF MemoryInv, DaliSaves
    <3> QED
      BY <3>2, <3>4, <3>6, <3>7
  <2> QED
    BY <2>2, <2>3, Sizes
<1>8. TypeOK'
  <2>1. Cardinality(info') <= 1
    <3>1. info' = {e + 1}
      BY <1>3
    <3>2. Cardinality({e + 1}) = 1
      BY FS_Singleton
    <3> QED
      BY <3>1, <3>2
  <2>2. info' \subseteq Editions
    BY <1>2, <1>3
  <2>3. UNCHANGED <<given, faults, up, tree, pending, batch, wpc, opened, base, root, session,
                    deltaMark, detachMark>>
    BY <1>3
  <2> QED
    BY <1>1, <1>4, <1>7, <2>1, <2>2, <2>3, TypedIs DEF Typed
<1>9. ~HasMoved' /\ \A t \in Savers : ~HasBase(t)' /\ ~HasRenamed(t)'
  BY <1>5, Sizes DEF HasMoved, HasBase, HasRenamed
<1>10. EditionInv(e + 1)'
  <2>1. ASSUME NEW f \in Editions, f > e + 1
        PROVE  /\ detached'[f] = NoFile /\ delta'[f] = NoFile
               /\ given'.binaryFails => bin'[f] = NoFile
    <3>1. f > e /\ f # e + 1
      BY <1>2, <2>1, Sizes
    <3> QED
      BY <1>3, <1>4, <3>1 DEF Kept, EditionInv
  <2>2. info' = IF \E t \in Savers : pc'[t] = "write" THEN {} ELSE {e + 1}
    BY <1>3, <1>5
  <2> QED
    BY <1>5, <1>9, <2>1, <2>2 DEF EditionInv
<1>11. ContentInv(e + 1)'
  <2>1. StoreOf(e + 1)' \o Good(detached'[e + 1]) \o Good(delta'[e + 1]) = written'
    <3>1. Good(detached'[e + 1]) = <<>>
      BY <1>6, FileTypes
    <3>2. root[s] \in Changes
      BY <1>1 DEF Typed
    <3>3. root[s] \o <<>> = root[s]
      BY <3>2, ConcatFacts
    <3> QED
      BY <1>6, <1>7, <3>1, <3>3
  <2>2. pc'["sasha"] = "idle"
    BY <1>5, Sizes
  <2> QED
    BY <1>9, <2>1, <2>2 DEF ContentInv
<1>12. TailInv(e + 1)'
  BY <1>3, <1>7, <1>9 DEF TailInv
<1> QED
  BY <1>2, <1>7, <1>8, <1>10, <1>11, <1>12 DEF Kept

-----------------------------------------------------------------------------
(* Sasha                                                                   *)

\* Sasha's steps leave the server, and what Dali's saver has, alone.
LEMMA SashaFrame ==
  ASSUME NEW e, Kept(e), pc' = [pc EXCEPT !["sasha"] = pc'["sasha"]],
         UNCHANGED <<up, tree, pending, batch, wpc, written>>, root'["dali"] = root["dali"]
  PROVE  /\ MemoryInv' /\ pc'["dali"] = pc["dali"]
         /\ (HasBase("dali")' <=> HasBase("dali")) /\ (HasRenamed("dali")' <=> HasRenamed("dali"))
<1>1. pc'["dali"] = pc["dali"]
  <2>1. pc \in [Savers -> Steps] /\ "dali" \in Savers /\ "sasha" \in Savers
    BY Sizes DEF Kept, ExclusionInv
  <2> DEFINE to == pc'["sasha"]
  <2>2. pc' = [pc EXCEPT !["sasha"] = to]
    OBVIOUS
  <2> HIDE DEF to
  <2> QED
    BY <2>1, <2>2
<1>2. MemoryInv'
  BY <1>1, MemoryUntouched DEF Kept, DaliSaves
<1> QED
  BY <1>1, <1>2 DEF HasBase, HasRenamed

\* ... and as long as the stores stay the edition does.
LEMMA SashaEdition ==
  ASSUME NEW e, Kept(e), pc' = [pc EXCEPT !["sasha"] = pc'["sasha"]],
         UNCHANGED <<up, tree, pending, batch, wpc, written>>, root'["dali"] = root["dali"],
         UNCHANGED <<given, info, xml, bin>>, base'["dali"] = base["dali"],
         pc["sasha"] # "write", pc'["sasha"] # "write",
         pc'["sasha"] # "idle" => "sasha" \in given.savers,
         HasBase("sasha")' => base'["sasha"] = e /\ e < MaxEdition,
         HasRenamed("sasha")' => HasRenamed("sasha") /\ root'["sasha"] = root["sasha"],
         given.binaryFails => (HasRenamed("sasha") => HasRenamed("sasha")'),
         \A f \in Editions : f > e =>
           detached'[f] = NoFile /\ (delta'[f] = NoFile \/ (HasMoved' /\ f = e + 1))
  PROVE  EditionInv(e)' /\ MemoryInv'
<1>1. /\ MemoryInv' /\ pc'["dali"] = pc["dali"]
      /\ (HasBase("dali")' <=> HasBase("dali")) /\ (HasRenamed("dali")' <=> HasRenamed("dali"))
  BY SashaFrame
<1>2. StoreOf(e + 1)' = StoreOf(e + 1)
  BY DEF StoreOf
<1>3. info' = IF \E s \in Savers : pc'[s] = "write" THEN {} ELSE {e}
  BY <1>1, Sizes DEF Kept, EditionInv
<1>4. ASSUME NEW s \in Savers
      PROVE  /\ pc'[s] # "idle" => s \in given'.savers
             /\ HasBase(s)' => base'[s] = e /\ e < MaxEdition
             /\ HasRenamed(s)' => StoreOf(e + 1)' = root'[s]
  <2>1. CASE s = "dali"
    BY <1>1, <1>2, <2>1 DEF Kept, EditionInv
  <2>2. CASE s = "sasha"
    BY <1>2, <2>2 DEF Kept, EditionInv
  <2> QED
    BY <2>1, <2>2, Sizes
<1>5. ASSUME NEW f \in Editions, f > e
      PROVE  given'.binaryFails => bin'[f] = NoFile \/ (f = e + 1 /\ \E s \in Savers : HasRenamed(s)')
  <2>1. given.binaryFails => bin[f] = NoFile \/ (f = e + 1 /\ \E s \in Savers : HasRenamed(s))
    BY <1>5 DEF Kept, EditionInv
  <2>2. given.binaryFails => ((\E s \in Savers : HasRenamed(s)) => \E s \in Savers : HasRenamed(s)')
    BY <1>1, Sizes
  <2> QED
    BY <2>1, <2>2
<1> QED
  BY <1>1, <1>3, <1>4, <1>5 DEF EditionInv

\* What holds of Sasha while it is at work.
LEMMA SashaAt ==
  ASSUME Ordinary, NEW e \in Editions, Kept(e), pc["sasha"] # "idle"
  PROVE  /\ Typed /\ "sasha" \in given.savers /\ pc["dali"] = "idle"
         /\ pc \in [Savers -> Steps]
         /\ HasBase("sasha") => base["sasha"] = e /\ e < MaxEdition /\ e + 1 \in Editions
         /\ StoreOf(e) \in Changes /\ root["sasha"] \in Changes
         /\ Good(detached[e]) \in Changes /\ Good(delta[e]) \in Changes
<1>1. Typed /\ pc \in [Savers -> Steps]
  BY TypedIs DEF Kept, ExclusionInv
<1>2. pc["dali"] = "idle" /\ "sasha" \in given.savers
  BY Sizes, OneAtWork DEF Kept, EditionInv
<1>3. HasBase("sasha") => base["sasha"] = e /\ e < MaxEdition
  BY Sizes DEF Kept, EditionInv
<1>4. StoreOf(e) \in Changes
  BY StoreIs DEF Kept
<1>5. root["sasha"] \in Changes /\ Good(detached[e]) \in Changes /\ Good(delta[e]) \in Changes
  BY <1>1, Sizes, FileTypes DEF Typed
<1> QED
  BY <1>1, <1>2, <1>3, <1>4, <1>5, Sizes

LEMMA BeginCoalesceStep ==
  ASSUME Ordinary, NEW e \in Editions, Kept(e), ExclusionInv', BeginCoalesce
  PROVE  Kept(e)'
<1>1. "sasha" \in given.savers /\ pc["sasha"] = "idle"
  BY DEF BeginCoalesce, At
<1>2. info = {e} /\ Checked(info) = {e} /\ (CHOOSE f \in Checked(info) : TRUE) = e
  <2>1. pc["dali"] = "idle"
    BY GivenIs, Sizes DEF Kept, BeginCoalesce, Alone
  <2>2. \A s \in Savers : pc[s] = "idle"
    BY <1>1, <2>1, Sizes
  <2>3. info # {}
    BY <2>2 DEF Kept, EditionInv
  <2> QED
    BY <2>3, EditionIs DEF Kept
<1>3. /\ up /\ pc' = [pc EXCEPT !["sasha"] = "load"] /\ session' = TRUE /\ info' = {e}
      /\ e < MaxEdition /\ base' = [base EXCEPT !["sasha"] = e]
      /\ UNCHANGED <<given, faults, up, tree, pending, batch, wpc, opened, root, xml, bin, delta,
                     detached, deltaMark, detachMark, written>>
  BY <1>2 DEF BeginCoalesce, At, daliVars, deltaVars, markVars
<1>4. Typed /\ pc \in [Savers -> Steps]
  BY TypedIs DEF Kept, ExclusionInv
<1>5. /\ pc'["sasha"] = "load" /\ base'["sasha"] = e /\ base'["dali"] = base["dali"]
      /\ base' \in [Savers -> Editions]
  BY <1>3, <1>4, Sizes DEF Typed
<1>6. TypeOK'
  BY <1>2, <1>3, <1>4, <1>5, TypedIs DEF Typed
<1>7. ~HasMoved /\ ~HasMoved' /\ ~HasRenamed("sasha") /\ ~HasRenamed("sasha")'
  BY <1>1, <1>5 DEF HasMoved, HasRenamed
<1>8. EditionInv(e)' /\ MemoryInv'
  <2>1. \A f \in Editions : f > e => detached[f] = NoFile /\ delta[f] = NoFile
    BY <1>7 DEF Kept, EditionInv
  <2> QED
    BY <1>1, <1>2, <1>3, <1>5, <1>7, <2>1, SashaEdition
<1>9. ContentInv(e)'
  <2>1. StoreOf(e)' = StoreOf(e)
    BY <1>3 DEF StoreOf
  <2> QED
    BY <1>3, <1>5, <1>7, <2>1 DEF Kept, ContentInv
<1>10. TailInv(e)'
  BY <1>3, <1>5, <1>7, TailUntouched DEF Kept, Inside
<1> QED
  BY <1>6, <1>8, <1>9, <1>10 DEF Kept

\* Sasha's steps between its own states, which leave the files alone.
LEMMA SashaFilesUntouched ==
  ASSUME Ordinary, NEW e \in Editions, Kept(e), ExclusionInv',
         pc["sasha"] \notin {"idle", "write"}, pc'["sasha"] \notin {"idle", "write"},
         pc' = [pc EXCEPT !["sasha"] = pc'["sasha"]],
         HasBase("sasha")' => HasBase("sasha"), HasRenamed("sasha")' <=> HasRenamed("sasha"),
         HasMoved' <=> HasMoved, HasRenamed("sasha") => root' = root,
         root' \in [Savers -> Changes], root'["dali"] = root["dali"],
         detachMark' \in {"none", "live", "stale"},
         UNCHANGED <<given, faults, up, tree, pending, batch, wpc, opened, base, session, info, xml,
                     bin, delta, detached, deltaMark, written>>
  PROVE  /\ TypeOK' /\ MemoryInv' /\ EditionInv(e)'
         /\ StoreOf(e)' = StoreOf(e)
         /\ (pc'["sasha"] \in Inside /\ Tail_(delta[e]) = <<>>) => TailInv(e)'
         /\ pc'["sasha"] \notin Inside => TailInv(e)'
<1>1. Typed /\ "sasha" \in given.savers
  BY SashaAt
<1>2. TypeOK'
  BY <1>1, TypedIs DEF Typed
<1>3. \A f \in Editions : f > e =>
        detached'[f] = NoFile /\ (delta'[f] = NoFile \/ (HasMoved' /\ f = e + 1))
  BY DEF Kept, EditionInv
<1>4. HasBase("sasha")' => base'["sasha"] = e /\ e < MaxEdition
  BY SashaAt
<1>5. EditionInv(e)' /\ MemoryInv'
  BY <1>1, <1>3, <1>4, SashaEdition
<1>6. StoreOf(e)' = StoreOf(e)
  BY DEF StoreOf
<1>7. (pc'["sasha"] \in Inside /\ Tail_(delta[e]) = <<>>) => TailInv(e)'
  BY DEF Kept, TailInv
<1>8. pc'["sasha"] \notin Inside => TailInv(e)'
  BY DEF Kept, TailInv, Inside
<1> QED
  BY <1>2, <1>5, <1>6, <1>7, <1>8


LEMMA LoadBaseStep ==
  ASSUME Ordinary, NEW e \in Editions, Kept(e), ExclusionInv', LoadBase
  PROVE  Kept(e)'
<1>1. info # {} /\ Edition = e
  BY EditionIs DEF LoadBase, Kept
<1>2. /\ pc["sasha"] = "load" /\ pc' = [pc EXCEPT !["sasha"] = "loaded"]
      /\ root' = [root EXCEPT !["sasha"] = StoreOf(e)]
      /\ UNCHANGED <<given, faults, up, tree, pending, batch, wpc, opened, base, session, info, xml,
                     bin, delta, detached, deltaMark, detachMark, written>>
  BY <1>1 DEF LoadBase, At, UnchangedButSaver, daliVars, storeVars, deltaVars, markVars
<1>3. Typed /\ pc \in [Savers -> Steps] /\ StoreOf(e) \in Changes
  BY <1>2, SashaAt
<1>4. pc'["sasha"] = "loaded" /\ root' \in [Savers -> Changes] /\ root'["sasha"] = StoreOf(e)
      /\ root'["dali"] = root["dali"]
  BY <1>2, <1>3, Sizes DEF Typed
<1>5. /\ HasBase("sasha") /\ ~HasRenamed("sasha") /\ ~HasRenamed("sasha")'
      /\ ~HasMoved /\ ~HasMoved' /\ pc'["sasha"] \notin Inside
      /\ detachMark' \in {"none", "live", "stale"}
  BY <1>2, <1>3, <1>4 DEF HasBase, HasRenamed, HasMoved, Inside, Typed
<1>6. TypeOK' /\ MemoryInv' /\ EditionInv(e)' /\ StoreOf(e)' = StoreOf(e) /\ TailInv(e)'
  BY <1>2, <1>4, <1>5, SashaFilesUntouched
<1>7. ContentInv(e)'
  BY <1>2, <1>4, <1>5, <1>6 DEF Kept, ContentInv
<1> QED
  BY <1>6, <1>7 DEF Kept

\* The edition is still the one Sasha started from.
LEMMA CheckBaseStep ==
  ASSUME Ordinary, NEW e \in Editions, Kept(e), ExclusionInv', CheckBase
  PROVE  Kept(e)'
<1>1. info # {} /\ Edition = e /\ pc["sasha"] = "loaded"
  BY EditionIs DEF CheckBase, Kept
<1>2. HasBase("sasha") /\ base["sasha"] = e
  BY <1>1, SashaAt DEF HasBase
<1> DEFINE to == IF detached[e] # NoFile THEN "loadDelta" ELSE "detachMark"
<1>3. /\ pc' = [pc EXCEPT !["sasha"] = to]
      /\ UNCHANGED <<given, faults, up, tree, pending, batch, wpc, opened, base, root, session, info,
                     xml, bin, delta, detached, deltaMark, detachMark, written>>
  BY <1>1, <1>2 DEF CheckBase, UnchangedButSaver, daliVars, storeVars, deltaVars, markVars
<1>4. Typed /\ pc \in [Savers -> Steps]
  BY <1>1, SashaAt
<1>5. pc'["sasha"] = to
  BY <1>3, <1>4, Sizes
<1>6. to \in {"loadDelta", "detachMark"} /\ (to = "detachMark" => detached[e] = NoFile)
  OBVIOUS
<1> HIDE DEF to
<1>7. /\ pc' = [pc EXCEPT !["sasha"] = pc'["sasha"]]
      /\ pc["sasha"] \notin {"idle", "write"} /\ pc'["sasha"] \notin {"idle", "write"}
  BY <1>1, <1>3, <1>5, <1>6
<1>8. /\ HasRenamed("sasha")' <=> HasRenamed("sasha")
      /\ ~HasMoved /\ ~HasMoved' /\ pc'["sasha"] \notin Inside
      /\ root' \in [Savers -> Changes] /\ root' = root
      /\ detachMark' \in {"none", "live", "stale"}
  BY <1>1, <1>3, <1>4, <1>5, <1>6 DEF HasRenamed, HasMoved, Inside, Typed
<1>9. TypeOK' /\ MemoryInv' /\ EditionInv(e)' /\ StoreOf(e)' = StoreOf(e) /\ TailInv(e)'
  BY <1>2, <1>3, <1>7, <1>8, SashaFilesUntouched
<1>10. ContentInv(e)'
  BY <1>1, <1>3, <1>5, <1>6, <1>8, <1>9 DEF Kept, ContentInv
<1> QED
  BY <1>9, <1>10 DEF Kept

\* CheckDeltaBlock is made, before either of the two things it is for.
LEMMA MarkStep ==
  ASSUME Ordinary, NEW e \in Editions, Kept(e), ExclusionInv', Mark
  PROVE  Kept(e)'
<1> DEFINE to == IF pc["sasha"] = "detachMark" THEN "detachWait" ELSE "deltaWait"
<1>1. /\ pc["sasha"] \in {"detachMark", "deltaMark"} /\ pc' = [pc EXCEPT !["sasha"] = to]
      /\ detachMark' \in {"live", "stale"}
      /\ UNCHANGED <<given, faults, up, tree, pending, batch, wpc, opened, base, root, session, info,
                     xml, bin, delta, detached, deltaMark, written>>
  BY DEF Mark, At, daliVars, storeVars, deltaVars
<1>2. Typed /\ pc \in [Savers -> Steps]
  BY <1>1, SashaAt
<1>3. pc'["sasha"] = to
  BY <1>1, <1>2, Sizes
<1>4. \/ pc["sasha"] = "detachMark" /\ to = "detachWait"
      \/ pc["sasha"] = "deltaMark" /\ to = "deltaWait"
  BY <1>1
<1> HIDE DEF to
<1>5. /\ pc' = [pc EXCEPT !["sasha"] = pc'["sasha"]]
      /\ pc["sasha"] \notin {"idle", "write"} /\ pc'["sasha"] \notin {"idle", "write"}
  BY <1>1, <1>3, <1>4
<1>6. /\ HasRenamed("sasha")' <=> HasRenamed("sasha")
      /\ HasBase("sasha") /\ ~HasMoved /\ ~HasMoved' /\ pc'["sasha"] \notin Inside
      /\ root' \in [Savers -> Changes] /\ root' = root
      /\ detachMark' \in {"none", "live", "stale"}
  BY <1>1, <1>2, <1>3, <1>4 DEF HasBase, HasRenamed, HasMoved, Inside, Typed
<1>7. TypeOK' /\ MemoryInv' /\ EditionInv(e)' /\ StoreOf(e)' = StoreOf(e) /\ TailInv(e)'
  BY <1>1, <1>5, <1>6, SashaFilesUntouched
<1>8. ContentInv(e)'
  BY <1>1, <1>3, <1>4, <1>6, <1>7 DEF Kept, ContentInv
<1> QED
  BY <1>7, <1>8 DEF Kept

\* Once delta.progress is gone there is nothing behind what the delta holds.
LEMMA WaitForWriterStep ==
  ASSUME Ordinary, NEW e \in Editions, Kept(e), ExclusionInv', WaitForWriter
  PROVE  Kept(e)'
<1> DEFINE to == IF pc["sasha"] = "detachWait" THEN "detach" ELSE "renameDelta"
<1>1. /\ pc["sasha"] \in {"detachWait", "deltaWait"} /\ pc' = [pc EXCEPT !["sasha"] = to]
      /\ ~deltaMark
      /\ UNCHANGED <<given, faults, up, tree, pending, batch, wpc, opened, base, root, session, info,
                     xml, bin, delta, detached, deltaMark, detachMark, written>>
  BY DEF WaitForWriter, At, UnchangedButSaver, daliVars, storeVars, deltaVars, markVars
<1>2. Typed /\ pc \in [Savers -> Steps]
  BY <1>1, SashaAt
<1>3. pc'["sasha"] = to
  BY <1>1, <1>2, Sizes
<1>4. \/ pc["sasha"] = "detachWait" /\ to = "detach"
      \/ pc["sasha"] = "deltaWait" /\ to = "renameDelta"
  BY <1>1
<1> HIDE DEF to
<1>5. /\ pc' = [pc EXCEPT !["sasha"] = pc'["sasha"]]
      /\ pc["sasha"] \notin {"idle", "write"} /\ pc'["sasha"] \notin {"idle", "write"}
  BY <1>1, <1>3, <1>4
<1>6. /\ HasRenamed("sasha")' <=> HasRenamed("sasha")
      /\ HasBase("sasha") /\ ~HasMoved /\ ~HasMoved' /\ pc'["sasha"] \in Inside
      /\ root' \in [Savers -> Changes] /\ root' = root
      /\ detachMark' \in {"none", "live", "stale"}
  BY <1>1, <1>2, <1>3, <1>4 DEF HasBase, HasRenamed, HasMoved, Inside, Typed
<1>7. Tail_(delta[e]) = <<>>
  BY <1>1 DEF Kept, TailInv
<1>8. TypeOK' /\ MemoryInv' /\ EditionInv(e)' /\ StoreOf(e)' = StoreOf(e) /\ TailInv(e)'
  BY <1>1, <1>5, <1>6, <1>7, SashaFilesUntouched
<1>9. ContentInv(e)'
  BY <1>1, <1>3, <1>4, <1>6, <1>8 DEF Kept, ContentInv
<1> QED
  BY <1>8, <1>9 DEF Kept

LEMMA UnmarkStep ==
  ASSUME Ordinary, NEW e \in Editions, Kept(e), ExclusionInv', Unmark
  PROVE  Kept(e)'
<1> DEFINE to == IF pc["sasha"] = "detachUnmark" THEN "loadDelta" ELSE "clear"
<1>1. /\ pc["sasha"] \in {"detachUnmark", "deltaUnmark"} /\ pc' = [pc EXCEPT !["sasha"] = to]
      /\ detachMark' = "none"
      /\ UNCHANGED <<given, faults, up, tree, pending, batch, wpc, opened, base, root, session, info,
                     xml, bin, delta, detached, deltaMark, written>>
  BY DEF Unmark, At, daliVars, storeVars, deltaVars
<1>2. Typed /\ pc \in [Savers -> Steps]
  BY <1>1, SashaAt
<1>3. pc'["sasha"] = to
  BY <1>1, <1>2, Sizes
<1>4. \/ pc["sasha"] = "detachUnmark" /\ to = "loadDelta"
      \/ pc["sasha"] = "deltaUnmark" /\ to = "clear"
  BY <1>1
<1> HIDE DEF to
<1>5. /\ pc' = [pc EXCEPT !["sasha"] = pc'["sasha"]]
      /\ pc["sasha"] \notin {"idle", "write"} /\ pc'["sasha"] \notin {"idle", "write"}
  BY <1>1, <1>3, <1>4
<1>6. /\ HasRenamed("sasha")' <=> HasRenamed("sasha")
      /\ HasBase("sasha") /\ (HasMoved' <=> HasMoved) /\ pc'["sasha"] \notin Inside
      /\ root' \in [Savers -> Changes] /\ root' = root
      /\ detachMark' \in {"none", "live", "stale"}
  BY <1>1, <1>2, <1>3, <1>4 DEF HasBase, HasRenamed, HasMoved, Inside, Typed
<1>7. TypeOK' /\ MemoryInv' /\ EditionInv(e)' /\ StoreOf(e)' = StoreOf(e) /\ TailInv(e)'
  BY <1>1, <1>5, <1>6, SashaFilesUntouched
<1>8. ContentInv(e)'
  BY <1>1, <1>3, <1>4, <1>6, <1>7 DEF Kept, ContentInv
<1> QED
  BY <1>7, <1>8 DEF Kept

\* What was in the delta is in what has been detached.
LEMMA DetachStep ==
  ASSUME Ordinary, NEW e \in Editions, Kept(e), ExclusionInv', Detach
  PROVE  Kept(e)'
<1> DEFINE new == IF delta[e] = NoFile THEN detached[e] ELSE delta[e]
<1>1. info # {} /\ Edition = e /\ pc["sasha"] = "detach" /\ base["sasha"] = e
  BY EditionIs, SashaAt DEF Detach, At, Kept, HasBase
<1>2. /\ pc' = [pc EXCEPT !["sasha"] = "detachUnmark"]
      /\ delta' = [delta EXCEPT ![e] = NoFile] /\ detached' = [detached EXCEPT ![e] = new]
      /\ UNCHANGED <<given, faults, up, tree, pending, batch, wpc, opened, base, root, session, info,
                     xml, bin, deltaMark, detachMark, written>>
  BY <1>1 DEF Detach, At, daliVars, storeVars, markVars
<1>3. /\ Typed /\ pc \in [Savers -> Steps] /\ "sasha" \in given.savers
      /\ e < MaxEdition /\ StoreOf(e) \in Changes /\ Good(delta[e]) \in Changes
  BY <1>1, SashaAt DEF HasBase
<1>4. new \in DeltaFile \cup {NoFile} /\ Good(new) = Good(delta[e])
  <2>1. detached[e] = NoFile
    BY <1>1 DEF Kept, ContentInv
  <2>2. delta[e] \in DeltaFile \cup {NoFile} /\ detached[e] \in DeltaFile \cup {NoFile}
    BY <1>3 DEF Typed
  <2> QED
    BY <2>1, <2>2
<1> HIDE DEF new
<1>5. /\ pc'["sasha"] = "detachUnmark" /\ delta'[e] = NoFile /\ detached'[e] = new
      /\ \A f \in Editions : f # e => delta'[f] = delta[f] /\ detached'[f] = detached[f]
      /\ delta' \in [Editions -> DeltaFile \cup {NoFile}]
      /\ detached' \in [Editions -> DeltaFile \cup {NoFile}]
  BY <1>2, <1>3, <1>4, Sizes DEF Typed
<1>6. TypeOK'
  BY <1>2, <1>3, <1>5, TypedIs DEF Typed
<1>7. ~HasMoved /\ ~HasMoved' /\ ~HasRenamed("sasha") /\ ~HasRenamed("sasha")'
  BY <1>1, <1>5 DEF HasMoved, HasRenamed
<1>8. EditionInv(e)' /\ MemoryInv'
  <2>1. \A f \in Editions : f > e => detached'[f] = NoFile /\ delta'[f] = NoFile
    <3>1. \A f \in Editions : f > e => f # e
      BY Sizes
    <3> QED
      BY <1>5, <1>7, <3>1 DEF Kept, EditionInv
  <2>2. pc' = [pc EXCEPT !["sasha"] = pc'["sasha"]]
    BY <1>2, <1>5
  <2>3. base'["dali"] = base["dali"] /\ root'["dali"] = root["dali"] /\ base'["sasha"] = e
    BY <1>1, <1>2
  <2>4. UNCHANGED <<up, tree, pending, batch, wpc, written>> /\ UNCHANGED <<given, info, xml, bin>>
    BY <1>2
  <2> QED
    BY <1>1, <1>3, <1>5, <1>7, <2>1, <2>2, <2>3, <2>4, SashaEdition
<1>9. ContentInv(e)'
  <2>1. StoreOf(e)' = StoreOf(e)
    BY <1>2 DEF StoreOf
  <2>2. StoreOf(e) \o <<>> \o Good(delta[e]) = written
    <3>1. detached[e] = NoFile /\ StoreOf(e) \o Good(detached[e]) \o Good(delta[e]) = written
      BY <1>1, <1>7 DEF Kept, ContentInv
    <3> QED
      BY <3>1, FileTypes
  <2> DEFINE g == Good(delta[e])
             store == StoreOf(e)
  <2>3. g \in Changes /\ store \in Changes /\ store \o <<>> \o g = written
    BY <1>3, <2>2
  <2>4. Good(detached'[e]) = g /\ Good(delta'[e]) = <<>> /\ StoreOf(e)' = store
    BY <1>4, <1>5, <2>1, FileTypes
  <2>5. root["sasha"] = store
    BY <1>1 DEF Kept, ContentInv
  <2> HIDE DEF g, store
  <2>6. store \o g \o <<>> = written
    <3>1. \A a, b \in Changes : a \o <<>> \o b = a \o b /\ a \o b \o <<>> = a \o b
      BY Regroup, ConcatFacts
    <3> QED
      BY <2>3, <3>1
  <2> QED
    BY <1>2, <1>5, <1>7, <2>4, <2>5, <2>6 DEF ContentInv
<1>10. TailInv(e)'
  <2>1. wpc # "header"
    BY <1>1 DEF Kept, ExclusionInv, Handshake, Inside, Writing
  <2> QED
    BY <1>2, <1>5, <1>7, <2>1, FileTypes DEF TailInv
<1> QED
  BY <1>6, <1>8, <1>9, <1>10 DEF Kept


\* Sasha's tree is the store and what was detached; its tail goes.
LEMMA LoadDetachedStep ==
  ASSUME Ordinary, NEW e \in Editions, Kept(e), ExclusionInv', LoadDetached
  PROVE  Kept(e)'
<1> DEFINE new == Trimmed(detached[e])
           read == root["sasha"] \o Good(new)
<1>1. pc["sasha"] = "loadDelta" /\ base["sasha"] = e
  BY SashaAt DEF LoadDetached, At, HasBase
<1>2. /\ pc' = [pc EXCEPT !["sasha"] = "save"]
      /\ root' = [root EXCEPT !["sasha"] = read] /\ detached' = [detached EXCEPT ![e] = new]
      /\ UNCHANGED <<given, faults, up, tree, pending, batch, wpc, opened, base, session, info,
                     xml, bin, delta, deltaMark, detachMark, written>>
  BY <1>1 DEF LoadDetached, At, daliVars, storeVars, markVars
<1>3. /\ Typed /\ pc \in [Savers -> Steps] /\ "sasha" \in given.savers
      /\ e < MaxEdition /\ root["sasha"] \in Changes
  BY <1>1, SashaAt DEF HasBase
<1>4. new \in DeltaFile \cup {NoFile} /\ Good(new) = Good(detached[e]) /\ Good(new) \in Changes
  BY <1>3, FileTypes DEF Typed
<1>5. read \in Changes /\ read = StoreOf(e) \o Good(detached[e])
  <2>1. root["sasha"] = StoreOf(e)
    BY <1>1 DEF Kept, ContentInv
  <2> QED
    BY <1>3, <1>4, <2>1, ConcatFacts
<1> HIDE DEF new, read
<1>6. /\ pc'["sasha"] = "save" /\ detached'[e] = new
      /\ root' \in [Savers -> Changes] /\ root'["sasha"] = read /\ root'["dali"] = root["dali"]
      /\ \A f \in Editions : f # e => detached'[f] = detached[f]
      /\ detached' \in [Editions -> DeltaFile \cup {NoFile}]
  BY <1>2, <1>3, <1>4, <1>5, Sizes DEF Typed
<1>7. TypeOK'
  BY <1>2, <1>3, <1>6, TypedIs DEF Typed
<1>8. ~HasMoved /\ ~HasMoved' /\ ~HasRenamed("sasha") /\ ~HasRenamed("sasha")'
  BY <1>1, <1>6 DEF HasMoved, HasRenamed
<1>9. EditionInv(e)' /\ MemoryInv'
  <2>1. \A f \in Editions : f > e => detached'[f] = NoFile /\ delta'[f] = NoFile
    <3>1. \A f \in Editions : f > e => f # e
      BY Sizes
    <3> QED
      BY <1>2, <1>6, <1>8, <3>1 DEF Kept, EditionInv
  <2>2. pc' = [pc EXCEPT !["sasha"] = pc'["sasha"]]
    BY <1>2, <1>6
  <2>3. base'["dali"] = base["dali"] /\ base'["sasha"] = e
    BY <1>1, <1>2
  <2>4. UNCHANGED <<up, tree, pending, batch, wpc, written>> /\ UNCHANGED <<given, info, xml, bin>>
    BY <1>2
  <2> QED
    BY <1>1, <1>3, <1>6, <1>8, <2>1, <2>2, <2>3, <2>4, SashaEdition
<1>10. ContentInv(e)'
  <2>1. StoreOf(e)' = StoreOf(e)
    BY <1>2 DEF StoreOf
  <2>2. StoreOf(e) \o Good(detached[e]) \o Good(delta[e]) = written
    BY <1>8 DEF Kept, ContentInv
  <2>3. Good(detached'[e]) = Good(detached[e])
    BY <1>4, <1>6
  <2> QED
    BY <1>2, <1>5, <1>6, <1>8, <2>1, <2>2, <2>3 DEF ContentInv
<1>11. TailInv(e)'
  BY <1>2, <1>6, <1>8, TailUntouched DEF Kept, Inside
<1> QED
  BY <1>7, <1>9, <1>10, <1>11 DEF Kept

\* What has been written since the detaching goes to the new edition.
LEMMA RenameDeltaStep ==
  ASSUME Ordinary, NEW e \in Editions, Kept(e), ExclusionInv', RenameDelta
  PROVE  Kept(e)'
<1>1. pc["sasha"] = "renameDelta" /\ base["sasha"] = e
  BY SashaAt DEF RenameDelta, At, HasBase
<1>2. /\ pc' = [pc EXCEPT !["sasha"] = "deltaUnmark"] /\ delta' = Renamed(delta, e, e + 1)
      /\ UNCHANGED <<given, faults, up, tree, pending, batch, wpc, opened, base, root, session, info,
                     xml, bin, detached, deltaMark, detachMark, written>>
  BY <1>1 DEF RenameDelta, At, daliVars, storeVars, markVars
<1>3. /\ Typed /\ pc \in [Savers -> Steps] /\ "sasha" \in given.savers
      /\ e < MaxEdition /\ e + 1 \in Editions /\ e \in Nat
  BY <1>1, SashaAt, Sizes DEF HasBase
<1>4. ~HasMoved /\ pc'["sasha"] = "deltaUnmark"
  BY <1>1, <1>2, <1>3, Sizes DEF HasMoved
<1>5. HasMoved' /\ HasRenamed("sasha") /\ HasRenamed("sasha")'
  BY <1>1, <1>4 DEF HasMoved, HasRenamed
<1>6. e + 1 # e /\ e + 1 > e /\ \A f \in Editions : f > e => f # e
  BY <1>3, Sizes
<1>7. \A f \in Editions : f > e => detached[f] = NoFile /\ delta[f] = NoFile
  BY <1>4 DEF Kept, EditionInv
<1>8. /\ delta'[e] = NoFile /\ delta'[e + 1] = delta[e]
      /\ \A f \in Editions : f > e /\ f # e + 1 => delta'[f] = NoFile
      /\ delta' \in [Editions -> DeltaFile \cup {NoFile}]
  <2>1. delta \in [Editions -> DeltaFile \cup {NoFile}]
    BY <1>3 DEF Typed
  <2>2. CASE delta[e] = NoFile
    <3>1. delta' = delta
      BY <1>2, <2>2 DEF Renamed
    <3> QED
      BY <1>3, <1>6, <1>7, <2>1, <2>2, <3>1
  <2>3. CASE delta[e] # NoFile
    <3>1. delta' = [delta EXCEPT ![e + 1] = delta[e], ![e] = NoFile]
      BY <1>2, <2>3 DEF Renamed
    <3> QED
      BY <1>3, <1>6, <1>7, <2>1, <3>1
  <2> QED
    BY <2>2, <2>3
<1>9. TypeOK'
  BY <1>2, <1>3, <1>8, TypedIs DEF Typed
<1>10. EditionInv(e)' /\ MemoryInv'
  <2>1. \A f \in Editions : f > e =>
          detached'[f] = NoFile /\ (delta'[f] = NoFile \/ (HasMoved' /\ f = e + 1))
    BY <1>2, <1>5, <1>7, <1>8
  <2>2. pc' = [pc EXCEPT !["sasha"] = pc'["sasha"]]
    BY <1>2, <1>4
  <2>3. base'["dali"] = base["dali"] /\ base'["sasha"] = e
        /\ root'["dali"] = root["dali"] /\ root'["sasha"] = root["sasha"]
    BY <1>1, <1>2
  <2>4. UNCHANGED <<up, tree, pending, batch, wpc, written>> /\ UNCHANGED <<given, info, xml, bin>>
    BY <1>2
  <2> QED
    BY <1>1, <1>3, <1>4, <1>5, <2>1, <2>2, <2>3, <2>4, SashaEdition
<1>11. ContentInv(e)'
  <2>1. StoreOf(e) \o Good(detached[e]) \o Good(delta[e]) = written
        /\ root["sasha"] = StoreOf(e) \o Good(detached[e])
    BY <1>1, <1>4 DEF Kept, ContentInv
  <2>2. root'["sasha"] \o Good(delta'[e + 1]) = written'
    BY <1>2, <1>8, <2>1
  <2> QED
    BY <1>4, <1>5, <2>2 DEF ContentInv
<1>12. TailInv(e)'
  <2>1. wpc # "header"
    BY <1>1 DEF Kept, ExclusionInv, Handshake, Inside, Writing
  <2>2. Tail_(delta[e]) = <<>>
    BY <1>1 DEF Kept, TailInv
  <2> QED
    BY <1>2, <1>8, <2>1, <2>2, FileTypes DEF TailInv
<1> QED
  BY <1>9, <1>10, <1>11, <1>12 DEF Kept

-----------------------------------------------------------------------------
(* Crashes and starts                                                      *)

\* The server's saver is never past the point where store.<edition> has gone, and
\* a crash is not to be had together with a binary store that fails.
LEMMA CrashDaliStep ==
  ASSUME Ordinary, NEW e \in Editions, Kept(e), ExclusionInv', CrashDali
  PROVE  Kept(e)'
<1>1. /\ up' = FALSE /\ tree' = <<>> /\ pending' = <<>> /\ batch' = <<>> /\ wpc' = "idle"
      /\ faults < given.faults /\ faults' = faults + 1
      /\ pc' = [pc EXCEPT !["dali"] = "idle"] /\ (Torn("dali") => given.torn)
      /\ UNCHANGED <<given, session, opened, base, root, info, xml, bin, delta, detached, deltaMark,
                     detachMark, written>>
  BY DEF CrashDali, storeVars, deltaVars, markVars
<1>2. Typed /\ pc \in [Savers -> Steps]
  BY TypedIs DEF Kept, ExclusionInv
<1>3. pc'["dali"] = "idle" /\ pc'["sasha"] = pc["sasha"]
  BY <1>1, <1>2, Sizes
<1>4. ~given.binaryFails /\ pc["dali"] # "write" /\ faults' \in 0 .. given.faults
  <2>1. given.faults \in Nat /\ faults \in Nat /\ (given.binaryFails => given.faults = 0) /\ ~given.torn
    BY GivenIs DEF Kept
  <2> QED
    BY <1>1, <2>1 DEF Torn
<1>5. TypeOK'
  BY <1>1, <1>2, <1>4, TypedIs, ConcatFacts DEF Typed
<1>6. MemoryInv'
  BY <1>1, <1>3 DEF MemoryInv, DaliSaves
<1>7. /\ HasMoved' <=> HasMoved
      /\ HasBase("sasha")' <=> HasBase("sasha")
      /\ HasRenamed("sasha")' <=> HasRenamed("sasha")
      /\ ~HasBase("dali")' /\ ~HasRenamed("dali")'
  <2>1. (HasMoved' <=> HasMoved) /\ ~HasBase("dali")' /\ ~HasRenamed("dali")'
    BY <1>3 DEF HasMoved, HasBase, HasRenamed
  <2>2. (HasBase("sasha")' <=> HasBase("sasha")) /\ (HasRenamed("sasha")' <=> HasRenamed("sasha"))
    BY <1>3 DEF HasBase, HasRenamed
  <2> QED
    BY <2>1, <2>2
<1>8. \A f : StoreOf(f)' = StoreOf(f)
  BY <1>1 DEF StoreOf
<1>9. EditionInv(e)'
  <2>1. (\E s \in Savers : pc'[s] = "write") <=> (\E s \in Savers : pc[s] = "write")
    BY <1>3, <1>4, Sizes
  <2>2. ASSUME NEW s \in Savers
        PROVE  /\ pc'[s] # "idle" => s \in given'.savers
               /\ HasBase(s)' => base'[s] = e /\ e < MaxEdition
               /\ HasRenamed(s)' => StoreOf(e + 1)' = root'[s]
    <3>1. CASE s = "dali"
      BY <1>3, <1>7, <3>1
    <3>2. CASE s = "sasha"
      <4>1. /\ pc["sasha"] # "idle" => "sasha" \in given.savers
            /\ HasBase("sasha") => base["sasha"] = e /\ e < MaxEdition
            /\ HasRenamed("sasha") => StoreOf(e + 1) = root["sasha"]
        BY Sizes DEF Kept, EditionInv
      <4>2. UNCHANGED <<given, base, root>>
        BY <1>1
      <4> QED
        BY <1>3, <1>7, <1>8, <3>2, <4>1, <4>2
    <3> QED
      BY <3>1, <3>2, Sizes
  <2> QED
    BY <1>1, <1>4, <1>7, <2>1, <2>2 DEF Kept, EditionInv
<1>10. ContentInv(e)'
  BY <1>1, <1>3, <1>7, <1>8 DEF Kept, ContentInv
<1>11. TailInv(e)'
  BY <1>1, <1>3, <1>7 DEF Kept, TailInv
<1> QED
  BY <1>5, <1>6, <1>9, <1>10, <1>11 DEF Kept

\* Sasha's death leaves the delta with the edition in use.
LEMMA CrashSashaStep ==
  ASSUME Ordinary, NEW e \in Editions, Kept(e), ExclusionInv', CrashSasha
  PROVE  Kept(e)'
<1>1. /\ pc["sasha"] # "idle" /\ faults < given.faults /\ faults' = faults + 1
      /\ pc' = [pc EXCEPT !["sasha"] = "idle"] /\ (Torn("sasha") => given.torn)
      /\ detachMark' \in {"stale", detachMark}
      /\ UNCHANGED <<given, session, up, tree, pending, batch, wpc, opened, base, root, info, xml, bin,
                     delta, detached, deltaMark, written>>
  BY DEF CrashSasha, daliVars, storeVars, deltaVars
<1>2. Typed /\ pc \in [Savers -> Steps]
  BY TypedIs DEF Kept, ExclusionInv
<1>3. pc'["sasha"] = "idle"
  BY <1>1, <1>2, Sizes
<1>4. ~given.binaryFails /\ ~HasMoved /\ faults' \in 0 .. given.faults
  <2>1. given.faults \in Nat /\ faults \in Nat /\ (given.binaryFails => given.faults = 0) /\ ~given.torn
    BY GivenIs DEF Kept
  <2> QED
    BY <1>1, <2>1 DEF Torn, HasMoved
<1>5. TypeOK'
  BY <1>1, <1>2, <1>4, TypedIs DEF Typed
<1>6. ~HasMoved' /\ ~HasBase("sasha")' /\ ~HasRenamed("sasha")'
  BY <1>3 DEF HasMoved, HasBase, HasRenamed
<1>7. EditionInv(e)' /\ MemoryInv'
  <2>1. \A f \in Editions : f > e => detached'[f] = NoFile /\ delta'[f] = NoFile
    BY <1>1, <1>4 DEF Kept, EditionInv
  <2>2. pc["sasha"] # "write" /\ pc'["sasha"] # "write"
    BY <1>3, <1>4 DEF HasMoved
  <2>3. pc' = [pc EXCEPT !["sasha"] = pc'["sasha"]]
    BY <1>1, <1>3
  <2>4. UNCHANGED <<up, tree, pending, batch, wpc, written>> /\ UNCHANGED <<given, info, xml, bin>>
        /\ base'["dali"] = base["dali"] /\ root'["dali"] = root["dali"]
    BY <1>1
  <2> QED
    BY <1>3, <1>4, <1>6, <2>1, <2>2, <2>3, <2>4, SashaEdition
<1>8. ContentInv(e)'
  <2>1. StoreOf(e)' = StoreOf(e)
    BY <1>1 DEF StoreOf
  <2> QED
    BY <1>1, <1>3, <1>4, <1>6, <2>1 DEF Kept, ContentInv
<1>9. TailInv(e)'
  <2>1. UNCHANGED <<up, wpc, opened, batch, delta, deltaMark>>
    BY <1>1
  <2> QED
    BY <1>3, <1>6, <2>1, TailUntouched DEF Kept, Inside
<1> QED
  BY <1>5, <1>7, <1>8, <1>9 DEF Kept

\* A start reads what has been written, and sets aside what belongs to no edition.
LEMMA StartDaliStep ==
  ASSUME Ordinary, NEW e \in Editions, Kept(e), ExclusionInv', StartDali
  PROVE  Kept(e)' /\ tree' = written
<1>1. Typed /\ pc \in [Savers -> Steps]
  BY TypedIs DEF Kept, ExclusionInv
<1>2. ~up /\ \A s \in Savers : pc[s] = "idle"
  <2>1. ~up /\ pc["sasha"] = "idle" /\ pc["dali"] = "idle"
    BY GivenIs DEF StartDali, Kept, MemoryInv
  <2> QED
    BY <2>1, Sizes
<1>3. info = {e} /\ Checked(info) = {e} /\ (CHOOSE f \in Checked(info) : TRUE) = e
  <2>1. info # {}
    BY <1>2 DEF Kept, EditionInv
  <2> QED
    BY <2>1, EditionIs DEF Kept
<1> DEFINE trimmed == Trimmed(delta[e])
           cut == Trimmed(detached[e])
           aside == SetAside(delta, e)
<1>4. /\ deltaMark' = FALSE /\ session' = FALSE /\ detachMark' \in {"stale", detachMark}
      /\ info' = {e} /\ tree' = Loaded(e) /\ xml' = SetAside(xml, e) /\ up' = TRUE
      /\ delta' = [aside EXCEPT ![e] = Trimmed(aside[e])]
      /\ detached' = [detached EXCEPT ![e] = cut]
      /\ UNCHANGED <<given, faults, pending, batch, wpc, opened, pc, base, root, bin, written>>
  BY <1>3 DEF StartDali
<1>5. e \notin Spurious(e) /\ \A f \in Editions : f > e => f \in Spurious(e)
  <2>1. e - e = 0 /\ ~(0 >= 1) /\ ~(0 < -KeepStores)
    BY Sizes
  <2>2. \A f \in Editions : f > e => f - e >= 1
    BY Sizes
  <2> QED
    BY <2>1, <2>2 DEF Spurious
<1>6. /\ aside \in [Editions -> DeltaFile \cup {NoFile}] /\ aside[e] = delta[e]
      /\ \A f \in Editions : f > e => aside[f] = NoFile
      /\ SetAside(xml, e) \in [Editions -> Changes \cup {NoFile}] /\ SetAside(xml, e)[e] = xml[e]
  BY <1>1, <1>5 DEF SetAside, Typed
<1> HIDE DEF aside
<1>7. /\ trimmed \in DeltaFile \cup {NoFile} /\ Good(trimmed) = Good(delta[e]) /\ Tail_(trimmed) = <<>>
      /\ cut \in DeltaFile \cup {NoFile} /\ Good(cut) = Good(detached[e])
      /\ aside[e] = delta[e]
  BY <1>1, <1>6, FileTypes DEF Typed
<1>8. delta' = [aside EXCEPT ![e] = trimmed]
  BY <1>4, <1>7
<1>9. ~HasMoved
  BY <1>2, Sizes DEF HasMoved
<1>10. tree' = written
  <2>1. StoreOf(e) \o Good(detached[e]) \o Good(delta[e]) = written
    BY <1>9 DEF Kept, ContentInv
  <2> QED
    BY <1>4, <1>7, <2>1 DEF Loaded
<1> HIDE DEF trimmed, cut
<1>11. /\ delta'[e] = trimmed /\ detached'[e] = cut
       /\ delta' \in [Editions -> DeltaFile \cup {NoFile}]
       /\ detached' \in [Editions -> DeltaFile \cup {NoFile}]
       /\ \A f \in Editions : f > e => delta'[f] = NoFile /\ detached'[f] = NoFile
  <2>1. \A f \in Editions : f > e => f # e /\ detached[f] = NoFile
    BY Sizes DEF Kept, EditionInv
  <2> QED
    BY <1>1, <1>4, <1>6, <1>7, <1>8, <2>1 DEF Typed
<1>12. TypeOK'
  <2>1. UNCHANGED <<given, faults, pending, batch, wpc, opened, base, root, bin, written>>
        /\ info' = info /\ deltaMark' = FALSE /\ session' = FALSE /\ up' = TRUE
        /\ detachMark' \in {"stale", detachMark} /\ xml' \in [Editions -> Changes \cup {NoFile}]
    BY <1>3, <1>4, <1>6
  <2> QED
    BY <1>1, <1>10, <1>11, <2>1, TypedIs DEF Typed
<1>13. MemoryInv'
  <2>1. pending = <<>> /\ batch = <<>> /\ wpc = "idle"
    BY <1>2 DEF Kept, MemoryInv, ExclusionInv
  <2>2. written \in Changes
    BY <1>1 DEF Typed
  <2>3. written \o <<>> \o <<>> = written
    BY <2>2, ConcatFacts
  <2>4. ~DaliSaves'
    BY <1>2, <1>4, Sizes DEF DaliSaves
  <2> QED
    BY <1>4, <1>10, <2>1, <2>3, <2>4 DEF MemoryInv
<1>14. ~HasMoved' /\ \A s \in Savers : pc'[s] = "idle" /\ ~HasBase(s)' /\ ~HasRenamed(s)'
                                       /\ ~HasRenamed(s)
  BY <1>2, <1>4, Sizes DEF HasMoved, HasBase, HasRenamed
<1>15. EditionInv(e)'
  <2>1. given.binaryFails => \A f \in Editions : f > e => bin[f] = NoFile
    BY <1>14 DEF Kept, EditionInv
  <2>2. info' = {e} /\ UNCHANGED <<given, bin>>
    BY <1>4
  <2> QED
    BY <1>11, <1>14, <2>1, <2>2 DEF EditionInv
<1>16. ContentInv(e)'
  <2>1. StoreOf(e)' = StoreOf(e)
    BY <1>4, <1>6, StoreIs DEF Kept
  <2>2. StoreOf(e) \o Good(detached[e]) \o Good(delta[e]) = written /\ written' = written
    BY <1>4, <1>9 DEF Kept, ContentInv
  <2>3. pc'["sasha"] = "idle"
    BY <1>14, Sizes
  <2> QED
    BY <1>7, <1>11, <1>14, <2>1, <2>2, <2>3 DEF ContentInv, trimmed, cut
<1>17. TailInv(e)'
  <2>1. wpc' = "idle"
    BY <1>2, <1>4 DEF Kept, ExclusionInv
  <2> QED
    BY <1>7, <1>11, <1>14, <2>1 DEF TailInv
<1> QED
  BY <1>10, <1>12, <1>13, <1>15, <1>16, <1>17 DEF Kept


-----------------------------------------------------------------------------
(* The theorems                                                            *)

LEMMA SaveKeeps ==
  ASSUME Ordinary, NEW e \in Editions, Kept(e), ExclusionInv', NEW s \in Savers, Save(s)
  PROVE  \E f \in Editions : Kept(f)'
<1>1. CASE WriteInfo(s)
  <2>1. e + 1 \in Editions /\ Kept(e + 1)'
    BY <1>1, WriteInfoStep
  <2> QED
    BY <2>1
<1>2. CASE ~WriteInfo(s)
  <2>1. Kept(e)'
    BY <1>2, SaveToFileStep, CheckEditionStep, RenameStoreStep, ClearInfoStep DEF Save
  <2> QED
    BY <2>1
<1> QED
  BY <1>1, <1>2

LEMMA NextKeeps ==
  ASSUME Ordinary, NEW e \in Editions, Kept(e), ExclusionInv', Next
  PROVE  \E f \in Editions : Kept(f)'
<1>1. CASE Change \/ Writer \/ WriteFails
  <2>1. Kept(e)'
    BY <1>1, WriterKeeps
  <2> QED
    BY <2>1
<1>2. CASE BeginBlockingSave \/ Flushed \/ BeginStop \/ Stopped
  <2>1. Kept(e)'
    BY <1>2, BeginBlockingSaveStep, FlushedStep, BeginStopStep, StoppedStep
  <2> QED
    BY <2>1
<1>3. CASE Save("dali") \/ Save("sasha")
  BY <1>3, Sizes, SaveKeeps
<1>4. CASE BeginCoalesce \/ LoadBase \/ CheckBase \/ Mark \/ WaitForWriter \/ Detach \/ Unmark
           \/ LoadDetached \/ RenameDelta
  <2>1. Kept(e)'
    BY <1>4, BeginCoalesceStep, LoadBaseStep, CheckBaseStep, MarkStep, WaitForWriterStep, DetachStep,
       UnmarkStep, LoadDetachedStep, RenameDeltaStep
  <2> QED
    BY <2>1
<1>5. CASE CrashDali \/ CrashSasha \/ StartDali
  <2>1. Kept(e)'
    BY <1>5, CrashDaliStep, CrashSashaStep, StartDaliStep
  <2> QED
    BY <2>1
<1> QED
  BY <1>1, <1>2, <1>3, <1>4, <1>5 DEF Next, Coalesce

\* At first there is edition 0 and nothing in it.
LEMMA InitKeeps == Init => Kept(0)
<1> SUFFICES ASSUME Init PROVE Kept(0)
  OBVIOUS
<1>1. ExclusionInv
  BY ExclusionInit
<1>2. 0 \in Editions /\ <<>> \in Changes /\ <<>> \o <<>> = <<>>
  BY Sizes, ConcatFacts
<1>3. TypeOK
  <2>1. Cardinality({0}) = 1
    BY FS_Singleton
  <2>2. Cardinality(info) <= 1 /\ info \subseteq Editions
    BY <1>2, <2>1 DEF Init
  <2>3. faults \in 0 .. given.faults
    BY StoreAssumption DEF Init
  <2> QED
    BY <1>2, <2>2, <2>3, TypedIs DEF Init, Typed
<1>4. \A s \in Savers : pc[s] = "idle"
  BY DEF Init
<1>5. ~DaliSaves /\ ~HasMoved /\ \A s \in Savers : ~HasBase(s) /\ ~HasRenamed(s)
  BY <1>4, Sizes DEF DaliSaves, HasMoved, HasBase, HasRenamed
<1>6. MemoryInv
  BY <1>2, <1>5 DEF Init, MemoryInv
<1>7. EditionInv(0)
  BY <1>4, <1>5 DEF Init, EditionInv
<1>8. /\ StoreOf(0) = <<>> /\ delta[0] = NoFile /\ detached[0] = NoFile
  BY <1>2 DEF Init, StoreOf
<1>9. ContentInv(0)
  <2>1. pc["sasha"] = "idle" /\ written = <<>>
    BY <1>4, Sizes DEF Init
  <2>2. Good(delta[0]) = <<>> /\ Good(detached[0]) = <<>>
    BY <1>8, FileTypes
  <2>3. StoreOf(0) \o Good(detached[0]) \o Good(delta[0]) = written
    BY <1>2, <1>8, <2>1, <2>2
  <2> QED
    BY <1>5, <2>1, <2>3 DEF ContentInv
<1>10. TailInv(0)
  <2>1. Tail_(delta[0]) = <<>> /\ wpc = "idle"
    BY <1>8, FileTypes DEF Init
  <2> QED
    BY <1>5, <2>1 DEF TailInv
<1> QED
  BY <1>1, <1>3, <1>6, <1>7, <1>9, <1>10 DEF Kept

KeptInv == \E e \in Editions : Kept(e)

LEMMA KeptInvariant == ASSUME Ordinary PROVE Spec => []KeptInv
<1>1. \A c \in Circumstances : ~c.torn
  BY DEF Ordinary
<1>2. Init => KeptInv
  BY InitKeeps, Sizes DEF KeptInv
<1>3. KeptInv /\ ExclusionInv' /\ [Next]_vars => KeptInv'
  <2> SUFFICES ASSUME KeptInv, ExclusionInv', [Next]_vars PROVE KeptInv'
    OBVIOUS
  <2>1. PICK e \in Editions : Kept(e)
    BY DEF KeptInv
  <2>2. CASE Next
    BY <2>1, <2>2, NextKeeps DEF KeptInv
  <2>3. CASE UNCHANGED vars
    <3>1. UNCHANGED <<given, faults, up, tree, pending, batch, wpc, opened, pc, base, root, session,
                      info, xml, bin, delta, detached, deltaMark, detachMark, written>>
      BY <2>3 DEF vars, daliVars, saverVars, storeVars, deltaVars, markVars
    <3>2. TypeOK'
      BY <2>1, <3>1, TypedIs DEF Kept, Typed
    <3>3. MemoryInv'
      BY <2>1, <3>1 DEF Kept, MemoryInv, DaliSaves
    <3>4. EditionInv(e)' /\ ContentInv(e)'
      BY <2>1, <3>1, FilesUntouched DEF Kept
    <3>5. TailInv(e)'
      BY <2>1, <3>1 DEF Kept, TailInv, HasMoved
    <3>6. Kept(e)'
      BY <3>2, <3>3, <3>4, <3>5 DEF Kept
    <3> QED
      BY <3>6 DEF KeptInv
  <2> QED
    BY <2>2, <2>3
<1>4. Spec => []ExclusionInv
  BY <1>1, MarkersHold
<1> QED
  BY <1>2, <1>3, <1>4, PTL DEF Spec

\* Every variable keeps its type: at most one store.<edition> exists
\* (clearStoreInfo before writeStoreInfo, dasds.cpp:5948), a delta is good changes
\* and a tail, and what is loaded is made of changes.  Proved in Ordinary
\* circumstances, as the facts below, on which the contents of files rest.
THEOREM TypeCorrect == ASSUME Ordinary PROVE Spec => []TypeOK
<1>1. KeptInv => TypeOK
  BY DEF KeptInv, Kept
<1> QED
  BY <1>1, KeptInvariant, PTL

\* In Ordinary circumstances a start would bring back all that has been written,
\* once each and in order, with Dali in the middle of saveStore (dasds.cpp:5948)
\* or of its stop, or Sasha of taking the delta (dasds.cpp:5787) or of saveStore,
\* in turn, and after any number of crashes and failed writes.  Not covered, as
\* the code does lose changes there: a crash or a write between the renaming of
\* the delta and that of store.<edition> (Torn), Dali and Sasha saving at once, a
\* start while Sasha is at work, and a crash and a failed binary save in one
\* behaviour.
THEOREM WritesAreDurable == ASSUME Ordinary PROVE Spec => []Durable
<1>1. KeptInv => Durable
  <2> SUFFICES ASSUME KeptInv, \A s \in Savers : ~Torn(s), NEW f \in info
               PROVE  Loaded(f) = written
    BY DEF Durable
  <2>1. PICK e \in Editions : Kept(e)
    BY DEF KeptInv
  <2>2. f = e
    BY <2>1 DEF Kept, EditionInv
  <2>3. ~HasMoved
    BY Sizes DEF HasMoved, Torn
  <2>4. StoreOf(e) \o Good(detached[e]) \o Good(delta[e]) = written
    BY <2>1, <2>3 DEF Kept, ContentInv
  <2>5. delta[e] \in DeltaFile \cup {NoFile} /\ detached[e] \in DeltaFile \cup {NoFile}
    BY <2>1, TypedIs DEF Kept, Typed
  <2> QED
    BY <2>2, <2>4, <2>5, FileTypes DEF Loaded
<1> QED
  BY <1>1, KeptInvariant, PTL

\* The writer commits what is next in the tree; Dali's saver what is in it.
LEMMA WriteIsPromised ==
  ASSUME Ordinary, NEW e \in Editions, Kept(e), Next, written' # written, ExclusionInv'
  PROVE  up /\ up' /\ tree' = tree /\ Promise!Write
<1>1. Typed
  BY TypedIs DEF Kept
<1>2. WriteHeader \/ WriteInfo("dali")
  <2>1. \A s \in Savers : Save(s) => WriteInfo(s)
    BY DEF Save, SaveToFile, CheckEdition, RenameStore, ClearInfo, UnchangedButSaver
  <2>2. ~WriteInfo("sasha")
    BY DEF WriteInfo
  <2> QED
    BY <2>1, <2>2, Sizes DEF Next, Writer, Coalesce, Change, BeginBatch, CheckDetach, WriteData, EndBatch,
      WriteFails, BeginBlockingSave, Flushed, BeginStop, Stopped, BeginCoalesce, LoadBase, CheckBase, Mark,
      WaitForWriter, Detach, Unmark, LoadDetached, RenameDelta, CrashDali, CrashSasha, StartDali,
      UnchangedButSaver
<1>3. /\ up /\ up' = up /\ tree' = tree /\ IsPrefix(written, written') /\ IsPrefix(written', tree)
      /\ written' \in Changes
  <2>1. CASE WriteHeader
    <3>1. /\ up /\ up' = up /\ tree' = tree /\ wpc = "header" /\ written' = written \o batch
      BY <2>1 DEF WriteHeader
    <3>2. tree = written \o batch \o pending
      BY <3>1 DEF Kept, MemoryInv
    <3>3. \A a, b \in Changes : IsPrefix(a, a \o b) /\ a \o b \in Changes
      BY PrefixFacts, ConcatFacts
    <3>4. written \in Changes /\ batch \in Changes /\ pending \in Changes
      BY <1>1 DEF Typed
    <3>5. written' \in Changes /\ IsPrefix(written, written')
      BY <3>1, <3>3, <3>4
    <3>6. IsPrefix(written', tree)
      <4> DEFINE w == written \o batch
      <4>1. w \in Changes /\ written' = w /\ tree = w \o pending
        BY <3>1, <3>2, <3>5
      <4> HIDE DEF w
      <4> QED
        BY <3>3, <3>4, <4>1
    <3> QED
      BY <3>1, <3>5, <3>6
  <2>2. CASE WriteInfo("dali")
    <3>1. pc["dali"] = "write" /\ written' = root["dali"] /\ up' = up /\ tree' = tree
      BY <2>2 DEF WriteInfo, At, daliVars
    <3>2. up /\ root["dali"] = tree /\ pending = <<>> /\ wpc \in {"idle", "stopped"}
      BY <3>1 DEF Kept, MemoryInv, DaliSaves
    <3>3. tree \in Changes /\ written \in Changes /\ pending \in Changes /\ batch \in Changes
      BY <1>1 DEF Typed
    <3>4. IsPrefix(written, tree)
      <4>1. CASE wpc = "stopped"
        BY <4>1 DEF Kept, MemoryInv
      <4>2. CASE wpc = "idle"
        <5>1. batch = <<>> /\ tree = written \o batch \o pending
          BY <3>2, <4>2 DEF Kept, MemoryInv
        <5>2. written \o <<>> \o <<>> = written
          BY <3>3, ConcatFacts
        <5> QED
          BY <3>2, <3>3, <5>1, <5>2, PrefixFacts
      <4> QED
        BY <3>2, <4>1, <4>2
    <3> QED
      BY <3>1, <3>2, <3>3, <3>4, PrefixFacts
  <2> QED
    BY <1>2, <2>1, <2>2
<1>4. Len(written') > Len(written)
  <2>1. written \in Changes
    BY <1>1 DEF Typed
  <2>2. Len(written) <= Len(written') /\ (Len(written) = Len(written') => written = written')
    BY <1>3, <2>1, PrefixFacts
  <2>3. Len(written) \in Nat /\ Len(written') \in Nat
    BY <1>3, <2>1, ConcatFacts
  <2> QED
    BY <2>2, <2>3
<1>5. tree # NoFile
  BY <1>1, Sizes DEF Typed
<1> QED
  BY <1>3, <1>4, <1>5 DEF Promise!Write, IsPrefix, Promise!IsPrefix

\* A step that commits nothing changes the tree as DurableTree does.
LEMMA TreeIsPromised ==
  ASSUME Ordinary, NEW e \in Editions, Kept(e), ExclusionInv', Next, written' = written
  PROVE  \/ Promise!Change \/ Promise!Stop \/ Promise!Restart
         \/ UNCHANGED <<IF up THEN tree ELSE NoFile, written>>
<1>1. Typed
  BY TypedIs DEF Kept
<1>2. tree \in Changes /\ tree # NoFile
  BY <1>1, Sizes DEF Typed
<1>3. CASE Change
  <2>1. up /\ up' = up /\ tree' = Append(tree, Len(tree) + 1) /\ wpc # "stopped"
        /\ Len(written \o batch \o pending) < MaxChanges
    BY <1>3 DEF Change
  <2>2. Len(tree) + 1 \in 1 .. MaxChanges
    <3>1. tree = written \o batch \o pending
      BY <2>1 DEF Kept, MemoryInv
    <3> QED
      BY <1>2, <2>1, <3>1, ConcatFacts, Sizes
  <2>3. Append(tree, Len(tree) + 1) \in Changes /\ Len(Append(tree, Len(tree) + 1)) = Len(tree) + 1
        /\ IsPrefix(tree, Append(tree, Len(tree) + 1))
    BY <1>2, <2>2, OneMore
  <2>4. tree' \in Changes /\ Len(tree') = Len(tree) + 1 /\ IsPrefix(tree, tree') /\ tree' # NoFile
    BY <2>1, <2>3, Sizes
  <2>5. Promise!Change
    BY <1>2, <2>1, <2>4 DEF Promise!Change, IsPrefix, Promise!IsPrefix
  <2> QED
    BY <2>5
<1>4. CASE Stopped \/ CrashDali
  <2>1. up /\ up' = FALSE
    BY <1>4 DEF Stopped, CrashDali
  <2>2. Promise!Stop
    BY <1>2, <2>1 DEF Promise!Stop
  <2> QED
    BY <2>2
<1>5. CASE StartDali
  <2>1. ~up /\ up' = TRUE
    BY <1>5 DEF StartDali
  <2>2. tree' = written
    BY <1>5, StartDaliStep
  <2>3. Promise!Restart
    BY <2>1, <2>2 DEF Promise!Restart
  <2> QED
    BY <2>3
<1>6. CASE ~(Change \/ Stopped \/ CrashDali \/ StartDali)
  <2>1. up' = up /\ tree' = tree
    <3>1. \A s \in Savers : Save(s) => up' = up /\ tree' = tree
      BY DEF Save, SaveToFile, CheckEdition, RenameStore, ClearInfo, WriteInfo, UnchangedButSaver, daliVars
    <3> QED
      BY <1>6, <3>1, Sizes DEF Next, Writer, Coalesce, BeginBatch, CheckDetach, WriteData, WriteHeader,
        EndBatch, WriteFails, BeginBlockingSave, Flushed, BeginStop, BeginCoalesce, LoadBase, CheckBase,
        Mark, WaitForWriter, Detach, Unmark, LoadDetached, RenameDelta, CrashSasha, UnchangedButSaver,
        daliVars
  <2> QED
    BY <2>1
<1> QED
  BY <1>3, <1>4, <1>5, <1>6

\* The files implement the tree that is lost when the server stops and comes back
\* as every change that had been written: each step of the writer, of a saver and
\* of a crash or start (dasds.cpp:6524) is one of DurableTree or none.  The same
\* circumstances as for WritesAreDurable are left out.
THEOREM TreeSurvives == ASSUME Ordinary PROVE Spec => Survives
<1>1. Init => Promise!Init
  BY DEF Init, Promise!Init
<1>2. KeptInv /\ ExclusionInv' /\ [Next]_vars =>
        [Promise!Next]_<<IF up THEN tree ELSE NoFile, written>>
  <2> SUFFICES ASSUME KeptInv, ExclusionInv', [Next]_vars
               PROVE  [Promise!Next]_<<IF up THEN tree ELSE NoFile, written>>
    OBVIOUS
  <2>1. PICK e \in Editions : Kept(e)
    BY DEF KeptInv
  <2>2. CASE Next /\ written' = written
    BY <2>1, <2>2, TreeIsPromised DEF Promise!Next
  <2>3. CASE Next /\ written' # written
    BY <2>1, <2>3, WriteIsPromised DEF Promise!Next
  <2>4. CASE UNCHANGED vars
    BY <2>4 DEF vars, daliVars
  <2> QED
    BY <2>2, <2>3, <2>4
<1>0. \A c \in Circumstances : ~c.torn
  BY DEF Ordinary
<1>3. Spec => []KeptInv /\ []ExclusionInv
  BY <1>0, KeptInvariant, MarkersHold, PTL
<1> QED
  BY <1>1, <1>2, <1>3, PTL DEF Spec, Survives, Promise!Spec
=============================================================================
