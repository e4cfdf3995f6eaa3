------------------------------ MODULE SdsStore ------------------------------
(***************************************************************************)
(* The files in which Dali keeps its tree (dali/base/dasds.cpp), and those *)
(* who work on them: the delta writer of the Dali server, which appends    *)
(* the changes to the delta; and the savers, Dali's own coalescer and      *)
(* Sasha's (dali/sasha/sacoalescer.cpp), which fold store and delta into   *)
(* the store of the next edition.  store.<edition> names the edition in    *)
(* use.  The writer and Sasha keep off each other's files with the markers *)
(* delta.progress and detach.progress.                                     *)
(*                                                                         *)
(* The tree, a store and a delta are the sequence of the changes they      *)
(* hold.  Externals, the backup location and sessions are left out.        *)
(***************************************************************************)
EXTENDS Integers, FiniteSets, Sequences, SequencesExt

CONSTANTS
  KeepStores,      \* old editions that are kept
  Circumstances,   \* what may go on: [savers, both, faults, binaryFails, torn]
  MaxChanges,      \* bound of the model: changes made
  MaxEdition,      \* bound of the model: editions saved
  NoFile           \* no such file

Editions == 0 .. MaxEdition

\* A tree or a store; a delta holds what its header says is committed, then maybe
\* a tail that was being written when the server stopped.
Changes == Seq(1 .. MaxChanges)
DeltaFile == [good : Changes, tail : Changes]

ASSUME StoreAssumption ==
  /\ KeepStores \in Nat \ {0} /\ MaxChanges \in Nat /\ MaxEdition \in Nat
  /\ NoFile \notin Changes \cup DeltaFile
  /\ \A c \in Circumstances : c.faults \in Nat /\ c.savers \subseteq {"dali", "sasha"}

Savers == {"dali", "sasha"}

\* Who saves, and whether both may at once; how many crashes and failed writes;
\* whether a binary store may fail to be saved; whether crashes and writes may
\* come where Torn says, and the server start while Sasha is at work.
Circumstance(savers, both, faults, binaryFails, torn) ==
  [savers |-> savers, both |-> both, faults |-> faults, binaryFails |-> binaryFails,
   torn |-> torn]

VARIABLES
  given,           \* the circumstances of this behaviour
  faults,          \* crashes and failed writes so far
  up,              \* the Dali server runs
  tree,            \* the tree in memory
  pending,         \* CDeltaWriter::pending
  batch,           \* the writer's todo
  wpc,             \* the writer: "idle", "check", "blocked", "data", "header",
                   \*   "remove", "stopped"
  opened,          \* the edition of the delta the writer has open
  pc,              \* what each saver is about to do
  base,            \* saveStore's edition; for Sasha before that, baseEdition
  root,            \* the tree a saver saves
  info,            \* the editions E for which a file store.E exists
  xml,             \* dalisds<E>.xml
  bin,             \* dalisds<E>.bin
  delta,           \* daliinc<E>.xml
  detached,        \* dalidet<E>.xml
  deltaMark,       \* delta.progress exists
  detachMark,      \* detach.progress: "none", "live", or "stale" if the server does
                   \*   not know the session in it
  session,         \* the server knows Sasha's session
  written          \* the changes committed to a delta or a store of Dali's (history)

daliVars == <<up, tree, pending, batch, wpc, opened>>
saverVars == <<pc, base, root, session>>
storeVars == <<info, xml, bin>>
deltaVars == <<delta, detached>>
markVars == <<deltaMark, detachMark>>
vars == <<given, faults, daliVars, saverVars, storeVars, deltaVars, markVars, written>>

-----------------------------------------------------------------------------
(* Files *)

NewDelta == [good |-> <<>>, tail |-> <<>>]
Tail_(f) == IF f = NoFile THEN <<>> ELSE f.tail
Good(f) == IF f = NoFile THEN <<>> ELSE f.good

\* Seeded fault: the size in the header is not looked at.
Trimmed_Not(f) == IF f = NoFile THEN f ELSE [good |-> f.good \o f.tail, tail |-> <<>>]

\* loadDelta: the tail is cut off before the delta is read.
Trimmed(f) == IF f = NoFile THEN f ELSE [f EXCEPT !.tail = <<>>]
\* refreshInfo waits for a store.<edition>, checkInfo makes one if it finds none.
Edition == CHOOSE e \in info : TRUE
Checked(i) == IF i = {} THEN {0} ELSE i

\* loadStore: the binary store first; no store at all makes a new tree.
StoreOf(e) ==
  CASE bin[e] # NoFile -> bin[e]
    [] bin[e] = NoFile /\ xml[e] # NoFile -> xml[e]
    [] OTHER -> <<>>

\* loadDeltas: what was detached, then the delta.
Loaded(e) == StoreOf(e) \o Good(Trimmed(detached[e])) \o Good(Trimmed(delta[e]))

\* CStoreHelper: editions whose .xml files start-up sets aside as unused.
Spurious(e) == {f \in Editions : f - e >= 1 \/ f - e < -KeepStores}
SetAside(files, e) == [f \in Editions |-> IF f \in Spurious(e) THEN NoFile ELSE files[f]]

Renamed(files, from, to) ==
  IF files[from] = NoFile THEN files
  ELSE [files EXCEPT ![to] = files[from], ![from] = NoFile]

Init ==
  /\ given \in Circumstances /\ faults = 0
  /\ up = TRUE /\ tree = <<>> /\ pending = <<>> /\ batch = <<>> /\ wpc = "idle" /\ opened = 0
  /\ pc = [s \in Savers |-> "idle"] /\ base = [s \in Savers |-> 0]
  /\ root = [s \in Savers |-> <<>>]
  /\ info = {0} /\ xml = [e \in Editions |-> NoFile] /\ bin = xml
  /\ delta = [e \in Editions |-> NoFile] /\ detached = delta
  /\ deltaMark = FALSE /\ detachMark = "none" /\ session = FALSE /\ written = <<>>

-----------------------------------------------------------------------------
(* The server: changes, and the thread of the delta writer *)

\* Who holds blockedSaveCrit: the writer in save(), or a saver of Dali's.
DaliSaves == pc["dali"] \in {"save", "saved", "rename", "clear", "write"}

\* A transaction: made in memory and queued.  A save holds dataRWLock.
Change ==
  /\ up /\ wpc # "stopped" /\ pc["dali"] = "idle" /\ Len(written \o batch \o pending) < MaxChanges
  /\ LET c == Len(tree) + 1 IN tree' = Append(tree, c) /\ pending' = Append(pending, c)
  /\ UNCHANGED <<given, faults, up, batch, wpc, opened, saverVars, storeVars,
                 deltaVars, markVars, written>>

\* Seeded fault: detach.progress is looked at before delta.progress is made.
BeginBatch_Marked ==
  /\ up /\ wpc \in {"idle", "blocked"} /\ ~DaliSaves /\ detachMark # "live"
  /\ IF wpc = "idle"
     THEN pending # <<>> /\ batch' = pending /\ pending' = <<>>
     ELSE UNCHANGED <<batch, pending>>
  /\ wpc' = "data"
  /\ UNCHANGED <<given, faults, up, tree, opened, saverVars, storeVars, deltaVars,
                 markVars, written>>

\* threadmain takes what is pending, once; save() touches delta.progress.
BeginBatch ==
  /\ up /\ wpc \in {"idle", "blocked"} /\ ~DaliSaves
  /\ IF wpc = "idle"
     THEN pending # <<>> /\ batch' = pending /\ pending' = <<>>
     ELSE UNCHANGED <<batch, pending>>
  /\ deltaMark' = TRUE /\ wpc' = "check"
  /\ UNCHANGED <<given, faults, up, tree, opened, saverVars, storeVars, deltaVars,
                 detachMark, written>>

\* Seeded fault: whether the session of the marker lives is not asked.
CheckDetach_Trusting ==
  /\ up /\ wpc = "check"
  /\ IF detachMark # "none"
     THEN wpc' = "blocked" /\ deltaMark' = FALSE /\ UNCHANGED detachMark
     ELSE wpc' = "data" /\ UNCHANGED markVars
  /\ UNCHANGED <<given, faults, up, tree, pending, batch, opened, saverVars, storeVars,
                 deltaVars, written>>

\* Someone is about to take the delta: come back later, unless it has died.
CheckDetach ==
  /\ up /\ wpc = "check"
  /\ IF detachMark = "live"
     THEN wpc' = "blocked" /\ deltaMark' = FALSE /\ UNCHANGED detachMark
     ELSE wpc' = "data" /\ detachMark' = "none" /\ UNCHANGED deltaMark
  /\ UNCHANGED <<given, faults, up, tree, pending, batch, opened, saverVars, storeVars,
                 deltaVars, written>>

\* writeDelta: the changes go to the end of the file, whatever is there.
WriteData ==
  /\ up /\ wpc = "data" /\ info # {} /\ (pc["sasha"] = "clear" => given.torn)
  /\ opened' = Edition /\ wpc' = "header"
  /\ LET f == IF delta[Edition] = NoFile THEN NewDelta ELSE delta[Edition] IN
     delta' = [delta EXCEPT ![Edition] = [f EXCEPT !.tail = @ \o batch]]
  /\ UNCHANGED <<given, faults, up, tree, pending, batch, saverVars, storeVars,
                 detached, markVars, written>>

\* The header is written last: its size commits them.
WriteHeader ==
  /\ up /\ wpc = "header"
  /\ delta' = [delta EXCEPT ![opened] =
                 [good |-> Good(@) \o Tail_(@), tail |-> <<>>]]
  /\ written' = written \o batch /\ batch' = <<>> /\ wpc' = "remove"
  /\ UNCHANGED <<given, faults, up, tree, pending, opened, saverVars, storeVars,
                 detached, markVars>>

\* A write failed: writeDelta resets the size of the file and writes again.
WriteFails ==
  /\ up /\ wpc = "header" /\ faults < given.faults
  /\ faults' = faults + 1 /\ wpc' = "data"
  /\ delta' = [delta EXCEPT ![opened].tail = SubSeq(@, 1, Len(@) - Len(batch))]
  /\ UNCHANGED <<given, up, tree, pending, batch, opened, saverVars, storeVars,
                 detached, markVars, written>>

\* RemoveDIPBlock: delta.progress goes as save() returns.
EndBatch ==
  /\ up /\ wpc = "remove"
  /\ deltaMark' = FALSE /\ wpc' = "idle"
  /\ UNCHANGED <<given, faults, up, tree, pending, batch, opened, saverVars, storeVars,
                 deltaVars, detachMark, written>>

-----------------------------------------------------------------------------
(* saveStore, by either saver *)

At(s, from, to) == pc[s] = from /\ pc' = [pc EXCEPT ![s] = to]
UnchangedButSaver == UNCHANGED <<given, session, faults, daliVars, storeVars,
                                 deltaVars, markVars, written>>

\* The other saver is not at work.
Alone(s) == \A t \in Savers \ {s} : pc[t] # "idle" => given.both

\* blockingSave: with dataRWLock held the writer is asked to write all it has.
BeginBlockingSave ==
  /\ up /\ "dali" \in given.savers /\ Alone("dali")
  /\ wpc # "stopped" /\ At("dali", "idle", "flush")
  /\ \E e \in info : e < MaxEdition /\ tree # StoreOf(e)
  /\ UNCHANGED <<base, root>> /\ UnchangedButSaver

Flushed ==
  /\ up /\ At("dali", "flush", "save") /\ pending = <<>> /\ wpc = "idle"
  /\ root' = [root EXCEPT !["dali"] = tree]
  /\ UNCHANGED base /\ UnchangedButSaver

\* An orderly stop: what the writer has not begun is left to the store.
BeginStop ==
  /\ up /\ "dali" \in given.savers /\ Alone("dali")
  /\ wpc = "idle" /\ At("dali", "idle", "save")
  /\ \E e \in info : e < MaxEdition
  /\ wpc' = "stopped" /\ pending' = <<>>
  /\ root' = [root EXCEPT !["dali"] = tree]
  /\ UNCHANGED <<given, session, faults, up, tree, batch, opened, base, storeVars,
                 deltaVars, markVars, written>>

\* The edition is read, then the tree goes to temporary files, which takes time.
SaveToFile(s) ==
  /\ At(s, "save", "saved") /\ info # {} /\ Edition < MaxEdition
  /\ base' = [base EXCEPT ![s] = Edition]
  /\ UNCHANGED root /\ UnchangedButSaver

\* Has the other saver been here meanwhile?
CheckEdition(s) ==
  /\ pc[s] = "saved" /\ info # {}
  /\ pc' = [pc EXCEPT ![s] = IF Edition = base[s] THEN "rename" ELSE "idle"]
  /\ UNCHANGED <<base, root>> /\ UnchangedButSaver

\* The temporary files become the store of the new edition.  Without a binary
\* one, an old file of that name stays.
RenameStore(s) ==
  /\ At(s, "rename", IF s = "sasha" THEN "deltaMark" ELSE "clear")
  /\ xml' = [xml EXCEPT ![base[s] + 1] = root[s]]
  /\ \E saved \in {TRUE} \cup (IF given.binaryFails THEN {FALSE} ELSE {}) :
       bin' = IF saved THEN [bin EXCEPT ![base[s] + 1] = root[s]] ELSE bin
  /\ UNCHANGED <<given, session, faults, daliVars, base, root, info, deltaVars,
                 markVars, written>>

\* Seeded fault: store.<edition> of the edition before is left.
ClearInfo_Not(s) ==
  /\ At(s, "clear", "write") /\ info' = info
  /\ UNCHANGED <<given, session, faults, daliVars, base, root, xml, bin, deltaVars,
                 markVars, written>>

\* clearStoreInfo: no store.<edition> is there for a while.
ClearInfo(s) ==
  /\ At(s, "clear", "write") /\ info' = {}
  /\ UNCHANGED <<given, session, faults, daliVars, base, root, xml, bin, deltaVars,
                 markVars, written>>

\* writeStoreInfo, and the files of an edition that has had its time.
WriteInfo(s) ==
  /\ At(s, "write", "idle") /\ info' = info \cup {base[s] + 1}
  /\ LET Kept(files) == [e \in Editions |-> IF e = base[s] - KeepStores THEN NoFile ELSE files[e]]
     IN xml' = Kept(xml) /\ bin' = Kept(bin) /\ delta' = Kept(delta) /\ detached' = Kept(detached)
  /\ written' = IF s = "dali" THEN root[s] ELSE written
  /\ UNCHANGED <<given, session, faults, daliVars, base, root, markVars>>

Stopped ==
  /\ up /\ wpc = "stopped" /\ pc["dali"] = "idle"
  /\ up' = FALSE /\ tree' = <<>> /\ wpc' = "idle"
  /\ UNCHANGED <<given, faults, pending, batch, opened, saverVars, storeVars,
                 deltaVars, markVars, written>>

-----------------------------------------------------------------------------
(* Sasha's coalescer *)

\* The program connects to the server (saserver.cpp:435); coalesce makes a
\* store helper (checkInfo) and reads the edition; there must be a delta.
BeginCoalesce ==
  /\ up /\ "sasha" \in given.savers /\ Alone("sasha") /\ At("sasha", "idle", "load")
  /\ session' = TRUE
  /\ info' = Checked(info)
  /\ LET e == CHOOSE f \in Checked(info) : TRUE IN
     /\ e < MaxEdition
     /\ detached[e] # NoFile \/ delta[e] # NoFile
     /\ base' = [base EXCEPT !["sasha"] = e]
  /\ UNCHANGED <<given, faults, daliVars, root, xml, bin, deltaVars, markVars,
                 written>>

LoadBase ==
  /\ At("sasha", "load", "loaded") /\ info # {}
  /\ root' = [root EXCEPT !["sasha"] = StoreOf(Edition)]
  /\ UNCHANGED base /\ UnchangedButSaver

\* A delta that was detached before is taken first; another edition by now
\* makes it start again.
CheckBase ==
  /\ pc["sasha"] = "loaded" /\ info # {}
  /\ pc' = [pc EXCEPT !["sasha"] =
       IF base["sasha"] # Edition THEN "idle"
       ELSE IF detached[Edition] # NoFile THEN "loadDelta" ELSE "detachMark"]
  /\ UNCHANGED <<base, root>> /\ UnchangedButSaver

\* CheckDeltaBlock, around the detaching and around the renaming of the delta.
Mark ==
  /\ At("sasha", "detachMark", "detachWait") \/ At("sasha", "deltaMark", "deltaWait")
  /\ detachMark' = IF session THEN "live" ELSE "stale"
  /\ UNCHANGED <<given, session, faults, daliVars, base, root, storeVars, deltaVars,
                 deltaMark, written>>

WaitForWriter ==
  /\ At("sasha", "detachWait", "detach") \/ At("sasha", "deltaWait", "renameDelta")
  /\ ~deltaMark
  /\ UNCHANGED <<base, root>> /\ UnchangedButSaver

Unmark ==
  /\ \/ At("sasha", "detachUnmark", "loadDelta")
     \/ At("sasha", "deltaUnmark", "clear")
  /\ detachMark' = "none"
  /\ UNCHANGED <<given, session, faults, daliVars, base, root, storeVars, deltaVars,
                 deltaMark, written>>

\* detachCurrentDelta.
Detach ==
  /\ At("sasha", "detach", "detachUnmark") /\ info # {}
  /\ LET from == base["sasha"] IN
     /\ delta' = [delta EXCEPT ![from] = NoFile]
     /\ detached' = [detached EXCEPT ![Edition] = IF delta[from] = NoFile THEN @ ELSE delta[from]]
  /\ UNCHANGED <<given, session, faults, daliVars, base, root, storeVars, markVars,
                 written>>

LoadDetached ==
  /\ At("sasha", "loadDelta", "save")
  /\ LET e == base["sasha"] IN
     /\ root' = [root EXCEPT !["sasha"] = @ \o Good(Trimmed(detached[e]))]
     /\ detached' = [detached EXCEPT ![e] = Trimmed(@)]
  /\ UNCHANGED <<given, session, faults, daliVars, base, storeVars, delta, markVars,
                 written>>

\* Seeded fault: the delta is left to the edition it was made for.
RenameDelta_Not ==
  /\ At("sasha", "renameDelta", "deltaUnmark")
  /\ UNCHANGED <<given, session, faults, daliVars, base, root, storeVars, deltaVars,
                 markVars, written>>

\* renameDelta: what was written since the detaching belongs to the new edition.
RenameDelta ==
  /\ At("sasha", "renameDelta", "deltaUnmark")
  /\ delta' = Renamed(delta, base["sasha"], base["sasha"] + 1)
  /\ UNCHANGED <<given, session, faults, daliVars, base, root, storeVars, detached,
                 markVars, written>>

-----------------------------------------------------------------------------
(* Crashes, and the start of the server *)

\* The delta is with the new edition, and store.<edition> not yet.
Torn(s) == pc[s] \in {"deltaUnmark", "clear", "write"} /\ ~(s = "dali" /\ pc[s] = "clear")

CrashDali ==
  /\ up /\ faults < given.faults /\ faults' = faults + 1 /\ (Torn("dali") => given.torn)
  /\ up' = FALSE /\ tree' = <<>> /\ pending' = <<>> /\ batch' = <<>> /\ wpc' = "idle"
  /\ pc' = [pc EXCEPT !["dali"] = "idle"]
  /\ UNCHANGED <<given, session, opened, base, root, storeVars, deltaVars, markVars,
                 written>>

\* Its session ends, and with it the worth of its marker.
CrashSasha ==
  /\ pc["sasha"] # "idle" /\ faults < given.faults /\ faults' = faults + 1
  /\ (Torn("sasha") => given.torn)
  /\ pc' = [pc EXCEPT !["sasha"] = "idle"]
  /\ detachMark' = IF detachMark = "live" THEN "stale" ELSE detachMark
  /\ UNCHANGED <<given, session, daliVars, base, root, storeVars, deltaVars, deltaMark,
                 written>>

\* delta.progress is removed (detach.progress is not: its name is appended to
\* that of the other), a store.<edition> is made sure of, files of other
\* editions are set aside, store and deltas are loaded.  The sessions of the
\* server before are not known to this one.
StartDali ==
  /\ ~up /\ (pc["sasha"] # "idle" => given.torn)
  /\ deltaMark' = FALSE /\ session' = FALSE
  /\ detachMark' = IF detachMark = "live" THEN "stale" ELSE detachMark
  /\ info' = Checked(info)
  /\ LET e == CHOOSE f \in Checked(info) : TRUE IN
     /\ tree' = Loaded(e)
     /\ xml' = SetAside(xml, e)
     /\ delta' = [SetAside(delta, e) EXCEPT ![e] = Trimmed(@)]
     /\ detached' = [detached EXCEPT ![e] = Trimmed(@)]
  /\ up' = TRUE
  /\ UNCHANGED <<given, faults, pending, batch, wpc, opened, pc, base, root, bin, written>>

-----------------------------------------------------------------------------
(* Specification *)

Writer == BeginBatch \/ CheckDetach \/ WriteData \/ WriteHeader \/ EndBatch

Save(s) == SaveToFile(s) \/ CheckEdition(s) \/ RenameStore(s) \/ ClearInfo(s) \/ WriteInfo(s)

Coalesce ==
  \/ LoadBase \/ CheckBase \/ Mark \/ WaitForWriter \/ Detach \/ Unmark \/ LoadDetached
  \/ RenameDelta \/ Save("sasha")

Next ==
  \/ Change \/ Writer \/ WriteFails
  \/ BeginBlockingSave \/ Flushed \/ BeginStop \/ Save("dali") \/ Stopped
  \/ BeginCoalesce \/ Coalesce
  \/ CrashDali \/ CrashSasha \/ StartDali

Spec == Init /\ [][Next]_vars

\* The writer's thread and the savers keep running.  Sasha looks for
\* delta.progress every 100 ms, and a writer that is blocked removes it for a
\* second, so Sasha sees it gone.
Fairness ==
  /\ WF_vars(Writer) /\ WF_vars(Flushed) /\ WF_vars(Save("dali"))
  /\ WF_vars(Coalesce) /\ SF_vars(WaitForWriter)

FairSpec == Spec /\ Fairness

-----------------------------------------------------------------------------
(* Properties *)

TypeOK ==
  /\ given \in Circumstances /\ faults \in 0 .. given.faults /\ up \in BOOLEAN
  /\ {tree, pending, batch, written} \subseteq Changes
  /\ wpc \in {"idle", "check", "blocked", "data", "header", "remove", "stopped"}
  /\ opened \in Editions
  /\ base \in [Savers -> Editions] /\ root \in [Savers -> Changes]
  /\ info \subseteq Editions /\ Cardinality(info) <= 1
  /\ {xml, bin} \subseteq [Editions -> Changes \cup {NoFile}]
  /\ {delta, detached} \subseteq [Editions -> DeltaFile \cup {NoFile}]
  /\ {deltaMark, session} \subseteq BOOLEAN /\ detachMark \in {"none", "live", "stale"}

\* A start now would bring back every change that has been written, once each
\* and in order, wherever a saver is, short of the steps that Torn names
\* (dasds.cpp:5787, 5948): a change is in the store, in what was detached or in
\* the delta, and in one of them only.
Durable == (\A s \in Savers : ~Torn(s)) => \A e \in info : Loaded(e) = written

\* While the writer has the delta open, Sasha is not at work on it
\* (dasds.cpp:5597, 9283).
WriterAlone ==
  wpc \in {"data", "header"} => pc["sasha"] \notin {"detach", "renameDelta"}

\* A change that a client has made and no crash has undone gets written, even if
\* Sasha dies between its markers (dasds.cpp:9288).
ChangesGetWritten ==
  (up /\ pending \o batch # <<>>) ~> (~up \/ pending \o batch = <<>>)

\* The files implement the tree that is lost and comes back (dasds.cpp:6524).
Promise == INSTANCE DurableTree WITH tree <- IF up THEN tree ELSE NoFile, NoTree <- NoFile
Survives == Promise!Spec
-----------------------------------------------------------------------------
(* The inductive invariant behind Durable and Survives.                    *)

\* The circumstances they hold in: Dali and Sasha do not save at once, nothing of
\* what torn allows happens, and there are no crashes or failed writes where a
\* binary store may fail to be saved.  In others the code does lose changes.
Ordinary ==
  \A c \in Circumstances : ~c.both /\ ~c.torn /\ (c.binaryFails => c.faults = 0)

OneSaves == \E s \in Savers : pc[s] = "idle"

\* The tree is what has been written, then what the writer has in hand, then
\* what waits for it; an orderly stop leaves the rest to the store.
MemoryInv ==
  /\ ~up => pending = <<>> /\ pc["dali"] = "idle"
  /\ ~up \/ wpc \in {"idle", "remove", "stopped"} => batch = <<>>
  /\ wpc \in {"check", "blocked", "data", "header"} => batch # <<>>
  /\ up /\ wpc # "stopped" => tree = written \o batch \o pending
  /\ wpc = "stopped" => pending = <<>> /\ IsPrefix(written, tree)
  /\ DaliSaves => /\ root["dali"] = tree /\ pending = <<>>
                  /\ wpc \in {"idle", "stopped"}

\* How far a saver has come.
HasBase(s) == pc[s] \notin {"idle", "flush"} /\ (pc[s] = "save" => s = "sasha")
HasRenamed(s) ==
  pc[s] \in {"deltaMark", "deltaWait", "renameDelta", "deltaUnmark", "clear", "write"}
HasMoved == pc["sasha"] \in {"deltaUnmark", "clear", "write"}

\* e is the edition in use, or was until store.<edition> went: who is at work on
\* the next one, and what lies about of later ones.
EditionInv(e) ==
  /\ info = IF \E s \in Savers : pc[s] = "write" THEN {} ELSE {e}
  /\ \A s \in Savers :
       /\ pc[s] # "idle" => s \in given.savers
       /\ HasBase(s) => base[s] = e /\ e < MaxEdition
       /\ HasRenamed(s) => StoreOf(e + 1) = root[s]
  /\ \A f \in Editions : f > e =>
       /\ detached[f] = NoFile
       /\ delta[f] = NoFile \/ (HasMoved /\ f = e + 1)
       /\ given.binaryFails => bin[f] = NoFile \/ (f = e + 1 /\ \E s \in Savers : HasRenamed(s))

\* Each change written is in one place, and Sasha's tree is what it has read.
ContentInv(e) ==
  /\ IF HasMoved THEN root["sasha"] \o Good(delta[e + 1]) = written
     ELSE StoreOf(e) \o Good(detached[e]) \o Good(delta[e]) = written
  /\ pc["sasha"] \in {"loaded", "detachMark", "detachWait", "detach", "detachUnmark", "loadDelta"} =>
       root["sasha"] = StoreOf(e)
  /\ pc["sasha"] \in {"detachMark", "detachWait", "detach"} => detached[e] = NoFile
  /\ pc["sasha"] \in {"save", "saved", "rename", "deltaMark", "deltaWait", "renameDelta"} =>
       root["sasha"] = StoreOf(e) \o Good(detached[e])

\* The tail of the delta is what the writer has in hand; what a crash left of it
\* is behind a delta.progress until the server has started again.
TailInv(e) ==
  /\ wpc = "header" =>
       opened = e /\ delta[e] # NoFile /\ delta[e].tail = batch /\ ~HasMoved
  /\ Tail_(delta[e]) # <<>> =>
       /\ up => wpc = "header"
       /\ deltaMark
       /\ pc["sasha"] \notin {"detach", "detachUnmark", "renameDelta", "deltaUnmark"}
  /\ HasMoved => Tail_(delta[e + 1]) = <<>>

StoreInv ==
  TypeOK /\ OneSaves /\ MemoryInv /\ \E e \in Editions : EditionInv(e) /\ ContentInv(e) /\ TailInv(e)
=============================================================================
