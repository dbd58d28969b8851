------------------------ MODULE CapabilityPackProofs ------------------------
(***************************************************************************)
(* Proofs about CapabilityPack: the types; that with no transaction open    *)
(* every resource is what the installed version says (InstalledIsWhole);    *)
(* that what runs is granted (LiveIsGranted); and that the installation     *)
(* follows PackVersions (VersionsFollowed).  All but the types hold until   *)
(* an operation goes ahead over what an error has left open (overlaid).     *)
(*                                                                         *)
(* The inductive invariant PackInv has three parts.  Stored: each version   *)
(* of a pack's stack carries the snapshots of what the one below it put     *)
(* there, at most one transaction is open, and a rollback by its durable    *)
(* snapshots would bring back what should stand.  JobInv: how far the       *)
(* operation in progress has come, between those writes.  RunsGranted:      *)
(* what runs belongs to a granted version, and not to a pack in change.     *)
(***************************************************************************)
EXTENDS CapabilityPack, FiniteSetTheorems, SequenceTheorems, WellFoundedInduction, TLAPS

JobRec == [kind : Kinds, step : Steps, rec : Record, tx : 0 .. MaxTx,
           todo : SUBSET Resources, errors : BOOLEAN, workspace : Workspaces,
           replace : BOOLEAN]

Opening == {"reconcile", "check", "revoke", "begin"}
TxSteps == {"revoke", "applying", "snapshot", "apply", "decide", "own", "commit", "mark",
            "restore", "load", "unlist", "prompt"}

\* What the types of a step rest on: an installation has a version of its pack,
\* until its journal is written there is a free identifier for it, an operation
\* on a transaction knows which, and only what was snapshotted is restored.
JobTypes ==
    /\ job.kind = "install" => job.rec.ver \in DOMAIN Content[job.rec.pack]
    /\ job.kind = "install" /\ job.step \in Opening => \E t \in Txs : journal[t].status = "none"
    /\ job.step \in TxSteps => job.tx \in Txs
    /\ job.step = "restore" => \A r \in job.todo : job.rec.snap[r] # NoSnapshot

StoreTypes ==
    /\ files \in [Resources -> Contents]
    /\ journal \in [Txs -> Record]
    /\ owned \in [Packs -> Seq(Txs)]

OtherTypes ==
    /\ grants \subseteq Txs \X Workspaces
    /\ live \in [Resources -> Contents]
    /\ proc \in {"down", "idle", "busy"}
    /\ hit \in BOOLEAN
    /\ crashes \in 0 .. MaxCrashes /\ faults \in 0 .. MaxFaults /\ drops \in 0 .. MaxDrops

TypeInv == StoreTypes /\ OtherTypes /\ job \in JobRec /\ JobTypes

------------------------------------------------------------------------------
(* Types.                                                                   *)

\* What the constants are.
LEMMA ConstantTypes ==
    /\ MaxTx \in Nat /\ Txs = 1 .. MaxTx /\ NoContent \in Contents /\ NoSnapshot \notin Contents
    /\ \A r \in Resources : Before[r] \in Contents
    /\ \A p \in Packs : ResourcesOf[p] \subseteq Resources /\ DOMAIN Content[p] \subseteq Versions
    /\ \A p \in Packs : \A v \in DOMAIN Content[p], r \in Resources : Content[p][v][r] \in Contents
    /\ \A v \in Versions : v \in Nat
<1>1. MaxTx \in Nat /\ Txs = 1 .. MaxTx
  BY PackAssumption DEF Txs
<1>2. NoContent \in Contents /\ \A r \in Resources : Before[r] \in Contents
  BY DEF Contents
<1>3. \A p \in Packs : ResourcesOf[p] \subseteq Resources /\ DOMAIN Content[p] \subseteq Versions
  BY PackAssumption
<1>4. ASSUME NEW p \in Packs, NEW v \in DOMAIN Content[p], NEW r \in Resources
      PROVE  Content[p][v][r] \in Contents
  <2> DEFINE Cs(o) == {Content[o][u][q] : u \in DOMAIN Content[o], q \in Resources}
  <2>1. Content[p][v][r] \in Cs(p)
    OBVIOUS
  <2>2. Contents = {NoContent} \cup {Before[q] : q \in Resources} \cup UNION {Cs(o) : o \in Packs}
    BY DEF Contents
  <2> HIDE DEF Cs
  <2>3. Cs(p) \in {Cs(o) : o \in Packs}
    OBVIOUS
  <2> QED
    BY <2>1, <2>2, <2>3
<1>5. \A v \in Versions : v \in Nat
  BY PackAssumption
<1> QED
  BY <1>1, <1>2, <1>3, <1>4, <1>5, ContentsAssumption

\* A record whose status is changed.
LEMMA Restatus ==
    ASSUME NEW rec \in Record, NEW s \in Statuses
    PROVE  /\ [rec EXCEPT !.status = s] \in Record
           /\ [rec EXCEPT !.status = s].status = s
           /\ [rec EXCEPT !.status = s].pack = rec.pack
           /\ [rec EXCEPT !.status = s].ver = rec.ver
           /\ [rec EXCEPT !.status = s].managed = rec.managed
           /\ [rec EXCEPT !.status = s].snap = rec.snap
BY DEF Record

\* The fields of a record.
LEMMA RecordFields ==
    ASSUME NEW rec \in Record
    PROVE  /\ rec.pack \in Packs /\ rec.ver \in Versions /\ rec.status \in Statuses
           /\ rec.managed \in BOOLEAN
           /\ rec.snap \in [Resources -> Contents \cup {NoSnapshot}]
BY DEF Record

\* The record of an installation that begins.
LEMMA NewRecordTyped ==
    ASSUME NEW p \in Packs, NEW v \in Versions
    PROVE  /\ NewRecord(p, v) \in Record
           /\ NewRecord(p, v).pack = p /\ NewRecord(p, v).ver = v
           /\ NewRecord(p, v).status = "prepared" /\ NewRecord(p, v).managed = FALSE
           /\ \A r \in Resources : NewRecord(p, v).snap[r] = NoSnapshot
BY DEF NewRecord, Record, Statuses

\* The record of a transaction that there is not.
LEMMA AnyRecordTyped ==
    /\ AnyRecord \in Record /\ AnyRecord.status = "none" /\ AnyRecord.managed = FALSE
<1>1. AnyPack \in Packs /\ (CHOOSE v \in Versions : TRUE) \in Versions
  BY PackAssumption DEF AnyPack
<1>2. PICK v : v = CHOOSE u \in Versions : TRUE
  OBVIOUS
<1>3. NewRecord(AnyPack, v) \in Record /\ NewRecord(AnyPack, v).managed = FALSE
  BY <1>1, <1>2, NewRecordTyped
<1>4. AnyRecord = [NewRecord(AnyPack, v) EXCEPT !.status = "none"] /\ "none" \in Statuses
  BY <1>2 DEF AnyRecord, Statuses
<1> QED
  BY <1>3, <1>4, Restatus

\* No operation.
LEMMA NoJobTyped ==
    /\ NoJob \in JobRec /\ NoJob.kind = "none" /\ NoJob.step = "none" /\ NoJob.rec = AnyRecord
    /\ NoJob.errors = FALSE /\ NoJob.todo = {}
<1>1. (CHOOSE w \in Workspaces : TRUE) \in Workspaces
  BY PackAssumption
<1>2. 0 \in 0 .. MaxTx /\ "none" \in Kinds /\ "none" \in Steps
  BY ConstantTypes DEF Kinds, Steps
<1>3. PICK w \in Workspaces : w = CHOOSE u \in Workspaces : TRUE
  BY <1>1
<1>4. NoJob = [kind |-> "none", step |-> "none", rec |-> AnyRecord, tx |-> 0, todo |-> {},
               errors |-> FALSE, workspace |-> w, replace |-> FALSE]
  BY <1>3 DEF NoJob
<1> QED
  BY <1>2, <1>4, AnyRecordTyped DEF JobRec

\* An operation that is called.
LEMMA JobTyped ==
    ASSUME NEW k \in Kinds, NEW s \in Steps, NEW rec \in Record
    PROVE  /\ Job(k, s, rec) \in JobRec
           /\ Job(k, s, rec).kind = k /\ Job(k, s, rec).step = s /\ Job(k, s, rec).rec = rec
BY NoJobTyped DEF Job, JobRec

\* A record is written to the journal.
LEMMA SavedTyped ==
    ASSUME journal \in [Txs -> Record], NEW t, NEW rec \in Record
    PROVE  /\ Saved(t, rec) \in [Txs -> Record]
           /\ t \in Txs => Saved(t, rec)[t] = rec
           /\ \A u \in Txs : u # t => Saved(t, rec)[u] = journal[u]
BY DEF Saved

\* The stack of a pack that is installed.
LEMMA CurrentTyped ==
    ASSUME StoreTypes, NEW p \in Packs
    PROVE  /\ owned[p] \in Seq(Txs) /\ Len(owned[p]) \in Nat
           /\ DOMAIN owned[p] = 1 .. Len(owned[p])
           /\ \A i \in 1 .. Len(owned[p]) : owned[p][i] \in Txs
           /\ Installed(p) <=> Len(owned[p]) # 0
           /\ Installed(p) => /\ Current(p) \in Txs /\ Current(p) = owned[p][Len(owned[p])]
                              /\ Len(owned[p]) \in 1 .. Len(owned[p])
<1>1. owned[p] \in Seq(Txs)
  BY DEF StoreTypes
<1>2. Len(owned[p]) \in Nat /\ DOMAIN owned[p] = 1 .. Len(owned[p])
  BY <1>1, LenProperties
<1>3. \A i \in 1 .. Len(owned[p]) : owned[p][i] \in Txs
  BY <1>1, ElementOfSeq
<1>4. Installed(p) <=> Len(owned[p]) # 0
  BY <1>1, <1>2, EmptySeq DEF Installed
<1>5. ASSUME Installed(p)
      PROVE  /\ Current(p) \in Txs /\ Current(p) = owned[p][Len(owned[p])]
             /\ Len(owned[p]) \in 1 .. Len(owned[p])
  <2>1. Len(owned[p]) \in 1 .. Len(owned[p])
    BY <1>2, <1>4, <1>5
  <2> QED
    BY <1>3, <2>1 DEF Current, Last
<1> QED
  BY <1>1, <1>2, <1>3, <1>4, <1>5

\* A version is put on top of the stack of its pack.
LEMMA AppendTyped ==
    ASSUME NEW s \in Seq(Txs), NEW t \in Txs
    PROVE  /\ Append(s, t) \in Seq(Txs) /\ Len(Append(s, t)) = Len(s) + 1
           /\ Len(s) \in Nat /\ Append(s, t)[Len(s) + 1] = t
           /\ \A i \in 1 .. Len(s) : Append(s, t)[i] = s[i]
<1>1. PICK T : T = Txs
  OBVIOUS
<1>2. s \in Seq(T) /\ t \in T
  BY <1>1
<1>3. Len(s) \in Nat
  BY <1>2, LenProperties
<1> QED
  BY <1>1, <1>2, <1>3

\* A version is taken off the stack of its pack.
LEMMA FrontTyped ==
    ASSUME NEW s \in Seq(Txs)
    PROVE  /\ Front(s) \in Seq(Txs) /\ Len(s) \in Nat
           /\ Len(s) # 0 => Len(Front(s)) = Len(s) - 1
           /\ \A i \in 1 .. Len(s) - 1 : Front(s)[i] = s[i]
<1>1. PICK n : n = Len(s)
  OBVIOUS
<1>2. n \in Nat
  BY <1>1, LenProperties
<1>3. \A i \in 1 .. n - 1 : s[i] \in Txs
  BY <1>1, <1>2, ElementOfSeq
<1>4. PICK m : m = n - 1
  OBVIOUS
<1>5. m \in Int /\ \A i \in 1 .. m : s[i] \in Txs
  BY <1>2, <1>3, <1>4
<1>6. /\ SubSeq(s, 1, m) \in Seq(Txs)
      /\ Len(SubSeq(s, 1, m)) = IF 1 <= m THEN m - 1 + 1 ELSE 0
      /\ \A i \in 1 .. m - 1 + 1 : SubSeq(s, 1, m)[i] = s[1 + i - 1]
  BY <1>5, SubSeqProperties
<1>7. Front(s) = SubSeq(s, 1, m)
  BY <1>1, <1>4 DEF Front
<1>8. \A i \in 1 .. m : Front(s)[i] = s[i]
  BY <1>2, <1>4, <1>6, <1>7
<1> QED
  BY <1>1, <1>2, <1>4, <1>6, <1>7, <1>8

\* A write happens, or one fails.
LEMMA FaultTyped ==
    ASSUME OtherTypes, UNCHANGED faulty \/ Fault
    PROVE  hit' \in BOOLEAN /\ faults' \in 0 .. MaxFaults
<1>1. MaxFaults \in Nat /\ hit \in BOOLEAN /\ faults \in 0 .. MaxFaults
  BY PackAssumption DEF OtherTypes
<1>2. CASE UNCHANGED faulty
  BY <1>1, <1>2 DEF faulty
<1>3. CASE Fault
  BY <1>1, <1>3 DEF Fault
<1> QED
  BY <1>2, <1>3

\* A write to the journal, that may fail.
LEMMA SaveTyped ==
    ASSUME StoreTypes, OtherTypes, NEW t, NEW rec \in Record, Save(t, rec) \/ SaveFails(t, rec)
    PROVE  journal' \in [Txs -> Record] /\ hit' \in BOOLEAN /\ faults' \in 0 .. MaxFaults
<1>1. journal \in [Txs -> Record] /\ Saved(t, rec) \in [Txs -> Record]
  BY SavedTyped DEF StoreTypes
<1>2. UNCHANGED faulty \/ Fault
  BY DEF Save, SaveFails
<1> QED
  BY <1>1, <1>2, FaultTyped DEF Save, SaveFails

\* An operation that ends leaves no job.
LEMMA ReturnTyped ==
    ASSUME Return \/ ReturnError \/ Down
    PROVE  /\ job' = NoJob /\ job' \in JobRec /\ JobTypes' /\ proc' \in {"down", "idle", "busy"}
           /\ proc' # "busy"
<1>1. job' = NoJob /\ proc' \in {"down", "idle"}
  BY DEF Return, ReturnError, Down
<1> QED
  BY <1>1, NoJobTyped DEF JobTypes, Opening, TxSteps

\* The next step of an operation.
LEMMA GotoTyped ==
    ASSUME job \in JobRec, NEW s \in Steps, Goto(s)
    PROVE  /\ job' \in JobRec /\ job'.step = s /\ job'.kind = job.kind /\ job'.rec = job.rec
           /\ job'.tx = job.tx /\ job'.todo = job.todo /\ job'.errors = job.errors
           /\ proc' = proc
BY DEF Goto, JobRec

\* A failed installation is rolled back, with the record in memory.
LEMMA UndoTyped ==
    ASSUME job \in JobRec, NEW rec \in Record, Undo(rec)
    PROVE  /\ job' \in JobRec /\ job'.step = "mark" /\ job'.kind = job.kind /\ job'.rec = rec
           /\ job'.tx = job.tx /\ job'.todo = job.todo /\ job'.errors = FALSE
           /\ proc' = proc
BY DEF Undo, JobRec, Steps

\* The fields of a job.
LEMMA JobFields ==
    ASSUME job \in JobRec
    PROVE  /\ job.kind \in Kinds /\ job.step \in Steps /\ job.rec \in Record /\ job.tx \in 0 .. MaxTx
           /\ job.todo \in SUBSET Resources /\ job.errors \in BOOLEAN /\ job.workspace \in Workspaces
           /\ job.rec.pack \in Packs /\ job.rec.ver \in Versions /\ job.rec.managed \in BOOLEAN
           /\ job.rec.snap \in [Resources -> Contents \cup {NoSnapshot}]
           /\ \A t \in Txs : t \in 0 .. MaxTx
<1>1. /\ job.kind \in Kinds /\ job.step \in Steps /\ job.rec \in Record /\ job.tx \in 0 .. MaxTx
      /\ job.todo \in SUBSET Resources /\ job.errors \in BOOLEAN /\ job.workspace \in Workspaces
  BY DEF JobRec
<1>2. \A t \in Txs : t \in 0 .. MaxTx
  BY ConstantTypes
<1> QED
  BY <1>1, <1>2, RecordFields

\* The container is built or an operation is called.
LEMMA CallsTyped ==
    ASSUME TypeInv,
           \/ Start
           \/ \E p \in Packs : \/ CallRollback(p)
                               \/ \E v \in DOMAIN Content[p] : CallInstall(p, v)
                               \/ \E w \in Workspaces : Ask(p, w)
    PROVE  TypeInv'
<1> USE DEF TypeInv
<1>0. "start" \in Kinds /\ "reconcile" \in Steps /\ "install" \in Kinds /\ "rollback" \in Kinds
      /\ "remove" \in Kinds /\ "grant" \in Kinds /\ "prompt" \in Steps
  BY DEF Kinds, Steps
<1>1. CASE Start
  <2>1. job' \in JobRec /\ job'.kind = "start" /\ job'.step = "reconcile"
    BY <1>0, <1>1, AnyRecordTyped, JobTyped DEF Start
  <2>2. JobTypes'
    BY <2>1 DEF JobTypes, TxSteps
  <2> QED
    BY <1>1, <2>1, <2>2 DEF Start, StoreTypes, OtherTypes, durable
<1>2. ASSUME NEW j \in JobRec, Take(j), JobTypes'
      PROVE  TypeInv'
  BY <1>2 DEF Take, StoreTypes, OtherTypes, durable, bounds, faulty
<1>3. ASSUME NEW p \in Packs, CallRollback(p) PROVE TypeInv'
  <2>1. PICK kind \in {"rollback", "remove"} :
          Take(Job(kind, "reconcile", NewRecord(p, CHOOSE v \in Versions : TRUE)))
    BY <1>3 DEF CallRollback
  <2>2. PICK v \in Versions : v = CHOOSE u \in Versions : TRUE
    BY PackAssumption
  <2>3. PICK rec \in Record : rec = NewRecord(p, v)
    BY NewRecordTyped
  <2>4. PICK j : j = Job(kind, "reconcile", rec)
    OBVIOUS
  <2>5. kind \in Kinds
    BY <1>0
  <2>6. j \in JobRec /\ j.kind = kind /\ j.step = "reconcile"
    BY <1>0, <2>4, <2>5, JobTyped
  <2>7. Take(j) /\ job' = j
    BY <2>1, <2>2, <2>3, <2>4 DEF Take
  <2>8. JobTypes'
    BY <2>6, <2>7 DEF JobTypes, TxSteps
  <2> QED
    BY <1>2, <2>6, <2>7, <2>8
<1>4. ASSUME NEW p \in Packs, NEW v \in DOMAIN Content[p], CallInstall(p, v) PROVE TypeInv'
  <2>1. PICK approved \in BOOLEAN :
          Take([Job("install", "reconcile", NewRecord(p, v)) EXCEPT !.replace = approved])
    BY <1>4 DEF CallInstall
  <2>2. PICK rec : rec = NewRecord(p, v)
    OBVIOUS
  <2>3. rec \in Record /\ rec.pack = p /\ rec.ver = v
    BY <2>2, ConstantTypes, NewRecordTyped
  <2>4. PICK i : i = Job("install", "reconcile", rec)
    OBVIOUS
  <2>5. i \in JobRec /\ i.kind = "install" /\ i.step = "reconcile" /\ i.rec = rec
    BY <1>0, <2>4, <2>3, JobTyped
  <2>6. PICK j : j = [i EXCEPT !.replace = approved]
    OBVIOUS
  <2>7. j \in JobRec /\ j.kind = "install" /\ j.step = "reconcile" /\ j.rec = i.rec
    BY <2>5, <2>6 DEF JobRec
  <2>8. Take(j) /\ job' = j /\ UNCHANGED journal
    BY <2>1, <2>2, <2>4, <2>6 DEF Take, durable
  <2>9. JobTypes'
    BY <1>4, <2>3, <2>5, <2>7, <2>8 DEF JobTypes, TxSteps, CallInstall
  <2> QED
    BY <1>2, <2>7, <2>8, <2>9
<1>5. ASSUME NEW p \in Packs, NEW w \in Workspaces, Ask(p, w) PROVE TypeInv'
  <2>1. Take([Job("grant", "prompt", journal[Current(p)]) EXCEPT !.workspace = w, !.tx = Current(p)])
    BY <1>5 DEF Ask
  <2>2. Current(p) \in Txs /\ Current(p) \in 0 .. MaxTx
    BY <1>5, CurrentTyped, JobFields DEF Ask
  <2>3. PICK i : i = Job("grant", "prompt", journal[Current(p)])
    OBVIOUS
  <2>4. i \in JobRec /\ i.kind = "grant" /\ i.step = "prompt"
    BY <1>0, <2>2, <2>3, JobTyped DEF StoreTypes
  <2>5. PICK j : j = [i EXCEPT !.workspace = w, !.tx = Current(p)]
    OBVIOUS
  <2>6. j \in JobRec /\ j.kind = "grant" /\ j.step = "prompt" /\ j.tx = Current(p)
    BY <2>2, <2>4, <2>5 DEF JobRec
  <2>7. Take(j) /\ job' = j
    BY <2>1, <2>3, <2>5 DEF Take
  <2>8. JobTypes'
    BY <2>2, <2>6, <2>7 DEF JobTypes, TxSteps, Opening
  <2> QED
    BY <1>2, <2>6, <2>7, <2>8
<1> QED
  BY <1>1, <1>3, <1>4, <1>5

\* Live resources are taken down or put in place.
LEMMA LiveTyped ==
    ASSUME StoreTypes, OtherTypes, NEW p \in Packs, NEW P \in SUBSET Packs
    PROVE  /\ Deactivated(p) \in [Resources -> Contents] /\ Activated(P) \in [Resources -> Contents]
           /\ Nothing \in [Resources -> Contents]
BY ConstantTypes DEF StoreTypes, OtherTypes, Deactivated, Activated, Nothing

\* A pack is taken down, or some of it is when that fails.
LEMMA TakingDownTyped ==
    ASSUME StoreTypes, OtherTypes, NEW p \in Packs, TakeDown(p) \/ TakeDownFails(p)
    PROVE  /\ live' \in [Resources -> Contents] /\ hit' \in BOOLEAN /\ faults' \in 0 .. MaxFaults
           /\ UNCHANGED faulty \/ Fault
<1>1. UNCHANGED faulty \/ Fault
  BY DEF TakeDown, TakeDownFails
<1>2. {} \in SUBSET Packs
  OBVIOUS
<1>3. CASE TakeDown(p)
  BY <1>1, <1>2, <1>3, LiveTyped, FaultTyped DEF TakeDown
<1>4. CASE TakeDownFails(p)
  <2>1. live' \in [Resources -> Contents]
    BY <1>4, ConstantTypes DEF TakeDownFails, OtherTypes
  <2> QED
    BY <1>1, <2>1, FaultTyped
<1> QED
  BY <1>3, <1>4

\* owned with a version more or less.
LEMMA ListingTyped ==
    ASSUME StoreTypes, NEW t \in Txs, NEW rec \in Record
    PROVE  Listing(t, rec) \in [Packs -> Seq(Txs)] /\ Unlisting(t) \in [Packs -> Seq(Txs)]
<1>1. \A p \in Packs : Append(owned[p], t) \in Seq(Txs) /\ Front(owned[p]) \in Seq(Txs)
  BY AppendTyped, FrontTyped DEF StoreTypes
<1>2. PICK p \in Packs : p = rec.pack
  BY RecordFields
<1>3. PICK q \in Packs : q = journal[t].pack
  BY RecordFields DEF StoreTypes
<1>4. Listing(t, rec) = [owned EXCEPT ![p] = Append(owned[p], t)]
  BY <1>2 DEF Listing
<1>5. Unlisting(t) = [owned EXCEPT ![q] = Front(owned[q])]
  BY <1>3 DEF Unlisting
<1> QED
  BY <1>1, <1>4, <1>5 DEF StoreTypes

\* The types of a step that leaves the counters of the bounds alone.
LEMMA OtherTypesStay ==
    ASSUME OtherTypes, UNCHANGED <<grants, live, crashes, drops>>,
           hit' \in BOOLEAN, faults' \in 0 .. MaxFaults, proc' \in {"down", "idle", "busy"}
    PROVE  OtherTypes'
BY DEF OtherTypes

\* A start reconciles the journal with what is installed.
LEMMA ReconcileTyped ==
    ASSUME TypeInv, ReconcileOwnership \/ ReconcileCommit \/ Reconciled
    PROVE  TypeInv'
<1> USE DEF TypeInv
<1>0. proc = "busy" /\ job.step = "reconcile" /\ proc \in {"down", "idle", "busy"}
  BY DEF ReconcileOwnership, ReconcileCommit, Reconciled
<1>1. CASE ReconcileOwnership
  <2>1. PICK t \in Txs :
          /\ UNCHANGED faulty \/ Fault
          /\ UNCHANGED <<proc, job>> \/ ReturnError
          /\ owned' \in {owned, Listing(t, journal[t])}
    BY <1>1 DEF ReconcileOwnership, First, Unreconciled
  <2>2. UNCHANGED <<files, journal, grants, live, crashes, drops>>
    BY <1>1 DEF ReconcileOwnership
  <2>3. StoreTypes'
    BY <2>1, <2>2, ListingTyped DEF StoreTypes
  <2>4. job' \in JobRec /\ JobTypes' /\ proc' \in {"down", "idle", "busy"}
    BY <1>0, <2>1, <2>2, ReturnTyped DEF JobTypes
  <2> QED
    BY <2>1, <2>2, <2>3, <2>4, FaultTyped, OtherTypesStay
<1>2. CASE ReconcileCommit
  <2>0. PICK t \in Txs :
          /\ journal[t].status # "none"
          /\ LET rec == [journal[t] EXCEPT !.status = "committed"] IN
             \/ Save(t, rec) /\ UNCHANGED <<proc, job>>
             \/ SaveFails(t, rec) /\ ReturnError
    BY <1>2 DEF ReconcileCommit, First, Unreconciled
  <2>1. PICK rec : /\ rec = [journal[t] EXCEPT !.status = "committed"]
                   /\ \/ Save(t, rec) /\ UNCHANGED <<proc, job>>
                      \/ SaveFails(t, rec) /\ ReturnError
    BY <2>0
  <2>2. UNCHANGED <<files, owned, grants, live, crashes, drops>>
    BY <1>2 DEF ReconcileCommit
  <2>3. journal \in [Txs -> Record] /\ journal[t] \in Record /\ "committed" \in Statuses
    BY DEF StoreTypes, Statuses
  <2>4. rec \in Record
    BY <2>1, <2>3, Restatus
  <2>5. journal' \in [Txs -> Record] /\ hit' \in BOOLEAN /\ faults' \in 0 .. MaxFaults
    BY <2>1, <2>4, SaveTyped
  <2>6. StoreTypes'
    BY <2>2, <2>5 DEF StoreTypes
  <2>7. CASE Save(t, rec) /\ UNCHANGED <<proc, job>>
    <3>1. \A u \in Txs : journal[u].status = "none" => journal'[u].status = "none"
      BY <2>0, <2>3, <2>4, <2>7, SavedTyped DEF Save
    <3>2. JobTypes'
      BY <1>0, <2>7, <3>1 DEF JobTypes, TxSteps
    <3> QED
      BY <1>0, <2>2, <2>5, <2>6, <2>7, <3>2, OtherTypesStay
  <2>8. CASE ReturnError
    BY <2>2, <2>5, <2>6, <2>8, ReturnTyped, OtherTypesStay
  <2> QED
    BY <2>1, <2>7, <2>8
<1>3. CASE Reconciled
  <2>1. UNCHANGED <<durable, live, bounds>>
    BY <1>3 DEF Reconciled
  <2>2. PICK s : /\ Goto(s)
                 /\ s = (CASE job.kind = "start" -> "scan"
                           [] job.kind = "install" -> "check"
                           [] OTHER -> "withdraw")
    BY <1>3 DEF Reconciled
  <2>3. s \in {"scan", "check", "withdraw"}
    BY <2>2
  <2>4. /\ job' \in JobRec /\ job'.step = s /\ job'.kind = job.kind /\ job'.rec = job.rec
        /\ proc' = proc
    BY <2>2, <2>3, GotoTyped DEF Steps
  <2>5. JobTypes'
    BY <1>0, <2>1, <2>3, <2>4 DEF JobTypes, TxSteps, Opening, durable
  <2> QED
    BY <1>0, <2>1, <2>4, <2>5 DEF StoreTypes, OtherTypes, durable, bounds, faulty
<1> QED
  BY <1>1, <1>2, <1>3

\* A step that saves a record and goes on, undoes or fails.
LEMMA SavesTyped ==
    ASSUME TypeInv, NEW t \in Txs, NEW rec \in Record,
           Save(t, rec) \/ SaveFails(t, rec), UNCHANGED <<files, owned, grants, live, crashes, drops>>,
           job' \in JobRec, JobTypes', proc' \in {"down", "idle", "busy"}
    PROVE  TypeInv'
BY SaveTyped, OtherTypesStay DEF TypeInv, StoreTypes

\* A set of numbers that is not empty has a smallest one.
LEMMA LeastNatural ==
    ASSUME NEW S \in SUBSET Nat, S # {}
    PROVE  \E x \in S : \A m \in S : x <= m
<1>1. IsWellFoundedOn(OpToRel(<, Nat), Nat)
  BY NatLessThanWellFounded
<1>2. PICK R : R = {ss \in Nat \X Nat : ss[1] < ss[2]}
  OBVIOUS
<1>3. IsWellFoundedOn(R, Nat)
  BY <1>1, <1>2 DEF OpToRel
<1>4. PICK x \in S : \A y \in S : ~ (<<y, x>> \in R)
  BY <1>3, WFMin
<1>5. ASSUME NEW m \in S PROVE x <= m
  <2>1. ~ (<<m, x>> \in R)
    BY <1>4
  <2> QED
    BY <1>2, <2>1
<1> QED
  BY <1>4, <1>5

\* There is a first and a last resource of what is to be done.
LEMMA ExtremesExist ==
    ASSUME NEW T \in SUBSET Resources, T # {}
    PROVE  Earliest(T) \in T /\ Latest(T) \in T
<1>1. PICK n \in Nat : n = Cardinality(Resources)
  BY PackAssumption, FS_CardinalityType
<1>2. \A r \in T : Order[r] \in 1 .. n
  BY <1>1, PackAssumption
<1>3. PICK o : o = [r \in T |-> Order[r]]
  OBVIOUS
<1>4. \A r \in T : o[r] = Order[r] /\ o[r] \in Nat /\ n - o[r] \in Nat
  BY <1>1, <1>2, <1>3
<1>5. \E r \in T : \A q \in T : o[r] <= o[q]
  <2>1. {o[r] : r \in T} \in SUBSET Nat /\ {o[r] : r \in T} # {}
    BY <1>4
  <2>2. PICK x \in {o[r] : r \in T} : \A m \in {o[r] : r \in T} : x <= m
    BY <2>1, LeastNatural
  <2> QED
    BY <2>2
<1>6. \E r \in T : \A q \in T : o[q] <= o[r]
  <2>1. {n - o[r] : r \in T} \in SUBSET Nat /\ {n - o[r] : r \in T} # {}
    BY <1>4
  <2>2. PICK x \in {n - o[r] : r \in T} : \A m \in {n - o[r] : r \in T} : x <= m
    BY <2>1, LeastNatural
  <2>3. PICK r \in T : x = n - o[r]
    BY <2>2
  <2>4. \A q \in T : n - o[r] <= n - o[q]
    BY <2>2, <2>3
  <2>5. \A q \in T : o[q] <= o[r]
    BY <1>1, <1>4, <2>4
  <2> QED
    BY <2>5
<1>7. \E r \in T : \A q \in T : Order[r] <= Order[q]
  BY <1>4, <1>5
<1>8. \E r \in T : \A q \in T : Order[q] <= Order[r]
  BY <1>4, <1>6
<1> QED
  BY <1>7, <1>8 DEF Earliest, Latest

\* The resource in hand is one of those that are left.
LEMMA InHandTodo ==
    ASSUME job \in JobRec, job.todo # {}
    PROVE  InHand \in job.todo
<1>1. job.todo \in SUBSET Resources
  BY DEF JobRec
<1> QED
  BY <1>1, ExtremesExist DEF InHand

\* A step beyond the opening of an operation.
LEMMA OnwardTyped ==
    ASSUME JobTypes, job'.kind = job.kind, job'.rec.pack = job.rec.pack, job'.rec.ver = job.rec.ver,
           job'.step \notin Opening \cup {"restore"}, job'.tx \in Txs
    PROVE  JobTypes'
BY DEF JobTypes

\* An installation before its journal is written.
LEMMA OpeningTyped ==
    ASSUME TypeInv, Check \/ Revoke \/ Begin
    PROVE  TypeInv'
<1> USE DEF TypeInv
<1>0. proc = "busy" /\ job \in JobRec /\ JobTypes
  BY DEF Check, Revoke, Begin, Busy
<1>1. CASE Check
  <2>1. PICK p \in Packs : p = job.rec.pack
    BY JobFields
  <2>2. /\ UNCHANGED <<durable, crashes, drops>> /\ job.kind = "install" /\ job.step = "check"
        /\ \/ Return /\ UNCHANGED live /\ UNCHANGED faulty
           \/ /\ Installed(p) /\ TakeDown(p) /\ UNCHANGED proc
              /\ job' = [job EXCEPT !.step = "revoke", !.tx = Current(p)]
           \/ TakeDownFails(p) /\ ReturnError
           \/ Goto("begin") /\ UNCHANGED live /\ UNCHANGED faulty
    BY <1>1, <2>1 DEF Check, Busy
  <2>3. live' \in [Resources -> Contents] /\ hit' \in BOOLEAN /\ faults' \in 0 .. MaxFaults
    BY <2>2, TakingDownTyped, FaultTyped DEF OtherTypes
  <2>4. CASE Return \/ ReturnError
    BY <2>2, <2>3, <2>4, ReturnTyped DEF StoreTypes, OtherTypes, durable
  <2>5. CASE Installed(p) /\ UNCHANGED proc /\ job' = [job EXCEPT !.step = "revoke", !.tx = Current(p)]
    <3>1. Current(p) \in Txs /\ Current(p) \in 0 .. MaxTx /\ "revoke" \in Steps
      BY <2>5, CurrentTyped, JobFields DEF Steps
    <3>2. /\ job' \in JobRec /\ job'.kind = job.kind /\ job'.rec = job.rec /\ job'.tx = Current(p)
          /\ job'.step = "revoke"
      BY <1>0, <2>5, <3>1 DEF JobRec
    <3>3. JobTypes'
      BY <2>2, <3>1, <3>2 DEF JobTypes, Opening, durable
    <3> QED
      BY <1>0, <2>2, <2>3, <2>5, <3>2, <3>3 DEF StoreTypes, OtherTypes, durable
  <2>6. CASE Goto("begin")
    <3>1. job' \in JobRec /\ job'.kind = job.kind /\ job'.rec = job.rec /\ job'.step = "begin" /\ proc' = proc
      BY <2>6, GotoTyped DEF Steps
    <3>2. JobTypes'
      BY <2>2, <3>1 DEF JobTypes, Opening, TxSteps, durable
    <3> QED
      BY <1>0, <2>2, <2>3, <3>1, <3>2 DEF StoreTypes, OtherTypes, durable
  <2> QED
    BY <2>2, <2>4, <2>5, <2>6
<1>2. CASE Revoke
  <2>1. /\ UNCHANGED <<files, journal, owned, live, crashes, drops>> /\ job.step = "revoke"
        /\ job.kind \in {"install", "rollback", "remove"}
        /\ UNCHANGED faulty \/ Fault
        /\ \/ Goto(IF job.kind = "install" THEN "begin" ELSE "load")
           \/ ReturnError
        /\ grants' \in {grants, {g \in grants : g[1] # job.tx}}
    BY <1>2 DEF Revoke, Busy
  <2>2. StoreTypes' /\ grants' \subseteq Txs \X Workspaces
    BY <2>1 DEF StoreTypes, OtherTypes
  <2>3. job' \in JobRec /\ JobTypes' /\ proc' \in {"down", "idle", "busy"}
    <3>1. CASE ReturnError
      BY <3>1, ReturnTyped
    <3>2. CASE Goto("begin") /\ job.kind = "install"
      <4>1. job' \in JobRec /\ job'.kind = job.kind /\ job'.rec = job.rec /\ job'.step = "begin" /\ proc' = proc
        BY <3>2, GotoTyped DEF Steps
      <4> QED
        BY <1>0, <2>1, <4>1 DEF JobTypes, Opening, TxSteps
    <3>3. CASE Goto("load") /\ job.kind # "install"
      <4>1. /\ job' \in JobRec /\ job'.kind = job.kind /\ job'.rec = job.rec /\ job'.step = "load"
            /\ job'.tx = job.tx /\ proc' = proc
        BY <3>3, GotoTyped DEF Steps
      <4> QED
        BY <1>0, <2>1, <3>3, <4>1 DEF JobTypes, Opening, TxSteps
    <3> QED
      BY <2>1, <3>1, <3>2, <3>3
  <2> QED
    BY <2>1, <2>2, <2>3, FaultTyped DEF OtherTypes
<1>3. CASE Begin
  <2>1. PICK t : t = CHOOSE u \in Txs : journal[u].status = "none"
    OBVIOUS
  <2>2. /\ UNCHANGED <<files, owned, grants, live, crashes, drops>>
        /\ job.kind = "install" /\ job.step = "begin"
        /\ \/ /\ Save(t, job.rec) /\ UNCHANGED proc
              /\ job' = [job EXCEPT !.step = "applying", !.tx = t]
           \/ SaveFails(t, job.rec) /\ ReturnError
    BY <1>3, <2>1 DEF Begin, Busy
  <2>3. t \in Txs /\ t \in 0 .. MaxTx
    BY <2>1, <2>2, JobFields DEF JobTypes, Opening
  <2>4. job' \in JobRec /\ JobTypes' /\ proc' \in {"down", "idle", "busy"}
    <3>1. CASE ReturnError
      BY <3>1, ReturnTyped
    <3>2. CASE UNCHANGED proc /\ job' = [job EXCEPT !.step = "applying", !.tx = t]
      <4>1. /\ job' \in JobRec /\ job'.kind = job.kind /\ job'.rec = job.rec /\ job'.tx = t
            /\ job'.step = "applying"
        BY <1>0, <2>3, <3>2 DEF JobRec, Steps
      <4> QED
        BY <1>0, <2>3, <3>2, <4>1, OnwardTyped DEF Opening
    <3> QED
      BY <2>2, <3>1, <3>2
  <2>5. Save(t, job.rec) \/ SaveFails(t, job.rec)
    BY <2>2
  <2> QED
    BY <2>2, <2>3, <2>4, <2>5, SavesTyped, JobFields
<1> QED
  BY <1>1, <1>2, <1>3

\* What changes a pack is in the domain of files.
LEMMA ChangesTyped ==
    ASSUME NEW p \in Packs, NEW v
    PROVE  Changes(p, v) \in SUBSET Resources
BY ConstantTypes DEF Changes

\* An installation that applies its resources.
LEMMA ApplyingTyped ==
    ASSUME TypeInv, Applying \/ Snapshot \/ Apply
    PROVE  TypeInv'
<1> USE DEF TypeInv
<1>0. /\ proc = "busy" /\ job \in JobRec /\ JobTypes /\ job.kind = "install" /\ job.tx \in Txs
      /\ job.step \in {"applying", "snapshot", "apply"}
  BY DEF Applying, Snapshot, Apply, Busy, JobTypes, TxSteps
<1>1. CASE Applying
  <2>1. PICK rec : rec = [job.rec EXCEPT !.status = "applying"]
    OBVIOUS
  <2>2. rec \in Record /\ rec.pack = job.rec.pack /\ rec.ver = job.rec.ver
    BY <2>1, JobFields, Restatus DEF Statuses
  <2>3. PICK T \in SUBSET Resources : T = Changes(rec.pack, rec.ver)
    BY <2>2, ChangesTyped, RecordFields
  <2>4. /\ UNCHANGED <<files, owned, grants, live, crashes, drops>>
        /\ \/ /\ Save(job.tx, rec) /\ UNCHANGED proc
              /\ job' = [job EXCEPT !.step = "snapshot", !.rec = rec, !.todo = T]
           \/ SaveFails(job.tx, rec) /\ ReturnError
    BY <1>1, <2>1, <2>3 DEF Applying, Busy
  <2>5. job' \in JobRec /\ JobTypes' /\ proc' \in {"down", "idle", "busy"}
    <3>1. CASE ReturnError
      BY <3>1, ReturnTyped
    <3>2. CASE UNCHANGED proc /\ job' = [job EXCEPT !.step = "snapshot", !.rec = rec, !.todo = T]
      <4>1. /\ job' \in JobRec /\ job'.kind = job.kind /\ job'.rec = rec /\ job'.tx = job.tx
            /\ job'.step = "snapshot"
        BY <1>0, <2>2, <3>2 DEF JobRec, Steps
      <4> QED
        BY <1>0, <2>2, <3>2, <4>1, OnwardTyped DEF Opening
    <3> QED
      BY <2>4, <3>1, <3>2
  <2>6. Save(job.tx, rec) \/ SaveFails(job.tx, rec)
    BY <2>4
  <2> QED
    BY <1>0, <2>2, <2>4, <2>5, <2>6, SavesTyped
<1>2. CASE Snapshot
  <2>1. PICK r : r = InHand
    OBVIOUS
  <2>2. PICK rec : rec = [job.rec EXCEPT !.snap[r] = files[r]]
    OBVIOUS
  <2>3. rec \in Record /\ rec.pack = job.rec.pack /\ rec.ver = job.rec.ver
    BY <2>2, JobFields DEF Record, StoreTypes
  <2>4. /\ UNCHANGED <<files, owned, grants, live, crashes, drops>>
        /\ \/ /\ Save(job.tx, rec) /\ UNCHANGED proc
              /\ job' = [job EXCEPT !.step = "apply", !.rec = rec]
           \/ SaveFails(job.tx, rec) /\ Undo(rec)
           \/ Fault /\ Undo(job.rec) /\ UNCHANGED journal
    BY <1>2, <2>1, <2>2 DEF Snapshot, Busy
  <2>5. job' \in JobRec /\ JobTypes' /\ proc' \in {"down", "idle", "busy"}
    <3>1. ASSUME NEW x \in Record, Undo(x), x.pack = job.rec.pack, x.ver = job.rec.ver
          PROVE  job' \in JobRec /\ JobTypes' /\ proc' = "busy"
      <4>1. /\ job' \in JobRec /\ job'.kind = job.kind /\ job'.rec = x /\ job'.tx = job.tx
            /\ job'.step = "mark" /\ proc' = proc
        BY <3>1, UndoTyped
      <4> QED
        BY <1>0, <3>1, <4>1, OnwardTyped DEF Opening
    <3>2. CASE UNCHANGED proc /\ job' = [job EXCEPT !.step = "apply", !.rec = rec]
      <4>1. /\ job' \in JobRec /\ job'.kind = job.kind /\ job'.rec = rec /\ job'.tx = job.tx
            /\ job'.step = "apply"
        BY <1>0, <2>3, <3>2 DEF JobRec, Steps
      <4> QED
        BY <1>0, <2>3, <3>2, <4>1, OnwardTyped DEF Opening
    <3> QED
      BY <2>3, <2>4, <3>1, <3>2, JobFields
  <2>6. CASE Save(job.tx, rec) \/ SaveFails(job.tx, rec)
    BY <1>0, <2>3, <2>4, <2>5, <2>6, SavesTyped
  <2>7. CASE Fault /\ UNCHANGED journal
    BY <2>4, <2>5, <2>7, FaultTyped, OtherTypesStay DEF StoreTypes
  <2> QED
    BY <2>4, <2>6, <2>7
<1>3. CASE Apply
  <2>1. PICK r : r = InHand
    OBVIOUS
  <2>2. PICK placed : placed = [files EXCEPT ![r] = Content[job.rec.pack][job.rec.ver][r]]
    OBVIOUS
  <2>3. placed \in [Resources -> Contents]
    BY <1>0, <2>2, JobFields, ConstantTypes DEF StoreTypes, JobTypes
  <2>4. /\ UNCHANGED <<journal, owned, grants, live, crashes, drops>>
        /\ \/ /\ files' = placed /\ UNCHANGED <<proc, faulty>>
              /\ job' = [job EXCEPT !.step = "snapshot", !.todo = job.todo \ {r}]
           \/ Fault /\ files' \in {files, placed} /\ Undo(job.rec)
    BY <1>3, <2>1, <2>2 DEF Apply, Busy
  <2>5. job' \in JobRec /\ JobTypes' /\ proc' \in {"down", "idle", "busy"}
    <3>1. CASE Undo(job.rec)
      <4>1. /\ job' \in JobRec /\ job'.kind = job.kind /\ job'.rec = job.rec /\ job'.tx = job.tx
            /\ job'.step = "mark" /\ proc' = proc
        BY <3>1, UndoTyped, JobFields
      <4> QED
        BY <1>0, <3>1, <4>1, OnwardTyped DEF Opening
    <3>2. CASE UNCHANGED proc /\ job' = [job EXCEPT !.step = "snapshot", !.todo = job.todo \ {r}]
      <4>0. PICK T \in SUBSET Resources : T = job.todo \ {r}
        BY JobFields
      <4>1. /\ job' \in JobRec /\ job'.kind = job.kind /\ job'.rec = job.rec /\ job'.tx = job.tx
            /\ job'.step = "snapshot"
        BY <1>0, <3>2, <4>0 DEF JobRec, Steps
      <4> QED
        BY <1>0, <3>2, <4>1, OnwardTyped DEF Opening
    <3> QED
      BY <2>4, <3>1, <3>2
  <2>6. StoreTypes' /\ (UNCHANGED faulty \/ Fault)
    BY <2>3, <2>4 DEF StoreTypes
  <2> QED
    BY <2>4, <2>5, <2>6, FaultTyped, OtherTypesStay
<1> QED
  BY <1>1, <1>2, <1>3

\* An installation that commits.
LEMMA CommittingTyped ==
    ASSUME TypeInv, AwaitCommit \/ Decide \/ Own \/ MarkCommitted
    PROVE  TypeInv'
<1> USE DEF TypeInv
<1>0. /\ proc = "busy" /\ job \in JobRec /\ JobTypes /\ job.kind = "install" /\ job.tx \in Txs
      /\ job.rec \in Record
  BY JobFields DEF AwaitCommit, Decide, Own, MarkCommitted, Busy, JobTypes, TxSteps
<1>1. ASSUME NEW rec \in Record, rec.pack = job.rec.pack, rec.ver = job.rec.ver,
             \/ UNCHANGED proc /\ job' = [job EXCEPT !.step = "decide", !.rec = rec]
             \/ UNCHANGED proc /\ job' = [job EXCEPT !.step = "own", !.rec = rec]
             \/ Undo(rec) \/ Return \/ ReturnError
      PROVE  job' \in JobRec /\ JobTypes' /\ proc' \in {"down", "idle", "busy"}
  <2>1. CASE Undo(rec)
    <3>1. /\ job' \in JobRec /\ job'.kind = job.kind /\ job'.rec = rec /\ job'.tx = job.tx
          /\ job'.step = "mark" /\ proc' = proc
      BY <2>1, UndoTyped
    <3> QED
      BY <1>0, <1>1, <3>1, OnwardTyped DEF Opening
  <2>2. CASE Return \/ ReturnError
    BY <2>2, ReturnTyped
  <2>3. CASE UNCHANGED proc /\ job' = [job EXCEPT !.step = "decide", !.rec = rec]
    <3>1. /\ job' \in JobRec /\ job'.kind = job.kind /\ job'.rec = rec /\ job'.tx = job.tx
          /\ job'.step = "decide"
      BY <1>0, <2>3 DEF JobRec, Steps
    <3> QED
      BY <1>0, <1>1, <2>3, <3>1, OnwardTyped DEF Opening
  <2>4. CASE UNCHANGED proc /\ job' = [job EXCEPT !.step = "own", !.rec = rec]
    <3>1. /\ job' \in JobRec /\ job'.kind = job.kind /\ job'.rec = rec /\ job'.tx = job.tx
          /\ job'.step = "own"
      BY <1>0, <2>4 DEF JobRec, Steps
    <3> QED
      BY <1>0, <1>1, <2>4, <3>1, OnwardTyped DEF Opening
  <2> QED
    BY <1>1, <2>1, <2>2, <2>3, <2>4
<1>2. CASE AwaitCommit
  <2>1. PICK rec : rec = [job.rec EXCEPT !.status = "awaiting_commit"]
    OBVIOUS
  <2>2. rec \in Record /\ rec.pack = job.rec.pack /\ rec.ver = job.rec.ver
    BY <1>0, <2>1, Restatus DEF Statuses
  <2>3. /\ UNCHANGED <<files, owned, grants, live, crashes, drops>>
        /\ \/ /\ Save(job.tx, rec) /\ UNCHANGED proc
              /\ job' = [job EXCEPT !.step = "decide", !.rec = rec]
           \/ SaveFails(job.tx, rec) /\ Undo(rec)
    BY <1>2, <2>1 DEF AwaitCommit
  <2>4. job' \in JobRec /\ JobTypes' /\ proc' \in {"down", "idle", "busy"}
    BY <1>1, <2>2, <2>3
  <2>5. Save(job.tx, rec) \/ SaveFails(job.tx, rec)
    BY <2>3
  <2> QED
    BY <1>0, <2>2, <2>3, <2>4, <2>5, SavesTyped
<1>3. CASE Decide
  <2>1. PICK rec : rec = [job.rec EXCEPT !.status = "commit_decided", !.managed = TRUE]
    OBVIOUS
  <2>2. rec \in Record /\ rec.pack = job.rec.pack /\ rec.ver = job.rec.ver
    BY <1>0, <2>1 DEF Record, Statuses
  <2>3. /\ UNCHANGED <<files, owned, grants, live, crashes, drops>>
        /\ \/ /\ Save(job.tx, rec) /\ UNCHANGED proc
              /\ job' = [job EXCEPT !.step = "own", !.rec = rec]
           \/ SaveFails(job.tx, rec) /\ Undo(rec)
    BY <1>3, <2>1 DEF Decide
  <2>4. job' \in JobRec /\ JobTypes' /\ proc' \in {"down", "idle", "busy"}
    BY <1>1, <2>2, <2>3
  <2>5. Save(job.tx, rec) \/ SaveFails(job.tx, rec)
    BY <2>3
  <2> QED
    BY <1>0, <2>2, <2>3, <2>4, <2>5, SavesTyped
<1>4. CASE Own
  <2>1. /\ UNCHANGED <<files, journal, grants, live, crashes, drops>>
        /\ owned' \in {owned, Listing(job.tx, job.rec)}
        /\ UNCHANGED faulty \/ Fault
        /\ Goto("commit") \/ ReturnError
    BY <1>4 DEF Own
  <2>2. job' \in JobRec /\ JobTypes' /\ proc' \in {"down", "idle", "busy"}
    <3>1. CASE Goto("commit")
      <4>1. /\ job' \in JobRec /\ job'.kind = job.kind /\ job'.rec = job.rec /\ job'.tx = job.tx
            /\ job'.step = "commit" /\ proc' = proc
        BY <3>1, GotoTyped DEF Steps
      <4> QED
        BY <1>0, <4>1, OnwardTyped DEF Opening
    <3> QED
      BY <2>1, <3>1, ReturnTyped
  <2>3. StoreTypes'
    BY <1>0, <2>1, ListingTyped DEF StoreTypes
  <2> QED
    BY <2>1, <2>2, <2>3, FaultTyped, OtherTypesStay
<1>5. CASE MarkCommitted
  <2>1. PICK rec : rec = [job.rec EXCEPT !.status = "committed"]
    OBVIOUS
  <2>2. rec \in Record /\ rec.pack = job.rec.pack /\ rec.ver = job.rec.ver
    BY <1>0, <2>1, Restatus DEF Statuses
  <2>3. /\ UNCHANGED <<files, owned, grants, live, crashes, drops>>
        /\ \/ Save(job.tx, rec) /\ Return
           \/ SaveFails(job.tx, rec) /\ ReturnError
    BY <1>5, <2>1 DEF MarkCommitted
  <2>4. job' \in JobRec /\ JobTypes' /\ proc' \in {"down", "idle", "busy"}
    BY <1>1, <2>2, <2>3
  <2>5. Save(job.tx, rec) \/ SaveFails(job.tx, rec)
    BY <2>3
  <2> QED
    BY <1>0, <2>2, <2>3, <2>4, <2>5, SavesTyped
<1> QED
  BY <1>2, <1>3, <1>4, <1>5

\* A rollback: what is restored was snapshotted.
LEMMA RestoringTyped ==
    ASSUME TypeInv, MarkRollingBack \/ Restore \/ EndRollback
    PROVE  TypeInv'
<1> USE DEF TypeInv
<1>0. /\ proc = "busy" /\ job \in JobRec /\ JobTypes /\ job.tx \in Txs /\ job.rec \in Record
      /\ job.step \in {"mark", "restore"} /\ job.todo \in SUBSET Resources /\ job.errors \in BOOLEAN
      /\ job.rec.snap \in [Resources -> Contents \cup {NoSnapshot}]
  BY JobFields DEF MarkRollingBack, Restore, EndRollback, JobTypes, TxSteps
<1>1. ASSUME NEW rec \in Record, rec.pack = job.rec.pack, rec.ver = job.rec.ver,
             NEW T \in SUBSET Resources, \A r \in T : rec.snap[r] # NoSnapshot, NEW e \in BOOLEAN,
             job' = [job EXCEPT !.step = "restore", !.rec = rec, !.todo = T, !.errors = e],
             UNCHANGED proc
      PROVE  job' \in JobRec /\ JobTypes' /\ proc' \in {"down", "idle", "busy"}
  <2>1. /\ job' \in JobRec /\ job'.kind = job.kind /\ job'.rec = rec /\ job'.tx = job.tx
        /\ job'.step = "restore" /\ job'.todo = T
    BY <1>0, <1>1 DEF JobRec, Steps
  <2> QED
    BY <1>0, <1>1, <2>1 DEF JobTypes, Opening
<1>2. CASE MarkRollingBack
  <2>1. PICK rec : rec = [job.rec EXCEPT !.status = "rolling_back"]
    OBVIOUS
  <2>2. /\ rec \in Record /\ rec.pack = job.rec.pack /\ rec.ver = job.rec.ver
        /\ rec.snap = job.rec.snap
    BY <1>0, <2>1, Restatus DEF Statuses
  <2>3. PICK T : T = {r \in Resources : rec.snap[r] # NoSnapshot}
    OBVIOUS
  <2>4. /\ UNCHANGED <<files, owned, grants, live, proc, crashes, drops>>
        /\ \/ /\ Save(job.tx, rec)
              /\ job' = [job EXCEPT !.step = "restore", !.rec = rec, !.todo = T]
           \/ /\ SaveFails(job.tx, rec)
              /\ job' = [job EXCEPT !.step = "restore", !.rec = rec, !.todo = T, !.errors = TRUE]
    BY <1>2, <2>1, <2>3 DEF MarkRollingBack
  <2>5. PICK e \in BOOLEAN : job' = [job EXCEPT !.step = "restore", !.rec = rec, !.todo = T, !.errors = e]
    <3>1. [job EXCEPT !.step = "restore", !.rec = rec, !.todo = T]
            = [job EXCEPT !.step = "restore", !.rec = rec, !.todo = T, !.errors = job.errors]
      BY <1>0 DEF JobRec
    <3> QED
      BY <1>0, <2>4, <3>1
  <2>6. job' \in JobRec /\ JobTypes' /\ proc' \in {"down", "idle", "busy"}
    <3>1. T \in SUBSET Resources /\ \A r \in T : rec.snap[r] # NoSnapshot
      BY <2>3
    <3> QED
      BY <1>1, <2>2, <2>4, <2>5, <3>1
  <2>7. Save(job.tx, rec) \/ SaveFails(job.tx, rec)
    BY <2>4
  <2> QED
    BY <1>0, <2>2, <2>4, <2>6, <2>7, SavesTyped
<1>3. CASE Restore
  <2>1. PICK r : r = InHand
    OBVIOUS
  <2>2. PICK restored : restored = [files EXCEPT ![r] = job.rec.snap[r]]
    OBVIOUS
  <2>3. /\ UNCHANGED <<owned, grants, live, proc, crashes, drops>>
        /\ job.step = "restore" /\ job.todo # {}
        /\ \/ /\ files' = restored
              /\ Save(job.tx, job.rec) /\ job' = [job EXCEPT !.todo = job.todo \ {r}]
           \/ /\ files' = restored
              /\ SaveFails(job.tx, job.rec)
              /\ job' = [job EXCEPT !.todo = job.todo \ {r}, !.errors = TRUE]
           \/ /\ Fault /\ files' \in {files, restored}
              /\ job' = [job EXCEPT !.todo = job.todo \ {r}, !.errors = TRUE]
              /\ UNCHANGED journal
    BY <1>3, <2>1, <2>2 DEF Restore
  <2>4. r \in job.todo
    BY <2>1, <2>3, <1>0, InHandTodo
  <2>5. restored \in [Resources -> Contents]
    <3>1. r \in Resources /\ job.rec.snap[r] \in Contents
      BY <1>0, <2>3, <2>4 DEF JobTypes
    <3> QED
      BY <2>2, <3>1 DEF StoreTypes
  <2>6. PICK T \in SUBSET Resources : T = job.todo \ {r}
    BY <1>0
  <2>7. job' = [job EXCEPT !.todo = T] \/ job' = [job EXCEPT !.todo = T, !.errors = TRUE]
    BY <2>3, <2>6
  <2>8. /\ job' \in JobRec /\ job'.kind = job.kind /\ job'.rec = job.rec /\ job'.tx = job.tx
        /\ job'.step = "restore" /\ job'.todo = T
    BY <1>0, <2>3, <2>7 DEF JobRec
  <2>9. JobTypes'
    BY <1>0, <2>3, <2>6, <2>8 DEF JobTypes, Opening
  <2>10. files' \in [Resources -> Contents]
    BY <2>3, <2>5 DEF StoreTypes
  <2>11. journal' \in [Txs -> Record] /\ hit' \in BOOLEAN /\ faults' \in 0 .. MaxFaults
    <3>1. CASE Save(job.tx, job.rec) \/ SaveFails(job.tx, job.rec)
      BY <1>0, <3>1, SaveTyped
    <3>2. CASE Fault /\ UNCHANGED journal
      BY <3>2, FaultTyped DEF StoreTypes
    <3> QED
      BY <2>3, <3>1, <3>2
  <2> QED
    BY <1>0, <2>3, <2>8, <2>9, <2>10, <2>11, OtherTypesStay DEF StoreTypes
<1>4. CASE EndRollback
  <2>1. PICK rec : rec = [job.rec EXCEPT !.status = IF job.errors THEN "compensation_failed"
                                                    ELSE "rolled_back"]
    OBVIOUS
  <2>2. rec \in Record
    BY <1>0, <2>1, Restatus DEF Statuses
  <2>3. /\ UNCHANGED <<files, owned, grants, live, crashes, drops>> /\ job.step = "restore"
        /\ \/ Save(job.tx, rec) /\ (ReturnError \/ RolledBack)
           \/ SaveFails(job.tx, rec) /\ ReturnError
    BY <1>4, <2>1 DEF EndRollback
  <2>4. job' \in JobRec /\ JobTypes' /\ proc' \in {"down", "idle", "busy"}
    <3>1. ASSUME NEW s \in {"scan", "unlist"}, Goto(s)
          PROVE  job' \in JobRec /\ JobTypes' /\ proc' = "busy"
      <4>1. /\ job' \in JobRec /\ job'.kind = job.kind /\ job'.rec = job.rec /\ job'.tx = job.tx
            /\ job'.step = s /\ proc' = proc
        BY <3>1, GotoTyped DEF Steps
      <4> QED
        BY <1>0, <4>1, OnwardTyped DEF Opening
    <3>2. RolledBack => Return \/ Goto("scan") \/ Goto("unlist")
      BY DEF RolledBack
    <3> QED
      BY <2>3, <3>1, <3>2, ReturnTyped
  <2>5. Save(job.tx, rec) \/ SaveFails(job.tx, rec)
    BY <2>3
  <2> QED
    BY <1>0, <2>2, <2>3, <2>4, <2>5, SavesTyped
<1> QED
  BY <1>2, <1>3, <1>4

\* rollback and remove, beside the rollback of the transaction itself.
LEMMA WithdrawingTyped ==
    ASSUME TypeInv, Withdraw \/ Load \/ Unlist
    PROVE  TypeInv'
<1> USE DEF TypeInv
<1>0. /\ proc = "busy" /\ job \in JobRec /\ JobTypes /\ job.kind \in {"rollback", "remove"}
      /\ job.rec \in Record
  BY JobFields DEF Withdraw, Load, Unlist, Busy
<1>1. CASE Withdraw
  <2>1. PICK p \in Packs : p = job.rec.pack
    BY JobFields
  <2>2. /\ UNCHANGED <<durable, crashes, drops>>
        /\ \/ Return /\ UNCHANGED live /\ UNCHANGED faulty
           \/ /\ Installed(p) /\ TakeDown(p) /\ UNCHANGED proc
              /\ job' = [job EXCEPT !.step = "revoke", !.tx = Current(p)]
           \/ TakeDownFails(p) /\ ReturnError
    BY <1>1, <2>1 DEF Withdraw, Busy
  <2>3. live' \in [Resources -> Contents] /\ hit' \in BOOLEAN /\ faults' \in 0 .. MaxFaults
    BY <2>2, TakingDownTyped, FaultTyped DEF OtherTypes
  <2>4. CASE Return \/ ReturnError
    BY <2>2, <2>3, <2>4, ReturnTyped DEF StoreTypes, OtherTypes, durable
  <2>5. CASE Installed(p) /\ UNCHANGED proc /\ job' = [job EXCEPT !.step = "revoke", !.tx = Current(p)]
    <3>1. Current(p) \in Txs /\ Current(p) \in 0 .. MaxTx
      BY <2>5, CurrentTyped, JobFields
    <3>2. /\ job' \in JobRec /\ job'.kind = job.kind /\ job'.rec = job.rec /\ job'.tx = Current(p)
          /\ job'.step = "revoke"
      BY <1>0, <2>5, <3>1 DEF JobRec, Steps
    <3>3. JobTypes'
      BY <1>0, <2>2, <3>1, <3>2 DEF JobTypes, Opening, durable
    <3> QED
      BY <1>0, <2>2, <2>3, <2>5, <3>2, <3>3 DEF StoreTypes, OtherTypes, durable
  <2> QED
    BY <2>2, <2>4, <2>5
<1>2. CASE Load
  <2>1. PICK old : old = journal[job.tx]
    OBVIOUS
  <2>2. PICK rec : rec = [old EXCEPT !.status = "rolling_back"]
    OBVIOUS
  <2>3. job.tx \in Txs /\ job.step = "load"
    BY <1>0, <1>2 DEF JobTypes, TxSteps, Load, Busy
  <2>4. rec \in Record
    BY <2>1, <2>2, <2>3, Restatus DEF StoreTypes, Statuses
  <2>5. /\ UNCHANGED <<files, owned, grants, live, crashes, drops>>
        /\ \/ Save(job.tx, rec) /\ Undo(rec)
           \/ SaveFails(job.tx, rec) /\ ReturnError
           \/ ReturnError /\ UNCHANGED <<journal, faulty>>
    BY <1>2, <2>1, <2>2 DEF Load
  <2>6. job' \in JobRec /\ JobTypes' /\ proc' \in {"down", "idle", "busy"}
    <3>1. CASE Undo(rec)
      <4>1. /\ job' \in JobRec /\ job'.kind = job.kind /\ job'.rec = rec /\ job'.tx = job.tx
            /\ job'.step = "mark" /\ proc' = proc
        BY <2>4, <3>1, UndoTyped
      <4> QED
        BY <1>0, <2>3, <4>1 DEF JobTypes, Opening
    <3> QED
      BY <2>5, <3>1, ReturnTyped
  <2>7. CASE Save(job.tx, rec) \/ SaveFails(job.tx, rec)
    BY <2>3, <2>4, <2>5, <2>6, <2>7, SavesTyped
  <2>8. CASE UNCHANGED <<journal, faulty>>
    BY <2>5, <2>6, <2>8, FaultTyped, OtherTypesStay DEF StoreTypes
  <2> QED
    BY <2>5, <2>7, <2>8
<1>3. CASE Unlist
  <2>1. /\ UNCHANGED <<files, journal, grants, live, crashes, drops>> /\ job.step = "unlist"
        /\ owned' \in {owned, Unlisting(job.tx)}
        /\ UNCHANGED faulty \/ Fault
        /\ Goto("withdraw") \/ Return \/ ReturnError
    BY <1>3 DEF Unlist, Busy
  <2>2. job' \in JobRec /\ JobTypes' /\ proc' \in {"down", "idle", "busy"}
    <3>1. CASE Goto("withdraw")
      <4>1. /\ job' \in JobRec /\ job'.kind = job.kind /\ job'.step = "withdraw" /\ proc' = proc
        BY <3>1, GotoTyped DEF Steps
      <4> QED
        BY <1>0, <4>1 DEF JobTypes, TxSteps
    <3> QED
      BY <2>1, <3>1, ReturnTyped
  <2>3. StoreTypes'
    <3>1. job.tx \in Txs
      BY <1>0, <2>1 DEF JobTypes, TxSteps
    <3> QED
      BY <1>0, <2>1, <3>1, ListingTyped DEF StoreTypes
  <2> QED
    BY <2>1, <2>2, <2>3, FaultTyped, OtherTypesStay
<1> QED
  BY <1>1, <1>2, <1>3

\* recover, and the activations after it.
LEMMA StartingTyped ==
    ASSUME TypeInv, Scan \/ Settle \/ SettleGrants \/ Reactivate
    PROVE  TypeInv'
<1> USE DEF TypeInv
<1>0. /\ proc = "busy" /\ job \in JobRec /\ JobTypes /\ job.kind = "start"
      /\ job.step \in {"scan", "settle", "activate"}
  BY DEF Scan, Settle, SettleGrants, Reactivate, Busy
<1>1. ASSUME NEW s \in {"settle", "activate"}, Goto(s)
      PROVE  job' \in JobRec /\ JobTypes' /\ proc' = "busy"
  <2>1. job' \in JobRec /\ job'.kind = job.kind /\ job'.step = s /\ proc' = proc
    BY <1>1, GotoTyped DEF Steps
  <2> QED
    BY <1>0, <2>1 DEF JobTypes, TxSteps
<1>2. CASE Scan
  <2>1. UNCHANGED <<durable, live, bounds>>
    BY <1>2 DEF Scan
  <2>2. job' \in JobRec /\ JobTypes' /\ proc' \in {"down", "idle", "busy"}
    <3>1. CASE \E t \in Txs : UNCHANGED proc /\ job' = [job EXCEPT !.step = "mark", !.tx = t, !.rec = journal[t]]
      <4>1. PICK t \in Txs : UNCHANGED proc /\ job' = [job EXCEPT !.step = "mark", !.tx = t, !.rec = journal[t]]
        BY <3>1
      <4>2. journal[t] \in Record /\ t \in 0 .. MaxTx
        BY JobFields DEF StoreTypes
      <4>3. /\ job' \in JobRec /\ job'.kind = job.kind /\ job'.tx = t /\ job'.step = "mark"
        BY <1>0, <4>1, <4>2 DEF JobRec, Steps
      <4> QED
        BY <1>0, <4>1, <4>3 DEF JobTypes, Opening
    <3>2. \/ ReturnError \/ Goto("settle")
          \/ \E t \in Txs : UNCHANGED proc /\ job' = [job EXCEPT !.step = "mark", !.tx = t, !.rec = journal[t]]
      BY <1>2 DEF Scan, Unsettled
    <3> QED
      BY <1>1, <3>1, <3>2, ReturnTyped
  <2> QED
    BY <2>1, <2>2 DEF StoreTypes, OtherTypes, durable, bounds, faulty
<1>3. CASE Settle
  <2>1. PICK t \in Txs :
          /\ owned' \in {owned, Unlisting(t)}
          /\ UNCHANGED faulty \/ Fault
          /\ UNCHANGED <<proc, job>> \/ ReturnError
    BY <1>3 DEF Settle, TakenBack
  <2>2. UNCHANGED <<files, journal, grants, live, crashes, drops>>
    BY <1>3 DEF Settle
  <2>3. job' \in JobRec /\ JobTypes' /\ proc' \in {"down", "idle", "busy"}
    BY <1>0, <2>1, <2>2, ReturnTyped DEF JobTypes
  <2>4. PICK rec \in Record : TRUE
    BY AnyRecordTyped
  <2>5. StoreTypes'
    BY <2>1, <2>2, <2>4, ListingTyped DEF StoreTypes
  <2> QED
    BY <2>1, <2>2, <2>3, <2>5, FaultTyped, OtherTypesStay
<1>4. CASE SettleGrants
  <2>1. /\ UNCHANGED <<files, journal, owned, live, crashes, drops>>
        /\ UNCHANGED faulty \/ Fault
        /\ Goto("activate") \/ ReturnError
        /\ grants' \subseteq grants
    BY <1>4 DEF SettleGrants
  <2>2. job' \in JobRec /\ JobTypes' /\ proc' \in {"down", "idle", "busy"}
    BY <1>1, <2>1, ReturnTyped
  <2> QED
    BY <2>1, <2>2, FaultTyped DEF StoreTypes, OtherTypes
<1>5. CASE Reactivate
  <2>1. /\ UNCHANGED <<files, journal, owned, crashes, drops>>
        /\ UNCHANGED faulty \/ Fault
        /\ Return
        /\ grants' \subseteq grants
        /\ UNCHANGED live \/ \E P \in SUBSET Packs : live' = Activated(P)
    <3>1. PICK kept : kept = {g \in grants : \E p \in Packs : Installed(p) /\ g[1] = Current(p)}
      OBVIOUS
    <3>2. PICK G \in SUBSET Packs : G = GrantedPacks(kept)
      BY DEF GrantedPacks
    <3> QED
      BY <1>5, <3>1, <3>2 DEF Reactivate
  <2>2. live' \in [Resources -> Contents]
    <3>1. PICK p \in Packs : TRUE
      BY PackAssumption
    <3> QED
      BY <2>1, <3>1, LiveTyped DEF OtherTypes
  <2> QED
    BY <2>1, <2>2, FaultTyped, ReturnTyped DEF StoreTypes, OtherTypes
<1> QED
  BY <1>2, <1>3, <1>4, <1>5

\* The activations that users ask for.
LEMMA GrantingTyped ==
    ASSUME TypeInv,
           Answer \/ \E p \in Packs, w \in Workspaces : Activate(p, w) \/ RevokeActivation(p, w)
    PROVE  TypeInv'
<1> USE DEF TypeInv
<1>1. CASE Answer
  <2>1. job.kind = "grant" /\ job.step = "prompt"
    BY <1>1 DEF Answer, Busy
  <2>2. /\ UNCHANGED <<files, journal, owned, live, crashes, drops>>
        /\ UNCHANGED faulty \/ Fault
        /\ Return \/ ReturnError
        /\ grants' \in {grants, grants \cup {<<job.tx, job.workspace>>}}
    BY <1>1 DEF Answer
  <2>3. job.workspace \in Workspaces /\ job.tx \in Txs
    BY <2>1, JobFields DEF JobTypes, TxSteps
  <2> QED
    BY <2>2, <2>3, FaultTyped, ReturnTyped DEF StoreTypes, OtherTypes
<1>2. ASSUME NEW p \in Packs, NEW w \in Workspaces, Activate(p, w) PROVE TypeInv'
  <2>1. /\ UNCHANGED <<durable, proc, job, crashes, drops>>
        /\ UNCHANGED faulty \/ Fault
        /\ live' \in {live, Activated({p})}
    BY <1>2 DEF Activate
  <2>2. {p} \in SUBSET Packs /\ live' \in [Resources -> Contents]
    BY <2>1, LiveTyped DEF OtherTypes
  <2> QED
    BY <2>1, <2>2, FaultTyped DEF StoreTypes, OtherTypes, durable, JobTypes
<1>3. ASSUME NEW p \in Packs, NEW w \in Workspaces, RevokeActivation(p, w) PROVE TypeInv'
  <2>1. /\ UNCHANGED <<files, journal, owned, proc, job, crashes, drops>>
        /\ \/ UNCHANGED live /\ (UNCHANGED faulty \/ Fault)
           \/ TakeDown(p) \/ TakeDownFails(p)
        /\ grants' \subseteq grants
    BY <1>3 DEF RevokeActivation
  <2>2. live' \in [Resources -> Contents] /\ (UNCHANGED faulty \/ Fault)
    BY <2>1, TakingDownTyped DEF OtherTypes
  <2> QED
    BY <2>1, <2>2, FaultTyped DEF StoreTypes, OtherTypes, JobTypes
<1> QED
  BY <1>1, <1>2, <1>3

\* The end of a process.
LEMMA EndingTyped ==
    ASSUME TypeInv, Crash \/ Stop
    PROVE  TypeInv'
<1> USE DEF TypeInv
<1>1. PICK p \in Packs : TRUE
  BY PackAssumption
<1>2. Nothing \in [Resources -> Contents]
  BY <1>1, LiveTyped
<1>3. CASE Crash
  <2>1. /\ UNCHANGED <<journal, owned, grants, faulty, drops>> /\ Down
        /\ crashes < MaxCrashes /\ crashes' = crashes + 1
        /\ UNCHANGED files \/ \E r : files' = [files EXCEPT ![r] = NoContent]
    BY <1>3 DEF Crash
  <2>2. files' \in [Resources -> Contents]
    BY <2>1, ConstantTypes DEF StoreTypes
  <2>3. crashes' \in 0 .. MaxCrashes
    BY <2>1, PackAssumption DEF OtherTypes
  <2> QED
    BY <1>2, <2>1, <2>2, <2>3, ReturnTyped DEF StoreTypes, OtherTypes, faulty, Down
<1>4. CASE Stop
  BY <1>2, <1>4, ReturnTyped DEF Stop, Down, StoreTypes, OtherTypes, durable, bounds, faulty
<1> QED
  BY <1>3, <1>4

\* No step breaks the types.
LEMMA TypesKept ==
    ASSUME TypeInv, [Next]_vars
    PROVE  TypeInv'
<1>1. CASE Proceed
  BY <1>1, CallsTyped, ReconcileTyped, OpeningTyped, ApplyingTyped, CommittingTyped, RestoringTyped,
     WithdrawingTyped, StartingTyped DEF Proceed
<1>2. CASE Answer \/ Crash \/ Stop
  BY <1>2, GrantingTyped, EndingTyped
<1>3. ASSUME NEW p \in Packs, Call(p) PROVE TypeInv'
  BY <1>3, CallsTyped, GrantingTyped DEF Call
<1>4. CASE UNCHANGED vars
  BY <1>4 DEF vars, durable, bounds, faulty, TypeInv, StoreTypes, OtherTypes, JobTypes
<1> QED
  BY <1>1, <1>2, <1>3, <1>4 DEF Next

\* Before the first start.
LEMMA TypesInit == Init => TypeInv
<1> SUFFICES ASSUME Init PROVE TypeInv
  OBVIOUS
<1>1. StoreTypes
  <2>1. files \in [Resources -> Contents]
    BY ContentsAssumption DEF Init
  <2>2. journal \in [Txs -> Record]
    BY AnyRecordTyped DEF Init
  <2>3. owned \in [Packs -> Seq(Txs)]
    <3>1. << >> \in Seq(Txs)
      BY EmptySeq
    <3> QED
      BY <3>1 DEF Init
  <2> QED
    BY <2>1, <2>2, <2>3 DEF StoreTypes
<1>2. OtherTypes
  <2>1. live \in [Resources -> Contents]
    BY ConstantTypes DEF Init, Nothing
  <2>2. 0 \in 0 .. MaxCrashes /\ 0 \in 0 .. MaxFaults /\ 0 \in 0 .. MaxDrops
    BY PackAssumption
  <2> QED
    BY <2>1, <2>2 DEF Init, OtherTypes
<1>3. job \in JobRec /\ JobTypes
  BY NoJobTyped DEF Init, JobTypes, TxSteps
<1> QED
  BY <1>1, <1>2, <1>3 DEF TypeInv

\* The history is set once and for all, and tells of packs.
LEMMA HistoryTyped ==
    ASSUME overlaid \in BOOLEAN, loose \subseteq Packs, [Next]_vars
    PROVE  overlaid' \in BOOLEAN /\ (overlaid => overlaid') /\ loose' \subseteq Packs
<1>1. CASE Start \/ Stop \/ Crash
  BY <1>1 DEF Start, Stop, Crash, Down, bounds
<1>2. CASE ReconcileOwnership \/ ReconcileCommit \/ Reconciled \/ Scan \/ Settle \/ SettleGrants \/ Reactivate
  BY <1>2 DEF ReconcileOwnership, ReconcileCommit, Reconciled, Scan, Settle, SettleGrants, Reactivate, bounds
<1>3. CASE Check \/ Revoke \/ Begin \/ Withdraw \/ Load \/ Unlist
  BY <1>3 DEF Check, Revoke, Begin, Withdraw, Load, Unlist, TakeDown, bounds
<1>4. CASE Applying \/ Snapshot \/ Apply \/ AwaitCommit \/ Decide \/ Own \/ MarkCommitted
  BY <1>4 DEF Applying, Snapshot, Apply, AwaitCommit, Decide, Own, MarkCommitted
<1>5. CASE MarkRollingBack \/ Restore \/ EndRollback \/ Answer
  BY <1>5 DEF MarkRollingBack, Restore, EndRollback, Answer
<1>6. ASSUME NEW p \in Packs, Call(p)
      PROVE  overlaid' \in BOOLEAN /\ (overlaid => overlaid') /\ loose' \subseteq Packs
  <2>1. CASE \/ CallRollback(p) \/ \E v \in DOMAIN Content[p] : CallInstall(p, v)
             \/ \E w \in Workspaces : Ask(p, w)
    BY <2>1 DEF CallRollback, CallInstall, Ask, Take, bounds
  <2>2. ASSUME NEW w \in Workspaces, Activate(p, w) \/ RevokeActivation(p, w)
        PROVE  UNCHANGED overlaid /\ loose' \subseteq loose \cup {p}
    BY <2>2 DEF Activate, RevokeActivation, TakeDown
  <2> QED
    BY <1>6, <2>1, <2>2 DEF Call
<1>7. CASE UNCHANGED vars
  BY <1>7 DEF vars, bounds
<1> QED
  BY <1>1, <1>2, <1>3, <1>4, <1>5, <1>6, <1>7 DEF Next, Proceed

\* Every variable keeps its type, whatever fails or crashes.
THEOREM TypeCorrect == Spec => []TypeOK
<1> DEFINE HInv == TypeInv /\ overlaid \in BOOLEAN /\ loose \subseteq Packs
<1>1. HInv => TypeOK
  BY DEF TypeInv, StoreTypes, OtherTypes, JobRec, TypeOK
<1>2. Init => HInv
  BY TypesInit DEF Init
<1>3. HInv /\ [Next]_vars => HInv'
  BY TypesKept, HistoryTyped
<1> QED
  BY <1>1, <1>2, <1>3, PTL DEF Spec
------------------------------------------------------------------------------
(* The stores: the versions that are installed, and the transaction that is *)
(* open.                                                                    *)

BuildingStatuses == {"prepared", "applying", "awaiting_commit"}
UndoneStatuses == {"rolling_back", "rolled_back", "compensation_failed"}

\* The transactions that are not over: those that a start settles first.
Pending == {t \in Txs : \/ journal[t].status \notin Settled
                        \/ journal[t].status = "rolled_back" /\ t \in Listed}

\* What r holds when the first n versions of p are installed.
Under(p, n, r) == IF n = 0 THEN Before[r] ELSE Content[p][journal[owned[p][n]].ver][r]

\* The versions of p that stand: the current one does not when it is taken back.
Depth(p) == IF Installed(p) /\ Current(p) \in Undone THEN Len(owned[p]) - 1 ELSE Len(owned[p])
Target(p, r) == Under(p, Depth(p), r)

\* What is taken back by the snapshots of rec.
Reverted(rec, r) == IF rec.snap[r] = NoSnapshot THEN Content[rec.pack][rec.ver][r] ELSE rec.snap[r]

SnapsWithin(rec) == \A r \in Resources \ ResourcesOf[rec.pack] : rec.snap[r] = NoSnapshot

\* An installed version is a managed commit of its pack, and only the current
\* one can be under way or taken back.  Its snapshots are what was there before.
StackAt(p, i) ==
    LET t == owned[p][i]  rec == journal[t] IN
    /\ rec.pack = p /\ rec.managed /\ rec.ver \in DOMAIN Content[p]
    /\ \/ rec.status = "committed"
       \/ i = Len(owned[p]) /\ rec.status \in UndoneStatuses \cup {"commit_decided"}
    /\ SnapsWithin(rec)
    /\ \A r \in ResourcesOf[p] : Reverted(rec, r) = Under(p, i - 1, r)

Stacks == \A p \in Packs :
            /\ IsInjective(owned[p])
            /\ \A i \in 1 .. Len(owned[p]) : StackAt(p, i)
            /\ Installed(p) => ~OwnedByOther(p)

DecisionsKept == \A t \in Txs : /\ journal[t].status \in Decided => journal[t].managed
                                /\ journal[t].status = "committed" => t \in Listed

OnePending == \A t, u \in Pending : t = u

\* The resources that a rollback by rec leaves alone are as they should be.
Undoable(rec) ==
    \A r \in ResourcesOf[rec.pack] :
        \/ rec.snap[r] = Target(rec.pack, r)
        \/ rec.snap[r] = NoSnapshot /\ files[r] = Target(rec.pack, r)

Applied(rec) == \A r \in ResourcesOf[rec.pack] : files[r] = Content[rec.pack][rec.ver][r]
Restored(p) == \A r \in ResourcesOf[p] : files[r] = Target(p, r)

\* What is known of the open transaction.
Sound(t) ==
    LET rec == journal[t] IN
    /\ ~OwnedByOther(rec.pack) /\ SnapsWithin(rec) /\ rec.ver \in DOMAIN Content[rec.pack]
    /\ rec.status \in BuildingStatuses => t \notin Listed /\ Undoable(rec)
    /\ rec.status = "rolling_back" => Undoable(rec)
    /\ rec.status = "rolled_back" => Restored(rec.pack)
    /\ rec.status = "commit_decided" =>
         /\ Applied(rec)
         /\ t \notin Listed => /\ MayOwn(rec.pack, rec.ver)
                               /\ \A r \in ResourcesOf[rec.pack] : Reverted(rec, r) = Target(rec.pack, r)

\* A resource is what the installed version says, or what it was before.
Whole(r) ==
    /\ \A p \in Packs : Installed(p) /\ r \in ResourcesOf[p] => files[r] = Target(p, r)
    /\ (\A p \in Packs : Installed(p) => r \notin ResourcesOf[p]) => files[r] = Before[r]

Stored ==
    /\ Stacks /\ DecisionsKept /\ OnePending
    /\ \A t \in Pending : Sound(t)
    /\ \A r \in Resources : (\A t \in Pending : r \notin ResourcesOf[journal[t].pack]) => Whole(r)

------------------------------------------------------------------------------
(* The operation that has the lock.                                         *)

InProgress(rec, status) ==
    /\ rec = journal[job.tx] /\ rec.status = status
    /\ Pending = {job.tx} /\ job.tx \notin Listed
    /\ MayOwn(rec.pack, rec.ver)

Installing ==
    LET rec == job.rec  p == rec.pack IN
    /\ rec.ver \in DOMAIN Content[p]
    /\ job.step \in {"reconcile", "check", "revoke", "begin", "applying", "snapshot", "apply",
                     "decide", "own", "commit", "mark", "restore"}
    /\ job.step \in {"reconcile", "check", "revoke", "begin"} =>
         /\ \E t \in Txs : journal[t].status = "none"
         /\ rec = NewRecord(p, rec.ver)
    /\ job.step \in {"revoke", "begin"} => MayOwn(p, rec.ver)
    /\ job.step = "revoke" => Installed(p) /\ job.tx = Current(p)
    /\ job.step = "applying" => 
         /\ InProgress(rec, "prepared") /\ rec = NewRecord(p, rec.ver) 
         /\ Restored(p)
    /\ job.step \in {"snapshot", "apply"} =>
         /\ InProgress(rec, "applying")
         /\ job.todo \subseteq ResourcesOf[p]
         /\ \A r \in job.todo : files[r] = Target(p, r)
         /\ \A r \in ResourcesOf[p] \ job.todo : files[r] = Content[p][rec.ver][r]
         /\ \A r \in job.todo :
              \/ rec.snap[r] = NoSnapshot
              \/ job.step = "apply" /\ r = Earliest(job.todo)
    /\ job.step = "apply" => job.todo # {} /\ rec.snap[Earliest(job.todo)] # NoSnapshot
    /\ job.step = "decide" => InProgress(rec, "awaiting_commit") /\ Applied(rec)
    /\ job.step = "own" => InProgress(rec, "commit_decided")
    /\ job.step = "commit" =>
         /\ rec = journal[job.tx] /\ rec.status = "commit_decided"
         /\ Pending = {job.tx} /\ Installed(p) /\ job.tx = Current(p)
    /\ job.step \in {"mark", "restore"} => job.tx \notin Listed

Starting ==
    /\ live = Nothing /\ loose = {}
    /\ job.step \in {"reconcile", "scan", "mark", "restore", "settle", "activate"}
    /\ job.step \in {"settle", "activate"} => Unsettled = {}
    /\ job.step = "activate" => Pending = {}

Withdrawing ==
    LET p == job.rec.pack IN
    /\ job.step \in {"reconcile", "withdraw", "revoke", "load", "mark", "restore", "unlist"}
    /\ job.step \in {"revoke", "load", "mark", "restore", "unlist"} => Installed(p) /\ job.tx = Current(p)
    /\ job.step = "unlist" => journal[job.tx].status = "rolled_back"

\* A rollback works with the snapshots of the journal; only a failing write
\* leaves the record in memory ahead of it.
RollingBack ==
    LET rec == job.rec  old == journal[job.tx] IN
    /\ job.tx \in Txs /\ Pending = {job.tx}
    /\ old.pack = rec.pack /\ old.ver = rec.ver
    /\ SnapsWithin(rec) /\ Undoable(rec)
    /\ job.tx \in Listed => old.status = "rolling_back" /\ rec.managed /\ rec.snap = old.snap
    /\ rec.snap = old.snap \/ hit
    /\ job.step = "mark" =>
         \/ old.status \in BuildingStatuses \cup {"rolling_back"}
         \/ old.status = "commit_decided" /\ hit
    /\ job.step = "restore" =>
         /\ old.status \in BuildingStatuses \cup {"rolling_back"} /\ rec.status = "rolling_back"
         /\ rec.snap = old.snap
         /\ job.todo \subseteq {r \in Resources : rec.snap[r] # NoSnapshot}
         /\ ~job.errors => \A r \in ResourcesOf[rec.pack] \ job.todo : files[r] = Target(rec.pack, r)

JobInv ==
    /\ proc # "busy" => job = NoJob
    /\ proc = "down" => live = Nothing /\ loose = {}
    /\ proc = "busy" =>
         /\ job.kind # "none"
         /\ job.kind = "start" => Starting
         /\ job.kind = "install" => Installing
         /\ job.kind \in {"rollback", "remove"} => Withdrawing
         /\ job.kind = "grant" => job.step = "prompt" /\ job.tx \in Txs
         /\ job.step \in {"mark", "restore"} => RollingBack

\* What runs was granted; a pack that is changed is down.
Taken == \/ job.kind = "install" /\ job.step \notin {"reconcile", "check"}
         \/ job.kind \in {"rollback", "remove"} /\ job.step \notin {"reconcile", "withdraw"}

\* A pack with no open transaction.
Quiet(p) == \A t \in Pending : journal[t].pack # p

\* A resource that runs is what its pack's grant is for.
Granted(r) ==
    \E p \in GrantedPacks(grants) :
        Quiet(p) /\ r \in Executables(p) /\ live[r] = Content[p][journal[Current(p)].ver][r]

RunsGranted ==
    proc \in {"idle", "busy"} =>
      /\ loose \subseteq {p \in Packs : Installed(p)}
      /\ proc = "busy" /\ Taken => job.rec.pack \notin loose
      /\ \A r \in Resources : live[r] # NoContent =>
           /\ Granted(r) \/ \E p \in loose : r \in Executables(p)
           /\ proc = "busy" /\ Taken => r \notin ResourcesOf[job.rec.pack]

PackInv == TypeInv /\ Stored /\ JobInv /\ RunsGranted
------------------------------------------------------------------------------
(* What the stacks say.                                                     *)

\* A listed transaction is in the stack of its pack, and of no other.
LEMMA StackFacts ==
    ASSUME StoreTypes, Stacks
    PROVE  /\ \A p \in Packs : \A i \in 1 .. Len(owned[p]) :
                 owned[p][i] \in Listed /\ owned[p][i] \in Txs /\ StackAt(p, i)
           /\ \A t \in Listed : \E p \in Packs : \E i \in 1 .. Len(owned[p]) : t = owned[p][i]
           /\ \A p \in Packs : \A i, j \in 1 .. Len(owned[p]) : owned[p][i] = owned[p][j] => i = j
<1>1. ASSUME NEW p \in Packs
      PROVE  /\ DOMAIN owned[p] = 1 .. Len(owned[p])
             /\ ToSet(owned[p]) = {owned[p][i] : i \in 1 .. Len(owned[p])}
  BY CurrentTyped DEF ToSet
<1>2. ASSUME NEW p \in Packs, NEW i \in 1 .. Len(owned[p])
      PROVE  owned[p][i] \in Listed /\ owned[p][i] \in Txs /\ StackAt(p, i)
  <2>1. owned[p][i] \in ToSet(owned[p]) /\ owned[p][i] \in Txs
    BY <1>1, CurrentTyped
  <2> QED
    BY <2>1 DEF Listed, Stacks
<1>3. ASSUME NEW t \in Listed
      PROVE  \E p \in Packs : \E i \in 1 .. Len(owned[p]) : t = owned[p][i]
  <2>1. PICK p \in Packs : t \in ToSet(owned[p])
    BY DEF Listed
  <2> QED
    BY <1>1, <2>1
<1>4. ASSUME NEW p \in Packs, NEW i \in 1 .. Len(owned[p]), NEW j \in 1 .. Len(owned[p]),
             owned[p][i] = owned[p][j]
      PROVE  i = j
  <2>1. IsInjective(owned[p])
    BY DEF Stacks
  <2> QED
    BY <1>1, <1>4, <2>1 DEF IsInjective
<1> QED
  BY <1>2, <1>3, <1>4

\* An installed version that is not committed is the current one of its pack.
LEMMA ListedAt ==
    ASSUME StoreTypes, Stacks, NEW t \in Listed
    PROVE  /\ t \in Txs /\ journal[t].pack \in Packs /\ Installed(journal[t].pack)
           /\ journal[t].managed /\ SnapsWithin(journal[t])
           /\ journal[t].ver \in DOMAIN Content[journal[t].pack]
           /\ journal[t].status \in {"committed", "commit_decided"} \cup UndoneStatuses
           /\ journal[t].status # "committed" => t = Current(journal[t].pack)
<1>0. PICK p \in Packs : \E i \in 1 .. Len(owned[p]) : t = owned[p][i]
  BY StackFacts
<1>1. PICK i \in 1 .. Len(owned[p]) : t = owned[p][i]
  BY <1>0
<1>2. StackAt(p, i) /\ t \in Txs
  BY <1>1, StackFacts
<1>3. /\ journal[t].pack = p /\ journal[t].managed /\ SnapsWithin(journal[t])
      /\ journal[t].ver \in DOMAIN Content[p]
      /\ \/ journal[t].status = "committed"
         \/ i = Len(owned[p]) /\ journal[t].status \in {"commit_decided"} \cup UndoneStatuses
  BY <1>1, <1>2 DEF StackAt
<1>4. Installed(p) /\ Current(p) = owned[p][Len(owned[p])]
  BY CurrentTyped
<1> QED
  BY <1>1, <1>2, <1>3, <1>4

\* The current version of a pack.
LEMMA CurrentAt ==
    ASSUME StoreTypes, Stacks, NEW p \in Packs, Installed(p)
    PROVE  /\ Current(p) \in Listed /\ Current(p) \in Txs /\ journal[Current(p)].pack = p
           /\ journal[Current(p)].managed /\ SnapsWithin(journal[Current(p)])
           /\ journal[Current(p)].ver \in DOMAIN Content[p]
           /\ \A r \in ResourcesOf[p] :
                Reverted(journal[Current(p)], r) = Under(p, Len(owned[p]) - 1, r)
           /\ ~OwnedByOther(p)
<1>1. Len(owned[p]) \in 1 .. Len(owned[p]) /\ Current(p) = owned[p][Len(owned[p])]
  BY CurrentTyped
<1>2. StackAt(p, Len(owned[p])) /\ Current(p) \in Listed /\ Current(p) \in Txs
  BY <1>1, StackFacts
<1> QED
  BY <1>1, <1>2 DEF StackAt, Stacks

\* How deep a stack is, and what is under each of its versions.
LEMMA DepthTyped ==
    ASSUME StoreTypes, Stacks, NEW p \in Packs
    PROVE  /\ Depth(p) \in 0 .. Len(owned[p])
           /\ Installed(p) => Depth(p) = IF Current(p) \in Undone THEN Len(owned[p]) - 1 ELSE Len(owned[p])
           /\ ~Installed(p) => Depth(p) = 0
<1>1. Len(owned[p]) \in Nat /\ (Installed(p) <=> Len(owned[p]) # 0)
  BY CurrentTyped
<1>2. CASE Installed(p) /\ Current(p) \in Undone
  <2>1. Depth(p) = Len(owned[p]) - 1
    BY <1>2 DEF Depth
  <2> QED
    BY <1>1, <1>2, <2>1
<1>3. CASE ~(Installed(p) /\ Current(p) \in Undone)
  <2>1. Depth(p) = Len(owned[p])
    BY <1>3 DEF Depth
  <2> QED
    BY <1>1, <1>3, <2>1
<1> QED
  BY <1>2, <1>3

\* What a resource should hold is a content, and so is not the absence of a
\* snapshot.
LEMMA TargetTyped ==
    ASSUME StoreTypes, Stacks, NEW p \in Packs, NEW r \in Resources
    PROVE  Target(p, r) \in Contents /\ Target(p, r) # NoSnapshot
<1>1. PICK n : n = Depth(p)
  OBVIOUS
<1>2. n \in 0 .. Len(owned[p]) /\ Len(owned[p]) \in Nat
  BY <1>1, DepthTyped, CurrentTyped
<1>3. CASE n = 0
  BY <1>1, <1>3, ConstantTypes DEF Target, Under
<1>4. CASE n # 0
  <2>1. n \in 1 .. Len(owned[p])
    BY <1>2, <1>4
  <2>2. journal[owned[p][n]].ver \in DOMAIN Content[p]
    BY <2>1, StackFacts DEF StackAt
  <2>3. Target(p, r) = Content[p][journal[owned[p][n]].ver][r]
    BY <1>1, <1>4 DEF Target, Under
  <2> QED
    BY <2>2, <2>3, ConstantTypes
<1> QED
  BY <1>3, <1>4

\* A pack that no other pack stands in the way of owns its resources alone.
LEMMA OwnerWhole ==
    ASSUME StoreTypes, Stacks, NEW p \in Packs, ~OwnedByOther(p), NEW r \in ResourcesOf[p]
    PROVE  Whole(r) <=> files[r] = Target(p, r)
<1>1. \A q \in Packs : Installed(q) /\ r \in ResourcesOf[q] => q = p
  BY DEF OwnedByOther
<1>2. CASE Installed(p)
  BY <1>1, <1>2 DEF Whole
<1>3. CASE ~Installed(p)
  <2>1. Target(p, r) = Before[r]
    BY <1>3, DepthTyped DEF Target, Under
  <2> QED
    BY <1>1, <1>3, <2>1 DEF Whole
<1> QED
  BY <1>2, <1>3

\* A step that leaves the stack of a pack alone, the versions in it and whether
\* the current one is taken back, leaves what its resources should hold.
LEMMA TargetStays ==
    ASSUME StoreTypes, Stacks, NEW p \in Packs, owned'[p] = owned[p],
           \A i \in 1 .. Len(owned[p]) : journal'[owned[p][i]].ver = journal[owned[p][i]].ver,
           Installed(p) => (Current(p) \in Undone <=> Current(p) \in Undone')
    PROVE  /\ \A n \in 0 .. Len(owned[p]), r \in Resources : Under(p, n, r)' = Under(p, n, r)
           /\ \A r \in Resources : Target(p, r)' = Target(p, r)
<1>1. ASSUME NEW n \in 0 .. Len(owned[p]), NEW r \in Resources
      PROVE  Under(p, n, r)' = Under(p, n, r)
  <2>1. CASE n = 0
    BY <2>1 DEF Under
  <2>2. CASE n # 0
    <3>1. n \in 1 .. Len(owned[p])
      BY <2>2, CurrentTyped
    <3> QED
      BY <2>2, <3>1 DEF Under
  <2> QED
    BY <2>1, <2>2
<1>2. Depth(p)' = Depth(p)
  BY DEF Depth, Installed, Current
<1>3. ASSUME NEW r \in Resources PROVE Target(p, r)' = Target(p, r)
  <2>1. PICK n : n = Depth(p)
    OBVIOUS
  <2>2. n \in 0 .. Len(owned[p])
    BY <2>1, DepthTyped
  <2>3. Target(p, r) = Under(p, n, r) /\ Target(p, r)' = Under(p, n, r)'
    BY <1>2, <2>1 DEF Target
  <2> QED
    BY <1>1, <2>2, <2>3
<1> QED
  BY <1>1, <1>3

\* What a step that leaves the stores alone leaves as it is.
LEMMA SameStores ==
    ASSUME UNCHANGED <<files, journal, owned>>
    PROVE  /\ Stored => Stored'
           /\ Pending' = Pending /\ Listed' = Listed /\ Unsettled' = Unsettled
           /\ \A p \in Packs : /\ Installed(p)' = Installed(p) /\ Current(p)' = Current(p)
                               /\ OwnedByOther(p)' = OwnedByOther(p)
                               /\ Restored(p)' = Restored(p)
                               /\ \A v \in Versions : MayOwn(p, v)' = MayOwn(p, v)
                               /\ \A r \in Resources : Target(p, r)' = Target(p, r)
           /\ \A rec \in Record : /\ Undoable(rec)' = Undoable(rec)
                                  /\ Applied(rec)' = Applied(rec)
<1>1. /\ Pending' = Pending /\ Listed' = Listed /\ Unsettled' = Unsettled /\ Undone' = Undone
  BY DEF Pending, Listed, Unsettled, Undone
<1>2. \A p : /\ Installed(p)' = Installed(p) /\ Current(p)' = Current(p)
  BY DEF Installed, Current
<1>3. \A p : /\ OwnedByOther(p)' = OwnedByOther(p) /\ Depth(p)' = Depth(p)
             /\ \A v : MayOwn(p, v)' = MayOwn(p, v)
  BY <1>1, <1>2 DEF OwnedByOther, MayOwn, Depth
<1>4. \A p, n, r : Under(p, n, r)' = Under(p, n, r)
  BY DEF Under
<1>5. \A p, r : Target(p, r)' = Target(p, r)
  BY <1>3, <1>4 DEF Target
<1>6. \A p : Restored(p)' = Restored(p)
  BY <1>5 DEF Restored
<1>7. \A rec : Undoable(rec)' = Undoable(rec) /\ Applied(rec)' = Applied(rec)
  BY <1>5 DEF Undoable, Applied
<1>8. \A r : Whole(r)' = Whole(r)
  BY <1>2, <1>5 DEF Whole
<1>9. \A t : Sound(t)' = Sound(t)
  BY <1>1, <1>3, <1>5, <1>6, <1>7 DEF Sound
<1>10. \A p, i : StackAt(p, i)' = StackAt(p, i)
  BY <1>4 DEF StackAt
<1>11. Stacks' = Stacks
  BY <1>2, <1>3, <1>10 DEF Stacks
<1>12. DecisionsKept' = DecisionsKept /\ OnePending' = OnePending
  BY <1>1 DEF DecisionsKept, OnePending
<1>13. Stored => Stored'
  BY <1>1, <1>8, <1>9, <1>11, <1>12 DEF Stored
<1> QED
  BY <1>1, <1>2, <1>3, <1>5, <1>6, <1>7, <1>13

------------------------------------------------------------------------------
(* Steps on the stores.                                                     *)

\* What a step on transaction t, that leaves the record rec of it, respects: it
\* touches the resources of its pack only, and a listed version remains one.
TxWrite(t, rec) ==
    /\ journal' = Saved(t, rec) /\ owned' = owned
    /\ \A r \in Resources \ ResourcesOf[rec.pack] : files'[r] = files[r]
    /\ Pending \subseteq {t}
    /\ t \in Pending => journal[t].pack = rec.pack
    /\ ~OwnedByOther(rec.pack)
    /\ t \in Listed =>
         /\ journal[t].pack = rec.pack /\ journal[t].ver = rec.ver /\ journal[t].snap = rec.snap
         /\ rec.managed /\ t = Current(rec.pack)
         /\ rec.status \in Decided \cup UndoneStatuses
    /\ rec.status \in Decided => rec.managed
    /\ rec.status = "committed" => t \in Listed

\* The rest of the stores after such a step.
LEMMA TxFrame ==
    ASSUME StoreTypes, Stored, NEW t \in Txs, NEW rec \in Record, TxWrite(t, rec)
    PROVE  /\ journal'[t] = rec /\ \A u \in Txs : u # t => journal'[u] = journal[u]
           /\ Listed' = Listed /\ Pending' \subseteq {t}
           /\ t \in Pending' <=> \/ rec.status \notin Settled
                                 \/ rec.status = "rolled_back" /\ t \in Listed
           /\ \A q \in Packs : /\ OwnedByOther(q)' = OwnedByOther(q)
                               /\ Installed(q)' = Installed(q) /\ Current(q)' = Current(q)
                               /\ \A v \in Versions : MayOwn(q, v)' = MayOwn(q, v)
                               /\ \A n \in 0 .. Len(owned[q]), r \in Resources :
                                    Under(q, n, r)' = Under(q, n, r)
           /\ \A q \in Packs, r \in Resources :
                q # rec.pack \/ (t \in Listed => (journal[t].status \in UndoneStatuses
                                                   <=> rec.status \in UndoneStatuses))
                => Target(q, r)' = Target(q, r)
<1>1. /\ journal' = Saved(t, rec) /\ owned' = owned
  BY DEF TxWrite
<1>2. journal'[t] = rec /\ \A u \in Txs : u # t => journal'[u] = journal[u]
  BY <1>1, SavedTyped DEF StoreTypes
<1>3. Listed' = Listed /\ \A q \in Packs : /\ OwnedByOther(q)' = OwnedByOther(q)
                               /\ Installed(q)' = Installed(q) /\ Current(q)' = Current(q)
  BY <1>1 DEF Listed, OwnedByOther, Installed, Current
<1>4. t \in Pending' <=> \/ rec.status \notin Settled
                         \/ rec.status = "rolled_back" /\ t \in Listed
  BY <1>2, <1>3 DEF Pending
<1>5. Pending' \subseteq {t}
  BY <1>2, <1>3 DEF Pending, TxWrite
<1>6. \A u \in Listed : u \in Txs /\ journal'[u].ver = journal[u].ver
  BY <1>2, ListedAt DEF TxWrite, Stored
<1>7. ASSUME NEW q \in Packs
      PROVE  /\ \A i \in 1 .. Len(owned[q]) : journal'[owned[q][i]].ver = journal[owned[q][i]].ver
             /\ \A v \in Versions : MayOwn(q, v)' = MayOwn(q, v)
  <2>1. \A i \in 1 .. Len(owned[q]) : owned[q][i] \in Listed
    BY StackFacts DEF Stored
  <2>2. Installed(q) => Current(q) \in Listed
    BY CurrentAt DEF Stored
  <2> QED
    BY <1>3, <1>6, <2>1, <2>2 DEF MayOwn
<1>8. ASSUME NEW q \in Packs, NEW n \in 0 .. Len(owned[q]), NEW r \in Resources
      PROVE  Under(q, n, r)' = Under(q, n, r)
  <2>1. CASE n = 0
    BY <2>1 DEF Under
  <2>2. CASE n # 0
    <3>1. n \in 1 .. Len(owned[q])
      BY <2>2, CurrentTyped
    <3> QED
      BY <1>1, <1>7, <2>2, <3>1 DEF Under
  <2> QED
    BY <2>1, <2>2
<1>9. ASSUME NEW q \in Packs, NEW r \in Resources,
             q # rec.pack \/ (t \in Listed => (journal[t].status \in UndoneStatuses
                                                <=> rec.status \in UndoneStatuses))
      PROVE  Target(q, r)' = Target(q, r)
  <2>1. \A u \in Txs : (u \in Undone <=> journal[u].status \in UndoneStatuses)
                       /\ (u \in Undone' <=> journal'[u].status \in UndoneStatuses)
    BY DEF Undone, UndoneStatuses
  <2>2. ASSUME Installed(q) PROVE Current(q) \in Undone <=> Current(q) \in Undone'
    <3>1. Current(q) \in Listed /\ Current(q) \in Txs /\ journal[Current(q)].pack = q
      BY <2>2, CurrentAt DEF Stored
    <3>2. CASE Current(q) # t
      BY <1>2, <2>1, <3>1, <3>2
    <3>3. CASE Current(q) = t
      BY <1>2, <1>9, <2>1, <3>1, <3>3 DEF TxWrite
    <3> QED
      BY <3>2, <3>3
  <2> QED
    BY <1>1, <1>7, <2>2, TargetStays DEF Stored
<1> QED
  BY <1>2, <1>3, <1>4, <1>5, <1>7, <1>8, <1>9

\* A step that does not take a version back leaves what resources should hold.
LEMMA TxTargets ==
    ASSUME StoreTypes, Stored, NEW t \in Txs, NEW rec \in Record, TxWrite(t, rec),
           t \in Listed => (journal[t].status \in UndoneStatuses <=> rec.status \in UndoneStatuses),
           NEW q \in Packs, NEW r \in Resources
    PROVE  Target(q, r)' = Target(q, r)
BY TxFrame

\* The same of the stores after a step.
LEMMA OwnerWholeAfter ==
    (\A p \in Packs : StoreTypes /\ Stacks /\ ~OwnedByOther(p)
       => \A r \in ResourcesOf[p] : Whole(r) <=> files[r] = Target(p, r))'
<1>1. \A p \in Packs : StoreTypes /\ Stacks /\ ~OwnedByOther(p)
        => \A r \in ResourcesOf[p] : Whole(r) <=> files[r] = Target(p, r)
  BY OwnerWhole
<1> QED
  BY <1>1, PTL

\* A step on a transaction that leaves it as it should be keeps the stores.
LEMMA TxStep ==
    ASSUME StoreTypes, StoreTypes', Stored, NEW t \in Txs, NEW rec \in Record, TxWrite(t, rec),
           t \in Pending' => Sound(t)',
           t \notin Pending' => Restored(rec.pack)'
    PROVE  Stored'
<1>0. Stacks /\ rec.pack \in Packs
  BY RecordFields DEF Stored
<1>1. /\ journal'[t] = rec /\ \A u \in Txs : u # t => journal'[u] = journal[u]
      /\ Listed' = Listed /\ Pending' \subseteq {t} /\ owned' = owned
  BY TxFrame DEF TxWrite
<1>2. OnePending' /\ \A u \in Pending' : Sound(u)'
  BY <1>1 DEF OnePending
<1>3. DecisionsKept'
  BY <1>1 DEF DecisionsKept, Stored, TxWrite
<1>4. ASSUME NEW p \in Packs, NEW i \in 1 .. Len(owned[p]) PROVE StackAt(p, i)'
  <2>1. PICK u \in Txs : u = owned[p][i] /\ u \in Listed /\ StackAt(p, i)
    BY <1>0, StackFacts
  <2>2. \A r \in Resources : Under(p, i - 1, r)' = Under(p, i - 1, r)
    <3>1. i - 1 \in 0 .. Len(owned[p])
      BY CurrentTyped
    <3> QED
      BY <3>1, TxFrame
  <2>3. ResourcesOf[p] \subseteq Resources
    BY ConstantTypes
  <2>4. CASE u # t
    BY <1>1, <2>1, <2>2, <2>3, <2>4 DEF StackAt
  <2>5. CASE u = t
    <3>1. /\ journal[t].pack = p /\ journal[t].ver \in DOMAIN Content[p] /\ SnapsWithin(journal[t])
          /\ \A r \in ResourcesOf[p] : Reverted(journal[t], r) = Under(p, i - 1, r)
      BY <2>1, <2>5 DEF StackAt
    <3>2. /\ rec.pack = p /\ journal[t].ver = rec.ver /\ journal[t].snap = rec.snap
          /\ rec.managed /\ t = Current(p) /\ rec.status \in Decided \cup UndoneStatuses
      BY <2>1, <2>5, <3>1 DEF TxWrite
    <3>3. SnapsWithin(rec) /\ \A r \in ResourcesOf[p] : Reverted(rec, r) = Under(p, i - 1, r)
      BY <3>1, <3>2 DEF SnapsWithin, Reverted
    <3>4. i = Len(owned[p])
      <4>1. Installed(p) /\ Len(owned[p]) \in 1 .. Len(owned[p])
        BY CurrentTyped
      <4>2. Current(p) = owned[p][Len(owned[p])]
        BY <4>1, CurrentTyped
      <4>3. owned[p][i] = owned[p][Len(owned[p])]
        BY <2>1, <2>5, <3>2, <4>2
      <4> QED
        BY <1>0, <4>1, <4>3, StackFacts
    <3>5. rec.status = "committed" \/ rec.status \in UndoneStatuses \cup {"commit_decided"}
      BY <3>2 DEF Decided
    <3> QED
      BY <1>1, <2>1, <2>2, <2>3, <2>5, <3>1, <3>2, <3>3, <3>4, <3>5 DEF StackAt
  <2> QED
    BY <2>4, <2>5
<1>5. Stacks'
  <2>1. \A p \in Packs : Installed(p)' = Installed(p) /\ OwnedByOther(p)' = OwnedByOther(p)
    BY TxFrame
  <2> QED
    BY <1>0, <1>1, <1>4, <2>1 DEF Stacks
<1>6. ASSUME NEW r \in Resources, \A u \in Pending' : r \notin ResourcesOf[journal'[u].pack]
      PROVE  Whole(r)'
  <2>1. CASE r \in ResourcesOf[rec.pack]
    <3>1. t \notin Pending' /\ files'[r] = Target(rec.pack, r)'
      BY <1>1, <1>6, <2>1 DEF Restored
    <3>2. ~OwnedByOther(rec.pack)'
      BY <1>0, TxFrame DEF TxWrite
    <3> QED
      BY <1>0, <1>5, <2>1, <3>1, <3>2, OwnerWholeAfter
  <2>2. CASE r \notin ResourcesOf[rec.pack]
    <3>1. Whole(r) /\ files'[r] = files[r]
      BY <2>2 DEF Stored, TxWrite
    <3>2. \A q \in Packs : r \in ResourcesOf[q] => Target(q, r)' = Target(q, r)
      BY <2>2, TxFrame
    <3>3. \A q \in Packs : Installed(q)' = Installed(q)
      BY TxFrame
    <3> QED
      BY <3>1, <3>2, <3>3 DEF Whole
  <2> QED
    BY <2>1, <2>2
<1>7. \A r \in Resources : (\A u \in Pending' : r \notin ResourcesOf[journal'[u].pack]) => Whole(r)'
  BY <1>6
<1> QED
  BY <1>2, <1>3, <1>5, <1>7 DEF Stored

\* A version that is listed and not committed is under way: it is the only one.
LEMMA ListedPending ==
    ASSUME StoreTypes, Stored, NEW t \in Listed, journal[t].status # "committed"
    PROVE  t \in Pending /\ Pending = {t}
<1>1. t \in Txs /\ journal[t].status \in {"commit_decided"} \cup UndoneStatuses
  BY ListedAt DEF Stored
<1>2. t \in Pending
  BY <1>1 DEF Pending, Settled, UndoneStatuses
<1> QED
  BY <1>2 DEF Stored, OnePending

\* What a pack's resources should hold when its versions are committed.
LEMMA CommittedDepth ==
    ASSUME StoreTypes, Stored, NEW p \in Packs,
           Installed(p) => journal[Current(p)].status \notin UndoneStatuses
    PROVE  /\ Depth(p) = Len(owned[p])
           /\ \A r \in Resources : Target(p, r) = Under(p, Len(owned[p]), r)
           /\ Installed(p) => \A r \in Resources :
                                Target(p, r) = Content[p][journal[Current(p)].ver][r]
<1>1. Installed(p) => Current(p) \notin Undone
  BY DEF Undone, UndoneStatuses
<1>2. Depth(p) = Len(owned[p])
  BY <1>1 DEF Depth
<1>3. Installed(p) => Len(owned[p]) # 0 /\ Current(p) = owned[p][Len(owned[p])]
  BY CurrentTyped
<1> QED
  BY <1>2, <1>3 DEF Target, Under

\* The ownership of a decided commit is recorded.
LEMMA ListStep ==
    ASSUME StoreTypes, StoreTypes', Stored, NEW t \in Txs, journal[t].status = "commit_decided",
           t \notin Listed, owned' = Listing(t, journal[t]), UNCHANGED <<files, journal>>
    PROVE  /\ Stored' /\ Pending' = {t} /\ Pending = {t} /\ t \in Listed'
           /\ Installed(journal[t].pack)' /\ Current(journal[t].pack)' = t
           /\ \A q \in Packs : q # journal[t].pack => owned'[q] = owned[q]
<1>0. PICK rec \in Record : rec = journal[t]
  BY DEF StoreTypes
<1>1. PICK p \in Packs : p = rec.pack
  BY RecordFields
<1>2. /\ Stacks /\ Pending = {t} /\ Sound(t) /\ rec.managed
  BY <1>0 DEF Stored, Pending, Settled, OnePending, DecisionsKept, Decided
<1>3. /\ ~OwnedByOther(p) /\ SnapsWithin(rec) /\ rec.ver \in DOMAIN Content[p] /\ Applied(rec)
      /\ \A r \in ResourcesOf[p] : Reverted(rec, r) = Target(p, r)
  BY <1>0, <1>1, <1>2 DEF Sound
<1>4. PICK n \in Nat : n = Len(owned[p]) /\ owned[p] \in Seq(Txs)
  BY CurrentTyped
<1>5. /\ owned'[p] = Append(owned[p], t) /\ \A q \in Packs : q # p => owned'[q] = owned[q]
  BY <1>0, <1>1 DEF Listing, StoreTypes
<1>6. /\ Len(owned'[p]) = n + 1 /\ owned'[p][n + 1] = t
      /\ \A i \in 1 .. n : owned'[p][i] = owned[p][i]
  BY <1>4, <1>5, AppendTyped
<1>7. /\ DOMAIN owned'[p] = 1 .. n + 1 /\ DOMAIN owned[p] = 1 .. n
  BY <1>4, <1>5, <1>6, LenProperties, CurrentTyped DEF StoreTypes
<1>8. Listed' = Listed \cup {t}
  <2>1. ToSet(owned'[p]) = ToSet(owned[p]) \cup {t}
    <3>1. \A i \in 1 .. n : i \in 1 .. n + 1
      BY <1>4
    <3>2. n + 1 \in 1 .. n + 1 /\ \A i \in 1 .. n + 1 : i = n + 1 \/ i \in 1 .. n
      BY <1>4
    <3>3. ToSet(owned'[p]) = {owned'[p][i] : i \in 1 .. n + 1}
      BY <1>7 DEF ToSet
    <3>4. ToSet(owned[p]) = {owned[p][i] : i \in 1 .. n}
      BY <1>7 DEF ToSet
    <3> QED
      BY <1>6, <3>1, <3>2, <3>3, <3>4
  <2>2. \A q \in Packs : q # p => ToSet(owned'[q]) = ToSet(owned[q])
    BY <1>5
  <2> QED
    BY <2>1, <2>2 DEF Listed
<1>9. /\ Installed(p)' /\ Current(p)' = t
      /\ \A q \in Packs : q # p => /\ Installed(q)' = Installed(q) /\ Current(q)' = Current(q)
  <2>1. owned'[p] # << >>
    BY <1>6, <1>4, <1>7
  <2> QED
    BY <1>5, <1>6, <2>1 DEF Installed, Current, Last
<1>10. /\ ~OwnedByOther(p)' /\ \A q \in Packs : Installed(q) => ~OwnedByOther(q)'
  BY <1>2, <1>3, <1>9 DEF OwnedByOther, Stacks
<1>11. \A u \in Listed : journal[u].status = "committed"
  BY <1>2, ListedPending
<1>12. \A q \in Packs : Installed(q) => journal[Current(q)].status \notin UndoneStatuses
  BY <1>2, <1>11, CurrentAt DEF UndoneStatuses
<1>13. \A r \in Resources : Target(p, r) = Under(p, n, r)
  BY <1>4, <1>12, CommittedDepth
<1>14. ASSUME NEW k \in 0 .. n, NEW r \in Resources PROVE Under(p, k, r)' = Under(p, k, r)
  <2>1. CASE k = 0
    BY <2>1 DEF Under
  <2>2. CASE k # 0
    <3>1. k \in 1 .. n
      BY <2>2
    <3> QED
      BY <1>6, <2>2, <3>1 DEF Under
  <2> QED
    BY <2>1, <2>2
<1>15. ASSUME NEW q \in Packs, NEW i \in 1 .. Len(owned'[q]) PROVE StackAt(q, i)'
  <2>1. CASE q # p
    <3>1. StackAt(q, i)
      BY <1>2, <1>5, <2>1, StackFacts
    <3>2. \A r \in Resources : Under(q, i - 1, r)' = Under(q, i - 1, r)
      BY <1>5, <2>1 DEF Under
    <3> QED
      BY <1>5, <2>1, <3>1, <3>2, ConstantTypes DEF StackAt
  <2>2. CASE q = p /\ i \in 1 .. n
    <3>1. /\ StackAt(p, i) /\ owned[p][i] \in Listed /\ owned'[p][i] = owned[p][i]
      BY <1>2, <1>4, <1>6, <2>2, StackFacts
    <3>2. journal[owned[p][i]].status = "committed"
      BY <1>11, <3>1
    <3>3. \A r \in Resources : Under(p, i - 1, r)' = Under(p, i - 1, r)
      <4>1. i - 1 \in 0 .. n
        BY <2>2
      <4> QED
        BY <1>14, <4>1
    <3> QED
      BY <2>2, <3>1, <3>2, <3>3, ConstantTypes DEF StackAt
  <2>3. CASE q = p /\ i = n + 1
    <3>1. \A r \in ResourcesOf[p] : Reverted(rec, r) = Under(p, n, r)' /\ n + 1 - 1 = n
      <4>1. n \in 0 .. n /\ n + 1 - 1 = n
        BY <1>4
      <4> QED
        BY <1>3, <1>13, <1>14, <4>1, ConstantTypes
    <3>2. \A r \in ResourcesOf[p] : Reverted(rec, r) = Under(p, i - 1, r)'
      BY <1>4, <2>3, <3>1
    <3> QED
      BY <1>0, <1>1, <1>2, <1>3, <1>6, <2>3, <3>2 DEF StackAt
  <2>4. q # p \/ (q = p /\ i \in 1 .. n) \/ (q = p /\ i = n + 1)
    BY <1>4, <1>6
  <2> QED
    BY <2>1, <2>2, <2>3, <2>4
<1>16. ASSUME NEW q \in Packs PROVE IsInjective(owned'[q])
  <2>1. CASE q # p
    BY <1>2, <1>5, <2>1 DEF Stacks
  <2>2. CASE q = p
    <3>1. \A i \in 1 .. n : owned'[p][i] # t
      BY <1>2, <1>4, <1>6, StackFacts
    <3>2. \A i, j \in 1 .. n : owned'[p][i] = owned'[p][j] => i = j
      BY <1>2, <1>4, <1>6, StackFacts
    <3>3. \A i \in 1 .. n + 1 : i = n + 1 \/ i \in 1 .. n
      BY <1>4
    <3>4. ASSUME NEW i \in 1 .. n + 1, NEW j \in 1 .. n + 1, owned'[p][i] = owned'[p][j]
          PROVE  i = j
      <4>1. CASE i \in 1 .. n /\ j \in 1 .. n
        BY <3>2, <3>4, <4>1
      <4>2. CASE i = n + 1 \/ j = n + 1
        BY <1>6, <3>1, <3>3, <3>4, <4>2
      <4> QED
        BY <3>3, <4>1, <4>2
    <3> QED
      BY <1>7, <2>2, <3>4 DEF IsInjective
  <2> QED
    BY <2>1, <2>2
<1>17. Stacks'
  BY <1>9, <1>10, <1>15, <1>16 DEF Stacks
<1>18. Pending' = {t}
  BY <1>0, <1>2, <1>8 DEF Pending, Settled
<1>19. Sound(t)'
  <2>1. Applied(rec)'
    BY <1>3 DEF Applied
  <2> QED
    BY <1>0, <1>1, <1>3, <1>8, <1>10, <2>1 DEF Sound, BuildingStatuses
<1>20. DecisionsKept' /\ OnePending'
  BY <1>8, <1>18 DEF Stored, DecisionsKept, OnePending
<1>21. ASSUME NEW r \in Resources, \A u \in Pending' : r \notin ResourcesOf[journal'[u].pack]
       PROVE  Whole(r)'
  <2>1. r \notin ResourcesOf[p]
    BY <1>0, <1>1, <1>18, <1>21
  <2>2. Whole(r)
    BY <1>0, <1>1, <1>2, <2>1 DEF Stored
  <2>3. ASSUME NEW q \in Packs, q # p PROVE Target(q, r)' = Target(q, r)
    <3>1. Undone' = Undone
      BY DEF Undone
    <3> QED
      BY <1>2, <1>5, <2>3, <3>1, TargetStays
  <2> QED
    BY <1>9, <2>1, <2>2, <2>3 DEF Whole
<1>22. Stored'
  BY <1>17, <1>18, <1>19, <1>20, <1>21 DEF Stored
<1> QED
  BY <1>0, <1>1, <1>2, <1>5, <1>8, <1>9, <1>18, <1>22

\* The current version of a pack, taken back, leaves the index.
LEMMA UnlistStep ==
    ASSUME StoreTypes, StoreTypes', Stored, NEW t \in Listed, journal[t].status = "rolled_back",
           owned' = Unlisting(t), UNCHANGED <<files, journal>>
    PROVE  /\ Stored' /\ Pending' = {}
           /\ Listed' \subseteq Listed
           /\ \A q \in Packs : q # journal[t].pack => owned'[q] = owned[q]
<1>0. PICK rec \in Record : rec = journal[t] /\ t \in Txs
  BY ListedAt DEF StoreTypes, Stored
<1>1. PICK p \in Packs : p = rec.pack
  BY RecordFields
<1>2. /\ Stacks /\ Pending = {t} /\ Sound(t)
  BY <1>0, ListedPending DEF Stored
<1>3. ~OwnedByOther(p) /\ Restored(p) /\ Installed(p) /\ t = Current(p)
  BY <1>0, <1>1, <1>2, ListedAt DEF Sound
<1>4. PICK n \in Nat : n = Len(owned[p]) /\ owned[p] \in Seq(Txs) /\ n # 0
  BY <1>3, CurrentTyped
<1>5. /\ owned'[p] = Front(owned[p]) /\ \A q \in Packs : q # p => owned'[q] = owned[q]
  BY <1>0, <1>1 DEF Unlisting, StoreTypes
<1>6. PICK m \in Nat : m = n - 1
  <2>1. n - 1 \in Nat
    BY <1>4
  <2> QED
    BY <2>1
<1>7. /\ Len(owned'[p]) = m /\ \A i \in 1 .. m : owned'[p][i] = owned[p][i] /\ i \in 1 .. n /\ i # n
  BY <1>4, <1>5, <1>6, FrontTyped
<1>8. /\ DOMAIN owned'[p] = 1 .. m /\ DOMAIN owned[p] = 1 .. n
  BY <1>4, <1>7, LenProperties, CurrentTyped DEF StoreTypes
<1>9. t = owned[p][n] /\ n \in 1 .. n
  BY <1>3, <1>4, CurrentTyped
<1>10. \A u \in Listed : u # t => journal[u].status = "committed"
  BY <1>2, ListedPending
<1>11. ASSUME NEW u PROVE u \in Listed' <=> u \in Listed /\ u # t
  <2>1. ASSUME NEW q \in Packs, q # p
        PROVE  /\ ToSet(owned'[q]) = ToSet(owned[q])
               /\ t \notin ToSet(owned[q])
    <3>1. ASSUME NEW i \in 1 .. Len(owned[q]) PROVE owned[q][i] # t
      BY <1>0, <1>1, <1>2, <2>1, StackFacts DEF StackAt
    <3>2. DOMAIN owned[q] = 1 .. Len(owned[q])
      BY CurrentTyped
    <3> QED
      BY <1>5, <2>1, <3>1, <3>2 DEF ToSet
  <2>2. u \in ToSet(owned'[p]) <=> u \in ToSet(owned[p]) /\ u # t
    <3>1. \A i \in 1 .. n : i = n \/ i \in 1 .. m
      BY <1>6
    <3>2. \A i \in 1 .. m : owned[p][i] # t
      BY <1>2, <1>4, <1>7, <1>9, StackFacts
    <3>3. ToSet(owned'[p]) = {owned'[p][i] : i \in 1 .. m} /\ ToSet(owned[p]) = {owned[p][i] : i \in 1 .. n}
      BY <1>8 DEF ToSet
    <3> QED
      BY <1>7, <1>9, <3>1, <3>2, <3>3
  <2> QED
    BY <2>1, <2>2 DEF Listed
<1>12. /\ Installed(p)' => Installed(p) /\ Current(p)' = owned[p][m] /\ m \in 1 .. n /\ m # n
       /\ \A q \in Packs : q # p => /\ Installed(q)' = Installed(q) /\ Current(q)' = Current(q)
  <2>1. ASSUME Installed(p)' PROVE m # 0
    <3>1. owned'[p] \in Seq(Txs) /\ owned'[p] # << >>
      BY <2>1 DEF Installed, StoreTypes
    <3> QED
      BY <1>7, <3>1, EmptySeq
  <2>2. Current(p)' = owned'[p][m]
    BY <1>7 DEF Current, Last
  <2> QED
    BY <1>3, <1>5, <1>6, <1>7, <2>1, <2>2 DEF Installed, Current
<1>13. \A q \in Packs : ~OwnedByOther(q) => ~OwnedByOther(q)'
  BY <1>12 DEF OwnedByOther
<1>14. ASSUME NEW k \in 0 .. m, NEW r \in Resources PROVE Under(p, k, r)' = Under(p, k, r)
  <2>1. CASE k = 0
    BY <2>1 DEF Under
  <2>2. CASE k # 0
    <3>1. k \in 1 .. m
      BY <2>2
    <3> QED
      BY <1>7, <2>2, <3>1 DEF Under
  <2> QED
    BY <2>1, <2>2
<1>15. ASSUME NEW q \in Packs, NEW i \in 1 .. Len(owned'[q]) PROVE StackAt(q, i)'
  <2>1. CASE q # p
    <3>1. StackAt(q, i)
      BY <1>2, <1>5, <2>1, StackFacts
    <3>2. \A r \in Resources : Under(q, i - 1, r)' = Under(q, i - 1, r)
      BY <1>5, <2>1 DEF Under
    <3> QED
      BY <1>5, <2>1, <3>1, <3>2, ConstantTypes DEF StackAt
  <2>2. CASE q = p
    <3>1. /\ StackAt(p, i) /\ owned[p][i] \in Listed /\ owned'[p][i] = owned[p][i] /\ i # n
      BY <1>2, <1>4, <1>7, <2>2, StackFacts
    <3>2. journal[owned[p][i]].status = "committed"
      BY <1>4, <3>1 DEF StackAt
    <3>3. \A r \in Resources : Under(p, i - 1, r)' = Under(p, i - 1, r)
      <4>1. i - 1 \in 0 .. m
        BY <1>7, <2>2
      <4> QED
        BY <1>14, <4>1
    <3> QED
      BY <2>2, <3>1, <3>2, <3>3, ConstantTypes DEF StackAt
  <2> QED
    BY <2>1, <2>2
<1>16. ASSUME NEW q \in Packs PROVE IsInjective(owned'[q])
  <2>1. CASE q # p
    BY <1>2, <1>5, <2>1 DEF Stacks
  <2>2. CASE q = p
    <3>1. \A i, j \in 1 .. m : owned'[p][i] = owned'[p][j] => i = j
      BY <1>2, <1>4, <1>7, StackFacts
    <3> QED
      BY <1>8, <2>2, <3>1 DEF IsInjective
  <2> QED
    BY <2>1, <2>2
<1>17. Stacks'
  BY <1>2, <1>12, <1>13, <1>15, <1>16 DEF Stacks
<1>18. Pending' = {}
  <2>1. ASSUME NEW u \in Pending' PROVE FALSE
    <3>1. u \in Pending
      BY <1>11 DEF Pending
    <3> QED
      BY <1>2, <1>11, <2>1, <3>1 DEF Pending, Settled
  <2> QED
    BY <2>1
<1>19. DecisionsKept' /\ OnePending'
  BY <1>11, <1>18 DEF Stored, DecisionsKept, OnePending
<1>20. ASSUME NEW r \in Resources PROVE Target(p, r)' = Target(p, r)
  <2>1. Depth(p) = m
    <3>1. Current(p) \in Undone
      BY <1>0, <1>3 DEF Undone
    <3> QED
      BY <1>3, <1>4, <1>6, <3>1 DEF Depth
  <2>2. Depth(p)' = m
    <3>1. ASSUME Installed(p)' PROVE (Current(p) \notin Undone)'
      <4>1. Current(p)' \in Listed /\ Current(p)' # t
        BY <1>2, <1>4, <1>9, <1>12, <3>1, StackFacts
      <4> QED
        BY <1>10, <4>1 DEF Undone
    <3> QED
      BY <1>7, <3>1 DEF Depth
  <2> QED
    BY <1>14, <2>1, <2>2 DEF Target
<1>21. ASSUME NEW r \in Resources PROVE Whole(r)'
  <2>1. CASE r \in ResourcesOf[p]
    <3>1. files'[r] = Target(p, r)' /\ ~OwnedByOther(p)'
      BY <1>3, <1>13, <1>20, <2>1 DEF Restored
    <3> QED
      BY <1>17, <2>1, <3>1, OwnerWholeAfter
  <2>2. CASE r \notin ResourcesOf[p]
    <3>1. Whole(r)
      BY <1>0, <1>1, <1>2, <2>2 DEF Stored
    <3>2. ASSUME NEW q \in Packs, q # p PROVE Target(q, r)' = Target(q, r)
      <4>1. Undone' = Undone
        BY DEF Undone
      <4> QED
        BY <1>2, <1>5, <3>2, <4>1, TargetStays
    <3> QED
      BY <1>12, <2>2, <3>1, <3>2 DEF Whole
  <2> QED
    BY <2>1, <2>2
<1>22. Stored'
  BY <1>17, <1>18, <1>19, <1>21 DEF Stored
<1> QED
  BY <1>0, <1>1, <1>5, <1>11, <1>18, <1>22

\* A decided commit that is listed is marked as committed.
LEMMA CommitStep ==
    ASSUME StoreTypes, StoreTypes', Stored, NEW t \in Listed, journal[t].status = "commit_decided",
           NEW rec, rec = [journal[t] EXCEPT !.status = "committed"],
           journal' = Saved(t, rec), UNCHANGED <<files, owned>>
    PROVE  /\ Stored' /\ Pending' = {} /\ TxWrite(t, rec) /\ rec \in Record
<1>0. PICK old \in Record : old = journal[t] /\ t \in Txs
  BY ListedAt DEF StoreTypes, Stored
<1>1. PICK p \in Packs : p = old.pack
  BY RecordFields
<1>2. /\ Stacks /\ Pending = {t} /\ Sound(t) /\ Installed(p) /\ t = Current(p) /\ old.managed
  BY <1>0, <1>1, ListedPending, ListedAt DEF Stored
<1>3. ~OwnedByOther(p) /\ Applied(old)
  BY <1>0, <1>1, <1>2 DEF Sound
<1>4. /\ rec \in Record /\ rec.status = "committed" /\ rec.pack = p /\ rec.ver = old.ver
      /\ rec.managed = old.managed /\ rec.snap = old.snap
  <2>1. "committed" \in Statuses /\ rec = [old EXCEPT !.status = "committed"]
    BY <1>0 DEF Statuses
  <2> QED
    BY <1>0, <1>1, <2>1, Restatus
<1>5. TxWrite(t, rec)
  BY <1>0, <1>1, <1>2, <1>3, <1>4 DEF TxWrite, Decided
<1>6. t \notin Pending' /\ Pending' = {}
  <2>1. /\ Pending' \subseteq {t}
        /\ t \in Pending' <=> rec.status \notin Settled \/ (rec.status = "rolled_back" /\ t \in Listed)
    BY <1>0, <1>4, <1>5, TxFrame
  <2>2. t \notin Pending'
    BY <1>4, <2>1 DEF Settled
  <2> QED
    BY <2>1, <2>2
<1>7. Restored(p)'
  <2>1. ASSUME NEW r \in ResourcesOf[p] PROVE files'[r] = Target(p, r)'
    <3>1. r \in Resources /\ files[r] = Content[p][old.ver][r]
      BY <1>1, <1>3, ConstantTypes DEF Applied
    <3>2. Target(p, r) = Content[p][old.ver][r]
      BY <1>0, <1>2, <3>1, CommittedDepth DEF UndoneStatuses
    <3>3. journal[t].status \notin UndoneStatuses /\ rec.status \notin UndoneStatuses
      BY <1>4 DEF UndoneStatuses
    <3>4. Target(p, r)' = Target(p, r)
      BY <1>0, <1>4, <1>5, <3>1, <3>3, TxTargets
    <3> QED
      BY <3>1, <3>2, <3>4
  <2> QED
    BY <2>1 DEF Restored
<1> QED
  BY <1>0, <1>4, <1>5, <1>6, <1>7, TxStep

------------------------------------------------------------------------------
(* Steps on what runs, and ends of operations.                              *)

\* A pack that stays installed, and whose version and grants a step keeps.
Steady(p) ==
    Installed(p) =>
      /\ Installed(p)'
      /\ Quiet(p) => /\ Current(p)' = Current(p) /\ Quiet(p)'
                     /\ journal'[Current(p)].ver = journal[Current(p)].ver
                     /\ \A g \in grants : g[1] = Current(p) => g \in grants'

\* A pack that a step takes down.
Halted(p) == p \notin loose' /\ \A r \in Executables(p) : live'[r] = NoContent

\* What runs is still granted when packs are steady, or are taken down.
LEMMA RunsKept ==
    ASSUME RunsGranted, proc \in {"idle", "busy"}, loose' \subseteq loose,
           \A r \in Resources : live'[r] \in {live[r], NoContent},
           \A p \in Packs : (Steady(p) /\ (p \in loose => p \in loose')) \/ Halted(p),
           proc' = "busy" /\ Taken' => /\ job'.rec.pack \notin loose'
                                       /\ \A r \in ResourcesOf[job'.rec.pack] : live'[r] = NoContent
    PROVE  RunsGranted'
<1>1. loose' \subseteq {p \in Packs : Installed(p)'}
  <2>1. ASSUME NEW p \in loose' PROVE p \in Packs /\ Installed(p)'
    <3>1. p \in loose /\ p \in Packs /\ Installed(p)
      BY <2>1 DEF RunsGranted
    <3>2. Steady(p)
      BY <2>1, <3>1 DEF Halted
    <3> QED
      BY <3>1, <3>2 DEF Steady
  <2> QED
    BY <2>1
<1>2. ASSUME NEW r \in Resources, live'[r] # NoContent
      PROVE  Granted(r)' \/ \E p \in loose' : r \in Executables(p)
  <2>1. live'[r] = live[r]
    BY <1>2
  <2>2. CASE Granted(r)
    <3>1. PICK p \in GrantedPacks(grants) :
            Quiet(p) /\ r \in Executables(p) /\ live[r] = Content[p][journal[Current(p)].ver][r]
      BY <2>2 DEF Granted
    <3>2. p \in Packs /\ Installed(p) /\ \E g \in grants : g[1] = Current(p)
      BY <3>1 DEF GrantedPacks
    <3>3. Steady(p)
      BY <1>2, <3>1, <3>2 DEF Halted
    <3>4. /\ Current(p)' = Current(p) /\ journal'[Current(p)].ver = journal[Current(p)].ver
          /\ Quiet(p)' /\ Installed(p)' /\ \E g \in grants' : g[1] = Current(p)
      BY <3>1, <3>2, <3>3 DEF Steady
    <3>5. p \in GrantedPacks(grants)'
      BY <3>2, <3>4 DEF GrantedPacks
    <3>6. live'[r] = Content[p][journal'[Current(p)'].ver][r]
      BY <2>1, <3>1, <3>4
    <3> QED
      BY <3>1, <3>4, <3>5, <3>6 DEF Granted
  <2>3. CASE \E p \in loose : r \in Executables(p)
    <3>1. PICK p \in loose : r \in Executables(p)
      BY <2>3
    <3>2. p \in Packs
      BY DEF RunsGranted
    <3> QED
      BY <1>2, <3>1, <3>2 DEF Halted
  <2> QED
    BY <1>2, <2>1, <2>2, <2>3 DEF RunsGranted
<1> QED
  BY <1>1, <1>2 DEF RunsGranted

\* While a pack is changed, nothing of it runs.
LEMMA TakenDown ==
    ASSUME OtherTypes, RunsGranted, proc = "busy", Taken
    PROVE  /\ \A r \in ResourcesOf[job.rec.pack] : r \in Resources => live[r] = NoContent
           /\ job.rec.pack \notin loose
BY DEF RunsGranted

\* A step on a transaction, that leaves the index and the grants.
LEMMA TxRuns ==
    ASSUME TypeInv, Stored, RunsGranted, proc = "busy", UNCHANGED <<grants, live, loose>>,
           NEW t \in Txs, NEW rec \in Record, TxWrite(t, rec),
           (Taken /\ job.rec.pack = rec.pack) \/ t \in Pending,
           proc' = "busy" /\ Taken' => Taken /\ job'.rec.pack = job.rec.pack
    PROVE  RunsGranted'
<1>0. job.rec.pack \in Packs /\ rec.pack \in Packs
  BY RecordFields DEF TypeInv, JobRec
<1>1. ASSUME NEW p \in Packs, ~(Taken /\ p = rec.pack /\ job.rec.pack = rec.pack) PROVE Steady(p)
  <2>1. Installed(p)' = Installed(p) /\ Current(p)' = Current(p) /\ Pending' \subseteq {t}
        /\ journal'[t] = rec /\ \A u \in Txs : u # t => journal'[u] = journal[u]
    BY TxFrame DEF TypeInv
  <2>2. ASSUME Installed(p) PROVE journal'[Current(p)].ver = journal[Current(p)].ver
    <3>1. Current(p) \in Txs /\ Current(p) \in Listed
      BY <2>2, CurrentAt DEF TypeInv, Stored
    <3> QED
      BY <2>1, <3>1 DEF TxWrite
  <2>3. ASSUME Quiet(p) PROVE Quiet(p)'
    <3>1. rec.pack # p
      BY <1>1, <2>3 DEF Quiet, TxWrite
    <3> QED
      BY <2>1, <3>1 DEF Quiet
  <2> QED
    BY <2>1, <2>2, <2>3 DEF Steady
<1>2. Taken => /\ \A r \in ResourcesOf[job.rec.pack] : live'[r] = NoContent
               /\ job.rec.pack \notin loose'
  BY <1>0, TakenDown, ConstantTypes DEF TypeInv
<1>3. ASSUME NEW p \in Packs PROVE (Steady(p) /\ (p \in loose => p \in loose')) \/ Halted(p)
  <2>1. CASE Taken /\ p = rec.pack /\ job.rec.pack = rec.pack
    BY <1>2, <2>1 DEF Halted, Executables
  <2> QED
    BY <1>1, <2>1
<1> QED
  BY <1>2, <1>3, RunsKept

\* A step that leaves the stores, the grants and what runs.
LEMMA SameRuns ==
    ASSUME TypeInv, RunsGranted, proc \in {"idle", "busy"},
           UNCHANGED <<journal, owned, grants, live, loose>>,
           proc' = "busy" /\ Taken' => proc = "busy" /\ Taken /\ job'.rec.pack = job.rec.pack
    PROVE  RunsGranted'
<1>1. \A p \in Packs : Steady(p)
  BY DEF Steady, Quiet, Pending, Listed, Installed, Current
<1>2. proc' = "busy" /\ Taken' => /\ job'.rec.pack \notin loose'
                                  /\ \A r \in ResourcesOf[job'.rec.pack] : live'[r] = NoContent
  <2>1. job.rec.pack \in Packs
    BY RecordFields DEF TypeInv, JobRec
  <2> QED
    BY <2>1, TakenDown, ConstantTypes DEF TypeInv
<1> QED
  BY <1>1, <1>2, RunsKept

\* An operation that ends with an error; a start that fails leaves no process.
LEMMA ReturnErrorKept ==
    ASSUME JobInv, proc = "busy", ReturnError, job.kind = "start" => UNCHANGED <<live, loose>>
    PROVE  JobInv' /\ (job.kind = "start" => RunsGranted') /\ proc' # "busy"
<1>1. job' = NoJob /\ proc' = IF job.kind = "start" THEN "down" ELSE "idle"
  BY DEF ReturnError
<1>2. job.kind = "start" => live = Nothing /\ loose = {}
  BY DEF JobInv, Starting
<1> QED
  BY <1>1, <1>2 DEF JobInv, RunsGranted

\* An operation that ends well.
LEMMA ReturnKept ==
    ASSUME Return
    PROVE  JobInv' /\ proc' = "idle" /\ job' = NoJob
BY DEF Return, JobInv

------------------------------------------------------------------------------
(* Each action keeps the stores, what is known of the operation and what    *)
(* runs.                                                                    *)

\* The container is built, or an operation is called.
LEMMA CallsKept ==
    ASSUME PackInv, TypeInv',
           Start \/ \E p \in Packs : \/ CallRollback(p)
                                     \/ \E v \in DOMAIN Content[p] : CallInstall(p, v)
                                     \/ \E w \in Workspaces : Ask(p, w)
    PROVE  PackInv'
<1>0. /\ TypeInv /\ Stored /\ JobInv /\ RunsGranted
  BY DEF PackInv
<1>1. UNCHANGED <<files, journal, owned, grants, live, loose>> /\ proc' = "busy"
  BY <1>0 DEF Start, CallRollback, CallInstall, Ask, Take, durable
<1>2. /\ Stored' /\ Pending' = Pending /\ \A p \in Packs : Installed(p)' = Installed(p)
  BY <1>0, <1>1, SameStores
<1>3. CASE Start
  <2>1. job' = Job("start", "reconcile", AnyRecord) /\ proc = "down"
    BY <1>3 DEF Start
  <2>2. job'.kind = "start" /\ job'.step = "reconcile"
    BY <2>1, JobTyped, AnyRecordTyped DEF Kinds, Steps
  <2>3. live = Nothing /\ loose = {}
    BY <1>0, <2>1 DEF JobInv
  <2>4. JobInv'
    BY <1>1, <2>2, <2>3 DEF JobInv, Starting
  <2>5. RunsGranted'
    BY <1>1, <2>3 DEF RunsGranted, Nothing
  <2> QED
    BY <1>2, <2>4, <2>5 DEF PackInv
<1>4. ASSUME NEW p \in Packs, CallRollback(p) PROVE PackInv'
  <2>1. PICK kind \in {"rollback", "remove"} :
          Take(Job(kind, "reconcile", NewRecord(p, CHOOSE v \in Versions : TRUE)))
    BY <1>4 DEF CallRollback
  <2>2. NewRecord(p, CHOOSE v \in Versions : TRUE) \in Record
    BY NewRecordTyped, PackAssumption
  <2>3. job'.kind = kind /\ job'.step = "reconcile" /\ proc = "idle"
    BY <2>1, <2>2, JobTyped DEF Take, Kinds, Steps
  <2>4. JobInv'
    BY <1>1, <1>2, <2>3 DEF JobInv, Withdrawing
  <2>5. RunsGranted'
    BY <1>0, <1>1, <2>3, SameRuns DEF Taken
  <2> QED
    BY <1>2, <2>4, <2>5 DEF PackInv
<1>5. ASSUME NEW p \in Packs, NEW v \in DOMAIN Content[p], CallInstall(p, v) PROVE PackInv'
  <2>1. PICK approved \in BOOLEAN :
          Take([Job("install", "reconcile", NewRecord(p, v)) EXCEPT !.replace = approved])
    BY <1>5 DEF CallInstall
  <2>2. PICK rec \in Record : rec = NewRecord(p, v) /\ rec.pack = p /\ rec.ver = v
    BY ConstantTypes, NewRecordTyped
  <2>3. PICK i : i = Job("install", "reconcile", rec)
    OBVIOUS
  <2>4. i \in JobRec /\ i.kind = "install" /\ i.step = "reconcile" /\ i.rec = rec
    BY <2>3, JobTyped DEF Kinds, Steps
  <2>5. job' = [i EXCEPT !.replace = approved] /\ proc = "idle"
    BY <2>1, <2>2, <2>3 DEF Take
  <2>6. job'.kind = "install" /\ job'.step = "reconcile" /\ job'.rec = rec
    BY <2>4, <2>5 DEF JobRec
  <2>7. \E t \in Txs : journal'[t].status = "none"
    BY <1>5, <1>1 DEF CallInstall
  <2>8. Installing'
    BY <1>1, <1>2, <2>2, <2>5, <2>6, <2>7 DEF Installing
  <2>9. JobInv'
    BY <1>1, <2>6, <2>8 DEF JobInv
  <2>10. RunsGranted'
    BY <1>0, <1>1, <2>5, <2>6, SameRuns DEF Taken
  <2> QED
    BY <1>2, <2>9, <2>10 DEF PackInv
<1>6. ASSUME NEW p \in Packs, NEW w \in Workspaces, Ask(p, w) PROVE PackInv'
  <2>1. Take([Job("grant", "prompt", journal[Current(p)]) EXCEPT !.workspace = w, !.tx = Current(p)])
    BY <1>6 DEF Ask
  <2>2. Current(p) \in Txs
    BY <1>0, <1>6, CurrentTyped DEF Ask, TypeInv
  <2>3. PICK i : i = Job("grant", "prompt", journal[Current(p)])
    OBVIOUS
  <2>4. i \in JobRec /\ i.kind = "grant" /\ i.step = "prompt"
    BY <1>0, <2>2, <2>3, JobTyped DEF TypeInv, StoreTypes, Kinds, Steps
  <2>5. job' = [i EXCEPT !.workspace = w, !.tx = Current(p)] /\ proc = "idle"
    BY <2>1, <2>3 DEF Take
  <2>6. job'.kind = "grant" /\ job'.step = "prompt" /\ job'.tx = Current(p)
    BY <2>4, <2>5 DEF JobRec
  <2>7. JobInv'
    BY <1>1, <1>2, <2>2, <2>5, <2>6 DEF JobInv
  <2>8. RunsGranted'
    BY <1>0, <1>1, <2>5, <2>6, SameRuns DEF Taken
  <2> QED
    BY <1>2, <2>7, <2>8 DEF PackInv
<1> QED
  BY <1>3, <1>4, <1>5, <1>6

\* The end of a process.
LEMMA StopKept ==
    ASSUME PackInv, TypeInv', Down, UNCHANGED <<files, journal, owned>>
    PROVE  PackInv'
<1>1. Stored'
  BY SameStores DEF PackInv
<1>2. JobInv' /\ RunsGranted'
  BY DEF Down, JobInv, RunsGranted
<1> QED
  BY <1>1, <1>2 DEF PackInv

\* reconcile_managed_commits: a commit that is not complete is what is open.
LEMMA UnreconciledOpen ==
    ASSUME PackInv, NEW t \in Unreconciled
    PROVE  t \in Txs /\ journal[t].status = "commit_decided" /\ Pending = {t}
<1>1. t \in Txs /\ journal[t].status = "commit_decided"
  BY DEF Unreconciled, PackInv, Stored, DecisionsKept
<1>2. t \in Pending /\ Pending = {t}
  BY <1>1 DEF Pending, Settled, PackInv, Stored, OnePending
<1> QED
  BY <1>1, <1>2

\* The operation goes on with the next commit.
LEMMA StillReconciling ==
    ASSUME PackInv, TypeInv', proc = "busy", job.step = "reconcile",
           UNCHANGED <<proc, job, live, loose>>
    PROVE  JobInv'
<1>0. JobInv /\ JobTypes'
  BY DEF PackInv, TypeInv
<1>1. job.kind = "start" => Starting'
  BY <1>0 DEF JobInv, Starting
<1>2. job.kind = "install" => Installing'
  <2>1. ASSUME job.kind = "install" PROVE Installing'
    <3>1. Installing /\ \E t \in Txs : journal'[t].status = "none"
      BY <1>0, <2>1 DEF JobInv, JobTypes, Opening
    <3> QED
      BY <3>1 DEF Installing
  <2> QED
    BY <2>1
<1>3. job.kind \in {"rollback", "remove"} => Withdrawing'
  BY <1>0 DEF JobInv, Withdrawing
<1> QED
  BY <1>0, <1>1, <1>2, <1>3 DEF JobInv

\* reconcile_managed_commits: a decided commit is owned, and marked.
LEMMA ReconcileKept ==
    ASSUME PackInv, TypeInv', ReconcileOwnership \/ ReconcileCommit \/ Reconciled
    PROVE  PackInv'
<1>0. /\ TypeInv /\ Stored /\ JobInv /\ RunsGranted /\ StoreTypes /\ StoreTypes' /\ Stacks
      /\ proc = "busy" /\ job.step = "reconcile" /\ job \in JobRec
  BY DEF PackInv, TypeInv, Stored, ReconcileOwnership, ReconcileCommit, Reconciled
<1>1. CASE ReconcileOwnership
  <2>1. PICK t \in First(Unreconciled) \ Listed :
          /\ owned' \in {owned, Listing(t, journal[t])}
          /\ \/ UNCHANGED <<proc, job>>
             \/ ReturnError
    BY <1>1 DEF ReconcileOwnership
  <2>2. t \in Unreconciled
    BY <2>1 DEF First
  <2>3. UNCHANGED <<files, journal, grants, live, loose>>
    BY <1>1 DEF ReconcileOwnership
  <2>4. t \in Txs /\ journal[t].status = "commit_decided" /\ Pending = {t}
    BY <2>2, UnreconciledOpen
  <2>5. Stored' /\ Pending' = {t}
    BY <1>0, <2>1, <2>3, <2>4, SameStores, ListStep
  <2>6. JobInv'
    BY <1>0, <2>1, <2>3, StillReconciling, ReturnErrorKept
  <2>7. ASSUME NEW q \in Packs PROVE Steady(q)
    <3>1. CASE owned' = owned
      BY <2>3, <2>4, <2>5, <3>1 DEF Steady, Quiet, Installed, Current
    <3>2. CASE owned' = Listing(t, journal[t]) /\ q # journal[t].pack
      <4>1. owned'[q] = owned[q]
        BY <1>0, <2>1, <2>3, <2>4, <3>2, ListStep
      <4> QED
        BY <2>3, <2>4, <2>5, <4>1 DEF Steady, Quiet, Installed, Current
    <3>3. CASE owned' = Listing(t, journal[t]) /\ q = journal[t].pack
      <4>1. Installed(q)'
        BY <1>0, <2>1, <2>3, <2>4, <3>3, ListStep
      <4> QED
        BY <2>4, <3>3, <4>1 DEF Steady, Quiet
    <3> QED
      BY <2>1, <3>1, <3>2, <3>3
  <2>8. proc' = "busy" /\ Taken' => Taken /\ job' = job
    <3>1. CASE UNCHANGED <<proc, job>>
      BY <2>3, <3>1 DEF Taken
    <3>2. CASE ReturnError
      BY <1>0, <2>3, <3>2, ReturnErrorKept
    <3> QED
      BY <2>1, <3>1, <3>2
  <2>9. ~Taken
    BY <1>0 DEF Taken
  <2>10. RunsGranted'
    BY <1>0, <2>3, <2>7, <2>8, <2>9, RunsKept
  <2> QED
    BY <2>5, <2>6, <2>10 DEF PackInv
<1>2. CASE ReconcileCommit
  <2>1. PICK t \in First(Unreconciled) \cap Listed :
          LET rec == [journal[t] EXCEPT !.status = "committed"] IN
          \/ Save(t, rec) /\ UNCHANGED <<proc, job>>
          \/ SaveFails(t, rec) /\ ReturnError
    BY <1>2 DEF ReconcileCommit
  <2>2. t \in Unreconciled /\ t \in Listed
    BY <2>1 DEF First
  <2>3. UNCHANGED <<files, owned, grants, live, loose>>
    BY <1>2 DEF ReconcileCommit
  <2>4. t \in Txs /\ journal[t].status = "commit_decided" /\ Pending = {t}
    BY <2>2, UnreconciledOpen
  <2>5. PICK rec : rec = [journal[t] EXCEPT !.status = "committed"]
    OBVIOUS
  <2>6. /\ journal' = journal \/ journal' = Saved(t, rec)
        /\ UNCHANGED <<proc, job>> \/ ReturnError
    BY <2>1, <2>5 DEF Save, SaveFails
  <2>7. proc' = "busy" /\ Taken' => Taken /\ job'.rec.pack = job.rec.pack
    <3>1. ~Taken
      BY <1>0 DEF Taken
    <3>2. CASE ReturnError
      BY <1>0, <2>3, <3>2, ReturnErrorKept
    <3>3. CASE UNCHANGED <<proc, job>>
      BY <3>1, <3>3 DEF Taken
    <3> QED
      BY <2>6, <3>2, <3>3
  <2>8. Stored' /\ RunsGranted'
    <3>1. CASE journal' = journal
      BY <1>0, <2>3, <2>7, <3>1, SameStores, SameRuns
    <3>2. CASE journal' = Saved(t, rec)
      <4>1. Stored' /\ TxWrite(t, rec) /\ rec \in Record
        BY <1>0, <2>2, <2>3, <2>4, <2>5, <3>2, CommitStep
      <4> QED
        BY <1>0, <2>3, <2>4, <2>7, <4>1, TxRuns
    <3> QED
      BY <2>6, <3>1, <3>2
  <2>9. JobInv'
    BY <1>0, <2>3, <2>6, StillReconciling, ReturnErrorKept
  <2> QED
    BY <2>8, <2>9 DEF PackInv
<1>3. CASE Reconciled
  <2>1. /\ UNCHANGED <<files, journal, owned, grants, live, loose>> /\ Unreconciled = {}
        /\ Goto(CASE job.kind = "start" -> "scan"
              [] job.kind = "install" -> "check"
              [] OTHER -> "withdraw")
    BY <1>3 DEF Reconciled, durable
  <2>2. /\ Stored' /\ Pending' = Pending /\ \A p \in Packs : Installed(p)' = Installed(p)
    BY <1>0, <2>1, SameStores
  <2>3. PICK s \in Steps : /\ s = (CASE job.kind = "start" -> "scan"
                                     [] job.kind = "install" -> "check"
                                     [] OTHER -> "withdraw")
                           /\ s \notin {"revoke", "mark", "restore"}
    BY DEF Steps
  <2>4. /\ job' \in JobRec /\ proc' = "busy" /\ job'.kind = job.kind /\ job'.step = s
        /\ job'.rec = job.rec /\ job'.tx = job.tx
    BY <1>0, <2>1, <2>3, GotoTyped
  <2>5. CASE job.kind = "start"
    <3>1. s = "scan"
      BY <2>3, <2>5
    <3>2. JobInv'
      BY <1>0, <2>1, <2>4, <2>5, <3>1 DEF JobInv, Starting
    <3>3. RunsGranted'
      BY <1>0, <2>1, <2>4, <2>5, <3>1, SameRuns DEF Taken
    <3> QED
      BY <2>2, <3>2, <3>3 DEF PackInv
  <2>6. CASE job.kind = "install"
    <3>1. s = "check"
      BY <2>3, <2>6
    <3>2. Installing
      BY <1>0, <2>6 DEF JobInv
    <3>3. Installing'
      BY <1>0, <2>1, <2>2, <2>4, <3>1, <3>2 DEF Installing
    <3>4. JobInv'
      BY <2>4, <2>6, <3>1, <3>3 DEF JobInv
    <3>5. RunsGranted'
      BY <1>0, <2>1, <2>4, <2>6, <3>1, SameRuns DEF Taken
    <3> QED
      BY <2>2, <3>4, <3>5 DEF PackInv
  <2>7. CASE job.kind \in {"rollback", "remove"}
    <3>1. s = "withdraw"
      BY <2>3, <2>7
    <3>2. Withdrawing
      BY <1>0, <2>7 DEF JobInv
    <3>3. Withdrawing'
      BY <1>0, <2>1, <2>2, <2>4, <3>1, <3>2 DEF Withdrawing
    <3>4. JobInv'
      BY <2>4, <2>7, <3>1, <3>3 DEF JobInv
    <3>5. RunsGranted'
      BY <1>0, <2>1, <2>4, <2>7, <3>1, SameRuns DEF Taken
    <3> QED
      BY <2>2, <3>4, <3>5 DEF PackInv
  <2>8. job.kind \in {"start", "install", "rollback", "remove"}
    BY <1>0 DEF JobInv, JobRec, Kinds
  <2> QED
    BY <2>5, <2>6, <2>7, <2>8
<1> QED
  BY <1>1, <1>2, <1>3

\* Of a pack that no other stands in the way of, only its own activation runs.
LEMMA RunsOwn ==
    ASSUME RunsGranted, proc \in {"idle", "busy"}, NEW p \in Packs, ~OwnedByOther(p),
           NEW r \in ResourcesOf[p], live[r] # NoContent
    PROVE  Installed(p) /\ r \in Executables(p)
<1>1. r \in Resources
  BY ConstantTypes
<1>2. PICK q \in Packs : Installed(q) /\ r \in Executables(q)
  BY <1>1 DEF RunsGranted, Granted, GrantedPacks
<1>3. r \in ResourcesOf[q]
  BY <1>2 DEF Executables
<1>4. q = p
  BY <1>2, <1>3 DEF OwnedByOther
<1> QED
  BY <1>2, <1>3, <1>4

\* A pack is taken down before its version changes.
LEMMA DownRuns ==
    ASSUME PackInv, proc \in {"idle", "busy"}, NEW p \in Packs, ~OwnedByOther(p), p = job'.rec.pack,
           TakeDown(p), UNCHANGED <<journal, owned, grants>>
    PROVE  RunsGranted'
<1>1. \A q \in Packs : Steady(q)
  BY DEF Steady, Quiet, Pending, Listed, Installed, Current
<1>2. /\ \A r \in Resources : live'[r] = IF r \in Executables(p) THEN NoContent ELSE live[r]
      /\ loose' = loose \ {p}
  BY DEF TakeDown, Deactivated
<1>3. \A r \in ResourcesOf[p] : live'[r] = NoContent
  <2>1. ASSUME NEW r \in ResourcesOf[p] PROVE live'[r] = NoContent
    <3>1. r \in Resources
      BY ConstantTypes
    <3>2. live[r] # NoContent => r \in Executables(p)
      BY RunsOwn DEF PackInv
    <3> QED
      BY <1>2, <3>1, <3>2
  <2> QED
    BY <2>1
<1>4. \A r \in Resources : live'[r] \in {live[r], NoContent}
  BY <1>2
<1>5. RunsGranted /\ proc \in {"idle", "busy"}
  BY DEF PackInv
<1>6. Halted(p)
  BY <1>2, <1>3 DEF Halted, Executables
<1> QED
  BY <1>1, <1>2, <1>3, <1>4, <1>5, <1>6, RunsKept

\* A pack that is only partly taken down ends the operation.
LEMMA PartlyDown ==
    ASSUME PackInv, TypeInv', proc = "busy", job.kind # "start", NEW p \in Packs, TakeDownFails(p),
           ReturnError, UNCHANGED <<files, journal, owned, grants, loose>>
    PROVE  PackInv'
<1>1. Stored'
  BY SameStores DEF PackInv
<1>2. JobInv' /\ proc' # "busy"
  BY ReturnErrorKept DEF PackInv
<1>3. \A q \in Packs : Steady(q)
  BY DEF Steady, Quiet, Pending, Listed, Installed, Current
<1>4. \A r \in Resources : live'[r] \in {live[r], NoContent}
  BY DEF TakeDownFails
<1>5. RunsGranted'
  BY <1>2, <1>3, <1>4, RunsKept DEF PackInv
<1> QED
  BY <1>1, <1>2, <1>5 DEF PackInv

\* An installation is checked.
LEMMA CheckKept ==
    ASSUME PackInv, TypeInv', Check
    PROVE  PackInv'
<1>0. /\ TypeInv /\ Stored /\ JobInv /\ RunsGranted /\ StoreTypes /\ Stacks
      /\ proc = "busy" /\ job.step = "check" /\ job.kind = "install" /\ job \in JobRec
      /\ UNCHANGED <<files, journal, owned, grants>>
  BY DEF PackInv, TypeInv, Stored, Check, Busy, durable
<1>1. PICK rec \in Record : rec = job.rec
  BY <1>0, JobFields
<1>2. PICK p \in Packs : p = rec.pack
  BY RecordFields
<1>3. /\ rec.ver \in DOMAIN Content[p] /\ rec = NewRecord(p, rec.ver)
      /\ \E t \in Txs : journal[t].status = "none"
  <2>1. Installing
    BY <1>0 DEF JobInv
  <2> QED
    BY <1>0, <1>1, <1>2, <2>1 DEF Installing
<1>4. /\ Stored' /\ \A q \in Packs : Installed(q)' = Installed(q) /\ Current(q)' = Current(q)
      /\ MayOwn(p, rec.ver)' = MayOwn(p, rec.ver)
  BY <1>0, <1>1, <1>3, SameStores, RecordFields
<1>5. \/ Return /\ UNCHANGED <<live, loose>>
      \/ MayOwn(p, rec.ver) /\ \/ /\ Installed(p) /\ TakeDown(p) /\ UNCHANGED proc
                                  /\ job' = [job EXCEPT !.step = "revoke", !.tx = Current(p)]
                               \/ ~Installed(p) /\ Goto("begin") /\ UNCHANGED <<live, loose>>
      \/ TakeDownFails(p) /\ ReturnError /\ UNCHANGED loose
  BY <1>1, <1>2 DEF Check
<1>6. CASE Return /\ UNCHANGED <<live, loose>>
  <2>1. JobInv' /\ proc' = "idle"
    BY <1>6, ReturnKept
  <2>2. RunsGranted'
    BY <1>0, <1>6, <2>1, SameRuns
  <2> QED
    BY <1>4, <2>1, <2>2 DEF PackInv
<1>7. CASE /\ MayOwn(p, rec.ver) /\ Installed(p) /\ TakeDown(p) /\ UNCHANGED proc
           /\ job' = [job EXCEPT !.step = "revoke", !.tx = Current(p)]
  <2>1. /\ job'.kind = "install" /\ job'.step = "revoke" /\ job'.rec = rec /\ job'.tx = Current(p)
    BY <1>0, <1>1, <1>7 DEF JobRec
  <2>2. Installing'
    BY <1>0, <1>1, <1>2, <1>3, <1>4, <1>7, <2>1 DEF Installing
  <2>3. JobInv'
    BY <1>0, <1>7, <2>1, <2>2 DEF JobInv
  <2>4. RunsGranted'
    BY <1>0, <1>2, <1>7, <2>1, DownRuns DEF MayOwn
  <2> QED
    BY <1>4, <2>3, <2>4 DEF PackInv
<1>8. CASE MayOwn(p, rec.ver) /\ ~Installed(p) /\ Goto("begin") /\ UNCHANGED <<live, loose>>
  <2>1. job'.kind = "install" /\ job'.step = "begin" /\ job'.rec = rec /\ proc' = "busy"
    BY <1>0, <1>1, <1>8, GotoTyped DEF Steps
  <2>2. Installing'
    BY <1>0, <1>1, <1>2, <1>3, <1>4, <1>8, <2>1 DEF Installing
  <2>3. JobInv'
    BY <2>1, <2>2 DEF JobInv
  <2>4. \A q \in Packs : Steady(q)
    BY <1>0 DEF Steady, Quiet, Pending, Listed, Installed, Current
  <2>5. p \notin loose' /\ \A r \in ResourcesOf[p] : live'[r] = NoContent
    BY <1>0, <1>8, RunsOwn DEF MayOwn, RunsGranted
  <2>6. RunsGranted'
    BY <1>0, <1>2, <1>8, <2>1, <2>4, <2>5, RunsKept
  <2> QED
    BY <1>4, <2>3, <2>6 DEF PackInv
<1>9. CASE TakeDownFails(p) /\ ReturnError /\ UNCHANGED loose
  BY <1>0, <1>9, PartlyDown
<1> QED
  BY <1>5, <1>6, <1>7, <1>8, <1>9

\* The grants of the version that is replaced or taken back are revoked.
LEMMA RevokeKept ==
    ASSUME PackInv, TypeInv', Revoke
    PROVE  PackInv'
<1>0. /\ TypeInv /\ Stored /\ JobInv /\ RunsGranted /\ StoreTypes /\ Stacks
      /\ proc = "busy" /\ job.step = "revoke" /\ job \in JobRec
      /\ job.kind \in {"install", "rollback", "remove"}
      /\ UNCHANGED <<files, journal, owned, live, loose>>
  BY DEF PackInv, TypeInv, Stored, Revoke, Busy
<1>1. PICK rec \in Record : rec = job.rec
  BY <1>0, JobFields
<1>2. PICK p \in Packs : p = rec.pack
  BY RecordFields
<1>3. /\ grants' \in {grants, {g \in grants : g[1] # job.tx}}
      /\ \/ Goto("begin") /\ job.kind = "install"
         \/ Goto("load") /\ job.kind # "install"
         \/ ReturnError
  BY DEF Revoke
<1>4. Installed(p) /\ job.tx = Current(p)
  BY <1>0, <1>1, <1>2 DEF JobInv, Installing, Withdrawing
<1>5. /\ Stored' /\ Pending' = Pending /\ Installed(p)' = Installed(p) /\ Current(p)' = Current(p)
      /\ MayOwn(p, rec.ver)' = MayOwn(p, rec.ver)
  BY <1>0, <1>1, <1>4, SameStores, RecordFields
<1>6. Taken /\ p \notin loose' /\ \A r \in ResourcesOf[p] : live'[r] = NoContent
  <2>1. Taken
    BY <1>0 DEF Taken
  <2> QED
    BY <1>0, <1>1, <1>2, <2>1, TakenDown, ConstantTypes DEF TypeInv
<1>7. ASSUME proc' = "busy" => job'.rec.pack = p PROVE RunsGranted'
  <2>1. ASSUME NEW q \in Packs PROVE Steady(q) \/ Halted(q)
    <3>1. CASE q = p
      BY <1>6, <3>1 DEF Halted, Executables
    <3>2. CASE q # p
      <4>1. Installed(q) => Current(q) # job.tx
        BY <1>0, <1>4, <3>2, CurrentAt
      <4> QED
        BY <1>0, <1>3, <1>5, <4>1 DEF Steady, Quiet, Installed, Current
    <3> QED
      BY <3>1, <3>2
  <2> QED
    BY <1>0, <1>6, <1>7, <2>1, RunsKept
<1>8. CASE Goto("begin") /\ job.kind = "install"
  <2>1. job'.kind = "install" /\ job'.step = "begin" /\ job'.rec = rec /\ proc' = "busy"
    BY <1>0, <1>1, <1>8, GotoTyped DEF Steps
  <2>2. Installing
    BY <1>0, <1>8 DEF JobInv
  <2>3. Installing'
    BY <1>0, <1>1, <1>2, <1>5, <2>1, <2>2 DEF Installing
  <2>4. JobInv'
    BY <2>1, <2>3 DEF JobInv
  <2> QED
    BY <1>2, <1>5, <1>7, <2>1, <2>4 DEF PackInv
<1>9. CASE Goto("load") /\ job.kind # "install"
  <2>1. /\ job'.kind = job.kind /\ job'.step = "load" /\ job'.rec = rec /\ job'.tx = Current(p)
        /\ proc' = "busy"
    BY <1>0, <1>1, <1>4, <1>9, GotoTyped DEF Steps
  <2>2. JobInv'
    BY <1>0, <1>2, <1>4, <1>5, <1>9, <2>1 DEF JobInv, Withdrawing
  <2> QED
    BY <1>2, <1>5, <1>7, <2>1, <2>2 DEF PackInv
<1>10. CASE ReturnError
  BY <1>0, <1>5, <1>7, <1>10, ReturnErrorKept DEF PackInv
<1> QED
  BY <1>3, <1>8, <1>9, <1>10

\* A step on a transaction that is not listed, and that it leaves undecided or
\* decides.
LEMMA UnlistedStep ==
    ASSUME StoreTypes, Stored, NEW t \in Txs, t \notin Listed, Pending \subseteq {t},
           NEW rec \in Record, journal' = Saved(t, rec), UNCHANGED owned,
           t \in Pending => journal[t].pack = rec.pack, ~OwnedByOther(rec.pack),
           rec.status # "committed", rec.status = "commit_decided" => rec.managed,
           \A r \in Resources \ ResourcesOf[rec.pack] : files'[r] = files[r]
    PROVE  /\ TxWrite(t, rec) /\ journal'[t] = rec /\ Listed' = Listed
           /\ rec.status \notin Settled => Pending' = {t}
           /\ rec.status \in Settled => Pending' = {}
           /\ \A q \in Packs, r \in Resources : Target(q, r)' = Target(q, r)
           /\ \A q \in Packs : /\ OwnedByOther(q)' = OwnedByOther(q)
                               /\ Installed(q)' = Installed(q) /\ Current(q)' = Current(q)
                               /\ \A v \in Versions : MayOwn(q, v)' = MayOwn(q, v)
<1>1. TxWrite(t, rec)
  BY DEF TxWrite, Decided
<1>2. \A q \in Packs, r \in Resources : Target(q, r)' = Target(q, r)
  BY <1>1, TxTargets
<1>3. /\ journal'[t] = rec /\ Listed' = Listed
      /\ \A q \in Packs : /\ OwnedByOther(q)' = OwnedByOther(q)
                          /\ Installed(q)' = Installed(q) /\ Current(q)' = Current(q)
                          /\ \A v \in Versions : MayOwn(q, v)' = MayOwn(q, v)
  BY <1>1, TxFrame
<1>4. Pending' \subseteq {t} /\ (t \in Pending' <=> rec.status \notin Settled)
  <2>1. /\ Pending' \subseteq {t}
        /\ t \in Pending' <=> rec.status \notin Settled \/ (rec.status = "rolled_back" /\ t \in Listed)
    BY <1>1, TxFrame
  <2> QED
    BY <2>1
<1> QED
  BY <1>1, <1>2, <1>3, <1>4

\* The journal of an installation that is not decided, or that is decided now.
LEMMA BuildStep ==
    ASSUME StoreTypes, StoreTypes', Stored, NEW t \in Txs, t \notin Listed, Pending \subseteq {t},
           NEW rec \in Record, journal' = Saved(t, rec), UNCHANGED <<files, owned>>,
           t \in Pending => journal[t].pack = rec.pack, MayOwn(rec.pack, rec.ver),
           rec.ver \in DOMAIN Content[rec.pack], SnapsWithin(rec), Undoable(rec),
           \/ rec.status \in BuildingStatuses
           \/ rec.status = "commit_decided" /\ rec.managed /\ Applied(rec)
    PROVE  /\ Stored' /\ Pending' = {t} /\ Listed' = Listed /\ MayOwn(rec.pack, rec.ver)'
           /\ Undoable(rec)'
           /\ \A q \in Packs, r \in Resources : Target(q, r)' = Target(q, r)
<1>0. rec.pack \in Packs /\ rec.ver \in Versions /\ rec.status \notin Settled /\ ~OwnedByOther(rec.pack)
  BY RecordFields DEF BuildingStatuses, Settled, MayOwn
<1>1. rec.status # "committed" /\ (rec.status = "commit_decided" => rec.managed)
  BY DEF BuildingStatuses
<1>2. /\ TxWrite(t, rec) /\ journal'[t] = rec /\ Listed' = Listed /\ Pending' = {t}
      /\ \A q \in Packs, r \in Resources : Target(q, r)' = Target(q, r)
      /\ OwnedByOther(rec.pack)' = OwnedByOther(rec.pack)
      /\ MayOwn(rec.pack, rec.ver)' = MayOwn(rec.pack, rec.ver)
  BY <1>0, <1>1, UnlistedStep
<1>3. Undoable(rec)' /\ (Applied(rec) => Applied(rec)')
  BY <1>0, <1>2, ConstantTypes DEF Undoable, Applied
<1>4. ASSUME rec.status = "commit_decided", NEW r \in ResourcesOf[rec.pack]
      PROVE  Reverted(rec, r) = Target(rec.pack, r)'
  <2>1. /\ Target(rec.pack, r)' = Target(rec.pack, r) /\ Target(rec.pack, r) # NoSnapshot
    BY <1>0, <1>2, TargetTyped, ConstantTypes DEF Stored
  <2>2. files[r] = Content[rec.pack][rec.ver][r]
    BY <1>4 DEF Applied, BuildingStatuses
  <2> QED
    BY <2>1, <2>2 DEF Undoable, Reverted
<1>5. Sound(t)'
  BY <1>0, <1>2, <1>3, <1>4 DEF Sound, BuildingStatuses
<1>6. Stored'
  BY <1>2, <1>5, TxStep
<1> QED
  BY <1>2, <1>3, <1>6

\* A failed installation is undone with the record in memory.
LEMMA UndoKept ==
    ASSUME PackInv, proc = "busy", job.kind = "install", NEW rec \in Record, Undo(rec),
           job.tx \in Txs, job.tx \notin Listed', Pending' = {job.tx}, hit',
           journal'[job.tx].pack = rec.pack, journal'[job.tx].ver = rec.ver,
           journal'[job.tx].status \in BuildingStatuses \cup {"commit_decided"},
           rec.ver \in DOMAIN Content[rec.pack], SnapsWithin(rec), Undoable(rec)'
    PROVE  JobInv'
<1>1. /\ job'.kind = "install" /\ job'.step = "mark" /\ job'.rec = rec /\ job'.tx = job.tx
      /\ proc' = "busy"
  BY UndoTyped DEF PackInv, TypeInv
<1>2. Installing'
  BY <1>1 DEF Installing
<1>3. RollingBack'
  BY <1>1 DEF RollingBack
<1> QED
  BY <1>1, <1>2, <1>3 DEF JobInv

\* An installation under way.
LEMMA UnderWay ==
    ASSUME PackInv, proc = "busy", job.kind = "install",
           job.step \in {"applying", "snapshot", "apply", "decide", "own"}
    PROVE  /\ job.tx \in Txs /\ job.rec \in Record /\ job.rec.pack \in Packs
           /\ journal[job.tx] = job.rec /\ job.rec.ver \in DOMAIN Content[job.rec.pack]
           /\ Pending = {job.tx} /\ job.tx \notin Listed /\ MayOwn(job.rec.pack, job.rec.ver)
           /\ ResourcesOf[job.rec.pack] \subseteq Resources
           /\ job.step # "own" => /\ SnapsWithin(job.rec) /\ Undoable(job.rec)
                                  /\ job.rec.status \in BuildingStatuses
           /\ Taken
<1>1. TypeInv /\ Installing /\ Stored /\ job.rec \in Record /\ job.rec.pack \in Packs
  BY JobFields DEF PackInv, JobInv, TypeInv
<1>2. job.tx \in Txs
  BY <1>1 DEF TypeInv, JobTypes, TxSteps
<1>3. PICK s \in BuildingStatuses \cup {"commit_decided"} :
        InProgress(job.rec, s) /\ (job.step # "own" => s \in BuildingStatuses)
  BY <1>1 DEF Installing, BuildingStatuses
<1>4. /\ journal[job.tx] = job.rec /\ Pending = {job.tx} /\ job.tx \notin Listed
      /\ MayOwn(job.rec.pack, job.rec.ver) /\ job.rec.status = s
  BY <1>3 DEF InProgress
<1>5. Sound(job.tx)
  BY <1>1, <1>4 DEF Stored
<1>6. job.step # "own" => SnapsWithin(job.rec) /\ Undoable(job.rec) /\ job.rec.status \in BuildingStatuses
  BY <1>3, <1>4, <1>5 DEF Sound
<1> QED
  BY <1>1, <1>2, <1>4, <1>6, ConstantTypes DEF Installing, Taken

\* Nothing is snapshotted when an installation begins.
LEMMA NewRecordStatus ==
    ASSUME NEW p \in Packs, NEW v \in Versions, NEW rec, rec = NewRecord(p, v)
    PROVE  rec.status = "prepared" /\ \A r \in Resources : rec.snap[r] = NoSnapshot
<1>1. PICK snap : snap = [r \in Resources |-> NoSnapshot]
  OBVIOUS
<1>2. rec = [pack |-> p, ver |-> v, status |-> "prepared", managed |-> FALSE, snap |-> snap]
  BY <1>1 DEF NewRecord
<1> QED
  BY <1>1, <1>2

\* What a start would have to settle.
LEMMA OpenPending ==
    ASSUME StoreTypes, Stored
    PROVE  Open = Pending
<1>1. ASSUME NEW t \in Listed PROVE t \in Txs /\ journal[t].managed
  <2>1. PICK p \in Packs : \E i \in 1 .. Len(owned[p]) : t = owned[p][i] /\ StackAt(p, i) /\ t \in Txs
    BY <1>1, StackFacts DEF Stored
  <2> QED
    BY <2>1 DEF StackAt
<1>2. ASSUME NEW t \in Txs PROVE t \in Open <=> t \in Pending
  BY <1>1 DEF Open, Pending, Unsettled, TakenBack
<1>3. Open \subseteq Txs /\ Pending \subseteq Txs
  BY DEF Open, Pending, Unsettled, TakenBack
<1> QED
  BY <1>2, <1>3

\* The journal of an installation begins, over nothing that is open.
LEMMA BeginKept ==
    ASSUME PackInv, TypeInv', Begin, ~overlaid'
    PROVE  PackInv'
<1>0. /\ TypeInv /\ Stored /\ JobInv /\ RunsGranted /\ StoreTypes /\ StoreTypes' /\ Stacks
      /\ proc = "busy" /\ job.step = "begin" /\ job.kind = "install" /\ job \in JobRec
      /\ UNCHANGED <<files, owned, grants, live, loose>>
  BY DEF PackInv, TypeInv, Stored, Begin, Busy
<1>1. PICK rec \in Record : rec = job.rec
  BY <1>0, JobFields
<1>2. PICK p \in Packs : p = rec.pack
  BY RecordFields
<1>3. /\ rec.ver \in DOMAIN Content[p] /\ Pending = {} /\ rec = NewRecord(p, rec.ver)
      /\ \E t \in Txs : journal[t].status = "none"
      /\ MayOwn(p, rec.ver)
  <2>1. Installing
    BY <1>0 DEF JobInv
  <2>2. Pending = {}
    BY <1>0, OpenPending DEF Begin
  <2> QED
    BY <1>0, <1>1, <1>2, <2>1, <2>2 DEF Installing
<1>4. /\ rec.status = "prepared" /\ \A r \in Resources : rec.snap[r] = NoSnapshot
  <2>1. PICK v \in Versions : v = rec.ver
    BY RecordFields
  <2>2. rec = NewRecord(p, v)
    BY <1>3, <2>1
  <2> QED
    BY <2>2, NewRecordStatus
<1>5. PICK t \in Txs : t = (CHOOSE u \in Txs : journal[u].status = "none") /\ journal[t].status = "none"
  BY <1>3
<1>6. t \notin Listed
  BY <1>0, <1>5, ListedAt DEF UndoneStatuses
<1>7. ~OwnedByOther(p)
  BY <1>3 DEF MayOwn
<1>8. Restored(p) /\ Undoable(rec) /\ SnapsWithin(rec)
  <2>1. ASSUME NEW r \in ResourcesOf[p] PROVE files[r] = Target(p, r) /\ rec.snap[r] = NoSnapshot
    <3>1. r \in Resources
      BY ConstantTypes
    <3>2. Whole(r)
      BY <1>0, <1>3, <3>1 DEF Stored
    <3> QED
      BY <1>0, <1>4, <1>7, <3>1, <3>2, OwnerWhole
  <2> QED
    BY <1>2, <1>4, <2>1 DEF Restored, Undoable, SnapsWithin
<1>9. ASSUME journal' = Saved(t, rec)
      PROVE  /\ Stored' /\ Pending' = {t} /\ Listed' = Listed /\ MayOwn(p, rec.ver)'
             /\ Restored(p)'
  <2>1. /\ Stored' /\ Pending' = {t} /\ Listed' = Listed /\ MayOwn(p, rec.ver)'
        /\ \A q \in Packs, r \in Resources : Target(q, r)' = Target(q, r)
    BY <1>0, <1>2, <1>3, <1>4, <1>6, <1>8, <1>9, BuildStep DEF BuildingStatuses
  <2> QED
    BY <1>0, <1>8, <2>1, ConstantTypes DEF Restored
<1>13. ASSUME journal' = Saved(t, rec), proc' = "busy" => job'.rec.pack = job.rec.pack PROVE RunsGranted'
  <2>1. TxWrite(t, rec)
    <3>1. t \notin Pending
      BY <1>3
    <3> QED
      BY <1>0, <1>2, <1>3, <1>4, <1>6, <1>7, <1>13, UnlistedStep
  <2>2. Taken
    BY <1>0 DEF Taken
  <2> QED
    BY <1>0, <1>1, <1>13, <2>1, <2>2, TxRuns
<1>10. \/ /\ journal' = Saved(t, rec) /\ UNCHANGED proc
          /\ job' = [job EXCEPT !.step = "applying", !.tx = t]
       \/ journal' \in {journal, Saved(t, rec)} /\ ReturnError
  <2>1. PICK u : u = CHOOSE x \in Txs : journal[x].status = "none"
    OBVIOUS
  <2>2. \/ Save(u, rec) /\ job' = [job EXCEPT !.step = "applying", !.tx = u] /\ UNCHANGED proc
        \/ SaveFails(u, rec) /\ ReturnError
    BY <1>1, <2>1 DEF Begin
  <2> QED
    BY <1>5, <2>1, <2>2 DEF Save, SaveFails
<1>11. CASE /\ journal' = Saved(t, rec) /\ UNCHANGED proc
            /\ job' = [job EXCEPT !.step = "applying", !.tx = t]
  <2>1. /\ job'.kind = "install" /\ job'.step = "applying" /\ job'.rec = rec /\ job'.tx = t
        /\ proc' = "busy"
    BY <1>0, <1>1, <1>5, <1>11 DEF JobRec
  <2>2. journal'[t] = rec
    BY <1>0, <1>11, SavedTyped DEF StoreTypes
  <2>3. InProgress(rec, "prepared")'
    BY <1>2, <1>4, <1>6, <1>9, <1>11, <2>1, <2>2 DEF InProgress
  <2>4. Installing'
    BY <1>2, <1>3, <1>9, <1>11, <2>1, <2>3 DEF Installing
  <2>5. JobInv'
    BY <2>1, <2>4 DEF JobInv
  <2>6. RunsGranted'
    BY <1>1, <1>11, <2>1, <1>13
  <2> QED
    BY <1>9, <1>11, <2>5, <2>6 DEF PackInv
<1>12. CASE journal' \in {journal, Saved(t, rec)} /\ ReturnError
  <2>1. JobInv' /\ proc' # "busy"
    BY <1>0, <1>12, ReturnErrorKept
  <2>2. Stored' /\ RunsGranted'
    <3>1. CASE journal' = journal
      BY <1>0, <2>1, <3>1, SameStores, SameRuns
    <3> QED
      BY <1>9, <1>12, <1>13, <2>1, <3>1
  <2> QED
    BY <2>1, <2>2 DEF PackInv
<1> QED
  BY <1>10, <1>11, <1>12

\* The installation starts to apply its resources.
LEMMA ApplyingKept ==
    ASSUME PackInv, TypeInv', Applying
    PROVE  PackInv'
<1>0. /\ TypeInv /\ Stored /\ JobInv /\ RunsGranted /\ StoreTypes /\ StoreTypes' /\ Stacks
      /\ proc = "busy" /\ job.step = "applying" /\ job.kind = "install" /\ job \in JobRec
      /\ UNCHANGED <<files, owned, grants, live, loose>>
  BY DEF PackInv, TypeInv, Stored, Applying, Busy
<1>1. PICK old \in Record : old = job.rec
  BY <1>0, JobFields
<1>2. PICK p \in Packs : p = old.pack
  BY RecordFields
<1>3. PICK t \in Txs : t = job.tx
  BY <1>0, UnderWay
<1>4. /\ journal[t] = old /\ old.ver \in DOMAIN Content[p] /\ Pending = {t} /\ t \notin Listed
      /\ MayOwn(p, old.ver) /\ ResourcesOf[p] \subseteq Resources /\ SnapsWithin(old)
      /\ Undoable(old) /\ Taken
  BY <1>0, <1>1, <1>2, <1>3, UnderWay
<1>5. Installing
  BY <1>0 DEF JobInv
<1>6. old = NewRecord(p, old.ver) /\ Restored(p)
  BY <1>0, <1>1, <1>2, <1>5 DEF Installing
<1>7. \A r \in Resources : old.snap[r] = NoSnapshot
  <2>1. PICK v \in Versions : v = old.ver
    BY RecordFields
  <2>2. old = NewRecord(p, v)
    BY <1>6, <2>1
  <2> QED
    BY <2>2, NewRecordStatus
<1>8. PICK rec \in Record : /\ rec = [job.rec EXCEPT !.status = "applying"]
                            /\ rec.status = "applying" /\ rec.pack = p /\ rec.ver = old.ver
                            /\ rec.snap = old.snap
  <2>1. PICK x : x = [old EXCEPT !.status = "applying"]
    OBVIOUS
  <2>2. x \in Record /\ x.status = "applying" /\ x.pack = p /\ x.ver = old.ver /\ x.snap = old.snap
    BY <1>2, <2>1, Restatus DEF Statuses
  <2> QED
    BY <1>1, <2>1, <2>2
<1>9. SnapsWithin(rec) /\ Undoable(rec)
  BY <1>2, <1>4, <1>8 DEF SnapsWithin, Undoable
<1>10. ASSUME journal' = Saved(t, rec)
       PROVE  /\ Stored' /\ Pending' = {t} /\ Listed' = Listed /\ MayOwn(p, rec.ver)'
              /\ \A r \in Resources : Target(p, r)' = Target(p, r)
  BY <1>0, <1>2, <1>4, <1>8, <1>9, <1>10, BuildStep DEF BuildingStatuses
<1>14. ASSUME journal' = Saved(t, rec), proc' = "busy" => job'.rec.pack = job.rec.pack PROVE RunsGranted'
  <2>1. TxWrite(t, rec)
    BY <1>0, <1>2, <1>4, <1>8, <1>14, UnlistedStep DEF MayOwn
  <2> QED
    BY <1>0, <1>1, <1>2, <1>4, <1>8, <1>14, <2>1, TxRuns
<1>11. \/ /\ journal' = Saved(t, rec) /\ UNCHANGED proc
          /\ job' = [job EXCEPT !.step = "snapshot", !.rec = rec, !.todo = Changes(p, rec.ver)]
       \/ journal' \in {journal, Saved(t, rec)} /\ ReturnError
  BY <1>3, <1>8 DEF Applying, Save, SaveFails
<1>12. CASE /\ journal' = Saved(t, rec) /\ UNCHANGED proc
            /\ job' = [job EXCEPT !.step = "snapshot", !.rec = rec, !.todo = Changes(p, rec.ver)]
  <2>0. PICK T \in SUBSET Resources : T = Changes(p, rec.ver)
    BY ChangesTyped
  <2>1. /\ job'.kind = "install" /\ job'.step = "snapshot" /\ job'.rec = rec /\ job'.tx = t
        /\ job'.todo = T /\ proc' = "busy"
    BY <1>0, <1>3, <1>12, <2>0 DEF JobRec
  <2>2. journal'[t] = rec
    BY <1>0, <1>12, SavedTyped DEF StoreTypes
  <2>3. InProgress(rec, "applying")'
    BY <1>4, <1>8, <1>10, <1>12, <2>1, <2>2 DEF InProgress
  <2>4. /\ T \subseteq ResourcesOf[p]
        /\ \A r \in T : files'[r] = Target(p, r)' /\ rec.snap[r] = NoSnapshot
        /\ \A r \in ResourcesOf[p] \ T : files'[r] = Content[p][rec.ver][r]
    BY <1>0, <1>4, <1>6, <1>7, <1>8, <1>10, <1>12, <2>0 DEF Changes, Restored
  <2>5. Installing'
    <3>1. /\ job'.todo \subseteq ResourcesOf[job'.rec.pack]
          /\ \A r \in job'.todo : files'[r] = Target(job.rec.pack, r)' /\ job'.rec.snap[r] = NoSnapshot
          /\ \A r \in ResourcesOf[job'.rec.pack] \ job'.todo :
               files'[r] = Content[job'.rec.pack][job'.rec.ver][r]
      BY <1>8, <2>1, <2>4
    <3>2. job'.rec.ver \in DOMAIN Content[job'.rec.pack]
      BY <1>4, <1>8, <2>1
    <3>3. InProgress(job.rec, "applying")'
      BY <2>1, <2>3
    <3> QED
      BY <2>1, <3>1, <3>2, <3>3 DEF Installing
  <2>6. JobInv'
    BY <2>1, <2>5 DEF JobInv
  <2>7. RunsGranted'
    BY <1>1, <1>2, <1>8, <1>12, <1>14, <2>1
  <2> QED
    BY <1>10, <1>12, <2>6, <2>7 DEF PackInv
<1>13. CASE journal' \in {journal, Saved(t, rec)} /\ ReturnError
  <2>1. JobInv' /\ proc' # "busy"
    BY <1>0, <1>13, ReturnErrorKept
  <2>2. Stored' /\ RunsGranted'
    <3>1. CASE journal' = journal
      BY <1>0, <2>1, <3>1, SameStores, SameRuns
    <3> QED
      BY <1>10, <1>13, <1>14, <2>1, <3>1
  <2> QED
    BY <2>1, <2>2 DEF PackInv
<1> QED
  BY <1>11, <1>12, <1>13

\* An installation under way writes its journal, and the write may fail.
LEMMA BuildJournal ==
    ASSUME PackInv, TypeInv', proc = "busy", job.kind = "install",
           job.step \in {"applying", "snapshot", "apply", "decide"},
           NEW rec \in Record, rec.pack = job.rec.pack, rec.ver = job.rec.ver,
           SnapsWithin(rec), Undoable(rec),
           \/ rec.status \in BuildingStatuses
           \/ rec.status = "commit_decided" /\ rec.managed /\ Applied(rec),
           journal' = journal \/ journal' = Saved(job.tx, rec),
           UNCHANGED <<files, owned, grants, live, loose>>,
           job'.rec.pack = job.rec.pack
    PROVE  /\ Stored' /\ Pending' = {job.tx} /\ job.tx \notin Listed' /\ Undoable(rec)'
           /\ MayOwn(rec.pack, rec.ver)' /\ RunsGranted'
           /\ \A q \in Packs, r \in Resources : Target(q, r)' = Target(q, r)
           /\ journal'[job.tx].pack = rec.pack /\ journal'[job.tx].ver = rec.ver
           /\ journal'[job.tx].status \in BuildingStatuses \cup {rec.status}
           /\ journal' = Saved(job.tx, rec) => journal'[job.tx] = rec
<1>0. /\ TypeInv /\ Stored /\ RunsGranted /\ StoreTypes /\ StoreTypes'
  BY DEF PackInv, TypeInv
<1>1. PICK t \in Txs : t = job.tx
  BY UnderWay
<1>2. /\ journal[t] = job.rec /\ job.rec.ver \in DOMAIN Content[job.rec.pack]
      /\ Pending = {t} /\ t \notin Listed /\ MayOwn(job.rec.pack, job.rec.ver)
      /\ job.rec.status \in BuildingStatuses /\ Taken
  BY <1>1, UnderWay
<1>3. MayOwn(rec.pack, rec.ver) /\ rec.pack \in Packs /\ rec.ver \in Versions
  BY <1>2, RecordFields
<1>4. CASE journal' = journal
  <2>1. /\ Stored' /\ Pending' = Pending /\ Listed' = Listed /\ Undoable(rec)'
        /\ MayOwn(rec.pack, rec.ver)' = MayOwn(rec.pack, rec.ver)
        /\ \A q \in Packs, r \in Resources : Target(q, r)' = Target(q, r)
    BY <1>0, <1>3, <1>4, SameStores
  <2>2. RunsGranted'
    BY <1>0, <1>2, <1>4, SameRuns
  <2>3. journal' = Saved(job.tx, rec) => journal'[job.tx] = rec
    BY <1>0, <1>1, SavedTyped DEF StoreTypes
  <2> QED
    BY <1>1, <1>2, <1>3, <1>4, <2>1, <2>2, <2>3
<1>5. CASE journal' = Saved(t, rec)
  <2>1. journal'[t] = rec
    BY <1>0, <1>5, SavedTyped DEF StoreTypes
  <2>2. /\ Stored' /\ Pending' = {t} /\ Listed' = Listed /\ MayOwn(rec.pack, rec.ver)'
        /\ Undoable(rec)'
        /\ \A q \in Packs, r \in Resources : Target(q, r)' = Target(q, r)
    BY <1>0, <1>2, <1>3, <1>5, BuildStep
  <2>3. TxWrite(t, rec)
    <3>1. rec.status # "committed" /\ (rec.status = "commit_decided" => rec.managed)
      BY DEF BuildingStatuses
    <3>2. ~OwnedByOther(rec.pack)
      BY <1>3 DEF MayOwn
    <3> QED
      BY <1>0, <1>2, <1>5, <3>1, <3>2, UnlistedStep
  <2>4. RunsGranted'
    BY <1>0, <1>2, <2>3, TxRuns
  <2> QED
    BY <1>1, <1>2, <2>1, <2>2, <2>4
<1> QED
  BY <1>1, <1>4, <1>5

\* A resource is snapshotted.
LEMMA SnapshotKept ==
    ASSUME PackInv, TypeInv', Snapshot
    PROVE  PackInv'
<1>0. /\ TypeInv /\ Stored /\ JobInv /\ StoreTypes /\ Installing
      /\ proc = "busy" /\ job.step = "snapshot" /\ job.kind = "install" /\ job \in JobRec
      /\ job.todo # {} /\ UNCHANGED <<files, owned, grants, live, loose>>
  BY DEF PackInv, TypeInv, JobInv, Snapshot, Busy
<1>1. PICK old \in Record : old = job.rec
  BY <1>0, JobFields
<1>2. PICK p \in Packs : p = old.pack
  BY RecordFields
<1>3. PICK t \in Txs : t = job.tx
  BY <1>0, UnderWay
<1>4. /\ journal[t] = old /\ old.ver \in DOMAIN Content[p] /\ Pending = {t}
      /\ MayOwn(p, old.ver) /\ ResourcesOf[p] \subseteq Resources /\ SnapsWithin(old)
      /\ Undoable(old) /\ old.status \in BuildingStatuses /\ t \notin Listed
  BY <1>0, <1>1, <1>2, <1>3, UnderWay
<1>5. PICK T \in SUBSET Resources : T = job.todo /\ T # {}
  BY <1>0, JobFields
<1>6. PICK r \in T : r = InHand /\ r = Earliest(T)
  BY <1>0, <1>5, ExtremesExist DEF InHand
<1>7. /\ old.status = "applying" /\ T \subseteq ResourcesOf[p]
      /\ \A q \in T : files[q] = Target(p, q) /\ old.snap[q] = NoSnapshot
      /\ \A q \in ResourcesOf[p] \ T : files[q] = Content[p][old.ver][q]
  BY <1>0, <1>1, <1>2, <1>5 DEF Installing, InProgress
<1>8. PICK rec \in Record : /\ rec = [job.rec EXCEPT !.snap[InHand] = files[InHand]]
                            /\ rec.status = "applying" /\ rec.pack = p /\ rec.ver = old.ver
                            /\ rec.snap[r] = files[r]
                            /\ \A q \in Resources : q # r => rec.snap[q] = old.snap[q]
  <2>1. PICK x : x = [old EXCEPT !.snap[r] = files[r]]
    OBVIOUS
  <2>2. files[r] \in Contents /\ r \in Resources
    BY <1>0 DEF StoreTypes
  <2>3. /\ x \in Record /\ x.status = old.status /\ x.pack = p /\ x.ver = old.ver
        /\ x.snap = [old.snap EXCEPT ![r] = files[r]]
    BY <1>2, <2>1, <2>2 DEF Record
  <2>4. old.snap \in [Resources -> Contents \cup {NoSnapshot}]
    BY RecordFields
  <2>5. /\ x.snap[r] = files[r] /\ \A q \in Resources : q # r => x.snap[q] = old.snap[q]
    BY <2>2, <2>3, <2>4
  <2> QED
    BY <1>1, <1>6, <1>7, <2>1, <2>3, <2>5
<1>9. files[r] # NoSnapshot /\ r \in ResourcesOf[p]
  BY <1>0, <1>7, ContentsAssumption DEF StoreTypes
<1>10. SnapsWithin(rec) /\ Undoable(rec)
  BY <1>2, <1>4, <1>7, <1>8, <1>9 DEF SnapsWithin, Undoable
<1>11. \/ journal' = Saved(t, rec) /\ UNCHANGED proc /\ job' = [job EXCEPT !.step = "apply", !.rec = rec]
       \/ journal' \in {journal, Saved(t, rec)} /\ hit' /\ Undo(rec)
       \/ journal' = journal /\ hit' /\ Undo(old)
  <2>1. PICK x : x = [job.rec EXCEPT !.snap[InHand] = files[InHand]]
    OBVIOUS
  <2>2. \/ Save(job.tx, x) /\ UNCHANGED proc /\ job' = [job EXCEPT !.step = "apply", !.rec = x]
        \/ SaveFails(job.tx, x) /\ Undo(x)
        \/ Fault /\ Undo(job.rec) /\ UNCHANGED journal
    BY <2>1 DEF Snapshot
  <2> QED
    BY <1>1, <1>3, <1>8, <2>1, <2>2 DEF Save, SaveFails, Fault
<1>12. ASSUME journal' = journal \/ journal' = Saved(t, rec), job'.rec.pack = p
       PROVE  /\ Stored' /\ Pending' = {t} /\ t \notin Listed' /\ Undoable(rec)'
              /\ MayOwn(p, old.ver)' /\ RunsGranted'
              /\ \A q \in Packs, u \in Resources : Target(q, u)' = Target(q, u)
              /\ journal'[t].pack = rec.pack /\ journal'[t].ver = rec.ver
              /\ journal'[t].status \in BuildingStatuses
              /\ journal' = Saved(t, rec) => journal'[t] = rec
  BY <1>0, <1>1, <1>2, <1>3, <1>8, <1>10, <1>12, BuildJournal DEF BuildingStatuses
<1>13. CASE journal' = Saved(t, rec) /\ UNCHANGED proc /\ job' = [job EXCEPT !.step = "apply", !.rec = rec]
  <2>1. /\ job'.kind = "install" /\ job'.step = "apply" /\ job'.rec = rec /\ job'.tx = t
        /\ job'.todo = T /\ proc' = "busy"
    BY <1>0, <1>3, <1>5, <1>13 DEF JobRec
  <2>2. InProgress(job.rec, "applying")'
    BY <1>8, <1>12, <1>13, <2>1 DEF InProgress
  <2>3. /\ job'.todo \subseteq ResourcesOf[job'.rec.pack]
        /\ \A q \in job'.todo : files'[q] = Target(job.rec.pack, q)'
        /\ \A q \in ResourcesOf[job'.rec.pack] \ job'.todo :
             files'[q] = Content[job'.rec.pack][job'.rec.ver][q]
        /\ \A q \in job'.todo : job'.rec.snap[q] = NoSnapshot \/ q = Earliest(job'.todo)
        /\ job'.rec.snap[Earliest(job'.todo)] # NoSnapshot
        /\ job'.rec.ver \in DOMAIN Content[job'.rec.pack]
    <3>1. \A q \in T : files'[q] = Target(p, q)'
      BY <1>0, <1>2, <1>7, <1>12, <1>8, <1>13, <2>1
    <3>2. \A q \in T : rec.snap[q] = NoSnapshot \/ q = Earliest(T)
      BY <1>6, <1>7, <1>8
    <3>3. rec.snap[Earliest(T)] # NoSnapshot
      BY <1>6, <1>8, <1>9
    <3>4. \A q \in ResourcesOf[p] \ T : files'[q] = Content[p][rec.ver][q]
      BY <1>0, <1>7, <1>8
    <3> QED
      BY <1>4, <1>7, <1>8, <2>1, <3>1, <3>2, <3>3, <3>4
  <2>4. Installing'
    BY <1>5, <2>1, <2>2, <2>3 DEF Installing
  <2>5. JobInv'
    BY <2>1, <2>4 DEF JobInv
  <2> QED
    BY <1>8, <1>12, <1>13, <2>1, <2>5 DEF PackInv
<1>14. CASE journal' \in {journal, Saved(t, rec)} /\ hit' /\ Undo(rec)
  <2>1. job'.rec = rec
    BY <1>0, <1>14, UndoTyped
  <2>2. JobInv'
    BY <1>0, <1>3, <1>4, <1>8, <1>10, <1>12, <1>14, <2>1, UndoKept
  <2> QED
    BY <1>8, <1>12, <1>14, <2>1, <2>2 DEF PackInv
<1>15. CASE journal' = journal /\ hit' /\ Undo(old)
  <2>1. job'.rec = old
    BY <1>0, <1>15, UndoTyped
  <2>2. Undoable(old)'
    BY <1>0, <1>4, <1>15, SameStores
  <2>3. JobInv'
    BY <1>0, <1>2, <1>3, <1>4, <1>8, <1>12, <1>15, <2>1, <2>2, UndoKept
  <2> QED
    BY <1>2, <1>12, <1>15, <2>1, <2>3 DEF PackInv
<1> QED
  BY <1>11, <1>13, <1>14, <1>15

\* A resource that was snapshotted is touched: the snapshots still undo it.
LEMMA FileStep ==
    ASSUME StoreTypes, StoreTypes', Stored, NEW t \in Txs, Pending = {t},
           journal[t].status \in BuildingStatuses \cup {"rolling_back"},
           NEW r \in Resources, journal[t].snap[r] # NoSnapshot,
           UNCHANGED <<journal, owned>>, \A q \in Resources \ {r} : files'[q] = files[q]
    PROVE  /\ Stored' /\ Pending' = {t} /\ Listed' = Listed
           /\ \A q \in Packs, u \in Resources : Target(q, u)' = Target(q, u)
           /\ \A q \in Packs : \A v \in Versions : MayOwn(q, v)' = MayOwn(q, v)
           /\ \A rec \in Record : rec.pack = journal[t].pack /\ rec.snap = journal[t].snap
                                    => Undoable(rec)'
<1>0. PICK old \in Record : old = journal[t]
  BY DEF StoreTypes
<1>1. PICK p \in Packs : p = old.pack
  BY RecordFields
<1>2. /\ Sound(t) /\ Stacks
  BY DEF Stored
<1>3. /\ ~OwnedByOther(p) /\ SnapsWithin(old) /\ Undoable(old) /\ old.ver \in DOMAIN Content[p]
      /\ (old.status \in BuildingStatuses => t \notin Listed)
  BY <1>0, <1>1, <1>2 DEF Sound
<1>4. r \in ResourcesOf[p]
  BY <1>0, <1>1, <1>3 DEF SnapsWithin
<1>5. journal' = Saved(t, old)
  BY <1>0 DEF Saved, StoreTypes
<1>6. TxWrite(t, old)
  <2>1. t \in Listed => /\ old.managed /\ t = Current(p) /\ old.status \in Decided \cup UndoneStatuses
    BY <1>0, <1>1, <1>2, <1>3, ListedAt DEF Decided, BuildingStatuses, UndoneStatuses
  <2>2. old.status \notin Decided
    BY <1>0 DEF BuildingStatuses, Decided
  <2> QED
    BY <1>0, <1>1, <1>3, <1>4, <1>5, <2>1, <2>2 DEF TxWrite, Decided
<1>7. /\ Listed' = Listed
      /\ \A q \in Packs : /\ OwnedByOther(q)' = OwnedByOther(q)
                          /\ \A v \in Versions : MayOwn(q, v)' = MayOwn(q, v)
  BY <1>6, TxFrame
<1>8. \A q \in Packs, u \in Resources : Target(q, u)' = Target(q, u)
  BY <1>0, <1>6, TxTargets
<1>9. Pending' = {t}
  BY <1>7 DEF Pending
<1>10. ASSUME NEW rec \in Record, rec.pack = p, rec.snap = old.snap PROVE Undoable(rec)'
  BY <1>0, <1>1, <1>3, <1>8, <1>10, ConstantTypes DEF Undoable
<1>11. Sound(t)'
  <2>1. Undoable(old)' /\ journal'[t] = old
    BY <1>0, <1>1, <1>10
  <2>2. old.status \notin {"rolled_back", "commit_decided"}
    BY <1>0 DEF BuildingStatuses
  <2> QED
    BY <1>1, <1>3, <1>7, <2>1, <2>2 DEF Sound
<1>12. Stored'
  BY <1>6, <1>9, <1>11, TxStep
<1> QED
  BY <1>0, <1>1, <1>7, <1>8, <1>9, <1>10, <1>12

\* A resource is applied.
LEMMA ApplyKept ==
    ASSUME PackInv, TypeInv', Apply
    PROVE  PackInv'
<1>0. /\ TypeInv /\ Stored /\ JobInv /\ RunsGranted /\ StoreTypes /\ StoreTypes' /\ Installing
      /\ proc = "busy" /\ job.step = "apply" /\ job.kind = "install" /\ job \in JobRec
      /\ UNCHANGED <<journal, owned, grants, live, loose>>
  BY DEF PackInv, TypeInv, JobInv, Apply, Busy
<1>1. PICK rec \in Record : rec = job.rec
  BY <1>0, JobFields
<1>2. PICK p \in Packs : p = rec.pack
  BY RecordFields
<1>3. PICK t \in Txs : t = job.tx
  BY <1>0, UnderWay
<1>4. /\ journal[t] = rec /\ rec.ver \in DOMAIN Content[p] /\ Pending = {t}
      /\ MayOwn(p, rec.ver) /\ ResourcesOf[p] \subseteq Resources /\ SnapsWithin(rec)
      /\ rec.status \in BuildingStatuses /\ t \notin Listed /\ Taken
  BY <1>0, <1>1, <1>2, <1>3, UnderWay
<1>5. PICK T \in SUBSET Resources : T = job.todo /\ T # {}
  BY <1>0, JobFields DEF Installing
<1>6. PICK r \in T : r = InHand /\ r = Earliest(T)
  BY <1>0, <1>5, ExtremesExist DEF InHand
<1>7. /\ rec.status = "applying" /\ T \subseteq ResourcesOf[p]
      /\ \A q \in T : files[q] = Target(p, q) /\ (q # r => rec.snap[q] = NoSnapshot)
      /\ \A q \in ResourcesOf[p] \ T : files[q] = Content[p][rec.ver][q]
      /\ rec.snap[r] # NoSnapshot
  BY <1>0, <1>1, <1>2, <1>5, <1>6 DEF Installing, InProgress
<1>8. PICK placed \in [Resources -> Contents] :
        /\ placed = [files EXCEPT ![InHand] = Content[job.rec.pack][job.rec.ver][InHand]]
        /\ placed[r] = Content[p][rec.ver][r] /\ \A q \in Resources \ {r} : placed[q] = files[q]
  <2>1. PICK x : x = [files EXCEPT ![r] = Content[p][rec.ver][r]]
    OBVIOUS
  <2>2. r \in Resources /\ Content[p][rec.ver][r] \in Contents
    BY <1>4, ConstantTypes
  <2>3. /\ x \in [Resources -> Contents] /\ x[r] = Content[p][rec.ver][r]
        /\ \A q \in Resources \ {r} : x[q] = files[q]
    BY <1>0, <2>1, <2>2 DEF StoreTypes
  <2>4. x = [files EXCEPT ![InHand] = Content[job.rec.pack][job.rec.ver][InHand]]
    BY <1>1, <1>2, <1>6, <2>1
  <2> QED
    BY <2>3, <2>4
<1>9. \/ /\ files' = placed /\ UNCHANGED proc
         /\ job' = [job EXCEPT !.step = "snapshot", !.todo = job.todo \ {r}]
      \/ files' \in {files, placed} /\ hit' /\ Undo(rec)
  <2>1. PICK x : x = InHand
    OBVIOUS
  <2>2. PICK y : y = [files EXCEPT ![x] = Content[job.rec.pack][job.rec.ver][x]]
    OBVIOUS
  <2>3. \/ /\ files' = y /\ UNCHANGED proc
           /\ job' = [job EXCEPT !.step = "snapshot", !.todo = job.todo \ {x}]
        \/ Fault /\ files' \in {files, y} /\ Undo(job.rec)
    BY <2>1, <2>2 DEF Apply
  <2> QED
    BY <1>1, <1>6, <1>8, <2>1, <2>2, <2>3 DEF Fault
<1>10. /\ Stored' /\ Pending' = {t} /\ t \notin Listed' /\ Undoable(rec)'
       /\ MayOwn(p, rec.ver)' /\ \A u \in Resources : Target(p, u)' = Target(p, u)
  <2>1. \A q \in Resources \ {r} : files'[q] = files[q]
    BY <1>8, <1>9
  <2>2. r \in Resources /\ rec.ver \in Versions
    BY RecordFields
  <2> QED
    BY <1>0, <1>2, <1>4, <1>7, <2>1, <2>2, FileStep
<1>11. RunsGranted' /\ job'.rec = rec
  <2>1. job'.rec = rec
    BY <1>0, <1>1, <1>9, UndoTyped DEF JobRec
  <2> QED
    BY <1>0, <1>1, <1>4, <2>1, SameRuns
<1>12. CASE /\ files' = placed /\ UNCHANGED proc
            /\ job' = [job EXCEPT !.step = "snapshot", !.todo = job.todo \ {r}]
  <2>0. PICK U \in SUBSET Resources : U = T \ {r}
    OBVIOUS
  <2>1. /\ job'.kind = "install" /\ job'.step = "snapshot" /\ job'.rec = rec /\ job'.tx = t
        /\ job'.todo = U /\ proc' = "busy"
    BY <1>0, <1>1, <1>3, <1>5, <1>12, <2>0 DEF JobRec
  <2>2. InProgress(job.rec, "applying")'
    BY <1>0, <1>2, <1>4, <1>7, <1>10, <2>1 DEF InProgress
  <2>3. U \subseteq ResourcesOf[p] /\ \A q \in U : rec.snap[q] = NoSnapshot
    BY <1>7, <2>0
  <2>4. \A q \in U : files'[q] = Target(p, q)'
    BY <1>7, <1>8, <1>10, <1>12, <2>0
  <2>5. \A q \in ResourcesOf[p] \ U : files'[q] = Content[p][rec.ver][q]
    BY <1>4, <1>7, <1>8, <1>12, <2>0
  <2>6. Installing'
    BY <1>2, <1>4, <2>1, <2>2, <2>3, <2>4, <2>5 DEF Installing
  <2>7. JobInv'
    BY <2>1, <2>6 DEF JobInv
  <2> QED
    BY <1>10, <1>11, <2>7 DEF PackInv
<1>13. CASE hit' /\ Undo(rec)
  <2>1. JobInv'
    BY <1>0, <1>2, <1>3, <1>4, <1>10, <1>13, UndoKept
  <2> QED
    BY <1>10, <1>11, <2>1 DEF PackInv
<1> QED
  BY <1>9, <1>12, <1>13

\* Every resource is in place, and the commit is decided.
LEMMA DecidingKept ==
    ASSUME PackInv, TypeInv', AwaitCommit \/ Decide
    PROVE  PackInv'
<1>0. /\ TypeInv /\ Stored /\ JobInv /\ StoreTypes /\ Installing
      /\ proc = "busy" /\ job.kind = "install" /\ job \in JobRec
      /\ job.step \in {"snapshot", "decide"}
      /\ UNCHANGED <<files, owned, grants, live, loose>>
  BY DEF PackInv, TypeInv, JobInv, AwaitCommit, Decide, Busy
<1>1. PICK old \in Record : old = job.rec
  BY <1>0, JobFields
<1>2. PICK p \in Packs : p = old.pack
  BY RecordFields
<1>3. PICK t \in Txs : t = job.tx
  BY <1>0, UnderWay
<1>4. /\ journal[t] = old /\ old.ver \in DOMAIN Content[p] /\ Pending = {t}
      /\ MayOwn(p, old.ver) /\ ResourcesOf[p] \subseteq Resources /\ SnapsWithin(old)
      /\ Undoable(old) /\ old.status \in BuildingStatuses /\ t \notin Listed
  BY <1>0, <1>1, <1>2, <1>3, UnderWay
<1>5. Applied(old)
  <2>1. CASE AwaitCommit
    <3>1. job.todo = {} /\ job.step = "snapshot"
      BY <2>1 DEF AwaitCommit, Busy
    <3> QED
      BY <1>0, <1>1, <3>1 DEF Installing, Applied
  <2>2. CASE Decide
    BY <1>0, <1>1, <2>2 DEF Decide, Busy, Installing
  <2> QED
    BY <2>1, <2>2
<1>6. PICK rec \in Record, s \in {"decide", "own"} :
        /\ \/ journal' = Saved(t, rec) /\ UNCHANGED proc /\ job' = [job EXCEPT !.step = s, !.rec = rec]
           \/ journal' \in {journal, Saved(t, rec)} /\ hit' /\ Undo(rec)
        /\ rec.pack = p /\ rec.ver = old.ver /\ rec.snap = old.snap
        /\ \/ s = "decide" /\ rec.status = "awaiting_commit"
           \/ s = "own" /\ rec.status = "commit_decided" /\ rec.managed
  <2>1. CASE AwaitCommit
    <3>1. PICK x : x = [old EXCEPT !.status = "awaiting_commit"]
      OBVIOUS
    <3>2. x \in Record /\ x.pack = p /\ x.ver = old.ver /\ x.snap = old.snap /\ x.status = "awaiting_commit"
      BY <1>2, <3>1, Restatus DEF Statuses
    <3>3. \/ Save(t, x) /\ UNCHANGED proc /\ job' = [job EXCEPT !.step = "decide", !.rec = x]
          \/ SaveFails(t, x) /\ Undo(x)
      BY <1>1, <1>3, <2>1, <3>1 DEF AwaitCommit
    <3> QED
      BY <3>2, <3>3 DEF Save, SaveFails, Fault
  <2>2. CASE Decide
    <3>1. PICK x : x = [old EXCEPT !.status = "commit_decided", !.managed = TRUE]
      OBVIOUS
    <3>2. /\ x \in Record /\ x.pack = p /\ x.ver = old.ver /\ x.snap = old.snap
          /\ x.status = "commit_decided" /\ x.managed
      BY <1>2, <3>1 DEF Statuses, Record
    <3>3. \/ Save(t, x) /\ UNCHANGED proc /\ job' = [job EXCEPT !.step = "own", !.rec = x]
          \/ SaveFails(t, x) /\ Undo(x)
      BY <1>1, <1>3, <2>2, <3>1 DEF Decide
    <3> QED
      BY <3>2, <3>3 DEF Save, SaveFails, Fault
  <2> QED
    BY <2>1, <2>2
<1>7. SnapsWithin(rec) /\ Undoable(rec) /\ Applied(rec)
  BY <1>2, <1>4, <1>5, <1>6 DEF SnapsWithin, Undoable, Applied
<1>8. job'.rec = rec /\ job'.kind = "install" /\ job'.tx = t /\ proc' = "busy"
  BY <1>0, <1>3, <1>6, UndoTyped DEF JobRec
<1>9. /\ Stored' /\ Pending' = {t} /\ t \notin Listed' /\ Undoable(rec)'
      /\ MayOwn(p, rec.ver)' /\ RunsGranted'
      /\ journal'[t].pack = rec.pack /\ journal'[t].ver = rec.ver
      /\ journal'[t].status \in BuildingStatuses \cup {rec.status}
      /\ journal' = Saved(t, rec) => journal'[t] = rec
  BY <1>0, <1>1, <1>2, <1>3, <1>6, <1>7, <1>8, BuildJournal DEF BuildingStatuses
<1>10. CASE journal' = Saved(t, rec) /\ UNCHANGED proc /\ job' = [job EXCEPT !.step = s, !.rec = rec]
  <2>1. job'.step = s
    BY <1>0, <1>10 DEF JobRec
  <2>2. InProgress(job.rec, rec.status)'
    BY <1>6, <1>8, <1>9, <1>10 DEF InProgress
  <2>3. Applied(job.rec)' /\ job'.rec.ver \in DOMAIN Content[job'.rec.pack]
    BY <1>0, <1>4, <1>6, <1>7, <1>8 DEF Applied
  <2>4. Installing'
    BY <1>6, <1>8, <2>1, <2>2, <2>3 DEF Installing
  <2>5. JobInv'
    BY <1>6, <1>8, <2>1, <2>4 DEF JobInv
  <2> QED
    BY <1>9, <2>5 DEF PackInv
<1>11. CASE hit' /\ Undo(rec)
  <2>1. journal'[t].status \in BuildingStatuses \cup {"commit_decided"}
    BY <1>6, <1>9 DEF BuildingStatuses
  <2>2. JobInv'
    BY <1>0, <1>3, <1>4, <1>6, <1>7, <1>9, <1>11, <2>1, UndoKept
  <2> QED
    BY <1>9, <2>2 DEF PackInv
<1> QED
  BY <1>6, <1>10, <1>11

\* The stack of a pack that is down changes.
LEMMA StackRuns ==
    ASSUME PackInv, proc = "busy", Taken, UNCHANGED <<journal, grants, live, loose>>,
           \A q \in Packs : q # job.rec.pack => owned'[q] = owned[q],
           Pending' \subseteq Pending,
           job'.rec.pack = job.rec.pack \/ proc' # "busy"
    PROVE  RunsGranted'
<1>0. PICK p \in Packs : p = job.rec.pack
  BY JobFields DEF PackInv, TypeInv
<1>1. p \notin loose' /\ \A r \in ResourcesOf[p] : live'[r] = NoContent
  BY <1>0, TakenDown, ConstantTypes DEF PackInv, TypeInv
<1>2. ASSUME NEW q \in Packs PROVE Steady(q) \/ Halted(q)
  <2>1. CASE q = p
    BY <1>1, <2>1 DEF Executables, Halted
  <2>2. CASE q # p
    BY <1>0, <2>2 DEF Steady, Installed, Current, Quiet
  <2> QED
    BY <2>1, <2>2
<1> QED
  BY <1>0, <1>1, <1>2, RunsKept DEF PackInv

\* The commit is owned, and then marked.
LEMMA CommittingKept ==
    ASSUME PackInv, TypeInv', Own \/ MarkCommitted
    PROVE  PackInv'
<1>0. /\ TypeInv /\ Stored /\ JobInv /\ RunsGranted /\ StoreTypes /\ StoreTypes' /\ Installing
      /\ proc = "busy" /\ job.kind = "install" /\ job \in JobRec
  BY DEF PackInv, TypeInv, JobInv, Own, MarkCommitted, Busy
<1>1. CASE Own
  <2>1. /\ job.step = "own" /\ UNCHANGED <<files, journal, grants, live, loose>>
    BY <1>1 DEF Own, Busy
  <2>2. PICK t \in Txs, rec \in Record : t = job.tx /\ rec = job.rec
    BY <1>0, <2>1, UnderWay
  <2>3. PICK p \in Packs : p = rec.pack
    BY RecordFields
  <2>4. /\ journal[t] = rec /\ rec.ver \in DOMAIN Content[p] /\ Pending = {t} /\ t \notin Listed
        /\ MayOwn(p, rec.ver) /\ Taken
    BY <1>0, <2>1, <2>2, <2>3, UnderWay
  <2>5. rec.status = "commit_decided"
    BY <1>0, <2>1, <2>2 DEF Installing, InProgress
  <2>6. \/ owned' = Listing(t, rec) /\ Goto("commit")
        \/ owned' \in {owned, Listing(t, rec)} /\ ReturnError
    BY <1>1, <2>2, <2>3, <2>4 DEF Own
  <2>7. ASSUME owned' = Listing(t, rec)
        PROVE  /\ Stored' /\ Pending' = {t} /\ Installed(p)' /\ Current(p)' = t
               /\ \A q \in Packs : q # p => owned'[q] = owned[q]
    BY <1>0, <2>1, <2>3, <2>4, <2>5, <2>7, ListStep
  <2>8. CASE owned' = Listing(t, rec) /\ Goto("commit")
    <3>1. /\ job'.kind = "install" /\ job'.step = "commit" /\ job'.rec = rec /\ job'.tx = t
          /\ proc' = "busy"
      BY <1>0, <2>2, <2>8, GotoTyped DEF Steps
    <3>2. Installing'
      BY <2>1, <2>3, <2>4, <2>5, <2>7, <2>8, <3>1 DEF Installing
    <3>3. JobInv'
      BY <3>1, <3>2 DEF JobInv
    <3>4. RunsGranted'
      BY <1>0, <2>1, <2>2, <2>3, <2>4, <2>7, <2>8, <3>1, StackRuns
    <3> QED
      BY <2>7, <2>8, <3>3, <3>4 DEF PackInv
  <2>9. CASE owned' \in {owned, Listing(t, rec)} /\ ReturnError
    <3>1. JobInv' /\ proc' # "busy"
      BY <1>0, <2>9, ReturnErrorKept
    <3>2. Stored' /\ RunsGranted'
      <4>1. CASE owned' = owned
        BY <1>0, <2>1, <3>1, <4>1, SameStores, SameRuns
      <4>2. CASE owned' = Listing(t, rec)
        BY <2>1, <2>2, <2>3, <2>4, <2>7, <3>1, <4>2, StackRuns, <1>0
      <4> QED
        BY <2>9, <4>1, <4>2
    <3> QED
      BY <3>1, <3>2 DEF PackInv
  <2> QED
    BY <2>6, <2>8, <2>9
<1>2. CASE MarkCommitted
  <2>1. /\ job.step = "commit" /\ UNCHANGED <<files, owned, grants, live, loose>>
    BY <1>2 DEF MarkCommitted, Busy
  <2>2. PICK t : t = job.tx
    OBVIOUS
  <2>3. /\ job.rec = journal[t] /\ journal[t].status = "commit_decided"
        /\ Installed(job.rec.pack) /\ t = Current(job.rec.pack)
    BY <1>0, <2>1, <2>2 DEF Installing
  <2>4. t \in Listed /\ t \in Txs
    BY <1>0, <2>3, CurrentAt, JobFields DEF Stored
  <2>5. PICK rec : rec = [journal[t] EXCEPT !.status = "committed"]
    OBVIOUS
  <2>6. \/ journal' = Saved(t, rec) /\ Return
        \/ (journal' = journal \/ journal' = Saved(t, rec)) /\ ReturnError
    BY <1>2, <2>2, <2>3, <2>5 DEF MarkCommitted, Save, SaveFails
  <2>7. ASSUME journal' = Saved(t, rec)
        PROVE  Stored' /\ Pending' = {} /\ TxWrite(t, rec) /\ rec \in Record
    BY <1>0, <2>1, <2>3, <2>4, <2>5, <2>7, CommitStep
  <2>10. t \in Pending
    BY <2>3, <2>4 DEF Pending, Settled
  <2>8. CASE journal' = Saved(t, rec) /\ Return
    <3>1. JobInv' /\ proc' = "idle"
      BY <2>7, <2>8, ReturnKept
    <3>2. RunsGranted'
      BY <1>0, <2>1, <2>4, <2>7, <2>8, <2>10, <3>1, TxRuns
    <3> QED
      BY <2>7, <2>8, <3>1, <3>2 DEF PackInv
  <2>9. CASE (journal' = journal \/ journal' = Saved(t, rec)) /\ ReturnError
    <3>1. JobInv' /\ proc' # "busy"
      BY <1>0, <2>9, ReturnErrorKept
    <3>2. Stored' /\ RunsGranted'
      <4>1. CASE journal' = journal
        BY <1>0, <2>1, <3>1, <4>1, SameStores, SameRuns
      <4>2. CASE journal' = Saved(t, rec)
        BY <1>0, <2>1, <2>4, <2>7, <2>10, <3>1, <4>2, TxRuns
      <4> QED
        BY <2>9, <4>1, <4>2
    <3> QED
      BY <3>1, <3>2 DEF PackInv
  <2> QED
    BY <2>6, <2>8, <2>9
<1> QED
  BY <1>1, <1>2

\* A rollback writes the journal of its transaction.
LEMMA RollbackWrite ==
    ASSUME StoreTypes, StoreTypes', Stored, NEW t \in Txs, Pending = {t},
           NEW rec \in Record, rec.pack = journal[t].pack, rec.ver = journal[t].ver,
           SnapsWithin(rec), rec.status \in UndoneStatuses,
           t \in Listed => journal[t].status = "rolling_back" /\ rec.managed /\ rec.snap = journal[t].snap,
           journal' = Saved(t, rec), UNCHANGED owned,
           \A q \in Resources : files'[q] = files[q] \/ rec.snap[q] # NoSnapshot,
           rec.status = "rolling_back" => Undoable(rec),
           rec.status = "rolled_back" => UNCHANGED files /\ Restored(rec.pack)
    PROVE  /\ Stored' /\ TxWrite(t, rec) /\ Listed' = Listed /\ journal'[t] = rec
           /\ rec.status # "rolled_back" \/ t \in Listed => Pending' = {t}
           /\ rec.status = "rolled_back" /\ t \notin Listed => Pending' = {}
           /\ rec.status = "rolling_back" => Undoable(rec)'
           /\ \A q \in Packs, r \in Resources : Target(q, r)' = Target(q, r)
           /\ \A q \in Packs : Installed(q)' = Installed(q) /\ Current(q)' = Current(q)
<1>1. PICK p \in Packs : p = rec.pack
  BY RecordFields
<1>2. /\ Stacks /\ Sound(t)
  BY DEF Stored
<1>3. /\ ~OwnedByOther(p) /\ rec.ver \in DOMAIN Content[p] /\ ResourcesOf[p] \subseteq Resources
  BY <1>1, <1>2, ConstantTypes DEF Sound
<1>4. TxWrite(t, rec)
  <2>1. t \in Listed => t = Current(p)
    BY <1>1, <1>2, ListedAt
  <2>2. rec.status \notin Decided
    BY DEF Decided, UndoneStatuses
  <2>3. \A q \in Resources \ ResourcesOf[p] : files'[q] = files[q]
    BY <1>1 DEF SnapsWithin
  <2> QED
    BY <1>1, <1>3, <2>1, <2>2, <2>3 DEF TxWrite, Decided
<1>5. /\ Listed' = Listed /\ journal'[t] = rec
      /\ \A q \in Packs : /\ Installed(q)' = Installed(q) /\ Current(q)' = Current(q)
                          /\ OwnedByOther(q)' = OwnedByOther(q)
  BY <1>4, TxFrame
<1>6. \A q \in Packs, r \in Resources : Target(q, r)' = Target(q, r)
  <2>1. t \in Listed => (journal[t].status \in UndoneStatuses <=> rec.status \in UndoneStatuses)
    BY DEF UndoneStatuses
  <2> QED
    BY <1>4, <2>1, TxTargets
<1>7. /\ rec.status # "rolled_back" \/ t \in Listed => Pending' = {t}
      /\ rec.status = "rolled_back" /\ t \notin Listed => Pending' = {}
  <2>1. /\ Pending' \subseteq {t}
        /\ t \in Pending' <=> rec.status \notin Settled \/ (rec.status = "rolled_back" /\ t \in Listed)
    BY <1>4, TxFrame
  <2>2. rec.status # "rolled_back" => rec.status \notin Settled
    BY DEF UndoneStatuses, Settled
  <2>3. "rolled_back" \in Settled
    BY DEF Settled
  <2> QED
    BY <2>1, <2>2, <2>3
<1>8. rec.status = "rolling_back" => Undoable(rec)'
  <2>1. ASSUME rec.status = "rolling_back", NEW q \in ResourcesOf[p]
        PROVE  \/ rec.snap[q] = Target(p, q)'
               \/ rec.snap[q] = NoSnapshot /\ files'[q] = Target(p, q)'
    <3>1. \/ rec.snap[q] = Target(p, q)
          \/ rec.snap[q] = NoSnapshot /\ files[q] = Target(p, q)
      BY <1>1, <2>1 DEF Undoable
    <3> QED
      BY <1>3, <1>6, <2>1, <3>1
  <2> QED
    BY <1>1, <2>1 DEF Undoable
<1>9. rec.status = "rolled_back" => Restored(p)'
  BY <1>1, <1>3, <1>6 DEF Restored
<1>10. Sound(t)'
  BY <1>1, <1>3, <1>5, <1>8, <1>9 DEF Sound, UndoneStatuses, BuildingStatuses
<1>11. Stored'
  <2>1. t \notin Pending' => Restored(rec.pack)'
    BY <1>1, <1>7, <1>9
  <2> QED
    BY <1>4, <1>10, <2>1, TxStep
<1> QED
  BY <1>4, <1>5, <1>6, <1>7, <1>8, <1>11

\* What is not snapshotted is as it was: a rollback leaves it alone.
LEMMA UntouchedRestored ==
    ASSUME StoreTypes, Stacks, NEW rec \in Record, Undoable(rec), NEW r \in ResourcesOf[rec.pack]
    PROVE  /\ rec.snap[r] = NoSnapshot => files[r] = Target(rec.pack, r)
           /\ rec.snap[r] # NoSnapshot => rec.snap[r] = Target(rec.pack, r)
<1>1. rec.pack \in Packs /\ r \in Resources
  BY RecordFields, ConstantTypes
<1>2. Target(rec.pack, r) # NoSnapshot
  BY <1>1, TargetTyped
<1> QED
  BY <1>2 DEF Undoable

\* A rollback goes on.
LEMMA StillRolling ==
    ASSUME PackInv, proc = "busy", job.step \in {"mark", "restore"},
           proc' = "busy", job'.kind = job.kind, job'.tx = job.tx, job'.step = "restore",
           job'.rec.pack = job.rec.pack, job'.rec.ver = job.rec.ver,
           Listed' = Listed, \A q \in Packs : Installed(q)' = Installed(q) /\ Current(q)' = Current(q),
           UNCHANGED <<live, loose>>, RollingBack'
    PROVE  JobInv'
<1>1. job.kind \in {"start", "install", "rollback", "remove"} /\ job.rec.pack \in Packs
  BY JobFields DEF PackInv, TypeInv, JobInv, Kinds
<1>2. CASE job.kind = "start"
  BY <1>2 DEF PackInv, JobInv, Starting
<1>3. CASE job.kind = "install"
  <2>1. Installing
    BY <1>3 DEF PackInv, JobInv
  <2>2. Installing'
    BY <2>1 DEF Installing
  <2> QED
    BY <1>3, <2>2 DEF JobInv
<1>4. CASE job.kind \in {"rollback", "remove"}
  <2>1. Withdrawing
    BY <1>4 DEF PackInv, JobInv
  <2>2. Withdrawing'
    BY <1>1, <2>1 DEF Withdrawing
  <2> QED
    BY <1>4, <2>2 DEF JobInv
<1> QED
  BY <1>1, <1>2, <1>3, <1>4

\* What is known while a transaction is rolled back.
LEMMA Rolling ==
    ASSUME PackInv, proc = "busy", job.step \in {"mark", "restore"}
    PROVE  /\ job.tx \in Txs /\ Pending = {job.tx} /\ job.rec \in Record /\ RollingBack
           /\ job.rec.pack = journal[job.tx].pack /\ job.rec.ver = journal[job.tx].ver
           /\ job.kind \in {"start", "install", "rollback", "remove"}
           /\ job.kind = "install" => job.tx \notin Listed
           /\ job.kind \in {"rollback", "remove"} =>
                job.tx \in Listed /\ Installed(job.rec.pack) /\ job.tx = Current(job.rec.pack)
           /\ job.kind # "start" => Taken
           /\ job.kind = "start" => live = Nothing
<1>1. RollingBack /\ job.rec \in Record /\ job.rec.pack \in Packs /\ job.kind \in Kinds
  BY JobFields DEF PackInv, TypeInv, JobInv
<1>2. job.kind \in {"start", "install", "rollback", "remove"}
  BY <1>1 DEF PackInv, JobInv, Kinds
<1>3. job.kind = "install" => job.tx \notin Listed
  BY DEF PackInv, JobInv, Installing
<1>4. job.kind \in {"rollback", "remove"} => Installed(job.rec.pack) /\ job.tx = Current(job.rec.pack)
  BY DEF PackInv, JobInv, Withdrawing
<1>5. Installed(job.rec.pack) => Current(job.rec.pack) \in Listed
  BY <1>1, CurrentAt DEF PackInv, TypeInv, Stored
<1>6. job.kind = "start" => live = Nothing
  BY DEF PackInv, JobInv, Starting
<1>7. job.kind # "start" => Taken
  BY <1>2 DEF Taken
<1> QED
  BY <1>1, <1>2, <1>3, <1>4, <1>5, <1>6, <1>7 DEF RollingBack

\* The transaction is marked as rolling back.
LEMMA MarkKept ==
    ASSUME PackInv, TypeInv', MarkRollingBack
    PROVE  PackInv'
<1>0. /\ TypeInv /\ Stored /\ JobInv /\ RunsGranted /\ StoreTypes /\ StoreTypes' /\ Stacks
      /\ proc = "busy" /\ job.step = "mark" /\ job \in JobRec /\ RollingBack
      /\ UNCHANGED <<files, owned, grants, live, loose, proc>>
  BY DEF PackInv, TypeInv, JobInv, Stored, MarkRollingBack
<1>1. PICK old \in Record, t \in Txs : old = job.rec /\ t = job.tx
  BY <1>0, Rolling
<1>2. PICK p \in Packs : p = old.pack
  BY RecordFields
<1>3. /\ Pending = {t} /\ journal[t].pack = p /\ journal[t].ver = old.ver /\ SnapsWithin(old)
      /\ Undoable(old)
      /\ t \in Listed => journal[t].status = "rolling_back" /\ old.managed /\ old.snap = journal[t].snap
      /\ old.snap = journal[t].snap \/ hit
      /\ \/ journal[t].status \in BuildingStatuses \cup {"rolling_back"}
         \/ journal[t].status = "commit_decided" /\ hit
  BY <1>0, <1>1, <1>2 DEF RollingBack
<1>4. PICK rec \in Record : /\ rec = [job.rec EXCEPT !.status = "rolling_back"]
                            /\ rec.status = "rolling_back" /\ rec.pack = p /\ rec.ver = old.ver
                            /\ rec.managed = old.managed /\ rec.snap = old.snap
  <2>1. PICK x : x = [old EXCEPT !.status = "rolling_back"]
    OBVIOUS
  <2>2. /\ x \in Record /\ x.status = "rolling_back" /\ x.pack = p /\ x.ver = old.ver
        /\ x.managed = old.managed /\ x.snap = old.snap
    BY <1>2, <2>1, Restatus DEF Statuses
  <2> QED
    BY <1>1, <2>1, <2>2
<1>5. PICK T \in SUBSET Resources : T = {r \in Resources : rec.snap[r] # NoSnapshot}
  OBVIOUS
<1>6. /\ \/ /\ journal' = Saved(t, rec)
            /\ job' = [job EXCEPT !.step = "restore", !.rec = rec, !.todo = T]
         \/ /\ journal' \in {journal, Saved(t, rec)} /\ ~hit
            /\ job' = [job EXCEPT !.step = "restore", !.rec = rec, !.todo = T, !.errors = TRUE]
  <2>1. PICK x : x = [job.rec EXCEPT !.status = "rolling_back"]
    OBVIOUS
  <2>2. PICK U : U = {r \in Resources : x.snap[r] # NoSnapshot}
    OBVIOUS
  <2>3. \/ /\ Save(job.tx, x)
           /\ job' = [job EXCEPT !.step = "restore", !.rec = x, !.todo = U]
        \/ /\ SaveFails(job.tx, x)
           /\ job' = [job EXCEPT !.step = "restore", !.rec = x, !.todo = U, !.errors = TRUE]
    BY <2>1, <2>2 DEF MarkRollingBack
  <2>4. x = rec /\ U = T
    BY <1>4, <1>5, <2>1, <2>2
  <2> QED
    BY <1>1, <2>3, <2>4 DEF Save, SaveFails, Fault
<1>7. /\ job'.kind = job.kind /\ job'.tx = t /\ job'.step = "restore" /\ job'.rec = rec
      /\ job'.todo = T /\ proc' = "busy"
  BY <1>0, <1>1, <1>6 DEF JobRec
<1>8. SnapsWithin(rec) /\ Undoable(rec)
  BY <1>2, <1>3, <1>4 DEF SnapsWithin, Undoable
<1>9. /\ Stored' /\ Pending' = {t} /\ Listed' = Listed /\ Undoable(rec)' /\ RunsGranted'
      /\ \A q \in Packs, r \in Resources : Target(q, r)' = Target(q, r)
      /\ \A q \in Packs : Installed(q)' = Installed(q) /\ Current(q)' = Current(q)
      /\ journal'[t].status \in BuildingStatuses \cup {"rolling_back"} /\ journal'[t].snap = rec.snap
      /\ journal'[t].pack = p /\ journal'[t].ver = rec.ver
      /\ t \in Listed => journal'[t].status = "rolling_back"
  <2>0. proc' = "busy" /\ Taken' => Taken /\ job'.rec.pack = job.rec.pack
    BY <1>0, <1>1, <1>2, <1>4, <1>7 DEF Taken
  <2>1. CASE journal' = journal /\ ~hit
    <3>1. /\ Stored' /\ Pending' = Pending /\ Listed' = Listed /\ Undoable(rec)'
          /\ \A q \in Packs, r \in Resources : Target(q, r)' = Target(q, r)
          /\ \A q \in Packs : Installed(q)' = Installed(q) /\ Current(q)' = Current(q)
      BY <1>0, <1>8, <2>1, SameStores
    <3>2. RunsGranted'
      BY <1>0, <2>0, <2>1, SameRuns
    <3> QED
      BY <1>3, <1>4, <2>1, <3>1, <3>2
  <2>2. CASE journal' = Saved(t, rec)
    <3>1. /\ Stored' /\ TxWrite(t, rec) /\ Listed' = Listed /\ journal'[t] = rec /\ Pending' = {t}
          /\ Undoable(rec)' /\ \A q \in Packs, r \in Resources : Target(q, r)' = Target(q, r)
          /\ \A q \in Packs : Installed(q)' = Installed(q) /\ Current(q)' = Current(q)
      BY <1>0, <1>2, <1>3, <1>4, <1>8, <2>2, RollbackWrite DEF UndoneStatuses
    <3>2. RunsGranted'
      BY <1>0, <1>3, <2>0, <3>1, TxRuns
    <3> QED
      BY <1>4, <3>1, <3>2
  <2> QED
    BY <1>6, <2>1, <2>2
<1>10. \A r \in ResourcesOf[p] \ T : files'[r] = Target(p, r)'
  <2>1. ASSUME NEW r \in ResourcesOf[p] \ T PROVE files'[r] = Target(p, r)'
    <3>1. r \in Resources /\ rec.snap[r] = NoSnapshot
      BY <1>5, ConstantTypes
    <3>2. files[r] = Target(p, r)
      BY <1>0, <1>4, <1>8, <3>1, UntouchedRestored
    <3> QED
      BY <1>0, <1>9, <3>1, <3>2
  <2> QED
    BY <2>1
<1>11. RollingBack'
  BY <1>3, <1>4, <1>5, <1>7, <1>8, <1>9, <1>10 DEF RollingBack
<1>12. JobInv'
  BY <1>0, <1>1, <1>2, <1>4, <1>7, <1>9, <1>11, StillRolling
<1> QED
  BY <1>9, <1>12 DEF PackInv

\* A resource is restored from its snapshot.
LEMMA RestoreKept ==
    ASSUME PackInv, TypeInv', Restore
    PROVE  PackInv'
<1>0. /\ TypeInv /\ Stored /\ JobInv /\ RunsGranted /\ StoreTypes /\ StoreTypes' /\ Stacks
      /\ proc = "busy" /\ job.step = "restore" /\ job \in JobRec /\ RollingBack /\ job.todo # {}
      /\ UNCHANGED <<owned, grants, live, loose, proc>>
  BY DEF PackInv, TypeInv, JobInv, Stored, Restore
<1>1. PICK rec \in Record, t \in Txs : rec = job.rec /\ t = job.tx
  BY <1>0, Rolling
<1>2. PICK p \in Packs : p = rec.pack
  BY RecordFields
<1>3. PICK T \in SUBSET Resources : T = job.todo
  BY <1>0, JobFields
<1>4. PICK r \in T : r = InHand
  BY <1>0, <1>3, InHandTodo
<1>5. /\ Pending = {t} /\ journal[t].pack = p /\ journal[t].ver = rec.ver /\ SnapsWithin(rec)
      /\ Undoable(rec) /\ rec.status = "rolling_back" /\ rec.snap = journal[t].snap
      /\ t \in Listed => journal[t].status = "rolling_back" /\ rec.managed
      /\ journal[t].status \in BuildingStatuses \cup {"rolling_back"}
      /\ \A q \in T : rec.snap[q] # NoSnapshot
      /\ ~job.errors => \A q \in ResourcesOf[p] \ T : files[q] = Target(p, q)
  BY <1>0, <1>1, <1>2, <1>3 DEF RollingBack
<1>6. /\ rec.snap[r] # NoSnapshot /\ r \in ResourcesOf[p] /\ rec.snap[r] = Target(p, r)
  <2>1. rec.snap[r] # NoSnapshot /\ r \in ResourcesOf[p]
    BY <1>2, <1>5 DEF SnapsWithin
  <2> QED
    BY <1>0, <1>2, <1>5, <2>1, UntouchedRestored
<1>7. PICK U \in SUBSET Resources : U = T \ {r}
  OBVIOUS
<1>8. /\ job'.kind = job.kind /\ job'.tx = t /\ job'.step = "restore" /\ job'.rec = rec
      /\ job'.todo = U /\ proc' = "busy"
      /\ \A q \in Resources \ {r} : files'[q] = files[q]
      /\ journal' = journal \/ journal' = Saved(t, rec)
      /\ ~job'.errors => ~job.errors /\ files'[r] = rec.snap[r]
  <2>1. PICK x : x = InHand
    OBVIOUS
  <2>2. PICK y : y = [files EXCEPT ![x] = job.rec.snap[x]]
    OBVIOUS
  <2>3. /\ files' \in {files, y}
        /\ journal' = journal \/ journal' = Saved(job.tx, job.rec)
        /\ \/ files' = y /\ job' = [job EXCEPT !.todo = job.todo \ {x}]
           \/ job' = [job EXCEPT !.todo = job.todo \ {x}, !.errors = TRUE]
    BY <2>1, <2>2 DEF Restore, Save, SaveFails
  <2>4. x = r /\ y[r] = rec.snap[r] /\ \A q \in Resources \ {r} : y[q] = files[q]
    BY <1>0, <1>1, <1>4, <2>1, <2>2 DEF StoreTypes
  <2>5. /\ job'.kind = job.kind /\ job'.tx = job.tx /\ job'.step = job.step /\ job'.rec = job.rec
        /\ job'.todo = job.todo \ {r} /\ job'.errors \in {job.errors, TRUE}
        /\ ~job'.errors => job'.errors = job.errors /\ files' = y
    BY <1>0, <2>3, <2>4 DEF JobRec
  <2> QED
    BY <1>0, <1>1, <1>3, <1>7, <2>3, <2>4, <2>5
<1>9. /\ Stored' /\ Pending' = {t} /\ Listed' = Listed /\ Undoable(rec)' /\ RunsGranted'
      /\ \A q \in Packs, u \in Resources : Target(q, u)' = Target(q, u)
      /\ \A q \in Packs : Installed(q)' = Installed(q) /\ Current(q)' = Current(q)
      /\ journal'[t].status \in BuildingStatuses \cup {"rolling_back"} /\ journal'[t].snap = rec.snap
      /\ journal'[t].pack = p /\ journal'[t].ver = rec.ver
      /\ t \in Listed => journal'[t].status = "rolling_back"
  <2>0. proc' = "busy" /\ Taken' => Taken /\ job'.rec.pack = job.rec.pack
    BY <1>0, <1>1, <1>8 DEF Taken
  <2>1. CASE journal' = journal
    <3>1. /\ Stored' /\ Pending' = {t} /\ Listed' = Listed /\ Undoable(rec)'
          /\ \A q \in Packs, u \in Resources : Target(q, u)' = Target(q, u)
      BY <1>0, <1>2, <1>5, <1>6, <1>8, <2>1, FileStep
    <3>2. RunsGranted'
      BY <1>0, <2>0, <2>1, SameRuns
    <3>3. \A q \in Packs : Installed(q)' = Installed(q) /\ Current(q)' = Current(q)
      BY <1>0 DEF Installed, Current
    <3> QED
      BY <1>5, <2>1, <3>1, <3>2, <3>3
  <2>2. CASE journal' = Saved(t, rec)
    <3>1. /\ Stored' /\ TxWrite(t, rec) /\ Listed' = Listed /\ journal'[t] = rec /\ Pending' = {t}
          /\ Undoable(rec)' /\ \A q \in Packs, u \in Resources : Target(q, u)' = Target(q, u)
          /\ \A q \in Packs : Installed(q)' = Installed(q) /\ Current(q)' = Current(q)
      BY <1>0, <1>2, <1>5, <1>6, <1>8, <2>2, RollbackWrite DEF UndoneStatuses
    <3>2. RunsGranted'
      BY <1>0, <1>5, <2>0, <3>1, TxRuns
    <3> QED
      BY <1>2, <1>5, <3>1, <3>2
  <2> QED
    BY <1>8, <2>1, <2>2
<1>10. ~job'.errors => \A q \in ResourcesOf[p] \ U : files'[q] = Target(p, q)'
  <2>1. ASSUME ~job'.errors, NEW q \in ResourcesOf[p] \ U PROVE files'[q] = Target(p, q)'
    <3>1. q \in Resources /\ Target(p, q)' = Target(p, q)
      BY <1>9, ConstantTypes
    <3>2. CASE q = r
      BY <1>6, <1>8, <2>1, <3>1, <3>2
    <3>3. CASE q # r
      BY <1>5, <1>7, <1>8, <2>1, <3>1, <3>3
    <3> QED
      BY <3>2, <3>3
  <2> QED
    BY <2>1
<1>11. RollingBack'
  BY <1>2, <1>5, <1>7, <1>8, <1>9, <1>10 DEF RollingBack
<1>12. JobInv'
  BY <1>0, <1>1, <1>8, <1>9, <1>11, StillRolling
<1> QED
  BY <1>9, <1>12 DEF PackInv

\* The rollback ends, and what called it goes on.
LEMMA EndRollbackKept ==
    ASSUME PackInv, TypeInv', EndRollback
    PROVE  PackInv'
<1>0. /\ TypeInv /\ Stored /\ JobInv /\ RunsGranted /\ StoreTypes /\ StoreTypes' /\ Stacks
      /\ proc = "busy" /\ job.step = "restore" /\ job \in JobRec /\ RollingBack /\ job.todo = {}
      /\ UNCHANGED <<files, owned, grants, live, loose>>
  BY DEF PackInv, TypeInv, JobInv, Stored, EndRollback
<1>1. PICK old \in Record, t \in Txs : old = job.rec /\ t = job.tx
  BY <1>0, Rolling
<1>2. PICK p \in Packs : p = old.pack
  BY RecordFields
<1>3. /\ Pending = {t} /\ journal[t].pack = p /\ journal[t].ver = old.ver /\ SnapsWithin(old)
      /\ t \in Listed => /\ journal[t].status = "rolling_back" /\ old.managed
                         /\ old.snap = journal[t].snap
      /\ ~job.errors => Restored(p)
  BY <1>0, <1>1, <1>2 DEF RollingBack, Restored
<1>4. PICK s \in {"compensation_failed", "rolled_back"} :
        s = IF job.errors THEN "compensation_failed" ELSE "rolled_back"
  OBVIOUS
<1>5. PICK rec \in Record : /\ rec = [job.rec EXCEPT !.status = s]
                            /\ rec.status = s /\ rec.pack = p /\ rec.ver = old.ver
                            /\ rec.managed = old.managed /\ rec.snap = old.snap
  <2>1. PICK x : x = [old EXCEPT !.status = s]
    OBVIOUS
  <2>2. /\ x \in Record /\ x.status = s /\ x.pack = p /\ x.ver = old.ver
        /\ x.managed = old.managed /\ x.snap = old.snap
    <3>1. s \in Statuses
      BY DEF Statuses
    <3> QED
      BY <1>2, <2>1, <3>1, Restatus
  <2> QED
    BY <1>1, <2>1, <2>2
<1>6. \/ journal' = Saved(t, rec) /\ s = "rolled_back" /\ RolledBack
      \/ (journal' = journal \/ journal' = Saved(t, rec)) /\ ReturnError
  BY <1>1, <1>4, <1>5 DEF EndRollback, Save, SaveFails
<1>7. ASSUME journal' = Saved(t, rec)
      PROVE  /\ Stored' /\ TxWrite(t, rec) /\ Listed' = Listed /\ journal'[t] = rec
             /\ s = "rolled_back" /\ t \notin Listed => Pending' = {}
             /\ \A q \in Packs : Installed(q)' = Installed(q) /\ Current(q)' = Current(q)
  <2>1. SnapsWithin(rec) /\ rec.status \in UndoneStatuses
    BY <1>2, <1>3, <1>5 DEF SnapsWithin, UndoneStatuses
  <2>2. rec.status = "rolled_back" => Restored(rec.pack)
    BY <1>3, <1>4, <1>5
  <2>3. rec.status # "rolling_back"
    BY <1>5
  <2>4. /\ rec.pack = journal[t].pack /\ rec.ver = journal[t].ver
        /\ t \in Listed => /\ journal[t].status = "rolling_back" /\ rec.managed
                           /\ rec.snap = journal[t].snap
    BY <1>3, <1>5
  <2>5. /\ StoreTypes /\ StoreTypes' /\ Stored /\ Pending = {t} /\ UNCHANGED <<files, owned>>
        /\ \A q \in Resources : files'[q] = files[q]
    BY <1>0, <1>3
  <2>6. /\ Stored' /\ TxWrite(t, rec) /\ Listed' = Listed /\ journal'[t] = rec
        /\ rec.status = "rolled_back" /\ t \notin Listed => Pending' = {}
        /\ \A q \in Packs : Installed(q)' = Installed(q) /\ Current(q)' = Current(q)
    BY <1>7, <2>1, <2>2, <2>3, <2>4, <2>5, RollbackWrite
  <2> QED
    BY <1>5, <2>6
<1>8. CASE (journal' = journal \/ journal' = Saved(t, rec)) /\ ReturnError
  <2>1. JobInv' /\ proc' # "busy"
    BY <1>0, <1>8, ReturnErrorKept
  <2>2. CASE journal' = journal
    BY <1>0, <2>1, <2>2, SameStores, SameRuns DEF PackInv
  <2>3. CASE journal' = Saved(t, rec)
    BY <1>0, <1>3, <1>7, <2>1, <2>3, TxRuns DEF PackInv
  <2> QED
    BY <1>8, <2>2, <2>3
<1>9. CASE journal' = Saved(t, rec) /\ s = "rolled_back" /\ RolledBack
  <2>1. CASE job.kind = "install"
    <3>1. Return
      BY <1>9, <2>1 DEF RolledBack
    <3>2. t \notin Listed
      BY <1>0, <1>1, <2>1, Rolling
    <3>3. JobInv' /\ proc' = "idle"
      BY <1>7, <1>9, <3>1, <3>2, ReturnKept
    <3>4. RunsGranted'
      BY <1>0, <1>3, <1>7, <1>9, <3>3, TxRuns
    <3> QED
      BY <1>7, <1>9, <3>3, <3>4 DEF PackInv
  <2>2. CASE job.kind = "start"
    <3>1. Goto("scan")
      BY <1>9, <2>2 DEF RolledBack
    <3>2. job'.kind = "start" /\ job'.step = "scan" /\ proc' = "busy"
      BY <1>0, <2>2, <3>1, GotoTyped DEF Steps
    <3>3. live' = Nothing /\ loose' = {}
      BY <1>0, <2>2 DEF JobInv, Starting
    <3>4. JobInv' /\ RunsGranted'
      BY <3>2, <3>3 DEF JobInv, Starting, RunsGranted, Nothing, Taken
    <3> QED
      BY <1>7, <1>9, <3>4 DEF PackInv
  <2>3. CASE job.kind \in {"rollback", "remove"}
    <3>1. Goto("unlist")
      BY <1>9, <2>3 DEF RolledBack
    <3>2. /\ job'.kind = job.kind /\ job'.step = "unlist" /\ proc' = "busy" /\ job'.rec = old
          /\ job'.tx = t
      BY <1>0, <1>1, <3>1, GotoTyped DEF Steps
    <3>3. Installed(p) /\ t = Current(p) /\ Taken
      BY <1>0, <1>1, <1>2, <2>3, Rolling
    <3>4. Withdrawing'
      BY <1>2, <1>5, <1>7, <1>9, <3>2, <3>3 DEF Withdrawing
    <3>5. JobInv'
      BY <2>3, <3>2, <3>4 DEF JobInv
    <3>6. RunsGranted'
      BY <1>0, <1>1, <1>3, <1>7, <1>9, <3>2, <3>3, TxRuns
    <3> QED
      BY <1>7, <1>9, <3>5, <3>6 DEF PackInv
  <2> QED
    BY <1>0, <2>1, <2>2, <2>3, Rolling
<1> QED
  BY <1>6, <1>8, <1>9

\* A committed version is taken back: its snapshots are what was there before.
LEMMA TakeBack ==
    ASSUME StoreTypes, StoreTypes', Stored, Pending = {}, NEW p \in Packs, Installed(p),
           NEW t \in Txs, t = Current(p), NEW rec \in Record, rec.status = "rolling_back",
           rec.pack = journal[t].pack, rec.ver = journal[t].ver, rec.managed = journal[t].managed,
           rec.snap = journal[t].snap,
           journal' = Saved(t, rec), UNCHANGED <<files, owned>>
    PROVE  /\ Stored' /\ Pending' = {t} /\ Listed' = Listed /\ TxWrite(t, rec) /\ rec \in Record
           /\ Undoable(rec)' /\ SnapsWithin(rec) /\ rec.pack = p /\ rec.managed
           /\ journal'[t] = rec /\ rec.status = "rolling_back" /\ t \in Listed /\ t \in Txs
           /\ Installed(p)' /\ Current(p)' = t
<1>0. Stacks
  BY DEF Stored
<1>1. /\ t \in Listed /\ t \in Txs /\ journal[t].pack = p /\ journal[t].managed
      /\ SnapsWithin(journal[t]) /\ journal[t].ver \in DOMAIN Content[p] /\ ~OwnedByOther(p)
      /\ \A r \in ResourcesOf[p] : Reverted(journal[t], r) = Under(p, Len(owned[p]) - 1, r)
  BY <1>0, CurrentAt
<1>2. journal[t].status = "committed"
  BY <1>1, ListedPending
<1>3. PICK old \in Record : old = journal[t]
  BY <1>1 DEF StoreTypes
<1>4. /\ rec \in Record /\ rec.status = "rolling_back" /\ rec.pack = p /\ rec.ver = old.ver
      /\ rec.managed = old.managed /\ rec.snap = old.snap
  BY <1>1, <1>3
<1>5. TxWrite(t, rec)
  BY <1>1, <1>3, <1>4 DEF TxWrite, UndoneStatuses, Decided
<1>6. /\ journal'[t] = rec /\ Listed' = Listed
      /\ Installed(p)' /\ Current(p)' = t /\ ~OwnedByOther(p)'
      /\ \A n \in 0 .. Len(owned[p]), r \in Resources : Under(p, n, r)' = Under(p, n, r)
  BY <1>1, <1>4, <1>5, TxFrame
<1>7. Pending' = {t}
  <2>1. /\ Pending' \subseteq {t}
        /\ t \in Pending' <=> rec.status \notin Settled \/ (rec.status = "rolled_back" /\ t \in Listed)
    BY <1>1, <1>4, <1>5, TxFrame
  <2> QED
    BY <1>4, <2>1 DEF Settled
<1>8. ASSUME NEW r \in ResourcesOf[p]
      PROVE  \/ rec.snap[r] = Target(p, r)'
             \/ rec.snap[r] = NoSnapshot /\ files'[r] = Target(p, r)'
  <2>0. r \in Resources
    BY ConstantTypes
  <2>1. PICK n \in 0 .. Len(owned[p]) : n = Len(owned[p]) - 1
    <3>1. PICK m \in Nat : m = Len(owned[p]) /\ m # 0
      BY CurrentTyped
    <3>2. m - 1 \in 0 .. m
      BY <3>1
    <3> QED
      BY <3>1, <3>2
  <2>2. Target(p, r)' = Under(p, n, r)
    <3>1. Current(p)' \in Undone'
      BY <1>1, <1>4, <1>6 DEF Undone
    <3>2. Depth(p)' = n
      BY <1>6, <2>1, <3>1 DEF Depth
    <3> QED
      BY <1>6, <2>0, <2>1, <3>2 DEF Target
  <2>3. Reverted(old, r) = Under(p, n, r)
    BY <1>1, <1>3, <2>1
  <2>4. files[r] = Content[p][old.ver][r]
    <3>1. Whole(r)
      BY <2>0 DEF Stored
    <3>2. files[r] = Target(p, r)
      BY <3>1 DEF Whole
    <3> QED
      BY <1>2, <1>3, <2>0, <3>2, CommittedDepth DEF UndoneStatuses
  <2> QED
    BY <1>1, <1>3, <1>4, <2>2, <2>3, <2>4 DEF Reverted
<1>9. Undoable(rec)' /\ SnapsWithin(rec)
  BY <1>1, <1>3, <1>4, <1>8 DEF Undoable, SnapsWithin
<1>10. Sound(t)'
  BY <1>1, <1>3, <1>4, <1>6, <1>9 DEF Sound, BuildingStatuses
<1>11. Stored'
  BY <1>1, <1>4, <1>5, <1>7, <1>10, TxStep
<1> QED
  BY <1>1, <1>3, <1>4, <1>5, <1>6, <1>7, <1>9, <1>11

\* rollback and remove, beside the rollback of the transaction itself.
LEMMA WithdrawingKept ==
    ASSUME PackInv, TypeInv', Withdraw \/ Load \/ Unlist, ~overlaid'
    PROVE  PackInv'
<1>0. /\ TypeInv /\ Stored /\ JobInv /\ RunsGranted /\ StoreTypes /\ StoreTypes' /\ Stacks
      /\ proc = "busy" /\ job.kind \in {"rollback", "remove"} /\ job \in JobRec /\ Withdrawing
  BY DEF PackInv, TypeInv, JobInv, Stored, Withdraw, Load, Unlist, Busy
<1>1. PICK p \in Packs : p = job.rec.pack
  BY <1>0, JobFields
<1>2. CASE Withdraw
  <2>1. /\ job.step = "withdraw" /\ UNCHANGED <<files, journal, owned, grants>>
    BY <1>2 DEF Withdraw, Busy, durable
  <2>2. /\ Stored' /\ \A q \in Packs : Installed(q)' = Installed(q) /\ Current(q)' = Current(q)
    BY <1>0, <2>1, SameStores
  <2>3. \/ Return /\ UNCHANGED <<live, loose>>
        \/ /\ Installed(p) /\ TakeDown(p) /\ UNCHANGED proc
           /\ job' = [job EXCEPT !.step = "revoke", !.tx = Current(p)]
        \/ TakeDownFails(p) /\ ReturnError /\ UNCHANGED loose
    BY <1>1, <1>2 DEF Withdraw
  <2>4. CASE Return /\ UNCHANGED <<live, loose>>
    <3>1. JobInv' /\ proc' = "idle"
      BY <2>4, ReturnKept
    <3>2. RunsGranted'
      BY <1>0, <2>1, <2>4, <3>1, SameRuns
    <3> QED
      BY <2>2, <3>1, <3>2 DEF PackInv
  <2>5. CASE /\ Installed(p) /\ TakeDown(p) /\ UNCHANGED proc
             /\ job' = [job EXCEPT !.step = "revoke", !.tx = Current(p)]
    <3>1. /\ job'.kind = job.kind /\ job'.step = "revoke" /\ job'.rec = job.rec /\ job'.tx = Current(p)
      BY <1>0, <2>5 DEF JobRec
    <3>2. JobInv'
      BY <1>0, <1>1, <2>2, <2>5, <3>1 DEF JobInv, Withdrawing
    <3>3. ~OwnedByOther(p)
      BY <1>0, <2>5, CurrentAt
    <3>4. RunsGranted'
      BY <1>0, <1>1, <2>1, <2>5, <3>1, <3>3, DownRuns
    <3> QED
      BY <2>2, <3>2, <3>4 DEF PackInv
  <2>6. CASE TakeDownFails(p) /\ ReturnError /\ UNCHANGED loose
    BY <1>0, <2>1, <2>6, PartlyDown
  <2> QED
    BY <2>3, <2>4, <2>5, <2>6
<1>3. CASE Load
  <2>1. /\ job.step = "load" /\ UNCHANGED <<files, owned, grants, live, loose>>
    BY <1>3 DEF Load, Busy
  <2>2. PICK t \in Txs, old \in Record : /\ t = job.tx /\ old = journal[t]
                                       /\ Installed(p) /\ t = Current(p) /\ Taken
    <3>1. Installed(p) /\ job.tx = Current(p) /\ Taken
      BY <1>0, <1>1, <2>1 DEF Withdrawing, Taken
    <3> QED
      BY <1>0, <3>1, CurrentAt DEF StoreTypes
  <2>3. /\ t \in Listed /\ old.pack = p /\ old.managed /\ ~OwnedByOther(p)
    BY <1>0, <2>2, CurrentAt
  <2>4. PICK rec \in Record : /\ rec = [journal[t] EXCEPT !.status = "rolling_back"]
                              /\ rec.status = "rolling_back" /\ rec.pack = p /\ rec.ver = old.ver
                              /\ rec.managed /\ rec.managed = old.managed
                              /\ rec.snap = old.snap
    <3>1. PICK x : x = [old EXCEPT !.status = "rolling_back"]
      OBVIOUS
    <3>2. "rolling_back" \in Statuses
      BY DEF Statuses
    <3>3. /\ x \in Record /\ x.status = "rolling_back" /\ x.pack = p /\ x.ver = old.ver
          /\ x.managed /\ x.managed = old.managed /\ x.snap = old.snap
      BY <2>3, <3>1, <3>2, Restatus
    <3> QED
      BY <2>2, <3>1, <3>3
  <2>5. \/ /\ old.status \in {"committed", "rolling_back"} /\ Pending \subseteq {t}
           /\ \/ journal' = Saved(t, rec) /\ Undo(rec)
              \/ (journal' = journal \/ journal' = Saved(t, rec)) /\ ReturnError
        \/ journal' = journal /\ ReturnError
    <3>1. Open = Pending
      BY <1>0, OpenPending
    <3> QED
      BY <1>3, <2>2, <2>4, <3>1 DEF Load, Save, SaveFails
  <2>6. ASSUME journal' = Saved(t, rec), old.status \in {"committed", "rolling_back"},
               Pending \subseteq {t}, proc' = "busy" => job'.rec.pack = p
        PROVE  /\ Stored' /\ Pending' = {t} /\ Listed' = Listed /\ RunsGranted'
               /\ Undoable(rec)' /\ SnapsWithin(rec) /\ journal'[t] = rec
               /\ Installed(p)' /\ Current(p)' = t
    <3>1. CASE old.status = "committed"
      <4>1. Pending = {}
        BY <2>2, <2>6, <3>1 DEF Pending, Settled
      <4>2. /\ Stored' /\ Pending' = {t} /\ Listed' = Listed /\ TxWrite(t, rec)
            /\ Undoable(rec)' /\ SnapsWithin(rec) /\ journal'[t] = rec
            /\ Installed(p)' /\ Current(p)' = t
        <5>1. /\ rec.status = "rolling_back" /\ rec.pack = journal[t].pack /\ rec.ver = journal[t].ver
              /\ rec.managed = journal[t].managed /\ rec.snap = journal[t].snap
          BY <2>2, <2>3, <2>4
        <5>2. /\ StoreTypes /\ StoreTypes' /\ Stored /\ Installed(p) /\ t = Current(p) /\ p \in Packs
              /\ journal' = Saved(t, rec) /\ UNCHANGED <<files, owned>>
          BY <1>0, <2>1, <2>2, <2>6
        <5> QED
          BY <4>1, <5>1, <5>2, TakeBack
      <4>3. RunsGranted'
        BY <1>0, <1>1, <2>1, <2>2, <2>4, <2>6, <4>2, TxRuns
      <4> QED
        BY <4>2, <4>3
    <3>2. CASE old.status = "rolling_back"
      <4>1. rec = old /\ journal' = journal
        <5>1. rec = old
          BY <2>2, <2>4, <3>2 DEF Record
        <5> QED
          BY <1>0, <2>2, <2>6, <5>1 DEF Saved, StoreTypes
      <4>2. /\ Stored' /\ Pending' = Pending /\ Listed' = Listed
            /\ Installed(p)' = Installed(p) /\ Current(p)' = Current(p)
            /\ Undoable(rec)' = Undoable(rec)
        BY <1>0, <2>1, <4>1, SameStores
      <4>3. t \in Pending
        BY <2>2, <3>2 DEF Pending, Settled
      <4>4. SnapsWithin(rec) /\ Undoable(rec)
        BY <1>0, <2>2, <3>2, <4>1, <4>3 DEF Stored, Sound
      <4>5. RunsGranted'
        BY <1>0, <1>1, <2>1, <2>2, <2>6, <4>1, SameRuns
      <4> QED
        BY <2>2, <2>6, <4>1, <4>2, <4>3, <4>4, <4>5
    <3> QED
      BY <2>6, <3>1, <3>2
  <2>7. CASE /\ old.status \in {"committed", "rolling_back"} /\ Pending \subseteq {t}
             /\ journal' = Saved(t, rec) /\ Undo(rec)
    <3>1. /\ job'.kind = job.kind /\ job'.step = "mark" /\ job'.rec = rec /\ job'.tx = t /\ proc' = "busy"
      BY <1>0, <2>2, <2>7, UndoTyped
    <3>2. /\ Stored' /\ Pending' = {t} /\ Listed' = Listed /\ RunsGranted'
          /\ Undoable(rec)' /\ SnapsWithin(rec) /\ journal'[t] = rec
          /\ Installed(p)' /\ Current(p)' = t
      BY <2>4, <2>6, <2>7, <3>1
    <3>3. Withdrawing'
      BY <2>4, <3>1, <3>2 DEF Withdrawing
    <3>4. RollingBack'
      BY <2>4, <3>1, <3>2 DEF RollingBack
    <3>5. JobInv'
      BY <1>0, <3>1, <3>3, <3>4 DEF JobInv
    <3> QED
      BY <3>2, <3>5 DEF PackInv
  <2>8. CASE /\ old.status \in {"committed", "rolling_back"} /\ Pending \subseteq {t}
             /\ journal' = Saved(t, rec) /\ ReturnError
    <3>1. JobInv' /\ proc' # "busy"
      BY <1>0, <2>8, ReturnErrorKept
    <3> QED
      BY <2>6, <2>8, <3>1 DEF PackInv
  <2>9. CASE journal' = journal /\ ReturnError
    <3>1. JobInv' /\ proc' # "busy"
      BY <1>0, <2>9, ReturnErrorKept
    <3> QED
      BY <1>0, <2>1, <2>9, <3>1, SameStores, SameRuns DEF PackInv
  <2> QED
    BY <2>5, <2>7, <2>8, <2>9
<1>4. CASE Unlist
  <2>1. /\ job.step = "unlist" /\ UNCHANGED <<files, journal, grants, live, loose>>
    BY <1>4 DEF Unlist, Busy
  <2>2. PICK t : t = job.tx
    OBVIOUS
  <2>3. /\ Installed(p) /\ t = Current(p) /\ Taken /\ journal[t].status = "rolled_back"
    BY <1>0, <1>1, <2>1, <2>2 DEF Withdrawing, Taken
  <2>4. t \in Listed /\ journal[t].pack = p
    BY <1>0, <2>3, CurrentAt
  <2>5. \/ owned' = Unlisting(t) /\ (Goto("withdraw") \/ Return)
        \/ (owned' = owned \/ owned' = Unlisting(t)) /\ ReturnError
    BY <1>4, <2>2 DEF Unlist
  <2>6. ASSUME owned' = Unlisting(t)
        PROVE  Stored' /\ Pending' = {} /\ \A q \in Packs : q # p => owned'[q] = owned[q]
    BY <1>0, <2>1, <2>3, <2>4, <2>6, UnlistStep
  <2>7. CASE owned' = Unlisting(t) /\ Goto("withdraw")
    <3>1. /\ job'.kind = job.kind /\ job'.step = "withdraw" /\ job'.rec = job.rec /\ proc' = "busy"
      BY <1>0, <2>7, GotoTyped DEF Steps
    <3>2. JobInv'
      BY <1>0, <2>6, <2>7, <3>1 DEF JobInv, Withdrawing
    <3>3. RunsGranted'
      BY <1>0, <1>1, <2>1, <2>3, <2>6, <2>7, <3>1, StackRuns
    <3> QED
      BY <2>6, <2>7, <3>2, <3>3 DEF PackInv
  <2>8. CASE owned' = Unlisting(t) /\ Return
    <3>1. JobInv' /\ proc' = "idle"
      BY <2>8, ReturnKept
    <3>2. RunsGranted'
      BY <1>0, <1>1, <2>1, <2>3, <2>6, <2>8, <3>1, StackRuns
    <3> QED
      BY <2>6, <2>8, <3>1, <3>2 DEF PackInv
  <2>9. CASE (owned' = owned \/ owned' = Unlisting(t)) /\ ReturnError
    <3>1. JobInv' /\ proc' # "busy"
      BY <1>0, <2>9, ReturnErrorKept
    <3>2. CASE owned' = owned
      BY <1>0, <2>1, <3>1, <3>2, SameStores, SameRuns DEF PackInv
    <3>3. CASE owned' = Unlisting(t)
      <4>1. Stored' /\ Pending' = {} /\ \A q \in Packs : q # p => owned'[q] = owned[q]
        BY <2>6, <3>3
      <4>2. RunsGranted'
        BY <1>0, <1>1, <2>1, <2>3, <3>1, <4>1, StackRuns
      <4> QED
        BY <3>1, <4>1, <4>2 DEF PackInv
    <3> QED
      BY <2>9, <3>2, <3>3
  <2> QED
    BY <2>5, <2>7, <2>8, <2>9
<1> QED
  BY <1>0, <1>2, <1>3, <1>4

\* recover: an open transaction is rolled back.
LEMMA ScanKept ==
    ASSUME PackInv, TypeInv', Scan
    PROVE  PackInv'
<1>0. /\ TypeInv /\ Stored /\ JobInv /\ RunsGranted /\ StoreTypes /\ Stacks /\ job \in JobRec
      /\ proc = "busy" /\ job.step = "scan" /\ job.kind = "start" /\ live = Nothing /\ loose = {}
      /\ UNCHANGED <<files, journal, owned, grants, live, loose>>
  BY DEF PackInv, TypeInv, Stored, JobInv, Starting, Scan, Busy, durable
<1>1. /\ Stored' /\ Pending' = Pending /\ Listed' = Listed /\ Unsettled' = Unsettled
      /\ \A rec \in Record : Undoable(rec)' = Undoable(rec)
  BY <1>0, SameStores
<1>2. RunsGranted'
  BY <1>0 DEF RunsGranted, Nothing
<1>3. ASSUME ReturnError PROVE JobInv'
  BY <1>0, <1>3, ReturnErrorKept
<1>4. ASSUME NEW t \in Unsettled,
             journal[t].status \notin {"compensation_failed", "commit_decided"},
             job' = [job EXCEPT !.step = "mark", !.tx = t, !.rec = journal[t]], proc' = proc
      PROVE  JobInv'
  <2>1. PICK rec \in Record : rec = journal[t] /\ t \in Txs
    BY <1>0 DEF StoreTypes, Unsettled
  <2>2. /\ job'.kind = "start" /\ job'.step = "mark" /\ job'.tx = t /\ job'.rec = rec
    BY <1>0, <1>4, <2>1 DEF JobRec
  <2>3. rec.status \in BuildingStatuses \cup {"rolling_back"}
    BY <1>4, <2>1, RecordFields DEF Unsettled, Settled, Statuses, BuildingStatuses
  <2>4. t \in Pending /\ Pending = {t}
    BY <1>0, <1>4, <2>1 DEF Pending, Unsettled, Stored, OnePending
  <2>5. SnapsWithin(rec) /\ Undoable(rec) /\ (t \in Listed => rec.status = "rolling_back")
    BY <1>0, <2>1, <2>3, <2>4 DEF Stored, Sound
  <2>6. t \in Listed => rec.managed
    BY <1>0, <2>1, ListedAt
  <2>7. RollingBack'
    BY <1>0, <1>1, <2>1, <2>2, <2>3, <2>4, <2>5, <2>6 DEF RollingBack
  <2> QED
    BY <1>0, <1>4, <2>2, <2>7 DEF JobInv, Starting
<1>5. ASSUME Unsettled = {}, Goto("settle") PROVE JobInv'
  <2>1. job'.kind = "start" /\ job'.step = "settle" /\ proc' = "busy"
    BY <1>0, <1>5, GotoTyped DEF Steps
  <2> QED
    BY <1>0, <1>1, <1>5, <2>1 DEF JobInv, Starting
<1>6. JobInv'
  BY <1>3, <1>4, <1>5 DEF Scan
<1> QED
  BY <1>1, <1>2, <1>6 DEF PackInv

\* recover: a version that was taken back leaves the index, and its grants go.
LEMMA SettleKept ==
    ASSUME PackInv, TypeInv', Settle \/ SettleGrants
    PROVE  PackInv'
<1>0. /\ TypeInv /\ Stored /\ JobInv /\ StoreTypes /\ StoreTypes' /\ Stacks /\ job \in JobRec
      /\ proc = "busy" /\ job.step = "settle" /\ job.kind = "start" /\ live = Nothing /\ loose = {}
      /\ Unsettled = {} /\ UNCHANGED <<files, journal, live, loose>>
  BY DEF PackInv, TypeInv, Stored, JobInv, Starting, Settle, SettleGrants, Busy
<1>1. RunsGranted'
  BY <1>0 DEF RunsGranted, Nothing
<1>2. Unsettled' = {}
  BY <1>0 DEF Unsettled
<1>3. CASE Settle
  <2>1. PICK t \in TakenBack \cap Listed :
          /\ owned' \in {owned, Unlisting(t)}
          /\ UNCHANGED <<proc, job>> \/ ReturnError
    BY <1>3 DEF Settle
  <2>2. t \in Listed /\ journal[t].status = "rolled_back"
    BY <2>1 DEF TakenBack
  <2>3. Stored'
    BY <1>0, <2>1, <2>2, SameStores, UnlistStep
  <2>4. JobInv'
    <3>1. CASE UNCHANGED <<proc, job>>
      BY <1>0, <1>2, <3>1 DEF JobInv, Starting
    <3>2. CASE ReturnError
      BY <1>0, <3>2, ReturnErrorKept
    <3> QED
      BY <2>1, <3>1, <3>2
  <2> QED
    BY <1>1, <2>3, <2>4 DEF PackInv
<1>4. CASE SettleGrants
  <2>1. TakenBack \cap Listed = {} /\ owned' = owned /\ (Goto("activate") \/ ReturnError)
    BY <1>4 DEF SettleGrants
  <2>2. Stored' /\ Pending' = Pending
    BY <1>0, <2>1, SameStores
  <2>3. ASSUME NEW t \in Pending PROVE FALSE
    <3>1. t \in Txs /\ t \notin Unsettled
      BY <1>0 DEF Pending
    <3>2. journal[t].status = "rolled_back" /\ t \in Listed
      BY <3>1 DEF Pending, Unsettled
    <3>3. journal[t].managed
      BY <1>0, <3>2, ListedAt
    <3> QED
      BY <2>1, <3>1, <3>2, <3>3 DEF TakenBack
  <2>4. Pending = {}
    BY <2>3
  <2>5. JobInv'
    <3>1. CASE Goto("activate")
      <4>1. job'.kind = "start" /\ job'.step = "activate" /\ proc' = "busy"
        BY <1>0, <3>1, GotoTyped DEF Steps
      <4> QED
        BY <1>0, <1>2, <2>2, <2>4, <4>1 DEF JobInv, Starting
    <3>2. CASE ReturnError
      BY <1>0, <3>2, ReturnErrorKept
    <3> QED
      BY <2>1, <3>1, <3>2
  <2> QED
    BY <1>1, <2>2, <2>5 DEF PackInv
<1> QED
  BY <1>3, <1>4

\* What a pack with no open transaction has put there is what its version says.
LEMMA QuietContent ==
    ASSUME StoreTypes, Stored, NEW p \in Packs, Installed(p), Quiet(p), NEW r \in ResourcesOf[p]
    PROVE  files[r] = Content[p][journal[Current(p)].ver][r]
<1>1. /\ r \in Resources /\ Stacks /\ ~OwnedByOther(p)
      /\ Current(p) \in Listed /\ journal[Current(p)].pack = p
  BY ConstantTypes, CurrentAt DEF Stored
<1>2. journal[Current(p)].status = "committed"
  BY <1>1, ListedPending DEF Quiet
<1>3. ASSUME NEW t \in Pending PROVE r \notin ResourcesOf[journal[t].pack]
  <2>1. PICK q \in Packs : q = journal[t].pack
    BY RecordFields DEF Pending, StoreTypes
  <2>2. q # p /\ ~OwnedByOther(q)
    BY <2>1 DEF Quiet, Stored, Sound
  <2> QED
    BY <2>1, <2>2 DEF OwnedByOther
<1>4. files[r] = Target(p, r)
  <2>1. Whole(r)
    BY <1>1, <1>3 DEF Stored
  <2> QED
    BY <2>1 DEF Whole
<1>5. journal[Current(p)].status \notin UndoneStatuses
  BY <1>2 DEF UndoneStatuses
<1> QED
  BY <1>1, <1>4, <1>5, CommittedDepth

\* What is activated is what the installed version put there.
LEMMA ActivatedGranted ==
    ASSUME StoreTypes, Stored, NEW P \in SUBSET GrantedPacks(grants), \A p \in P : Quiet(p),
           NEW r \in Resources, \E p \in P : r \in Executables(p)
    PROVE  \E p \in P : /\ p \in GrantedPacks(grants) /\ p \in Packs /\ Installed(p) /\ Quiet(p)
                        /\ r \in Executables(p)
                        /\ Activated(P)[r] = Content[p][journal[Current(p)].ver][r]
<1>1. PICK p \in P : r \in Executables(p)
  OBVIOUS
<1>2. p \in Packs /\ Installed(p) /\ r \in ResourcesOf[p] /\ Quiet(p)
  BY <1>1 DEF GrantedPacks, Executables
<1>3. files[r] = Content[p][journal[Current(p)].ver][r]
  BY <1>2, QuietContent
<1>4. Activated(P)[r] = files[r]
  BY DEF Activated
<1> QED
  BY <1>1, <1>2, <1>3, <1>4

\* reconcile_live_activations: what has a grant is activated, nothing ran before.
LEMMA ReactivateKept ==
    ASSUME PackInv, TypeInv', Reactivate
    PROVE  PackInv'
<1>0. /\ TypeInv /\ Stored /\ JobInv /\ StoreTypes /\ live = Nothing /\ loose = {} /\ Pending = {}
      /\ Return /\ UNCHANGED <<files, journal, owned, loose>>
  BY DEF PackInv, TypeInv, JobInv, Starting, Reactivate, Busy
<1>1. /\ Stored' /\ Pending' = {} /\ \A p \in Packs : Installed(p)' = Installed(p) /\ Current(p)' = Current(p)
  BY <1>0, SameStores
<1>2. JobInv' /\ proc' = "idle"
  BY <1>0, ReturnKept
<1>3. PICK G : G = {g \in grants : \E p \in Packs : Installed(p) /\ g[1] = Current(p)}
  OBVIOUS
<1>4. PICK P \in SUBSET GrantedPacks(grants) : live' = Activated(P) /\ P \subseteq GrantedPacks(grants)'
  <2>1. GrantedPacks(G) \subseteq GrantedPacks(grants)
    BY <1>3 DEF GrantedPacks
  <2>2. G \subseteq grants' \/ live' = live
    BY <1>3 DEF Reactivate
  <2>3. G \subseteq grants' => GrantedPacks(G) \subseteq GrantedPacks(grants)'
    BY <1>1 DEF GrantedPacks
  <2>4. live' = live \/ \E P \in SUBSET GrantedPacks(G) : live' = Activated(P)
    BY <1>3 DEF Reactivate
  <2>5. CASE live' = live
    <3>1. live' = Activated({})
      BY <1>0, <2>5 DEF Activated, Nothing
    <3> QED
      BY <3>1
  <2>6. CASE G \subseteq grants' /\ \E P \in SUBSET GrantedPacks(G) : live' = Activated(P)
    BY <2>1, <2>3, <2>6
  <2> QED
    BY <2>2, <2>4, <2>5, <2>6
<1>5. ASSUME NEW r \in Resources, live'[r] # NoContent PROVE Granted(r)'
  <2>1. \E p \in P : r \in Executables(p)
    BY <1>0, <1>4, <1>5 DEF Activated, Nothing
  <2>2. \A p \in P : Quiet(p)
    BY <1>0 DEF Quiet
  <2>3. PICK p \in P : /\ p \in Packs /\ Installed(p) /\ r \in Executables(p)
                       /\ Activated(P)[r] = Content[p][journal[Current(p)].ver][r]
    BY <1>0, <2>1, <2>2, ActivatedGranted
  <2>4. p \in GrantedPacks(grants)' /\ Quiet(p)' /\ Current(p)' = Current(p)
    BY <1>1, <1>4, <2>3 DEF Quiet
  <2>5. live'[r] = Content[p][journal'[Current(p)'].ver][r]
    BY <1>0, <1>4, <2>3, <2>4
  <2> QED
    BY <2>3, <2>4, <2>5 DEF Granted
<1>6. RunsGranted'
  BY <1>0, <1>2, <1>5 DEF RunsGranted
<1> QED
  BY <1>1, <1>2, <1>6 DEF PackInv

\* The activations that users ask for, and those they take back.
LEMMA AnswerKept ==
    ASSUME PackInv, TypeInv', Answer
    PROVE  PackInv'
<1>0. /\ TypeInv /\ Stored /\ JobInv /\ RunsGranted /\ proc = "busy"
      /\ UNCHANGED <<files, journal, owned, live, loose>> /\ job.kind = "grant"
  BY DEF PackInv, Answer, Busy
<1>1. /\ Stored' /\ Pending' = Pending
      /\ \A q \in Packs : Installed(q)' = Installed(q) /\ Current(q)' = Current(q)
  BY <1>0, SameStores
<1>2. grants \subseteq grants' /\ (Return \/ ReturnError)
  BY DEF Answer
<1>3. JobInv' /\ proc' # "busy"
  BY <1>0, <1>2, ReturnKept, ReturnErrorKept
<1>4. \A q \in Packs : Steady(q)
  BY <1>0, <1>1, <1>2 DEF Steady, Quiet
<1>5. RunsGranted'
  BY <1>0, <1>3, <1>4, RunsKept
<1> QED
  BY <1>1, <1>3, <1>5 DEF PackInv

\* activate_granted.
LEMMA ActivateKept ==
    ASSUME PackInv, TypeInv', NEW p \in Packs, NEW w \in Workspaces, Activate(p, w)
    PROVE  PackInv'
<1>0. /\ TypeInv /\ StoreTypes /\ Stored /\ Stacks /\ JobInv /\ RunsGranted
      /\ proc = "idle" /\ job = NoJob /\ Installed(p) /\ p \in GrantedPacks(grants)
      /\ UNCHANGED <<files, journal, owned, grants, job, proc>>
  BY DEF PackInv, TypeInv, Stored, JobInv, Activate, durable, GrantedPacks
<1>1. /\ Stored' /\ Pending' = Pending
      /\ \A q \in Packs : Installed(q)' = Installed(q) /\ Current(q)' = Current(q)
  BY <1>0, SameStores
<1>2. JobInv'
  BY <1>0 DEF JobInv
<1>3. \A q \in Packs, r \in Resources :
        /\ q \in GrantedPacks(grants) => q \in GrantedPacks(grants)'
        /\ Quiet(q) => Quiet(q)'
        /\ journal'[Current(q)'].ver = journal[Current(q)].ver
  BY <1>0, <1>1 DEF GrantedPacks, Quiet
<1>4. CASE UNCHANGED <<live, loose>>
  BY <1>0, <1>1, <1>2, <1>4, SameRuns DEF PackInv
<1>5. CASE /\ live' = Activated({p})
           /\ loose' = IF \E t \in Open : journal[t].pack = p THEN loose \cup {p} ELSE loose \ {p}
  <2>1. Quiet(p) \/ p \in loose'
    <3>1. Open = Pending
      BY <1>0, OpenPending
    <3> QED
      BY <1>5, <3>1 DEF Quiet
  <2>2. loose' \subseteq {q \in Packs : Installed(q)'} /\ loose \ {p} \subseteq loose'
    BY <1>0, <1>1, <1>5 DEF RunsGranted
  <2>3. ASSUME NEW r \in Resources, live'[r] # NoContent
        PROVE  Granted(r)' \/ \E q \in loose' : r \in Executables(q)
    <3>1. CASE r \in Executables(p)
      <4>1. CASE Quiet(p)
        <5>1. live'[r] = files[r] /\ files[r] = Content[p][journal[Current(p)].ver][r]
          BY <1>0, <1>5, <3>1, <4>1, QuietContent DEF Activated, Executables
        <5> QED
          BY <1>0, <1>3, <3>1, <4>1, <5>1 DEF Granted
      <4> QED
        BY <2>1, <3>1, <4>1
    <3>2. CASE r \notin Executables(p)
      <4>1. live'[r] = live[r]
        BY <1>5, <3>2 DEF Activated
      <4>2. CASE Granted(r)
        <5>1. PICK q \in GrantedPacks(grants) :
                Quiet(q) /\ r \in Executables(q) /\ live[r] = Content[q][journal[Current(q)].ver][r]
          BY <4>2 DEF Granted
        <5>2. q \in Packs
          BY DEF GrantedPacks
        <5> QED
          BY <1>3, <4>1, <5>1, <5>2 DEF Granted
      <4>3. CASE \E q \in loose : r \in Executables(q)
        BY <2>2, <3>2, <4>3
      <4> QED
        BY <1>0, <2>3, <4>1, <4>2, <4>3 DEF RunsGranted
    <3> QED
      BY <3>1, <3>2
  <2>4. RunsGranted'
    BY <1>0, <2>2, <2>3 DEF RunsGranted
  <2> QED
    BY <1>1, <1>2, <2>4 DEF PackInv
<1> QED
  BY <1>4, <1>5 DEF Activate

\* revoke_activation, whose last step may fail when the grant is gone.
LEMMA RevokeActivationKept ==
    ASSUME PackInv, TypeInv', NEW p \in Packs, NEW w \in Workspaces, RevokeActivation(p, w)
    PROVE  PackInv'
<1>0. /\ TypeInv /\ StoreTypes /\ Stored /\ Stacks /\ JobInv /\ RunsGranted
      /\ proc = "idle" /\ job = NoJob /\ Installed(p)
      /\ UNCHANGED <<files, journal, owned, job, proc>>
  BY DEF PackInv, TypeInv, Stored, JobInv, RevokeActivation
<1>1. /\ Stored' /\ Pending' = Pending
      /\ \A q \in Packs : Installed(q)' = Installed(q) /\ Current(q)' = Current(q)
  BY <1>0, SameStores
<1>2. JobInv'
  BY <1>0 DEF JobInv
<1>3. PICK kept \in SUBSET grants : kept = grants \ {<<Current(p), w>>}
  OBVIOUS
<1>4. /\ grants' \in {grants, kept}
      /\ \/ TakeDown(p)
         \/ /\ \A r \in Resources : live'[r] \in {live[r], NoContent}
            /\ loose' = IF p \in GrantedPacks(grants') THEN loose ELSE loose \cup {p}
  <2>1. PICK G : G = GrantedPacks(kept)
    OBVIOUS
  <2>2. \/ grants' = kept /\ p \in G /\ UNCHANGED <<live, loose>>
        \/ grants' = kept /\ TakeDown(p)
        \/ /\ grants' \in {grants, kept} /\ (UNCHANGED live \/ TakeDownFails(p))
           /\ loose' = IF p \in GrantedPacks(grants') THEN loose ELSE loose \cup {p}
    BY <1>3, <2>1 DEF RevokeActivation
  <2> QED
    BY <2>1, <2>2 DEF TakeDownFails
<1>5. ASSUME NEW q \in Packs, q # p PROVE Steady(q)
  <2>1. Installed(q) => Current(q) # Current(p)
    BY <1>0, <1>5, CurrentAt
  <2> QED
    BY <1>0, <1>1, <1>3, <1>4, <2>1 DEF Steady, Quiet
<1>6. CASE TakeDown(p)
  <2>1. /\ \A r \in Resources : live'[r] = IF r \in Executables(p) THEN NoContent ELSE live[r]
        /\ loose' = loose \ {p}
    BY <1>6 DEF TakeDown, Deactivated
  <2>2. Halted(p)
    BY <2>1, ConstantTypes DEF Halted, Executables
  <2>3. /\ \A r \in Resources : live'[r] \in {live[r], NoContent}
        /\ \A q \in Packs : (Steady(q) /\ (q \in loose => q \in loose')) \/ Halted(q)
    BY <1>5, <2>1, <2>2
  <2>4. RunsGranted'
    BY <1>0, <2>1, <2>3, RunsKept
  <2> QED
    BY <1>1, <1>2, <2>4 DEF PackInv
<1>7. CASE /\ \A r \in Resources : live'[r] \in {live[r], NoContent}
           /\ loose' = IF p \in GrantedPacks(grants') THEN loose ELSE loose \cup {p}
  <2>0. GrantedPacks(grants') = GrantedPacks(grants)'
    BY <1>1 DEF GrantedPacks
  <2>1. loose' \subseteq {q \in Packs : Installed(q)'} /\ loose \subseteq loose'
    BY <1>0, <1>1, <1>7 DEF RunsGranted
  <2>2. ASSUME NEW r \in Resources, live'[r] # NoContent
        PROVE  Granted(r)' \/ \E q \in loose' : r \in Executables(q)
    <3>1. live'[r] = live[r]
      BY <1>7, <2>2
    <3>2. CASE Granted(r)
      <4>1. PICK q \in GrantedPacks(grants) :
              Quiet(q) /\ r \in Executables(q) /\ live[r] = Content[q][journal[Current(q)].ver][r]
        BY <3>2 DEF Granted
      <4>2. q \in Packs /\ Installed(q) /\ \E g \in grants : g[1] = Current(q)
        BY <4>1 DEF GrantedPacks
      <4>3. Quiet(q)' /\ live'[r] = Content[q][journal'[Current(q)'].ver][r]
        BY <1>0, <1>1, <3>1, <4>1, <4>2 DEF Quiet
      <4>4. q \in GrantedPacks(grants)' \/ q \in loose'
        <5>1. CASE q = p
          BY <1>7, <2>0, <5>1
        <5>2. CASE q # p
          <6>1. \A g \in grants : g[1] = Current(q) => g \in grants'
            BY <1>5, <4>1, <4>2, <5>2 DEF Steady
          <6> QED
            BY <1>1, <4>2, <6>1 DEF GrantedPacks
        <5> QED
          BY <5>1, <5>2
      <4> QED
        BY <4>1, <4>3, <4>4 DEF Granted
    <3>3. CASE \E q \in loose : r \in Executables(q)
      BY <2>1, <3>3
    <3> QED
      BY <1>0, <2>2, <3>1, <3>2, <3>3 DEF RunsGranted
  <2>3. RunsGranted'
    BY <1>0, <2>1, <2>2 DEF RunsGranted
  <2> QED
    BY <1>1, <1>2, <2>3 DEF PackInv
<1> QED
  BY <1>4, <1>6, <1>7

\* A process dies, and may leave the resource it was replacing missing.
LEMMA CrashKept ==
    ASSUME PackInv, TypeInv', Crash
    PROVE  PackInv'
<1>0. /\ TypeInv /\ StoreTypes /\ StoreTypes' /\ Stored /\ JobInv /\ job \in JobRec
      /\ Down /\ UNCHANGED <<journal, owned, grants>>
  BY DEF PackInv, TypeInv, Crash
<1>1. CASE UNCHANGED files
  BY <1>0, <1>1, StopKept
<1>2. CASE /\ job.step \in {"apply", "restore"} /\ job.todo # {}
           /\ files' = [files EXCEPT ![InHand] = NoContent]
  <2>1. proc = "busy"
    BY <1>0, <1>2, NoJobTyped DEF JobInv
  <2>2. PICK r \in Resources : r = InHand /\ r \in job.todo
    BY <1>0, <1>2, InHandTodo, JobFields
  <2>3. \A q \in Resources \ {r} : files'[q] = files[q]
    BY <1>0, <1>2, <2>2 DEF StoreTypes
  <2>4. Stored'
    <3>1. CASE job.step = "apply"
      <4>1. job.kind = "install"
        BY <1>0, <2>1, <3>1, JobFields DEF JobInv, Starting, Withdrawing, Kinds
      <4>2. PICK rec \in Record, t \in Txs : rec = job.rec /\ t = job.tx
        BY <2>1, <3>1, <4>1, UnderWay
      <4>3. journal[t] = rec /\ Pending = {t} /\ rec.status \in BuildingStatuses
        BY <2>1, <3>1, <4>1, <4>2, UnderWay
      <4>4. rec.snap[r] # NoSnapshot
        BY <1>0, <2>1, <2>2, <3>1, <4>1, <4>2 DEF JobInv, Installing, InHand
      <4> QED
        BY <1>0, <2>3, <4>2, <4>3, <4>4, FileStep
    <3>2. CASE job.step = "restore"
      <4>1. PICK rec \in Record, t \in Txs : rec = job.rec /\ t = job.tx
        BY <2>1, <3>2, Rolling
      <4>2. /\ Pending = {t} /\ journal[t].status \in BuildingStatuses \cup {"rolling_back"}
            /\ journal[t].snap[r] # NoSnapshot
        BY <2>1, <2>2, <3>2, <4>1, Rolling DEF RollingBack
      <4> QED
        BY <1>0, <2>3, <4>1, <4>2, FileStep
    <3> QED
      BY <1>2, <3>1, <3>2
  <2>5. JobInv' /\ RunsGranted'
    BY <1>0 DEF Down, JobInv, RunsGranted, Nothing
  <2> QED
    BY <2>4, <2>5 DEF PackInv
<1> QED
  BY <1>1, <1>2 DEF Crash

------------------------------------------------------------------------------
(* Every step keeps the invariant.                                          *)

\* A step that changes nothing.
LEMMA StutterKept ==
    ASSUME PackInv, TypeInv', UNCHANGED vars
    PROVE  PackInv'
<1>0. UNCHANGED <<files, journal, owned, grants, live, loose, proc, job, hit>> /\ JobInv /\ RunsGranted
  BY DEF vars, durable, bounds, faulty, PackInv
<1>1. Stored' /\ Pending' = Pending /\ Listed' = Listed /\ Unsettled' = Unsettled
  BY <1>0, SameStores DEF PackInv
<1>2. RollingBack' = RollingBack
  BY <1>0 DEF RollingBack, Undoable, SnapsWithin, Pending, Listed, Target, Depth, Under, Undone, Installed, Current
<1>3. Installing' = Installing
  BY <1>0 DEF Installing, InProgress, Restored, Applied, MayOwn, OwnedByOther, Pending, Listed,
     Target, Depth, Under, Undone, Installed, Current
<1>4. Starting' = Starting
  BY <1>0 DEF Starting, Unsettled, Pending, Listed
<1>5. Withdrawing' = Withdrawing
  BY <1>0 DEF Withdrawing, Pending, Listed, Installed, Current
<1>6. JobInv'
  BY <1>0, <1>1, <1>2, <1>3, <1>4, <1>5 DEF JobInv
<1>7. RunsGranted'
  <2>1. \A r : Granted(r)' = Granted(r)
    BY <1>0, <1>1 DEF Granted, GrantedPacks, Installed, Current, Quiet
  <2> QED
    BY <1>0, <2>1 DEF RunsGranted, Installed, Taken
<1> QED
  BY <1>1, <1>6, <1>7 DEF PackInv

\* The invariant holds of every step, unless it goes ahead over what an error
\* has left open.
LEMMA PackKept ==
    ASSUME PackInv, ~overlaid', [Next]_vars
    PROVE  PackInv'
<1>1. TypeInv'
  BY TypesKept DEF PackInv
<1>2. CASE UNCHANGED vars
  BY <1>1, <1>2, StutterKept
<1>3. CASE Proceed
  <2>1. CASE Start
    BY <1>1, <2>1, CallsKept
  <2>2. CASE ReconcileOwnership \/ ReconcileCommit \/ Reconciled
    BY <1>1, <2>2, ReconcileKept
  <2>3. CASE Check \/ Revoke \/ Begin
    BY <1>1, <2>3, CheckKept, RevokeKept, BeginKept
  <2>4. CASE Applying \/ Snapshot \/ Apply
    BY <1>1, <2>4, ApplyingKept, SnapshotKept, ApplyKept
  <2>5. CASE AwaitCommit \/ Decide \/ Own \/ MarkCommitted
    BY <1>1, <2>5, DecidingKept, CommittingKept
  <2>6. CASE MarkRollingBack \/ Restore \/ EndRollback
    BY <1>1, <2>6, MarkKept, RestoreKept, EndRollbackKept
  <2>7. CASE Withdraw \/ Load \/ Unlist
    BY <1>1, <2>7, WithdrawingKept
  <2>8. CASE Scan \/ Settle \/ SettleGrants \/ Reactivate
    BY <1>1, <2>8, ScanKept, SettleKept, ReactivateKept
  <2> QED
    BY <1>3, <2>1, <2>2, <2>3, <2>4, <2>5, <2>6, <2>7, <2>8 DEF Proceed
<1>4. CASE Answer
  BY <1>1, <1>4, AnswerKept
<1>5. CASE Crash
  BY <1>1, <1>5, CrashKept
<1>6. CASE Stop
  BY <1>1, <1>6, StopKept DEF Stop, durable
<1>7. ASSUME NEW p \in Packs, Call(p) PROVE PackInv'
  <2>1. CASE CallRollback(p) \/ \E v \in DOMAIN Content[p] : CallInstall(p, v)
    BY <1>1, <2>1, CallsKept
  <2>2. ASSUME NEW w \in Workspaces, Ask(p, w) PROVE PackInv'
    BY <1>1, <2>2, CallsKept
  <2>3. ASSUME NEW w \in Workspaces, Activate(p, w) \/ RevokeActivation(p, w) PROVE PackInv'
    BY <1>1, <2>3, ActivateKept, RevokeActivationKept
  <2> QED
    BY <1>7, <2>1, <2>2, <2>3 DEF Call
<1> QED
  BY <1>2, <1>3, <1>4, <1>5, <1>6, <1>7 DEF Next

\* Before the first start nothing is installed and nothing runs.
LEMMA PackInit == Init => PackInv
<1> SUFFICES ASSUME Init PROVE PackInv
  OBVIOUS
<1>1. TypeInv /\ StoreTypes
  BY TypesInit DEF TypeInv
<1>2. /\ \A t \in Txs : journal[t].status = "none"
      /\ \A p \in Packs : owned[p] = << >>
  BY AnyRecordTyped DEF Init
<1>3. \A p \in Packs : ~Installed(p) /\ Len(owned[p]) = 0
  BY <1>1, <1>2, CurrentTyped DEF Installed
<1>4. Listed = {}
  <2>1. \A p \in Packs : ToSet(owned[p]) = {}
    BY <1>2 DEF ToSet
  <2> QED
    BY <2>1 DEF Listed
<1>5. Pending = {}
  BY <1>2 DEF Pending, Settled
<1>6. Stacks
  <2>1. \A p \in Packs : IsInjective(owned[p])
    BY <1>2 DEF IsInjective
  <2>2. \A p \in Packs : \A i \in 1 .. Len(owned[p]) : StackAt(p, i)
    BY <1>3
  <2> QED
    BY <1>3, <2>1, <2>2 DEF Stacks
<1>7. DecisionsKept /\ OnePending
  BY <1>2, <1>5 DEF DecisionsKept, OnePending, Decided
<1>8. \A r \in Resources : Whole(r)
  BY <1>3 DEF Whole, Init
<1>9. Stored
  BY <1>5, <1>6, <1>7, <1>8 DEF Stored
<1>10. JobInv /\ RunsGranted
  BY DEF Init, JobInv, RunsGranted
<1> QED
  BY <1>1, <1>9, <1>10 DEF PackInv

\* The invariant of capability packs: as long as no operation has gone ahead
\* over what an error had left open, through every crash, failing write and call
\* of a server that goes on after errors.
THEOREM PackCorrect == Spec => [](overlaid \/ PackInv)
<1>1. (overlaid \/ PackInv) /\ TypeOK /\ [Next]_vars => (overlaid \/ PackInv)'
  <2> SUFFICES ASSUME overlaid \/ PackInv, TypeOK, [Next]_vars, ~overlaid' PROVE PackInv'
    OBVIOUS
  <2>1. ~overlaid
    BY HistoryTyped DEF TypeOK
  <2> QED
    BY <2>1, PackKept
<1> QED
  BY <1>1, PackInit, TypeCorrect, PTL DEF Spec

\* A version that is installed is what its pack's resources say.
LEMMA CurrentWanted ==
    ASSUME StoreTypes, Stored, NEW p \in Packs, Installed(p), NEW r \in ResourcesOf[p]
    PROVE  /\ Wanted(r) = Content[p][journal[Current(p)].ver][r]
           /\ Quiet(p) => files[r] = Wanted(r)
<1>1. \A q \in Packs : Installed(q) /\ r \in ResourcesOf[q] => q = p
  BY CurrentAt DEF OwnedByOther, Stored
<1>2. (CHOOSE q \in Packs : Installed(q) /\ r \in ResourcesOf[q]) = p
  BY <1>1
<1>3. Wanted(r) = Content[p][journal[Current(p)].ver][r]
  BY <1>2 DEF Wanted
<1> QED
  BY <1>3, QuietContent

\* "Declarative resources commit as one logical transaction": whatever failed
\* or crashed, and whatever the server did after it, once no transaction is open
\* every resource is what the version that is installed says, or what the user
\* had there before.
THEOREM InstalledIsWholeCorrect == Spec => []InstalledIsWhole
<1>1. (overlaid \/ PackInv) => InstalledIsWhole
  <2> SUFFICES ASSUME PackInv, Open = {} PROVE files = [r \in Resources |-> Wanted(r)]
    BY DEF InstalledIsWhole
  <2>1. StoreTypes /\ Stored /\ Pending = {}
    BY OpenPending DEF PackInv, TypeInv
  <2>2. ASSUME NEW r \in Resources PROVE files[r] = Wanted(r)
    <3>1. CASE \E p \in Packs : Installed(p) /\ r \in ResourcesOf[p]
      BY <2>1, <3>1, CurrentWanted DEF Quiet
    <3>2. CASE \A p \in Packs : Installed(p) => r \notin ResourcesOf[p]
      <4>1. Wanted(r) = Before[r]
        BY <3>2 DEF Wanted
      <4> QED
        BY <2>1, <3>2, <4>1 DEF Stored, Whole
    <3> QED
      BY <3>1, <3>2
  <2> QED
    BY <2>1, <2>2 DEF StoreTypes
<1> QED
  BY <1>1, PackCorrect, PTL

\* What runs was approved for the version that is installed, in a workspace
\* whose grant still stands, and is what that version declares; only a pack that
\* a failed revocation left live, or that was activated in the middle of its own
\* change, runs without.
THEOREM LiveIsGrantedCorrect == Spec => []LiveIsGranted
<1>1. (overlaid \/ PackInv) => LiveIsGranted
  <2> SUFFICES ASSUME PackInv, proc = "idle", NEW r \in Resources, live[r] # NoContent,
                      ~\E p \in loose : r \in Executables(p)
               PROVE  \E p \in GrantedPacks(grants) : r \in Executables(p) /\ live[r] = Wanted(r)
    BY DEF LiveIsGranted
  <2>1. StoreTypes /\ Stored /\ RunsGranted
    BY DEF PackInv, TypeInv
  <2>2. PICK p \in GrantedPacks(grants) :
          r \in Executables(p) /\ live[r] = Content[p][journal[Current(p)].ver][r]
    BY <2>1 DEF RunsGranted, Granted
  <2>3. p \in Packs /\ Installed(p) /\ r \in ResourcesOf[p]
    BY <2>2 DEF GrantedPacks, Executables
  <2>4. Wanted(r) = Content[p][journal[Current(p)].ver][r]
    BY <2>1, <2>3, CurrentWanted
  <2> QED
    BY <2>2, <2>4
<1> QED
  BY <1>1, PackCorrect, PTL
------------------------------------------------------------------------------
(* The history of a pack.                                                   *)

\* The commit of p that is decided and not listed yet, if there is one.
DecidedOf(p) == {t \in Txs : /\ journal[t].pack = p /\ journal[t].managed
                             /\ journal[t].status \in Decided /\ t \notin Listed}

\* The versions of p that are listed and stand.
Base(p) == [n \in 1 .. Depth(p) |-> journal[owned[p][n]].ver]

\* A set with one element, or none, as a sequence.
LEMMA SmallSets ==
    ASSUME NEW t
    PROVE  /\ SetToSeq({}) = << >>
           /\ SetToSeq({t}) \in Seq({t}) /\ Len(SetToSeq({t})) = 1 /\ SetToSeq({t})[1] = t
<1>1. SetToSeq({}) = << >>
  <2>1. PICK f \in [1 .. 0 -> {}] : IsInjective(f) /\ f = SetToSeq({})
    <3>1. [x \in 1 .. 0 |-> x] \in [1 .. 0 -> {}] /\ IsInjective([x \in 1 .. 0 |-> x])
      BY DEF IsInjective
    <3>2. \E f \in [1 .. 0 -> {}] : IsInjective(f)
      BY <3>1
    <3> QED
      BY <3>2, FS_EmptySet DEF SetToSeq
  <2>2. f \in Seq({})
    <3>1. 0 \in Nat
      OBVIOUS
    <3> QED
      BY <2>1, <3>1, SeqDef
  <2>3. Len(f) = 0
    BY <2>1, <2>2, LenProperties
  <2> QED
    BY <2>1, <2>2, <2>3, EmptySeq
<1>2. PICK f \in [1 .. 1 -> {t}] : f = SetToSeq({t})
  <2>1. Cardinality({t}) = 1
    BY FS_Singleton
  <2>2. [x \in 1 .. 1 |-> t] \in [1 .. 1 -> {t}] /\ IsInjective([x \in 1 .. 1 |-> t])
    BY DEF IsInjective
  <2>3. \E f \in [1 .. 1 -> {t}] : IsInjective(f)
    BY <2>2
  <2> QED
    BY <2>1, <2>3 DEF SetToSeq
<1>3. f \in Seq({t})
  <2>1. 1 \in Nat
    OBVIOUS
  <2> QED
    BY <1>2, <2>1, SeqDef
<1>4. Len(f) = 1 /\ f[1] = t
  <2>1. Len(f) \in Nat /\ DOMAIN f = 1 .. Len(f) /\ DOMAIN f = 1 .. 1
    BY <1>2, <1>3, LenProperties
  <2>2. PICK m \in Nat : m = Len(f) /\ 1 .. m = 1 .. 1
    BY <2>1
  <2>3. m = 1
    <3>1. 1 \in 1 .. m /\ (m # 0 => m \in 1 .. 1)
      BY <2>2
    <3> QED
      BY <3>1
  <2>4. 1 \in 1 .. 1
    OBVIOUS
  <2> QED
    BY <1>2, <2>2, <2>3, <2>4
<1> QED
  BY <1>1, <1>2, <1>3, <1>4

\* What is left of a sequence when the elements that go are its last.
LEMMA PrefixLeft ==
    ASSUME NEW s, NEW T, NEW d \in Nat, {i \in DOMAIN s : s[i] \notin T} = 1 .. d
    PROVE  Without(s, T) = [i \in 1 .. d |-> s[i]]
<1> DEFINE UpTo(i) == {j \in 1 .. d : j <= i}
<1>1. Cardinality(1 .. d) = d
  BY FS_Interval
<1>2. ASSUME NEW k \in 1 .. d PROVE Cardinality(UpTo(k)) = k
  <2>1. UpTo(k) = 1 .. k
    OBVIOUS
  <2>2. Cardinality(1 .. k) = k
    BY FS_Interval
  <2> QED
    BY <2>1, <2>2
<1>3. ASSUME NEW k \in 1 .. d PROVE (CHOOSE i \in 1 .. d : Cardinality(UpTo(i)) = k) = k
  <2> HIDE DEF UpTo
  <2> QED
    BY <1>2
<1>4. Without(s, T) = [k \in 1 .. d |-> s[CHOOSE i \in 1 .. d : Cardinality(UpTo(i)) = k]]
  <2> DEFINE Left(S) == [k \in 1 .. Cardinality(S) |->
                           s[CHOOSE i \in S : Cardinality({j \in S : j <= i}) = k]]
  <2>1. Without(s, T) = Left({i \in DOMAIN s : s[i] \notin T})
    BY DEF Without
  <2>2. Left(1 .. d) = [k \in 1 .. d |-> s[CHOOSE i \in 1 .. d : Cardinality(UpTo(i)) = k]]
    BY <1>1
  <2> HIDE DEF Left
  <2> QED
    BY <2>1, <2>2
<1> HIDE DEF UpTo
<1> QED
  BY <1>3, <1>4

\* A version that is taken back is the current one.
LEMMA WithoutUndone ==
    ASSUME StoreTypes, Stacks, NEW p \in Packs
    PROVE  Without(owned[p], Undone) = [i \in 1 .. Depth(p) |-> owned[p][i]]
<1>1. PICK s \in Seq(Txs) : s = owned[p]
  BY CurrentTyped
<1>2. PICK n \in Nat : n = Len(s)
  BY <1>1, CurrentTyped
<1>3. DOMAIN s = 1 .. n
  BY <1>1, <1>2, CurrentTyped
<1>4. \A i \in 1 .. n : s[i] \in Undone => i = n /\ i # 0
  <2>1. ASSUME NEW i \in 1 .. n, s[i] \in Undone PROVE i = n /\ i # 0
    <3>1. StackAt(p, i) /\ journal[s[i]].status \in UndoneStatuses
      BY <1>1, <1>2, <2>1, StackFacts DEF Undone, UndoneStatuses
    <3> QED
      BY <1>1, <1>2, <3>1 DEF StackAt, UndoneStatuses
  <2> QED
    BY <2>1
<1>5. PICK d \in Nat : d = Depth(p) /\ {i \in DOMAIN s : s[i] \notin Undone} = 1 .. d
  <2>1. CASE \E i \in 1 .. n : s[i] \in Undone
    <3>1. n # 0 /\ n \in 1 .. n /\ s[n] \in Undone
      BY <1>4, <2>1
    <3>2. Depth(p) = n - 1 /\ n - 1 \in Nat
      BY <1>1, <1>2, <3>1, CurrentTyped DEF Depth
    <3>3. \A i : i \in 1 .. n - 1 <=> i \in 1 .. n /\ i # n
      BY <3>1
    <3> QED
      BY <1>3, <1>4, <3>1, <3>2, <3>3
  <2>2. CASE \A i \in 1 .. n : s[i] \notin Undone
    <3>1. Depth(p) = n
      BY <1>1, <1>2, <2>2, CurrentTyped DEF Depth
    <3> QED
      BY <1>3, <2>2, <3>1
  <2> QED
    BY <2>1, <2>2
<1> QED
  BY <1>1, <1>5, PrefixLeft

\* What stands is listed, or is a decided commit on top of what is listed.
LEMMA StandingIs ==
    ASSUME StoreTypes, Stacks, NEW p \in Packs
    PROVE  /\ Base(p) \in Seq(Versions) /\ Len(Base(p)) = Depth(p) /\ Depth(p) \in Nat
           /\ \A i \in 1 .. Depth(p) : Base(p)[i] = journal[owned[p][i]].ver
           /\ DecidedOf(p) = {} => Standing(p) = Base(p)
           /\ \A t \in Txs : DecidedOf(p) = {t} => Standing(p) = Append(Base(p), journal[t].ver)
<1>1. PICK s \in Seq(Txs) : s = owned[p]
  BY CurrentTyped
<1>2. PICK d \in Nat : d = Depth(p) /\ \A i \in 1 .. d : i \in 1 .. Len(s)
  BY <1>1, DepthTyped, CurrentTyped
<1>3. PICK kept : kept = [i \in 1 .. d |-> s[i]]
  OBVIOUS
<1>4. /\ kept \in Seq(Txs) /\ Len(kept) = d /\ \A i \in 1 .. d : kept[i] = s[i]
  <2>1. \A i \in 1 .. d : s[i] \in Txs
    BY <1>2, ElementOfSeq
  <2>2. kept \in [1 .. d -> Txs] /\ \A i \in 1 .. d : kept[i] = s[i]
    BY <1>3, <2>1
  <2>3. kept \in Seq(Txs)
    BY <2>2, SeqDef
  <2>4. PICK m \in Nat : m = Len(kept) /\ 1 .. m = 1 .. d
    BY <2>2, <2>3, LenProperties
  <2>5. m = d
    <3>1. (m = 0 \/ m \in 1 .. m) /\ (d = 0 \/ d \in 1 .. d)
      OBVIOUS
    <3> QED
      BY <2>4, <3>1
  <2> QED
    BY <2>2, <2>3, <2>4, <2>5
<1>5. \A i \in 1 .. d : journal[s[i]].ver \in Versions
  BY <1>2, ElementOfSeq, RecordFields DEF StoreTypes
<1>6. Base(p) \in [1 .. d -> Versions] /\ \A i \in 1 .. d : Base(p)[i] = journal[s[i]].ver
  BY <1>1, <1>2, <1>5 DEF Base
<1>7. Base(p) \in Seq(Versions) /\ Len(Base(p)) = d
  <2>1. Base(p) \in Seq(Versions)
    BY <1>6, SeqDef
  <2>2. PICK m \in Nat : m = Len(Base(p)) /\ 1 .. m = 1 .. d
    BY <1>6, <2>1, LenProperties
  <2>3. m = d
    <3>1. m = 0 \/ m \in 1 .. m
      OBVIOUS
    <3>2. d = 0 \/ d \in 1 .. d
      OBVIOUS
    <3> QED
      BY <2>2, <3>1, <3>2
  <2> QED
    BY <2>1, <2>2, <2>3
<1>8. ASSUME NEW all, Without(owned[p], Undone) \o SetToSeq(DecidedOf(p)) = all
      PROVE  Standing(p) = [n \in DOMAIN all |-> journal[all[n]].ver]
  BY <1>8 DEF Standing, DecidedOf
<1>9. Without(owned[p], Undone) = kept
  BY <1>1, <1>2, <1>3, WithoutUndone
<1>10. ASSUME DecidedOf(p) = {} PROVE Standing(p) = Base(p)
  <2>1. kept \o << >> = kept
    BY <1>4, ConcatEmptySeq
  <2>2. Without(owned[p], Undone) \o SetToSeq(DecidedOf(p)) = kept
    BY <1>9, <1>10, <2>1, SmallSets
  <2>3. Standing(p) = [n \in DOMAIN kept |-> journal[kept[n]].ver]
    BY <1>8, <2>2
  <2>4. DOMAIN kept = 1 .. d
    BY <1>4, LenProperties
  <2> QED
    BY <1>4, <1>6, <2>3, <2>4
<1>11. ASSUME NEW t \in Txs, DecidedOf(p) = {t} PROVE Standing(p) = Append(Base(p), journal[t].ver)
  <2>1. PICK one \in Seq(Txs) : one = SetToSeq({t}) /\ Len(one) = 1 /\ one[1] = t
    <3>1. PICK one : one = SetToSeq({t}) /\ one \in Seq({t}) /\ Len(one) = 1 /\ one[1] = t
      BY SmallSets
    <3>2. {t} \in SUBSET Txs
      OBVIOUS
    <3>3. Seq({t}) \subseteq Seq(Txs)
      BY <3>2, SeqMonotonic
    <3> QED
      BY <3>1, <3>3
  <2>2. PICK all \in Seq(Txs) : all = kept \o one
    BY <1>4, ConcatProperties
  <2>3. /\ Len(all) = d + 1
        /\ \A i \in 1 .. d + 1 : all[i] = IF i <= d THEN kept[i] ELSE one[i - d]
    <3>1. /\ Len(kept \o one) = Len(kept) + Len(one)
          /\ \A i \in 1 .. Len(kept) + Len(one) :
               (kept \o one)[i] = IF i <= Len(kept) THEN kept[i] ELSE one[i - Len(kept)]
      BY <1>4, ConcatProperties
    <3> QED
      BY <1>4, <2>1, <2>2, <3>1
  <2>4. /\ d + 1 \in 1 .. d + 1 /\ ~(d + 1 <= d) /\ d + 1 - d = 1
        /\ \A i \in 1 .. d : i \in 1 .. d + 1 /\ i <= d
        /\ \A i \in 1 .. d + 1 : i \in 1 .. d \/ i = d + 1
    OBVIOUS
  <2>5. all[d + 1] = t /\ \A i \in 1 .. d : all[i] = s[i]
    <3>1. all[d + 1] = one[d + 1 - d]
      BY <2>3, <2>4
    <3>2. \A i \in 1 .. d : all[i] = kept[i]
      BY <2>3, <2>4
    <3> QED
      BY <1>4, <2>1, <2>4, <3>1, <3>2
  <2>6. Standing(p) = [n \in 1 .. d + 1 |-> journal[all[n]].ver]
    <3>1. DOMAIN all = 1 .. d + 1
      BY <2>2, <2>3, LenProperties
    <3> QED
      BY <1>8, <1>9, <1>11, <2>1, <2>2, <3>1
  <2>7. journal[t].ver \in Versions
    BY RecordFields DEF StoreTypes
  <2>8. /\ Append(Base(p), journal[t].ver) \in Seq(Versions)
        /\ Len(Append(Base(p), journal[t].ver)) = d + 1
        /\ Append(Base(p), journal[t].ver)[d + 1] = journal[t].ver
        /\ \A i \in 1 .. d : Append(Base(p), journal[t].ver)[i] = Base(p)[i]
    <3>1. PICK b \in Seq(Versions) : b = Base(p) /\ Len(b) = d
      BY <1>7
    <3>2. PICK v \in Versions : v = journal[t].ver
      BY <2>7
    <3>3. /\ Append(b, v) \in Seq(Versions) /\ Len(Append(b, v)) = d + 1
          /\ Append(b, v)[d + 1] = v /\ \A i \in 1 .. d : Append(b, v)[i] = b[i]
      BY <3>1
    <3> QED
      BY <3>1, <3>2, <3>3
  <2>9. PICK b \in [1 .. d + 1 -> Versions] : b = Append(Base(p), journal[t].ver)
    BY <2>8, LenProperties
  <2>10. \A i \in 1 .. d + 1 : b[i] = journal[all[i]].ver
    BY <1>6, <2>4, <2>5, <2>8, <2>9
  <2> QED
    BY <2>6, <2>9, <2>10
<1> QED
  BY <1>1, <1>2, <1>6, <1>7, <1>10, <1>11

\* The same after a step.
LEMMA StandingAfter ==
    (\A p \in Packs : StoreTypes /\ Stacks
       => /\ Base(p) \in Seq(Versions) /\ Len(Base(p)) = Depth(p) /\ Depth(p) \in Nat
          /\ \A i \in 1 .. Depth(p) : Base(p)[i] = journal[owned[p][i]].ver
          /\ DecidedOf(p) = {} => Standing(p) = Base(p)
          /\ \A t \in Txs : DecidedOf(p) = {t} => Standing(p) = Append(Base(p), journal[t].ver))'
<1>1. \A p \in Packs : StoreTypes /\ Stacks
       => /\ Base(p) \in Seq(Versions) /\ Len(Base(p)) = Depth(p) /\ Depth(p) \in Nat
          /\ \A i \in 1 .. Depth(p) : Base(p)[i] = journal[owned[p][i]].ver
          /\ DecidedOf(p) = {} => Standing(p) = Base(p)
          /\ \A t \in Txs : DecidedOf(p) = {t} => Standing(p) = Append(Base(p), journal[t].ver)
  BY StandingIs
<1> QED
  BY <1>1, PTL

\* A commit that is decided and not listed is the transaction under way.
LEMMA DecidedPending ==
    ASSUME Stored, NEW p \in Packs
    PROVE  /\ \A t \in DecidedOf(p) : /\ t \in Txs /\ Pending = {t} /\ DecidedOf(p) = {t}
                                      /\ journal[t].status = "commit_decided" /\ journal[t].pack = p
           /\ \A t \in Pending : journal[t].status \notin Decided \/ t \in Listed \/ journal[t].pack # p
                => DecidedOf(p) = {}
           /\ Pending = {} => DecidedOf(p) = {}
<1>1. ASSUME NEW t \in DecidedOf(p)
      PROVE  /\ t \in Txs /\ Pending = {t} /\ journal[t].status = "commit_decided"
             /\ journal[t].pack = p /\ t \notin Listed
  <2>1. /\ t \in Txs /\ journal[t].status = "commit_decided" /\ journal[t].pack = p /\ t \notin Listed
    BY DEF DecidedOf, Decided, Stored, DecisionsKept
  <2>2. t \in Pending /\ Pending = {t}
    BY <2>1 DEF Pending, Settled, Stored, OnePending
  <2> QED
    BY <2>1, <2>2
<1>2. ASSUME NEW t \in DecidedOf(p) PROVE DecidedOf(p) = {t}
  <2>1. \A u \in DecidedOf(p) : u = t
    BY <1>1
  <2> QED
    BY <2>1
<1> QED
  BY <1>1, <1>2 DEF Decided

\* A step that keeps what stands and what is decided keeps the history.
LEMMA StandingKept ==
    ASSUME StoreTypes, StoreTypes', Stored, Stacks', NEW p \in Packs, Base(p)' = Base(p),
           DecidedOf(p)' = DecidedOf(p), \A t \in DecidedOf(p) : journal'[t].ver = journal[t].ver
    PROVE  Standing(p)' = Standing(p)
<1>0. Stacks
  BY DEF Stored
<1>1. CASE DecidedOf(p) = {}
  BY <1>0, <1>1, StandingIs, StandingAfter
<1>2. CASE DecidedOf(p) # {}
  <2>1. PICK t \in DecidedOf(p) : t \in Txs /\ DecidedOf(p) = {t}
    BY <1>2, DecidedPending
  <2> QED
    BY <1>0, <2>1, StandingIs, StandingAfter
<1> QED
  BY <1>1, <1>2

\* A write to the journal that does not take a version back, nor up again.
LEMMA BaseKept ==
    ASSUME StoreTypes, StoreTypes', Stacks, NEW t \in Txs, NEW rec \in Record,
           journal' = Saved(t, rec), UNCHANGED owned, NEW p \in Packs,
           t \in Listed => /\ journal[t].ver = rec.ver
                           /\ journal[t].pack = p => (journal[t].status \in UndoneStatuses
                                                      <=> rec.status \in UndoneStatuses)
    PROVE  /\ Base(p)' = Base(p) /\ Listed' = Listed /\ journal'[t] = rec
           /\ \A u \in Txs : u # t => journal'[u] = journal[u]
<1>1. /\ journal'[t] = rec /\ \A u \in Txs : u # t => journal'[u] = journal[u]
      /\ Listed' = Listed
  BY SavedTyped DEF StoreTypes, Listed
<1>2. Installed(p) => (Current(p) \in Undone <=> Current(p) \in Undone')
  <2>1. ASSUME Installed(p) PROVE Current(p) \in Undone <=> Current(p) \in Undone'
    <3>1. Current(p) \in Listed /\ Current(p) \in Txs /\ journal[Current(p)].pack = p
      BY <2>1, CurrentAt
    <3> QED
      BY <1>1, <3>1 DEF Undone, UndoneStatuses
  <2> QED
    BY <2>1
<1>3. Depth(p)' = Depth(p)
  BY <1>2 DEF Depth, Installed, Current
<1>4. \A i \in 1 .. Depth(p) : journal'[owned[p][i]].ver = journal[owned[p][i]].ver
  <2>1. \A i \in 1 .. Depth(p) : owned[p][i] \in Listed /\ owned[p][i] \in Txs
    <3>1. \A i \in 1 .. Depth(p) : i \in 1 .. Len(owned[p])
      BY DepthTyped, CurrentTyped
    <3> QED
      BY <3>1, StackFacts
  <2> QED
    BY <1>1, <2>1
<1>5. Base(p)' = Base(p)
  BY <1>3, <1>4 DEF Base
<1> QED
  BY <1>1, <1>5

\* A write to the journal that decides nothing.
LEMMA QuietWrite ==
    ASSUME StoreTypes, StoreTypes', Stored, Stacks', NEW t \in Txs, NEW rec \in Record,
           journal' = Saved(t, rec), UNCHANGED owned, NEW p \in Packs,
           t \in Listed => /\ journal[t].ver = rec.ver
                           /\ journal[t].pack = p => (journal[t].status \in UndoneStatuses
                                                      <=> rec.status \in UndoneStatuses),
           t \notin Listed => /\ journal[t].status \notin Decided \/ journal[t].pack # p
                              /\ rec.status \notin Decided \/ rec.pack # p
    PROVE  Standing(p)' = Standing(p)
<1>1. /\ Base(p)' = Base(p) /\ Listed' = Listed /\ journal'[t] = rec
      /\ \A u \in Txs : u # t => journal'[u] = journal[u]
  BY BaseKept DEF Stored
<1>2. DecidedOf(p)' = DecidedOf(p) /\ \A u \in DecidedOf(p) : journal'[u].ver = journal[u].ver
  <2>1. t \notin DecidedOf(p) /\ t \notin DecidedOf(p)'
    BY <1>1 DEF DecidedOf
  <2>2. \A u : u # t => (u \in DecidedOf(p)' <=> u \in DecidedOf(p))
    BY <1>1 DEF DecidedOf
  <2>3. \A u \in DecidedOf(p) : u \in Txs
    BY DEF DecidedOf
  <2> QED
    BY <1>1, <2>1, <2>2, <2>3
<1> QED
  BY <1>1, <1>2, StandingKept

\* A sequence with a version on top, and without it.
LEMMA AppendFront ==
    ASSUME NEW s \in Seq(Versions), NEW v \in Versions
    PROVE  /\ Append(s, v) # << >> /\ Front(Append(s, v)) = s
<1>1. PICK n \in Nat : n = Len(s)
  OBVIOUS
<1>2. PICK a : a = Append(s, v)
  OBVIOUS
<1>3. /\ a \in Seq(Versions) /\ Len(a) = n + 1 /\ \A i \in 1 .. n : a[i] = s[i]
  BY <1>1, <1>2
<1>4. a # << >>
  BY <1>3, EmptySeq
<1>5. PICK f : f = Front(a)
  OBVIOUS
<1>6. /\ f \in Seq(Versions) /\ Len(f) = n /\ \A i \in 1 .. n : f[i] = a[i]
  <2>1. f = SubSeq(a, 1, n)
    <3>1. n + 1 - 1 = n
      OBVIOUS
    <3> QED
      BY <1>3, <1>5, <3>1 DEF Front
  <2>2. \A i \in 1 .. n : a[i] \in Versions
    <3>1. \A i \in 1 .. n : i \in 1 .. Len(a)
      BY <1>3
    <3> QED
      BY <1>3, <3>1, ElementOfSeq
  <2>3. 1 \in Int /\ n \in Int /\ n - 1 + 1 = n /\ \A i \in 1 .. n : 1 + i - 1 = i
    OBVIOUS
  <2>4. /\ f \in Seq(Versions) /\ Len(f) = IF 1 <= n THEN n - 1 + 1 ELSE 0
        /\ \A i \in 1 .. n - 1 + 1 : f[i] = a[1 + i - 1]
    BY <2>1, <2>2, <2>3, SubSeqProperties
  <2>5. Len(f) = n
    BY <2>3, <2>4
  <2> QED
    BY <2>3, <2>4, <2>5
<1>7. f = s
  BY <1>1, <1>3, <1>6, SeqEqual
<1> QED
  BY <1>2, <1>4, <1>5, <1>7

\* A pack has a newer version, or one less.
Moved == \E p \in Packs : Versioned!Rollback(p) \/ \E v \in Versions : Versioned!Install(p, v)

\* A commit is decided: a newer version is on top.
LEMMA DecideWrite ==
    ASSUME StoreTypes, StoreTypes', Stored, Stacks', NEW t \in Txs, NEW rec \in Record,
           t \notin Listed, Pending = {t}, journal' = Saved(t, rec), UNCHANGED owned,
           journal[t].status \notin Decided, rec.status = "commit_decided", rec.managed,
           MayOwn(rec.pack, rec.ver)
    PROVE  Moved
<1>0. PICK p \in Packs, v \in Versions : p = rec.pack /\ v = rec.ver
  BY RecordFields
<1>1. Stacks /\ ~OwnedByOther(p) /\ (Installed(p) => v > journal[Current(p)].ver)
  BY <1>0 DEF Stored, MayOwn
<1>2. /\ Base(p)' = Base(p) /\ Listed' = Listed /\ journal'[t] = rec
      /\ \A u \in Txs : u # t => journal'[u] = journal[u]
  BY <1>1, BaseKept
<1>3. \A q \in Packs : DecidedOf(q) = {}
  BY DecidedPending
<1>4. DecidedOf(p)' = {t}
  <2>1. t \in DecidedOf(p)'
    BY <1>0, <1>2 DEF DecidedOf, Decided
  <2>2. \A u \in DecidedOf(p)' : u = t
    BY <1>2, <1>3 DEF DecidedOf
  <2> QED
    BY <2>1, <2>2
<1>5. Standing(p) = Base(p) /\ Standing(p)' = Append(Standing(p), v)
  <2>1. Standing(p) = Base(p)
    BY <1>1, <1>3, StandingIs
  <2>2. Standing(p)' = Append(Base(p)', journal'[t].ver)
    BY <1>4, StandingAfter
  <2> QED
    BY <1>0, <1>2, <2>1, <2>2
<1>6. ASSUME NEW q \in Packs, q # p PROVE Standing(q)' = Standing(q)
  BY <1>0, <1>6, QuietWrite
<1>7. ASSUME NEW q \in Packs, ~Installed(q) PROVE Standing(q) = << >>
  <2>1. Standing(q) = Base(q) /\ Base(q) \in Seq(Versions) /\ Len(Base(q)) = 0
    BY <1>1, <1>3, <1>7, StandingIs, DepthTyped
  <2> QED
    BY <2>1, EmptySeq
<1>8. \A q \in Packs \ {p} : Standing(q) = << >> \/ ResourcesOf[p] \cap ResourcesOf[q] = {}
  BY <1>1, <1>7 DEF OwnedByOther
<1>9. Standing(p) = << >> \/ v > Last(Standing(p))
  <2>1. CASE Installed(p)
    <3>1. Current(p) \in Listed /\ Current(p) = owned[p][Len(owned[p])] /\ Len(owned[p]) \in 1 .. Len(owned[p])
      BY <1>1, <2>1, CurrentAt, CurrentTyped
    <3>2. journal[Current(p)].status \notin UndoneStatuses
      <4>1. journal[Current(p)].status = "committed"
        BY <3>1, ListedPending
      <4> QED
        BY <4>1 DEF UndoneStatuses
    <3>3. Depth(p) = Len(owned[p])
      BY <2>1, <3>2, CommittedDepth
    <3>4. Last(Base(p)) = journal[Current(p)].ver
      BY <1>1, <3>1, <3>3, StandingIs DEF Last
    <3> QED
      BY <1>1, <1>5, <2>1, <3>4
  <2> QED
    BY <1>7, <2>1
<1>10. [q \in Packs |-> Standing(q)]'
         = [[q \in Packs |-> Standing(q)] EXCEPT ![p] = Append(@, v)]
  BY <1>5, <1>6
<1>11. \A q \in Packs : [x \in Packs |-> Standing(x)][q] = Standing(q)
  OBVIOUS
<1>12. Versioned!Free(p)
  BY <1>8, <1>11 DEF Versioned!Free
<1>13. Versioned!NewerThan(v, [q \in Packs |-> Standing(q)][p])
  BY <1>9, <1>11 DEF Versioned!NewerThan, Versioned!Last, Last
<1>14. Versioned!Install(p, v)
  BY <1>10, <1>12, <1>13 DEF Versioned!Install
<1> QED
  BY <1>14 DEF Moved

\* The newest version is gone.
LEMMA RollbackNext ==
    ASSUME NEW p \in Packs, NEW v \in Versions, Standing(p)' \in Seq(Versions),
           Standing(p) = Append(Standing(p)', v),
           \A q \in Packs : q # p => Standing(q)' = Standing(q)
    PROVE  Moved
<1>1. Standing(p) # << >> /\ Front(Standing(p)) = Standing(p)'
  <2>1. PICK s \in Seq(Versions) : s = Standing(p)'
    OBVIOUS
  <2> QED
    BY <2>1, AppendFront
<1>2. [q \in Packs |-> Standing(q)]'
         = [[q \in Packs |-> Standing(q)] EXCEPT ![p] = Front(@)]
  BY <1>1
<1>3. [q \in Packs |-> Standing(q)][p] # << >>
  BY <1>1
<1>4. Versioned!Rollback(p)
  BY <1>2, <1>3 DEF Versioned!Rollback, Versioned!Front, Front
<1> QED
  BY <1>4 DEF Moved

\* A decision that was not carried out is taken back.
LEMMA UndecideWrite ==
    ASSUME StoreTypes, StoreTypes', Stored, Stacks', NEW t \in Txs, NEW rec \in Record,
           t \notin Listed, Pending = {t}, journal' = Saved(t, rec), UNCHANGED owned,
           journal[t].status = "commit_decided", rec.pack = journal[t].pack, rec.status \notin Decided
    PROVE  Moved
<1>0. PICK p \in Packs, v \in Versions : p = journal[t].pack /\ v = journal[t].ver
  BY RecordFields DEF StoreTypes
<1>1. Stacks
  BY DEF Stored
<1>2. /\ Base(p)' = Base(p) /\ Listed' = Listed /\ journal'[t] = rec
      /\ \A u \in Txs : u # t => journal'[u] = journal[u]
  BY <1>1, BaseKept
<1>3. DecidedOf(p) = {t}
  <2>1. t \in DecidedOf(p)
    BY <1>0 DEF DecidedOf, Decided, Stored, DecisionsKept
  <2> QED
    BY <2>1, DecidedPending
<1>4. DecidedOf(p)' = {}
  <2>1. ASSUME NEW u \in DecidedOf(p)' PROVE FALSE
    <3>1. u \in Txs /\ (u # t => u \in DecidedOf(p))
      BY <1>2 DEF DecidedOf
    <3>2. u # t
      BY <1>2 DEF DecidedOf
    <3> QED
      BY <1>3, <3>1, <3>2
  <2> QED
    BY <2>1
<1>5. Standing(p) = Append(Standing(p)', v) /\ Standing(p)' \in Seq(Versions)
  <2>1. Standing(p) = Append(Base(p), v)
    BY <1>0, <1>1, <1>3, StandingIs
  <2>2. Standing(p)' = Base(p)' /\ Base(p)' \in Seq(Versions)
    BY <1>4, StandingAfter
  <2> QED
    BY <1>2, <2>1, <2>2
<1>6. ASSUME NEW q \in Packs, q # p PROVE Standing(q)' = Standing(q)
  BY <1>0, <1>6, QuietWrite
<1> QED
  BY <1>5, <1>6, RollbackNext

\* Two stacks, the one with a version more than the other.
LEMMA OneMore ==
    ASSUME NEW s \in Seq(Versions), NEW u \in Seq(Versions), NEW v \in Versions,
           NEW n \in Nat, Len(s) = n, Len(u) = n + 1, u[n + 1] = v, \A i \in 1 .. n : u[i] = s[i]
    PROVE  u = Append(s, v)
<1>1. PICK a : a = Append(s, v)
  OBVIOUS
<1>2. /\ a \in Seq(Versions) /\ Len(a) = n + 1 /\ a[n + 1] = v /\ \A i \in 1 .. n : a[i] = s[i]
  BY <1>1
<1>3. \A i \in 1 .. n + 1 : i \in 1 .. n \/ i = n + 1
  OBVIOUS
<1>4. \A i \in 1 .. n + 1 : u[i] = a[i]
  BY <1>2, <1>3
<1> QED
  BY <1>1, <1>2, <1>4, SeqEqual

\* The current version is taken back.
LEMMA TakeBackWrite ==
    ASSUME StoreTypes, StoreTypes', Stored, Stacks', NEW p \in Packs, Installed(p), Pending = {},
           NEW t \in Txs, t = Current(p), NEW rec \in Record, journal' = Saved(t, rec),
           UNCHANGED owned, rec.ver = journal[t].ver, rec.status = "rolling_back"
    PROVE  Moved
<1>0. Stacks /\ t \in Listed /\ journal[t].pack = p
  BY CurrentAt DEF Stored
<1>1. journal[t].status = "committed"
  BY <1>0, ListedPending
<1>2. PICK v \in Versions : v = journal[t].ver
  BY RecordFields DEF StoreTypes
<1>3. /\ journal'[t] = rec /\ \A u \in Txs : u # t => journal'[u] = journal[u]
      /\ Listed' = Listed
  BY SavedTyped DEF StoreTypes, Listed
<1>4. PICK n \in Nat : /\ Len(owned[p]) = n + 1 /\ t = owned[p][n + 1]
                       /\ \A i \in 1 .. n : i \in 1 .. n + 1 /\ i # n + 1 /\ owned[p][i] \in Txs
  <2>1. PICK m \in Nat : /\ m = Len(owned[p]) /\ m # 0 /\ t = owned[p][m]
                         /\ \A i \in 1 .. m : owned[p][i] \in Txs
    BY CurrentTyped
  <2>2. m - 1 \in Nat /\ m - 1 + 1 = m /\ \A i \in 1 .. m - 1 : i \in 1 .. m /\ i # m
    BY <2>1
  <2> QED
    BY <2>1, <2>2
<1>5. \A i \in 1 .. n : journal'[owned[p][i]].ver = journal[owned[p][i]].ver
  BY <1>2, <1>3, <1>4
<1>6. Depth(p) = n + 1 /\ Depth(p)' = n
  <2>1. t \notin Undone /\ t \in Undone'
    BY <1>1, <1>3 DEF Undone
  <2>2. Installed(p)' /\ Current(p)' = t /\ Len(owned'[p]) = n + 1 /\ n + 1 - 1 = n
    BY <1>4 DEF Installed, Current
  <2> QED
    BY <1>4, <2>1, <2>2 DEF Depth
<1>7. \A q \in Packs : DecidedOf(q) = {}
  BY DecidedPending
<1>8. DecidedOf(p)' = {}
  BY <1>0, <1>3, <1>7 DEF DecidedOf
<1>9. PICK s \in Seq(Versions) : /\ s = Base(p)' /\ s = Standing(p)' /\ Len(s) = n
                                 /\ \A i \in 1 .. n : s[i] = journal'[owned'[p][i]].ver
  BY <1>6, <1>8, StandingAfter
<1>10. PICK u \in Seq(Versions) : /\ u = Standing(p) /\ Len(u) = n + 1
                                  /\ \A i \in 1 .. n + 1 : u[i] = journal[owned[p][i]].ver
  BY <1>0, <1>6, <1>7, StandingIs
<1>11. u = Append(s, v)
  <2>1. n + 1 \in 1 .. n + 1
    OBVIOUS
  <2>2. u[n + 1] = v
    BY <1>2, <1>4, <1>10, <2>1
  <2>3. \A i \in 1 .. n : u[i] = s[i]
    BY <1>4, <1>5, <1>9, <1>10
  <2> QED
    BY <1>9, <1>10, <2>2, <2>3, OneMore
<1>12. ASSUME NEW q \in Packs, q # p PROVE Standing(q)' = Standing(q)
  BY <1>0, <1>12, QuietWrite
<1> QED
  BY <1>9, <1>10, <1>11, <1>12, RollbackNext

\* A commit that is listed is not decided only, after a step as before it.
LEMMA DecidedPendingAfter ==
    (\A p \in Packs : Stored
       => /\ \A t \in Pending : t \in Listed => DecidedOf(p) = {}
          /\ Pending = {} => DecidedOf(p) = {})'
<1>1. \A p \in Packs : Stored
       => /\ \A t \in Pending : t \in Listed => DecidedOf(p) = {}
          /\ Pending = {} => DecidedOf(p) = {}
  BY DecidedPending
<1> QED
  BY <1>1, PTL

\* The stack of a pack that a step leaves alone.
LEMMA BaseStays ==
    ASSUME StoreTypes, NEW p \in Packs, owned'[p] = owned[p], UNCHANGED journal
    PROVE  Base(p)' = Base(p)
<1>1. Undone' = Undone
  BY DEF Undone
<1>2. Depth(p)' = Depth(p)
  BY <1>1 DEF Depth, Installed, Current
<1> QED
  BY <1>2 DEF Base

\* A decided commit is listed: its version stands already.
LEMMA ListWrite ==
    ASSUME StoreTypes, StoreTypes', Stored, NEW t \in Txs, journal[t].status = "commit_decided",
           t \notin Listed, owned' = Listing(t, journal[t]), UNCHANGED <<files, journal>>
    PROVE  \A q \in Packs : Standing(q)' = Standing(q)
<1>0. PICK p \in Packs, v \in Versions : p = journal[t].pack /\ v = journal[t].ver
  BY RecordFields DEF StoreTypes
<1>1. /\ Stored' /\ Stacks /\ Stacks' /\ Pending' = {t} /\ Pending = {t} /\ t \in Listed'
      /\ Installed(p)' /\ Current(p)' = t /\ \A q \in Packs : q # p => owned'[q] = owned[q]
  BY <1>0, ListStep DEF Stored
<1>2. DecidedOf(p) = {t} /\ \A q \in Packs : q # p => DecidedOf(q) = {}
  <2>1. t \in DecidedOf(p)
    BY <1>0 DEF DecidedOf, Decided, Stored, DecisionsKept
  <2> QED
    BY <1>0, <1>1, <2>1, DecidedPending
<1>3. \A q \in Packs : DecidedOf(q)' = {}
  BY <1>1, DecidedPendingAfter
<1>4. ASSUME NEW q \in Packs, q # p PROVE Standing(q)' = Standing(q)
  <2>1. Base(q)' = Base(q)
    BY <1>1, <1>4, BaseStays
  <2> QED
    BY <1>1, <1>2, <1>3, <1>4, <2>1, StandingIs, StandingAfter
<1>5. PICK n \in Nat : /\ n = Len(owned[p]) /\ Len(owned'[p]) = n + 1 /\ owned'[p][n + 1] = t
                       /\ \A i \in 1 .. n : owned'[p][i] = owned[p][i]
  <2>1. PICK s \in Seq(Txs) : s = owned[p]
    BY CurrentTyped
  <2>2. owned'[p] = Append(s, t)
    BY <1>0, <2>1 DEF Listing, StoreTypes
  <2>3. PICK a : a = Append(s, t)
    OBVIOUS
  <2>4. /\ Len(s) \in Nat /\ Len(a) = Len(s) + 1 /\ a[Len(s) + 1] = t
        /\ \A i \in 1 .. Len(s) : a[i] = s[i]
    BY <2>1, <2>3, AppendTyped
  <2> QED
    BY <2>1, <2>2, <2>3, <2>4
<1>6. Depth(p) = n
  <2>1. ASSUME Installed(p) PROVE journal[Current(p)].status \notin UndoneStatuses
    <3>1. Current(p) \in Listed
      BY <1>1, <2>1, CurrentAt
    <3>2. journal[Current(p)].status = "committed"
      BY <1>1, <3>1, ListedPending
    <3> QED
      BY <3>2 DEF UndoneStatuses
  <2> QED
    BY <1>5, <2>1, CommittedDepth
<1>7. Depth(p)' = n + 1
  <2>1. (t \notin Undone)'
    BY DEF Undone
  <2> QED
    BY <1>1, <1>5, <2>1 DEF Depth
<1>8. PICK s \in Seq(Versions) : /\ Standing(p) = Append(s, v) /\ Len(s) = n
                                 /\ \A i \in 1 .. n : s[i] = journal[owned[p][i]].ver
  BY <1>0, <1>1, <1>2, <1>6, StandingIs
<1>9. PICK u \in Seq(Versions) : /\ Standing(p)' = u /\ Len(u) = n + 1
                                 /\ \A i \in 1 .. n + 1 : u[i] = journal'[owned'[p][i]].ver
  BY <1>1, <1>3, <1>7, StandingAfter
<1>10. u = Append(s, v)
  <2>1. n + 1 \in 1 .. n + 1 /\ \A i \in 1 .. n : i \in 1 .. n + 1
    OBVIOUS
  <2>2. u[n + 1] = v
    BY <1>0, <1>5, <1>9, <2>1
  <2>3. \A i \in 1 .. n : u[i] = s[i]
    <3>1. ASSUME NEW i \in 1 .. n PROVE u[i] = journal[owned[p][i]].ver
      BY <1>5, <1>9, <2>1
    <3> QED
      BY <1>8, <3>1
  <2> QED
    BY <1>8, <1>9, <2>2, <2>3, OneMore
<1> QED
  BY <1>4, <1>8, <1>9, <1>10

\* A version that was taken back is no longer listed: it did not stand.
LEMMA UnlistWrite ==
    ASSUME StoreTypes, StoreTypes', Stored, NEW t \in Listed, journal[t].status = "rolled_back",
           owned' = Unlisting(t), UNCHANGED <<files, journal>>
    PROVE  \A q \in Packs : Standing(q)' = Standing(q)
<1>0. PICK p \in Packs : p = journal[t].pack /\ t \in Txs
  BY ListedAt DEF Stored
<1>1. /\ Stored' /\ Stacks /\ Stacks' /\ Pending' = {} /\ Listed' \subseteq Listed
      /\ \A q \in Packs : q # p => owned'[q] = owned[q]
  BY <1>0, UnlistStep DEF Stored
<1>2. t \in Pending /\ Pending = {t} /\ Installed(p) /\ t = Current(p)
  BY <1>0, <1>1, ListedPending, ListedAt
<1>3. \A q \in Packs : DecidedOf(q) = {} /\ DecidedOf(q)' = {}
  BY <1>1, <1>2, DecidedPending, DecidedPendingAfter
<1>4. PICK m \in Nat : /\ Len(owned[p]) = m + 1 /\ Len(owned'[p]) = m /\ t = owned[p][m + 1]
                       /\ \A i \in 1 .. m : owned'[p][i] = owned[p][i]
  <2>1. PICK s \in Seq(Txs) : s = owned[p] /\ Len(s) \in Nat /\ Len(s) # 0 /\ t = s[Len(s)]
    BY <1>2, CurrentTyped
  <2>2. owned'[p] = Front(s)
    BY <1>0, <2>1 DEF Unlisting, StoreTypes
  <2>3. PICK m \in Nat : m = Len(s) - 1 /\ Len(s) = m + 1
    <3>1. PICK k \in Nat : k = Len(s) /\ k # 0
      BY <2>1
    <3>2. k - 1 \in Nat /\ k = k - 1 + 1
      BY <3>1
    <3> QED
      BY <3>1, <3>2
  <2>4. /\ Len(Front(s)) = m /\ \A i \in 1 .. m : Front(s)[i] = s[i]
    BY <2>1, <2>3, FrontTyped
  <2> QED
    BY <2>1, <2>2, <2>3, <2>4
<1>5. Depth(p) = m
  <2>1. t \in Undone /\ m + 1 - 1 = m
    BY <1>0 DEF Undone
  <2> QED
    BY <1>2, <1>4, <2>1 DEF Depth
<1>6. Depth(p)' = m
  <2>1. ASSUME Installed(p)' PROVE (Current(p) \notin Undone)'
    <3>1. m # 0
      <4>1. owned'[p] \in Seq(Txs) /\ owned'[p] # << >>
        BY <2>1 DEF Installed, StoreTypes
      <4> QED
        BY <1>4, <4>1, EmptySeq
    <3>2. m \in 1 .. m + 1 /\ m + 1 \in 1 .. m + 1 /\ m # m + 1 /\ m \in 1 .. m
      BY <3>1
    <3>3. Current(p)' = owned[p][m]
      BY <1>4, <3>2 DEF Current, Last
    <3>4. owned[p][m] \in Listed /\ owned[p][m] # t
      BY <1>1, <1>4, <3>2, StackFacts
    <3>5. journal[owned[p][m]].status = "committed"
      BY <1>2, <3>4, ListedPending
    <3> QED
      BY <3>3, <3>5 DEF Undone
  <2> QED
    BY <1>4, <2>1 DEF Depth
<1>7. ASSUME NEW q \in Packs PROVE Base(q)' = Base(q)
  <2>1. CASE q = p
    BY <1>4, <1>5, <1>6, <2>1 DEF Base
  <2>2. CASE q # p
    BY <1>1, <2>2, BaseStays
  <2> QED
    BY <2>1, <2>2
<1> QED
  BY <1>1, <1>3, <1>7, StandingIs, StandingAfter

\* The history is what the journal and the index say.
LEMMA SameHistory ==
    ASSUME UNCHANGED <<journal, owned>>
    PROVE  \A q \in Packs : Standing(q)' = Standing(q)
BY DEF Standing, Undone, Listed

\* What a step does to the history.
Unmoved == \A q \in Packs : Standing(q)' = Standing(q)

\* A write to the journal by the transaction of a failed or current operation,
\* of which no decision comes: it may fail.
LEMMA QuietStep ==
    ASSUME PackInv, PackInv', NEW t \in Txs, NEW rec \in Record,
           journal' = journal \/ journal' = Saved(t, rec), UNCHANGED owned,
           t \in Listed => /\ journal[t].ver = rec.ver
                           /\ journal[t].status \in UndoneStatuses <=> rec.status \in UndoneStatuses,
           t \notin Listed => journal[t].status \notin Decided /\ rec.status \notin Decided
    PROVE  Unmoved
<1>1. StoreTypes /\ StoreTypes' /\ Stored /\ Stacks'
  BY DEF PackInv, TypeInv, Stored
<1>2. CASE journal' = journal
  BY <1>2, SameHistory DEF Unmoved
<1>3. CASE journal' = Saved(t, rec)
  BY <1>1, <1>3, QuietWrite DEF Unmoved
<1> QED
  BY <1>2, <1>3

\* The reconciliation of what was decided.
LEMMA ReconcileVersions ==
    ASSUME PackInv, PackInv', ReconcileOwnership \/ ReconcileCommit
    PROVE  Unmoved
<1>0. StoreTypes /\ StoreTypes' /\ Stored /\ proc = "busy" /\ job.step = "reconcile"
  BY DEF PackInv, TypeInv, ReconcileOwnership, ReconcileCommit
<1>1. CASE ReconcileOwnership
  <2>1. PICK t \in First(Unreconciled) \ Listed : owned' \in {owned, Listing(t, journal[t])}
    BY <1>1 DEF ReconcileOwnership
  <2>2. t \in Unreconciled /\ UNCHANGED <<files, journal>>
    BY <1>1, <2>1 DEF First, ReconcileOwnership
  <2>3. t \in Txs /\ journal[t].status = "commit_decided"
    BY <1>0, <2>2, UnreconciledOpen
  <2> QED
    BY <1>0, <2>1, <2>2, <2>3, ListWrite, SameHistory DEF Unmoved
<1>2. CASE ReconcileCommit
  <2>1. PICK t \in First(Unreconciled) \cap Listed :
          LET rec == [journal[t] EXCEPT !.status = "committed"] IN
          journal' = journal \/ journal' = Saved(t, rec)
    BY <1>2 DEF ReconcileCommit, Save, SaveFails
  <2>2. t \in Unreconciled /\ t \in Listed /\ UNCHANGED owned
    BY <1>2, <2>1 DEF First, ReconcileCommit
  <2>3. t \in Txs /\ journal[t].status = "commit_decided"
    BY <1>0, <2>2, UnreconciledOpen
  <2>4. PICK old \in Record : old = journal[t]
    BY <1>0, <2>3 DEF StoreTypes
  <2>5. PICK rec : rec = [old EXCEPT !.status = "committed"]
    OBVIOUS
  <2>6. rec \in Record /\ rec.status = "committed" /\ rec.ver = old.ver
    BY <2>5, Restatus DEF Statuses
  <2>7. journal' = journal \/ journal' = Saved(t, rec)
    BY <2>1, <2>4, <2>5
  <2> QED
    BY <2>2, <2>3, <2>4, <2>6, <2>7, QuietStep DEF UndoneStatuses
<1> QED
  BY <1>1, <1>2

\* An installation up to its decision.
LEMMA BuildVersions ==
    ASSUME PackInv, PackInv', Begin \/ Applying \/ Snapshot \/ AwaitCommit
    PROVE  Unmoved
<1>0. /\ StoreTypes /\ Stored /\ Stacks /\ job \in JobRec /\ proc = "busy" /\ job.kind = "install"
      /\ UNCHANGED owned /\ JobInv
  BY DEF PackInv, TypeInv, Stored, Begin, Applying, Snapshot, AwaitCommit, Busy
<1>1. PICK old \in Record : old = job.rec
  BY <1>0, JobFields
<1>2. CASE Begin
  <2>1. job.step = "begin"
    BY <1>2 DEF Begin, Busy
  <2>2. PICK t \in Txs : t = (CHOOSE u \in Txs : journal[u].status = "none") /\ journal[t].status = "none"
    BY <1>0, <2>1 DEF JobInv, Installing
  <2>3. journal' = journal \/ journal' = Saved(t, old)
    BY <1>1, <1>2, <2>2 DEF Begin, Save, SaveFails
  <2>4. t \notin Listed
    BY <1>0, <2>2, ListedAt DEF UndoneStatuses
  <2>5. old.status = "prepared"
    <3>1. PICK p \in Packs, v \in Versions : p = old.pack /\ v = old.ver
      BY RecordFields
    <3>2. old = NewRecord(p, v)
      BY <1>0, <1>1, <2>1, <3>1 DEF JobInv, Installing
    <3> QED
      BY <3>2, NewRecordStatus
  <2> QED
    BY <1>0, <2>2, <2>3, <2>4, <2>5, QuietStep DEF Decided
<1>3. ASSUME job.step \in {"applying", "snapshot"}
      PROVE  /\ job.tx \in Txs /\ journal[job.tx] = old /\ job.tx \notin Listed
             /\ old.status \in BuildingStatuses
  BY <1>0, <1>1, <1>3, UnderWay
<1>4. ASSUME job.step \in {"applying", "snapshot"}, NEW rec \in Record, rec.status \in BuildingStatuses,
             journal' = journal \/ journal' = Saved(job.tx, rec)
      PROVE  Unmoved
  BY <1>0, <1>3, <1>4, QuietStep DEF Decided, BuildingStatuses
<1>5. CASE Applying
  <2>1. PICK rec : rec = [old EXCEPT !.status = "applying"]
    OBVIOUS
  <2>2. rec \in Record /\ rec.status = "applying"
    BY <2>1, Restatus DEF Statuses
  <2>3. job.step = "applying" /\ (journal' = journal \/ journal' = Saved(job.tx, rec))
    BY <1>1, <1>5, <2>1 DEF Applying, Busy, Save, SaveFails
  <2> QED
    BY <1>4, <2>2, <2>3 DEF BuildingStatuses
<1>6. CASE AwaitCommit
  <2>1. PICK rec : rec = [old EXCEPT !.status = "awaiting_commit"]
    OBVIOUS
  <2>2. rec \in Record /\ rec.status = "awaiting_commit"
    BY <2>1, Restatus DEF Statuses
  <2>3. job.step = "snapshot" /\ (journal' = journal \/ journal' = Saved(job.tx, rec))
    BY <1>1, <1>6, <2>1 DEF AwaitCommit, Busy, Save, SaveFails
  <2> QED
    BY <1>4, <2>2, <2>3 DEF BuildingStatuses
<1>7. CASE Snapshot
  <2>1. job.step = "snapshot" /\ job.todo # {}
    BY <1>7 DEF Snapshot, Busy
  <2>2. PICK r \in Resources : r = InHand
    <3>1. PICK T \in SUBSET Resources : T = job.todo /\ T # {}
      BY <1>0, <2>1, JobFields
    <3> QED
      BY <1>0, <2>1, <3>1, InHandTodo
  <2>3. PICK rec : rec = [old EXCEPT !.snap[r] = files[r]]
    OBVIOUS
  <2>4. rec \in Record /\ rec.status = old.status
    <3>1. files[r] \in Contents
      BY <1>0 DEF StoreTypes
    <3> QED
      BY <2>3, <3>1 DEF Record
  <2>5. journal' = journal \/ journal' = Saved(job.tx, rec)
    BY <1>1, <1>7, <2>2, <2>3 DEF Snapshot, Save, SaveFails
  <2> QED
    BY <1>3, <1>4, <2>1, <2>4, <2>5
<1> QED
  BY <1>2, <1>5, <1>6, <1>7

\* The decision of an installation.
LEMMA DecideVersions ==
    ASSUME PackInv, PackInv', Decide
    PROVE  Moved \/ Unmoved
<1>0. /\ StoreTypes /\ StoreTypes' /\ Stored /\ Stacks' /\ job \in JobRec /\ proc = "busy"
      /\ job.kind = "install" /\ job.step = "decide" /\ UNCHANGED owned
  BY DEF PackInv, TypeInv, Stored, Decide, Busy
<1>1. PICK old \in Record, t \in Txs : old = job.rec /\ t = job.tx
  BY <1>0, UnderWay
<1>2. /\ journal[t] = old /\ Pending = {t} /\ t \notin Listed /\ MayOwn(old.pack, old.ver)
      /\ old.status \in BuildingStatuses
  BY <1>0, <1>1, UnderWay
<1>3. PICK rec : rec = [old EXCEPT !.status = "commit_decided", !.managed = TRUE]
  OBVIOUS
<1>4. /\ rec \in Record /\ rec.status = "commit_decided" /\ rec.managed
      /\ rec.pack = old.pack /\ rec.ver = old.ver
  BY <1>3 DEF Record, Statuses
<1>5. journal' = journal \/ journal' = Saved(t, rec)
  BY <1>1, <1>3 DEF Decide, Save, SaveFails
<1>6. CASE journal' = journal
  BY <1>0, <1>6, SameHistory DEF Unmoved
<1>7. CASE journal' = Saved(t, rec)
  BY <1>0, <1>2, <1>4, <1>7, DecideWrite DEF Decided, BuildingStatuses
<1> QED
  BY <1>5, <1>6, <1>7

\* The end of an installation.
LEMMA CommitVersions ==
    ASSUME PackInv, PackInv', Own \/ MarkCommitted
    PROVE  Unmoved
<1>0. /\ StoreTypes /\ StoreTypes' /\ Stored /\ JobInv /\ job \in JobRec /\ proc = "busy"
      /\ job.kind = "install" /\ Installing
  BY DEF PackInv, TypeInv, JobInv, Own, MarkCommitted, Busy
<1>1. CASE Own
  <2>1. job.step = "own" /\ UNCHANGED <<files, journal>>
    BY <1>1 DEF Own, Busy
  <2>2. PICK t \in Txs, rec \in Record : t = job.tx /\ rec = job.rec
    BY <1>0, <2>1, UnderWay
  <2>3. journal[t] = rec /\ t \notin Listed /\ rec.status = "commit_decided"
    BY <1>0, <2>1, <2>2, UnderWay DEF Installing, InProgress
  <2>4. owned' \in {owned, Listing(t, journal[t])}
    BY <1>1, <2>2, <2>3 DEF Own
  <2> QED
    BY <1>0, <2>1, <2>3, <2>4, ListWrite, SameHistory DEF Unmoved
<1>2. CASE MarkCommitted
  <2>1. job.step = "commit" /\ UNCHANGED owned
    BY <1>2 DEF MarkCommitted, Busy
  <2>2. PICK old \in Record, p \in Packs : old = job.rec /\ p = old.pack
    BY <1>0, JobFields
  <2>3. /\ old = journal[job.tx] /\ old.status = "commit_decided"
        /\ Installed(p) /\ job.tx = Current(p)
    BY <1>0, <2>1, <2>2 DEF Installing
  <2>4. job.tx \in Listed /\ job.tx \in Txs
    BY <1>0, <2>3, CurrentAt DEF Stored
  <2>5. PICK rec : rec = [old EXCEPT !.status = "committed"]
    OBVIOUS
  <2>6. rec \in Record /\ rec.status = "committed" /\ rec.ver = old.ver
    BY <2>5, Restatus DEF Statuses
  <2>7. journal' = journal \/ journal' = Saved(job.tx, rec)
    BY <1>2, <2>2, <2>5 DEF MarkCommitted, Save, SaveFails
  <2> QED
    BY <2>1, <2>3, <2>4, <2>6, <2>7, QuietStep DEF UndoneStatuses
<1> QED
  BY <1>1, <1>2

\* A rollback: only the mark of a decision that was not carried out counts.
LEMMA RollbackVersions ==
    ASSUME PackInv, PackInv', MarkRollingBack \/ Restore \/ EndRollback
    PROVE  Moved \/ Unmoved
<1>0. /\ StoreTypes /\ StoreTypes' /\ Stored /\ Stacks' /\ job \in JobRec /\ proc = "busy"
      /\ job.step \in {"mark", "restore"} /\ UNCHANGED owned
  BY DEF PackInv, TypeInv, Stored, MarkRollingBack, Restore, EndRollback
<1>1. PICK old \in Record, t \in Txs : old = job.rec /\ t = job.tx
  BY <1>0, Rolling
<1>2. /\ Pending = {t} /\ old.pack = journal[t].pack /\ old.ver = journal[t].ver
      /\ t \in Listed => journal[t].status = "rolling_back"
      /\ job.step = "mark" => journal[t].status \in BuildingStatuses \cup {"rolling_back", "commit_decided"}
      /\ job.step = "restore" => /\ journal[t].status \in BuildingStatuses \cup {"rolling_back"}
                                 /\ old.status = "rolling_back"
  BY <1>0, <1>1, Rolling DEF RollingBack
<1>3. ASSUME NEW s \in UndoneStatuses
      PROVE  LET rec == [old EXCEPT !.status = s] IN
             rec \in Record /\ rec.status = s /\ rec.pack = old.pack /\ rec.ver = old.ver
  <2>1. PICK rec : rec = [old EXCEPT !.status = s]
    OBVIOUS
  <2>2. s \in Statuses
    BY DEF Statuses, UndoneStatuses
  <2>3. rec \in Record /\ rec.status = s /\ rec.pack = old.pack /\ rec.ver = old.ver
    BY <2>1, <2>2, Restatus
  <2> QED
    BY <2>1, <2>3
<1>4. PICK rec \in Record : /\ rec.status \in UndoneStatuses /\ rec.pack = old.pack /\ rec.ver = old.ver
                            /\ journal' = journal \/ journal' = Saved(t, rec)
  <2>1. CASE MarkRollingBack
    <3>1. journal' = journal \/ journal' = Saved(t, [old EXCEPT !.status = "rolling_back"])
      BY <1>1, <2>1 DEF MarkRollingBack, Save, SaveFails
    <3>2. "rolling_back" \in UndoneStatuses
      BY DEF UndoneStatuses
    <3> QED
      BY <1>3, <3>1, <3>2
  <2>2. CASE Restore
    <3>1. journal' = journal \/ journal' = Saved(t, old)
      BY <1>1, <2>2 DEF Restore, Save, SaveFails
    <3>2. job.step = "restore"
      BY <2>2 DEF Restore
    <3> QED
      BY <1>2, <3>1, <3>2 DEF UndoneStatuses
  <2>3. CASE EndRollback
    <3>1. PICK s \in UndoneStatuses : s = IF job.errors THEN "compensation_failed" ELSE "rolled_back"
      BY DEF UndoneStatuses
    <3>2. journal' = journal \/ journal' = Saved(t, [old EXCEPT !.status = s])
      BY <1>1, <2>3, <3>1 DEF EndRollback, Save, SaveFails
    <3> QED
      BY <1>3, <3>2
  <2> QED
    BY <2>1, <2>2, <2>3
<1>5. CASE journal[t].status = "commit_decided"
  <2>1. t \notin Listed
    BY <1>2, <1>5
  <2>2. CASE journal' = journal
    BY <1>0, <2>2, SameHistory DEF Unmoved
  <2>3. CASE journal' = Saved(t, rec)
    BY <1>0, <1>2, <1>4, <1>5, <2>1, <2>3, UndecideWrite DEF Decided, UndoneStatuses
  <2> QED
    BY <1>4, <2>2, <2>3
<1>6. CASE journal[t].status # "commit_decided"
  <2>1. journal[t].status \notin Decided
    BY <1>0, <1>2, <1>6 DEF Decided, BuildingStatuses
  <2>2. t \in Listed => journal[t].status \in UndoneStatuses
    BY <1>2 DEF UndoneStatuses
  <2>3. rec.status \notin Decided
    BY <1>4 DEF Decided, UndoneStatuses
  <2> QED
    BY <1>0, <1>2, <1>4, <2>1, <2>2, <2>3, QuietStep
<1> QED
  BY <1>5, <1>6

\* An installed version is taken back once it is marked as rolling back.
LEMMA WithdrawVersions ==
    ASSUME PackInv, PackInv', Load \/ Unlist, ~overlaid'
    PROVE  Moved \/ Unmoved
<1>0. /\ StoreTypes /\ StoreTypes' /\ Stored /\ Stacks /\ Stacks' /\ job \in JobRec /\ proc = "busy"
      /\ job.kind \in {"rollback", "remove"} /\ Withdrawing
  BY DEF PackInv, TypeInv, JobInv, Stored, Load, Unlist, Busy
<1>1. PICK p \in Packs : p = job.rec.pack
  BY <1>0, JobFields
<1>2. CASE Load
  <2>1. /\ job.step = "load" /\ UNCHANGED owned
    BY <1>2 DEF Load, Busy
  <2>2. Installed(p) /\ job.tx = Current(p)
    BY <1>0, <1>1, <2>1 DEF Withdrawing
  <2>3. PICK t \in Txs, old \in Record : t = job.tx /\ old = journal[t]
    BY <1>0, <2>2, CurrentAt DEF StoreTypes
  <2>4. PICK rec : rec = [old EXCEPT !.status = "rolling_back"]
    OBVIOUS
  <2>5. rec \in Record /\ rec.status = "rolling_back" /\ rec.ver = old.ver
    BY <2>4, Restatus DEF Statuses
  <2>6. \/ journal' = journal
        \/ journal' = Saved(t, rec) /\ old.status = "committed" /\ Open \ {t} = {}
        \/ journal' = Saved(t, rec) /\ old.status = "rolling_back"
    BY <1>2, <2>3, <2>4 DEF Load, Save, SaveFails
  <2>7. CASE journal' = journal
    BY <2>1, <2>7, SameHistory DEF Unmoved
  <2>8. CASE journal' = Saved(t, rec) /\ old.status = "committed" /\ Open \ {t} = {}
    <3>1. t \notin Pending
      BY <2>3, <2>8 DEF Pending, Settled
    <3>2. Pending = {}
      BY <1>0, <2>8, <3>1, OpenPending
    <3> QED
      BY <1>0, <2>1, <2>2, <2>3, <2>5, <2>8, <3>2, TakeBackWrite
  <2>9. CASE journal' = Saved(t, rec) /\ old.status = "rolling_back"
    <3>1. t \in Listed
      BY <1>0, <2>2, <2>3, CurrentAt
    <3> QED
      BY <2>1, <2>3, <2>5, <2>9, <3>1, QuietStep DEF UndoneStatuses
  <2> QED
    BY <2>6, <2>7, <2>8, <2>9
<1>3. CASE Unlist
  <2>1. job.step = "unlist" /\ UNCHANGED <<files, journal>>
    BY <1>3 DEF Unlist, Busy
  <2>2. Installed(p) /\ job.tx = Current(p) /\ journal[job.tx].status = "rolled_back"
    BY <1>0, <1>1, <2>1 DEF Withdrawing
  <2>3. job.tx \in Listed
    BY <1>0, <2>2, CurrentAt
  <2>4. owned' = owned \/ owned' = Unlisting(job.tx)
    BY <1>3 DEF Unlist
  <2> QED
    BY <1>0, <2>1, <2>2, <2>3, <2>4, UnlistWrite, SameHistory DEF Unmoved
<1> QED
  BY <1>2, <1>3

\* The start unlists what was rolled back.
LEMMA SettleVersions ==
    ASSUME PackInv, PackInv', Settle
    PROVE  Unmoved
<1>1. StoreTypes /\ StoreTypes' /\ Stored /\ UNCHANGED <<files, journal>>
  BY DEF PackInv, TypeInv, Settle
<1>2. PICK t \in TakenBack \cap Listed : owned' \in {owned, Unlisting(t)}
  BY DEF Settle
<1>3. t \in Listed /\ journal[t].status = "rolled_back"
  BY <1>2 DEF TakenBack
<1> QED
  BY <1>1, <1>2, <1>3, UnlistWrite, SameHistory DEF Unmoved

\* The steps that leave the journal and the index alone.
LEMMA OtherVersions ==
    ASSUME \/ Start \/ Reconciled \/ Check \/ Revoke \/ Apply \/ Withdraw \/ Scan \/ SettleGrants
           \/ Reactivate \/ Answer \/ Crash \/ Stop \/ UNCHANGED vars
           \/ \E p \in Packs : Call(p)
    PROVE  Unmoved
<1>1. CASE Start \/ Reconciled \/ Check \/ Withdraw \/ Scan \/ Stop \/ UNCHANGED vars
  <2>1. UNCHANGED <<journal, owned>>
    BY <1>1 DEF Start, Reconciled, Check, Withdraw, Scan, Stop, vars, durable
  <2> QED
    BY <2>1, SameHistory DEF Unmoved
<1>2. CASE Revoke \/ Apply \/ SettleGrants \/ Reactivate \/ Answer \/ Crash
  <2>1. UNCHANGED <<journal, owned>>
    BY <1>2 DEF Revoke, Apply, SettleGrants, Reactivate, Answer, Crash
  <2> QED
    BY <2>1, SameHistory DEF Unmoved
<1>3. ASSUME NEW p \in Packs, Call(p) PROVE Unmoved
  <2>1. UNCHANGED <<journal, owned>>
    BY <1>3 DEF Call, CallRollback, CallInstall, Ask, Activate, RevokeActivation, Take, durable
  <2> QED
    BY <2>1, SameHistory DEF Unmoved
<1> QED
  BY <1>1, <1>2, <1>3

\* Every step is a step of PackVersions, or leaves the history as it is.
LEMMA VersionsStep ==
    ASSUME PackInv, PackInv', ~overlaid', [Next]_vars
    PROVE  [Versioned!Next]_([p \in Packs |-> Standing(p)])
<1>1. Moved \/ Unmoved
  <2>1. CASE Proceed
    BY <2>1, ReconcileVersions, BuildVersions, DecideVersions, CommitVersions, RollbackVersions,
       WithdrawVersions, SettleVersions, OtherVersions DEF Proceed
  <2>2. CASE ~Proceed
    BY <2>2, OtherVersions DEF Next
  <2> QED
    BY <2>1, <2>2
<1>2. Unmoved => UNCHANGED [p \in Packs |-> Standing(p)]
  BY DEF Unmoved
<1>3. Moved => [Versioned!Next]_([p \in Packs |-> Standing(p)])
  BY DEF Moved, Versioned!Next
<1> QED
  BY <1>1, <1>2, <1>3

\* Before the first start no version is installed.
LEMMA VersionsInit == Init => Versioned!Init
<1> SUFFICES ASSUME Init PROVE Versioned!Init
  OBVIOUS
<1>1. StoreTypes /\ Stored
  BY PackInit DEF PackInv, TypeInv
<1>2. ASSUME NEW p \in Packs PROVE Standing(p) = << >>
  <2>1. ~Installed(p)
    BY DEF Init, Installed
  <2>2. Pending = {}
    <3>1. \A t \in Txs : journal[t].status = "none"
      BY AnyRecordTyped DEF Init
    <3> QED
      BY <3>1 DEF Pending, Settled
  <2>3. /\ Standing(p) = Base(p) /\ Base(p) \in Seq(Versions) /\ Len(Base(p)) = 0
    BY <1>1, <2>1, <2>2, DecidedPending, StandingIs, DepthTyped DEF Stored
  <2> QED
    BY <2>3, EmptySeq
<1> QED
  BY <1>2 DEF Versioned!Init

\* The installation implements PackVersions: whatever fails or crashes, the
\* durable decisions of a pack add a newer version on top of its history or
\* take the newest one away, and nothing else changes it; up to the first
\* operation that goes ahead over what an error had left open.
THEOREM VersionsFollowed ==
    Spec => /\ Versioned!Init
            /\ [][overlaid' \/ [Versioned!Next]_([p \in Packs |-> Standing(p)])]_vars
<1>1. TypeOK /\ (overlaid \/ PackInv) /\ (overlaid \/ PackInv)' /\ [Next]_vars
        => [overlaid' \/ [Versioned!Next]_([p \in Packs |-> Standing(p)])]_vars
  <2> SUFFICES ASSUME TypeOK, overlaid \/ PackInv, (overlaid \/ PackInv)', [Next]_vars, ~overlaid'
               PROVE  [Versioned!Next]_([p \in Packs |-> Standing(p)])
    OBVIOUS
  <2>1. ~overlaid
    BY HistoryTyped DEF TypeOK
  <2> QED
    BY <2>1, VersionsStep
<1>2. Spec => [](overlaid \/ PackInv)
  BY PackCorrect
<1> QED
  BY <1>1, <1>2, TypeCorrect, VersionsInit, PTL DEF Spec
=============================================================================
