--------------------------- MODULE CapabilityPack ---------------------------
(***************************************************************************)
(* Capability packs (crates/y-service/src/capability_pack): installation   *)
(* with a durable journal, commit decision and ownership index; rollback   *)
(* and removal; recovery when the container is built; activation grants    *)
(* and the live owners of executable resources.                            *)
(*                                                                         *)
(* One process runs at a time and its lifecycle lock admits one operation: *)
(* job is the operation in progress, with the step that comes next.  The   *)
(* process may die between any two steps, and each write to the journal,   *)
(* the ownership index, the grants or a resource may fail, before or after *)
(* it took effect.  A resource's content is a value; a version fixes one   *)
(* for each of its resources.                                              *)
(***************************************************************************)
EXTENDS Naturals, Sequences, SequencesExt, FiniteSets

CONSTANTS
    Packs,          \* capability packs
    Versions,       \* their versions, naturals in the order of semver
    Resources,      \* resources that packs declare
    Order,          \* the place of each resource in resource_order
    ResourcesOf,    \* the resources each pack declares, in every version
    Content,        \* Content[p][v][r]: what version v of p puts into r, for each v there is
    Before,         \* Before[r]: what the user had in r
    NoContent,      \* the content of a resource that does not exist
    Executable,     \* resources that need an activation: mcp, hook, lsp
    Workspaces,     \* trusted workspaces
    MaxTx,          \* bound: transactions
    MaxCrashes,     \* bound: crashes
    MaxFaults,      \* bound: failing writes, one in the life of a process
    MaxDrops        \* bound: requests whose client goes away

ASSUME PackAssumption ==
    /\ Packs # {} /\ Workspaces # {}
    /\ Versions \subseteq Nat /\ Versions # {}
    /\ IsFiniteSet(Resources)
    /\ Order \in [Resources -> 1 .. Cardinality(Resources)] /\ IsInjective(Order)
    /\ ResourcesOf \in [Packs -> SUBSET Resources]
    /\ \A p \in Packs : DOMAIN Content[p] \subseteq Versions
    /\ Executable \subseteq Resources
    /\ MaxTx \in Nat /\ MaxCrashes \in Nat /\ MaxFaults \in Nat /\ MaxDrops \in Nat

VARIABLES
    files,      \* the resources in place
    journal,    \* transaction.json of each transaction
    owned,      \* ownership.json: the transactions of each pack's installed versions
    grants,     \* activation-grants.json: <<transaction, workspace>>
    live,       \* what runs of each executable resource
    proc,       \* "down", "idle" or "busy" (an operation has the lock)
    job,        \* the operation that has the lock
    hit,        \* a write has failed in this process
    crashes, faults, drops,
    overlaid,   \* history: an operation went ahead over what an error had left open
    loose       \* history: packs that run although a revocation failed, or were
                \* activated while their transaction was open

durable == <<files, journal, owned, grants>>
faulty == <<faults, hit>>
bounds == <<crashes, faulty, drops, overlaid>>   \* and what only the model remembers
vars == <<durable, live, loose, proc, job, bounds>>

Txs == 1 .. MaxTx

Contents == {NoContent} \cup {Before[r] : r \in Resources}
              \cup UNION {{Content[p][v][r] : v \in DOMAIN Content[p], r \in Resources} : p \in Packs}

NoSnapshot == "no snapshot"

ASSUME ContentsAssumption == NoSnapshot \notin Contents /\ Before \in [Resources -> Contents]

Statuses == {"none", "prepared", "applying", "awaiting_commit", "commit_decided", "committed",
             "rolling_back", "rolled_back", "compensation_failed"}
Decided == {"commit_decided", "committed"}
Settled == {"none", "committed", "rolled_back"}

Record == [pack : Packs, ver : Versions, status : Statuses, managed : BOOLEAN,
           snap : [Resources -> Contents \cup {NoSnapshot}]]

NewRecord(p, v) == [pack |-> p, ver |-> v, status |-> "prepared", managed |-> FALSE,
                    snap |-> [r \in Resources |-> NoSnapshot]]

AnyPack == CHOOSE p \in Packs : TRUE
AnyRecord == [NewRecord(AnyPack, CHOOSE v \in Versions : TRUE) EXCEPT !.status = "none"]

Kinds == {"none", "start", "install", "rollback", "remove", "grant"}
Steps == {"none", "reconcile", "check", "revoke", "begin", "applying", "snapshot", "apply",
          "decide", "own", "commit", "mark", "restore", "withdraw", "load", "unlist", "scan",
          "settle", "activate", "prompt"}

NoJob == [kind |-> "none", step |-> "none", rec |-> AnyRecord, tx |-> 0, todo |-> {},
          errors |-> FALSE, workspace |-> CHOOSE w \in Workspaces : TRUE, replace |-> FALSE]

Job(kind, step, rec) == [NoJob EXCEPT !.kind = kind, !.step = step, !.rec = rec]

TypeOK ==
    /\ files \in [Resources -> Contents]
    /\ journal \in [Txs -> Record]
    /\ owned \in [Packs -> Seq(Txs)]
    /\ grants \subseteq Txs \X Workspaces
    /\ live \in [Resources -> Contents]
    /\ proc \in {"down", "idle", "busy"}
    /\ job \in [kind : Kinds, step : Steps, rec : Record, tx : 0 .. MaxTx,
                todo : SUBSET Resources, errors : BOOLEAN, workspace : Workspaces,
                replace : BOOLEAN]
    /\ hit \in BOOLEAN
    /\ crashes \in 0 .. MaxCrashes /\ faults \in 0 .. MaxFaults /\ drops \in 0 .. MaxDrops
    /\ overlaid \in BOOLEAN
    /\ loose \subseteq Packs

Nothing == [r \in Resources |-> NoContent]

Init ==
    /\ files = Before
    /\ journal = [t \in Txs |-> AnyRecord]
    /\ owned = [p \in Packs |-> << >>]
    /\ grants = {}
    /\ live = Nothing
    /\ proc = "down"
    /\ job = NoJob
    /\ hit = FALSE /\ crashes = 0 /\ faults = 0 /\ drops = 0
    /\ overlaid = FALSE /\ loose = {}

-----------------------------------------------------------------------------
(* Reading the stores. *)

Listed == UNION {ToSet(owned[p]) : p \in Packs}
Current(p) == Last(owned[p])
Installed(p) == owned[p] # << >>

Unsettled == {t \in Txs : journal[t].status \notin Settled}
TakenBack == {t \in Txs : journal[t].managed /\ journal[t].status = "rolled_back"}

(* The transactions that are not over: what an error leaves to recovery.    *)
Open == Unsettled \cup (TakenBack \cap Listed)

OwnedByOther(p) == \E q \in Packs \ {p} :
                      Installed(q) /\ ResourcesOf[p] \cap ResourcesOf[q] # {}

(* Mutant: the owner of a shared resource is not looked up. *)
MayOwnForeign(p, v) == Installed(p) => v > journal[Current(p)].ver

(* validate_pack_against_index, validate_record_against_index *)
MayOwn(p, v) == ~OwnedByOther(p) /\ (Installed(p) => v > journal[Current(p)].ver)

(* current_executable_resources *)
Executables(p) == ResourcesOf[p] \cap Executable

Deactivated(p) == [r \in Resources |-> IF r \in Executables(p) THEN NoContent ELSE live[r]]
Activated(P) == [r \in Resources |->
                   IF \E p \in P : r \in Executables(p) THEN files[r] ELSE live[r]]


(* The resource that is applied or restored next: resources are applied in  *)
(* their order and restored in the reverse order.                           *)
Earliest(T) == CHOOSE r \in T : \A q \in T : Order[r] <= Order[q]
Latest(T) == CHOOSE r \in T : \A q \in T : Order[q] <= Order[r]
InHand == IF job.step = "restore" THEN Latest(job.todo) ELSE Earliest(job.todo)

(* preview: the resources that would be added or replaced. *)
Changes(p, v) == {r \in ResourcesOf[p] : files[r] # Content[p][v][r]}
Replacements(p, v) == {r \in Changes(p, v) : files[r] # NoContent}

-----------------------------------------------------------------------------
(* How a step ends. *)

Busy(kinds, step) == proc = "busy" /\ job.kind \in kinds /\ job.step = step

Goto(step) == job' = [job EXCEPT !.step = step] /\ UNCHANGED proc
Return == job' = NoJob /\ proc' = "idle"

(* A start that fails builds no container; a server answers a call with the *)
(* error and goes on serving.                                               *)
ReturnError == job' = NoJob /\ proc' = IF job.kind = "start" THEN "down" ELSE "idle"

Fault == ~hit /\ hit' = TRUE /\ faults < MaxFaults /\ faults' = faults + 1

(* Each file is replaced by a rename, which may have happened although the  *)
(* write reports an error.                                                  *)
Saved(t, rec) == [journal EXCEPT ![t] = rec]
Save(t, rec) == journal' = Saved(t, rec) /\ UNCHANGED faulty
SaveFails(t, rec) == Fault /\ journal' \in {journal, Saved(t, rec)}

(* CapabilityPackLiveOwners::deactivate: the resources in turn, up to the   *)
(* first that fails.                                                        *)
TakeDown(p) == live' = Deactivated(p) /\ loose' = loose \ {p} /\ UNCHANGED faulty
TakeDownFails(p) ==
    /\ Fault
    /\ \E R \in SUBSET Executables(p) :
         live' = [r \in Resources |-> IF r \in R THEN NoContent ELSE live[r]]

(* fail_and_rollback: rollback_record with the record in memory. *)
Undo(rec) == job' = [job EXCEPT !.step = "mark", !.rec = rec, !.errors = FALSE] /\ UNCHANGED proc

-----------------------------------------------------------------------------
(* The container is built, or an operation is called. *)

Take(j) == proc = "idle" /\ proc' = "busy" /\ job' = j /\ UNCHANGED <<durable, live, loose, bounds>>

Start ==
    /\ proc = "down"
    /\ proc' = "busy"
    /\ job' = Job("start", "reconcile", AnyRecord)
    /\ hit' = FALSE
    /\ UNCHANGED <<durable, live, loose, crashes, faults, drops, overlaid>>

CallInstall(p, v) ==
    /\ \E t \in Txs : journal[t].status = "none"
    /\ \E approved \in BOOLEAN :
         Take([Job("install", "reconcile", NewRecord(p, v)) EXCEPT !.replace = approved])

CallRollback(p) == \E kind \in {"rollback", "remove"} :
                      Take(Job(kind, "reconcile", NewRecord(p, CHOOSE v \in Versions : TRUE)))

-----------------------------------------------------------------------------
(* reconcile_managed_commits: each decided commit is owned, then marked.    *)

(* Mutant: a commit that is listed is taken for complete. *)
UnreconciledListed == {t \in Txs : /\ journal[t].managed
                                   /\ journal[t].status \in Decided
                                   /\ t \notin Listed}

Unreconciled == {t \in Txs : /\ journal[t].managed
                             /\ \/ journal[t].status = "commit_decided"
                                \/ journal[t].status = "committed" /\ t \notin Listed}

(* Records are sorted by pack and version. *)
First(T) == {t \in T : \A u \in T : journal[u].pack = journal[t].pack
                                      => journal[t].ver <= journal[u].ver}

Listing(t, rec) == [owned EXCEPT ![rec.pack] = Append(@, t)]

ReconcileOwnership ==
    /\ proc = "busy" /\ job.step = "reconcile"
    /\ \E t \in First(Unreconciled) \ Listed :
         IF MayOwn(journal[t].pack, journal[t].ver)
         THEN \/ owned' = Listing(t, journal[t]) /\ UNCHANGED <<proc, job, faulty>>
              \/ Fault /\ owned' \in {owned, Listing(t, journal[t])} /\ ReturnError
         ELSE ReturnError /\ UNCHANGED <<owned, faulty>>
    /\ UNCHANGED <<files, journal, grants, live, loose, crashes, drops, overlaid>>

ReconcileCommit ==
    /\ proc = "busy" /\ job.step = "reconcile"
    /\ \E t \in First(Unreconciled) \cap Listed :
         LET rec == [journal[t] EXCEPT !.status = "committed"] IN
         \/ Save(t, rec) /\ UNCHANGED <<proc, job>>
         \/ SaveFails(t, rec) /\ ReturnError
    /\ UNCHANGED <<files, owned, grants, live, loose, crashes, drops, overlaid>>

Reconciled ==
    /\ proc = "busy" /\ job.step = "reconcile"
    /\ Unreconciled = {}
    /\ Goto(CASE job.kind = "start" -> "scan"
              [] job.kind = "install" -> "check"
              [] OTHER -> "withdraw")
    /\ UNCHANGED <<durable, live, loose, bounds>>

-----------------------------------------------------------------------------
(* install *)

(* Mutant: an update leaves the previous executables running. *)
CheckOnly ==
    /\ Busy({"install"}, "check")
    /\ LET p == job.rec.pack  v == job.rec.ver IN
       IF \/ ~MayOwn(p, v)
          \/ Replacements(p, v) # {} /\ ~job.replace
       THEN Return
       ELSE IF Installed(p)
       THEN job' = [job EXCEPT !.step = "revoke", !.tx = Current(p)] /\ UNCHANGED proc
       ELSE Goto("begin")
    /\ UNCHANGED <<durable, live, loose, bounds>>

(* validate_install, preview and the approval of replacements; an update    *)
(* takes the previous version's executables down.                           *)
Check ==
    /\ Busy({"install"}, "check")
    /\ LET p == job.rec.pack  v == job.rec.ver IN
       IF \/ ~MayOwn(p, v)
          \/ Replacements(p, v) # {} /\ ~job.replace
       THEN Return /\ UNCHANGED <<live, loose, faulty>>
       ELSE IF Installed(p)
       THEN \/ /\ TakeDown(p)
               /\ job' = [job EXCEPT !.step = "revoke", !.tx = Current(p)]
               /\ UNCHANGED proc
            \/ TakeDownFails(p) /\ ReturnError /\ UNCHANGED loose
       ELSE Goto("begin") /\ UNCHANGED <<live, loose, faulty>>
    /\ UNCHANGED <<durable, crashes, drops, overlaid>>

(* revoke_transaction: the grants of the version that is replaced or taken  *)
(* back.                                                                    *)
Revoke ==
    /\ Busy({"install", "rollback", "remove"}, "revoke")
    /\ LET kept == {g \in grants : g[1] # job.tx} IN
       \/ /\ grants' = kept
          /\ Goto(IF job.kind = "install" THEN "begin" ELSE "load")
          /\ UNCHANGED faulty
       \/ kept # grants /\ Fault /\ grants' \in {grants, kept} /\ ReturnError
    /\ UNCHANGED <<files, journal, owned, live, loose, crashes, drops, overlaid>>

(* journal.begin, with a new identifier. *)
Begin ==
    /\ Busy({"install"}, "begin")
    /\ LET t == CHOOSE t \in Txs : journal[t].status = "none" IN
       \/ /\ Save(t, job.rec)
          /\ job' = [job EXCEPT !.step = "applying", !.tx = t]
          /\ UNCHANGED proc
       \/ SaveFails(t, job.rec) /\ ReturnError
    /\ overlaid' = (overlaid \/ Open # {})
    /\ UNCHANGED <<files, owned, grants, live, loose, crashes, drops>>

Applying ==
    /\ Busy({"install"}, "applying")
    /\ LET rec == [job.rec EXCEPT !.status = "applying"] IN
       \/ /\ Save(job.tx, rec)
          /\ job' = [job EXCEPT !.step = "snapshot", !.rec = rec,
                       !.todo = Changes(rec.pack, rec.ver)]
          /\ UNCHANGED proc
       \/ SaveFails(job.tx, rec) /\ ReturnError
    /\ UNCHANGED <<files, owned, grants, live, loose, crashes, drops, overlaid>>

(* Mutant: the snapshot is only kept in memory. *)
SnapshotInMemory ==
    /\ Busy({"install"}, "snapshot") /\ job.todo # {}
    /\ job' = [job EXCEPT !.step = "apply", !.rec.snap[InHand] = files[InHand]]
    /\ UNCHANGED <<durable, live, loose, proc, bounds>>

(* The snapshot is durable before the resource is touched. *)
Snapshot ==
    /\ Busy({"install"}, "snapshot") /\ job.todo # {}
    /\ LET r == InHand
           rec == [job.rec EXCEPT !.snap[r] = files[r]] IN
       \/ /\ Save(job.tx, rec)
          /\ job' = [job EXCEPT !.step = "apply", !.rec = rec]
          /\ UNCHANGED proc
       \/ SaveFails(job.tx, rec) /\ Undo(rec)
       \/ Fault /\ Undo(job.rec) /\ UNCHANGED journal
    /\ UNCHANGED <<files, owned, grants, live, loose, crashes, drops, overlaid>>

(* The resource is replaced and recorded as applied; either may fail, and a *)
(* failed apply may have replaced it.                                       *)
Apply ==
    /\ Busy({"install"}, "apply")
    /\ LET r == InHand
           placed == [files EXCEPT ![r] = Content[job.rec.pack][job.rec.ver][r]] IN
       \/ /\ files' = placed
          /\ job' = [job EXCEPT !.step = "snapshot", !.todo = @ \ {r}]
          /\ UNCHANGED <<proc, faulty>>
       \/ Fault /\ files' \in {files, placed} /\ Undo(job.rec)
    /\ UNCHANGED <<journal, owned, grants, live, loose, crashes, drops, overlaid>>

AwaitCommit ==
    /\ Busy({"install"}, "snapshot") /\ job.todo = {}
    /\ LET rec == [job.rec EXCEPT !.status = "awaiting_commit"] IN
       \/ /\ Save(job.tx, rec)
          /\ job' = [job EXCEPT !.step = "decide", !.rec = rec]
          /\ UNCHANGED proc
       \/ SaveFails(job.tx, rec) /\ Undo(rec)
    /\ UNCHANGED <<files, owned, grants, live, loose, crashes, drops, overlaid>>

(* decide_managed_commit *)
Decide ==
    /\ Busy({"install"}, "decide")
    /\ LET rec == [job.rec EXCEPT !.status = "commit_decided", !.managed = TRUE] IN
       \/ /\ Save(job.tx, rec)
          /\ job' = [job EXCEPT !.step = "own", !.rec = rec]
          /\ UNCHANGED proc
       \/ SaveFails(job.tx, rec) /\ Undo(rec)
    /\ UNCHANGED <<files, owned, grants, live, loose, crashes, drops, overlaid>>

(* ownership.commit *)
Own ==
    /\ Busy({"install"}, "own")
    /\ LET listing == Listing(job.tx, job.rec) IN
       IF MayOwn(job.rec.pack, job.rec.ver)
       THEN \/ owned' = listing /\ Goto("commit") /\ UNCHANGED faulty
            \/ Fault /\ owned' \in {owned, listing} /\ ReturnError
       ELSE ReturnError /\ UNCHANGED <<owned, faulty>>
    /\ UNCHANGED <<files, journal, grants, live, loose, crashes, drops, overlaid>>

MarkCommitted ==
    /\ Busy({"install"}, "commit")
    /\ LET rec == [job.rec EXCEPT !.status = "committed"] IN
       \/ Save(job.tx, rec) /\ Return
       \/ SaveFails(job.tx, rec) /\ ReturnError
    /\ UNCHANGED <<files, owned, grants, live, loose, crashes, drops, overlaid>>

-----------------------------------------------------------------------------
(* rollback_record, for a failed installation, a rollback or a recovery: it *)
(* goes on when a write fails and ends with compensation_failed.            *)

(* Mutant: resources that were not snapshotted are restored too. *)
MarkRollingBackAll ==
    /\ proc = "busy" /\ job.step = "mark"
    /\ LET rec == [job.rec EXCEPT !.status = "rolling_back"] IN
       /\ Save(job.tx, rec)
       /\ job' = [job EXCEPT !.step = "restore", !.rec = rec, !.todo = Resources]
    /\ UNCHANGED <<files, owned, grants, live, loose, proc, crashes, hit, drops, overlaid>>

MarkRollingBack ==
    /\ proc = "busy" /\ job.step = "mark"
    /\ LET rec == [job.rec EXCEPT !.status = "rolling_back"]
           undo == {r \in Resources : rec.snap[r] # NoSnapshot} IN
       \/ /\ Save(job.tx, rec)
          /\ job' = [job EXCEPT !.step = "restore", !.rec = rec, !.todo = undo]
       \/ /\ SaveFails(job.tx, rec)
          /\ job' = [job EXCEPT !.step = "restore", !.rec = rec, !.todo = undo, !.errors = TRUE]
    /\ UNCHANGED <<files, owned, grants, live, loose, proc, crashes, drops, overlaid>>

Restore ==
    /\ proc = "busy" /\ job.step = "restore" /\ job.todo # {}
    /\ LET r == InHand
           restored == [files EXCEPT ![r] = job.rec.snap[r]] IN
       \/ /\ files' = restored
          /\ \/ Save(job.tx, job.rec) /\ job' = [job EXCEPT !.todo = @ \ {r}]
             \/ SaveFails(job.tx, job.rec) /\ job' = [job EXCEPT !.todo = @ \ {r}, !.errors = TRUE]
       \/ /\ Fault /\ files' \in {files, restored}
          /\ job' = [job EXCEPT !.todo = @ \ {r}, !.errors = TRUE]
          /\ UNCHANGED journal
    /\ UNCHANGED <<owned, grants, live, loose, proc, crashes, drops, overlaid>>

(* Where a clean rollback goes on. *)
RolledBack ==
    CASE job.kind = "install" -> Return
      [] job.kind = "start" -> Goto("scan")
      [] OTHER -> Goto("unlist")

EndRollback ==
    /\ proc = "busy" /\ job.step = "restore" /\ job.todo = {}
    /\ LET rec == [job.rec EXCEPT !.status = IF job.errors THEN "compensation_failed"
                                             ELSE "rolled_back"] IN
       \/ Save(job.tx, rec) /\ IF job.errors THEN ReturnError ELSE RolledBack
       \/ SaveFails(job.tx, rec) /\ ReturnError
    /\ UNCHANGED <<files, owned, grants, live, loose, crashes, drops, overlaid>>

-----------------------------------------------------------------------------
(* rollback_current, and remove, which repeats it until the pack is gone.   *)

Withdraw ==
    /\ Busy({"rollback", "remove"}, "withdraw")
    /\ LET p == job.rec.pack IN
       IF Installed(p)
       THEN \/ /\ TakeDown(p)
               /\ job' = [job EXCEPT !.step = "revoke", !.tx = Current(p)]
               /\ UNCHANGED proc
            \/ TakeDownFails(p) /\ ReturnError /\ UNCHANGED loose
       ELSE Return /\ UNCHANGED <<live, loose, faulty>>
    /\ UNCHANGED <<durable, crashes, drops, overlaid>>

(* rollback_managed *)
Load ==
    /\ Busy({"rollback", "remove"}, "load")
    /\ LET old == journal[job.tx]
           rec == [old EXCEPT !.status = "rolling_back"] IN
       IF old.managed /\ old.status \in {"committed", "rolling_back"}
       THEN /\ \/ Save(job.tx, rec) /\ Undo(rec)
               \/ old.status = "committed" /\ SaveFails(job.tx, rec) /\ ReturnError
            /\ overlaid' = (overlaid \/ Open \ {job.tx} # {})
       ELSE ReturnError /\ UNCHANGED <<journal, faulty, overlaid>>
    /\ UNCHANGED <<files, owned, grants, live, loose, crashes, drops>>

Unlisting(t) == [owned EXCEPT ![journal[t].pack] = Front(@)]

(* ownership.uncommit *)
Unlist ==
    /\ Busy({"rollback", "remove"}, "unlist")
    /\ LET p == job.rec.pack IN
       \/ /\ owned' = Unlisting(job.tx)
          /\ IF job.kind = "remove" /\ owned'[p] # << >> THEN Goto("withdraw") ELSE Return
          /\ UNCHANGED faulty
       \/ Fault /\ owned' \in {owned, Unlisting(job.tx)} /\ ReturnError
    /\ UNCHANGED <<files, journal, grants, live, loose, crashes, drops, overlaid>>

-----------------------------------------------------------------------------
(* recover, when the container is built. *)

(* The records come in the order of random identifiers. *)
Scan ==
    /\ Busy({"start"}, "scan")
    /\ \/ \E t \in Unsettled :
            IF journal[t].status \in {"compensation_failed", "commit_decided"}
            THEN ReturnError
            ELSE /\ job' = [job EXCEPT !.step = "mark", !.tx = t, !.rec = journal[t]]
                 /\ UNCHANGED proc
       \/ Unsettled = {} /\ Goto("settle")
    /\ UNCHANGED <<durable, live, loose, bounds>>

(* A managed commit that was rolled back is no longer owned, nor granted.   *)
Settle ==
    /\ Busy({"start"}, "settle")
    /\ \E t \in TakenBack \cap Listed :
         IF t = Current(journal[t].pack)
         THEN \/ owned' = Unlisting(t) /\ UNCHANGED <<proc, job, faulty>>
              \/ Fault /\ owned' \in {owned, Unlisting(t)} /\ ReturnError
         ELSE ReturnError /\ UNCHANGED <<owned, faulty>>
    /\ UNCHANGED <<files, journal, grants, live, loose, crashes, drops, overlaid>>

SettleGrants ==
    /\ Busy({"start"}, "settle")
    /\ TakenBack \cap Listed = {}
    /\ LET kept == {g \in grants : g[1] \notin TakenBack} IN
       \/ grants' = kept /\ Goto("activate") /\ UNCHANGED faulty
       \/ kept # grants /\ Fault /\ grants' \in {grants, kept} /\ ReturnError
    /\ UNCHANGED <<files, journal, owned, live, loose, crashes, drops, overlaid>>

GrantedPacks(G) == {p \in Packs : Installed(p) /\ \E g \in G : g[1] = Current(p)}

(* reconcile_live_activations, which a one-shot command does not run: stale *)
(* grants are revoked, the packs that are granted are activated; a failure  *)
(* is a warning.                                                            *)
Reactivate ==
    /\ Busy({"start"}, "activate")
    /\ LET kept == {g \in grants : \E p \in Packs : Installed(p) /\ g[1] = Current(p)} IN
       \/ grants' = kept /\ live' = Activated(GrantedPacks(kept)) /\ UNCHANGED faulty
       \/ /\ Fault /\ grants' \in {grants, kept}
          /\ \E P \in SUBSET GrantedPacks(kept) : live' = Activated(P)
       \/ UNCHANGED <<grants, live, faulty>>
    /\ Return
    /\ UNCHANGED <<files, journal, owned, loose, crashes, drops, overlaid>>

-----------------------------------------------------------------------------
(* Activation.  The lock is held while the user is asked. *)

Ask(p, w) ==
    /\ Installed(p) /\ Executables(p) # {}
    /\ Take([Job("grant", "prompt", journal[Current(p)]) EXCEPT !.workspace = w, !.tx = Current(p)])

(* Approved, or denied, cancelled or timed out. *)
Answer ==
    /\ Busy({"grant"}, "prompt")
    /\ LET granted == grants \cup {<<job.tx, job.workspace>>} IN
       \/ grants' = granted /\ Return /\ UNCHANGED faulty
       \/ Fault /\ grants' \in {grants, granted} /\ ReturnError
       \/ Return /\ UNCHANGED <<grants, faulty>>
    /\ UNCHANGED <<files, journal, owned, live, loose, crashes, drops, overlaid>>

(* activate_granted: a failed activation undoes what it activated. *)
Activate(p, w) ==
    /\ proc = "idle"
    /\ Installed(p) /\ <<Current(p), w>> \in grants
    /\ \/ /\ live' = Activated({p})
          /\ loose' = IF \E t \in Open : journal[t].pack = p THEN loose \cup {p} ELSE loose \ {p}
          /\ UNCHANGED faulty
       \/ Fault /\ UNCHANGED <<live, loose>>
    /\ UNCHANGED <<durable, proc, job, crashes, drops, overlaid>>

(* revoke_activation: the last workspace's revocation takes the pack down.  *)
RevokeActivation(p, w) ==
    /\ proc = "idle"
    /\ Installed(p) /\ <<Current(p), w>> \in grants
    /\ LET kept == grants \ {<<Current(p), w>>} IN
       \/ /\ grants' = kept
          /\ IF p \in GrantedPacks(kept) THEN UNCHANGED <<live, loose, faulty>> ELSE TakeDown(p)
       \/ /\ \/ Fault /\ grants' \in {grants, kept} /\ UNCHANGED live
             \/ p \notin GrantedPacks(kept) /\ grants' = kept /\ TakeDownFails(p)
          /\ loose' = IF p \in GrantedPacks(grants') THEN loose ELSE loose \cup {p}
    /\ UNCHANGED <<files, journal, owned, proc, job, crashes, drops, overlaid>>

-----------------------------------------------------------------------------
(* The end of a process, and of a request. *)

Down == proc' = "down" /\ job' = NoJob /\ live' = Nothing /\ loose' = {}

(* A directory is replaced by two renames, and is missing between them.     *)
Crash ==
    /\ proc # "down"
    /\ crashes < MaxCrashes
    /\ crashes' = crashes + 1
    /\ \/ UNCHANGED files
       \/ /\ job.step \in {"apply", "restore"} /\ job.todo # {}
          /\ files' = [files EXCEPT ![InHand] = NoContent]
    /\ Down
    /\ UNCHANGED <<journal, owned, grants, faulty, drops, overlaid>>

Stop ==
    /\ proc = "idle"
    /\ Down
    /\ UNCHANGED <<durable, bounds>>

(* The client goes away and the request ends at the await it is in.         *)
Drop ==
    /\ proc = "busy" /\ job.kind # "start"
    /\ job.step \in {"check", "withdraw", "snapshot", "apply", "restore", "prompt"}
    /\ drops < MaxDrops
    /\ drops' = drops + 1
    /\ Return
    /\ UNCHANGED <<durable, live, loose, crashes, faulty, overlaid>>

Proceed ==
    \/ Start
    \/ ReconcileOwnership \/ ReconcileCommit \/ Reconciled
    \/ Check \/ Revoke \/ Begin \/ Applying \/ Snapshot \/ Apply \/ AwaitCommit
    \/ Decide \/ Own \/ MarkCommitted
    \/ MarkRollingBack \/ Restore \/ EndRollback
    \/ Withdraw \/ Load \/ Unlist
    \/ Scan \/ Settle \/ SettleGrants \/ Reactivate

Call(p) ==
    \/ CallRollback(p)
    \/ \E v \in DOMAIN Content[p] : CallInstall(p, v)
    \/ \E w \in Workspaces : Ask(p, w) \/ Activate(p, w) \/ RevokeActivation(p, w)

Next == Proceed \/ Answer \/ Crash \/ Stop \/ \E p \in Packs : Call(p)

Spec == Init /\ [][Next]_vars

(* The process is started again, and what it has begun goes on; nothing     *)
(* makes a user answer.                                                     *)
FairSpec == Spec /\ WF_vars(Proceed)

(* The operations as a server runs them, whose clients may go away.         *)
SpecWithDrops == Init /\ [][Next \/ Drop]_vars

-----------------------------------------------------------------------------
(* Properties. *)

Wanted(r) ==
    IF \E p \in Packs : Installed(p) /\ r \in ResourcesOf[p]
    THEN LET p == CHOOSE p \in Packs : Installed(p) /\ r \in ResourcesOf[p]
         IN  Content[p][journal[Current(p)].ver][r]
    ELSE Before[r]

(* "Declarative resources commit as one logical transaction."               *)
(* (CAPABILITY_PACK_STANDARD.md): when no operation is under way and no     *)
(* transaction is open, every resource has the content of the version that  *)
(* is installed, or what the user had there before.                         *)
CommitsAsOne ==
    proc = "idle" /\ Unsettled = {} => files = [r \in Resources |-> Wanted(r)]

(* The same, through crashes, failing writes and the calls a server takes   *)
(* after an error: as long as none of them went ahead over what an error    *)
(* had left open, and what is open is left to recovery.                     *)
InstalledIsWhole ==
    proc = "idle" /\ Open = {} /\ ~overlaid => files = [r \in Resources |-> Wanted(r)]

(* What runs was approved for the version that is installed, in a workspace *)
(* whose grant still stands, and is what that version declares; a pack that *)
(* a failed revocation left live, loose, or that was activated in the middle of *)
(* its own change, runs on until it is taken down.                          *)
LiveIsGranted ==
    proc = "idle" /\ ~overlaid =>
      \A r \in Resources : live[r] # NoContent =>
        \/ \E p \in GrantedPacks(grants) : r \in Executables(p) /\ live[r] = Wanted(r)
        \/ \E p \in loose : r \in Executables(p)

(* "Startup recovery": a process that can start does, after crashes and     *)
(* failing writes in any step; only a compensation that failed asks for an  *)
(* operator.  The transaction that a later one went ahead over may no       *)
(* longer be the current one of its pack, and every start is refused.       *)
RecoveryEnds ==
    proc = "down" ~> \/ proc = "idle" \/ overlaid
                     \/ \E t \in Txs : journal[t].status = "compensation_failed"

(* The history of a pack, as its durable decisions tell it: a version is    *)
(* installed once its commit is decided, and gone once it is rolled back.   *)
Undone == {t \in Txs : journal[t].status \in {"rolling_back", "rolled_back", "compensation_failed"}}

Without(seq, T) ==
    LET stays == {i \in DOMAIN seq : seq[i] \notin T} IN
    [n \in 1 .. Cardinality(stays) |->
       seq[CHOOSE i \in stays : Cardinality({j \in stays : j <= i}) = n]]

Standing(p) ==
    LET decided == {t \in Txs : /\ journal[t].pack = p /\ journal[t].managed
                                /\ journal[t].status \in Decided /\ t \notin Listed}
        all == Without(owned[p], Undone) \o SetToSeq(decided)
    IN  [n \in DOMAIN all |-> journal[all[n]].ver]

(* Installation implements PackVersions: each step of it, crash or fault    *)
(* adds a newer version on top, takes one version back, or changes nothing. *)
Versioned == INSTANCE PackVersions WITH history <- [p \in Packs |-> Standing(p)]

VersionsSpec == Versioned!Spec
=============================================================================
