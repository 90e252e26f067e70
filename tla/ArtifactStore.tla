--------------------------- MODULE ArtifactStore ---------------------------
(***************************************************************************)
(* LocalAppendOnlyRunStore (storage/artifact_store.cpp): the objects of a  *)
(* run are published in two storage domains, one after the other, then a   *)
(* copy-ledger record in the first.  Each of the three is staged, written, *)
(* synced, read back, hard-linked without replacement, its directory       *)
(* synced, read back again and its staging name removed.  Any call may     *)
(* fail, and between any two the process may stop or the power fail.       *)
(*                                                                         *)
(* The file system is external: an entry or the bytes of a file that were  *)
(* not synced may or may not be there after a power failure.  The fault    *)
(* plan of the configuration asks for failures that are possible here      *)
(* anyway.  Identities stand for the file names that are their hashes.     *)
(***************************************************************************)
EXTENDS Integers, FiniteSets

CONSTANTS
    Objects, Artifacts, Records,    \* identities a caller may use
    Payloads                        \* bytes of an object

Domains == {"primary", "secondary"}
Places == Domains \cup {"ledger"}
Names == Objects \cup Records
Torn == {"nothing", "partial"}      \* bytes that are not the whole payload

ASSUME StoreAssumption == Objects \cap Records = {} /\ Payloads \cap Torn = {}

\* Bytes of a file: a payload, or a ledger record that names one.
Raw(object, payload) == [bytes |-> payload, object |-> object, state |-> "raw"]
LedgerDocument(object, payload, state) ==
    [bytes |-> payload, object |-> object, state |-> state]

NoFile == [entry |-> "absent", data |-> "none", synced |-> FALSE]

Requests ==
    [object : Objects, artifact : Artifacts, record : Records, payload : Payloads,
     shaMatches : BOOLEAN, completeness : {"writing", "sealed", "incomplete"}]

VARIABLES
    dirs,           \* a run directory per domain: absent, partial, cached, durable
    staging,        \* staging[place][name], objects and ledger-staging
    published,      \* published[place][name]
    mode,           \* none, creating, create_new, recover_existing
    objectIds,      \* object_ids_
    artifactIds,    \* artifact_ids_
    job,            \* the call in progress
    results         \* history: results that publish returned

files == <<staging, published>>
memory == <<mode, objectIds, artifactIds>>
vars == <<dirs, files, memory, job, results>>

Idle == [pc |-> "idle", place |-> "primary"]
Visible(file) == file.entry \in {"cached", "durable"}

Init ==
    /\ dirs = [d \in Domains |-> "absent"]
    /\ staging = [p \in Places |-> [n \in Names |-> NoFile]]
    /\ published = [p \in Places |-> [n \in Names |-> NoFile]]
    /\ mode = "none"
    /\ objectIds = {} /\ artifactIds = {}
    /\ job = Idle
    /\ results = {}

-----------------------------------------------------------------------------
(* Opening a store.                                                        *)

OpenNew ==
    /\ mode = "none"
    /\ mode' = "creating"
    /\ job' = [pc |-> "mkdir", place |-> "primary"]
    /\ UNCHANGED <<dirs, files, objectIds, artifactIds, results>>

\* The directories of a run are created once: an existing one is refused.
MakeDirectories ==
    /\ job.pc = "mkdir"
    /\ dirs[job.place] = "absent"
    /\ dirs' = [dirs EXCEPT ![job.place] = "cached"]
    /\ job' = [job EXCEPT !.pc = "sync_dirs"]
    /\ UNCHANGED <<files, memory, results>>

\* The constructor throws: what it has made so far stays.
OpenFails ==
    /\ job.pc \in {"mkdir", "sync_dirs"}
    /\ \/ UNCHANGED dirs
       \/ /\ job.pc = "mkdir" /\ dirs[job.place] = "absent"
          /\ dirs' = [dirs EXCEPT ![job.place] = "partial"]
    /\ mode' = "none"
    /\ job' = Idle
    /\ UNCHANGED <<files, objectIds, artifactIds, results>>

SyncDirectories ==
    /\ job.pc = "sync_dirs"
    /\ dirs' = [dirs EXCEPT ![job.place] = "durable"]
    /\ IF job.place = "primary"
       THEN job' = [pc |-> "mkdir", place |-> "secondary"] /\ UNCHANGED mode
       ELSE job' = Idle /\ mode' = "create_new"
    /\ UNCHANGED <<files, objectIds, artifactIds, results>>

OpenExisting ==
    /\ mode = "none"
    /\ \A d \in Domains : dirs[d] \in {"cached", "durable"}
    /\ mode' = "recover_existing"
    /\ UNCHANGED <<dirs, files, objectIds, artifactIds, job, results>>

-----------------------------------------------------------------------------
(* publish.                                                                *)

StartCopy(req, place, copies) ==
    [pc |-> "stage", place |-> place, req |-> req, copies |-> copies, failed |-> FALSE,
     doc |-> "none"]

\* Mutant: only an accepted request reserves its object ID.
BeginPublishReserveLate(req) ==
    /\ mode = "create_new" /\ job = Idle
    /\ req.object \notin objectIds
    /\ req.artifact \notin artifactIds
    /\ artifactIds' = artifactIds \cup {req.artifact}
    /\ job' = StartCopy(req, "primary", {})
    /\ UNCHANGED <<dirs, files, mode, objectIds, results>>

\* The identities are reserved whatever becomes of the request; bytes that
\* disagree with their hash are never staged.
BeginPublish(req) ==
    /\ mode = "create_new" /\ job = Idle
    /\ req.object \notin objectIds
    /\ objectIds' = objectIds \cup {req.object}
    /\ artifactIds' = artifactIds \cup {req.artifact}
    /\ job' = IF req.artifact \in artifactIds THEN Idle
              ELSE IF req.shaMatches THEN StartCopy(req, "primary", {})
              ELSE [StartCopy(req, "primary", {}) EXCEPT !.pc = "conclude", !.failed = TRUE]
    /\ UNCHANGED <<dirs, files, mode, results>>

Name == IF job.place = "ledger" THEN job.req.record ELSE job.req.object
Content == IF job.place = "ledger" THEN job.doc ELSE Raw(job.req.object, job.req.payload)

Then(pc) == job' = [job EXCEPT !.pc = pc]

SetStaging(file) == staging' = [staging EXCEPT ![job.place][Name] = file]

\* Exclusive creation of the staging name.
Stage ==
    /\ job.pc = "stage"
    /\ ~ Visible(staging[job.place][Name])
    /\ SetStaging([entry |-> "cached", data |-> [Content EXCEPT !.bytes = "nothing"],
                   synced |-> FALSE])
    /\ Then("write")
    /\ UNCHANGED <<dirs, published, memory, results>>

Write ==
    /\ job.pc = "write"
    /\ SetStaging([staging[job.place][Name] EXCEPT !.data = Content])
    /\ Then("sync")
    /\ UNCHANGED <<dirs, published, memory, results>>

SyncFile ==
    /\ job.pc = "sync"
    /\ SetStaging([staging[job.place][Name] EXCEPT !.synced = TRUE])
    /\ Then("verify_staging")
    /\ UNCHANGED <<dirs, published, memory, results>>

VerifyStaging ==
    /\ job.pc = "verify_staging"
    /\ staging[job.place][Name].data = Content
    /\ Then("link")
    /\ UNCHANGED <<dirs, files, memory, results>>

\* Mutant: the published name is replaced.
LinkReplaces ==
    /\ job.pc = "link"
    /\ published' = [published EXCEPT ![job.place][Name] =
                        [staging[job.place][Name] EXCEPT !.entry = "cached"]]
    /\ Then("sync_published")
    /\ UNCHANGED <<dirs, staging, memory, results>>

\* The hard link fails when the published name exists.
Link ==
    /\ job.pc = "link"
    /\ ~ Visible(published[job.place][Name])
    /\ published' = [published EXCEPT ![job.place][Name] =
                        [staging[job.place][Name] EXCEPT !.entry = "cached"]]
    /\ Then("sync_published")
    /\ UNCHANGED <<dirs, staging, memory, results>>

\* What a synced directory holds.
Synced(directory) ==
    [n \in Names |->
        CASE directory[n].entry = "cached" -> [directory[n] EXCEPT !.entry = "durable"]
          [] directory[n].entry = "removed" -> NoFile
          [] OTHER -> directory[n]]

\* Mutant: the directory of the published name is not synced.
SyncPublishedSkipped ==
    /\ job.pc = "sync_published"
    /\ Then("verify_published")
    /\ UNCHANGED <<dirs, files, memory, results>>

SyncPublished ==
    /\ job.pc = "sync_published"
    /\ published' = [published EXCEPT ![job.place] = Synced(@)]
    /\ Then("verify_published")
    /\ UNCHANGED <<dirs, staging, memory, results>>

VerifyPublished ==
    /\ job.pc = "verify_published"
    /\ published[job.place][Name].data = Content
    /\ Then("unlink")
    /\ UNCHANGED <<dirs, files, memory, results>>

Unlink ==
    /\ job.pc = "unlink"
    /\ SetStaging([staging[job.place][Name] EXCEPT !.entry = "removed"])
    /\ Then("sync_staging")
    /\ UNCHANGED <<dirs, published, memory, results>>

\* Mutant: a failed persistence does not change the returned state.
ReturnAsPlanned(persisted) ==
    /\ results' = results \cup
         {[object |-> job.req.object, record |-> job.req.record,
           payload |-> job.req.payload, copies |-> job.copies,
           state |-> job.doc.state]}
    /\ job' = Idle

\* The result of publish: incomplete unless the ledger record persisted.
Return(persisted) ==
    /\ results' = results \cup
         {[object |-> job.req.object, record |-> job.req.record,
           payload |-> job.req.payload, copies |-> job.copies,
           state |-> IF persisted THEN job.doc.state ELSE "incomplete"]}
    /\ job' = Idle

\* The last call of a copy: on to the second domain, to the ledger, or back.
SyncStaging ==
    /\ job.pc = "sync_staging"
    /\ staging' = [staging EXCEPT ![job.place] = Synced(@)]
    /\ CASE job.place = "primary" ->
              job' = StartCopy(job.req, "secondary", {"primary"}) /\ UNCHANGED results
         [] job.place = "secondary" ->
              /\ job' = [job EXCEPT !.pc = "conclude", !.copies = Domains]
              /\ UNCHANGED results
         [] OTHER -> Return(TRUE)
    /\ UNCHANGED <<dirs, published, memory>>

\* Mutant: a complete stream is enough for a sealed record.
ConcludedStateByStream ==
    IF job.req.completeness = "sealed" THEN "sealed" ELSE "incomplete"

\* The state of the ledger record.
ConcludedState ==
    IF job.req.completeness = "sealed" /\ job.copies = Domains /\ ~ job.failed
    THEN "sealed" ELSE "incomplete"

\* The ledger document; a stream still being written cannot enter it.
Conclude ==
    /\ job.pc = "conclude"
    /\ job' = IF job.req.completeness = "writing" THEN Idle
              ELSE [job EXCEPT !.pc = "stage", !.place = "ledger",
                               !.doc = LedgerDocument(job.req.object, job.req.payload,
                                                      ConcludedState)]
    /\ UNCHANGED <<dirs, files, memory, results>>

\* What a failed call leads to: no second copy, or no persisted ledger.
Abandon ==
    IF job.place = "ledger" THEN Return(FALSE)
    ELSE job' = [job EXCEPT !.pc = "conclude", !.failed = TRUE] /\ UNCHANGED results

CallPcs == {"stage", "write", "sync", "verify_staging", "link", "sync_published",
            "verify_published", "unlink", "sync_staging"}

CallFails ==
    /\ job.pc \in CallPcs
    /\ IF job.pc = "write"
       THEN \/ UNCHANGED staging
            \/ SetStaging([staging[job.place][Name] EXCEPT !.data.bytes = "partial"])
       ELSE UNCHANGED staging
    /\ Abandon
    /\ UNCHANGED <<dirs, published, memory>>

-----------------------------------------------------------------------------
(* recover_staging, in either mode.                                        *)

RecoveryJob(pc, place, object, payload) ==
    [pc |-> pc, place |-> place, object |-> object, payload |-> payload]

\* The object is published already.
RecoverPublished(place, object, payload) ==
    /\ mode \in {"create_new", "recover_existing"} /\ job = Idle
    /\ Visible(published[place][object])
    /\ published[place][object].data = Raw(object, payload)
    /\ job' = RecoveryJob("report", place, object, payload)
    /\ UNCHANGED <<dirs, files, memory, results>>

\* A staging candidate of exactly the expected bytes is linked ...
RecoverLink(place, object, payload) ==
    /\ mode \in {"create_new", "recover_existing"} /\ job = Idle
    /\ ~ Visible(published[place][object])
    /\ Visible(staging[place][object])
    /\ staging[place][object].data = Raw(object, payload)
    /\ published' = [published EXCEPT ![place][object] =
                        [staging[place][object] EXCEPT !.entry = "cached"]]
    /\ job' = RecoveryJob("promote_sync", place, object, payload)
    /\ UNCHANGED <<dirs, staging, memory, results>>

\* ... its directory synced ...
PromoteSync ==
    /\ job.pc = "promote_sync"
    /\ published' = [published EXCEPT ![job.place] = Synced(@)]
    /\ job' = [job EXCEPT !.pc = "promote_verify"]
    /\ UNCHANGED <<dirs, staging, memory, results>>

\* ... and the object read back.
PromoteVerify ==
    /\ job.pc = "promote_verify"
    /\ published[job.place][job.object].data = Raw(job.object, job.payload)
    /\ job' = [job EXCEPT !.pc = "report"]
    /\ UNCHANGED <<dirs, files, memory, results>>

\* The copy is returned as verified.
RecoverReturns ==
    /\ job.pc = "report"
    /\ job' = Idle
    /\ UNCHANGED <<dirs, files, memory, results>>

PromoteFails ==
    /\ job.pc \in {"promote_sync", "promote_verify"}
    /\ job' = Idle
    /\ UNCHANGED <<dirs, files, memory, results>>

-----------------------------------------------------------------------------
(* The end of a process, and of everything unsynced (external).            *)

Forget == mode' = "none" /\ objectIds' = {} /\ artifactIds' = {} /\ job' = Idle

ProcessStops ==
    /\ mode # "none"
    /\ Forget
    /\ UNCHANGED <<dirs, files, results>>

\* Names whose entry, and files whose bytes, a power failure may lose.
EntriesInDoubt(tree) ==
    {x \in Places \X Names : tree[x[1]][x[2]].entry \in {"cached", "removed"}}
BytesInDoubt(tree) ==
    {x \in Places \X Names : Visible(tree[x[1]][x[2]]) /\ ~ tree[x[1]][x[2]].synced}

\* A staging name and the published name linked to it share their bytes, so
\* one set of torn files serves both trees.
AfterPowerFailure(tree, lost, torn) ==
    [p \in Places |-> [n \in Names |->
        IF tree[p][n].entry = "absent" \/ <<p, n>> \in lost THEN NoFile
        ELSE [entry |-> "durable", synced |-> TRUE,
              data |-> IF <<p, n>> \in torn /\ ~ tree[p][n].synced
                       THEN [tree[p][n].data EXCEPT !.bytes = "partial"]
                       ELSE tree[p][n].data]]]

\* What becomes of a run's directories.
DirectoryAfterPowerFailure(directory) ==
    CASE directory = "cached" -> {"absent", "partial", "durable"}
      [] directory = "partial" -> {"absent", "partial"}
      [] OTHER -> {directory}

\* All of it is on the disk after, or none: nothing is in doubt any more.
PowerFails ==
    /\ Forget
    /\ \E torn \in SUBSET (BytesInDoubt(staging) \cup BytesInDoubt(published)) :
         /\ \E lost \in SUBSET EntriesInDoubt(staging) :
              staging' = AfterPowerFailure(staging, lost, torn)
         /\ \E lost \in SUBSET EntriesInDoubt(published) :
              published' = AfterPowerFailure(published, lost, torn)
    /\ \E first \in DirectoryAfterPowerFailure(dirs["primary"]),
          second \in DirectoryAfterPowerFailure(dirs["secondary"]) :
         dirs' = [dirs EXCEPT !["primary"] = first, !["secondary"] = second]
    /\ UNCHANGED results

-----------------------------------------------------------------------------
Opening ==
    OpenNew \/ MakeDirectories \/ OpenFails \/ SyncDirectories \/ OpenExisting

Publishing ==
    \/ \E req \in Requests : BeginPublish(req)
    \/ Stage \/ Write \/ SyncFile \/ VerifyStaging \/ Link \/ SyncPublished
    \/ VerifyPublished \/ Unlink \/ SyncStaging \/ Conclude \/ CallFails

Recovering ==
    \/ \E d \in Domains, o \in Objects, b \in Payloads :
         RecoverPublished(d, o, b) \/ RecoverLink(d, o, b)
    \/ PromoteSync \/ PromoteVerify \/ PromoteFails \/ RecoverReturns

Next == Opening \/ Publishing \/ Recovering \/ ProcessStops \/ PowerFails

Spec == Init /\ [][Next]_vars

-----------------------------------------------------------------------------
(* Properties.                                                             *)

Data ==
    [bytes : Payloads \cup Torn, object : Objects, state : {"raw", "sealed", "incomplete"}]
Files ==
    [entry : {"cached", "durable", "removed"}, data : Data, synced : BOOLEAN]

\* Types, and: a call works on an identity that it has reserved.
StoreTypeOK ==
    /\ dirs \in [Domains -> {"absent", "partial", "cached", "durable"}]
    /\ \A p \in Places, n \in Names :
         /\ staging[p][n] = NoFile \/ staging[p][n] \in Files
         /\ published[p][n] = NoFile \/ published[p][n] \in Files
    /\ mode \in {"none", "creating", "create_new", "recover_existing"}
    /\ job.pc \in CallPcs \cup {"conclude"} =>
         job.req.object \in objectIds /\ job.req.artifact \in artifactIds

\* The name is on the disk with these bytes, whatever happens to the power.
Durable(place, name, data) ==
    published[place][name] = [entry |-> "durable", data |-> data, synced |-> TRUE]

\* A ledger record that anyone can read as sealed names an object with two
\* durable, whole copies: also after any failure, stop or power failure, and
\* while the record itself is still being published (publish, publish_one).
SealedMeansTwoCopies ==
    \A r \in Records :
        LET file == published["ledger"][r]
        IN  Visible(file) /\ file.data.state = "sealed" =>
                /\ file.data.bytes \notin Torn
                /\ \A d \in Domains :
                     Durable(d, file.data.object, Raw(file.data.object, file.data.bytes))

\* A copy that publish returned as verified is never lost, torn or replaced.
VerifiedCopiesSurvive ==
    \A r \in results : \A d \in r.copies :
        Durable(d, r.object, Raw(r.object, r.payload))

\* A result that says sealed has its ledger record on the disk, for good.
SealedResultIsOnDisk ==
    \A r \in results :
        r.state = "sealed" =>
            Durable("ledger", r.record, LedgerDocument(r.object, r.payload, "sealed"))

\* Append-only: once a published name and its bytes are synced, no later
\* publication, recovery, stop or power failure changes what it names (Link,
\* RecoverLink).
PublishedIsPermanent ==
    [][\A p \in Places, n \in Names :
         published[p][n].entry = "durable" /\ published[p][n].synced =>
             published'[p][n] = published[p][n]]_vars

\* What the storage decision says of the backend, a data sync before every
\* publication: a copy that recover_staging returns as verified, under a name
\* that is on disk, has its bytes on disk.
RecoveredBytesAreSynced ==
    LET copy == published[job.place][job.object]
    IN  job.pc = "report" /\ copy.entry = "durable" => copy.synced

\* The copies on disk at every step, crash and power failure: a sealed ledger
\* has two of them, and those reported as verified survive.
CopiesInv == StoreTypeOK /\ SealedMeansTwoCopies /\ VerifiedCopiesSurvive
=============================================================================
