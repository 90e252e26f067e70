------------------------ MODULE ArtifactStoreProofs ------------------------
(***************************************************************************)
(* ArtifactStore for every set of identities and payloads: what is synced  *)
(* stays, a sealed ledger record has its two copies, and a sealed result   *)
(* its record, whatever fails, stops or loses power in between.            *)
(***************************************************************************)
EXTENDS ArtifactStore, TLAPS

USE StoreAssumption

-----------------------------------------------------------------------------
(* The inductive invariant.                                                *)

AnyFile == Files \cup {NoFile}
PublishPcs == CallPcs \cup {"conclude"}
LedgerStates == {"sealed", "incomplete"}

OpenJobs == [pc : {"mkdir", "sync_dirs"}, place : Domains]
PublishJobs ==
    [pc : PublishPcs, place : Places, req : Requests, copies : SUBSET Domains,
     failed : BOOLEAN, doc : Data \cup {"none"}]
RecoveryJobs ==
    [pc : {"promote_sync", "promote_verify", "report"}, place : Domains,
     object : Objects, payload : Payloads]
Results ==
    [object : Objects, record : Records, payload : Payloads, copies : SUBSET Domains,
     state : LedgerStates]

StoreShape ==
    /\ dirs \in [Domains -> {"absent", "partial", "cached", "durable"}]
    /\ mode \in {"none", "creating", "create_new", "recover_existing"}
    /\ staging \in [Places -> [Names -> AnyFile]]
    /\ published \in [Places -> [Names -> AnyFile]]
    /\ job \in {Idle} \cup OpenJobs \cup PublishJobs \cup RecoveryJobs
    /\ results \in SUBSET Results

\* A published name is never unlinked, and a ledger record is synced before
\* it is linked.
PublishedShape ==
    /\ \A p \in Places, n \in Names : published[p][n].entry # "removed"
    /\ \A n \in Names : Visible(published["ledger"][n]) => published["ledger"][n].synced

\* What a publication has behind it: its reservations, the copies it counts,
\* and a ledger document that says sealed only with both of them.
JobKnows ==
    job.pc \in PublishPcs =>
        /\ job.req.object \in objectIds /\ job.req.artifact \in artifactIds
        /\ \A d \in job.copies :
             Durable(d, job.req.object, Raw(job.req.object, job.req.payload))
        /\ job.place = "secondary" => "primary" \in job.copies
        /\ job.place = "ledger" =>
             /\ job.doc.state \in LedgerStates
             /\ job.doc = LedgerDocument(job.req.object, job.req.payload, job.doc.state)
             /\ job.doc.state = "sealed" => job.copies = Domains

\* What the call sequence of one file has reached.
CallKnows ==
    /\ job.pc \in {"write", "sync", "verify_staging", "link", "sync_published",
                   "verify_published", "unlink"} =>
         staging[job.place][Name].entry = "cached"
    /\ job.pc \in {"sync", "verify_staging", "link"} =>
         staging[job.place][Name].data = Content
    /\ job.pc \in {"verify_staging", "link"} => staging[job.place][Name].synced
    /\ job.pc = "sync_published" =>
         published[job.place][Name] = [entry |-> "cached", data |-> Content, synced |-> TRUE]
    /\ job.pc \in {"verify_published", "unlink", "sync_staging"} =>
         Durable(job.place, Name, Content)

StoreInv ==
    /\ StoreShape
    /\ PublishedShape
    /\ JobKnows
    /\ CallKnows
    /\ SealedMeansTwoCopies
    /\ VerifiedCopiesSurvive
    /\ SealedResultIsOnDisk

-----------------------------------------------------------------------------
(* Facts that the steps share.                                             *)

\* The job of a publication, its file name and the bytes it writes.
LEMMA PublicationFacts ==
    ASSUME StoreInv, job.pc \in PublishPcs
    PROVE  /\ job \in PublishJobs
           /\ job.req.object \in Objects /\ job.req.record \in Records
           /\ job.req.payload \in Payloads
           /\ Name \in Names
           /\ job.place = "ledger" => Name = job.req.record /\ Content = job.doc
           /\ job.place # "ledger" => /\ Name = job.req.object
                                      /\ Content = Raw(job.req.object, job.req.payload)
           /\ Content \in Data
<1>1. job \in PublishJobs
  <2>1. Idle.pc = "idle" /\ \A j \in OpenJobs : j.pc \notin PublishPcs
    BY DEF Idle, OpenJobs, PublishPcs, CallPcs
  <2>2. \A j \in RecoveryJobs : j.pc \notin PublishPcs
    BY DEF RecoveryJobs, PublishPcs, CallPcs
  <2>3. "idle" \notin PublishPcs
    BY DEF PublishPcs, CallPcs
  <2>. QED  BY <2>1, <2>2, <2>3 DEF StoreInv, StoreShape
<1>2. /\ job.req \in Requests /\ job.place \in Places
      /\ job.req.object \in Objects /\ job.req.record \in Records
      /\ job.req.payload \in Payloads
  BY <1>1 DEF PublishJobs, Requests
<1>3. Raw(job.req.object, job.req.payload) \in Data
  BY <1>2 DEF Raw, Data
<1>4. job.place = "ledger" => job.doc \in Data
  <2>1. ASSUME NEW st \in LedgerStates
        PROVE  LedgerDocument(job.req.object, job.req.payload, st) \in Data
    BY <1>2 DEF LedgerDocument, Data, LedgerStates
  <2>. QED  BY <2>1 DEF StoreInv, JobKnows
<1>. QED  BY <1>1, <1>2, <1>3, <1>4 DEF Name, Content, Names

\* A step of the call sequence changes the job's pc only.
LEMMA ThenFacts ==
    ASSUME StoreInv, job.pc \in PublishPcs, NEW x \in PublishPcs,
           job' = [job EXCEPT !.pc = x]
    PROVE  /\ job' \in PublishJobs
           /\ job'.pc = x /\ job'.place = job.place /\ job'.req = job.req
           /\ job'.copies = job.copies /\ job'.failed = job.failed /\ job'.doc = job.doc
           /\ Name' = Name
           /\ Content' = Content
<1>1. job \in PublishJobs
  BY PublicationFacts
<1>2. /\ job' \in PublishJobs
      /\ job'.pc = x /\ job'.place = job.place /\ job'.req = job.req
      /\ job'.copies = job.copies /\ job'.failed = job.failed /\ job'.doc = job.doc
  BY <1>1 DEF PublishJobs
<1>. QED  BY <1>2 DEF Name, Content

\* Published files that are durable and synced are left alone.
Kept ==
    \A p \in Places, n \in Names :
        published[p][n].entry = "durable" /\ published[p][n].synced =>
            published'[p][n] = published[p][n]

LEMMA DurableStays ==
    ASSUME Kept, NEW p \in Places, NEW n \in Names, NEW x, Durable(p, n, x)
    PROVE  Durable(p, n, x)'
<1>1. published[p][n].entry = "durable" /\ published[p][n].synced
  BY DEF Durable
<1>. QED  BY <1>1 DEF Durable, Kept

\* Kept files keep the promises made to callers.
LEMMA KeptResults ==
    ASSUME StoreInv, Kept, results' = results
    PROVE  VerifiedCopiesSurvive' /\ SealedResultIsOnDisk'
<1>1. \A r \in results : r.object \in Names /\ r.record \in Names /\ r.copies \subseteq Places
  BY DEF StoreInv, StoreShape, Results, Names, Places
<1>2. VerifiedCopiesSurvive'
  <2> SUFFICES ASSUME NEW r \in results, NEW d \in r.copies
               PROVE  Durable(d, r.object, Raw(r.object, r.payload))'
    BY DEF VerifiedCopiesSurvive
  <2>1. Durable(d, r.object, Raw(r.object, r.payload))
    BY DEF StoreInv, VerifiedCopiesSurvive
  <2>. QED  BY <1>1, <2>1, DurableStays
<1>3. SealedResultIsOnDisk'
  <2> SUFFICES ASSUME NEW r \in results, r.state = "sealed"
               PROVE  Durable("ledger", r.record,
                              LedgerDocument(r.object, r.payload, "sealed"))'
    BY DEF SealedResultIsOnDisk
  <2>1. Durable("ledger", r.record, LedgerDocument(r.object, r.payload, "sealed"))
    BY DEF StoreInv, SealedResultIsOnDisk
  <2>2. "ledger" \in Places
    BY DEF Places
  <2>. QED  BY <1>1, <2>1, <2>2, DurableStays
<1>. QED  BY <1>2, <1>3

\* With the ledger directory unchanged, kept files keep sealed records true.
LEMMA KeptSealed ==
    ASSUME StoreInv, Kept, published'["ledger"] = published["ledger"]
    PROVE  SealedMeansTwoCopies'
<1> SUFFICES ASSUME NEW r \in Records, Visible(published["ledger"][r]),
                    published["ledger"][r].data.state = "sealed"
             PROVE  LET file == published["ledger"][r]
                    IN  /\ file.data.bytes \notin Torn
                        /\ \A d \in Domains :
                             Durable(d, file.data.object,
                                     Raw(file.data.object, file.data.bytes))'
  BY DEF SealedMeansTwoCopies, Visible
<1> DEFINE file == published["ledger"][r]
<1>1. /\ file.data.bytes \notin Torn
      /\ \A d \in Domains :
           Durable(d, file.data.object, Raw(file.data.object, file.data.bytes))
  BY DEF StoreInv, SealedMeansTwoCopies
<1>2. file.data.object \in Names
  <2>1. file \in AnyFile
    BY DEF StoreInv, StoreShape, Places, Names
  <2>2. file \in Files
    BY <2>1 DEF AnyFile, NoFile, Visible
  <2>. QED  BY <2>2 DEF Files, Data, Names
<1>3. Domains \subseteq Places
  BY DEF Places
<1>. QED  BY <1>1, <1>2, <1>3, DurableStays

\* Steps that publish nothing keep everything said of published files.
LEMMA UnpublishedStep ==
    ASSUME StoreInv, published' = published, results' = results
    PROVE  /\ PublishedShape' /\ SealedMeansTwoCopies' /\ VerifiedCopiesSurvive'
           /\ SealedResultIsOnDisk'
<1>1. Kept
  BY DEF Kept
<1>2. PublishedShape'
  BY DEF StoreInv, PublishedShape, Visible
<1>. QED  BY <1>1, <1>2, KeptResults, KeptSealed

-----------------------------------------------------------------------------
LEMMA StoreInvInit == Init => StoreInv
<1> SUFFICES ASSUME Init PROVE StoreInv
  OBVIOUS
<1>1. \A p \in Places, n \in Names : published[p][n] = NoFile
  BY DEF Init
<1>2. StoreShape
  BY DEF Init, StoreShape, AnyFile
<1>3. PublishedShape
  BY <1>1 DEF PublishedShape, NoFile, Visible, Places
<1>4. JobKnows /\ CallKnows
  BY DEF Init, Idle, JobKnows, CallKnows, PublishPcs, CallPcs
<1>5. SealedMeansTwoCopies
  <2>1. \A r \in Records : ~ Visible(published["ledger"][r])
    BY <1>1 DEF NoFile, Visible, Places, Names
  <2>. QED  BY <2>1 DEF SealedMeansTwoCopies
<1>6. VerifiedCopiesSurvive /\ SealedResultIsOnDisk
  BY DEF Init, VerifiedCopiesSurvive, SealedResultIsOnDisk
<1>. QED  BY <1>2, <1>3, <1>4, <1>5, <1>6 DEF StoreInv

\* Opening a store, giving up a recovery and stopping: no file is touched,
\* and no publication is left.
LEMMA QuietStepsKeepInv ==
    ASSUME StoreInv, UNCHANGED <<files, results>>,
           dirs' \in [Domains -> {"absent", "partial", "cached", "durable"}],
           mode' \in {"none", "creating", "create_new", "recover_existing"},
           job' \in {Idle} \cup OpenJobs \cup RecoveryJobs
    PROVE  StoreInv'
<1>1. job'.pc \notin PublishPcs
  BY DEF Idle, OpenJobs, RecoveryJobs, PublishPcs, CallPcs
<1>2. JobKnows'
  BY <1>1 DEF JobKnows
<1>3. CallKnows'
  BY <1>1 DEF CallKnows, PublishPcs, CallPcs
<1>4. StoreShape'
  BY DEF StoreInv, StoreShape, files
<1>. QED  BY <1>2, <1>3, <1>4, UnpublishedStep DEF StoreInv, files

\* A publication that starts has reserved its identities and counts no copy.
LEMMA BeginKeepsInv ==
    ASSUME StoreInv, NEW req \in Requests, BeginPublish(req)
    PROVE  StoreInv'
<1>1. /\ UNCHANGED <<dirs, files, mode, results>>
      /\ objectIds' = objectIds \cup {req.object}
      /\ artifactIds' = artifactIds \cup {req.artifact}
  BY DEF BeginPublish
<1>2. CASE job' = Idle
  BY <1>1, <1>2, QuietStepsKeepInv DEF StoreInv, StoreShape
<1>3. CASE job' # Idle
  <2>1. /\ job' \in PublishJobs /\ job'.pc \in {"stage", "conclude"}
        /\ job'.req = req /\ job'.copies = {} /\ job'.place = "primary"
    BY <1>3 DEF BeginPublish, StartCopy, PublishJobs, PublishPcs, CallPcs, Places, Domains
  <2>2. StoreShape'
    BY <1>1, <2>1 DEF StoreInv, StoreShape, files
  <2>3. JobKnows'
    BY <1>1, <2>1 DEF JobKnows
  <2>4. CallKnows'
    BY <2>1 DEF CallKnows
  <2>. QED  BY <1>1, <2>2, <2>3, <2>4, UnpublishedStep DEF StoreInv, files
<1>. QED  BY <1>2, <1>3

\* The part of JobKnows that a step of the call sequence carries over.
LEMMA JobKnowsStays ==
    ASSUME StoreInv, job.pc \in PublishPcs, Kept, UNCHANGED <<objectIds, artifactIds>>,
           NEW x \in PublishPcs, job' = [job EXCEPT !.pc = x]
    PROVE  JobKnows'
<1>1. /\ job'.place = job.place /\ job'.req = job.req
      /\ job'.copies = job.copies /\ job'.doc = job.doc
  BY ThenFacts
<1>2. job.copies \subseteq Places /\ job.req.object \in Names
  BY PublicationFacts DEF PublishJobs, Places, Names
<1>3. ASSUME NEW d \in job.copies
      PROVE  Durable(d, job.req.object, Raw(job.req.object, job.req.payload))'
  <2>1. Durable(d, job.req.object, Raw(job.req.object, job.req.payload))
    BY DEF StoreInv, JobKnows
  <2>2. published[d][job.req.object].entry = "durable" /\ published[d][job.req.object].synced
    BY <2>1 DEF Durable
  <2>3. published'[d][job.req.object] = published[d][job.req.object]
    BY <1>2, <2>2 DEF Kept
  <2>. QED  BY <1>1, <2>1, <2>3 DEF Durable, Raw
<1>4. /\ job.req.object \in objectIds /\ job.req.artifact \in artifactIds
      /\ job.place = "secondary" => "primary" \in job.copies
      /\ job.place = "ledger" =>
           /\ job.doc.state \in LedgerStates
           /\ job.doc = LedgerDocument(job.req.object, job.req.payload, job.doc.state)
           /\ job.doc.state = "sealed" => job.copies = Domains
  BY DEF StoreInv, JobKnows
<1>. QED  BY <1>1, <1>3, <1>4 DEF JobKnows

\* The calls that write the staging file only.
LEMMA StagingKeepsInv ==
    ASSUME StoreInv, Stage \/ Write \/ SyncFile \/ Unlink
    PROVE  StoreInv'
<1> DEFINE p == job.place
           f == staging[p][Name]
<1>1. /\ job.pc \in PublishPcs /\ UNCHANGED <<dirs, published, mode, objectIds, artifactIds>>
      /\ results' = results
  BY DEF Stage, Write, SyncFile, Unlink, memory, PublishPcs, CallPcs
<1>2. PICK x \in {"write", "sync", "verify_staging", "sync_staging"} :
        job' = [job EXCEPT !.pc = x]
  BY DEF Stage, Write, SyncFile, Unlink, Then
<1>3. /\ job \in PublishJobs /\ p \in Places /\ Name \in Names /\ Content \in Data
  BY <1>1, PublicationFacts DEF PublishJobs
<1>4. /\ job' \in PublishJobs /\ job'.pc = x /\ job'.place = p
      /\ Name' = Name /\ Content' = Content
  <2>1. x \in PublishPcs
    BY DEF PublishPcs, CallPcs
  <2>. QED  BY <1>1, <1>2, <2>1, ThenFacts
<1>5. JobKnows'
  <2>1. x \in PublishPcs /\ Kept
    BY <1>1 DEF PublishPcs, CallPcs, Kept
  <2>. QED  BY <1>1, <1>2, <2>1, JobKnowsStays
<1>6. PICK g \in AnyFile :
        /\ staging' = [staging EXCEPT ![p][Name] = g]
        /\ x = "write" => g.entry = "cached"
        /\ x \in {"sync", "verify_staging"} => g.entry = "cached" /\ g.data = Content
        /\ x = "verify_staging" => g.synced
  <2>1. f \in AnyFile
    BY <1>3 DEF StoreInv, StoreShape
  <2>2. CASE Stage
    <3> DEFINE g == [entry |-> "cached", data |-> [Content EXCEPT !.bytes = "nothing"],
                     synced |-> FALSE]
    <3>1. [Content EXCEPT !.bytes = "nothing"] \in Data
      BY <1>3 DEF Data, Torn
    <3>2. g \in AnyFile /\ g.entry = "cached"
      BY <3>1 DEF Files, AnyFile
    <3>3. x = "write" /\ staging' = [staging EXCEPT ![p][Name] = g]
      BY <1>2, <1>3, <1>4, <2>2 DEF Stage, SetStaging, Then, PublishJobs
    <3>. QED  BY <3>2, <3>3
  <2>3. CASE Write
    <3>1. f \in Files /\ f.entry = "cached"
      BY <2>1, <2>3 DEF Write, StoreInv, CallKnows, AnyFile, NoFile
    <3> DEFINE g == [f EXCEPT !.data = Content]
    <3>2. g \in AnyFile /\ g.entry = "cached" /\ g.data = Content
      BY <1>3, <3>1 DEF Files, AnyFile
    <3>3. x = "sync" /\ staging' = [staging EXCEPT ![p][Name] = g]
      BY <1>2, <1>3, <1>4, <2>3 DEF Write, SetStaging, Then, PublishJobs
    <3>. QED  BY <3>2, <3>3
  <2>4. CASE SyncFile
    <3>1. f \in Files /\ f.entry = "cached" /\ f.data = Content
      BY <2>1, <2>4 DEF SyncFile, StoreInv, CallKnows, AnyFile, NoFile
    <3> DEFINE g == [f EXCEPT !.synced = TRUE]
    <3>2. g \in AnyFile /\ g.entry = "cached" /\ g.data = Content /\ g.synced
      BY <3>1 DEF Files, AnyFile
    <3>3. x = "verify_staging" /\ staging' = [staging EXCEPT ![p][Name] = g]
      BY <1>2, <1>3, <1>4, <2>4 DEF SyncFile, SetStaging, Then, PublishJobs
    <3>. QED  BY <3>2, <3>3
  <2>5. CASE Unlink
    <3> DEFINE g == [f EXCEPT !.entry = "removed"]
    <3>1. f \in Files
      BY <2>1, <2>5 DEF Unlink, StoreInv, CallKnows, AnyFile, NoFile
    <3>2. g \in AnyFile
      BY <3>1 DEF Files, AnyFile
    <3>3. x = "sync_staging" /\ staging' = [staging EXCEPT ![p][Name] = g]
      BY <1>2, <1>3, <1>4, <2>5 DEF Unlink, SetStaging, Then, PublishJobs
    <3>. QED  BY <3>2, <3>3
  <2>. QED  BY <2>2, <2>3, <2>4, <2>5
<1>7. staging' \in [Places -> [Names -> AnyFile]] /\ staging'[p][Name] = g
  BY <1>3, <1>6 DEF StoreInv, StoreShape
<1>8. StoreShape'
  BY <1>1, <1>4, <1>7 DEF StoreInv, StoreShape
<1>9. CallKnows'
  <2>1. x = "sync_staging" => Durable(p, Name, Content)
    BY <1>2, <1>3, <1>4 DEF Stage, Write, SyncFile, Unlink, Then, PublishJobs, StoreInv,
                            CallKnows
  <2>2. x = "sync_staging" => Durable(p, Name, Content)'
    BY <1>1, <1>4, <2>1 DEF Durable
  <2>. QED  BY <1>4, <1>6, <1>7, <2>1, <1>1 DEF CallKnows, Durable
<1>. QED  BY <1>1, <1>5, <1>8, <1>9, UnpublishedStep DEF StoreInv

\* Reading back a file moves the job on.
LEMMA VerifyKeepsInv ==
    ASSUME StoreInv, VerifyStaging \/ VerifyPublished
    PROVE  StoreInv'
<1>1. /\ job.pc \in PublishPcs
      /\ UNCHANGED <<dirs, staging, published, mode, objectIds, artifactIds, results>>
  BY DEF VerifyStaging, VerifyPublished, memory, files, PublishPcs, CallPcs
<1>2. PICK x \in {"link", "unlink"} : job' = [job EXCEPT !.pc = x]
                                      /\ (x = "link" => job.pc = "verify_staging")
                                      /\ (x = "unlink" => job.pc = "verify_published")
  BY DEF VerifyStaging, VerifyPublished, Then
<1>3. x \in PublishPcs /\ Kept
  BY <1>1 DEF PublishPcs, CallPcs, Kept
<1>4. /\ job' \in PublishJobs /\ job'.pc = x /\ job'.place = job.place
      /\ Name' = Name /\ Content' = Content
  BY <1>1, <1>2, <1>3, ThenFacts
<1>5. StoreShape'
  BY <1>1, <1>4 DEF StoreInv, StoreShape
<1>6. CallKnows'
  BY <1>1, <1>2, <1>4 DEF StoreInv, CallKnows, Durable
<1>7. JobKnows'
  BY <1>1, <1>2, <1>3, JobKnowsStays
<1>. QED  BY <1>1, <1>5, <1>6, <1>7, UnpublishedStep DEF StoreInv

\* A new name for the staged bytes: nothing that was there changes.
LEMMA LinkKeepsInv ==
    ASSUME StoreInv, Link
    PROVE  StoreInv'
<1> DEFINE p == job.place
           f == [staging[p][Name] EXCEPT !.entry = "cached"]
<1>1. /\ job.pc = "link" /\ job.pc \in PublishPcs /\ "sync_published" \in PublishPcs
      /\ UNCHANGED <<dirs, staging, mode, objectIds, artifactIds, results>>
      /\ ~ Visible(published[p][Name])
      /\ published' = [published EXCEPT ![p][Name] = f]
      /\ job' = [job EXCEPT !.pc = "sync_published"]
  BY DEF Link, Then, memory, PublishPcs, CallPcs
<1>2. /\ job \in PublishJobs /\ p \in Places /\ Name \in Names /\ Content \in Data
  BY <1>1, PublicationFacts DEF PublishJobs
<1>3. /\ job' \in PublishJobs /\ job'.pc = "sync_published" /\ job'.place = p
      /\ Name' = Name /\ Content' = Content
  BY <1>1, ThenFacts
<1>4. f = [entry |-> "cached", data |-> Content, synced |-> TRUE] /\ f \in AnyFile
  <2>1. staging[p][Name] \in AnyFile /\ staging[p][Name].entry = "cached"
        /\ staging[p][Name].data = Content /\ staging[p][Name].synced
    BY <1>1, <1>2 DEF StoreInv, StoreShape, CallKnows
  <2>2. staging[p][Name] \in Files
    BY <2>1 DEF AnyFile, NoFile
  <2>3. staging[p][Name].synced = TRUE
    BY <2>1, <2>2 DEF Files
  <2>. QED  BY <2>1, <2>2, <2>3 DEF Files, AnyFile
<1> HIDE DEF f
<1>5. /\ published' \in [Places -> [Names -> AnyFile]]
      /\ published'[p][Name] = f
      /\ \A q \in Places, n \in Names :
           <<q, n>> # <<p, Name>> => published'[q][n] = published[q][n]
  BY <1>1, <1>2, <1>4 DEF StoreInv, StoreShape
<1>6. StoreShape'
  BY <1>1, <1>3, <1>5 DEF StoreInv, StoreShape
<1>7. Kept
  <2> SUFFICES ASSUME NEW q \in Places, NEW n \in Names,
                      published[q][n].entry = "durable" /\ published[q][n].synced
               PROVE  published'[q][n] = published[q][n]
    BY DEF Kept
  <2>1. <<q, n>> # <<p, Name>>
    BY <1>1 DEF Visible
  <2>. QED  BY <1>5, <2>1
<1>8. JobKnows'
  BY <1>1, <1>7, JobKnowsStays
<1>9. CallKnows'
  BY <1>1, <1>3, <1>4, <1>5 DEF StoreInv, CallKnows
<1>10. PublishedShape'
  <2>1. f.entry = "cached" /\ f.synced
    BY <1>4
  <2>2. ASSUME NEW q \in Places, NEW n \in Names PROVE published'[q][n].entry # "removed"
    BY <1>5, <2>1 DEF StoreInv, PublishedShape
  <2>3. ASSUME NEW n \in Names, Visible(published'["ledger"][n])
        PROVE  published'["ledger"][n].synced
    <3>1. CASE p = "ledger" /\ n = Name
      BY <1>5, <2>1, <3>1
    <3>2. CASE ~ (p = "ledger" /\ n = Name)
      <4>1. published'["ledger"][n] = published["ledger"][n]
        BY <1>5, <3>2 DEF Places
      <4>. QED  BY <2>3, <4>1 DEF StoreInv, PublishedShape, Visible
    <3>. QED  BY <3>1, <3>2
  <2>. QED  BY <2>2, <2>3 DEF PublishedShape, Visible
<1>11. SealedMeansTwoCopies'
  <2>1. CASE p # "ledger"
    <3>1. published'["ledger"] = published["ledger"]
      BY <1>1, <1>2, <2>1 DEF StoreInv, StoreShape, Places
    <3>. QED  BY <1>7, <3>1, KeptSealed
  <2>2. CASE p = "ledger"
    <3> SUFFICES ASSUME NEW r \in Records, Visible(published'["ledger"][r]),
                        published'["ledger"][r].data.state = "sealed"
                 PROVE  LET file == published'["ledger"][r]
                        IN  /\ file.data.bytes \notin Torn
                            /\ \A d \in Domains :
                                 published'[d][file.data.object] =
                                   [entry |-> "durable",
                                    data |-> Raw(file.data.object, file.data.bytes),
                                    synced |-> TRUE]
      BY DEF SealedMeansTwoCopies, Durable, Visible, Raw
    <3>1. \A d \in Domains : d \in Places /\ d # "ledger"
      BY DEF Domains, Places
    <3>2. \A d \in Domains : published'[d] = published[d]
      BY <1>1, <1>2, <2>2, <3>1 DEF StoreInv, StoreShape
    <3>3. CASE r = Name
      <4>1. published'["ledger"][r].data = Content
        BY <1>4, <1>5, <2>2, <3>3
      <4>2. /\ Content = LedgerDocument(job.req.object, job.req.payload, job.doc.state)
            /\ Content = job.doc /\ job.req.payload \in Payloads
        BY <1>1, <2>2, PublicationFacts DEF StoreInv, JobKnows
      <4>3. job.copies = Domains
        BY <1>1, <2>2, <4>1, <4>2 DEF StoreInv, JobKnows
      <4>4. Content.object = job.req.object /\ Content.bytes = job.req.payload
        BY <4>2 DEF LedgerDocument
      <4>5. \A d \in Domains :
              Durable(d, job.req.object, Raw(job.req.object, job.req.payload))
        BY <1>1, <4>3 DEF StoreInv, JobKnows
      <4>. QED  BY <3>2, <4>1, <4>2, <4>4, <4>5 DEF Durable
    <3>4. CASE r # Name
      <4>1. published'["ledger"][r] = published["ledger"][r]
        BY <1>5, <3>4 DEF Places, Names
      <4>. QED  BY <3>2, <4>1 DEF StoreInv, SealedMeansTwoCopies, Durable
    <3>. QED  BY <3>3, <3>4
  <2>. QED  BY <2>1, <2>2
<1>. QED  BY <1>1, <1>6, <1>7, <1>8, <1>9, <1>10, <1>11, KeptResults DEF StoreInv

\* A synced directory: cached names become durable, all bytes stay.
LEMMA SyncedFiles ==
    ASSUME NEW directory \in [Names -> AnyFile], NEW n \in Names
    PROVE  /\ Synced(directory) \in [Names -> AnyFile]
           /\ directory[n].entry = "cached" =>
                Synced(directory)[n] = [directory[n] EXCEPT !.entry = "durable"]
           /\ directory[n].entry \notin {"cached", "removed"} =>
                Synced(directory)[n] = directory[n]
<1>1. ASSUME NEW m \in Names
      PROVE  (CASE directory[m].entry = "cached" -> [directory[m] EXCEPT !.entry = "durable"]
                [] directory[m].entry = "removed" -> NoFile
                [] OTHER -> directory[m]) \in AnyFile
  <2>1. directory[m] \in AnyFile
    OBVIOUS
  <2>2. directory[m].entry = "cached" => [directory[m] EXCEPT !.entry = "durable"] \in AnyFile
    <3>1. directory[m].entry = "cached" => directory[m] \in Files
      BY <2>1 DEF AnyFile, NoFile
    <3>. QED  BY <3>1 DEF AnyFile, Files
  <2>. QED  BY <2>1, <2>2 DEF AnyFile
<1>2. Synced(directory) \in [Names -> AnyFile]
  BY <1>1 DEF Synced
<1>. QED  BY <1>2 DEF Synced

LEMMA SyncedPublished ==
    ASSUME StoreInv, NEW p \in Places, published' = [published EXCEPT ![p] = Synced(@)],
           results' = results
    PROVE  /\ published' \in [Places -> [Names -> AnyFile]]
           /\ Kept
           /\ \A n \in Names : published[p][n].entry = "cached" =>
                published'[p][n] = [published[p][n] EXCEPT !.entry = "durable"]
           /\ PublishedShape' /\ SealedMeansTwoCopies'
           /\ VerifiedCopiesSurvive' /\ SealedResultIsOnDisk'
<1>1. /\ published \in [Places -> [Names -> AnyFile]] /\ published[p] \in [Names -> AnyFile]
      /\ \A q \in Places, n \in Names : published[q][n].entry # "removed"
  BY DEF StoreInv, StoreShape, PublishedShape
<1>2. Synced(published[p]) \in [Names -> AnyFile]
  <2>1. CASE Names = {}
    BY <2>1 DEF Synced
  <2>2. CASE Names # {}
    BY <1>1, <2>2, SyncedFiles
  <2>. QED  BY <2>1, <2>2
<1>3. /\ published' \in [Places -> [Names -> AnyFile]]
      /\ published'[p] = Synced(published[p])
      /\ \A q \in Places : q # p => published'[q] = published[q]
  BY <1>1, <1>2
<1>4. \A n \in Names :
        /\ published[p][n].entry = "cached" =>
             published'[p][n] = [published[p][n] EXCEPT !.entry = "durable"]
        /\ published[p][n].entry # "cached" => published'[p][n] = published[p][n]
  <2>1. PICK directory \in [Names -> AnyFile] : directory = published[p]
    BY <1>1
  <2>2. published'[p] = Synced(directory)
    BY <1>3, <2>1
  <2>3. \A n \in Names :
          /\ directory[n].entry = "cached" =>
               Synced(directory)[n] = [directory[n] EXCEPT !.entry = "durable"]
          /\ directory[n].entry \notin {"cached", "removed"} =>
               Synced(directory)[n] = directory[n]
    BY SyncedFiles
  <2>. QED  BY <1>1, <2>1, <2>2, <2>3
<1>5. ASSUME NEW q \in Places, NEW n \in Names
      PROVE  /\ published[q][n].entry # "cached" => published'[q][n] = published[q][n]
             /\ published'[q][n].entry # "removed"
             /\ published'[q][n].synced = published[q][n].synced
             /\ published'[q][n].data = published[q][n].data
             /\ Visible(published'[q][n]) <=> Visible(published[q][n])
  <2>1. CASE q = p /\ published[q][n].entry = "cached"
    <3>1. published[q][n] \in Files
      BY <1>1, <2>1 DEF AnyFile, NoFile
    <3>2. published'[q][n] = [published[q][n] EXCEPT !.entry = "durable"]
      BY <1>4, <2>1
    <3>3. /\ published'[q][n].entry = "durable"
          /\ published'[q][n].synced = published[q][n].synced
          /\ published'[q][n].data = published[q][n].data
      BY <3>1, <3>2 DEF Files
    <3>. QED  BY <2>1, <3>3 DEF Visible
  <2>2. CASE ~ (q = p /\ published[q][n].entry = "cached")
    <3>1. published'[q][n] = published[q][n]
      BY <1>3, <1>4, <2>2
    <3>. QED  BY <1>1, <3>1
  <2>. QED  BY <2>1, <2>2
<1>6. Kept
  BY <1>5 DEF Kept
<1>7. PublishedShape'
  <2>1. "ledger" \in Places
    BY DEF Places
  <2>. QED  BY <1>5, <2>1 DEF StoreInv, PublishedShape, Visible
<1>8. SealedMeansTwoCopies'
  <2> SUFFICES ASSUME NEW r \in Records, Visible(published'["ledger"][r]),
                      published'["ledger"][r].data.state = "sealed"
               PROVE  LET file == published'["ledger"][r]
                      IN  /\ file.data.bytes \notin Torn
                          /\ \A d \in Domains :
                               published'[d][file.data.object] =
                                 [entry |-> "durable",
                                  data |-> Raw(file.data.object, file.data.bytes),
                                  synced |-> TRUE]
    BY DEF SealedMeansTwoCopies, Durable, Visible, Raw
  <2> DEFINE file == published["ledger"][r]
  <2>1. "ledger" \in Places /\ r \in Names /\ Domains \subseteq Places
    BY DEF Places, Names
  <2>2. published'["ledger"][r].data = file.data /\ Visible(file)
    BY <1>5, <2>1
  <2>3. /\ file.data.bytes \notin Torn
        /\ \A d \in Domains :
             Durable(d, file.data.object, Raw(file.data.object, file.data.bytes))
    BY <2>2 DEF StoreInv, SealedMeansTwoCopies
  <2>4. file.data.object \in Names
    <3>1. file \in Files
      BY <1>1, <2>1, <2>2 DEF AnyFile, NoFile, Visible
    <3>. QED  BY <3>1 DEF Files, Data, Names
  <2>5. ASSUME NEW d \in Domains
        PROVE  published'[d][file.data.object] = published[d][file.data.object]
    BY <2>1, <2>3, <2>4, <1>6 DEF Kept, Durable
  <2>. QED  BY <2>2, <2>3, <2>5 DEF Durable
<1>. QED  BY <1>3, <1>4, <1>6, <1>7, <1>8, KeptResults

LEMMA SyncPublishedKeepsInv ==
    ASSUME StoreInv, SyncPublished
    PROVE  StoreInv'
<1>1. /\ job.pc = "sync_published" /\ job.pc \in PublishPcs /\ "verify_published" \in PublishPcs
      /\ UNCHANGED <<dirs, staging, mode, objectIds, artifactIds, results>>
      /\ published' = [published EXCEPT ![job.place] = Synced(@)]
      /\ job' = [job EXCEPT !.pc = "verify_published"]
  BY DEF SyncPublished, Then, memory, PublishPcs, CallPcs
<1>2. job.place \in Places /\ Name \in Names
  BY <1>1, PublicationFacts DEF PublishJobs
<1>3. /\ published' \in [Places -> [Names -> AnyFile]] /\ Kept
      /\ \A n \in Names : published[job.place][n].entry = "cached" =>
           published'[job.place][n] = [published[job.place][n] EXCEPT !.entry = "durable"]
      /\ PublishedShape' /\ SealedMeansTwoCopies' /\ VerifiedCopiesSurvive'
      /\ SealedResultIsOnDisk'
  BY <1>1, <1>2, SyncedPublished
<1>4. /\ job' \in PublishJobs /\ job'.pc = "verify_published" /\ job'.place = job.place
      /\ Name' = Name /\ Content' = Content
  BY <1>1, ThenFacts
<1>5. StoreShape'
  BY <1>1, <1>3, <1>4 DEF StoreInv, StoreShape
<1>6. JobKnows'
  BY <1>1, <1>3, JobKnowsStays
<1>7. CallKnows'
  <2>1. published[job.place][Name] = [entry |-> "cached", data |-> Content, synced |-> TRUE]
    BY <1>1 DEF StoreInv, CallKnows
  <2>2. published'[job.place][Name] = [entry |-> "durable", data |-> Content, synced |-> TRUE]
    <3> DEFINE f == published[job.place][Name]
    <3>1. f.entry = "cached" /\ f.data = Content /\ f.synced = TRUE
      BY <2>1
    <3>2. f \in Files
      BY <1>2, <3>1 DEF StoreInv, StoreShape, AnyFile, NoFile
    <3>3. published'[job.place][Name] = [f EXCEPT !.entry = "durable"]
      BY <1>2, <1>3, <3>1
    <3>. QED  BY <3>1, <3>2, <3>3 DEF Files
  <2>. QED  BY <1>1, <1>4, <2>2 DEF StoreInv, CallKnows, Durable
<1>. QED  BY <1>3, <1>5, <1>6, <1>7 DEF StoreInv

\* Returning from publish, with the record persisted or not.
LEMMA ReturnKeepsInv ==
    ASSUME StoreInv, NEW persisted \in BOOLEAN, Return(persisted),
           job.pc \in PublishPcs, job.place = "ledger",
           persisted => job.pc = "sync_staging",
           staging' \in [Places -> [Names -> AnyFile]],
           UNCHANGED <<dirs, published, mode, objectIds, artifactIds>>
    PROVE  StoreInv'
<1> DEFINE r == [object |-> job.req.object, record |-> job.req.record,
                 payload |-> job.req.payload, copies |-> job.copies,
                 state |-> IF persisted THEN job.doc.state ELSE "incomplete"]
<1>1. results' = results \cup {r} /\ job' = Idle
  BY DEF Return
<1>2. /\ job \in PublishJobs /\ Name = job.req.record /\ Content = job.doc
      /\ job.req.object \in Objects /\ job.req.record \in Records
      /\ job.req.payload \in Payloads
  BY PublicationFacts
<1>3. job.doc.state \in LedgerStates /\ job.copies \in SUBSET Domains
      /\ job.doc = LedgerDocument(job.req.object, job.req.payload, job.doc.state)
  BY <1>2 DEF StoreInv, JobKnows, PublishJobs
<1>4. r \in Results
  BY <1>2, <1>3 DEF Results, LedgerStates
<1>5. StoreShape'
  BY <1>1, <1>4 DEF StoreInv, StoreShape
<1>6. job'.pc = "idle"
  BY <1>1 DEF Idle
<1>7. JobKnows' /\ CallKnows'
  BY <1>6 DEF JobKnows, CallKnows, PublishPcs, CallPcs
<1>8. PublishedShape'
  BY DEF StoreInv, PublishedShape, Visible
<1>9. SealedMeansTwoCopies'
  <2>1. Kept
    BY DEF Kept
  <2>. QED  BY <2>1, KeptSealed
<1>10. VerifiedCopiesSurvive'
  <2>1. \A d \in r.copies : Durable(d, r.object, Raw(r.object, r.payload))
    BY DEF StoreInv, JobKnows
  <2> HIDE DEF r
  <2>2. \A s \in results \cup {r} : \A d \in s.copies :
          Durable(d, s.object, Raw(s.object, s.payload))
    BY <2>1 DEF StoreInv, VerifiedCopiesSurvive
  <2>. QED  BY <1>1, <2>2 DEF VerifiedCopiesSurvive, Durable
<1>11. SealedResultIsOnDisk'
  <2>1. r.state = "sealed" =>
          Durable("ledger", r.record, LedgerDocument(r.object, r.payload, "sealed"))
    <3> SUFFICES ASSUME persisted, job.doc.state = "sealed"
                 PROVE  Durable("ledger", r.record,
                                LedgerDocument(r.object, r.payload, "sealed"))
      BY DEF LedgerStates
    <3>1. Durable("ledger", job.req.record, job.doc)
      BY <1>2 DEF StoreInv, CallKnows
    <3>. QED  BY <1>3, <3>1
  <2> HIDE DEF r
  <2>2. \A s \in results \cup {r} : s.state = "sealed" =>
          Durable("ledger", s.record, LedgerDocument(s.object, s.payload, "sealed"))
    BY <2>1 DEF StoreInv, SealedResultIsOnDisk
  <2>. QED  BY <1>1, <2>2 DEF SealedResultIsOnDisk, Durable
<1>. QED  BY <1>5, <1>7, <1>8, <1>9, <1>10, <1>11 DEF StoreInv

\* The last call of a copy counts it, or ends the publication.
LEMMA SyncStagingKeepsInv ==
    ASSUME StoreInv, SyncStaging
    PROVE  StoreInv'
<1>1. /\ job.pc = "sync_staging" /\ job.pc \in PublishPcs
      /\ UNCHANGED <<dirs, published, mode, objectIds, artifactIds>>
      /\ staging' = [staging EXCEPT ![job.place] = Synced(@)]
  BY DEF SyncStaging, memory, PublishPcs, CallPcs
<1>2. /\ job \in PublishJobs /\ job.place \in Places /\ Name \in Names
      /\ job.req \in Requests
  BY <1>1, PublicationFacts DEF PublishJobs
<1>3. staging' \in [Places -> [Names -> AnyFile]]
  <2>1. Synced(staging[job.place]) \in [Names -> AnyFile]
    BY <1>2, SyncedFiles DEF StoreInv, StoreShape
  <2>. QED  BY <1>1, <2>1 DEF StoreInv, StoreShape
<1>4. Durable(job.place, Name, Content)
  BY <1>1 DEF StoreInv, CallKnows
<1>5. CASE job.place = "ledger"
  <2>1. Return(TRUE)
    BY <1>5 DEF SyncStaging
  <2>. QED  BY <1>1, <1>3, <1>5, <2>1, ReturnKeepsInv
<1>6. CASE job.place # "ledger"
  <2>1. Name = job.req.object /\ Content = Raw(job.req.object, job.req.payload)
    BY <1>1, <1>6, PublicationFacts
  <2>2. job.req.object \in objectIds /\ job.req.artifact \in artifactIds
        /\ (job.place = "secondary" => "primary" \in job.copies)
        /\ \A d \in job.copies :
             Durable(d, job.req.object, Raw(job.req.object, job.req.payload))
    BY <1>1 DEF StoreInv, JobKnows
  <2>3. /\ job' \in PublishJobs /\ results' = results
        /\ job'.pc \in {"stage", "conclude"} /\ job'.req = job.req
        /\ job'.place \in Domains
        /\ (job'.place = "secondary" => "primary" \in job'.copies)
        /\ \A d \in job'.copies :
             Durable(d, job.req.object, Raw(job.req.object, job.req.payload))
    <3>1. CASE job.place = "primary"
      <4>1. job' = StartCopy(job.req, "secondary", {"primary"}) /\ results' = results
        BY <3>1 DEF SyncStaging
      <4>2. /\ job' \in PublishJobs /\ job'.pc = "stage" /\ job'.req = job.req
            /\ job'.place = "secondary" /\ job'.copies = {"primary"}
        BY <1>2, <4>1 DEF StartCopy, PublishJobs, PublishPcs, CallPcs, Places, Domains
      <4>. QED  BY <1>4, <2>1, <3>1, <4>1, <4>2 DEF Domains
    <3>2. CASE job.place = "secondary"
      <4>1. job' = [job EXCEPT !.pc = "conclude", !.copies = Domains] /\ results' = results
        BY <3>2 DEF SyncStaging
      <4>2. /\ job' \in PublishJobs /\ job'.pc = "conclude" /\ job'.req = job.req
            /\ job'.place = "secondary" /\ job'.copies = Domains
        BY <1>2, <3>2, <4>1 DEF PublishJobs, PublishPcs
      <4>. QED  BY <1>4, <2>1, <2>2, <3>2, <4>1, <4>2 DEF Domains
    <3>. QED  BY <1>2, <1>6, <3>1, <3>2 DEF Places, Domains
  <2>4. StoreShape'
    BY <1>1, <1>3, <2>3 DEF StoreInv, StoreShape
  <2>5. JobKnows'
    <3>1. job'.place # "ledger"
      BY <2>3 DEF Domains
    <3>. QED  BY <1>1, <2>2, <2>3, <3>1 DEF JobKnows, Durable
  <2>6. CallKnows'
    BY <2>3 DEF CallKnows
  <2>. QED  BY <1>1, <2>3, <2>4, <2>5, <2>6, UnpublishedStep DEF StoreInv
<1>. QED  BY <1>5, <1>6

\* The ledger document says what the copies and the stream allow.
LEMMA ConcludeKeepsInv ==
    ASSUME StoreInv, Conclude
    PROVE  StoreInv'
<1>1. /\ job.pc = "conclude" /\ job.pc \in PublishPcs
      /\ UNCHANGED <<dirs, staging, published, mode, objectIds, artifactIds, results>>
  BY DEF Conclude, memory, files, PublishPcs
<1>2. CASE job' = Idle
  BY <1>1, <1>2, QuietStepsKeepInv DEF StoreInv, StoreShape, files
<1>3. CASE job' # Idle
  <2> DEFINE doc == LedgerDocument(job.req.object, job.req.payload, ConcludedState)
  <2>1. /\ job \in PublishJobs /\ job.req.object \in Objects /\ job.req.payload \in Payloads
    BY <1>1, PublicationFacts
  <2>2. /\ doc \in Data /\ doc.state = ConcludedState /\ ConcludedState \in LedgerStates
        /\ ConcludedState = "sealed" => job.copies = Domains
    BY <2>1 DEF LedgerDocument, Data, ConcludedState, LedgerStates
  <2>3. job' = [job EXCEPT !.pc = "stage", !.place = "ledger", !.doc = doc]
    BY <1>3 DEF Conclude
  <2> HIDE DEF doc
  <2>4. /\ job' \in PublishJobs /\ job'.pc = "stage" /\ job'.place = "ledger"
        /\ job'.req = job.req /\ job'.copies = job.copies /\ job'.doc = doc
    BY <2>1, <2>2, <2>3 DEF PublishJobs, PublishPcs, CallPcs, Places
  <2>5. StoreShape'
    BY <1>1, <2>4 DEF StoreInv, StoreShape
  <2>6. JobKnows'
    <3>1. job.req.object \in objectIds /\ job.req.artifact \in artifactIds
          /\ \A d \in job.copies :
               Durable(d, job.req.object, Raw(job.req.object, job.req.payload))
      BY <1>1 DEF StoreInv, JobKnows
    <3>2. doc = LedgerDocument(job.req.object, job.req.payload, doc.state)
      BY <2>2 DEF doc
    <3>. QED  BY <1>1, <2>2, <2>4, <3>1, <3>2 DEF JobKnows, Durable
  <2>7. CallKnows'
    BY <2>4 DEF CallKnows
  <2>. QED  BY <1>1, <2>5, <2>6, <2>7, UnpublishedStep DEF StoreInv
<1>. QED  BY <1>2, <1>3

\* A failed call leads to the ledger with fewer copies, or to an incomplete
\* result.
LEMMA FailureKeepsInv ==
    ASSUME StoreInv, CallFails
    PROVE  StoreInv'
<1>1. /\ job.pc \in CallPcs /\ job.pc \in PublishPcs /\ Abandon
      /\ UNCHANGED <<dirs, published, mode, objectIds, artifactIds>>
  BY DEF CallFails, memory, PublishPcs
<1>2. /\ job \in PublishJobs /\ job.place \in Places /\ Name \in Names
  BY <1>1, PublicationFacts DEF PublishJobs
<1>3. staging' \in [Places -> [Names -> AnyFile]]
  <2>1. staging \in [Places -> [Names -> AnyFile]]
    BY DEF StoreInv, StoreShape
  <2> DEFINE f == staging[job.place][Name]
             g == [f EXCEPT !.data.bytes = "partial"]
  <2>2. staging' = staging \/ (job.pc = "write" /\ SetStaging(g))
    BY DEF CallFails
  <2>3. ASSUME job.pc = "write" PROVE g \in AnyFile
    <3>1. f \in Files
      BY <1>2, <2>1, <2>3 DEF StoreInv, CallKnows, AnyFile, NoFile
    <3>2. [f.data EXCEPT !.bytes = "partial"] \in Data
      BY <3>1 DEF Files, Data, Torn
    <3>3. g = [f EXCEPT !.data = [f.data EXCEPT !.bytes = "partial"]]
      BY <3>1 DEF Files
    <3>. QED  BY <3>1, <3>2, <3>3 DEF Files, AnyFile
  <2> HIDE DEF g
  <2>4. CASE staging' = staging
    BY <2>1, <2>4
  <2>5. CASE job.pc = "write" /\ SetStaging(g)
    <3>1. PICK p \in Places, n \in Names, file \in AnyFile :
            p = job.place /\ n = Name /\ file = g
      BY <1>2, <2>3, <2>5
    <3>2. staging' = [staging EXCEPT ![p][n] = file]
      BY <2>5, <3>1 DEF SetStaging
    <3>. QED  BY <2>1, <3>2
  <2>. QED  BY <2>2, <2>4, <2>5
<1>4. CASE job.place = "ledger"
  <2>1. Return(FALSE)
    BY <1>1, <1>4 DEF Abandon
  <2>. QED  BY <1>1, <1>3, <1>4, <2>1, ReturnKeepsInv
<1>5. CASE job.place # "ledger"
  <2>1. job' = [job EXCEPT !.pc = "conclude", !.failed = TRUE] /\ results' = results
    BY <1>1, <1>5 DEF Abandon
  <2>2. /\ job' \in PublishJobs /\ job'.pc = "conclude" /\ job'.place = job.place
        /\ job'.req = job.req /\ job'.copies = job.copies
    BY <1>2, <2>1 DEF PublishJobs, PublishPcs
  <2>3. StoreShape'
    BY <1>1, <1>3, <2>1, <2>2 DEF StoreInv, StoreShape
  <2>4. JobKnows'
    BY <1>1, <1>5, <2>2 DEF StoreInv, JobKnows, Durable
  <2>5. CallKnows'
    BY <2>2 DEF CallKnows
  <2>. QED  BY <1>1, <2>1, <2>3, <2>4, <2>5, UnpublishedStep DEF StoreInv
<1>. QED  BY <1>4, <1>5

-----------------------------------------------------------------------------
(* Recovery and the end of a process.                                      *)

LEMMA RecoverLinkKeepsInv ==
    ASSUME StoreInv, NEW d \in Domains, NEW o \in Objects, NEW b \in Payloads,
           RecoverLink(d, o, b)
    PROVE  StoreInv'
<1> DEFINE f == [staging[d][o] EXCEPT !.entry = "cached"]
<1>1. /\ UNCHANGED <<dirs, staging, mode, objectIds, artifactIds, results>>
      /\ ~ Visible(published[d][o]) /\ Visible(staging[d][o])
      /\ published' = [published EXCEPT ![d][o] = f]
      /\ job' = RecoveryJob("promote_sync", d, o, b)
  BY DEF RecoverLink, memory
<1>2. d \in Places /\ d # "ledger" /\ o \in Names
  BY DEF Places, Domains, Names
<1>3. f \in AnyFile /\ f.entry = "cached"
  <2>1. staging[d][o] \in Files
    BY <1>1, <1>2 DEF StoreInv, StoreShape, AnyFile, NoFile, Visible
  <2>. QED  BY <2>1 DEF Files, AnyFile
<1> HIDE DEF f
<1>4. /\ published' \in [Places -> [Names -> AnyFile]]
      /\ published'[d][o] = f
      /\ published'["ledger"] = published["ledger"]
      /\ \A q \in Places, n \in Names :
           <<q, n>> # <<d, o>> => published'[q][n] = published[q][n]
  BY <1>1, <1>2, <1>3 DEF StoreInv, StoreShape
<1>5. Kept
  <2> SUFFICES ASSUME NEW q \in Places, NEW n \in Names,
                      published[q][n].entry = "durable" /\ published[q][n].synced
               PROVE  published'[q][n] = published[q][n]
    BY DEF Kept
  <2>1. <<q, n>> # <<d, o>>
    BY <1>1 DEF Visible
  <2>. QED  BY <1>4, <2>1
<1>6. job' \in RecoveryJobs /\ job'.pc = "promote_sync"
  BY <1>1 DEF RecoveryJob, RecoveryJobs
<1>7. StoreShape'
  BY <1>1, <1>4, <1>6 DEF StoreInv, StoreShape
<1>8. JobKnows' /\ CallKnows'
  BY <1>6 DEF JobKnows, CallKnows, PublishPcs, CallPcs
<1>9. PublishedShape'
  <2>1. ASSUME NEW q \in Places, NEW n \in Names PROVE published'[q][n].entry # "removed"
    BY <1>3, <1>4 DEF StoreInv, PublishedShape
  <2>. QED  BY <1>4, <2>1 DEF StoreInv, PublishedShape, Visible
<1>. QED  BY <1>1, <1>4, <1>5, <1>7, <1>8, <1>9, KeptResults, KeptSealed DEF StoreInv

LEMMA PromoteSyncKeepsInv ==
    ASSUME StoreInv, PromoteSync
    PROVE  StoreInv'
<1>1. /\ UNCHANGED <<dirs, staging, mode, objectIds, artifactIds, results>>
      /\ published' = [published EXCEPT ![job.place] = Synced(@)]
      /\ job.pc = "promote_sync" /\ job' = [job EXCEPT !.pc = "promote_verify"]
  BY DEF PromoteSync, memory
<1>2. job \in RecoveryJobs
  BY <1>1 DEF StoreInv, StoreShape, Idle, OpenJobs, PublishJobs, PublishPcs, CallPcs
<1>3. job' \in RecoveryJobs /\ job'.pc = "promote_verify" /\ job.place \in Places
  BY <1>1, <1>2 DEF RecoveryJobs, Places
<1>4. /\ published' \in [Places -> [Names -> AnyFile]]
      /\ PublishedShape' /\ SealedMeansTwoCopies' /\ VerifiedCopiesSurvive'
      /\ SealedResultIsOnDisk'
  BY <1>1, <1>3, SyncedPublished
<1>5. StoreShape'
  BY <1>1, <1>3, <1>4 DEF StoreInv, StoreShape
<1>6. JobKnows' /\ CallKnows'
  BY <1>3 DEF JobKnows, CallKnows, PublishPcs, CallPcs
<1>. QED  BY <1>4, <1>5, <1>6 DEF StoreInv

\* What a power failure may make of a file: nothing stays in doubt, what was
\* synced keeps its bytes, and what was also linked for good stays as it is.
OutlivesPowerFailure(before, file) ==
    /\ file \in AnyFile
    /\ file.entry \in {"absent", "durable"}
    /\ before = NoFile => file = NoFile
    /\ Visible(file) => file.synced = TRUE
    /\ before.entry = "durable" /\ before.synced => file = before
    /\ Visible(file) /\ before.synced => file.data = before.data

\* After a power failure a file is gone, or on the disk with its bytes, torn
\* only if they were not synced.
LEMMA AfterPowerFailureFacts ==
    ASSUME NEW tree \in [Places -> [Names -> AnyFile]],
           NEW gone \in SUBSET EntriesInDoubt(tree), NEW torn,
           NEW p \in Places, NEW n \in Names, NEW before, before = tree[p][n],
           NEW file, file = AfterPowerFailure(tree, gone, torn)[p][n]
    PROVE  OutlivesPowerFailure(before, file)
<1> DEFINE data == IF <<p, n>> \in torn /\ ~ before.synced
                   THEN [before.data EXCEPT !.bytes = "partial"] ELSE before.data
           kept == [entry |-> "durable", synced |-> TRUE, data |-> data]
<1>1. file = IF before.entry = "absent" \/ <<p, n>> \in gone THEN NoFile ELSE kept
  BY DEF AfterPowerFailure
<1>2. before \in AnyFile
  OBVIOUS
<1>3. before.entry # "absent" => before \in Files /\ kept \in Files
  <2> SUFFICES ASSUME before.entry # "absent" PROVE before \in Files /\ kept \in Files
    OBVIOUS
  <2>1. before \in Files
    BY <1>2 DEF AnyFile, NoFile
  <2>2. before.data \in Data
    BY <2>1 DEF Files
  <2>3. [before.data EXCEPT !.bytes = "partial"] \in Data
    BY <2>2 DEF Data, Torn
  <2>4. data \in Data
    BY <2>2, <2>3
  <2> HIDE DEF data
  <2>5. kept \in Files
    BY <2>4 DEF Files
  <2>. QED  BY <2>1, <2>5
<1>4. NoFile.entry = "absent" /\ ~ Visible(NoFile)
  BY DEF NoFile, Visible
<1>5. kept.entry = "durable" /\ kept.synced = TRUE /\ kept.data = data
  OBVIOUS
<1>6. ASSUME before.entry = "durable", before.synced PROVE file = before
  <2>1. <<p, n>> \notin gone
    BY <1>6 DEF EntriesInDoubt
  <2>2. before \in Files /\ before.synced = TRUE /\ data = before.data
    BY <1>3, <1>6 DEF Files
  <2>3. kept = before
    BY <1>6, <2>2 DEF Files
  <2>. QED  BY <1>1, <1>6, <2>1, <2>3
<1>7. before.synced => data = before.data
  OBVIOUS
<1> HIDE DEF kept, data
<1>8. file \in AnyFile /\ file.entry \in {"absent", "durable"}
  BY <1>1, <1>3, <1>4, <1>5 DEF AnyFile
<1>9. before = NoFile => file = NoFile
  BY <1>1, <1>4
<1>10. Visible(file) => file = kept
  BY <1>1, <1>4
<1>11. Visible(file) => file.synced = TRUE
  BY <1>5, <1>10
<1>12. Visible(file) /\ before.synced => file.data = before.data
  BY <1>5, <1>7, <1>10
<1>. QED  BY <1>6, <1>8, <1>9, <1>11, <1>12 DEF OutlivesPowerFailure

LEMMA PowerFailureKeepsInv ==
    ASSUME StoreInv, PowerFails
    PROVE  StoreInv' /\ Kept
<1>1. /\ mode' = "none" /\ job' = Idle /\ results' = results
  BY DEF PowerFails, Forget
<1>2. /\ staging \in [Places -> [Names -> AnyFile]]
      /\ published \in [Places -> [Names -> AnyFile]]
  BY DEF StoreInv, StoreShape
<1>3. PICK torn \in SUBSET (BytesInDoubt(staging) \cup BytesInDoubt(published)),
           lostStaging \in SUBSET EntriesInDoubt(staging),
           lostPublished \in SUBSET EntriesInDoubt(published) :
        /\ staging' = AfterPowerFailure(staging, lostStaging, torn)
        /\ published' = AfterPowerFailure(published, lostPublished, torn)
  BY DEF PowerFails
<1>4. ASSUME NEW tree \in [Places -> [Names -> AnyFile]],
             NEW gone \in SUBSET EntriesInDoubt(tree),
             NEW after, after = AfterPowerFailure(tree, gone, torn)
      PROVE  /\ after \in [Places -> [Names -> AnyFile]]
             /\ \A p \in Places, n \in Names : OutlivesPowerFailure(tree[p][n], after[p][n])
  <2>1. ASSUME NEW p \in Places, NEW n \in Names
        PROVE  OutlivesPowerFailure(tree[p][n], after[p][n])
    <3>1. PICK before, file : before = tree[p][n] /\ file = after[p][n]
      OBVIOUS
    <3>2. file = AfterPowerFailure(tree, gone, torn)[p][n]
      BY <1>4, <3>1
    <3>3. OutlivesPowerFailure(before, file)
      BY ONLY <3>1, <3>2, <1>4, AfterPowerFailureFacts, p \in Places, n \in Names
    <3>. QED  BY <3>1, <3>3
  <2>2. \A p \in Places, n \in Names : after[p][n] \in AnyFile
    BY <2>1 DEF OutlivesPowerFailure
  <2>3. after \in [Places -> [Names -> AnyFile]]
    BY <1>4, <2>2 DEF AfterPowerFailure
  <2>. QED  BY <2>1, <2>3
<1>5. /\ staging' \in [Places -> [Names -> AnyFile]]
      /\ published' \in [Places -> [Names -> AnyFile]]
      /\ \A p \in Places, n \in Names :
           OutlivesPowerFailure(published[p][n], published'[p][n])
  BY <1>2, <1>3, <1>4
<1>6. dirs' \in [Domains -> {"absent", "partial", "cached", "durable"}]
  <2>1. PICK first \in DirectoryAfterPowerFailure(dirs["primary"]),
             second \in DirectoryAfterPowerFailure(dirs["secondary"]) :
          dirs' = [dirs EXCEPT !["primary"] = first, !["secondary"] = second]
    BY DEF PowerFails
  <2>2. dirs \in [Domains -> {"absent", "partial", "cached", "durable"}]
    BY DEF StoreInv, StoreShape
  <2>3. dirs["primary"] \in {"absent", "partial", "cached", "durable"}
        /\ dirs["secondary"] \in {"absent", "partial", "cached", "durable"}
    BY <2>2 DEF Domains
  <2>4. first \in {"absent", "partial", "cached", "durable"}
        /\ second \in {"absent", "partial", "cached", "durable"}
    BY <2>3 DEF DirectoryAfterPowerFailure
  <2>. QED  BY <2>1, <2>2, <2>4
<1>7. StoreShape'
  BY <1>1, <1>5, <1>6 DEF StoreInv, StoreShape
<1>8. JobKnows' /\ CallKnows'
  BY <1>1 DEF Idle, JobKnows, CallKnows, PublishPcs, CallPcs
<1>9. Kept
  BY <1>5 DEF Kept, OutlivesPowerFailure
<1>10. PublishedShape'
  <2>1. \A p \in Places, n \in Names : published'[p][n].entry # "removed"
    BY <1>5 DEF OutlivesPowerFailure
  <2>2. \A n \in Names :
          Visible(published'["ledger"][n]) => published'["ledger"][n].synced
    BY <1>5 DEF Places, OutlivesPowerFailure
  <2>. QED  BY <2>1, <2>2 DEF PublishedShape, Visible
<1>11. SealedMeansTwoCopies'
  <2> SUFFICES ASSUME NEW r \in Records, Visible(published'["ledger"][r]),
                      published'["ledger"][r].data.state = "sealed"
               PROVE  LET file == published'["ledger"][r]
                      IN  /\ file.data.bytes \notin Torn
                          /\ \A d \in Domains :
                               published'[d][file.data.object] =
                                 [entry |-> "durable",
                                  data |-> Raw(file.data.object, file.data.bytes),
                                  synced |-> TRUE]
    BY DEF SealedMeansTwoCopies, Durable, Visible, Raw
  <2> DEFINE before == published["ledger"][r]
  <2>1. "ledger" \in Places /\ r \in Names /\ Domains \subseteq Places
    BY DEF Places, Names
  <2>2. before \in AnyFile /\ before # NoFile
    <3>1. ~ Visible(NoFile)
      BY DEF NoFile, Visible
    <3>2. published'["ledger"][r] # NoFile
      BY <3>1
    <3>3. before = NoFile => published'["ledger"][r] = NoFile
      BY <1>5, <2>1 DEF OutlivesPowerFailure
    <3>. QED  BY <1>2, <2>1, <3>2, <3>3
  <2>3. before \in Files /\ before.entry # "removed"
    BY <2>1, <2>2 DEF AnyFile, StoreInv, PublishedShape
  <2>4. Visible(before) /\ before.synced
    BY <2>1, <2>3 DEF Files, Visible, StoreInv, PublishedShape
  <2>5. published'["ledger"][r].data = before.data
    BY <1>5, <2>1, <2>4 DEF OutlivesPowerFailure
  <2>6. /\ before.data.bytes \notin Torn
        /\ \A d \in Domains :
             Durable(d, before.data.object, Raw(before.data.object, before.data.bytes))
    BY <2>4, <2>5 DEF StoreInv, SealedMeansTwoCopies
  <2>7. before.data.object \in Names
    BY <2>3 DEF Files, Data, Names
  <2>8. ASSUME NEW d \in Domains
        PROVE  published'[d][before.data.object] = published[d][before.data.object]
    BY <1>9, <2>1, <2>6, <2>7 DEF Kept, Durable
  <2>. QED  BY <2>5, <2>6, <2>8 DEF Durable
<1>. QED  BY <1>1, <1>7, <1>8, <1>9, <1>10, <1>11, KeptResults DEF StoreInv

\* The steps that touch no file and leave no publication behind.
LEMMA OtherStepsKeepInv ==
    ASSUME StoreInv,
           \/ OpenNew \/ MakeDirectories \/ OpenFails \/ SyncDirectories
           \/ \E d \in Domains, o \in Objects, b \in Payloads : RecoverPublished(d, o, b)
           \/ PromoteVerify \/ PromoteFails \/ RecoverReturns \/ ProcessStops
    PROVE  StoreInv'
<1> DEFINE D == {"absent", "partial", "cached", "durable"}
           M == {"none", "creating", "create_new", "recover_existing"}
           J == {Idle} \cup OpenJobs \cup RecoveryJobs
<1>1. UNCHANGED <<files, results>>
  BY DEF OpenNew, MakeDirectories, OpenFails, SyncDirectories, RecoverPublished,
         PromoteVerify, PromoteFails, RecoverReturns, ProcessStops
<1>2. dirs \in [Domains -> D] /\ mode \in M
  BY DEF StoreInv, StoreShape
<1>3. dirs' \in [Domains -> D]
  BY <1>2 DEF OpenNew, MakeDirectories, OpenFails, SyncDirectories, RecoverPublished,
              PromoteVerify, PromoteFails, RecoverReturns, ProcessStops
<1>4. mode' \in M
  BY <1>2 DEF OpenNew, MakeDirectories, OpenFails, SyncDirectories, RecoverPublished,
              PromoteVerify, PromoteFails, RecoverReturns, ProcessStops, Forget, memory
<1>5. job' \in J
  <2>1. job \in {Idle} \cup OpenJobs \cup PublishJobs \cup RecoveryJobs
    BY DEF StoreInv, StoreShape
  <2>2. CASE MakeDirectories
    <3>1. job \in OpenJobs
      BY <2>1, <2>2 DEF MakeDirectories, Idle, PublishJobs, PublishPcs, CallPcs,
                        RecoveryJobs
    <3>. QED  BY <2>2, <3>1 DEF MakeDirectories, OpenJobs
  <2>3. CASE PromoteVerify
    <3>1. job \in RecoveryJobs
      BY <2>1, <2>3 DEF PromoteVerify, Idle, PublishJobs, PublishPcs, CallPcs, OpenJobs
    <3>. QED  BY <2>3, <3>1 DEF PromoteVerify, RecoveryJobs
  <2>4. CASE OpenNew \/ OpenFails \/ SyncDirectories \/ PromoteFails \/ RecoverReturns
             \/ ProcessStops
    BY <2>4 DEF OpenNew, OpenFails, SyncDirectories, PromoteFails, RecoverReturns,
                ProcessStops, Forget, OpenJobs, Domains
  <2>5. CASE \E d \in Domains, o \in Objects, b \in Payloads : RecoverPublished(d, o, b)
    BY <2>5 DEF RecoverPublished, RecoveryJob, RecoveryJobs
  <2>. QED  BY <2>2, <2>3, <2>4, <2>5
<1>. QED  BY <1>1, <1>3, <1>4, <1>5, QuietStepsKeepInv

\* Opening an existing store changes the mode only, and there is no step
\* besides that changes nothing the invariant speaks of.
LEMMA ModeKeepsInv ==
    ASSUME StoreInv, OpenExisting \/ UNCHANGED vars
    PROVE  StoreInv'
<1>1. /\ UNCHANGED <<dirs, staging, published, objectIds, artifactIds, job, results>>
      /\ mode' \in {mode, "recover_existing"}
  BY DEF OpenExisting, vars, files, memory
<1>2. StoreShape'
  BY <1>1 DEF StoreInv, StoreShape
<1>3. Name' = Name /\ Content' = Content
  BY <1>1 DEF Name, Content
<1>4. JobKnows' /\ CallKnows'
  BY <1>1, <1>3 DEF StoreInv, JobKnows, CallKnows, Durable
<1>. QED  BY <1>1, <1>2, <1>4, UnpublishedStep DEF StoreInv

-----------------------------------------------------------------------------
LEMMA StoreStep == StoreInv /\ [Next]_vars => StoreInv'
<1> SUFFICES ASSUME StoreInv, [Next]_vars PROVE StoreInv'
  OBVIOUS
<1>1. CASE Opening
  BY <1>1, OtherStepsKeepInv, ModeKeepsInv DEF Opening
<1>2. CASE Publishing
  BY <1>2, BeginKeepsInv, StagingKeepsInv, VerifyKeepsInv, LinkKeepsInv,
     SyncPublishedKeepsInv, SyncStagingKeepsInv, ConcludeKeepsInv, FailureKeepsInv
     DEF Publishing
<1>3. CASE Recovering
  BY <1>3, OtherStepsKeepInv, RecoverLinkKeepsInv, PromoteSyncKeepsInv DEF Recovering
<1>4. CASE ProcessStops
  BY <1>4, OtherStepsKeepInv
<1>5. CASE PowerFails
  BY <1>5, PowerFailureKeepsInv
<1>6. CASE UNCHANGED vars
  BY <1>6, ModeKeepsInv
<1>. QED  BY <1>1, <1>2, <1>3, <1>4, <1>5, <1>6 DEF Next

\* At every call, failure, stop and power failure: the publication in
\* progress knows what is on the disk.
THEOREM StoreInvariant == Spec => []StoreInv
BY StoreInvInit, StoreStep, PTL DEF Spec

\* A ledger record that can be read as sealed has two durable copies, and a
\* copy returned as verified is never lost (publish, publish_one).
THEOREM CopiesAreSafe == Spec => []CopiesInv
<1>1. StoreInv => CopiesInv
  <2> SUFFICES ASSUME StoreInv PROVE StoreTypeOK
    BY DEF StoreInv, CopiesInv
  <2>1. ASSUME NEW p \in Places, NEW n \in Names
        PROVE  /\ staging[p][n] = NoFile \/ staging[p][n] \in Files
               /\ published[p][n] = NoFile \/ published[p][n] \in Files
    BY DEF StoreInv, StoreShape, AnyFile
  <2>. QED  BY <2>1 DEF StoreTypeOK, StoreInv, StoreShape, JobKnows, PublishPcs
<1>. QED  BY StoreInvariant, <1>1, PTL

\* publish returns sealed only with its ledger record on the disk, for good.
THEOREM SealedResultsAreOnDisk == Spec => []SealedResultIsOnDisk
<1>1. StoreInv => SealedResultIsOnDisk
  BY DEF StoreInv
<1>. QED  BY StoreInvariant, <1>1, PTL

\* Append-only: no link, promotion, sync, stop or power failure changes a
\* synced published name.
THEOREM PublishedStaysPermanent == Spec => PublishedIsPermanent
<1>1. StoreInv /\ [Next]_vars => Kept
  <2> SUFFICES ASSUME StoreInv, [Next]_vars PROVE Kept
    OBVIOUS
  <2>1. CASE published' = published
    BY <2>1 DEF Kept
  <2>2. CASE Link
    <3>1. job.pc \in PublishPcs
      BY <2>2 DEF Link, PublishPcs, CallPcs
    <3>2. job.place \in Places /\ Name \in Names
      BY <3>1, PublicationFacts DEF PublishJobs
    <3>. QED  BY <2>2, <3>2 DEF Link, Visible, Kept, StoreInv, StoreShape
  <2>3. CASE \E d \in Domains, o \in Objects, b \in Payloads : RecoverLink(d, o, b)
    <3>1. PICK d \in Domains, o \in Objects, b \in Payloads : RecoverLink(d, o, b)
      BY <2>3
    <3>2. d \in Places /\ o \in Names
      BY DEF Places, Names
    <3>. QED  BY <3>1, <3>2 DEF RecoverLink, Visible, Kept, StoreInv, StoreShape
  <2>4. CASE SyncPublished
    <3>1. job.pc \in PublishPcs
      BY <2>4 DEF SyncPublished, PublishPcs, CallPcs
    <3>2. job.place \in Places
      BY <3>1, PublicationFacts DEF PublishJobs
    <3>. QED  BY <2>4, <3>2, SyncedPublished DEF SyncPublished
  <2>5. CASE PromoteSync
    <3>1. job \in RecoveryJobs
      BY <2>5 DEF PromoteSync, StoreInv, StoreShape, Idle, OpenJobs, PublishJobs,
                  PublishPcs, CallPcs
    <3>2. job.place \in Places
      BY <3>1 DEF RecoveryJobs, Places
    <3>. QED  BY <2>5, <3>2, SyncedPublished DEF PromoteSync
  <2>6. CASE PowerFails
    BY <2>6, PowerFailureKeepsInv
  <2>7. CASE Opening \/ ProcessStops \/ UNCHANGED vars
    BY <2>1, <2>7 DEF Opening, OpenNew, MakeDirectories, OpenFails, SyncDirectories,
       OpenExisting, ProcessStops, vars, files
  <2>8. CASE Publishing
    BY <2>1, <2>2, <2>4, <2>8 DEF Publishing, BeginPublish, Stage, Write, SyncFile,
       VerifyStaging, VerifyPublished, Unlink, SyncStaging, Conclude, CallFails, files
  <2>9. CASE Recovering
    BY <2>1, <2>3, <2>5, <2>9 DEF Recovering, RecoverPublished, PromoteVerify,
       PromoteFails, RecoverReturns, files
  <2>. QED  BY <2>6, <2>7, <2>8, <2>9 DEF Next
<1>2. StoreInv /\ [Next]_vars =>
        [\A p \in Places, n \in Names :
           published[p][n].entry = "durable" /\ published[p][n].synced =>
               published'[p][n] = published[p][n]]_vars
  BY <1>1 DEF Kept
<1>. QED  BY StoreInvariant, <1>2, PTL DEF Spec, PublishedIsPermanent
=============================================================================
