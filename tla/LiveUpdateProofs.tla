-------------------------- MODULE LiveUpdateProofs --------------------------
(***************************************************************************)
(* Proofs about LiveUpdate, for every set of resources and every number of *)
(* requests, boots and faults.                                             *)
(***************************************************************************)
EXTENDS LiveUpdate, SequenceTheorems, FiniteSetTheorems, TLAPS

-----------------------------------------------------------------------------
(* The inductive invariant. *)

\* What the variables hold.
IndexFile == [state : IndexStates, index : SUBSET Entries]
\* The files.
DiskRecord == [arci : IndexFile, arci_tmp : IndexFile, arcd : Seq(Resources),
               ref : RefStates, ref_tmp : RefStates]
\* The manifest that live update works on.
ManifestRecord == [made : BOOLEAN, linked : BOOLEAN, index : SUBSET Entries]
\* The job thread.
ThreadRecord == [pc : {"off", "top", "lock", "asleep", "process", "write", "open", "save",
                       "flag", "exited"},
                 index : SUBSET Entries, offset : Nat]
\* m_JobCompleteData.
DoneRecord == [job : Jobs \cup {<<>>}, status : BOOLEAN, index : SUBSET Entries]
\* What was stored, ever and in this session.
StoredRecord == [ever : SUBSET Resources, now : SUBSET Resources]
\* The counters of faults and boots.
BoundsRecord == [faults : Nat, boots : Nat, failed : Nat, before : Nat]

\* The state has its type; a file position is never behind the end of the file.
Typed ==
  /\ disk \in DiskRecord
  /\ engine \in {"off", "loading", "running", "finalizing", "joining"}
  /\ type \in {NoArchive, Regular, Zip}
  /\ mounted \subseteq Entries
  /\ lu \in ManifestRecord
  /\ jobQueue \in Seq(Jobs) /\ threadQueue \in Seq(Jobs)
  /\ thread \in ThreadRecord /\ done \in DoneRecord
  /\ complete \in BOOLEAN /\ active \in BOOLEAN
  /\ filePos \in Nat /\ filePos <= Len(disk.arcd)
  /\ asked \in 0 .. MaxRequests
  /\ answers \in [Requests -> Seq(BOOLEAN)]
  /\ stored \in StoredRecord /\ bounds \in BoundsRecord

\* Between two sessions, and while one is being loaded, nothing is left of the
\* session before.
QuietInv ==
  /\ engine \in {"off", "loading"} =>
       /\ lu = NoManifest /\ jobQueue = <<>> /\ threadQueue = <<>>
       /\ thread = Idle /\ done = NoJob /\ ~complete /\ filePos = 0 /\ reading = NotReading
       /\ answers = [i \in Requests |-> <<>>] /\ stored.now = {}
  /\ active <=> engine = "running"

\* The thread is between the pick of a job and the flag.
Busy == thread.pc \in {"process", "write", "open", "save", "flag"}
\* m_JobCompleteData holds a job that is not answered yet.
Held == complete \/ Busy

\* m_JobCompleteData is the thread's until the flag is set, then the main
\* thread's until it is cleared.
SlotInv ==
  /\ complete => ~Busy
  /\ Held => done.job \in Jobs
  /\ thread.pc \in {"write", "open"} => ~done.job.archive
  /\ thread.pc \in {"process", "write", "open", "save"} => ~done.status

\* No index names bytes behind the end of the data file.  The first request for
\* a resource empties the file: before it there is no entry, and no other job
\* than archives.
OffsetInv ==
  /\ \A e \in lu.index : e.offset <= Len(disk.arcd)
  /\ \A e \in thread.index : e.offset <= Len(disk.arcd)
  /\ \A e \in done.index : e.offset <= Len(disk.arcd)
  /\ thread.offset <= Len(disk.arcd)
  /\ ~lu.made => /\ lu.index = {} /\ thread.index = {} /\ done.index = {}
                 /\ thread.offset = 0
                 /\ Held => done.job.archive
  /\ ~lu.made /\ engine = "running" =>
       /\ \A k \in 1 .. Len(jobQueue) : jobQueue[k].archive
       /\ \A k \in 1 .. Len(threadQueue) : threadQueue[k].archive

\* The index in the making contains the published one, from the copy to the
\* publication; so does a complete temporary index on disk.
IndexInv ==
  /\ thread.pc = "write" => lu.index \subseteq thread.index
  /\ thread.pc \in {"open", "save"} /\ ~done.job.archive =>
       lu.index \subseteq thread.index /\ Holds(thread.index, done.job.res)
  /\ (complete \/ thread.pc = "flag") /\ done.status /\ ~done.job.archive =>
       /\ lu.index \subseteq done.index /\ Holds(done.index, done.job.res)
       /\ disk.arci_tmp.state = "whole" => done.index \subseteq disk.arci_tmp.index
  /\ disk.arci_tmp.state = "whole" => lu.index \subseteq disk.arci_tmp.index
  /\ \A r \in stored.now : Holds(lu.index, r)

\* No live update file that a boot looks for is there.
NothingLeft(d) == /\ d.arci = Absent /\ d.arci_tmp = Absent
                  /\ d.ref = "absent" /\ d.ref_tmp = "absent"
\* The files of the other format are gone.
OneFormat(d, t) == /\ t = Regular => d.ref = "absent" /\ d.ref_tmp = "absent"
                   /\ t = Zip => d.arci = Absent /\ d.arci_tmp = Absent

\* LULoadManifest keeps the files of one format, and a failed boot removes those;
\* without files there is nothing that a boot could fail on.
BootInv ==
  /\ bounds.failed \in {0, 1}
  /\ bounds.failed = 1 => /\ engine \in {"off", "loading"} /\ NothingLeft(disk)
                          /\ engine = "loading" => type = NoArchive
  /\ engine = "loading" => OneFormat(disk, type)

\* The queue has the request; no request is twice in it.
Has(q, i) == \E k \in 1 .. Len(q) : q[k].id = i
\* No request twice in a queue.
Distinct(q) == \A k, l \in 1 .. Len(q) : q[k].id = q[l].id => k = l

\* Where a request can be.
Places == {"queue", "thread", "hand", "answered"}
\* p is the one place where request i is.
LocatedAt(i, p) ==
  /\ Has(jobQueue, i) <=> p = "queue"
  /\ Has(threadQueue, i) <=> p = "thread"
  /\ (Held /\ done.job.id = i) <=> p = "hand"
  /\ p = "answered" => Len(answers[i]) = 1
  /\ p # "answered" => answers[i] = <<>>

\* Every request of the session is in one place, and nothing else is.
PlaceInv ==
  /\ bounds.before <= asked
  /\ engine = "loading" => bounds.before = asked
  /\ engine = "running" =>
       /\ Distinct(jobQueue) /\ Distinct(threadQueue)
       /\ \A i \in bounds.before + 1 .. asked : \E p \in Places : LocatedAt(i, p)
       /\ \A i \in Requests : i \notin bounds.before + 1 .. asked =>
            /\ answers[i] = <<>>
            /\ ~Has(jobQueue, i) /\ ~Has(threadQueue, i) /\ ~(Held /\ done.job.id = i)

\* The inductive invariant.
IndInv == Typed /\ QuietInv /\ SlotInv /\ OffsetInv /\ IndexInv /\ BootInv /\ PlaceInv

-----------------------------------------------------------------------------
(* Lemmas about the files, the jobs and sequences. *)

\* The index files are index files.
LEMMA IndexFiles ==
  /\ Absent \in IndexFile /\ Empty \in IndexFile
  /\ \A S \in SUBSET Entries : Whole(S) \in IndexFile /\ Part(S) \in IndexFile
  BY DEF Absent, Empty, Whole, Part, IndexFile, IndexStates

\* The steps of a boot keep the type of the files.
LEMMA FileSteps ==
  ASSUME NEW d \in DiskRecord
  PROVE  /\ LUCleanup_Regular(d) \in DiskRecord
         /\ LUCleanup_Regular(d).arci = Absent /\ LUCleanup_Regular(d).arci_tmp = Absent
         /\ LUCleanup_Regular(d).ref = d.ref /\ LUCleanup_Regular(d).ref_tmp = d.ref_tmp
         /\ LUCleanup_Zip(d) \in DiskRecord
         /\ LUCleanup_Zip(d).arci = d.arci /\ LUCleanup_Zip(d).arci_tmp = d.arci_tmp
         /\ LUCleanup_Zip(d).ref = "absent" /\ LUCleanup_Zip(d).ref_tmp = "absent"
         /\ RenameTempZip(d) \in DiskRecord
         /\ RenameTempIndex(d) \in DiskRecord
         /\ RenameTempIndex(d).ref = d.ref /\ RenameTempIndex(d).ref_tmp = d.ref_tmp
         /\ d.arci_tmp = Absent => RenameTempIndex(d) = d
<1>0. <<>> \in Seq(Resources) /\ "absent" \in RefStates
  BY DEF RefStates
<1>1. /\ LUCleanup_Regular(d) \in DiskRecord
      /\ LUCleanup_Regular(d).arci = Absent /\ LUCleanup_Regular(d).arci_tmp = Absent
      /\ LUCleanup_Regular(d).ref = d.ref /\ LUCleanup_Regular(d).ref_tmp = d.ref_tmp
  BY <1>0, IndexFiles DEF LUCleanup_Regular, DiskRecord
<1>2. /\ LUCleanup_Zip(d) \in DiskRecord
      /\ LUCleanup_Zip(d).arci = d.arci /\ LUCleanup_Zip(d).arci_tmp = d.arci_tmp
      /\ LUCleanup_Zip(d).ref = "absent" /\ LUCleanup_Zip(d).ref_tmp = "absent"
  BY <1>0 DEF LUCleanup_Zip, DiskRecord
<1>3. RenameTempZip(d) \in DiskRecord
  BY <1>0 DEF RenameTempZip, DiskRecord
<1>4. /\ RenameTempIndex(d) \in DiskRecord
      /\ RenameTempIndex(d).ref = d.ref /\ RenameTempIndex(d).ref_tmp = d.ref_tmp
      /\ d.arci_tmp = Absent => RenameTempIndex(d) = d
  BY <1>0, IndexFiles DEF RenameTempIndex, DiskRecord
<1> QED
  BY <1>1, <1>2, <1>3, <1>4

\* LULoadManifest keeps the type of the files and the files of one format only, and
\* without files it does nothing.
LEMMA ManifestLoad ==
  ASSUME NEW d \in DiskRecord, NEW u \in BOOLEAN
  PROVE  /\ LULoadManifest(d, u).disk \in DiskRecord
         /\ LULoadManifest(d, u).type \in {NoArchive, Regular, Zip}
         /\ OneFormat(LULoadManifest(d, u).disk, LULoadManifest(d, u).type)
         /\ NothingLeft(d) => /\ LULoadManifest(d, u).disk = d
                              /\ LULoadManifest(d, u).type = NoArchive
<1> DEFINE Good(L) == /\ L.disk \in DiskRecord /\ L.type \in {NoArchive, Regular, Zip}
                      /\ OneFormat(L.disk, L.type)
<1>1. ASSUME NEW f \in DiskRecord PROVE Good(LoadRegular(f))
  BY FileSteps DEF LoadRegular, OneFormat, Regular, NoArchive, Zip
<1>2. /\ DetermineLUType(d) \in {NoArchive, Regular, Zip}
      /\ NothingLeft(d) => DetermineLUType(d) = NoArchive
  BY DEF DetermineLUType, NothingLeft
<1>3. CASE DetermineLUType(d) = NoArchive
  <2>1. LULoadManifest(d, u) = [disk |-> d, type |-> NoArchive]
    BY <1>3 DEF LULoadManifest, Regular, NoArchive, Zip
  <2> QED
    BY <2>1 DEF OneFormat, Regular, NoArchive, Zip
<1>4. CASE DetermineLUType(d) = Regular
  <2>1. LULoadManifest(d, u) = LoadRegular(d)
    BY <1>4 DEF LULoadManifest, Regular, NoArchive, Zip
  <2> QED
    BY <1>1, <1>2, <1>4, <2>1 DEF Regular, NoArchive
<1>5. CASE DetermineLUType(d) = Zip
  <2>1. PICK f \in DiskRecord : f = RenameTempZip(d)
    BY FileSteps
  <2>2. \/ LULoadManifest(d, u) = [disk |-> LUCleanup_Regular(f), type |-> Zip]
        \/ LULoadManifest(d, u) = LoadRegular(LUCleanup_Zip(f))
    BY <1>5, <2>1 DEF LULoadManifest, Regular, NoArchive, Zip
  <2>3. ~NothingLeft(d)
    BY <1>2, <1>5 DEF Zip, NoArchive
  <2>4. CASE LULoadManifest(d, u) = [disk |-> LUCleanup_Regular(f), type |-> Zip]
    BY <2>3, <2>4, FileSteps DEF OneFormat, Regular, NoArchive, Zip
  <2>5. CASE LULoadManifest(d, u) = LoadRegular(LUCleanup_Zip(f))
    <3>1. LUCleanup_Zip(f) \in DiskRecord
      BY FileSteps
    <3> QED
      BY <1>1, <2>3, <2>5, <3>1
  <2> QED
    BY <2>2, <2>4, <2>5
<1> QED
  BY <1>2, <1>3, <1>4, <1>5

\* What the step from "loading" leaves of the files.
LEMMA CleanupFiles ==
  ASSUME NEW d \in DiskRecord, NEW t \in {NoArchive, Regular, Zip}
  PROVE  /\ LUCleanupArchive(d, t) \in DiskRecord
         /\ t # NoArchive /\ OneFormat(d, t) => NothingLeft(LUCleanupArchive(d, t))
  BY FileSteps DEF LUCleanupArchive, OneFormat, NothingLeft, Regular, NoArchive, Zip

\* A data file after a write at filePos.
LEMMA WrittenData ==
  ASSUME NEW a \in Seq(Resources), NEW n \in 0 .. Len(a), NEW r \in Resources,
         NEW b, b = IF n = Len(a) THEN Append(a, r) ELSE [a EXCEPT ![n + 1] = r]
  PROVE  b \in Seq(Resources) /\ Len(b) >= Len(a) /\ Len(b) >= n + 1 /\ Len(b) \in Nat
<1>1. CASE n = Len(a)
  <2>1. b = Append(a, r)
    BY <1>1
  <2>2. b \in Seq(Resources) /\ Len(b) = Len(a) + 1 /\ Len(a) \in Nat
    BY <2>1
  <2> QED
    BY <1>1, <2>2
<1>2. CASE n # Len(a)
  <2>1. n + 1 \in 1 .. Len(a) /\ Len(a) \in Nat
    BY <1>2
  <2>2. b = [a EXCEPT ![n + 1] = r]
    BY <1>2
  <2>3. b \in Seq(Resources) /\ Len(b) = Len(a)
    BY <2>1, <2>2, ExceptSeq
  <2> QED
    BY <2>1, <2>3
<1> QED
  BY <1>1, <1>2

\* A job is an element of its set.
LEMMA JobType ==
  /\ AnyResource \in Resources
  /\ \A i \in Requests, a \in BOOLEAN, r \in Resources, g \in BOOLEAN :
       [id |-> i, archive |-> a, res |-> r, good |-> g] \in Jobs
  /\ \A j \in Jobs : /\ j.id \in Requests /\ j.archive \in BOOLEAN
                     /\ j.res \in Resources /\ j.good \in BOOLEAN
  /\ 1 \in Requests
  BY LiveUpdateAssumption DEF AnyResource, Jobs, Requests

\* The queue that AsyncFinalize leaves has one element.
LEMMA ResizedType ==
  ASSUME NEW q \in Seq(Jobs)
  PROVE  Resized(q) \in Seq(Jobs)
<1>1. [id |-> 1, archive |-> FALSE, res |-> AnyResource, good |-> FALSE] \in Jobs
  BY JobType
<1>2. \A j \in Jobs : <<j>> \in Seq(Jobs)
  OBVIOUS
<1>3. q # <<>> => Head(q) \in Jobs
  OBVIOUS
<1> QED
  BY <1>1, <1>2, <1>3 DEF Resized

-----------------------------------------------------------------------------
(* What the actions do, field by field. *)

\* The constants of the state have their types.
LEMMA ConstantTypes ==
  /\ NoManifest \in ManifestRecord /\ Idle \in ThreadRecord /\ NoJob \in DoneRecord
  /\ <<>> \in Seq(Jobs) /\ [i \in Requests |-> <<>>] \in [Requests -> Seq(BOOLEAN)]
  /\ NoFiles \in DiskRecord
<1>1. NoManifest \in ManifestRecord /\ Idle \in ThreadRecord /\ NoJob \in DoneRecord
  BY DEF NoManifest, ManifestRecord, Idle, ThreadRecord, NoJob, DoneRecord
<1>2. <<>> \in Seq(Jobs) /\ <<>> \in Seq(BOOLEAN) /\ <<>> \in Seq(Resources)
  OBVIOUS
<1>3. NoFiles \in DiskRecord
  BY <1>2, IndexFiles DEF NoFiles, DiskRecord, RefStates
<1> QED
  BY <1>1, <1>2, <1>3

\* The first stage of a boot.
Boots ==
  /\ engine = "off" /\ engine' = "loading"
  /\ disk' \in DiskRecord /\ type' \in {NoArchive, Regular, Zip}
  /\ OneFormat(disk', type')
  /\ NothingLeft(disk) => disk' = disk /\ type' = NoArchive
  /\ stored' \in StoredRecord /\ stored'.now = stored.now
  /\ bounds' \in BoundsRecord /\ bounds'.failed = bounds.failed
  /\ bounds'.before = asked
  /\ UNCHANGED <<mounted, lu, filePos, reading, async, asked, answers>>

\* What the first stage of a boot does.
LEMMA LoadManifestShape ==
  ASSUME Typed, NEW u \in BOOLEAN, LoadManifest(u)
  PROVE  Boots
<1>1. disk' = LULoadManifest(disk, u).disk /\ type' = LULoadManifest(disk, u).type
  BY DEF LoadManifest
<1>2. /\ disk' \in DiskRecord /\ type' \in {NoArchive, Regular, Zip}
      /\ OneFormat(disk', type')
      /\ NothingLeft(disk) => disk' = disk /\ type' = NoArchive
  BY <1>1, ManifestLoad DEF Typed
<1>3. stored' \in StoredRecord /\ stored'.now = stored.now
  BY DEF LoadManifest, Typed, StoredRecord
<1>4. /\ asked \in Nat /\ bounds \in BoundsRecord
      /\ bounds' = [bounds EXCEPT !.boots = @ + 1, !.before = asked]
  BY LiveUpdateAssumption DEF Typed, LoadManifest
<1>5. /\ bounds' \in BoundsRecord /\ bounds'.failed = bounds.failed
      /\ bounds'.before = asked
  <2>1. PICK b : b = [bounds EXCEPT !.boots = @ + 1]
    OBVIOUS
  <2>2. b \in BoundsRecord /\ b.failed = bounds.failed
    BY <1>4, <2>1 DEF BoundsRecord
  <2>3. bounds' = [b EXCEPT !.before = asked]
    BY <1>4, <2>1, Zenon
  <2> QED
    BY <1>4, <2>2, <2>3 DEF BoundsRecord
<1> QED
  BY <1>2, <1>3, <1>5 DEF LoadManifest, Boots

\* The second stage: the engine starts, or gives up and leaves no files.
Starts ==
  /\ engine = "loading" /\ engine' = "running"
  /\ disk' \in DiskRecord /\ type' \in {NoArchive, Regular, Zip} /\ mounted' \subseteq Entries
  /\ lu' = NoManifest /\ active' = TRUE /\ thread' = [Idle EXCEPT !.pc = "top"]
  /\ bounds' \in BoundsRecord /\ bounds'.failed = 0 /\ bounds'.before = bounds.before
  /\ UNCHANGED <<jobQueue, threadQueue, done, complete, filePos, answers, stored, asked>>

\* The session ends.
Ends ==
  /\ SessionOver /\ asked' = asked /\ disk' \in DiskRecord
  /\ bounds' \in BoundsRecord /\ bounds'.before = bounds.before

\* A boot that fails removes the files of its format.
GivesUp == /\ engine = "loading" /\ type # NoArchive
           /\ OneFormat(disk, type) => NothingLeft(disk')
           /\ bounds'.failed = bounds.failed + 1

\* The second stage of a boot starts the engine, or gives up.
LEMMA LULoadArchiveShape ==
  ASSUME Typed, NEW result \in LoadResults, LULoadArchive(result)
  PROVE  Starts \/ (Ends /\ GivesUp)
<1>0. disk \in DiskRecord /\ type \in {NoArchive, Regular, Zip} /\ bounds \in BoundsRecord
  BY DEF Typed
<1>1. engine = "loading" /\ asked' = asked
  BY DEF LULoadArchive
<1>2. CASE type # NoArchive /\ SessionOver
           /\ disk' = LUCleanupArchive(RenameTempIndex(disk), type)
           /\ bounds' = [bounds EXCEPT !.failed = @ + 1]
  <2>1. PICK f : f = RenameTempIndex(disk)
    OBVIOUS
  <2>2. f \in DiskRecord /\ (OneFormat(disk, type) => OneFormat(f, type))
    BY <1>0, <2>1, FileSteps DEF OneFormat
  <2>3. disk' \in DiskRecord /\ (OneFormat(disk, type) => NothingLeft(disk'))
    BY <1>0, <1>2, <2>1, <2>2, CleanupFiles
  <2>4. /\ bounds' \in BoundsRecord /\ bounds'.before = bounds.before
        /\ bounds'.failed = bounds.failed + 1
    BY <1>0, <1>2 DEF BoundsRecord
  <2> QED
    BY <1>1, <1>2, <2>3, <2>4 DEF Ends, GivesUp
<1>3. CASE Initialize
  <2>1. /\ disk' \in DiskRecord /\ type' \in {NoArchive, Regular, Zip}
        /\ mounted' \subseteq Entries
    <3>1. CASE UNCHANGED <<disk, type, mounted>>
      BY <1>0, <3>1 DEF Typed
    <3>2. CASE /\ disk' = LUCleanupArchive(disk, type) /\ type' = NoArchive
               /\ UNCHANGED mounted
      BY <1>0, <3>2, CleanupFiles DEF Typed
    <3>3. CASE /\ disk' = RenameTempIndex(disk) /\ mounted' = disk'.arci.index /\ UNCHANGED type
      <4>1. disk' \in DiskRecord
        BY <1>0, <3>3, FileSteps
      <4>2. disk'.arci.index \subseteq Entries
        BY <4>1 DEF DiskRecord, IndexFile
      <4> QED
        BY <1>0, <3>3, <4>1, <4>2
    <3>4. engine' = "running"
      BY <1>3 DEF Initialize
    <3>5. ~SessionOver
      BY <3>4 DEF SessionOver
    <3> QED
      BY <3>1, <3>2, <3>3, <3>5 DEF LULoadArchive
  <2>2. bounds' \in BoundsRecord /\ bounds'.failed = 0 /\ bounds'.before = bounds.before
    BY <1>0, <1>3 DEF Initialize, BoundsRecord
  <2> QED
    BY <1>1, <1>3, <2>1, <2>2 DEF Initialize, Starts
<1> QED
  BY <1>2, <1>3 DEF LULoadArchive

\* A shutdown, a crash, and a lookup that ends the process.
LEMMA EndsShape ==
  ASSUME Typed, FinalizeJoin \/ Crash \/ FindEntryInPart
  PROVE  Ends /\ disk' = disk /\ bounds'.failed = bounds.failed
<1>1. CASE FinalizeJoin
  BY <1>1 DEF FinalizeJoin, Ends, Typed
<1>2. CASE Crash
  <2>0. bounds \in BoundsRecord /\ bounds' = [bounds EXCEPT !.faults = @ + 1]
    BY <1>2 DEF Crash, Typed
  <2>1. /\ bounds' \in BoundsRecord /\ bounds'.before = bounds.before
        /\ bounds'.failed = bounds.failed
    BY <2>0 DEF BoundsRecord
  <2> QED
    BY <1>2, <2>1 DEF Crash, Ends, Typed
<1>3. CASE FindEntryInPart
  BY <1>3 DEF FindEntryInPart, Ends, Typed
<1> QED
  BY <1>1, <1>2, <1>3

\* A request is put at the end of m_JobQueue; the first one for a resource makes
\* the manifest and empties the data file.
Stores(job) ==
  /\ engine = "running" /\ asked < MaxRequests
  /\ job \in Jobs /\ job.id = asked + 1
  /\ jobQueue' = Append(jobQueue, job) /\ asked' = asked + 1
  /\ UNCHANGED <<engine, type, mounted, threadQueue, thread, done, complete, active,
                 answers, stored, bounds>>
  /\ \/ /\ UNCHANGED <<lu, disk, filePos>>
        /\ ~job.archive => lu.made
     \/ /\ ~lu.made /\ lu' = [NoManifest EXCEPT !.made = TRUE]
        /\ disk' \in DiskRecord /\ disk'.arcd = <<>> /\ filePos' = 0
        /\ disk'.arci = disk.arci /\ disk'.arci_tmp = disk.arci_tmp

\* What storing a resource or an archive does.
LEMMA StoresShape ==
  ASSUME Typed, \/ \E r \in Resources, good \in BOOLEAN : StoreResource(r, good)
                \/ \E good \in BOOLEAN : StoreArchive(good)
  PROVE  \E job \in Jobs : Stores(job)
<1>0. disk \in DiskRecord /\ <<>> \in Seq(Resources) /\ lu.made \in BOOLEAN
  BY DEF Typed, ManifestRecord
<1>1. asked < MaxRequests => asked + 1 \in Requests
  BY LiveUpdateAssumption DEF Typed, Requests
<1>2. ASSUME NEW r \in Resources, NEW good \in BOOLEAN, StoreResource(r, good)
      PROVE  \E job \in Jobs : Stores(job)
  <2>1. PICK job : job = [id |-> asked + 1, archive |-> FALSE, res |-> r, good |-> good]
    OBVIOUS
  <2>2. job \in Jobs /\ job.id = asked + 1 /\ ~job.archive
    BY <1>1, <1>2, <2>1, JobType DEF StoreResource
  <2>3. [disk EXCEPT !.arcd = <<>>] \in DiskRecord
    BY <1>0 DEF DiskRecord
  <2>4. ~lu.made => /\ disk' \in DiskRecord /\ disk'.arcd = <<>> /\ disk'.arci = disk.arci
                    /\ disk'.arci_tmp = disk.arci_tmp
    BY <1>0, <1>2, <2>3 DEF StoreResource, GetCurrentManifest, DiskRecord
  <2>5. \/ UNCHANGED <<lu, disk, filePos>> /\ lu.made
        \/ /\ ~lu.made /\ lu' = [NoManifest EXCEPT !.made = TRUE]
           /\ disk' \in DiskRecord /\ disk'.arcd = <<>> /\ filePos' = 0
           /\ disk'.arci = disk.arci /\ disk'.arci_tmp = disk.arci_tmp
    BY <1>2, <2>4 DEF StoreResource, GetCurrentManifest
  <2>6. Stores(job)
    BY <1>2, <2>1, <2>2, <2>5 DEF StoreResource, Put, Stores
  <2> QED
    BY <2>2, <2>6
<1>3. ASSUME NEW good \in BOOLEAN, StoreArchive(good)
      PROVE  \E job \in Jobs : Stores(job)
  <2>1. PICK job : job = [id |-> asked + 1, archive |-> TRUE, res |-> AnyResource, good |-> good]
    OBVIOUS
  <2>2. job \in Jobs /\ job.id = asked + 1 /\ job.archive
    BY <1>1, <1>3, <2>1, JobType DEF StoreArchive
  <2>3. Stores(job)
    BY <1>3, <2>1, <2>2 DEF StoreArchive, Put, Stores
  <2> QED
    BY <2>2, <2>3
<1> QED
  BY <1>2, <1>3

\* Signal wakes the thread, and changes nothing else of it.
LEMMA SignalledShape ==
  ASSUME Typed
  PROVE  /\ Signalled \in ThreadRecord
         /\ Signalled.index = thread.index /\ Signalled.offset = thread.offset
         /\ Signalled.pc = thread.pc \/ (thread.pc = "asleep" /\ Signalled.pc = "lock")
  BY DEF Typed, ThreadRecord, Signalled

\* A frame: the finished job is answered, and its index published; then the jobs
\* that wait go to the thread.
Publishes == complete /\ done.status /\ ~done.job.archive

\* AsyncUpdate.
Updates ==
  /\ engine = "running" /\ complete' = FALSE
  /\ threadQueue' = threadQueue \o jobQueue /\ jobQueue' = <<>>
  /\ thread' \in ThreadRecord /\ thread'.index = thread.index /\ thread'.offset = thread.offset
  /\ thread'.pc = thread.pc \/ (thread.pc = "asleep" /\ thread'.pc = "lock")
  /\ complete => /\ done' = NoJob
                 /\ answers' = [answers EXCEPT ![done.job.id] = Append(@, done.status)]
  /\ ~complete => UNCHANGED <<done, answers>>
  /\ Publishes => /\ lu' \in ManifestRecord /\ lu'.made = lu.made /\ lu'.index = done.index
                  /\ stored' \in StoredRecord /\ stored'.now = stored.now \cup {done.job.res}
  /\ ~Publishes => UNCHANGED <<lu, stored>>
  /\ UNCHANGED <<disk, engine, type, mounted, active, filePos, asked, bounds>>

\* What AsyncUpdate does.
LEMMA UpdatesShape ==
  ASSUME Typed, SlotInv, AsyncUpdate
  PROVE  Updates
<1>0. /\ lu \in ManifestRecord /\ done \in DoneRecord /\ stored \in StoredRecord
      /\ complete \in BOOLEAN /\ done.index \subseteq Entries
  BY DEF Typed, DoneRecord
<1>1. complete => done.job \in Jobs /\ done.job.res \in Resources
  BY JobType DEF SlotInv, Held
<1>2. CASE Publishes
  <2>1. complete /\ ProcessRequestComplete
    BY <1>2 DEF AsyncUpdate, Publishes
  <2>2. /\ lu' = [lu EXCEPT !.linked = TRUE, !.index = done.index]
        /\ stored' = [ever |-> stored.ever \cup {done.job.res}, now |-> stored.now \cup {done.job.res}]
    BY <1>2, <2>1 DEF ProcessRequestComplete, Publishes
  <2>3. lu' \in ManifestRecord /\ lu'.made = lu.made /\ lu'.index = done.index
    BY <1>0, <2>2 DEF ManifestRecord
  <2>4. stored' \in StoredRecord /\ stored'.now = stored.now \cup {done.job.res}
    BY <1>0, <1>1, <2>1, <2>2 DEF StoredRecord
  <2>5. /\ done' = NoJob
        /\ answers' = [answers EXCEPT ![done.job.id] = Append(@, done.status)]
    BY <2>1 DEF ProcessRequestComplete
  <2> QED
    BY <1>2, <2>1, <2>3, <2>4, <2>5, SignalledShape DEF AsyncUpdate, Updates
<1>3. CASE complete /\ ~Publishes
  BY <1>3, SignalledShape DEF AsyncUpdate, ProcessRequestComplete, Publishes, Updates
<1>4. CASE ~complete
  BY <1>4, SignalledShape DEF AsyncUpdate, Publishes, Updates
<1> QED
  BY <1>2, <1>3, <1>4

\* A load, which moves the position of the data file within the file.
Reads ==
  /\ filePos' \in Nat /\ filePos' <= Len(disk.arcd)
  /\ engine \notin {"off", "loading"}
  /\ UNCHANGED <<disk, engine, type, mounted, lu, async, asked, answers, stored, bounds>>

\* What a load does.
LEMMA ReadsShape ==
  ASSUME Typed, OffsetInv, QuietInv, (\E r \in Loaded : LoadResource(r)) \/ ReadEntry
  PROVE  Reads
<1>0. Len(disk.arcd) \in Nat /\ filePos \in Nat /\ filePos <= Len(disk.arcd)
  BY DEF Typed, DiskRecord
<1>1. ASSUME NEW r \in Loaded, LoadResource(r) PROVE Reads
  <2>1. PICK e \in lu.index : filePos' = e.offset
    <3>1. \E e \in lu.index : e.res = r
      BY <1>1 DEF LoadResource, Holds
    <3>2. PICK e : e = CHOOSE x \in lu.index : x.res = r
      OBVIOUS
    <3>3. e \in lu.index
      BY <3>1, <3>2
    <3> QED
      BY <1>1, <3>2, <3>3 DEF LoadResource
  <2>2. e.offset \in Nat
    BY DEF Typed, ManifestRecord, Entries
  <2>3. e.offset <= Len(disk.arcd)
    BY DEF OffsetInv
  <2> QED
    BY <1>1, <2>1, <2>2, <2>3 DEF LoadResource, Reads
<1>2. CASE ReadEntry
  <2>1. engine \notin {"off", "loading"}
    BY <1>2 DEF ReadEntry, QuietInv
  <2> QED
    BY <1>0, <1>2, <2>1 DEF ReadEntry, Reads
<1> QED
  BY <1>1, <1>2

\* AsyncFinalize, before and after the lock.
Finalizes ==
  /\ engine' \in {"finalizing", "joining"} /\ engine \notin {"off", "loading"}
  /\ active' = FALSE
  /\ jobQueue' \in Seq(Jobs) /\ threadQueue' \in Seq(Jobs)
  /\ thread' \in ThreadRecord /\ thread'.index = thread.index /\ thread'.offset = thread.offset
  /\ thread'.pc = thread.pc \/ (thread.pc = "asleep" /\ thread'.pc = "lock")
  /\ UNCHANGED <<disk, type, mounted, lu, filePos, done, complete, asked, answers, stored, bounds>>

\* What AsyncFinalize does.
LEMMA FinalizesShape ==
  ASSUME Typed, QuietInv, Finalize \/ FinalizeSignal
  PROVE  Finalizes
<1>1. CASE Finalize
  BY <1>1 DEF Finalize, Finalizes, Typed
<1>2. CASE FinalizeSignal
  BY <1>2, SignalledShape, ResizedType, ConstantTypes DEF FinalizeSignal, Finalizes, Typed, QuietInv
<1> QED
  BY <1>1, <1>2

-----------------------------------------------------------------------------
(* The steps of the job thread. *)

\* The thread moves on to pc and keeps its index.
Moves(pc) == /\ thread' \in ThreadRecord /\ thread'.pc = pc
             /\ thread'.index = thread.index /\ thread'.offset = thread.offset
\* A fault may be counted, nothing else.
SameFaults == bounds' \in BoundsRecord /\ bounds'.failed = bounds.failed
              /\ bounds'.before = bounds.before

\* The thread goes round its loop, sleeps or ends.
Wanders ==
  /\ thread.pc \in {"top", "lock"}
  /\ \E pc \in {"lock", "exited", "asleep", "top"} : Moves(pc)
  /\ UNCHANGED <<disk, done, complete, threadQueue, filePos, bounds>>

\* The thread takes a job.
Picks ==
  /\ thread.pc = "lock" /\ Moves("process") /\ threadQueue # <<>> /\ ~complete /\ active
  /\ done' \in DoneRecord /\ done'.job = threadQueue[Len(threadQueue)] /\ done'.job \in Jobs
  /\ ~done'.status /\ done'.index = {}
  /\ threadQueue' = SubSeq(threadQueue, 1, Len(threadQueue) - 1)
  /\ UNCHANGED <<disk, complete, filePos, bounds>>

\* A job fails.
Fails ==
  /\ thread.pc \in {"process", "open", "save"} /\ Moves("flag") /\ SameFaults
  /\ UNCHANGED <<disk, done, complete, threadQueue, filePos>>

\* The write of a resource fails.
Spoils ==
  /\ thread.pc = "write" /\ Moves("flag") /\ SameFaults
  /\ disk' \in DiskRecord /\ disk'.arci_tmp = disk.arci_tmp
  /\ Len(disk'.arcd) \in Nat /\ Len(disk'.arcd) >= Len(disk.arcd)
  /\ filePos' \in Nat /\ filePos' <= Len(disk'.arcd)
  /\ UNCHANGED <<done, complete, threadQueue>>

\* The thread copies the index and seeks to the end of the data file.
Copies ==
  /\ thread.pc = "process" /\ ~done.job.archive
  /\ thread' \in ThreadRecord /\ thread'.pc = "write" /\ thread'.index = lu.index
  /\ thread'.offset = Len(disk.arcd) /\ filePos' = Len(disk.arcd)
  /\ disk' \in DiskRecord /\ disk'.arcd = disk.arcd /\ disk'.arci_tmp = disk.arci_tmp
  /\ UNCHANGED <<done, complete, threadQueue, bounds>>

\* The thread writes the resource, and enters it in its copy of the index.
Writes ==
  /\ thread.pc = "write" /\ disk' \in DiskRecord /\ disk'.arci_tmp = disk.arci_tmp
  /\ Len(disk'.arcd) \in Nat /\ Len(disk'.arcd) >= Len(disk.arcd) /\ filePos' <= Len(disk'.arcd)
  /\ filePos' = filePos + 1
  /\ thread' \in ThreadRecord /\ thread'.pc = "open" /\ thread'.offset = thread.offset
  /\ thread'.index = thread.index \cup {[res |-> done.job.res, offset |-> thread.offset]}
  /\ UNCHANGED <<done, complete, threadQueue, bounds>>

\* The temporary index is opened, which empties it.
Opens ==
  /\ \/ thread.pc = "open"
     \/ thread.pc = "process" /\ done.job.archive /\ disk'.arci_tmp = disk.arci_tmp
  /\ disk' \in DiskRecord /\ disk'.arcd = disk.arcd
  /\ disk'.arci_tmp = disk.arci_tmp \/ disk'.arci_tmp = Empty
  /\ Moves("save")
  /\ UNCHANGED <<done, complete, threadQueue, filePos, bounds>>

\* A part of the temporary index is written.
Begins ==
  /\ thread.pc = "save" /\ disk' \in DiskRecord /\ disk'.arcd = disk.arcd
  /\ disk'.arci_tmp.state # "whole"
  /\ UNCHANGED <<thread, done, complete, threadQueue, filePos, bounds>>

\* The temporary index is written.
Saves ==
  /\ thread.pc = "save" /\ Moves("flag")
  /\ disk' \in DiskRecord /\ disk'.arcd = disk.arcd
  /\ disk'.arci_tmp = IF done.job.archive THEN disk.arci_tmp ELSE Whole(thread.index)
  /\ done' \in DoneRecord /\ done'.job = done.job /\ done'.status /\ done'.index = thread.index
  /\ UNCHANGED <<complete, threadQueue, filePos, bounds>>

\* m_JobCompleted is set.
Flags ==
  /\ thread.pc = "flag" /\ thread' = [Idle EXCEPT !.pc = "top"] /\ complete' = TRUE
  /\ UNCHANGED <<disk, done, threadQueue, filePos, bounds>>

\* A step of the thread.
ThreadStep == \/ Wanders \/ Picks \/ Fails \/ Spoils \/ Copies
              \/ Writes \/ Opens \/ Begins \/ Saves \/ Flags

\* What moving on changes of the thread.
LEMMA GotoShape ==
  ASSUME Typed, NEW pc \in {"off", "top", "lock", "asleep", "process", "write", "open", "save",
                            "flag", "exited"},
         Goto(pc)
  PROVE  Moves(pc)
  BY DEF Typed, ThreadRecord, Goto, Moves

\* Every step of the thread is one of these.
LEMMA ThreadShape ==
  ASSUME Typed, SlotInv, AsyncThread
  PROVE  ThreadStep
<1>0. /\ thread \in ThreadRecord /\ done \in DoneRecord /\ disk \in DiskRecord
      /\ lu \in ManifestRecord /\ bounds \in BoundsRecord /\ threadQueue \in Seq(Jobs)
      /\ active \in BOOLEAN /\ complete \in BOOLEAN
  BY DEF Typed
<1>1. CASE ThreadTop
  <2>1. CASE active
    <3>1. Goto("lock")
      BY <1>1, <2>1 DEF ThreadTop
    <3> QED
      BY <1>1, <3>1, GotoShape DEF ThreadTop, At, Wanders, ThreadStep
  <2>2. CASE ~active
    <3>1. Goto("exited")
      BY <1>1, <2>2 DEF ThreadTop
    <3> QED
      BY <1>1, <3>1, GotoShape DEF ThreadTop, At, Wanders, ThreadStep
  <2> QED
    BY <2>1, <2>2
<1>2. CASE ThreadLock
  <2>1. CASE Goto("asleep") /\ UNCHANGED <<done, threadQueue>>
    BY <1>2, <2>1, GotoShape DEF ThreadLock, At, Wanders, ThreadStep
  <2>2. CASE Goto("top") /\ UNCHANGED <<done, threadQueue>>
    BY <1>2, <2>2, GotoShape DEF ThreadLock, At, Wanders, ThreadStep
  <2>3. CASE /\ threadQueue # <<>> /\ ~ complete /\ active /\ Goto("process")
             /\ done' = [NoJob EXCEPT !.job = threadQueue[Len(threadQueue)]]
             /\ threadQueue' = SubSeq(threadQueue, 1, Len(threadQueue) - 1)
    <3>1. threadQueue[Len(threadQueue)] \in Jobs
      BY <1>0, <2>3
    <3>2. /\ done' \in DoneRecord /\ done'.job = threadQueue[Len(threadQueue)]
          /\ ~done'.status /\ done'.index = {}
      BY <2>3, <3>1 DEF NoJob, DoneRecord
    <3> QED
      BY <1>2, <2>3, <3>1, <3>2, GotoShape DEF ThreadLock, At, Picks, ThreadStep
  <2> QED
    BY <1>2, <2>1, <2>2, <2>3 DEF ThreadLock
<1>3. CASE Refuse
  BY <1>0, <1>3, GotoShape DEF Refuse, At, Fails, SameFaults, ThreadStep
<1>4. CASE SaveFails
  <2>1. bounds' = [bounds EXCEPT !.faults = @ + 1]
    BY <1>4 DEF SaveFails
  <2>2. SameFaults
    BY <1>0, <2>1 DEF SameFaults, BoundsRecord
  <2> QED
    BY <1>4, <2>2, GotoShape DEF SaveFails, At, Fails, ThreadStep
<1>5. CASE NewArchiveIndexWithResource
  <2>1. disk' \in DiskRecord /\ disk'.arcd = disk.arcd /\ disk'.arci_tmp = disk.arci_tmp
    BY <1>0, <1>5, IndexFiles DEF NewArchiveIndexWithResource, DiskRecord
  <2>2. Len(disk.arcd) \in Nat /\ lu.index \subseteq Entries
    BY <1>0 DEF DiskRecord, ManifestRecord
  <2>3. thread' = [pc |-> "write", index |-> lu.index, offset |-> Len(disk.arcd)]
    BY <1>5 DEF NewArchiveIndexWithResource
  <2>4. /\ thread' \in ThreadRecord /\ thread'.pc = "write" /\ thread'.index = lu.index
        /\ thread'.offset = Len(disk.arcd)
    BY <2>2, <2>3 DEF ThreadRecord
  <2> QED
    BY <1>5, <2>1, <2>4 DEF NewArchiveIndexWithResource, At, Copies, ThreadStep
<1>6. ASSUME At("write")
      PROVE  /\ thread.pc = "write" /\ done.job \in Jobs /\ done.job.res \in Resources
             /\ filePos \in Nat /\ Len(disk.arcd) \in Nat
             /\ \A d : d = [disk EXCEPT !.arcd = Written(@)] =>
                  /\ d \in DiskRecord /\ d.arci_tmp = disk.arci_tmp
                  /\ Len(d.arcd) \in Nat /\ Len(d.arcd) >= Len(disk.arcd)
                  /\ filePos + 1 <= Len(d.arcd)
  <2>1. thread.pc = "write" /\ done.job \in Jobs /\ done.job.res \in Resources
    BY <1>6, JobType DEF At, SlotInv, Held, Busy
  <2>2. filePos \in 0 .. Len(disk.arcd) /\ disk.arcd \in Seq(Resources)
    BY DEF Typed, DiskRecord
  <2>3. PICK b : b = Written(disk.arcd)
    OBVIOUS
  <2>4. b \in Seq(Resources) /\ Len(b) >= Len(disk.arcd) /\ Len(b) >= filePos + 1 /\ Len(b) \in Nat
    BY <2>1, <2>2, <2>3, WrittenData DEF Written
  <2>5. ASSUME NEW d, d = [disk EXCEPT !.arcd = Written(@)]
        PROVE  d \in DiskRecord /\ d.arci_tmp = disk.arci_tmp /\ d.arcd = b
    <3>1. d = [disk EXCEPT !.arcd = b]
      BY <2>3, <2>5
    <3> QED
      BY <1>0, <2>4, <3>1 DEF DiskRecord
  <2> QED
    BY <2>1, <2>2, <2>4, <2>5
<1>7. CASE WriteFails
  <2>1. SameFaults
    BY <1>0, <1>7 DEF WriteFails, SameFaults, BoundsRecord
  <2>2. /\ thread.pc = "write" /\ disk' \in DiskRecord /\ disk'.arci_tmp = disk.arci_tmp
        /\ Len(disk'.arcd) \in Nat /\ Len(disk'.arcd) >= Len(disk.arcd)
        /\ filePos' \in Nat /\ filePos' <= Len(disk'.arcd)
    <3>0. At("write")
      BY <1>7 DEF WriteFails
    <3>1. CASE UNCHANGED <<disk, filePos>>
      BY <1>0, <1>6, <3>0, <3>1 DEF Typed
    <3>2. CASE disk' = [disk EXCEPT !.arcd = Written(@)] /\ filePos' = filePos + 1
      <4>1. thread.pc = "write" /\ filePos \in Nat
        BY <1>6, <3>0
      <4>2. /\ disk' \in DiskRecord /\ disk'.arci_tmp = disk.arci_tmp
            /\ Len(disk'.arcd) \in Nat /\ Len(disk'.arcd) >= Len(disk.arcd)
            /\ filePos + 1 <= Len(disk'.arcd)
        BY <1>6, <3>0, <3>2
      <4> QED
        BY <3>2, <4>1, <4>2
    <3> QED
      BY <1>7, <3>1, <3>2 DEF WriteFails
  <2> QED
    BY <1>7, <2>1, <2>2, GotoShape DEF WriteFails, Spoils, ThreadStep
<1>8. CASE WriteResourceToArchive
  <2>1. At("write") /\ disk' = [disk EXCEPT !.arcd = Written(@)] /\ filePos' = filePos + 1
    BY <1>8 DEF WriteResourceToArchive
  <2>2. /\ thread.pc = "write" /\ done.job.res \in Resources /\ disk' \in DiskRecord
        /\ disk'.arci_tmp = disk.arci_tmp /\ Len(disk'.arcd) \in Nat
        /\ Len(disk'.arcd) >= Len(disk.arcd) /\ filePos' <= Len(disk'.arcd)
    BY <1>6, <2>1
  <2>7. PICK e : e = [res |-> done.job.res, offset |-> thread.offset]
    OBVIOUS
  <2>8. e \in Entries
    BY <1>0, <2>2, <2>7 DEF Entries, ThreadRecord
  <2>9. thread' = [thread EXCEPT !.pc = "open", !.index = @ \cup {e}]
    BY <1>8, <2>7 DEF WriteResourceToArchive
  <2>10. /\ thread' \in ThreadRecord /\ thread'.pc = "open" /\ thread'.offset = thread.offset
         /\ thread'.index = thread.index \cup {e}
    BY <1>0, <2>8, <2>9 DEF ThreadRecord
  <2>11. UNCHANGED <<done, complete, threadQueue, bounds>>
    BY <1>8 DEF WriteResourceToArchive
  <2> QED
    BY <2>1, <2>2, <2>7, <2>10, <2>11 DEF Writes, ThreadStep
<1>9. CASE OpenTemp
  <2>1. CASE At("open") /\ disk' = [disk EXCEPT !.arci_tmp = Empty]
    <3>1. disk' \in DiskRecord /\ disk'.arcd = disk.arcd /\ disk'.arci_tmp = Empty
      BY <1>0, <2>1, IndexFiles DEF DiskRecord
    <3> QED
      BY <1>9, <2>1, <3>1, GotoShape DEF OpenTemp, At, Opens, ThreadStep
  <2>2. CASE At("process") /\ done.job.archive /\ disk' = [disk EXCEPT !.ref_tmp = "empty"]
    <3>1. disk' \in DiskRecord /\ disk'.arcd = disk.arcd /\ disk'.arci_tmp = disk.arci_tmp
      BY <1>0, <2>2 DEF DiskRecord, RefStates
    <3> QED
      BY <1>9, <2>2, <3>1, GotoShape DEF OpenTemp, At, Opens, ThreadStep
  <2> QED
    BY <1>9, <2>1, <2>2 DEF OpenTemp
<1>10. CASE SavePart
  <2>1. PICK left \in SUBSET thread.index : disk' = [disk EXCEPT !.arci_tmp = Part(left)]
    BY <1>10 DEF SavePart
  <2>2. Part(left) \in IndexFile /\ Part(left).state # "whole"
    BY <1>0, <2>1, IndexFiles DEF ThreadRecord, Part
  <2>3. disk' \in DiskRecord /\ disk'.arcd = disk.arcd /\ disk'.arci_tmp = Part(left)
    BY <1>0, <2>1, <2>2 DEF DiskRecord
  <2> QED
    BY <1>10, <2>2, <2>3 DEF SavePart, At, Begins, ThreadStep
<1>11. CASE SaveTemp
  <2>1. thread.pc = "save" /\ done.job \in Jobs /\ done.job.archive \in BOOLEAN
    BY <1>11, JobType DEF SaveTemp, At, SlotInv, Held, Busy
  <2>2. thread.index \subseteq Entries /\ Whole(thread.index) \in IndexFile
    BY <1>0, IndexFiles DEF ThreadRecord
  <2>3. /\ disk' \in DiskRecord /\ disk'.arcd = disk.arcd
        /\ disk'.arci_tmp = IF done.job.archive THEN disk.arci_tmp ELSE Whole(thread.index)
    <3>1. CASE done.job.archive
      BY <1>0, <1>11, <3>1 DEF SaveTemp, DiskRecord, RefStates
    <3>2. CASE ~done.job.archive
      BY <1>0, <1>11, <2>2, <3>2 DEF SaveTemp, DiskRecord
    <3> QED
      BY <3>1, <3>2
  <2>4. done' = [done EXCEPT !.status = TRUE, !.index = thread.index]
    BY <1>11 DEF SaveTemp
  <2>5. /\ done' \in DoneRecord /\ done'.job = done.job /\ done'.status
        /\ done'.index = thread.index
    BY <1>0, <2>2, <2>4 DEF DoneRecord
  <2> QED
    BY <1>11, <2>1, <2>3, <2>5, GotoShape DEF SaveTemp, Saves, ThreadStep
<1>12. CASE ThreadFlag
  BY <1>12 DEF ThreadFlag, At, Flags, ThreadStep
<1> QED
  BY <1>1, <1>2, <1>3, <1>4, <1>5, <1>7, <1>8, <1>9, <1>10, <1>11, <1>12 DEF AsyncThread

-----------------------------------------------------------------------------
(* A step of the whole system is one of these. *)

\* A session ends: a boot gives up, or the engine is shut down or crashes.
Stops == Ends /\ (GivesUp \/ (disk' = disk /\ bounds'.failed = bounds.failed))
\* A step of the thread changes nothing of the main thread's.
JobThread == ThreadStep /\ UNCHANGED NotThread

\* Every step is one of these.
LEMMA NextShape ==
  ASSUME Typed, QuietInv, SlotInv, OffsetInv, Next
  PROVE  \/ Boots \/ Starts \/ Stops \/ Updates \/ Reads \/ Finalizes \/ JobThread
         \/ \E job \in Jobs : Stores(job)
<1>1. CASE \E usable \in BOOLEAN : LoadManifest(usable)
  BY <1>1, LoadManifestShape
<1>2. CASE \E result \in LoadResults : LULoadArchive(result)
  BY <1>2, LULoadArchiveShape DEF Stops
<1>3. CASE \/ \E r \in Resources, good \in BOOLEAN : StoreResource(r, good)
           \/ \E good \in BOOLEAN : StoreArchive(good)
  BY <1>3, StoresShape
<1>4. CASE AsyncUpdate
  BY <1>4, UpdatesShape
<1>5. CASE (\E r \in Loaded : LoadResource(r)) \/ ReadEntry
  BY <1>5, ReadsShape
<1>6. CASE Finalize \/ FinalizeSignal
  BY <1>6, FinalizesShape
<1>7. CASE FinalizeJoin \/ Crash \/ FindEntryInPart
  BY <1>7, EndsShape DEF Stops
<1>8. CASE AsyncThread
  BY <1>8, ThreadShape DEF AsyncThread, JobThread
<1> QED
  BY <1>1, <1>2, <1>3, <1>4, <1>5, <1>6, <1>7, <1>8 DEF Next

-----------------------------------------------------------------------------
(* The invariant is inductive, part by part. *)

\* Lengths and fields of a typed state.
LEMMA TypedFields ==
  ASSUME Typed
  PROVE  /\ disk.arcd \in Seq(Resources) /\ Len(disk.arcd) \in Nat
         /\ thread.index \subseteq Entries /\ thread.offset \in Nat
         /\ done.index \subseteq Entries /\ lu.index \subseteq Entries
         /\ Len(jobQueue) \in Nat /\ Len(threadQueue) \in Nat
         /\ lu.made \in BOOLEAN /\ done.status \in BOOLEAN
         /\ \A e \in Entries : e.offset \in Nat
         /\ asked \in Nat /\ bounds.before \in Nat /\ bounds.failed \in Nat
<1>1. disk.arcd \in Seq(Resources) /\ Len(disk.arcd) \in Nat
  BY DEF Typed, DiskRecord
<1>2. /\ thread.index \subseteq Entries /\ thread.offset \in Nat
      /\ done.index \subseteq Entries /\ lu.index \subseteq Entries
      /\ lu.made \in BOOLEAN /\ done.status \in BOOLEAN
  BY DEF Typed, ThreadRecord, DoneRecord, ManifestRecord
<1>3. Len(jobQueue) \in Nat /\ Len(threadQueue) \in Nat
  BY DEF Typed
<1>4. \A e \in Entries : e.offset \in Nat
  BY DEF Entries
<1>5. asked \in Nat /\ bounds.before \in Nat /\ bounds.failed \in Nat
  BY LiveUpdateAssumption DEF Typed, BoundsRecord
<1> QED
  BY <1>1, <1>2, <1>3, <1>4, <1>5

\* The fields of the records a session begins and ends with.
LEMMA ConstantFields ==
  /\ ~NoManifest.made /\ NoManifest.index = {}
  /\ [NoManifest EXCEPT !.made = TRUE] \in ManifestRecord
  /\ [NoManifest EXCEPT !.made = TRUE].made /\ [NoManifest EXCEPT !.made = TRUE].index = {}
  /\ Idle.pc = "off" /\ Idle.index = {} /\ Idle.offset = 0
  /\ [Idle EXCEPT !.pc = "top"] \in ThreadRecord
  /\ [Idle EXCEPT !.pc = "top"].pc = "top" /\ [Idle EXCEPT !.pc = "top"].index = {}
  /\ [Idle EXCEPT !.pc = "top"].offset = 0
  /\ NoJob.index = {} /\ NoJob.status = FALSE
  BY DEF NoManifest, ManifestRecord, Idle, ThreadRecord, NoJob

\* Every step keeps the types.
LEMMA TypedStep ==
  ASSUME Typed, QuietInv, SlotInv, OffsetInv, Next
  PROVE  Typed'
<1>0. /\ disk \in DiskRecord /\ lu \in ManifestRecord /\ thread \in ThreadRecord
      /\ jobQueue \in Seq(Jobs) /\ threadQueue \in Seq(Jobs) /\ done \in DoneRecord
      /\ stored \in StoredRecord /\ bounds \in BoundsRecord
      /\ answers \in [Requests -> Seq(BOOLEAN)]
  BY DEF Typed
<1>1. CASE Boots
  <2>1. filePos = 0 /\ filePos' = filePos /\ Len(disk'.arcd) \in Nat
    BY <1>1 DEF Boots, QuietInv, DiskRecord
  <2> QED
    BY <1>1, <2>1 DEF Boots, Typed, async
<1>2. CASE Starts
  <2>1. filePos = 0 /\ filePos' = filePos /\ Len(disk'.arcd) \in Nat
    BY <1>2 DEF Starts, QuietInv, DiskRecord
  <2> QED
    BY <1>2, <2>1, ConstantTypes, ConstantFields DEF Starts, Typed
<1>3. CASE Stops
  <2>1. Len(disk'.arcd) \in Nat
    BY <1>3 DEF Stops, Ends, DiskRecord
  <2>2. stored' \in StoredRecord
    BY <1>0, <1>3 DEF Stops, Ends, SessionOver, StoredRecord
  <2>3. /\ answers' \in [Requests -> Seq(BOOLEAN)] /\ lu' \in ManifestRecord
        /\ thread' \in ThreadRecord /\ done' \in DoneRecord
        /\ jobQueue' \in Seq(Jobs) /\ threadQueue' \in Seq(Jobs)
    BY <1>3, ConstantTypes DEF Stops, Ends, SessionOver
  <2>4. filePos' \in Nat /\ filePos' <= Len(disk'.arcd)
    BY <1>3, <2>1 DEF Stops, Ends, SessionOver
  <2> QED
    BY <1>3, <2>1, <2>2, <2>3, <2>4 DEF Stops, Ends, SessionOver, Typed
<1>4. CASE Updates
  <2>1. threadQueue' \in Seq(Jobs) /\ jobQueue' \in Seq(Jobs)
    BY <1>0, <1>4, ConstantTypes, ConcatProperties DEF Updates
  <2>2. done' \in DoneRecord
    BY <1>0, <1>4, ConstantTypes DEF Updates, Typed
  <2>3. answers' \in [Requests -> Seq(BOOLEAN)]
    <3>1. CASE complete
      <4>1. done.job.id \in Requests /\ done.status \in BOOLEAN
        BY <3>1, JobType, TypedFields DEF SlotInv, Held
      <4>2. Append(answers[done.job.id], done.status) \in Seq(BOOLEAN)
        BY <1>0, <4>1
      <4> QED
        BY <1>0, <1>4, <3>1, <4>1, <4>2 DEF Updates
    <3>2. CASE ~complete
      BY <1>0, <1>4, <3>2 DEF Updates
    <3> QED
      BY <3>1, <3>2
  <2>4. lu' \in ManifestRecord /\ stored' \in StoredRecord
    BY <1>0, <1>4 DEF Updates
  <2> QED
    BY <1>4, <2>1, <2>2, <2>3, <2>4 DEF Updates, Typed
<1>5. CASE Reads
  BY <1>5 DEF Reads, Typed, async
<1>6. CASE Finalizes
  BY <1>6 DEF Finalizes, Typed
<1>7. CASE JobThread
  <2>1. UNCHANGED NotThread
    BY <1>7 DEF JobThread
  <2>2. CASE Wanders \/ Fails \/ Spoils \/ Opens \/ Begins
    BY <1>0, <2>1, <2>2 DEF Wanders, Fails, Spoils, Opens, Begins, Moves, SameFaults, NotThread, Typed
  <2>3. CASE Picks
    <3>1. threadQueue' \in Seq(Jobs)
      BY <1>0, <2>3 DEF Picks
    <3> QED
      BY <1>0, <2>1, <2>3, <3>1 DEF Picks, Moves, NotThread, Typed
  <2>4. CASE Copies
    BY <1>0, <2>1, <2>4, TypedFields DEF Copies, NotThread, Typed
  <2>5. CASE Writes
    BY <1>0, <2>1, <2>5, TypedFields DEF Writes, NotThread, Typed
  <2>6. CASE Saves
    BY <1>0, <2>1, <2>6 DEF Saves, Moves, NotThread, Typed
  <2>7. CASE Flags
    BY <1>0, <2>1, <2>7, ConstantFields DEF Flags, NotThread, Typed
  <2> QED
    BY <1>7, <2>2, <2>3, <2>4, <2>5, <2>6, <2>7 DEF JobThread, ThreadStep
<1>8. CASE \E job \in Jobs : Stores(job)
  <2>1. PICK job \in Jobs : Stores(job)
    BY <1>8
  <2>2. jobQueue' \in Seq(Jobs) /\ asked' \in 0 .. MaxRequests
    BY <1>0, <2>1, LiveUpdateAssumption DEF Stores, Typed
  <2>3. CASE UNCHANGED <<lu, disk, filePos>>
    BY <2>1, <2>2, <2>3 DEF Stores, Typed
  <2>4. CASE /\ lu' = [NoManifest EXCEPT !.made = TRUE]
             /\ disk' \in DiskRecord /\ disk'.arcd = <<>> /\ filePos' = 0
    <3>1. filePos' \in Nat /\ filePos' <= Len(disk'.arcd)
      BY <2>4
    <3>2. lu' \in ManifestRecord
      BY <2>4, ConstantFields
    <3> QED
      BY <2>1, <2>2, <2>4, <3>1, <3>2 DEF Stores, Typed
  <2> QED
    BY <2>1, <2>3, <2>4 DEF Stores
<1> QED
  BY <1>1, <1>2, <1>3, <1>4, <1>5, <1>6, <1>7, <1>8, NextShape

\* Every step keeps QuietInv.
LEMMA QuietStep ==
  ASSUME Typed, QuietInv, SlotInv, OffsetInv, Next
  PROVE  QuietInv'
<1>1. CASE Boots
  BY <1>1 DEF Boots, QuietInv, async
<1>2. CASE Starts
  BY <1>2 DEF Starts, QuietInv
<1>3. CASE Stops
  <2>1. stored'.now = {}
    BY <1>3 DEF Stops, Ends, SessionOver, Typed, StoredRecord
  <2> QED
    BY <1>3, <2>1 DEF Stops, Ends, SessionOver, QuietInv
<1>4. CASE Updates
  BY <1>4 DEF Updates, QuietInv
<1>5. CASE Reads
  BY <1>5 DEF Reads, QuietInv, async
<1>6. CASE Finalizes
  BY <1>6 DEF Finalizes, QuietInv
<1>7. CASE JobThread
  <2>1. UNCHANGED NotThread
    BY <1>7 DEF JobThread
  <2>2. thread.pc # "off"
    BY <1>7 DEF JobThread, ThreadStep, Wanders, Picks, Fails, Spoils, Copies, Writes, Opens, Begins,
                Saves, Flags
  <2>3. engine \notin {"off", "loading"}
    BY <2>2, ConstantFields DEF QuietInv
  <2> QED
    BY <2>1, <2>3 DEF QuietInv, NotThread
<1>8. CASE \E job \in Jobs : Stores(job)
  BY <1>8 DEF Stores, QuietInv
<1> QED
  BY <1>1, <1>2, <1>3, <1>4, <1>5, <1>6, <1>7, <1>8, NextShape

\* Every step keeps SlotInv.
LEMMA SlotStep ==
  ASSUME Typed, QuietInv, SlotInv, OffsetInv, Next
  PROVE  SlotInv'
<1> USE DEF SlotInv, Held, Busy
<1>1. CASE Boots
  BY <1>1 DEF Boots, async
<1>2. CASE Starts
  BY <1>2, ConstantFields DEF Starts, QuietInv
<1>3. CASE Stops
  BY <1>3, ConstantFields DEF Stops, Ends, SessionOver
<1>4. CASE Updates
  <2>1. CASE complete
    BY <1>4, <2>1 DEF Updates
  <2>2. CASE ~complete
    BY <1>4, <2>2 DEF Updates
  <2> QED
    BY <2>1, <2>2
<1>5. CASE Reads
  BY <1>5 DEF Reads, async
<1>6. CASE Finalizes
  BY <1>6 DEF Finalizes
<1>7. CASE JobThread
  <2>2. CASE Wanders
    BY <2>2 DEF Wanders, Moves
  <2>3. CASE Picks
    BY <2>3 DEF Picks, Moves
  <2>4. CASE Fails
    BY <2>4 DEF Fails, Moves
  <2>5. CASE Copies
    BY <2>5 DEF Copies
  <2>6. CASE Writes
    BY <2>6 DEF Writes
  <2>7. CASE Opens
    BY <2>7 DEF Opens, Moves
  <2>8. CASE Saves
    BY <2>8 DEF Saves, Moves
  <2>9. CASE Flags
    BY <2>9, ConstantFields DEF Flags
  <2>10. CASE Spoils
    BY <2>10 DEF Spoils, Moves
  <2>11. CASE Begins
    BY <2>11 DEF Begins
  <2> QED
    BY <1>7, <2>2, <2>3, <2>4, <2>5, <2>6, <2>7, <2>8, <2>9, <2>10, <2>11 DEF JobThread, ThreadStep
<1>8. CASE \E job \in Jobs : Stores(job)
  BY <1>8 DEF Stores
<1> QED
  BY <1>1, <1>2, <1>3, <1>4, <1>5, <1>6, <1>7, <1>8, NextShape

\* Every step keeps OffsetInv.
LEMMA OffsetStep ==
  ASSUME Typed, QuietInv, SlotInv, OffsetInv, Next
  PROVE  OffsetInv'
<1>0. /\ Len(disk.arcd) \in Nat /\ thread.index \subseteq Entries /\ thread.offset \in Nat
      /\ done.index \subseteq Entries /\ lu.index \subseteq Entries /\ lu.made \in BOOLEAN
      /\ \A e \in Entries : e.offset \in Nat
      /\ jobQueue \in Seq(Jobs) /\ threadQueue \in Seq(Jobs)
  BY TypedFields DEF Typed
<1>1. CASE Boots
  <2>1. /\ lu' = NoManifest /\ thread' = Idle /\ done' = NoJob /\ engine' # "running" /\ ~complete'
        /\ Len(disk'.arcd) \in Nat
    BY <1>1 DEF Boots, QuietInv, async, DiskRecord
  <2> QED
    BY <2>1, ConstantFields DEF OffsetInv, Held, Busy
<1>2. CASE Starts
  <2>1. /\ lu' = NoManifest /\ thread' = [Idle EXCEPT !.pc = "top"] /\ done' = NoJob /\ ~complete'
        /\ jobQueue' = <<>> /\ threadQueue' = <<>> /\ Len(disk'.arcd) \in Nat
    BY <1>2 DEF Starts, QuietInv, DiskRecord
  <2>2. /\ lu'.index = {} /\ thread'.index = {} /\ done'.index = {} /\ thread'.offset = 0
        /\ thread'.pc = "top" /\ Len(jobQueue') = 0 /\ Len(threadQueue') = 0
    BY <2>1, ConstantFields
  <2> QED
    BY <2>1, <2>2 DEF OffsetInv, Held, Busy
<1>3. CASE Stops
  <2>1. /\ lu' = NoManifest /\ thread' = Idle /\ done' = NoJob /\ engine' # "running" /\ ~complete'
        /\ Len(disk'.arcd) \in Nat
    BY <1>3 DEF Stops, Ends, SessionOver, DiskRecord
  <2> QED
    BY <2>1, ConstantFields DEF OffsetInv, Held, Busy
<1>4. CASE Updates
  <2>1. /\ disk' = disk /\ thread'.index = thread.index /\ thread'.offset = thread.offset
        /\ lu'.index \in {lu.index, done.index} /\ done'.index \in {done.index, {}}
        /\ lu'.made = lu.made /\ engine' = engine
        /\ Busy' <=> Busy
    BY <1>4, ConstantFields DEF Updates, Busy
  <2>2. Held' => Held /\ done' = done
    BY <1>4, <2>1 DEF Updates, Held, SlotInv
  <2>3. ASSUME ~lu.made, engine = "running"
        PROVE  /\ \A k \in 1 .. Len(jobQueue') : jobQueue'[k].archive
               /\ \A k \in 1 .. Len(threadQueue') : threadQueue'[k].archive
    <3>1. /\ \A k \in 1 .. Len(jobQueue) : jobQueue[k].archive
          /\ \A k \in 1 .. Len(threadQueue) : threadQueue[k].archive
      BY <2>3 DEF OffsetInv
    <3>2. PICK q : q = threadQueue \o jobQueue
      OBVIOUS
    <3>3. /\ Len(q) = Len(threadQueue) + Len(jobQueue)
          /\ \A k \in 1 .. Len(threadQueue) + Len(jobQueue) :
               q[k] = IF k <= Len(threadQueue) THEN threadQueue[k] ELSE jobQueue[k - Len(threadQueue)]
      BY <1>0, <3>2, ConcatProperties
    <3>4. Len(threadQueue) \in Nat /\ Len(jobQueue) \in Nat
      BY <1>0
    <3>5. ASSUME NEW k \in 1 .. Len(q) PROVE q[k].archive
      <4>1. CASE k <= Len(threadQueue)
        BY <3>1, <3>3, <3>4, <4>1
      <4>2. CASE k > Len(threadQueue)
        <5>1. k - Len(threadQueue) \in 1 .. Len(jobQueue) /\ q[k] = jobQueue[k - Len(threadQueue)]
          BY <3>3, <3>4, <4>2
        <5> QED
          BY <3>1, <5>1
      <4> QED
        BY <3>3, <3>4, <4>1, <4>2
    <3>6. threadQueue' = q /\ Len(jobQueue') = 0
      BY <1>4, <3>2 DEF Updates
    <3> QED
      BY <3>5, <3>6
  <2> QED
    BY <2>1, <2>2, <2>3 DEF OffsetInv
<1>5. CASE Reads
  BY <1>5 DEF Reads, async, OffsetInv, Held, Busy
<1>6. CASE Finalizes
  BY <1>6 DEF Finalizes, OffsetInv, Held, Busy
<1>7. CASE JobThread
  <2>1. UNCHANGED <<engine, lu, jobQueue, active>>
    BY <1>7 DEF JobThread, NotThread
  <2>2. CASE Wanders
    BY <2>1, <2>2 DEF Wanders, Moves, OffsetInv, Held, Busy
  <2>3. CASE Picks
    <3>1. /\ Len(threadQueue) \in 1 .. Len(threadQueue)
          /\ Len(threadQueue') <= Len(threadQueue) /\ Len(threadQueue') \in Nat
          /\ \A k \in 1 .. Len(threadQueue') : threadQueue'[k] = threadQueue[k]
      BY <1>0, <2>3 DEF Picks
    <3>2. engine = "running"
      BY <2>3 DEF Picks, QuietInv
    <3>3. ~lu.made => /\ \A k \in 1 .. Len(threadQueue) : threadQueue[k].archive
                      /\ \A k \in 1 .. Len(threadQueue') : threadQueue'[k].archive
                      /\ done'.job.archive
      <4> SUFFICES ASSUME ~lu.made
                   PROVE  /\ \A k \in 1 .. Len(threadQueue) : threadQueue[k].archive
                          /\ \A k \in 1 .. Len(threadQueue') : threadQueue'[k].archive
                          /\ done'.job.archive
        OBVIOUS
      <4>1. \A k \in 1 .. Len(threadQueue) : threadQueue[k].archive
        BY <3>2 DEF OffsetInv
      <4>2. done'.job.archive
        BY <2>3, <3>1, <4>1 DEF Picks
      <4>3. ASSUME NEW k \in 1 .. Len(threadQueue') PROVE threadQueue'[k].archive
        <5>1. k \in 1 .. Len(threadQueue)
          BY <1>0, <3>1, TypedFields
        <5> QED
          BY <3>1, <4>1, <5>1
      <4> QED
        BY <4>1, <4>2, <4>3
    <3> QED
      BY <1>0, <2>1, <2>3, <3>3 DEF Picks, Moves, OffsetInv
  <2>4. CASE Fails
    BY <2>1, <2>4 DEF Fails, Moves, OffsetInv, Held, Busy
  <2>5. CASE Copies
    <3>1. lu.made
      BY <2>5 DEF Copies, OffsetInv, Held, Busy
    <3> QED
      BY <1>0, <2>1, <2>5, <3>1 DEF Copies, OffsetInv
  <2>6. CASE Writes
    <3>1. lu.made
      BY <2>6 DEF Writes, OffsetInv, SlotInv, Held, Busy
    <3>2. \A e \in thread'.index : e \in thread.index \/ e.offset = thread.offset
      BY <2>6 DEF Writes
    <3>3. PICK m \in Nat : m = Len(disk'.arcd)
      BY <2>6 DEF Writes
    <3>4. m >= Len(disk.arcd) /\ thread'.offset = thread.offset /\ done' = done
      BY <2>6, <3>3 DEF Writes
    <3>5. \A e \in Entries : e.offset <= Len(disk.arcd) => e.offset <= m
      BY <1>0, <3>4
    <3>6. thread.offset <= m
      BY <1>0, <3>4 DEF OffsetInv
    <3>7. /\ \A e \in lu.index : e.offset <= m
          /\ \A e \in done.index : e.offset <= m
          /\ \A e \in thread.index : e.offset <= m
      BY <1>0, <3>5 DEF OffsetInv
    <3> QED
      BY <2>1, <3>1, <3>2, <3>3, <3>4, <3>6, <3>7 DEF OffsetInv
  <2>7. CASE Opens
    BY <2>1, <2>7 DEF Opens, Moves, OffsetInv, Held, Busy
  <2>8. CASE Saves
    BY <2>1, <2>8 DEF Saves, Moves, OffsetInv, Held, Busy
  <2>9. CASE Flags
    BY <1>0, <2>1, <2>9, ConstantFields DEF Flags, OffsetInv, Held, Busy
  <2>10. CASE Spoils
    <3>1. lu.made
      BY <2>10 DEF Spoils, OffsetInv, SlotInv, Held, Busy
    <3>2. PICK m \in Nat : m = Len(disk'.arcd) /\ m >= Len(disk.arcd)
      BY <2>10 DEF Spoils
    <3>3. /\ thread'.index = thread.index /\ thread'.offset = thread.offset /\ done' = done
      BY <2>10 DEF Spoils, Moves
    <3>4. \A e \in Entries : e.offset <= Len(disk.arcd) => e.offset <= m
      BY <1>0, <3>2
    <3>5. /\ \A e \in lu.index : e.offset <= m
          /\ \A e \in done.index : e.offset <= m
          /\ \A e \in thread.index : e.offset <= m
          /\ thread.offset <= m
      BY <1>0, <3>2, <3>4 DEF OffsetInv
    <3> QED
      BY <2>1, <3>1, <3>2, <3>3, <3>5 DEF OffsetInv
  <2>11. CASE Begins
    BY <2>1, <2>11 DEF Begins, OffsetInv, Held, Busy
  <2> QED
    BY <1>7, <2>2, <2>3, <2>4, <2>5, <2>6, <2>7, <2>8, <2>9, <2>10, <2>11 DEF JobThread, ThreadStep
<1>8. CASE \E job \in Jobs : Stores(job)
  <2>1. PICK job \in Jobs : Stores(job)
    BY <1>8
  <2>2. CASE UNCHANGED <<lu, disk, filePos>> /\ (~job.archive => lu.made)
    <3>1. ASSUME ~lu.made, NEW k \in 1 .. Len(jobQueue') PROVE jobQueue'[k].archive
      <4>1. /\ \A j \in 1 .. Len(jobQueue) : jobQueue[j].archive
            /\ job.archive
        BY <2>1, <2>2, <3>1 DEF OffsetInv, Stores
      <4>2. /\ Len(jobQueue') = Len(jobQueue) + 1 /\ Len(jobQueue) \in Nat
            /\ \A j \in 1 .. Len(jobQueue) : jobQueue'[j] = jobQueue[j]
            /\ jobQueue'[Len(jobQueue) + 1] = job
        BY <1>0, <2>1 DEF Stores
      <4>3. CASE k \in 1 .. Len(jobQueue)
        BY <4>1, <4>2, <4>3
      <4>4. CASE k = Len(jobQueue) + 1
        BY <4>1, <4>2, <4>4
      <4> QED
        BY <4>2, <4>3, <4>4
    <3> QED
      BY <2>1, <2>2, <3>1 DEF Stores, OffsetInv, Held, Busy
  <2>3. CASE /\ ~lu.made /\ lu' = [NoManifest EXCEPT !.made = TRUE] /\ disk'.arcd = <<>>
    <3>1. lu'.made /\ lu'.index = {} /\ Len(disk'.arcd) = 0
      BY <2>3, ConstantFields
    <3> QED
      BY <1>0, <2>1, <2>3, <3>1 DEF Stores, OffsetInv
  <2> QED
    BY <2>1, <2>2, <2>3 DEF Stores
<1> QED
  BY <1>1, <1>2, <1>3, <1>4, <1>5, <1>6, <1>7, <1>8, NextShape

\* Every step keeps IndexInv.
LEMMA IndexStep ==
  ASSUME Typed, QuietInv, SlotInv, OffsetInv, IndexInv, Next
  PROVE  IndexInv'
<1> USE DEF IndexInv
<1>1. CASE Boots
  <2>1. /\ lu'.index = {} /\ thread'.pc = "off" /\ ~complete' /\ stored'.now = {}
    BY <1>1, ConstantFields DEF Boots, QuietInv, async
  <2> QED
    BY <2>1
<1>2. CASE Starts
  <2>1. /\ lu'.index = {} /\ thread'.pc = "top" /\ ~complete' /\ stored'.now = {}
    BY <1>2, ConstantFields DEF Starts, QuietInv
  <2> QED
    BY <2>1
<1>3. CASE Stops
  <2>1. /\ lu'.index = {} /\ thread'.pc = "off" /\ ~complete' /\ stored'.now = {}
    BY <1>3, ConstantFields DEF Stops, Ends, SessionOver, Typed, StoredRecord
  <2> QED
    BY <2>1
<1>4. CASE Updates
  <2>1. CASE Publishes
    <3>1. /\ lu'.index = done.index /\ stored'.now = stored.now \cup {done.job.res} /\ ~Busy' /\ ~complete'
          /\ disk' = disk
      BY <1>4, <2>1 DEF Updates, Publishes, SlotInv, Busy
    <3>2. /\ lu.index \subseteq done.index /\ Holds(done.index, done.job.res)
          /\ disk.arci_tmp.state = "whole" => done.index \subseteq disk.arci_tmp.index
      BY <2>1 DEF Publishes
    <3>3. \A r \in stored'.now : Holds(lu'.index, r)
      BY <3>1, <3>2 DEF Holds
    <3> QED
      BY <3>1, <3>2, <3>3 DEF Busy
  <2>2. CASE ~Publishes
    <3>1. CASE complete
      BY <1>4, <2>2, <3>1 DEF Updates, SlotInv, Busy
    <3>2. CASE ~complete
      BY <1>4, <2>2, <3>2 DEF Updates
    <3> QED
      BY <3>1, <3>2
  <2> QED
    BY <2>1, <2>2
<1>5. CASE Reads
  BY <1>5 DEF Reads, async
<1>6. CASE Finalizes
  BY <1>6 DEF Finalizes
<1>7. CASE JobThread
  <2>1. UNCHANGED <<lu, stored>>
    BY <1>7 DEF JobThread, NotThread
  <2>2. CASE Wanders
    BY <2>1, <2>2 DEF Wanders, Moves
  <2>3. CASE Picks
    BY <2>1, <2>3 DEF Picks, Moves
  <2>4. CASE Fails
    BY <2>1, <2>4 DEF Fails, Moves, SlotInv, Busy
  <2>5. CASE Copies
    BY <2>1, <2>5 DEF Copies, SlotInv, Busy
  <2>6. CASE Writes
    <3>1. Holds(thread'.index, done.job.res)
      BY <2>6 DEF Writes, Holds
    <3> QED
      BY <2>1, <2>6, <3>1 DEF Writes, SlotInv, Busy
  <2>7. CASE Opens
    <3>1. Empty.state # "whole"
      BY DEF Empty
    <3> QED
      BY <2>1, <2>7, <3>1 DEF Opens, Moves, SlotInv, Busy
  <2>8. CASE Saves
    <3>1. Whole(thread.index).index = thread.index
      BY DEF Whole
    <3>2. ~complete
      BY <2>8 DEF Saves, SlotInv, Busy
    <3>3. CASE done.job.archive
      BY <2>1, <2>8, <3>2, <3>3 DEF Saves, Moves
    <3>4. CASE ~done.job.archive
      BY <2>1, <2>8, <3>1, <3>2, <3>4 DEF Saves, Moves
    <3> QED
      BY <3>3, <3>4
  <2>9. CASE Flags
    BY <2>1, <2>9, ConstantFields DEF Flags
  <2>10. CASE Spoils
    BY <2>1, <2>10 DEF Spoils, Moves, SlotInv, Busy
  <2>11. CASE Begins
    BY <2>1, <2>11 DEF Begins, SlotInv, Busy
  <2> QED
    BY <1>7, <2>2, <2>3, <2>4, <2>5, <2>6, <2>7, <2>8, <2>9, <2>10, <2>11 DEF JobThread, ThreadStep
<1>8. CASE \E job \in Jobs : Stores(job)
  <2>1. PICK job \in Jobs : Stores(job)
    BY <1>8
  <2>2. CASE UNCHANGED <<lu, disk, filePos>>
    BY <2>1, <2>2 DEF Stores
  <2>3. CASE ~lu.made /\ lu' = [NoManifest EXCEPT !.made = TRUE] /\ disk'.arci_tmp = disk.arci_tmp
    <3>1. lu'.index = lu.index
      BY <2>3, ConstantFields DEF OffsetInv
    <3> QED
      BY <2>1, <2>3, <3>1 DEF Stores
  <2> QED
    BY <2>1, <2>2, <2>3 DEF Stores
<1> QED
  BY <1>1, <1>2, <1>3, <1>4, <1>5, <1>6, <1>7, <1>8, NextShape

\* Every step keeps BootInv.
LEMMA BootStep ==
  ASSUME Typed, QuietInv, SlotInv, OffsetInv, BootInv, Next
  PROVE  BootInv'
<1> USE DEF BootInv
<1>1. CASE Boots
  BY <1>1 DEF Boots
<1>2. CASE Starts
  BY <1>2 DEF Starts
<1>3. CASE Stops
  <2>1. engine' = "off"
    BY <1>3 DEF Stops, Ends, SessionOver
  <2>2. CASE GivesUp
    <3>1. bounds.failed = 0
      BY <2>2 DEF GivesUp
    <3> QED
      BY <2>1, <2>2, <3>1 DEF GivesUp
  <2>3. CASE disk' = disk /\ bounds'.failed = bounds.failed
    BY <2>1, <2>3
  <2> QED
    BY <1>3, <2>2, <2>3 DEF Stops
<1>4. CASE Updates
  BY <1>4 DEF Updates
<1>5. CASE Reads
  BY <1>5 DEF Reads
<1>6. CASE Finalizes
  BY <1>6 DEF Finalizes
<1>7. CASE JobThread
  <2>1. engine' = engine /\ bounds'.failed = bounds.failed
    BY <1>7 DEF JobThread, NotThread, ThreadStep, Wanders, Picks, Fails, Spoils, SameFaults, Copies,
                Writes, Opens, Begins, Saves, Flags
  <2>2. thread.pc # "off"
    BY <1>7 DEF JobThread, ThreadStep, Wanders, Picks, Fails, Spoils, Copies, Writes, Opens, Begins,
                Saves, Flags
  <2>3. engine \notin {"off", "loading"}
    BY <2>2, ConstantFields DEF QuietInv
  <2> QED
    BY <2>1, <2>3
<1>8. CASE \E job \in Jobs : Stores(job)
  BY <1>8 DEF Stores
<1> QED
  BY <1>1, <1>2, <1>3, <1>4, <1>5, <1>6, <1>7, <1>8, NextShape

-----------------------------------------------------------------------------
(* Where the requests are. *)

\* A queue with one more job.
LEMMA HasAppend ==
  ASSUME NEW q \in Seq(Jobs), NEW j \in Jobs
  PROVE  /\ \A i : Has(Append(q, j), i) <=> Has(q, i) \/ j.id = i
         /\ Distinct(q) /\ ~Has(q, j.id) => Distinct(Append(q, j))
<1>1. PICK a : a = Append(q, j)
  OBVIOUS
<1>2. /\ Len(a) = Len(q) + 1 /\ Len(q) \in Nat /\ a[Len(q) + 1] = j
      /\ \A k \in 1 .. Len(q) : a[k] = q[k]
  BY <1>1
<1>3. \A k \in 1 .. Len(a) : k \in 1 .. Len(q) \/ k = Len(q) + 1
  BY <1>2
<1>4. \A k \in 1 .. Len(q) : k \in 1 .. Len(a)
  BY <1>2
<1>5. Len(q) + 1 \in 1 .. Len(a)
  BY <1>2
<1>6. \A i : Has(a, i) <=> Has(q, i) \/ j.id = i
  BY <1>2, <1>3, <1>4, <1>5 DEF Has
<1>7. Distinct(q) /\ ~Has(q, j.id) => Distinct(a)
  BY <1>2, <1>3 DEF Has, Distinct
<1> QED
  BY <1>1, <1>6, <1>7

\* Two queues, one behind the other.
LEMMA HasConcat ==
  ASSUME NEW p \in Seq(Jobs), NEW q \in Seq(Jobs)
  PROVE  /\ \A i : Has(p \o q, i) <=> Has(p, i) \/ Has(q, i)
         /\ Distinct(p) /\ Distinct(q) /\ (\A i : ~(Has(p, i) /\ Has(q, i))) => Distinct(p \o q)
<1>1. PICK a, m, n : a = p \o q /\ m = Len(p) /\ n = Len(q)
  OBVIOUS
<1>2. /\ m \in Nat /\ n \in Nat /\ Len(a) = m + n
      /\ \A k \in 1 .. m + n : a[k] = IF k <= m THEN p[k] ELSE q[k - m]
  BY <1>1, ConcatProperties
<1>3. \A k \in 1 .. m : k \in 1 .. Len(a) /\ a[k] = p[k]
  BY <1>2
<1>4. \A k \in 1 .. n : k + m \in 1 .. Len(a) /\ a[k + m] = q[k]
  <2> SUFFICES ASSUME NEW k \in 1 .. n PROVE k + m \in 1 .. Len(a) /\ a[k + m] = q[k]
    OBVIOUS
  <2>1. k + m \in 1 .. m + n /\ ~(k + m <= m) /\ (k + m) - m = k
    BY <1>2
  <2> QED
    BY <1>2, <2>1
<1>5. \A k \in 1 .. Len(a) : k \in 1 .. m \/ k - m \in 1 .. n
  BY <1>2
<1>6. \A k \in 1 .. Len(a) : k \in 1 .. m => a[k] = p[k]
  BY <1>3
<1>7. \A k \in 1 .. Len(a) : k - m \in 1 .. n => a[k] = q[k - m]
  <2> SUFFICES ASSUME NEW k \in 1 .. Len(a), k - m \in 1 .. n PROVE a[k] = q[k - m]
    OBVIOUS
  <2>1. (k - m) + m = k
    BY <1>2
  <2> QED
    BY <1>4, <2>1
<1>8. \A i : Has(a, i) <=> Has(p, i) \/ Has(q, i)
  <2>1. ASSUME NEW i, Has(a, i) PROVE Has(p, i) \/ Has(q, i)
    <3>1. PICK k \in 1 .. Len(a) : a[k].id = i
      BY <2>1 DEF Has
    <3>2. CASE k \in 1 .. m
      BY <1>1, <1>6, <3>1, <3>2 DEF Has
    <3>3. CASE k - m \in 1 .. n
      BY <1>1, <1>7, <3>1, <3>3 DEF Has
    <3> QED
      BY <1>5, <3>2, <3>3
  <2>2. ASSUME NEW i, Has(p, i) PROVE Has(a, i)
    BY <1>1, <1>3, <2>2 DEF Has
  <2>3. ASSUME NEW i, Has(q, i) PROVE Has(a, i)
    BY <1>1, <1>4, <2>3 DEF Has
  <2> QED
    BY <2>1, <2>2, <2>3
<1>9. ASSUME Distinct(p), Distinct(q), \A i : ~(Has(p, i) /\ Has(q, i)) PROVE Distinct(a)
  <2> SUFFICES ASSUME NEW k \in 1 .. Len(a), NEW l \in 1 .. Len(a), a[k].id = a[l].id PROVE k = l
    BY DEF Distinct
  <2>1. CASE k \in 1 .. m /\ l \in 1 .. m
    BY <1>1, <1>6, <1>9, <2>1 DEF Distinct
  <2>2. CASE k - m \in 1 .. n /\ l - m \in 1 .. n
    <3>1. q[k - m].id = q[l - m].id
      BY <1>7, <2>2
    <3>2. k - m = l - m
      BY <1>1, <1>9, <2>2, <3>1 DEF Distinct
    <3> QED
      BY <1>2, <3>2
  <2>3. CASE k \in 1 .. m /\ l - m \in 1 .. n
    <3>1. Has(p, a[k].id) /\ Has(q, a[k].id)
      BY <1>1, <1>6, <1>7, <2>3 DEF Has
    <3> QED
      BY <1>9, <3>1
  <2>4. CASE k - m \in 1 .. n /\ l \in 1 .. m
    <3>1. Has(p, a[k].id) /\ Has(q, a[k].id)
      BY <1>1, <1>6, <1>7, <2>4 DEF Has
    <3> QED
      BY <1>9, <3>1
  <2> QED
    BY <1>5, <2>1, <2>2, <2>3, <2>4
<1> QED
  BY <1>1, <1>8, <1>9

\* A queue without its last job.
LEMMA HasFront ==
  ASSUME NEW q \in Seq(Jobs), q # <<>>, Distinct(q),
         NEW f, f = SubSeq(q, 1, Len(q) - 1)
  PROVE  /\ Distinct(f) /\ Has(q, q[Len(q)].id)
         /\ \A i : Has(f, i) <=> Has(q, i) /\ i # q[Len(q)].id
<1>1. PICK n : n = Len(q)
  OBVIOUS
<1>2. /\ n \in Nat \ {0} /\ Len(f) = n - 1
      /\ \A k \in 1 .. n - 1 : f[k] = q[k]
  BY <1>1
<1>3. \A k \in 1 .. n : k \in 1 .. Len(f) \/ k = n
  BY <1>2
<1>4. \A k \in 1 .. Len(f) : k \in 1 .. n /\ k # n /\ f[k] = q[k]
  BY <1>2
<1>5. n \in 1 .. n
  BY <1>2
<1>6. Distinct(f)
  BY <1>1, <1>4 DEF Distinct
<1>7. \A i : Has(f, i) <=> Has(q, i) /\ i # q[n].id
  BY <1>1, <1>3, <1>4, <1>5 DEF Has, Distinct
<1> QED
  BY <1>1, <1>5, <1>6, <1>7 DEF Has

\* The empty queue holds no request.
LEMMA HasEmpty == Distinct(<<>>) /\ \A i : ~Has(<<>>, i)
  BY DEF Has, Distinct

\* As long as a request's queues, answers and m_JobCompleteData are the same, so is its place.
LEMMA PlaceKept ==
  ASSUME PlaceInv, UNCHANGED <<engine, jobQueue, threadQueue, answers, asked>>,
         bounds'.before = bounds.before, Held' <=> Held, Held => done'.job = done.job
  PROVE  PlaceInv'
  BY DEF PlaceInv, LocatedAt

\* Every step keeps PlaceInv: a request moves from one place to the next.
LEMMA PlaceStep ==
  ASSUME Typed, QuietInv, SlotInv, OffsetInv, PlaceInv, Next
  PROVE  PlaceInv'
<1>0. /\ asked \in Nat /\ bounds.before \in Nat
      /\ jobQueue \in Seq(Jobs) /\ threadQueue \in Seq(Jobs)
      /\ answers \in [Requests -> Seq(BOOLEAN)]
  BY TypedFields DEF Typed
<1>1. CASE Boots
  BY <1>0, <1>1 DEF Boots, PlaceInv
<1>2. CASE Starts
  <2>1. /\ jobQueue' = <<>> /\ threadQueue' = <<>> /\ ~Held' /\ asked' = asked
        /\ bounds'.before = asked /\ engine' = "running"
    BY <1>2, ConstantFields DEF Starts, QuietInv, PlaceInv, Held, Busy
  <2>2. \A i \in Requests : answers'[i] = <<>>
    BY <1>2 DEF Starts, QuietInv
  <2>3. asked + 1 .. asked = {}
    BY <1>0
  <2> QED
    BY <1>0, <2>1, <2>2, <2>3, HasEmpty DEF PlaceInv
<1>3. CASE Stops
  BY <1>3 DEF Stops, Ends, SessionOver, PlaceInv
<1>4. CASE Updates
  <2>0. /\ engine = "running" /\ engine' = "running" /\ asked' = asked /\ bounds' = bounds
        /\ bounds.before <= asked
        /\ Distinct(jobQueue) /\ Distinct(threadQueue)
        /\ \A i \in bounds.before + 1 .. asked : \E p \in Places : LocatedAt(i, p)
        /\ \A i \in Requests : i \notin bounds.before + 1 .. asked =>
             /\ answers[i] = <<>>
             /\ ~Has(jobQueue, i) /\ ~Has(threadQueue, i) /\ ~(Held /\ done.job.id = i)
    BY <1>4 DEF Updates, PlaceInv
  <2>1. jobQueue' = <<>> /\ threadQueue' = threadQueue \o jobQueue /\ ~complete' /\ (Busy' <=> Busy)
    BY <1>4 DEF Updates, Busy
  <2>2. \A i : ~(Has(threadQueue, i) /\ Has(jobQueue, i))
    <3> SUFFICES ASSUME NEW i, Has(threadQueue, i), Has(jobQueue, i) PROVE FALSE
      OBVIOUS
    <3>1. i \in Requests
      <4>1. PICK k \in 1 .. Len(jobQueue) : jobQueue[k].id = i
        BY DEF Has
      <4>2. jobQueue[k] \in Jobs
        BY <1>0
      <4> QED
        BY <4>1, <4>2, JobType
    <3>2. i \in bounds.before + 1 .. asked
      BY <2>0, <3>1
    <3>3. PICK p \in Places : LocatedAt(i, p)
      BY <2>0, <3>2
    <3> QED
      BY <3>3 DEF LocatedAt
  <2>3. /\ Distinct(threadQueue') /\ Distinct(jobQueue') /\ \A i : ~Has(jobQueue', i)
        /\ \A i : Has(threadQueue', i) <=> Has(threadQueue, i) \/ Has(jobQueue, i)
    BY <1>0, <2>0, <2>1, <2>2, HasConcat, HasEmpty
  <2>4. CASE complete
    <3>1. /\ done.job.id \in Requests /\ ~Held' /\ Held
          /\ answers' = [answers EXCEPT ![done.job.id] = Append(@, done.status)]
      BY <1>4, <2>1, <2>4, JobType DEF SlotInv, Held, Updates
    <3>2. PICK h \in Requests : h = done.job.id
      BY <3>1
    <3>3. h \in bounds.before + 1 .. asked
      BY <2>0, <3>1, <3>2
    <3>4. LocatedAt(h, "hand")
      BY <2>0, <3>1, <3>2, <3>3 DEF LocatedAt
    <3>5. answers'[h] = Append(answers[h], done.status) /\ answers[h] = <<>>
      BY <1>0, <3>1, <3>2, <3>4 DEF LocatedAt
    <3>6. Len(answers'[h]) = 1
      <4>1. PICK s : s = done.status
        OBVIOUS
      <4>2. answers'[h] = Append(<<>>, s)
        BY <3>5, <4>1
      <4> QED
        BY <4>2
    <3>7. \A i \in Requests : i # h => answers'[i] = answers[i]
      BY <1>0, <3>1, <3>2
    <3>8. ASSUME NEW i \in bounds.before + 1 .. asked
          PROVE  \E p \in Places : LocatedAt(i, p)'
      <4>0. i \in Requests
        BY <1>0, LiveUpdateAssumption DEF Typed, Requests
      <4>1. PICK p \in Places : LocatedAt(i, p)
        BY <2>0
      <4>2. CASE i = h
        <5>1. LocatedAt(h, "answered")'
          BY <2>3, <3>1, <3>4, <3>6 DEF LocatedAt
        <5> QED
          BY <4>2, <5>1 DEF Places
      <4>3. CASE i # h /\ p = "queue"
        <5>1. LocatedAt(i, "thread")'
          BY <2>3, <3>1, <3>7, <4>0, <4>1, <4>3 DEF LocatedAt
        <5> QED
          BY <5>1 DEF Places
      <4>4. CASE i # h /\ p # "queue"
        <5>1. p # "hand"
          BY <3>1, <3>2, <4>1, <4>4 DEF LocatedAt
        <5>2. LocatedAt(i, p)'
          BY <2>3, <3>1, <3>7, <4>0, <4>1, <4>4, <5>1 DEF LocatedAt
        <5> QED
          BY <5>2
      <4> QED
        BY <4>2, <4>3, <4>4
    <3> QED
      BY <2>0, <2>3, <3>1, <3>2, <3>3, <3>7, <3>8 DEF PlaceInv
  <2>5. CASE ~complete
    <3>1. done' = done /\ answers' = answers /\ (Held' <=> Held)
      BY <1>4, <2>1, <2>5 DEF Updates, Held
    <3>2. ASSUME NEW i \in bounds.before + 1 .. asked
          PROVE  \E p \in Places : LocatedAt(i, p)'
      <4>1. PICK p \in Places : LocatedAt(i, p)
        BY <2>0
      <4>2. CASE p = "queue"
        <5>1. LocatedAt(i, "thread")'
          BY <2>3, <3>1, <4>1, <4>2 DEF LocatedAt
        <5> QED
          BY <5>1 DEF Places
      <4>3. CASE p # "queue"
        <5>1. LocatedAt(i, p)'
          BY <2>3, <3>1, <4>1, <4>3 DEF LocatedAt
        <5> QED
          BY <5>1
      <4> QED
        BY <4>2, <4>3
    <3> QED
      BY <2>0, <2>3, <3>1, <3>2 DEF PlaceInv
  <2> QED
    BY <2>4, <2>5
<1>5. CASE Reads
  BY <1>5, PlaceKept DEF Reads, async, Held, Busy
<1>6. CASE Finalizes
  BY <1>6 DEF Finalizes, PlaceInv
<1>7. CASE JobThread
  <2>1. UNCHANGED <<engine, jobQueue, answers, asked, active>>
    BY <1>7 DEF JobThread, NotThread
  <2>2. CASE Wanders
    BY <2>1, <2>2, PlaceKept DEF Wanders, Moves, Held, Busy
  <2>3. CASE Picks
    <3>1. /\ engine = "running" /\ engine' = "running" /\ ~Held /\ Held' /\ bounds' = bounds
          /\ threadQueue # <<>> /\ done'.job = threadQueue[Len(threadQueue)]
          /\ threadQueue' = SubSeq(threadQueue, 1, Len(threadQueue) - 1)
      BY <2>1, <2>3 DEF Picks, Moves, QuietInv, Held, Busy
    <3>2. /\ bounds.before <= asked /\ Distinct(jobQueue) /\ Distinct(threadQueue)
          /\ \A i \in bounds.before + 1 .. asked : \E p \in Places : LocatedAt(i, p)
          /\ \A i \in Requests : i \notin bounds.before + 1 .. asked =>
               /\ answers[i] = <<>>
               /\ ~Has(jobQueue, i) /\ ~Has(threadQueue, i) /\ ~(Held /\ done.job.id = i)
      BY <3>1 DEF PlaceInv
    <3>3. PICK h : h = done'.job.id
      OBVIOUS
    <3>4. /\ Distinct(threadQueue') /\ Has(threadQueue, h)
          /\ \A i : Has(threadQueue', i) <=> Has(threadQueue, i) /\ i # h
      <4>1. PICK f, g : f = threadQueue' /\ g = threadQueue
        OBVIOUS
      <4>2. g \in Seq(Jobs) /\ g # <<>> /\ Distinct(g) /\ f = SubSeq(g, 1, Len(g) - 1)
        BY <1>0, <3>1, <3>2, <4>1
      <4>3. /\ Distinct(f) /\ Has(g, g[Len(g)].id)
            /\ \A i : Has(f, i) <=> Has(g, i) /\ i # g[Len(g)].id
        BY <4>2, HasFront
      <4>4. g[Len(g)].id = h
        BY <3>1, <3>3, <4>1
      <4> QED
        BY <4>1, <4>3, <4>4
    <3>5. ASSUME NEW i \in bounds.before + 1 .. asked
          PROVE  \E p \in Places : LocatedAt(i, p)'
      <4>1. PICK p \in Places : LocatedAt(i, p)
        BY <3>2
      <4>2. CASE i = h
        <5>1. p = "thread"
          BY <3>4, <4>1, <4>2 DEF LocatedAt
        <5>2. LocatedAt(i, "hand")'
          BY <2>1, <3>1, <3>3, <3>4, <4>1, <4>2, <5>1 DEF LocatedAt
        <5> QED
          BY <5>2 DEF Places
      <4>3. CASE i # h
        <5>1. LocatedAt(i, p)'
          BY <2>1, <3>1, <3>3, <3>4, <4>1, <4>3 DEF LocatedAt
        <5> QED
          BY <5>1
      <4> QED
        BY <4>2, <4>3
    <3> QED
      BY <2>1, <3>1, <3>2, <3>3, <3>4, <3>5 DEF PlaceInv
  <2>4. CASE Fails
    BY <2>1, <2>4, PlaceKept DEF Fails, Moves, SameFaults, Held, Busy
  <2>5. CASE Copies
    BY <2>1, <2>5, PlaceKept DEF Copies, Held, Busy
  <2>6. CASE Writes
    BY <2>1, <2>6, PlaceKept DEF Writes, Held, Busy
  <2>7. CASE Opens
    BY <2>1, <2>7, PlaceKept DEF Opens, Moves, Held, Busy
  <2>8. CASE Saves
    BY <2>1, <2>8, PlaceKept DEF Saves, Moves, Held, Busy
  <2>9. CASE Flags
    BY <2>1, <2>9, PlaceKept DEF Flags, Held, Busy
  <2>10. CASE Spoils
    BY <2>1, <2>10, PlaceKept DEF Spoils, Moves, SameFaults, Held, Busy
  <2>11. CASE Begins
    BY <2>1, <2>11, PlaceKept DEF Begins, Held, Busy
  <2> QED
    BY <1>7, <2>2, <2>3, <2>4, <2>5, <2>6, <2>7, <2>8, <2>9, <2>10, <2>11 DEF JobThread, ThreadStep
<1>8. CASE \E job \in Jobs : Stores(job)
  <2>1. PICK job \in Jobs : Stores(job)
    BY <1>8
  <2>2. /\ engine = "running" /\ engine' = "running" /\ asked' = asked + 1 /\ bounds' = bounds
        /\ asked < MaxRequests /\ job.id = asked + 1 /\ jobQueue' = Append(jobQueue, job)
        /\ UNCHANGED <<threadQueue, answers, done>> /\ (Held' <=> Held)
    BY <2>1 DEF Stores, Held, Busy
  <2>3. PICK h \in Requests : h = asked + 1
    BY <1>0, <2>2, LiveUpdateAssumption DEF Requests
  <2>4. /\ h \notin bounds.before + 1 .. asked
        /\ bounds.before + 1 .. asked + 1 = (bounds.before + 1 .. asked) \cup {h}
        /\ bounds.before <= asked + 1
    BY SMTT(60), <1>0, <2>2, <2>3 DEF PlaceInv
  <2>5. /\ Distinct(jobQueue) /\ Distinct(threadQueue)
        /\ \A i \in bounds.before + 1 .. asked : \E p \in Places : LocatedAt(i, p)
        /\ \A i \in Requests : i \notin bounds.before + 1 .. asked =>
             /\ answers[i] = <<>>
             /\ ~Has(jobQueue, i) /\ ~Has(threadQueue, i) /\ ~(Held /\ done.job.id = i)
    BY <2>2 DEF PlaceInv
  <2>6. /\ Distinct(jobQueue') /\ \A i : Has(jobQueue', i) <=> Has(jobQueue, i) \/ i = h
    BY <1>0, <2>2, <2>3, <2>4, <2>5, HasAppend
  <2>7. LocatedAt(h, "queue")' /\ "queue" \in Places
    BY <2>2, <2>4, <2>5, <2>6 DEF LocatedAt, Places
  <2>8. ASSUME NEW i \in bounds.before + 1 .. asked
        PROVE  \E p \in Places : LocatedAt(i, p)'
    <3>1. PICK p \in Places : LocatedAt(i, p)
      BY <2>5
    <3>2. LocatedAt(i, p)'
      BY <2>2, <2>4, <2>6, <3>1 DEF LocatedAt
    <3> QED
      BY <3>2
  <2> QED
    BY <2>2, <2>4, <2>5, <2>6, <2>7, <2>8 DEF PlaceInv
<1> QED
  BY <1>1, <1>2, <1>3, <1>4, <1>5, <1>6, <1>7, <1>8, NextShape

-----------------------------------------------------------------------------
(* The theorems. *)

\* The invariant holds at the start.
LEMMA InitIndInv == Init => IndInv
<1> SUFFICES ASSUME Init PROVE IndInv
  OBVIOUS
<1> USE DEF Init
<1>1. Typed
  <2>1. filePos \in Nat /\ filePos <= Len(disk.arcd)
    <3>1. disk.arcd = <<>>
      BY DEF NoFiles
    <3> QED
      BY <3>1
  <2>2. 0 \in 0 .. MaxRequests
    BY LiveUpdateAssumption
  <2>3. stored \in StoredRecord /\ bounds \in BoundsRecord
    BY DEF StoredRecord, BoundsRecord
  <2> QED
    BY <2>1, <2>2, <2>3, ConstantTypes DEF Typed
<1>2. QuietInv
  BY DEF QuietInv
<1>3. SlotInv
  BY ConstantFields DEF SlotInv, Held, Busy
<1>4. OffsetInv
  <2>1. Len(disk.arcd) \in Nat
    BY <1>1, TypedFields
  <2> QED
    BY <2>1, ConstantFields DEF OffsetInv, Held, Busy
<1>5. IndexInv
  BY ConstantFields DEF IndexInv
<1>6. BootInv
  BY DEF BootInv
<1>7. PlaceInv
  BY DEF PlaceInv
<1> QED
  BY <1>1, <1>2, <1>3, <1>4, <1>5, <1>6, <1>7 DEF IndInv

\* Every step keeps the invariant.
LEMMA NextIndInv == IndInv /\ [Next]_vars => IndInv'
<1> SUFFICES ASSUME IndInv, [Next]_vars PROVE IndInv'
  OBVIOUS
<1>1. CASE Next
  BY <1>1, TypedStep, QuietStep, SlotStep, OffsetStep, IndexStep, BootStep, PlaceStep DEF IndInv
<1>2. CASE UNCHANGED vars
  BY <1>2 DEF vars, session, async, IndInv, Typed, QuietInv, SlotInv, OffsetInv, IndexInv, BootInv,
              PlaceInv, LocatedAt, Held, Busy
<1> QED
  BY <1>1, <1>2

\* The inductive invariant holds of every behaviour of live update.
THEOREM Invariance == Spec => []IndInv
  BY InitIndInv, NextIndInv, PTL DEF Spec

\* How often a request is in a queue that holds none twice.
LEMMA CountInQueue ==
  ASSUME NEW q \in Seq(Jobs), Distinct(q), NEW i
  PROVE  Cardinality({k \in DOMAIN q : q[k].id = i}) = IF Has(q, i) THEN 1 ELSE 0
<1>1. DOMAIN q = 1 .. Len(q)
  OBVIOUS
<1>2. CASE Has(q, i)
  <2>1. PICK k \in 1 .. Len(q) : q[k].id = i
    BY <1>2 DEF Has
  <2>2. {l \in DOMAIN q : q[l].id = i} = {k}
    BY <1>1, <2>1 DEF Distinct
  <2> QED
    BY <1>2, <2>2, FS_Singleton
<1>3. CASE ~Has(q, i)
  <2>1. {l \in DOMAIN q : q[l].id = i} = {}
    BY <1>1, <1>3 DEF Has
  <2> QED
    BY <1>3, <2>1, FS_EmptySet
<1> QED
  BY <1>2, <1>3

\* A request to store is in one place until it is answered, once; the engine's end is
\* the only thing that drops it: AsyncUpdate and the job thread hand requests to each
\* other through two queues and one slot.
THEOREM NoRequestLost == Spec => []RequestsConserved
<1>1. IndInv => RequestsConserved
  <2> SUFFICES ASSUME IndInv PROVE RequestsConserved
    OBVIOUS
  <2>0. Typed /\ PlaceInv /\ jobQueue \in Seq(Jobs) /\ threadQueue \in Seq(Jobs)
    BY DEF IndInv, Typed
  <2>1. TypeOK
    <3>1. /\ disk.arci.state \in IndexStates /\ disk.arci_tmp.state \in IndexStates
          /\ disk.ref \in RefStates /\ disk.ref_tmp \in RefStates
          /\ \A i \in DOMAIN disk.arcd : disk.arcd[i] \in Resources
      BY <2>0 DEF Typed, DiskRecord, IndexFile
    <3>2. \A e \in mounted \cup lu.index \cup thread.index : e.res \in Resources
      BY <2>0 DEF Typed, ManifestRecord, ThreadRecord, Entries
    <3>3. /\ \A i \in DOMAIN jobQueue : jobQueue[i] \in Jobs
          /\ \A i \in DOMAIN threadQueue : threadQueue[i] \in Jobs
      BY <2>0
    <3>4. filePos \in 0 .. Len(disk.arcd)
      BY <2>0, TypedFields DEF Typed
    <3>5. thread.pc \in {"off", "top", "lock", "asleep", "process", "write", "open", "save",
                         "flag", "exited"}
      BY <2>0 DEF Typed, ThreadRecord
    <3> QED
      BY <2>0, <3>1, <3>2, <3>3, <3>4, <3>5 DEF Typed, TypeOK
  <2>2. ASSUME engine = "running", NEW i \in bounds.before + 1 .. asked
        PROVE  Waiting(i) + InHand(i) + Len(answers[i]) = 1
    <3>1. /\ Distinct(jobQueue) /\ Distinct(threadQueue)
      BY <2>0, <2>2 DEF PlaceInv
    <3>2. PICK p \in Places : LocatedAt(i, p)
      BY <2>0, <2>2 DEF PlaceInv
    <3>3. PICK a, b, c, d : /\ a = Cardinality({k \in DOMAIN jobQueue : jobQueue[k].id = i})
                            /\ b = Cardinality({k \in DOMAIN threadQueue : threadQueue[k].id = i})
                            /\ c = InHand(i) /\ d = Len(answers[i])
      OBVIOUS
    <3>4. a = IF p = "queue" THEN 1 ELSE 0
      BY <2>0, <3>1, <3>2, <3>3, CountInQueue DEF LocatedAt
    <3>5. b = IF p = "thread" THEN 1 ELSE 0
      BY <2>0, <3>1, <3>2, <3>3, CountInQueue DEF LocatedAt
    <3>6. c = IF p = "hand" THEN 1 ELSE 0
      BY <3>2, <3>3 DEF LocatedAt, InHand, Held, Busy
    <3>7. d = IF p = "answered" THEN 1 ELSE 0
      BY <3>2, <3>3 DEF LocatedAt
    <3>8. a + b + c + d = 1
      BY <3>4, <3>5, <3>6, <3>7 DEF Places
    <3> QED
      BY <3>3, <3>8 DEF Waiting
  <2> QED
    BY <2>1, <2>2 DEF RequestsConserved
<1> QED
  BY <1>1, Invariance, PTL

\* The index the engine works with never loses a resource that was stored in the
\* session, though each job starts from a copy of it.
THEOREM IndexGrows == Spec => []SessionIndexKept
<1>1. IndInv => SessionIndexKept
  BY DEF IndInv, IndexInv, SessionIndexKept, Holds
<1> QED
  BY <1>1, Invariance, PTL

\* A boot that fails on the live update files, whatever a crash or a failed write left
\* of them, is not followed by another one: LULoadManifest keeps the files of one
\* format and a boot that gives up removes those.  The theorem is about LoadArchives
\* alone: an index that is cut short behind its version number fails no boot, it is
\* mounted and kept.
THEOREM OneFailedBoot == Spec => []BootRecovers
<1>1. IndInv => BootRecovers
  BY DEF IndInv, BootInv, BootRecovers
<1> QED
  BY <1>1, Invariance, PTL

=============================================================================
