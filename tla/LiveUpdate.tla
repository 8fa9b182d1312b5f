------------------------------ MODULE LiveUpdate ------------------------------
(* liveupdate.cpp and liveupdate_async.cpp: the main thread takes requests to  *)
(* store a resource or a zip archive and hands them to one job thread; the     *)
(* thread writes the files and leaves the new index for the main thread to     *)
(* publish.  Sessions of the engine follow each other on one set of files,     *)
(* ended by a shutdown or by a crash.                                          *)
EXTENDS LiveUpdateStore, FiniteSets

CONSTANTS Loaded,      \* the resources another thread loads meanwhile
          MaxRequests, \* bound on the requests of a behaviour
          MaxBoots,    \* bound on the boots
          MaxFaults    \* bound on crashes and failed writes

ASSUME LiveUpdateAssumption ==
  /\ Resources # {} /\ Loaded \subseteq Resources
  /\ MaxRequests \in Nat \ {0} /\ MaxBoots \in Nat /\ MaxFaults \in Nat

VARIABLES disk,        \* the files
          engine,      \* where the engine's main thread is in its life
          type,        \* m_ArchiveType
          mounted,     \* the index mounted at boot
          lu,          \* m_LUManifest and its archive container
          jobQueue,    \* m_JobQueue
          threadQueue, \* m_ThreadJobQueue
          thread,      \* where the job thread is, and the index it builds
          done,        \* m_JobCompleteData
          complete,    \* m_ThreadJobComplete
          active,      \* m_Active
          filePos,     \* the position of the data file's FILE
          reading,     \* what the loading thread, which has the load mutex, reads
          asked,       \* the requests accepted so far
          answers,     \* the answers of every request, while its session lasts
          stored,      \* the resources answered with success, by session or not
          bounds       \* faults, boots, failed boots in a row, requests before this session

async == <<jobQueue, threadQueue, thread, done, complete, active>>
session == <<engine, type, mounted, lu, filePos, reading, async>>
vars == <<disk, session, asked, answers, stored, bounds>>

Requests == 1 .. MaxRequests
\* `good`: what VerifyResource and the verification of a zip archive say.
Jobs == [id : Requests, archive : BOOLEAN, res : Resources, good : BOOLEAN]
AnyResource == CHOOSE r \in Resources : TRUE
Put(job) == /\ jobQueue' = Append(jobQueue, job)
            /\ asked' = asked + 1

NoManifest == [made |-> FALSE, linked |-> FALSE, index |-> {}]
Idle == [pc |-> "off", index |-> {}, offset |-> 0]
NoJob == [job |-> <<>>, status |-> FALSE, index |-> {}]
NotReading == <<>>

Init ==
  /\ disk = NoFiles /\ engine = "off" /\ type = NoArchive /\ mounted = {}
  /\ lu = NoManifest /\ jobQueue = <<>> /\ threadQueue = <<>> /\ thread = Idle
  /\ done = NoJob /\ complete = FALSE /\ active = FALSE
  /\ filePos = 0 /\ reading = NotReading
  /\ asked = 0 /\ answers = [i \in Requests |-> <<>>]
  /\ stored = [ever |-> {}, now |-> {}]
  /\ bounds = [faults |-> 0, boots |-> 0, failed |-> 0, before |-> 0]

\* The state of a process that is gone.
SessionOver ==
  /\ engine' = "off" /\ type' = NoArchive /\ mounted' = {} /\ lu' = NoManifest
  /\ jobQueue' = <<>> /\ threadQueue' = <<>> /\ thread' = Idle /\ done' = NoJob
  /\ complete' = FALSE /\ active' = FALSE /\ filePos' = 0 /\ reading' = NotReading
  /\ answers' = [i \in Requests |-> <<>>] /\ stored' = [stored EXCEPT !.now = {}]

-----------------------------------------------------------------------------
(* Boot: LoadArchives with the live update loader, then Initialize.            *)

\* A usable zip archive replaces what was stored before it.
LoadManifest(usable) ==
  /\ engine = "off" /\ bounds.boots < MaxBoots
  /\ engine' = "loading"
  /\ disk' = LULoadManifest(disk, usable).disk
  /\ type' = LULoadManifest(disk, usable).type
  /\ stored' = [stored EXCEPT !.ever = IF type' = Zip THEN {} ELSE @]
  /\ bounds' = [bounds EXCEPT !.boots = @ + 1, !.before = asked]
  /\ UNCHANGED <<mounted, lu, filePos, reading, async, asked, answers>>

\* Initialize forgets the manifest that LULoadManifest kept.
Initialize ==
  /\ engine' = "running" /\ lu' = NoManifest /\ active' = TRUE
  /\ thread' = [Idle EXCEPT !.pc = "top"]
  /\ bounds' = [bounds EXCEPT !.failed = 0]
  /\ UNCHANGED <<jobQueue, threadQueue, done, complete, filePos, reading, answers, stored>>

\* What the file system and the zip archive make of the load: the archive is
\* there; a zip archive does not fit the bundle (VERSION_MISMATCH); or a file
\* cannot be renamed, mapped or opened (IO_ERROR).
LoadResults == {"ok", "mismatch", "io_error"}

\* LULoadArchive and what LoadArchives makes of its result: after a mismatch the
\* boot goes on without the archive, after any other error it fails.  After both
\* the files are removed.
LULoadArchive(result) ==
  LET mountable == Mountable(RenameTempIndex(disk))
  IN /\ engine = "loading"
     /\ \/ /\ type = NoArchive /\ Initialize
           /\ UNCHANGED <<disk, type, mounted>>
        \/ /\ type = Zip /\ result = "ok" /\ Initialize
           /\ UNCHANGED <<disk, type, mounted>>
        \/ /\ type = Zip /\ result = "mismatch" /\ Initialize
           /\ disk' = LUCleanupArchive(disk, type)
           /\ type' = NoArchive
           /\ UNCHANGED mounted
        \/ /\ type = Regular /\ result = "ok" /\ mountable /\ Initialize
           /\ disk' = RenameTempIndex(disk)
           /\ mounted' = disk'.arci.index
           /\ UNCHANGED type
        \/ /\ type # NoArchive
           /\ result = "io_error" \/ (type = Regular /\ ~ mountable)
           /\ SessionOver
           /\ disk' = LUCleanupArchive(RenameTempIndex(disk), type)
           /\ bounds' = [bounds EXCEPT !.failed = @ + 1]
     /\ UNCHANGED asked

-----------------------------------------------------------------------------
(* The main thread.                                                            *)

\* GetCurrentManifest: the first request of a session makes the manifest, with
\* no entries, and opens the data file anew.
GetCurrentManifest ==
  IF lu.made THEN UNCHANGED <<lu, disk, filePos>>
  ELSE /\ lu' = [NoManifest EXCEPT !.made = TRUE]
       /\ disk' = [disk EXCEPT !.arcd = <<>>]
       /\ filePos' = 0

StoreResource(r, good) ==
  /\ engine = "running" /\ asked < MaxRequests
  /\ GetCurrentManifest
  /\ Put([id |-> asked + 1, archive |-> FALSE, res |-> r, good |-> good])
  /\ UNCHANGED <<engine, type, mounted, threadQueue, thread, done, complete, active,
                 reading, answers, stored, bounds>>

StoreArchive(good) ==
  /\ engine = "running" /\ asked < MaxRequests
  /\ Put([id |-> asked + 1, archive |-> TRUE, res |-> AnyResource, good |-> good])
  /\ UNCHANGED <<disk, engine, type, mounted, lu, filePos, threadQueue, thread, done,
                 complete, active, reading, answers, stored, bounds>>

\* mutant: the thread is not woken.
NotSignalled == thread

\* dmConditionVariable::Signal
Signalled == IF thread.pc = "asleep" THEN [thread EXCEPT !.pc = "lock"] ELSE thread

\* The new index is published and the callback called; what m_JobCompleteData
\* holds from then on is never read.
ProcessRequestComplete ==
  LET publish == done.status /\ ~ done.job.archive
  IN /\ done' = NoJob
     /\ lu' = IF publish THEN [lu EXCEPT !.linked = TRUE, !.index = done.index] ELSE lu
     /\ answers' = [answers EXCEPT ![done.job.id] = Append(@, done.status)]
     /\ stored' = IF publish
                  THEN [ever |-> stored.ever \cup {done.job.res},
                        now |-> stored.now \cup {done.job.res}]
                  ELSE stored

\* Two mutants: the batch stays in m_JobQueue; the load mutex is not asked for.
AsyncUpdateKeeping ==
  /\ engine = "running" /\ (complete \/ jobQueue # <<>>)
  /\ IF complete
     THEN reading = NotReading /\ ProcessRequestComplete
     ELSE UNCHANGED <<done, lu, answers, stored>>
  /\ complete' = FALSE
  /\ threadQueue' = threadQueue \o jobQueue
  /\ thread' = Signalled
  /\ UNCHANGED <<disk, engine, type, mounted, active, filePos, reading, asked, bounds,
                 jobQueue>>

\* AsyncUpdate returns early when the load mutex is taken.
AsyncUpdate ==
  /\ engine = "running" /\ (complete \/ jobQueue # <<>>)
  /\ IF complete
     THEN reading = NotReading /\ ProcessRequestComplete
     ELSE UNCHANGED <<done, lu, answers, stored>>
  /\ complete' = FALSE
  /\ threadQueue' = threadQueue \o jobQueue
  /\ jobQueue' = <<>>
  /\ thread' = Signalled
  /\ UNCHANGED <<disk, engine, type, mounted, active, filePos, reading, asked, bounds>>

\* The load of a resource, by a thread that holds the load mutex: the index is
\* searched and the file positioned, then read.
LoadResource(r) ==
  /\ engine = "running" /\ reading = NotReading
  /\ lu.linked /\ Holds(lu.index, r)
  /\ reading' = <<lu.index>>
  /\ filePos' = (CHOOSE e \in lu.index : e.res = r).offset
  /\ UNCHANGED <<disk, engine, type, mounted, lu, async, asked, answers, stored, bounds>>

ReadEntry ==
  /\ reading # NotReading
  /\ reading' = NotReading
  /\ filePos' = IF filePos < Len(disk.arcd) THEN filePos + 1 ELSE filePos
  /\ UNCHANGED <<disk, engine, type, mounted, lu, async, asked, answers, stored, bounds>>

-----------------------------------------------------------------------------
(* Shutdown and crash.                                                         *)

\* Finalize, and AsyncFinalize up to the lock.
Finalize ==
  /\ engine = "running" /\ reading = NotReading
  /\ engine' = "finalizing" /\ active' = FALSE
  /\ UNCHANGED <<disk, type, mounted, lu, filePos, reading, jobQueue, threadQueue, thread,
                 done, complete, asked, answers, stored, bounds>>

\* mutant: the queue is emptied, so a sleeping thread sleeps on.
ResizedToNone(queue) == <<>>

\* The queue is given one element, whatever it is, so that the thread wakes.
Resized(queue) ==
  IF queue # <<>> THEN <<Head(queue)>>
  ELSE <<[id |-> 1, archive |-> FALSE, res |-> AnyResource, good |-> FALSE]>>

FinalizeSignal ==
  /\ engine = "finalizing"
  /\ engine' = "joining"
  /\ jobQueue' = <<>>
  /\ threadQueue' = Resized(threadQueue)
  /\ thread' = Signalled
  /\ UNCHANGED <<disk, type, mounted, lu, filePos, reading, done, complete, active,
                 asked, answers, stored, bounds>>

FinalizeJoin ==
  /\ engine = "joining" /\ thread.pc = "exited"
  /\ SessionOver
  /\ UNCHANGED <<disk, asked, bounds>>

\* A lookup in a mounted index that is cut short, by a thread that has the load
\* mutex, reads behind the end of the file: it may find nothing there, which
\* changes nothing, or end the process.  The file stays.
FindEntryInPart ==
  /\ engine = "running" /\ reading = NotReading
  /\ disk.arci.state = "part"
  /\ SessionOver
  /\ UNCHANGED <<disk, asked, bounds>>

\* The process ends at any point; what was written stays.
Crash ==
  /\ engine # "off" /\ bounds.faults < MaxFaults
  /\ SessionOver
  /\ bounds' = [bounds EXCEPT !.faults = @ + 1]
  /\ UNCHANGED <<disk, asked>>

-----------------------------------------------------------------------------
(* The job thread.                                                             *)

NotThread == <<engine, type, mounted, lu, jobQueue, active, reading, asked, answers, stored>>

At(pc) == thread.pc = pc
Goto(pc) == thread' = [thread EXCEPT !.pc = pc]

ThreadTop ==
  /\ At("top") /\ Goto(IF active THEN "lock" ELSE "exited")
  /\ UNCHANGED <<disk, done, complete, threadQueue, filePos, bounds>>

\* Under m_ConsumerThreadMutex.  The newest job is taken first.
ThreadLock ==
  /\ At("lock")
  /\ \/ /\ threadQueue = <<>> /\ Goto("asleep")
        /\ UNCHANGED <<done, threadQueue>>
     \/ /\ threadQueue # <<>> /\ (complete \/ ~ active) /\ Goto("top")
        /\ UNCHANGED <<done, threadQueue>>
     \/ /\ threadQueue # <<>> /\ ~ complete /\ active /\ Goto("process")
        /\ done' = [NoJob EXCEPT !.job = threadQueue[Len(threadQueue)]]
        /\ threadQueue' = SubSeq(threadQueue, 1, Len(threadQueue) - 1)
  /\ UNCHANGED <<disk, complete, filePos, bounds>>

\* A request that fails verification, or a resource that is already stored.
Refuse ==
  /\ At("process")
  /\ ~ done.job.good \/ (~ done.job.archive /\ Holds(lu.index, done.job.res))
  /\ Goto("flag")
  /\ UNCHANGED <<disk, done, complete, threadQueue, filePos, bounds>>

\* mutant: the copy leaves out the entries of the index.
NewArchiveIndexFromNone ==
  /\ At("process") /\ done.job.good /\ ~ done.job.archive /\ ~ Holds(lu.index, done.job.res)
  /\ disk' = IF disk.arci = Absent THEN [disk EXCEPT !.arci = Empty] ELSE disk
  /\ thread' = [pc |-> "write", index |-> {}, offset |-> Len(disk.arcd)]
  /\ filePos' = Len(disk.arcd)
  /\ UNCHANGED <<done, complete, threadQueue, bounds>>

\* CreateFilesIfNotExists, then the copy of the current index, then the seek to
\* the end of the data file.
NewArchiveIndexWithResource ==
  /\ At("process") /\ done.job.good /\ ~ done.job.archive /\ ~ Holds(lu.index, done.job.res)
  /\ disk' = IF disk.arci = Absent THEN [disk EXCEPT !.arci = Empty] ELSE disk
  /\ thread' = [pc |-> "write", index |-> lu.index, offset |-> Len(disk.arcd)]
  /\ filePos' = Len(disk.arcd)
  /\ UNCHANGED <<done, complete, threadQueue, bounds>>

\* fwrite: at the position the file has now.
Written(arcd) == IF filePos = Len(arcd) THEN Append(arcd, done.job.res)
                 ELSE [arcd EXCEPT ![filePos + 1] = done.job.res]

\* The bytes of the resource are written ...
WriteResourceToArchive ==
  /\ At("write")
  /\ disk' = [disk EXCEPT !.arcd = Written(@)]
  /\ filePos' = filePos + 1
  /\ thread' = [thread EXCEPT !.pc = "open",
       !.index = @ \cup {[res |-> done.job.res, offset |-> thread.offset]}]
  /\ UNCHANGED <<done, complete, threadQueue, bounds>>

\* ... or a part of it, or nothing: the job fails.  What was written is named by no
\* index, so it stands for the whole resource.  The copy of the index is then
\* deleted twice, which may end the process: that is Crash, here or behind the write.
WriteFails ==
  /\ At("write") /\ bounds.faults < MaxFaults /\ Goto("flag")
  /\ bounds' = [bounds EXCEPT !.faults = @ + 1]
  /\ \/ UNCHANGED <<disk, filePos>>
     \/ /\ disk' = [disk EXCEPT !.arcd = Written(@)]
        /\ filePos' = filePos + 1
  /\ UNCHANGED <<done, complete, threadQueue>>

\* The temporary index, or the temporary reference, is opened for writing ...
OpenTemp ==
  /\ \/ At("open") /\ disk' = [disk EXCEPT !.arci_tmp = Empty]
     \/ /\ At("process") /\ done.job.good /\ done.job.archive
        /\ disk' = [disk EXCEPT !.ref_tmp = "empty"]
  /\ Goto("save")
  /\ UNCHANGED <<done, complete, threadQueue, filePos, bounds>>

\* ... the bytes go out one after the other,
SavePart ==
  /\ At("save") /\ ~ done.job.archive /\ disk.arci_tmp.state = "empty"
  /\ \E left \in SUBSET thread.index :
       left # thread.index /\ disk' = [disk EXCEPT !.arci_tmp = Part(left)]
  /\ UNCHANGED <<thread, done, complete, threadQueue, filePos, bounds>>

\* ... until all are written,
SaveTemp ==
  /\ At("save") /\ Goto("flag")
  /\ disk' = IF done.job.archive THEN [disk EXCEPT !.ref_tmp = "whole"]
             ELSE [disk EXCEPT !.arci_tmp = Whole(thread.index)]
  /\ done' = [done EXCEPT !.status = TRUE, !.index = thread.index]
  /\ UNCHANGED <<complete, threadQueue, filePos, bounds>>

\* ... or not, when it cannot be opened or the device is full.  What was written
\* stays in the place of the complete file that was there before.
SaveFails ==
  /\ At("open") \/ At("save")
  /\ bounds.faults < MaxFaults /\ Goto("flag")
  /\ bounds' = [bounds EXCEPT !.faults = @ + 1]
  /\ UNCHANGED <<disk, done, complete, threadQueue, filePos>>

ThreadFlag ==
  /\ At("flag") /\ thread' = [Idle EXCEPT !.pc = "top"]
  /\ complete' = TRUE
  /\ UNCHANGED <<disk, done, threadQueue, filePos, bounds>>

AsyncThread ==
  /\ \/ ThreadTop \/ ThreadLock \/ Refuse \/ NewArchiveIndexWithResource
     \/ WriteResourceToArchive \/ WriteFails
     \/ OpenTemp \/ SavePart \/ SaveTemp \/ SaveFails \/ ThreadFlag
  /\ UNCHANGED NotThread

-----------------------------------------------------------------------------
Next ==
  \/ \E usable \in BOOLEAN : LoadManifest(usable)
  \/ \E result \in LoadResults : LULoadArchive(result)
  \/ \E r \in Resources, good \in BOOLEAN : StoreResource(r, good)
  \/ \E good \in BOOLEAN : StoreArchive(good)
  \/ AsyncUpdate
  \/ \E r \in Loaded : LoadResource(r)
  \/ ReadEntry \/ FindEntryInPart
  \/ Finalize \/ FinalizeSignal \/ FinalizeJoin
  \/ Crash
  \/ AsyncThread

Spec == Init /\ [][Next]_vars

\* The job thread is scheduled, the loading thread ends a load it began, a
\* shutdown goes on, and a frame's TryLock now and then falls between two loads.
FairSpec ==
  /\ Spec
  /\ WF_vars(AsyncThread) /\ WF_vars(ReadEntry)
  /\ WF_vars(FinalizeSignal) /\ WF_vars(FinalizeJoin)
  /\ SF_vars(AsyncUpdate)

-----------------------------------------------------------------------------
(* Properties.                                                                 *)

\* The state has its type; a file position is never behind the end of the file.
TypeOK ==
  /\ disk.arci.state \in IndexStates /\ disk.arci_tmp.state \in IndexStates
  /\ disk.ref \in RefStates /\ disk.ref_tmp \in RefStates
  /\ \A i \in DOMAIN disk.arcd : disk.arcd[i] \in Resources
  /\ engine \in {"off", "loading", "running", "finalizing", "joining"}
  /\ type \in {NoArchive, Regular, Zip}
  /\ \A e \in mounted \cup lu.index \cup thread.index : e.res \in Resources
  /\ \A i \in DOMAIN jobQueue : jobQueue[i] \in Jobs
  /\ \A i \in DOMAIN threadQueue : threadQueue[i] \in Jobs
  /\ thread.pc \in {"off", "top", "lock", "asleep", "process", "write", "open", "save",
                    "flag", "exited"}
  /\ complete \in BOOLEAN /\ active \in BOOLEAN
  /\ filePos \in 0 .. Len(disk.arcd)
  /\ asked \in 0 .. MaxRequests

\* The places where a request is while the engine runs.
Waiting(i) == Cardinality({k \in DOMAIN jobQueue : jobQueue[k].id = i})
              + Cardinality({k \in DOMAIN threadQueue : threadQueue[k].id = i})
InHand(i) == IF (complete \/ thread.pc \in {"process", "write", "open", "save", "flag"})
                /\ done.job.id = i THEN 1 ELSE 0

\* No request is lost, run twice or answered twice: as long as its session runs,
\* a request is in one queue, or in m_JobCompleteData, or has its one answer.
\* m_JobCompleteData is one slot, and the flag alone keeps the thread from it.
\* The state is well typed.
RequestsConserved ==
  /\ TypeOK
  /\ engine = "running" =>
       \A i \in bounds.before + 1 .. asked : Waiting(i) + InHand(i) + Len(answers[i]) = 1

\* Every index the thread makes grows from the published one: a resource whose
\* callback got success in this session is in the runtime index, and in the
\* temporary index on disk whenever that file is complete, so that a shutdown may
\* drop the finished jobs.
SessionIndexKept ==
  engine \in {"running", "finalizing", "joining"} =>
    \A r \in stored.now :
      /\ Holds(lu.index, r)
      /\ disk.arci_tmp.state = "whole" => Holds(disk.arci_tmp.index, r)

\* A boot that fails on the live update files, because the mount refuses them or
\* because they cannot be renamed or opened, leaves files with which the next one
\* succeeds: never two failed boots in a row.  An index that is cut short behind its
\* version number is not refused and fails no boot: see StoredIsMounted.
BootRecovers == bounds.failed <= 1

\* "When shutting down, discard any complete jobs as they are going to be mounted at
\* boot time in any case" (AsyncFinalize): what the first session answered with success
\* is in the index that the second mounts, with one exception.  The temporary index is
\* written over the complete one of the job before, and when that write is cut short
\* the part is what the next boot mounts.
StoredIsMounted ==
  engine = "running" /\ bounds.boots = 2 /\ asked = bounds.before /\ disk.arci.state # "part" =>
    \A r \in stored.ever : Holds(mounted, r)

\* While the engine runs every accepted request is answered in the end, although
\* the newest job goes first and the thread sleeps, or spins on a finished job.
RequestsAnswered ==
  []<>(engine = "running" => jobQueue = <<>> /\ threadQueue = <<>> /\ ~ complete
                             /\ thread.pc = "asleep")

\* AsyncFinalize does not wait for ever: the thread leaves its loop wherever it is.
FinalizeReturns == engine = "finalizing" ~> engine = "off"

\* The entry that a load finds: the archive made in this session comes first.
Found(r) == {e \in (IF lu.linked /\ Holds(lu.index, r) THEN lu.index ELSE mounted) :
               e.res = r}

\* "Whether or not the resource was successfully stored" (liveupdate.store_resource):
\* a resource stored with success, in this session or before it, is found and its
\* bytes are in the data file.  It does not hold: see the findings.
StoredIsReadable ==
  engine = "running" =>
    \A r \in stored.ever : \E e \in Found(r) :
      e.offset < Len(disk.arcd) /\ disk.arcd[e.offset + 1] = r

=============================================================================
