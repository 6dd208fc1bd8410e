---------------------------------- MODULE Lab ----------------------------------
(***************************************************************************)
(* The standalone Lab: one process that serves its pages, stores uploads   *)
(* and workspaces in SQLite and the file system (lab/storage.py) and runs  *)
(* jobs as tasks of its event loop (lab/jobs.py, application/              *)
(* standalone.py).  The storage is synchronous, so that a request or a     *)
(* task is interrupted only at an await, or by the death of the process.   *)
(* What is stored survives; the tasks do not.                              *)
(***************************************************************************)
EXTENDS StudyPlan

CONSTANTS Workspaces,
          Contents,     \* what can be uploaded; two equal files are one content
          Audio,        \* the contents that are audio
          Unusable,     \* contents without text, of a wrong type, or too large
          Transcript,   \* the content of a transcript saved as a source
          Jobs,         \* identities of jobs
          Tasks,        \* bound: the tasks that are requested
          Plans,        \* the study plans that are requested
          Sections,     \* the topics of the sections found in a source
          MaxUploads,   \* bound: source identities
          MaxFaults     \* bound: deaths of the process and failures of the storage

ASSUME LabAssumption ==
  /\ Audio \subseteq Contents /\ Unusable \subseteq Contents
  /\ Transcript \in Contents \ (Audio \cup Unusable)
  /\ Tasks \subseteq {"fahes", "kholasa", "khota", "rasheed", "sada"}
  /\ \A plan \in Plans : ValidRequest(plan)
  /\ Sections \in Seq(STRING) /\ Sections # <<>>
  /\ Workspaces # {} /\ Tasks # {} /\ Plans # {}
  /\ MaxUploads \in Nat \ {0} /\ MaxFaults \in Nat

VARIABLES
  workspaces,  \* the workspaces that have a row
  sources,     \* the source rows, with their chunks
  files,       \* the uploaded files, each named by its source's identity
  uploads,     \* number of source identities used
  jobs,        \* jobs[j]: the job's row, and what was asked in it
  tasks,       \* tasks[j]: where the job's asyncio task stands, "none" without one
  lost,        \* history: jobs whose task ended or died without settling them
  strays,      \* history: files left without a row when the process died
  missing,     \* history: rows left without a file by a death or a failed deletion
  faults       \* number of faults so far

stored == <<workspaces, sources, files, uploads>>
vars == <<workspaces, sources, files, uploads, jobs, tasks, lost, strays, missing, faults>>

NoSource == 0
Ids == 1..MaxUploads
Unsettled == {"queued", "working"}
Statuses == {"absent", "deleted", "completed", "failed"} \cup Unsettled
Stages == {"none", "created", "transcribing", "generating"}
AnyWorkspace == CHOOSE ws \in Workspaces : TRUE
AnyPlan == CHOOSE plan \in Plans : TRUE
Requests == {r \in [task : Tasks, source : {NoSource} \cup Ids, plan : Plans] :
               /\ r.task # "khota" => r.plan = AnyPlan
               /\ r.task \in {"fahes", "kholasa", "sada"} => r.source # NoSource
               /\ r.task = "rasheed" => r.source = NoSource}
NoJob == [status |-> "absent", ws |-> AnyWorkspace, request |-> CHOOSE r \in Requests : TRUE]

Init ==
  /\ workspaces = {} /\ sources = {} /\ files = {} /\ uploads = 0
  /\ jobs = [j \in Jobs |-> NoJob]
  /\ tasks = [j \in Jobs |-> "none"]
  /\ lost = {} /\ strays = {} /\ missing = {}
  /\ faults = 0

Faulty == faults < MaxFaults /\ faults' = faults + 1

(***************************************************************************)
(* Workspaces and sources                                                  *)
(***************************************************************************)
(* A page, an upload and a run all ensure that the workspace exists. *)
OpenWorkspace(ws) ==
  /\ workspaces' = workspaces \cup {ws}
  /\ UNCHANGED <<sources, files, uploads, jobs, tasks, lost, strays, missing, faults>>

Existing(ws, content) == {s \in sources : s.ws = ws /\ s.content = content}

(* store_upload, once the workspace is there: an unusable file is refused, *)
(* one that the workspace has already is that source, and a new one is     *)
(* written before its row and its chunks are committed.                    *)
StoreUpload(ws, content) ==
  /\ workspaces' = workspaces \cup {ws}
  /\ \/ /\ content \in Unusable \/ Existing(ws, content) # {}
        /\ UNCHANGED <<sources, files, uploads>>
     \/ /\ content \notin Unusable /\ Existing(ws, content) = {} /\ uploads < MaxUploads
        /\ uploads' = uploads + 1
        /\ files' = files \cup {uploads'}
        /\ sources' = sources \cup {[id |-> uploads', ws |-> ws, content |-> content]}

Upload(ws, content) ==
  /\ StoreUpload(ws, content)
  /\ UNCHANGED <<jobs, tasks, lost, strays, missing, faults>>

\* Mutant of UploadFails: the file is not unlinked.
UploadFailsUnclean(ws, content) ==
  /\ Faulty
  /\ content \notin Unusable /\ Existing(ws, content) = {} /\ uploads < MaxUploads
  /\ workspaces' = workspaces \cup {ws}
  /\ uploads' = uploads + 1
  /\ files' = files \cup {uploads'}
  /\ UNCHANGED <<sources, jobs, tasks, lost, strays, missing>>

(* The write or the transaction fails: the file is unlinked again. *)
UploadFails(ws, content) ==
  /\ Faulty
  /\ content \notin Unusable /\ Existing(ws, content) = {} /\ uploads < MaxUploads
  /\ workspaces' = workspaces \cup {ws}
  /\ uploads' = uploads + 1
  /\ UNCHANGED <<sources, files, jobs, tasks, lost, strays, missing>>

(* The process dies and is started again: no task is resumed, as _tasks    *)
(* is a dictionary in memory.                                              *)
Restart ==
  /\ tasks' = [j \in Jobs |-> "none"]
  /\ lost' = lost \cup {j \in Jobs : jobs[j].status \in Unsettled}

(* It dies between the write of a file and the commit. *)
DieInUpload(ws, content) ==
  /\ Faulty /\ Restart
  /\ content \notin Unusable /\ Existing(ws, content) = {} /\ uploads < MaxUploads
  /\ workspaces' = workspaces \cup {ws}
  /\ uploads' = uploads + 1
  /\ files' = files \cup {uploads'}
  /\ strays' = strays \cup {uploads'}
  /\ UNCHANGED <<sources, jobs, missing>>

FilesOf(ws) == {s.id : s \in {t \in sources : t.ws = ws}}

(* delete_workspace: the files first, then all rows in one transaction.    *)
(* Tasks that run for the workspace are not told.                          *)
DeleteWorkspace(ws) ==
  /\ ws \in workspaces
  /\ files' = files \ FilesOf(ws)
  /\ sources' = {s \in sources : s.ws # ws}
  /\ workspaces' = workspaces \ {ws}
  /\ jobs' = [j \in Jobs |->
       IF jobs[j].ws = ws /\ jobs[j].status # "absent"
       THEN [jobs[j] EXCEPT !.status = "deleted"] ELSE jobs[j]]
  /\ UNCHANGED <<uploads, tasks, lost, strays, missing, faults>>

(* Its transaction fails after the files are gone. *)
DeleteFails(ws) ==
  /\ Faulty
  /\ ws \in workspaces /\ FilesOf(ws) # {}
  /\ files' = files \ FilesOf(ws)
  /\ missing' = missing \cup FilesOf(ws)
  /\ UNCHANGED <<workspaces, sources, uploads, jobs, tasks, lost, strays>>

DieInDelete(ws) ==
  /\ Faulty /\ Restart
  /\ ws \in workspaces
  /\ \E unlinked \in (SUBSET FilesOf(ws)) \ {{}} :
       /\ files' = files \ unlinked
       /\ missing' = missing \cup unlinked
  /\ UNCHANGED <<workspaces, sources, uploads, jobs, strays>>

Die ==
  /\ Faulty /\ Restart
  /\ UNCHANGED <<stored, jobs, strays, missing>>

(***************************************************************************)
(* Jobs                                                                    *)
(***************************************************************************)
\* Mutant of CreateRun: the task is found under its workspace, not its job.
CreateRunOncePerWorkspace(j, ws, request) ==
  /\ jobs[j].status = "absent"
  /\ workspaces' = workspaces \cup {ws}
  /\ jobs' = [jobs EXCEPT ![j] = [status |-> "queued", ws |-> ws, request |-> request]]
  /\ tasks' = IF \E k \in Jobs : tasks[k] # "none" /\ jobs[k].ws = ws
              THEN tasks ELSE [tasks EXCEPT ![j] = "created"]
  /\ UNCHANGED <<sources, files, uploads, lost, strays, missing, faults>>

(* create_run: the row is committed, then its task is created; the source  *)
(* is whatever identity the request names.                                 *)
CreateRun(j, ws, request) ==
  /\ jobs[j].status = "absent"
  /\ workspaces' = workspaces \cup {ws}
  /\ jobs' = [jobs EXCEPT ![j] = [status |-> "queued", ws |-> ws, request |-> request]]
  /\ tasks' = [tasks EXCEPT ![j] = "created"]
  /\ UNCHANGED <<sources, files, uploads, lost, strays, missing, faults>>

\* Mutant of Saved: the update inserts a row that is not there.
SavedOrInserted(j, status) == [jobs EXCEPT ![j].status = status]
(* update_job: an UPDATE, which a deleted row makes void. *)
Saved(j, status) ==
  IF jobs[j].status = "deleted" THEN jobs ELSE [jobs EXCEPT ![j].status = status]

Advance(j, stage) ==
  /\ jobs' = Saved(j, "working")
  /\ tasks' = [tasks EXCEPT ![j] = stage]
\* Mutant of Settle: the done callback does not drop the task.
SettleKeepsTask(j, status) ==
  /\ jobs' = Saved(j, status)
  /\ tasks' = [tasks EXCEPT ![j] = "done"]
\* Mutant of Settle: a job without a result keeps its status.
SettleCompletedOnly(j, status) ==
  /\ jobs' = Saved(j, IF status = "completed" THEN status ELSE "working")
  /\ tasks' = [tasks EXCEPT ![j] = "none"]
Settle(j, status) ==
  /\ jobs' = Saved(j, status)
  /\ tasks' = [tasks EXCEPT ![j] = "none"]

(* What a job finds of its source, in its own workspace only. *)
Found(j) == {s \in sources : s.id = jobs[j].request.source /\ s.ws = jobs[j].ws}
HasText(j) == \E s \in Found(j) : s.content \notin Audio
HasAudio(j) == \E s \in Found(j) : s.content \in Audio /\ s.id \in files

(* A quiz or a summary needs evidence before it asks the provider. *)
StartGrounded(j) ==
  /\ jobs[j].request.task \in {"fahes", "kholasa"}
  /\ IF HasText(j) THEN Advance(j, "generating") ELSE Settle(j, "failed")

(* A recommendation uses no source, but needs metrics in the request. *)
StartRecommendation(j) ==
  /\ jobs[j].request.task = "rasheed"
  /\ Advance(j, "generating") \/ Settle(j, "failed")

StartTranscription(j) ==
  /\ jobs[j].request.task = "sada"
  /\ IF HasAudio(j) THEN Advance(j, "transcribing") ELSE Settle(j, "failed")

(* A plan needs no provider: it is scheduled at once, on the topics of the *)
(* sections found if it names a source.                                    *)
StartPlan(j) ==
  /\ jobs[j].request.task = "khota"
  /\ IF (jobs[j].request.source = NoSource \/ HasText(j)) /\ HasPlan(jobs[j].request.plan)
     THEN Settle(j, "completed") ELSE Settle(j, "failed")

(* The task runs to its first await. *)
StartTask(j) ==
  /\ tasks[j] = "created"
  /\ StartGrounded(j) \/ StartRecommendation(j) \/ StartTranscription(j) \/ StartPlan(j)
  /\ UNCHANGED <<stored, lost, strays, missing, faults>>

(* Whisper runs in a thread of its own; it may fail, or hear nothing. *)
Transcribed(j) ==
  /\ tasks[j] = "transcribing"
  /\ \/ tasks' = [tasks EXCEPT ![j] = "generating"] /\ UNCHANGED jobs
     \/ Settle(j, "failed")
  /\ UNCHANGED <<stored, lost, strays, missing, faults>>

(* The provider's answer fits the schema and its claims are supported by   *)
(* the evidence read before, even if the source is deleted since.          *)
Accepted(j) == Settle(j, "completed")

Generated(j) ==
  /\ tasks[j] = "generating"
  /\ Accepted(j) \/ Settle(j, "failed")
  /\ UNCHANGED <<stored, lost, strays, missing, faults>>

(* Not even the failure can be stored: the task ends with an exception. *)
StatusNotSaved(j) ==
  /\ Faulty
  /\ tasks[j] # "none"
  /\ tasks' = [tasks EXCEPT ![j] = "none"]
  /\ lost' = IF jobs[j].status \in Unsettled THEN lost \cup {j} ELSE lost
  /\ UNCHANGED <<stored, jobs, strays, missing>>

(* save_transcript_source: only a completed transcription has one. *)
SaveTranscript(j) ==
  /\ jobs[j].status = "completed" /\ jobs[j].request.task = "sada"
  /\ StoreUpload(jobs[j].ws, Transcript)
  /\ UNCHANGED <<jobs, tasks, lost, strays, missing, faults>>

RunTask(j) == StartTask(j) \/ Transcribed(j) \/ Generated(j)

Next ==
  \/ \E ws \in Workspaces : OpenWorkspace(ws) \/ DeleteWorkspace(ws) \/ DeleteFails(ws) \/ DieInDelete(ws)
  \/ \E ws \in Workspaces, content \in Contents :
       Upload(ws, content) \/ UploadFails(ws, content) \/ DieInUpload(ws, content)
  \/ \E j \in Jobs, ws \in Workspaces, request \in Requests : CreateRun(j, ws, request)
  \/ \E j \in Jobs : RunTask(j) \/ StatusNotSaved(j) \/ SaveTranscript(j)
  \/ Die

(* The event loop runs every task that is ready; a provider's call ends by *)
(* its timeout, and the transcription of a file by its end.                *)
Fairness == \A j \in Jobs : WF_vars(RunTask(j))

Spec == Init /\ [][Next]_vars /\ Fairness

(***************************************************************************)
(* Properties                                                              *)
(***************************************************************************)
TypeOK ==
  /\ workspaces \subseteq Workspaces
  /\ uploads \in 0..MaxUploads
  /\ sources \subseteq [id : Ids, ws : Workspaces, content : Contents]
  /\ files \subseteq Ids /\ strays \subseteq Ids /\ missing \subseteq Ids
  /\ jobs \in [Jobs -> [status : Statuses, ws : Workspaces, request : Requests]]
  /\ tasks \in [Jobs -> Stages]
  /\ lost \subseteq Jobs /\ faults \in Nat

(* A job is shown as queued or working only while a task of this process   *)
(* works on it, or after a fault took the task away; and what a task is    *)
(* still working on is neither settled already nor missing, unless its     *)
(* workspace was deleted meanwhile.                                        *)
UnsettledHasTask ==
  \A j \in Jobs :
    /\ jobs[j].status \in Unsettled => tasks[j] # "none" \/ j \in lost
    /\ tasks[j] # "none" => jobs[j].status \in Unsettled \cup {"deleted"}

(* Rows and files stay together through refused, repeated and failed       *)
(* uploads and the deletion of workspaces, but for two cases: the death of *)
(* the process in the middle leaves a file without its row, or rows        *)
(* without their files, and so does a deletion whose transaction fails     *)
(* after the files are gone.  No workspace holds the same content twice.   *)
FilesMatchRows ==
  /\ {s.id : s \in sources} \ missing \subseteq files
  /\ files \ strays \subseteq {s.id : s \in sources}
  /\ \A s, t \in sources : s.id = t.id \/ (s.ws = t.ws /\ s.content = t.content) => s = t

(* Whatever belongs to a deleted workspace stays deleted, although its     *)
(* tasks run on: rows belong to workspaces that exist.                     *)
RowsHaveWorkspace ==
  /\ \A s \in sources : s.ws \in workspaces
  /\ \A j \in Jobs : jobs[j].status \notin {"absent", "deleted"} => jobs[j].ws \in workspaces

(* The Lab shows a plan without validating it, as no plan that the         *)
(* scheduler makes can violate the constraints of its request: it does not *)
(* (khota_scheduler.py:88), and what it shows uses the time left evenly.   *)
PlansKeepConstraints ==
  \A j \in Jobs :
    jobs[j].request.task = "khota" /\ jobs[j].status = "completed" =>
      LET request == jobs[j].request.plan
          topics == IF jobs[j].request.source = NoSource THEN <<>> ELSE Sections
          plan == BuildPlanDays(request, topics)
      IN  plan # <<>> /\ HardConstraints(request, plan) /\ FairPlan(request, topics, plan)

(* A job settles, unless its workspace is deleted or a fault takes its     *)
(* task away.                                                              *)
JobSettles == \A j \in Jobs :
  jobs[j].status \in Unsettled ~> jobs[j].status \notin Unsettled \/ j \in lost
================================================================================
