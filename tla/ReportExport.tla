------------------------------ MODULE ReportExport ------------------------------
(***************************************************************************)
(* backend/apps/reports: an export is queued by a request, produced by a   *)
(* Celery worker and downloaded through a signed URL.                      *)
(*                                                                         *)
(* The row lives in PostgreSQL, the message in the broker, the file in the *)
(* bucket: three stores that no transaction spans.  Messages are           *)
(* acknowledged late, so one is delivered again when its worker is lost    *)
(* (CELERY_TASK_REJECT_ON_WORKER_LOST), or when the connection to the      *)
(* broker breaks while the worker is still running it.  run_export holds   *)
(* one snapshot of the row and of the requester from its first query on.   *)
(***************************************************************************)
EXTENDS Integers, FiniteSets

CONSTANTS Requesters, Exports, Workers,
          MaxLosses,      \* bound: runs cut short
          MaxRepeats,     \* bound: messages repeated while their first run goes on
          MaxRowsPerExport, \* bound: objects stored and audit rows written for an export
          Nobody,         \* no requester, no export
          NoFile          \* storage_key is empty

ASSUME ReportExportAssumption ==
  /\ MaxLosses \in Nat /\ MaxRepeats \in Nat /\ MaxRowsPerExport \in Nat
  /\ Nobody \notin Requesters \cup Exports
  /\ NoFile \notin Exports \X (1 .. MaxRowsPerExport)

VARIABLES
  exports,    \* the reports_export table: export -> row
  queue,      \* export -> messages waiting at the broker
  runs,       \* worker -> the run_export call it is in the middle of
  bucket,     \* the objects stored under exports/
  active,     \* requesters whose account is active
  permitted,  \* requesters holding the report's permission and report.export
  trail,      \* export -> its REPORT_EXPORTED audit rows
  alarms,     \* exports whose audit row could not be written: logged instead
  downloads,  \* the objects a signed URL was handed out for
  barred,     \* history: exports whose requester lost access before their run
  cut,        \* history: export -> runs of it cut short
  lost,       \* history: export -> those whose message went back to the queue
  repeated    \* history: export -> messages repeated during a run

people == <<active, permitted>>
records == <<trail, alarms, downloads>>
history == <<barred, cut, lost, repeated>>
vars == <<exports, queue, runs, bucket, people, records, history>>

Files == Exports \X (1 .. MaxRowsPerExport)
ExportStatus == {"PENDING", "RUNNING", "READY", "FAILED"}
Finished == {"READY", "FAILED"}
Row == [status : ExportStatus, requested_by : Requesters, storage_key : Files \cup {NoFile}]
Steps == {"idle", "loaded", "running", "checked", "stored", "ready"}
Run == [step : Steps, export : Exports \cup {Nobody}, status : ExportStatus,
        is_active : BOOLEAN, file : Files \cup {NoFile}]
Idle == [step |-> "idle", export |-> Nobody, status |-> "PENDING", is_active |-> FALSE,
         file |-> NoFile]

Requested == DOMAIN exports
Entitled(u) == u \in active \cap permitted
IsFinished(e) == e \in Requested /\ exports[e].status \in Finished
BeingRun(e) == \E w \in Workers : runs[w].export = e

----------------------------------------------------------------------------
(* POST /reports/<name>/export/                                            *)

\* The row is committed at once (no transaction is open), so on_commit calls
\* run_export.delay at once; when the broker refuses it the row stays behind.
Submit(u, e) ==
  /\ Entitled(u)
  /\ e \notin Requested
  /\ exports' = [x \in Requested \cup {e} |->
                   IF x = e THEN [status |-> "PENDING", requested_by |-> u, storage_key |-> NoFile]
                            ELSE exports[x]]
  /\ \/ queue' = [queue EXCEPT ![e] = @ + 1]
     \/ UNCHANGED queue
  /\ UNCHANGED <<runs, bucket, people, records, history>>

----------------------------------------------------------------------------
(* run_export.                                                             *)

Goto(w, r) == runs' = [runs EXCEPT ![w] = r]
Acknowledge(w) == Goto(w, Idle)

\* ReportExport.objects.select_related("requested_by").get(pk=export_id)
Deliver(w, e) ==
  /\ runs[w] = Idle
  /\ queue[e] > 0
  /\ queue' = [queue EXCEPT ![e] = @ - 1]
  /\ Goto(w, [step |-> "loaded", export |-> e, status |-> exports[e].status,
              is_active |-> exports[e].requested_by \in active, file |-> NoFile])
  /\ UNCHANGED <<exports, bucket, people, records, history>>

\* fault: a run that was begun, or any at all, is begun again when its message
\* comes back.
StartUnlessFinished(r) == r.status \notin Finished
StartAlways(r) == TRUE
MayStart(r) == r.status = "PENDING"

Skip(w) ==
  /\ runs[w].step = "loaded"
  /\ ~MayStart(runs[w])
  /\ Acknowledge(w)
  /\ UNCHANGED <<exports, queue, bucket, people, records, history>>

Start(w) ==
  /\ runs[w].step = "loaded"
  /\ MayStart(runs[w])
  /\ exports' = [exports EXCEPT ![runs[w].export].status = "RUNNING"]
  /\ Goto(w, [runs[w] EXCEPT !.step = "running"])
  /\ UNCHANGED <<queue, bucket, people, records, history>>

\* fault: the permissions are those of the moment of asking.
StillActive(r) == r.is_active
\* is_active is that of the first query, the permissions are read now.
Recheck(r) == r.is_active /\ exports[r.export].requested_by \in permitted

Check(w) ==
  /\ runs[w].step = "running"
  /\ Recheck(runs[w])
  /\ Goto(w, [runs[w] EXCEPT !.step = "checked"])
  /\ UNCHANGED <<exports, queue, bucket, people, records, history>>

\* fault: the reason is set on the instance and not saved.
LeftRunning == "RUNNING"
FailedStatus == "FAILED"
\* _fail: a requester no longer entitled, a query or an upload that raised.
Fail(w) ==
  LET r == runs[w] IN
  /\ \/ r.step = "running" /\ ~Recheck(r)
     \/ r.step = "checked"
  /\ exports' = [exports EXCEPT ![r.export].status = FailedStatus]
  /\ Acknowledge(w)
  /\ UNCHANGED <<queue, bucket, people, records, history>>

\* build_export_key draws a fresh uuid; put_bytes stores the object.
FilesOf(e) == {f \in bucket : f[1] = e}
NewFile(e) == <<e, Cardinality(FilesOf(e)) + 1>>
Store(w) ==
  LET e == runs[w].export IN
  /\ runs[w].step = "checked"
  /\ NewFile(e) \in Files
  /\ bucket' = bucket \cup {NewFile(e)}
  /\ Goto(w, [runs[w] EXCEPT !.step = "stored", !.file = NewFile(e)])
  /\ UNCHANGED <<exports, queue, people, records, history>>

\* fault: the row names the prefix of the key.
KeyPrefix(r) == r.export
StorageKey(r) == r.file
Publish(w) ==
  LET r == runs[w] IN
  /\ r.step = "stored"
  /\ exports' = [exports EXCEPT ![r.export].status = "READY",
                                ![r.export].storage_key = StorageKey(r)]
  /\ Goto(w, [r EXCEPT !.step = "ready"])
  /\ UNCHANGED <<queue, bucket, people, records, history>>

\* fault: the audit row is forgotten.
NoRow == 0
RowsWritten == 1
\* audit.services.record, after the save; then the message is acknowledged.
Audit(w) ==
  LET e == runs[w].export IN
  /\ runs[w].step = "ready"
  /\ \/ /\ trail[e] < MaxRowsPerExport
        /\ trail' = [trail EXCEPT ![e] = @ + RowsWritten]
        /\ UNCHANGED alarms
     \/ /\ alarms' = alarms \cup {e}
        /\ UNCHANGED trail
  /\ Acknowledge(w)
  /\ UNCHANGED <<exports, queue, bucket, people, downloads, history>>

----------------------------------------------------------------------------
(* The broker and the worker processes.                                    *)

CutShort(w) ==
  /\ runs[w] # Idle
  /\ cut[runs[w].export] < MaxLosses
  /\ cut' = [cut EXCEPT ![runs[w].export] = @ + 1]
  /\ Goto(w, Idle)

\* The worker process dies: "a worker that dies re-queues its job".
LoseWorker(w) ==
  LET e == runs[w].export IN
  /\ CutShort(w)
  /\ queue' = [queue EXCEPT ![e] = @ + 1]
  /\ lost' = [lost EXCEPT ![e] = @ + 1]
  /\ UNCHANGED <<exports, bucket, people, records, barred, repeated>>

\* The hard time limit, or an exception outside the try: the task has failed
\* and its message is acknowledged all the same.
Abandon(w) ==
  /\ CutShort(w)
  /\ UNCHANGED <<exports, queue, bucket, people, records, barred, lost, repeated>>

\* The connection to the broker breaks: what is unacknowledged is delivered
\* again, and the run goes on.
Repeat(w) ==
  LET e == runs[w].export IN
  /\ runs[w] # Idle
  /\ repeated[e] < MaxRepeats
  /\ repeated' = [repeated EXCEPT ![e] = @ + 1]
  /\ queue' = [queue EXCEPT ![e] = @ + 1]
  /\ UNCHANGED <<exports, runs, bucket, people, records, barred, cut, lost>>

----------------------------------------------------------------------------
(* The requester.                                                          *)

ExportsOf(u) == {e \in Requested : exports[e].requested_by = u}

\* users set_status and roles: the account is closed or a role revoked ...
LoseAccess(u) ==
  /\ \/ u \in active /\ active' = active \ {u} /\ UNCHANGED permitted
     \/ u \in permitted /\ permitted' = permitted \ {u} /\ UNCHANGED active
  /\ barred' = barred \cup {e \in ExportsOf(u) : ~BeingRun(e)}
  /\ UNCHANGED <<exports, queue, runs, bucket, records, cut, lost, repeated>>

\* ... and opened or granted again.
RegainAccess(u) ==
  /\ \/ u \notin active /\ active' = active \cup {u} /\ UNCHANGED permitted
     \/ u \notin permitted /\ permitted' = permitted \cup {u} /\ UNCHANGED active
  /\ barred' = barred \ ExportsOf(u)
  /\ UNCHANGED <<exports, queue, runs, bucket, records, cut, lost, repeated>>

is_ready(e) == exports[e].status = "READY" /\ exports[e].storage_key # NoFile

\* GET /reports/exports/<id>/download/: one's own finished export, or 404, 409.
Download(u, e) ==
  /\ Entitled(u)
  /\ e \in ExportsOf(u)
  /\ is_ready(e)
  /\ downloads' = downloads \cup {exports[e].storage_key}
  /\ UNCHANGED <<exports, queue, runs, bucket, people, trail, alarms, history>>

Init ==
  /\ exports = [e \in {} |-> Nobody]
  /\ queue = [e \in Exports |-> 0]
  /\ runs = [w \in Workers |-> Idle]
  /\ bucket = {}
  /\ active = Requesters /\ permitted = Requesters
  /\ trail = [e \in Exports |-> 0]
  /\ alarms = {} /\ downloads = {} /\ barred = {}
  /\ cut = [e \in Exports |-> 0]
  /\ lost = [e \in Exports |-> 0]
  /\ repeated = [e \in Exports |-> 0]

RunStep(w) ==
  Skip(w) \/ Start(w) \/ Check(w) \/ Fail(w) \/ Store(w) \/ Publish(w) \/ Audit(w)

Next ==
  \/ \E u \in Requesters, e \in Exports : Submit(u, e) \/ Download(u, e)
  \/ \E u \in Requesters : LoseAccess(u) \/ RegainAccess(u)
  \/ \E w \in Workers, e \in Exports : Deliver(w, e)
  \/ \E w \in Workers : RunStep(w) \/ LoseWorker(w) \/ Abandon(w) \/ Repeat(w)

Spec == Init /\ [][Next]_vars

\* The workers keep consuming, and a run that is not cut short goes on.
FairSpec ==
  /\ Spec
  /\ \A e \in Exports : WF_vars(\E w \in Workers : Deliver(w, e))
  /\ \A w \in Workers : WF_vars(RunStep(w))

----------------------------------------------------------------------------
(* Properties.                                                             *)

\* Every variable stays in its range.
TypeOK ==
  /\ Requested \subseteq Exports
  /\ exports \in [Requested -> Row]
  /\ queue \in [Exports -> 0 .. 1 + MaxLosses + MaxRepeats]
  /\ runs \in [Workers -> Run]
  /\ bucket \subseteq Files
  /\ active \subseteq Requesters /\ permitted \subseteq Requesters
  /\ trail \in [Exports -> 0 .. MaxRowsPerExport]
  /\ alarms \subseteq Exports /\ downloads \subseteq Files /\ barred \subseteq Exports
  /\ cut \in [Exports -> 0 .. MaxLosses] /\ lost \in [Exports -> 0 .. MaxLosses]
  /\ repeated \in [Exports -> 0 .. MaxRepeats]

\* A finished export can be downloaded: the key of a READY row, and any key a
\* URL was signed for, names an object of that export that was stored, however
\* many runs of it there were and wherever they were cut short.
ReadyExportsHaveTheirFile ==
  /\ \A e \in Requested : exports[e].status = "READY" => exports[e].storage_key \in FilesOf(e)
  /\ downloads \subseteq bucket

\* "Producing the file a second time would leave an orphaned object in the
\* bucket": unless the broker repeats a message while its run goes on, an
\* export has one file at most, also when its worker is lost half way.
OneFileWhenRunsDoNotOverlap ==
  \A e \in Exports : repeated[e] = 0 => Cardinality(FilesOf(e)) <= 1

\* Who took the file out is on record: a READY export has its REPORT_EXPORTED
\* row, or a run is about to write it, or its loss is in the log.
ReadyExportsAreAudited ==
  \A e \in Requested : exports[e].status = "READY" =>
     \/ trail[e] > 0 \/ e \in alarms \/ cut[e] > 0
     \/ \E w \in Workers : runs[w].export = e /\ runs[w].step = "ready"

\* "A role revoked while the job waits produces no file": from the moment the
\* requester loses the account or the permission with the job not yet taken,
\* until something is given back, no object of it appears.
NoFileOnceBarred ==
  [][\A e \in barred : FilesOf(e)' \subseteq FilesOf(e)]_vars

\* An export only moves on: PENDING, RUNNING, then READY or FAILED for good,
\* unless two runs of it overlap.
Rank == [PENDING |-> 0, RUNNING |-> 1, READY |-> 2, FAILED |-> 2]
ExportsMoveForward ==
  [][\A e \in Requested :
        repeated'[e] = 0 /\ exports'[e] # exports[e] =>
           Rank[exports'[e].status] > Rank[exports[e].status]]_exports

\* Every export the broker accepted is finished in the end, if no run of it is
\* cut short.
QueuedExportsFinish ==
  \A e \in Exports :
     queue[e] > 0 ~> (IsFinished(e) \/ cut[e] > 0)

\* CELERY_TASK_ACKS_LATE: "a worker that dies re-queues its job": so the job is
\* done by another worker.
JobOfALostWorkerFinishes ==
  \A e \in Exports :
     (lost[e] > 0 /\ queue[e] > 0) ~> (IsFinished(e) \/ cut[e] > 1)
================================================================================
