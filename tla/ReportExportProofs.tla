-------------------------- MODULE ReportExportProofs ---------------------------
(***************************************************************************)
(* The safety of the report exports, for every set of requesters, exports  *)
(* and workers, and for any number of lost workers and repeated messages.  *)
(***************************************************************************)
EXTENDS ReportExport, FiniteSetTheorems, TLAPS

\* The run a worker is in is of an export that was asked for; the file it has
\* stored is in the bucket.
RunOK(w) ==
  LET r == runs[w] IN
  /\ r.step = "idle" => r = Idle
  /\ r.step # "idle" => r.export \in Requested
  /\ r.step = "stored" => r.file \in FilesOf(r.export)

\* A message waits for one of three reasons: the request, a worker that was
\* lost, a message that was repeated.
MessagesOK(e) ==
  /\ queue[e] <= 1 + lost[e] + repeated[e]
  /\ lost[e] <= cut[e]
  /\ e \notin Requested => queue[e] = 0 /\ FilesOf(e) = {}

\* A barred export has a requester without the permission, or one without an
\* account and only runs that know it; so no run of it is past the check.
BarredOK(e) ==
  /\ e \in Requested
  /\ \/ exports[e].requested_by \notin permitted
     \/ /\ exports[e].requested_by \notin active
        /\ \A w \in Workers : runs[w].export = e => ~runs[w].is_active
  /\ \A w \in Workers : runs[w].export = e => runs[w].step # "checked"

\* While no message of it was repeated, an export has one message or one run,
\* never both, and its row and its files tell how far the run is.
OneRun(e) ==
  /\ queue[e] \in {0, 1}
  /\ queue[e] = 1 => \A w \in Workers : runs[w].export # e
  /\ \A v, w \in Workers : runs[v].export = e /\ runs[w].export = e => v = w
RunTold(e, w) ==
  LET r == runs[w] IN
  /\ r.step = "loaded" => r.status = exports[e].status
  /\ r.step \in {"running", "checked", "stored"} => exports[e].status = "RUNNING"
  /\ r.step \in {"running", "checked"} => FilesOf(e) = {}
Told(e) ==
  /\ \A w \in Workers : runs[w].export = e => RunTold(e, w)
  /\ exports[e].status = "PENDING" => FilesOf(e) = {}
  /\ FilesOf(e) \in {{}, {<<e, 1>>}}

\* The inductive invariant.
IInv ==
  /\ TypeOK
  /\ \A w \in Workers : RunOK(w)
  /\ \A e \in Exports : MessagesOK(e)
  /\ ReadyExportsHaveTheirFile
  /\ ReadyExportsAreAudited
  /\ \A e \in barred : BarredOK(e)
  /\ \A e \in Requested : repeated[e] = 0 => OneRun(e) /\ Told(e)

\* What the two properties of READY exports say of one export.
HasItsFile(e) == exports[e].status = "READY" => exports[e].storage_key \in FilesOf(e)
IsAudited(e) ==
  exports[e].status = "READY" =>
     \/ trail[e] > 0 \/ e \in alarms \/ cut[e] > 0
     \/ \E w \in Workers : runs[w].export = e /\ runs[w].step = "ready"

LEMMA InitIInv == Init => IInv
<1> SUFFICES ASSUME Init PROVE IInv
  OBVIOUS
<1>1. Idle \in Run
  BY DEF Idle, Run, Steps, ExportStatus
<1>2. DOMAIN exports = {} /\ exports = [e \in {} |-> Nobody]
  BY DEF Init
<1>3. TypeOK
  BY <1>1, <1>2, ReportExportAssumption DEF Init, TypeOK, Requested
<1>4. \A w \in Workers : RunOK(w)
  BY DEF Init, RunOK, Idle
<1>5. \A e \in Exports : MessagesOK(e)
  BY DEF Init, MessagesOK, FilesOf
<1>6. ReadyExportsHaveTheirFile /\ ReadyExportsAreAudited
  BY <1>2 DEF Init, ReadyExportsHaveTheirFile, ReadyExportsAreAudited, Requested
<1>7. barred = {} /\ Requested = {}
  BY <1>2 DEF Init, Requested
<1> QED BY <1>3, <1>4, <1>5, <1>6, <1>7 DEF IInv

----------------------------------------------------------------------------
(* Facts used by every action.                                             *)

LEMMA IdleType == Idle \in Run /\ Idle.step = "idle" /\ Idle.export = Nobody
BY DEF Idle, Run, Steps, ExportStatus

\* A worker moves to r, and all the others stay.
LEMMA GotoOK ==
  ASSUME TypeOK, NEW w \in Workers, NEW r \in Run, Goto(w, r)
  PROVE  /\ runs' \in [Workers -> Run]
         /\ runs'[w] = r
         /\ \A v \in Workers \ {w} : runs'[v] = runs[v]
BY DEF TypeOK, Goto

\* A worker that is not idle runs an export that was asked for.
LEMMA RunType ==
  ASSUME IInv, NEW w \in Workers, runs[w] # Idle
  PROVE  /\ runs[w] \in Run /\ runs[w].step # "idle"
         /\ runs[w].export \in Requested /\ runs[w].export \in Exports
         /\ exports[runs[w].export] \in Row
<1>1. runs[w] \in Run /\ RunOK(w) /\ Requested \subseteq Exports
  BY DEF IInv, TypeOK
<1>2. runs[w].step # "idle" /\ runs[w].export \in Requested
  BY <1>1 DEF RunOK
<1> QED BY <1>1, <1>2 DEF IInv, TypeOK

\* A row changes its status, and nothing else.
LEMMA StatusChange ==
  ASSUME TypeOK, NEW e \in Requested, NEW s \in ExportStatus,
         exports' = [exports EXCEPT ![e].status = s]
  PROVE  /\ Requested' = Requested
         /\ exports' \in [Requested -> Row]
         /\ exports'[e].status = s
         /\ exports'[e].requested_by = exports[e].requested_by
         /\ exports'[e].storage_key = exports[e].storage_key
         /\ \A x \in Requested \ {e} : exports'[x] = exports[x]
<1>1. exports \in [Requested -> Row] /\ exports[e] \in Row
  BY DEF TypeOK
<1>2. [exports[e] EXCEPT !.status = s] \in Row
  BY <1>1 DEF Row
<1> QED BY <1>1, <1>2 DEF Requested, Row

\* What is left to show of a step of worker w on export e: the types, and
\* what holds of w and of e.
LEMMA RunStepOK ==
  ASSUME IInv, NEW w \in Workers, NEW r \in Run, NEW e \in Requested,
         runs[w] = Idle \/ runs[w].export = e,
         r = Idle \/ r.export = e,
         Goto(w, r), TypeOK', Requested' = Requested,
         \A x \in Requested \ {e} : exports'[x] = exports[x],
         exports'[e].requested_by = exports[e].requested_by,
         \A x \in Exports \ {e} :
            /\ queue'[x] = queue[x] /\ trail'[x] = trail[x]
            /\ cut'[x] = cut[x] /\ lost'[x] = lost[x] /\ repeated'[x] = repeated[x]
            /\ FilesOf(x)' = FilesOf(x),
         bucket \subseteq bucket', alarms \subseteq alarms',
         UNCHANGED people, downloads' = downloads, barred' = barred,
         RunOK(w)', MessagesOK(e)', HasItsFile(e)', IsAudited(e)',
         e \in barred =>
           /\ r.export = e => r.step # "checked"
           /\ r.export = e /\ r.is_active =>
                \/ runs[w].export = e /\ runs[w].is_active
                \/ exports[e].requested_by \in active,
         repeated'[e] = 0 => OneRun(e)' /\ Told(e)'
  PROVE  IInv'
<1>1. /\ runs' \in [Workers -> Run] /\ runs'[w] = r
      /\ \A v \in Workers \ {w} : runs'[v] = runs[v]
  BY GotoOK DEF IInv
<1>2. Requested \subseteq Exports /\ e \in Exports
  BY DEF IInv, TypeOK
<1>3. \A x \in Exports \ {e} : runs[w].export # x /\ r.export # x
  BY IdleType, ReportExportAssumption
<1>4. ASSUME NEW x \in Exports PROVE FilesOf(x) \subseteq FilesOf(x)'
  BY DEF FilesOf
<1>5. ASSUME NEW v \in Workers PROVE RunOK(v)'
  <2>1. CASE v = w
    BY <2>1
  <2>2. CASE v # w
    <3>1. RunOK(v) /\ runs'[v] = runs[v]
      BY <2>2, <1>1 DEF IInv
    <3>2. runs[v].step # "idle" => runs[v].export \in Exports
      BY <3>1, <1>2 DEF RunOK
    <3> QED BY <3>1, <3>2, <1>4 DEF RunOK
  <2> QED BY <2>1, <2>2
<1>6. ASSUME NEW x \in Exports PROVE MessagesOK(x)'
  <2>1. CASE x # e
    <3>1. MessagesOK(x)
      BY DEF IInv
    <3> QED BY <2>1, <3>1 DEF MessagesOK
  <2> QED BY <2>1
<1>7. ReadyExportsHaveTheirFile'
  <2>1. ASSUME NEW x \in Requested PROVE HasItsFile(x)'
    <3>1. CASE x # e
      <4>1. HasItsFile(x)
        BY DEF IInv, ReadyExportsHaveTheirFile, HasItsFile
      <4> QED BY <3>1, <4>1, <1>2 DEF HasItsFile
    <3> QED BY <3>1
  <2>2. downloads' \subseteq bucket'
    BY DEF IInv, ReadyExportsHaveTheirFile
  <2> QED BY <2>1, <2>2 DEF ReadyExportsHaveTheirFile, HasItsFile
<1>8. ReadyExportsAreAudited'
  <2>1. ASSUME NEW x \in Requested PROVE IsAudited(x)'
    <3>1. CASE x # e
      <4>1. IsAudited(x)
        BY DEF IInv, ReadyExportsAreAudited, IsAudited
      <4>2. ASSUME NEW v \in Workers, runs[v].export = x PROVE runs'[v] = runs[v]
        BY <4>2, <3>1, <1>1, <1>2, <1>3
      <4> QED BY <3>1, <4>1, <4>2, <1>2 DEF IsAudited
    <3> QED BY <3>1
  <2> QED BY <2>1 DEF ReadyExportsAreAudited, IsAudited
<1>9. ASSUME NEW x \in barred' PROVE BarredOK(x)'
  <2>1. BarredOK(x) /\ x \in Requested
    BY DEF IInv, BarredOK
  <2>2. exports'[x].requested_by = exports[x].requested_by
    BY <2>1
  <2>3. active' = active /\ permitted' = permitted
    BY DEF people
  <2>4. ASSUME NEW v \in Workers, runs'[v].export = x
        PROVE  /\ runs'[v].step # "checked"
               /\ \/ ~runs'[v].is_active
                  \/ runs[v].export = x /\ runs[v].is_active
                  \/ exports[x].requested_by \in active
    <3>1. CASE v = w
      <4>1. x = e
        BY <3>1, <2>4, <2>1, <1>1, <1>2, <1>3
      <4> QED BY <4>1, <3>1, <2>4, <1>1
    <3>2. CASE v # w
      BY <3>2, <2>4, <2>1, <1>1 DEF BarredOK
    <3> QED BY <3>1, <3>2
  <2> QED BY <2>1, <2>2, <2>3, <2>4 DEF BarredOK
<1>10. ASSUME NEW x \in Requested, repeated'[x] = 0 PROVE OneRun(x)' /\ Told(x)'
  <2>1. CASE x # e
    <3>1. OneRun(x) /\ Told(x)
      BY <2>1, <1>2, <1>10 DEF IInv
    <3>2. ASSUME NEW v \in Workers, runs'[v].export = x
          PROVE  runs'[v] = runs[v]
      BY <3>2, <2>1, <1>1, <1>2, <1>3
    <3>3. /\ queue'[x] = queue[x] /\ exports'[x] = exports[x] /\ FilesOf(x)' = FilesOf(x)
      BY <2>1, <1>2
    <3>4. OneRun(x)'
      BY <3>1, <3>2, <3>3 DEF OneRun
    <3>5. ASSUME NEW v \in Workers, runs'[v].export = x PROVE RunTold(x, v)'
      <4>1. RunTold(x, v) /\ runs'[v] = runs[v]
        BY <3>1, <3>2, <3>5 DEF Told
      <4> QED BY <4>1, <3>3 DEF RunTold
    <3> QED BY <3>1, <3>3, <3>4, <3>5 DEF Told
  <2> QED BY <2>1, <1>10
<1> QED BY <1>5, <1>6, <1>7, <1>8, <1>9, <1>10 DEF IInv
----------------------------------------------------------------------------
(* The steps of run_export.                                                *)

\* What the one run of an export that was never repeated knows.
LEMMA TheRunOf ==
  ASSUME IInv, NEW w \in Workers, runs[w] # Idle, repeated[runs[w].export] = 0
  PROVE  /\ RunTold(runs[w].export, w)
         /\ queue[runs[w].export] = 0
         /\ \A v \in Workers \ {w} : runs[v].export # runs[w].export
<1>1. runs[w].export \in Requested
  BY RunType
<1>2. OneRun(runs[w].export) /\ Told(runs[w].export)
  BY <1>1 DEF IInv
<1> QED BY <1>2 DEF OneRun, Told

LEMMA DeliverOK ==
  ASSUME IInv, NEW w \in Workers, NEW e \in Exports, Deliver(w, e)
  PROVE  IInv'
<1> DEFINE r == [step |-> "loaded", export |-> e, status |-> exports[e].status,
                 is_active |-> exports[e].requested_by \in active, file |-> NoFile]
<1>1. e \in Requested /\ MessagesOK(e) /\ exports[e] \in Row
  <2>1. MessagesOK(e) /\ TypeOK /\ queue[e] > 0
    BY DEF IInv, Deliver
  <2> QED BY <2>1 DEF MessagesOK, TypeOK
<1>2. r \in Run /\ runs[w] = Idle /\ Goto(w, r)
  BY <1>1 DEF Deliver, Run, Steps, Row
<1>3. /\ runs' \in [Workers -> Run] /\ runs'[w] = r
      /\ \A v \in Workers \ {w} : runs'[v] = runs[v]
  BY <1>2, GotoOK DEF IInv
<1>4. /\ queue' \in [Exports -> 0 .. 1 + MaxLosses + MaxRepeats]
      /\ queue'[e] = queue[e] - 1
      /\ \A x \in Exports \ {e} : queue'[x] = queue[x]
  BY ReportExportAssumption DEF IInv, TypeOK, Deliver
<1>5. /\ UNCHANGED <<exports, bucket, active, permitted, trail, alarms, downloads, barred,
                     cut, lost, repeated>>
      /\ Requested' = Requested
      /\ \A x \in Exports : FilesOf(x)' = FilesOf(x)
  BY DEF Deliver, people, records, history, Requested, FilesOf
<1>6. TypeOK'
  BY <1>3, <1>4, <1>5 DEF IInv, TypeOK, Requested, Row, Files
<1>7. RunOK(w)'
  BY <1>1, <1>3, <1>5 DEF RunOK
<1>8. MessagesOK(e)'
  BY <1>1, <1>4, <1>5 DEF MessagesOK, IInv, TypeOK
<1>9. HasItsFile(e)'
  BY <1>1, <1>5 DEF IInv, ReadyExportsHaveTheirFile, HasItsFile
<1>10. IsAudited(e)'
  <2>1. IsAudited(e)
    BY <1>1 DEF IInv, ReadyExportsAreAudited, IsAudited
  <2>2. ASSUME NEW v \in Workers, runs[v].step = "ready" PROVE runs'[v] = runs[v]
    BY <2>2, <1>2, <1>3, IdleType
  <2> QED BY <2>1, <2>2, <1>5 DEF IsAudited
<1>11. ASSUME repeated'[e] = 0 PROVE OneRun(e)' /\ Told(e)'
  <2>1. OneRun(e) /\ Told(e)
    BY <1>1, <1>5, <1>11 DEF IInv
  <2>2. queue[e] = 1 /\ \A v \in Workers : runs[v].export # e
    <3>1. queue[e] > 0
      BY DEF Deliver
    <3> QED BY <2>1, <3>1 DEF OneRun
  <2>3. OneRun(e)'
    BY <2>2, <1>3, <1>4 DEF OneRun
  <2>4. RunTold(e, w)'
    BY <1>3, <1>5 DEF RunTold
  <2> QED BY <2>1, <2>2, <2>3, <2>4, <1>3, <1>5 DEF Told
<1> QED
  <2>1. UNCHANGED people /\ (r.is_active => exports[e].requested_by \in active)
    BY <1>5 DEF people
  <2>2. /\ runs[w] = Idle \/ runs[w].export = e
        /\ r = Idle \/ r.export = e
        /\ r.step # "checked"
    BY <1>2
  <2> QED BY <1>1, <1>2, <1>4, <1>5, <1>6, <1>7, <1>8, <1>9, <1>10, <1>11, <2>1, <2>2, RunStepOK

\* Facts about the run of e that worker w is in.
LEMMA TheRun ==
  ASSUME IInv, NEW w \in Workers, NEW e, runs[w].export = e, runs[w] # Idle
  PROVE  /\ e \in Requested /\ e \in Exports /\ e # Nobody
         /\ runs[w] \in Run /\ runs[w].step # "idle" /\ RunOK(w)
         /\ exports[e] \in Row /\ MessagesOK(e) /\ HasItsFile(e) /\ IsAudited(e)
         /\ repeated[e] = 0 =>
              /\ OneRun(e) /\ Told(e) /\ RunTold(e, w) /\ queue[e] = 0
              /\ \A v \in Workers \ {w} : runs[v].export # e
<1>1. /\ e \in Requested /\ e \in Exports /\ runs[w] \in Run /\ runs[w].step # "idle"
      /\ exports[e] \in Row
  BY RunType
<1>2. RunOK(w) /\ MessagesOK(e) /\ HasItsFile(e) /\ IsAudited(e)
  BY <1>1 DEF IInv, ReadyExportsHaveTheirFile, HasItsFile, ReadyExportsAreAudited, IsAudited
<1>3. ASSUME repeated[e] = 0
      PROVE  OneRun(e) /\ Told(e)
  BY <1>1, <1>3 DEF IInv
<1> QED BY <1>1, <1>2, <1>3, TheRunOf, ReportExportAssumption

\* A run of e that ends: what is left to show of it.
LEMMA EndOK ==
  ASSUME IInv, NEW w \in Workers, NEW e, runs[w].export = e, runs[w] # Idle,
         Goto(w, Idle), TypeOK', Requested' = Requested,
         \A x \in Requested \ {e} : exports'[x] = exports[x],
         exports'[e].requested_by = exports[e].requested_by,
         \A x \in Exports \ {e} :
            /\ queue'[x] = queue[x] /\ trail'[x] = trail[x]
            /\ cut'[x] = cut[x] /\ lost'[x] = lost[x] /\ repeated'[x] = repeated[x],
         bucket' = bucket, alarms \subseteq alarms',
         UNCHANGED people, downloads' = downloads, barred' = barred,
         MessagesOK(e)', HasItsFile(e)', IsAudited(e)', repeated'[e] = repeated[e],
         repeated[e] = 0 =>
           /\ queue'[e] \in {0, 1}
           /\ exports'[e].status = "PENDING" => exports[e].status = "PENDING"
  PROVE  IInv'
<1>1. /\ runs' \in [Workers -> Run] /\ runs'[w] = Idle
      /\ \A v \in Workers \ {w} : runs'[v] = runs[v]
  BY IdleType, GotoOK DEF IInv
<1>2. \A x \in Exports : FilesOf(x)' = FilesOf(x)
  BY DEF FilesOf
<1>3. e \in Requested /\ e \in Exports /\ e # Nobody
  BY TheRun
<1>4. RunOK(w)'
  BY <1>1, IdleType DEF RunOK
<1>5. ASSUME repeated'[e] = 0 PROVE OneRun(e)' /\ Told(e)'
  <2>1. repeated[e] = 0
    BY <1>5
  <2>2. Told(e) /\ \A v \in Workers \ {w} : runs[v].export # e
    BY <2>1, TheRun
  <2>3. \A v \in Workers : runs'[v].export # e
    BY <2>2, <1>1, <1>3, IdleType
  <2>4. OneRun(e)'
    BY <2>1, <2>3 DEF OneRun
  <2> QED BY <2>1, <2>2, <2>3, <2>4, <1>2, <1>3 DEF Told
<1>6. Idle.step # "checked" /\ Idle.export # e
  BY <1>3, IdleType
<1> QED BY <1>2, <1>3, <1>4, <1>5, <1>6, IdleType, RunStepOK

\* A READY export whose run w ends without its audit row keeps what accounts
\* for it, unless w was just about to write the row.
LEMMA AuditedStill ==
  ASSUME IInv, NEW w \in Workers, NEW e, runs[w].export = e, runs[w] # Idle,
         runs[w].step # "ready", \A v \in Workers \ {w} : runs'[v] = runs[v],
         exports'[e].status = "READY" => exports[e].status = "READY",
         UNCHANGED <<trail, alarms, cut>>
  PROVE  IsAudited(e)'
<1>1. IsAudited(e)
  BY TheRun
<1>2. ASSUME NEW v \in Workers, runs[v].step = "ready" PROVE runs'[v] = runs[v]
  BY <1>2
<1> QED BY <1>1, <1>2 DEF IsAudited

LEMMA SkipOK ==
  ASSUME IInv, NEW w \in Workers, NEW e, runs[w].export = e, Skip(w)
  PROVE  IInv'
<1>1. runs[w].step = "loaded" /\ runs[w] # Idle /\ Goto(w, Idle)
  BY IdleType DEF Skip, Acknowledge
<1>2. /\ runs' \in [Workers -> Run]
      /\ \A v \in Workers \ {w} : runs'[v] = runs[v]
  BY <1>1, IdleType, GotoOK DEF IInv
<1>3. /\ UNCHANGED <<exports, queue, bucket, active, permitted, trail, alarms, downloads,
                     barred, cut, lost, repeated>>
      /\ Requested' = Requested /\ FilesOf(e)' = FilesOf(e)
  BY DEF Skip, people, records, history, Requested, FilesOf
<1>4. TypeOK'
  BY <1>2, <1>3 DEF IInv, TypeOK, Requested, Row, Files
<1>5. MessagesOK(e)' /\ HasItsFile(e)'
  BY <1>1, <1>3, TheRun DEF MessagesOK, HasItsFile
<1>6. IsAudited(e)'
  BY <1>1, <1>2, <1>3, AuditedStill
<1>7. repeated[e] = 0 => queue'[e] = 0
  BY <1>1, <1>3, TheRun
<1>8. UNCHANGED people
  BY <1>3 DEF people
<1> QED BY <1>1, <1>3, <1>4, <1>5, <1>6, <1>7, <1>8, EndOK

LEMMA StartOK ==
  ASSUME IInv, NEW w \in Workers, NEW e, runs[w].export = e, Start(w)
  PROVE  IInv'
<1> DEFINE r == [runs[w] EXCEPT !.step = "running"]
<1>1. runs[w].step = "loaded" /\ runs[w] # Idle /\ runs[w].status = "PENDING"
  BY IdleType DEF Start, MayStart
<1>2. e \in Requested /\ e \in Exports /\ runs[w] \in Run
  BY <1>1, TheRun
<1>3. /\ r \in Run /\ r.step = "running" /\ r.export = e
      /\ r.is_active = runs[w].is_active /\ Goto(w, r)
  BY <1>2 DEF Start, Run, Steps
<1>4. /\ runs' \in [Workers -> Run] /\ runs'[w] = r
      /\ \A v \in Workers \ {w} : runs'[v] = runs[v]
  BY <1>3, GotoOK DEF IInv
<1>5. exports' = [exports EXCEPT ![e].status = "RUNNING"]
  BY DEF Start
<1>6. /\ Requested' = Requested /\ exports' \in [Requested -> Row]
      /\ exports'[e].status = "RUNNING"
      /\ exports'[e].requested_by = exports[e].requested_by
      /\ \A x \in Requested \ {e} : exports'[x] = exports[x]
  BY <1>2, <1>5, StatusChange DEF IInv, ExportStatus
<1>7. /\ UNCHANGED <<queue, bucket, active, permitted, trail, alarms, downloads, barred,
                     cut, lost, repeated>>
      /\ \A x \in Exports : FilesOf(x)' = FilesOf(x)
  BY DEF Start, people, records, history, FilesOf
<1>8. TypeOK'
  BY <1>4, <1>6, <1>7 DEF IInv, TypeOK, Row, Files
<1>9. RunOK(w)'
  BY <1>2, <1>3, <1>4, <1>6 DEF RunOK
<1>10. MessagesOK(e)'
  BY <1>1, <1>2, <1>6, <1>7, TheRun DEF MessagesOK
<1>11. HasItsFile(e)' /\ IsAudited(e)'
  BY <1>6 DEF HasItsFile, IsAudited
<1>12. ASSUME repeated'[e] = 0 PROVE OneRun(e)' /\ Told(e)'
  <2>1. /\ OneRun(e) /\ Told(e) /\ RunTold(e, w) /\ queue[e] = 0
        /\ \A v \in Workers \ {w} : runs[v].export # e
    BY <1>1, <1>7, <1>12, TheRun
  <2>2. exports[e].status = "PENDING" /\ FilesOf(e) = {}
    BY <1>1, <2>1 DEF RunTold, Told
  <2>3. OneRun(e)'
    BY <2>1, <1>4, <1>7 DEF OneRun
  <2>4. RunTold(e, w)'
    BY <2>2, <1>2, <1>3, <1>4, <1>6, <1>7 DEF RunTold
  <2> QED BY <2>1, <2>2, <2>3, <2>4, <1>2, <1>4, <1>6, <1>7 DEF Told
<1> QED
  <2>1. UNCHANGED people
    BY <1>7 DEF people
  <2> QED BY <1>1, <1>2, <1>3, <1>6, <1>7, <1>8, <1>9, <1>10, <1>11, <1>12, <2>1, RunStepOK

LEMMA CheckOK ==
  ASSUME IInv, NEW w \in Workers, NEW e, runs[w].export = e, Check(w)
  PROVE  IInv'
<1> DEFINE r == [runs[w] EXCEPT !.step = "checked"]
<1>1. /\ runs[w].step = "running" /\ runs[w] # Idle
      /\ runs[w].is_active /\ exports[e].requested_by \in permitted
  BY IdleType DEF Check, Recheck
<1>2. e \in Requested /\ e \in Exports /\ runs[w] \in Run
  BY <1>1, TheRun
<1>3. /\ r \in Run /\ r.step = "checked" /\ r.export = e
      /\ r.is_active = runs[w].is_active /\ Goto(w, r)
  BY <1>2 DEF Check, Run, Steps
<1>4. /\ runs' \in [Workers -> Run] /\ runs'[w] = r
      /\ \A v \in Workers \ {w} : runs'[v] = runs[v]
  BY <1>3, GotoOK DEF IInv
<1>5. /\ UNCHANGED <<exports, queue, bucket, active, permitted, trail, alarms, downloads,
                     barred, cut, lost, repeated>>
      /\ Requested' = Requested
      /\ \A x \in Exports : FilesOf(x)' = FilesOf(x)
  BY DEF Check, people, records, history, Requested, FilesOf
<1>6. TypeOK'
  BY <1>4, <1>5 DEF IInv, TypeOK, Requested, Row, Files
<1>7. RunOK(w)'
  BY <1>2, <1>3, <1>4, <1>5 DEF RunOK
<1>8. MessagesOK(e)' /\ HasItsFile(e)'
  BY <1>1, <1>2, <1>5, TheRun DEF MessagesOK, HasItsFile
<1>9. IsAudited(e)'
  BY <1>1, <1>4, <1>5, AuditedStill
\* The export is not barred: its requester passed both halves of the check.
<1>10. e \notin barred
  BY <1>1 DEF IInv, BarredOK
<1>11. ASSUME repeated'[e] = 0 PROVE OneRun(e)' /\ Told(e)'
  <2>1. /\ OneRun(e) /\ Told(e) /\ RunTold(e, w) /\ queue[e] = 0
        /\ \A v \in Workers \ {w} : runs[v].export # e
    BY <1>1, <1>5, <1>11, TheRun
  <2>2. OneRun(e)'
    BY <2>1, <1>4, <1>5 DEF OneRun
  <2>3. RunTold(e, w)'
    BY <2>1, <1>1, <1>2, <1>3, <1>4, <1>5 DEF RunTold
  <2> QED BY <2>1, <2>2, <2>3, <1>2, <1>4, <1>5 DEF Told
<1> QED
  <2>1. UNCHANGED people
    BY <1>5 DEF people
  <2> QED BY <1>1, <1>2, <1>3, <1>5, <1>6, <1>7, <1>8, <1>9, <1>10, <1>11, <2>1, RunStepOK

LEMMA FailOK ==
  ASSUME IInv, NEW w \in Workers, NEW e, runs[w].export = e, Fail(w)
  PROVE  IInv'
<1>1. /\ runs[w].step \in {"running", "checked"} /\ runs[w] # Idle /\ Goto(w, Idle)
      /\ exports' = [exports EXCEPT ![e].status = "FAILED"]
  BY IdleType DEF Fail, Acknowledge, FailedStatus
<1>2. e \in Requested
  BY <1>1, TheRun
<1>3. /\ Requested' = Requested /\ exports' \in [Requested -> Row]
      /\ exports'[e].status = "FAILED"
      /\ exports'[e].requested_by = exports[e].requested_by
      /\ \A x \in Requested \ {e} : exports'[x] = exports[x]
  BY <1>1, <1>2, StatusChange DEF IInv, ExportStatus
<1>4. /\ runs' \in [Workers -> Run]
      /\ \A v \in Workers \ {w} : runs'[v] = runs[v]
  BY <1>1, IdleType, GotoOK DEF IInv
<1>5. /\ UNCHANGED <<queue, bucket, active, permitted, trail, alarms, downloads, barred,
                     cut, lost, repeated>>
      /\ UNCHANGED people
      /\ FilesOf(e)' = FilesOf(e)
  BY DEF Fail, people, records, history, FilesOf
<1>6. TypeOK'
  BY <1>3, <1>4, <1>5 DEF IInv, TypeOK, Row, Files
<1>7. MessagesOK(e)'
  BY <1>1, <1>3, <1>5, TheRun DEF MessagesOK
<1>8. HasItsFile(e)' /\ IsAudited(e)'
  BY <1>3 DEF HasItsFile, IsAudited
<1>9. repeated[e] = 0 => queue'[e] = 0
  BY <1>1, <1>5, TheRun
<1> QED BY <1>1, <1>3, <1>5, <1>6, <1>7, <1>8, <1>9, EndOK

\* The new object is not yet there, and it is e's.
LEMMA StoreOK ==
  ASSUME IInv, NEW w \in Workers, NEW e, runs[w].export = e, Store(w)
  PROVE  IInv'
<1> DEFINE r == [runs[w] EXCEPT !.step = "stored", !.file = NewFile(e)]
<1>1. /\ runs[w].step = "checked" /\ runs[w] # Idle
      /\ NewFile(e) \in Files /\ bucket' = bucket \cup {NewFile(e)}
      /\ Goto(w, r)
  BY IdleType DEF Store
<1>2. e \in Requested /\ e \in Exports /\ runs[w] \in Run
  BY <1>1, TheRun
<1>3. PICK f \in Files : f = NewFile(e)
  BY <1>1
<1>4. f[1] = e
  BY <1>3 DEF NewFile
<1>5. /\ r \in Run /\ r.step = "stored" /\ r.export = e /\ r.file = f
      /\ r.is_active = runs[w].is_active
  BY <1>2, <1>3 DEF Run, Steps
<1>6. /\ runs' \in [Workers -> Run] /\ runs'[w] = r
      /\ \A v \in Workers \ {w} : runs'[v] = runs[v]
  BY <1>1, <1>5, GotoOK DEF IInv
<1>7. /\ UNCHANGED <<exports, queue, active, permitted, trail, alarms, downloads, barred,
                     cut, lost, repeated>>
      /\ UNCHANGED people /\ Requested' = Requested
  BY DEF Store, people, records, history, Requested
<1>8. /\ bucket' = bucket \cup {f}
      /\ FilesOf(e)' = FilesOf(e) \cup {f}
      /\ \A x \in Exports \ {e} : FilesOf(x)' = FilesOf(x)
  BY <1>1, <1>3, <1>4 DEF FilesOf
<1>9. TypeOK'
  BY <1>6, <1>7, <1>8 DEF IInv, TypeOK, Requested, Row, Files
<1>10. RunOK(w)'
  BY <1>2, <1>5, <1>6, <1>7, <1>8 DEF RunOK
<1>11. MessagesOK(e)' /\ HasItsFile(e)'
  BY <1>1, <1>2, <1>7, <1>8, TheRun DEF MessagesOK, HasItsFile
<1>12. IsAudited(e)'
  BY <1>1, <1>6, <1>7, AuditedStill
<1>13. e \notin barred
  BY <1>1 DEF IInv, BarredOK
<1>14. ASSUME repeated'[e] = 0 PROVE OneRun(e)' /\ Told(e)'
  <2>1. /\ OneRun(e) /\ Told(e) /\ RunTold(e, w) /\ queue[e] = 0
        /\ \A v \in Workers \ {w} : runs[v].export # e
    BY <1>1, <1>7, <1>14, TheRun
  <2>2. OneRun(e)'
    BY <2>1, <1>6, <1>7 DEF OneRun
  <2>3. exports[e].status = "RUNNING" /\ FilesOf(e) = {}
    BY <2>1, <1>1 DEF RunTold
  <2>4. FilesOf(e)' = {<<e, 1>>}
    BY <2>3, <1>3, <1>8, FS_EmptySet DEF NewFile
  <2>5. RunTold(e, w)'
    BY <2>3, <1>5, <1>6, <1>7 DEF RunTold
  <2> QED BY <2>1, <2>2, <2>3, <2>4, <2>5, <1>2, <1>6, <1>7 DEF Told
<1> QED BY <1>1, <1>2, <1>5, <1>7, <1>8, <1>9, <1>10, <1>11, <1>12, <1>13, <1>14, RunStepOK

LEMMA PublishOK ==
  ASSUME IInv, NEW w \in Workers, NEW e, runs[w].export = e, Publish(w)
  PROVE  IInv'
<1> DEFINE r == [runs[w] EXCEPT !.step = "ready"]
<1>1. /\ runs[w].step = "stored" /\ runs[w] # Idle
      /\ exports' = [exports EXCEPT ![e].status = "READY", ![e].storage_key = runs[w].file]
      /\ Goto(w, r)
  BY IdleType DEF Publish, StorageKey
<1>2. /\ e \in Requested /\ e \in Exports /\ runs[w] \in Run /\ exports[e] \in Row
      /\ runs[w].file \in FilesOf(e)
  BY <1>1, TheRun DEF RunOK
<1>3. /\ r \in Run /\ r.step = "ready" /\ r.export = e /\ r.is_active = runs[w].is_active
  BY <1>2 DEF Run, Steps
<1>4. /\ runs' \in [Workers -> Run] /\ runs'[w] = r
      /\ \A v \in Workers \ {w} : runs'[v] = runs[v]
  BY <1>1, <1>3, GotoOK DEF IInv
<1>5. /\ Requested' = Requested /\ exports' \in [Requested -> Row]
      /\ exports'[e].status = "READY" /\ exports'[e].storage_key = runs[w].file
      /\ exports'[e].requested_by = exports[e].requested_by
      /\ \A x \in Requested \ {e} : exports'[x] = exports[x]
  <2>1. exports \in [Requested -> Row] /\ runs[w].file \in Files \cup {NoFile}
    BY <1>2 DEF IInv, TypeOK, Run
  <2>2. [exports[e] EXCEPT !.status = "READY", !.storage_key = runs[w].file] \in Row
    BY <2>1, <1>2 DEF Row, ExportStatus
  <2> QED BY <2>1, <2>2, <1>1, <1>2 DEF Requested, Row
<1>6. /\ UNCHANGED <<queue, bucket, active, permitted, trail, alarms, downloads, barred,
                     cut, lost, repeated>>
      /\ UNCHANGED people
      /\ \A x \in Exports : FilesOf(x)' = FilesOf(x)
  BY DEF Publish, people, records, history, FilesOf
<1>7. TypeOK'
  BY <1>4, <1>5, <1>6 DEF IInv, TypeOK, Row, Files
<1>8. RunOK(w)'
  BY <1>2, <1>3, <1>4, <1>5 DEF RunOK
<1>9. MessagesOK(e)'
  BY <1>1, <1>2, <1>5, <1>6, TheRun DEF MessagesOK
<1>10. HasItsFile(e)'
  BY <1>2, <1>5, <1>6 DEF HasItsFile
<1>11. IsAudited(e)'
  BY <1>3, <1>4 DEF IsAudited
<1>12. ASSUME repeated'[e] = 0 PROVE OneRun(e)' /\ Told(e)'
  <2>1. /\ OneRun(e) /\ Told(e) /\ queue[e] = 0
        /\ \A v \in Workers \ {w} : runs[v].export # e
    BY <1>1, <1>6, <1>12, TheRun
  <2>2. OneRun(e)'
    BY <2>1, <1>4, <1>6 DEF OneRun
  <2>3. RunTold(e, w)'
    BY <1>3, <1>4 DEF RunTold
  <2> QED BY <2>1, <2>2, <2>3, <1>2, <1>4, <1>5, <1>6 DEF Told
<1> QED BY <1>1, <1>2, <1>3, <1>5, <1>6, <1>7, <1>8, <1>9, <1>10, <1>11, <1>12, RunStepOK
LEMMA AuditOK ==
  ASSUME IInv, NEW w \in Workers, NEW e, runs[w].export = e, Audit(w)
  PROVE  IInv'
<1>1. runs[w].step = "ready" /\ runs[w] # Idle /\ Goto(w, Idle)
  BY IdleType DEF Audit, Acknowledge
<1>2. e \in Requested /\ e \in Exports
  BY <1>1, TheRun
<1>3. /\ runs' \in [Workers -> Run]
      /\ \A v \in Workers \ {w} : runs'[v] = runs[v]
  BY <1>1, IdleType, GotoOK DEF IInv
<1>4. /\ UNCHANGED <<exports, queue, bucket, active, permitted, downloads, barred,
                     cut, lost, repeated>>
      /\ UNCHANGED people
      /\ Requested' = Requested /\ FilesOf(e)' = FilesOf(e)
  BY DEF Audit, people, history, Requested, FilesOf
<1>5. /\ trail' \in [Exports -> 0 .. MaxRowsPerExport]
      /\ \A x \in Exports \ {e} : trail'[x] = trail[x]
      /\ alarms \subseteq alarms' /\ alarms' \subseteq Exports
      /\ trail'[e] > 0 \/ e \in alarms'
  <2>1. trail \in [Exports -> 0 .. MaxRowsPerExport] /\ alarms \subseteq Exports
    BY DEF IInv, TypeOK
  <2>2. CASE trail[e] < MaxRowsPerExport /\ trail' = [trail EXCEPT ![e] = @ + RowsWritten]
             /\ UNCHANGED alarms
    BY <2>1, <2>2, <1>2, ReportExportAssumption DEF RowsWritten
  <2>3. CASE alarms' = alarms \cup {e} /\ UNCHANGED trail
    BY <2>1, <2>3, <1>2
  <2> QED BY <2>2, <2>3 DEF Audit
<1>6. TypeOK'
  BY <1>3, <1>4, <1>5 DEF IInv, TypeOK, Requested, Row, Files
<1>7. MessagesOK(e)' /\ HasItsFile(e)'
  BY <1>1, <1>4, TheRun DEF MessagesOK, HasItsFile
<1>8. IsAudited(e)'
  BY <1>5 DEF IsAudited
<1>9. repeated[e] = 0 => queue'[e] = 0
  BY <1>1, <1>4, TheRun
<1> QED BY <1>1, <1>4, <1>5, <1>6, <1>7, <1>8, <1>9, EndOK

----------------------------------------------------------------------------
(* The broker and the worker processes.                                    *)

\* A run cut short: the worker is idle, and the loss is counted.
LEMMA CutFacts ==
  ASSUME IInv, NEW w \in Workers, NEW e, runs[w].export = e, CutShort(w)
  PROVE  /\ runs[w] # Idle /\ Goto(w, Idle) /\ runs' \in [Workers -> Run]
         /\ e \in Exports /\ cut' \in [Exports -> 0 .. MaxLosses]
         /\ cut'[e] = cut[e] + 1 /\ cut[e] \in Nat /\ cut'[e] <= MaxLosses
         /\ \A x \in Exports \ {e} : cut'[x] = cut[x]
<1>1. runs[w] # Idle /\ Goto(w, Idle)
  BY DEF CutShort
<1>2. e \in Exports
  BY <1>1, TheRun
<1>3. runs' \in [Workers -> Run]
  BY <1>1, IdleType, GotoOK DEF IInv
<1>4. cut \in [Exports -> 0 .. MaxLosses] /\ cut[e] < MaxLosses
      /\ cut' = [cut EXCEPT ![e] = @ + 1]
  BY DEF IInv, TypeOK, CutShort
<1> QED BY <1>1, <1>2, <1>3, <1>4, ReportExportAssumption

LEMMA LoseWorkerOK ==
  ASSUME IInv, NEW w \in Workers, NEW e, runs[w].export = e, LoseWorker(w)
  PROVE  IInv'
<1>1. /\ runs[w] # Idle /\ Goto(w, Idle) /\ runs' \in [Workers -> Run]
      /\ e \in Exports /\ cut' \in [Exports -> 0 .. MaxLosses]
      /\ cut'[e] = cut[e] + 1 /\ cut[e] \in Nat /\ cut'[e] <= MaxLosses
      /\ \A x \in Exports \ {e} : cut'[x] = cut[x]
  BY CutFacts DEF LoseWorker
<1>2. e \in Requested /\ MessagesOK(e) /\ HasItsFile(e)
  BY <1>1, TheRun
<1>3. /\ UNCHANGED <<exports, bucket, active, permitted, trail, alarms, downloads, barred,
                     repeated>>
      /\ UNCHANGED people
      /\ Requested' = Requested /\ FilesOf(e)' = FilesOf(e)
  BY DEF LoseWorker, people, records, Requested, FilesOf
<1>4. /\ queue \in [Exports -> 0 .. 1 + MaxLosses + MaxRepeats]
      /\ lost \in [Exports -> 0 .. MaxLosses] /\ repeated \in [Exports -> 0 .. MaxRepeats]
      /\ queue' = [queue EXCEPT ![e] = @ + 1] /\ lost' = [lost EXCEPT ![e] = @ + 1]
  BY DEF IInv, TypeOK, LoseWorker
<1>5. /\ queue'[e] = queue[e] + 1 /\ lost'[e] = lost[e] + 1
      /\ \A x \in Exports \ {e} : queue'[x] = queue[x] /\ lost'[x] = lost[x]
      /\ queue[e] \in Nat /\ lost[e] \in Nat /\ repeated[e] \in 0 .. MaxRepeats
  BY <1>1, <1>4, ReportExportAssumption
<1>6. MessagesOK(e)'
  BY <1>1, <1>2, <1>3, <1>5 DEF MessagesOK
<1>7. /\ queue'[e] \in 0 .. 1 + MaxLosses + MaxRepeats /\ lost'[e] \in 0 .. MaxLosses
  BY <1>1, <1>2, <1>5, ReportExportAssumption DEF MessagesOK
<1>8. /\ queue' \in [Exports -> 0 .. 1 + MaxLosses + MaxRepeats]
      /\ lost' \in [Exports -> 0 .. MaxLosses]
  BY <1>1, <1>4, <1>7
<1>9. TypeOK'
  BY <1>1, <1>3, <1>8 DEF IInv, TypeOK, Requested, Row, Files
<1>10. HasItsFile(e)' /\ IsAudited(e)'
  BY <1>1, <1>2, <1>3 DEF HasItsFile, IsAudited
<1>11. repeated[e] = 0 => queue'[e] = 1
  BY <1>1, <1>5, TheRun
<1> QED BY <1>1, <1>3, <1>5, <1>6, <1>9, <1>10, <1>11, EndOK

LEMMA AbandonOK ==
  ASSUME IInv, NEW w \in Workers, NEW e, runs[w].export = e, Abandon(w)
  PROVE  IInv'
<1>1. /\ runs[w] # Idle /\ Goto(w, Idle) /\ runs' \in [Workers -> Run]
      /\ e \in Exports /\ cut' \in [Exports -> 0 .. MaxLosses]
      /\ cut'[e] = cut[e] + 1 /\ cut[e] \in Nat
      /\ \A x \in Exports \ {e} : cut'[x] = cut[x]
  BY CutFacts DEF Abandon
<1>2. e \in Requested /\ MessagesOK(e) /\ HasItsFile(e)
  BY <1>1, TheRun
<1>3. /\ UNCHANGED <<exports, queue, bucket, active, permitted, trail, alarms, downloads,
                     barred, lost, repeated>>
      /\ UNCHANGED people
      /\ Requested' = Requested /\ FilesOf(e)' = FilesOf(e)
  BY DEF Abandon, people, records, Requested, FilesOf
<1>4. lost[e] \in Nat
  BY <1>1, ReportExportAssumption DEF IInv, TypeOK
<1>5. MessagesOK(e)'
  BY <1>1, <1>2, <1>3, <1>4 DEF MessagesOK
<1>6. TypeOK'
  BY <1>1, <1>3 DEF IInv, TypeOK, Requested, Row, Files
<1>7. HasItsFile(e)' /\ IsAudited(e)'
  BY <1>1, <1>2, <1>3 DEF HasItsFile, IsAudited
<1>8. repeated[e] = 0 => queue'[e] = 0
  BY <1>1, <1>3, TheRun
<1> QED BY <1>1, <1>3, <1>5, <1>6, <1>7, <1>8, EndOK

\* From here on the export's runs may overlap, and nothing more is claimed.
LEMMA RepeatOK ==
  ASSUME IInv, NEW w \in Workers, NEW e, runs[w].export = e, Repeat(w)
  PROVE  IInv'
<1>1. runs[w] # Idle /\ repeated[e] < MaxRepeats
  BY DEF Repeat
<1>2. /\ e \in Requested /\ e \in Exports /\ runs[w] \in Run /\ RunOK(w)
      /\ MessagesOK(e) /\ HasItsFile(e) /\ IsAudited(e)
  BY <1>1, TheRun
<1>3. /\ UNCHANGED <<exports, runs, bucket, active, permitted, trail, alarms, downloads,
                     barred, cut, lost>>
      /\ UNCHANGED people /\ Requested' = Requested
      /\ \A x \in Exports : FilesOf(x)' = FilesOf(x)
  BY DEF Repeat, people, records, Requested, FilesOf
<1>4. /\ queue \in [Exports -> 0 .. 1 + MaxLosses + MaxRepeats]
      /\ lost \in [Exports -> 0 .. MaxLosses] /\ cut \in [Exports -> 0 .. MaxLosses]
      /\ repeated \in [Exports -> 0 .. MaxRepeats]
      /\ queue' = [queue EXCEPT ![e] = @ + 1] /\ repeated' = [repeated EXCEPT ![e] = @ + 1]
  BY DEF IInv, TypeOK, Repeat
<1>5. /\ queue'[e] = queue[e] + 1 /\ repeated'[e] = repeated[e] + 1
      /\ \A x \in Exports \ {e} : queue'[x] = queue[x] /\ repeated'[x] = repeated[x]
      /\ queue[e] \in Nat /\ repeated[e] \in Nat
      /\ lost[e] \in Nat /\ lost[e] <= MaxLosses
  BY <1>2, <1>4, ReportExportAssumption
<1>6. MessagesOK(e)'
  BY <1>2, <1>3, <1>5 DEF MessagesOK
<1>7. /\ queue'[e] \in 0 .. 1 + MaxLosses + MaxRepeats /\ repeated'[e] \in 0 .. MaxRepeats
      /\ repeated'[e] # 0
  BY <1>1, <1>2, <1>5, ReportExportAssumption DEF MessagesOK
<1>8. /\ queue' \in [Exports -> 0 .. 1 + MaxLosses + MaxRepeats]
      /\ repeated' \in [Exports -> 0 .. MaxRepeats]
  BY <1>2, <1>4, <1>7
<1>9. TypeOK'
  BY <1>3, <1>8 DEF IInv, TypeOK, Requested, Row, Files
<1>10. RunOK(w)' /\ HasItsFile(e)' /\ IsAudited(e)'
  BY <1>2, <1>3 DEF RunOK, HasItsFile, IsAudited
<1>11. e \in barred => runs[w].step # "checked"
  BY DEF IInv, BarredOK
<1>12. Goto(w, runs[w])
  BY <1>3 DEF Goto, IInv, TypeOK
<1> QED BY <1>2, <1>3, <1>5, <1>6, <1>7, <1>9, <1>10, <1>11, <1>12, RunStepOK
----------------------------------------------------------------------------
(* The requester.                                                          *)

\* Workers and objects are where they were, and so is what the runs say of
\* the exports whose row is the same.
LEMMA RunsRest ==
  ASSUME IInv, UNCHANGED <<runs, bucket>>, Requested \subseteq Requested',
         \A x \in Requested : exports'[x] = exports[x]
  PROVE  /\ \A w \in Workers : RunOK(w)'
         /\ \A x \in Exports : FilesOf(x)' = FilesOf(x)
         /\ \A x \in Requested, w \in Workers : RunTold(x, w) => RunTold(x, w)'
<1>1. \A x \in Exports : FilesOf(x)' = FilesOf(x)
  BY DEF FilesOf
<1>2. \A w \in Workers : RunOK(w) /\ Requested \subseteq Exports
  BY DEF IInv, TypeOK
<1> QED BY <1>1, <1>2 DEF RunOK, RunTold

LEMMA SubmitOK ==
  ASSUME IInv, NEW u \in Requesters, NEW e \in Exports, Submit(u, e)
  PROVE  IInv'
<1> DEFINE row == [status |-> "PENDING", requested_by |-> u, storage_key |-> NoFile]
<1>1. e \notin Requested
  BY DEF Submit
<1>2. /\ Requested' = Requested \cup {e} /\ exports'[e] = row
      /\ \A x \in Requested : exports'[x] = exports[x]
      /\ exports' \in [Requested' -> Row]
  <2>1. exports' = [x \in Requested \cup {e} |-> IF x = e THEN row ELSE exports[x]]
    BY DEF Submit
  <2>2. exports \in [Requested -> Row] /\ row \in Row
    BY DEF IInv, TypeOK, Row, ExportStatus
  <2> QED BY <2>1, <2>2, <1>1 DEF Requested
<1>3. /\ UNCHANGED <<runs, bucket, active, permitted, trail, alarms, downloads, barred,
                     cut, lost, repeated>>
  BY DEF Submit, people, records, history
<1>4. /\ \A w \in Workers : RunOK(w) /\ RunOK(w)'
      /\ \A x \in Exports : FilesOf(x)' = FilesOf(x)
      /\ \A x \in Requested, w \in Workers : RunTold(x, w) => RunTold(x, w)'
  BY <1>2, <1>3, RunsRest DEF IInv
<1>5. /\ queue[e] = 0 /\ FilesOf(e) = {} /\ MessagesOK(e)
  BY <1>1 DEF IInv, MessagesOK
<1>6. /\ queue' \in [Exports -> 0 .. 1 + MaxLosses + MaxRepeats]
      /\ queue'[e] \in {0, 1}
      /\ \A x \in Exports \ {e} : queue'[x] = queue[x]
  <2>1. queue \in [Exports -> 0 .. 1 + MaxLosses + MaxRepeats]
    BY DEF IInv, TypeOK
  <2>2. CASE queue' = [queue EXCEPT ![e] = @ + 1]
    BY <2>1, <2>2, <1>5, ReportExportAssumption
  <2>3. CASE UNCHANGED queue
    BY <2>1, <2>3, <1>5
  <2> QED BY <2>2, <2>3 DEF Submit
<1>7. TypeOK'
  <2>1. Requested' \subseteq Exports
    BY <1>2 DEF IInv, TypeOK
  <2> QED BY <2>1, <1>2, <1>3, <1>6 DEF IInv, TypeOK, Row, Files
<1>8. ASSUME NEW x \in Exports PROVE MessagesOK(x)'
  <2>1. MessagesOK(x) /\ lost[x] \in Nat /\ repeated[x] \in Nat
    BY ReportExportAssumption DEF IInv, TypeOK
  <2> QED BY <2>1, <1>2, <1>3, <1>4, <1>6 DEF MessagesOK
<1>9. ReadyExportsHaveTheirFile'
  <2>1. ASSUME NEW x \in Requested' PROVE HasItsFile(x)'
    <3>1. x \in Requested => HasItsFile(x) /\ x \in Exports
      BY DEF IInv, TypeOK, ReadyExportsHaveTheirFile, HasItsFile
    <3> QED BY <3>1, <1>2, <1>4 DEF HasItsFile
  <2>2. downloads' \subseteq bucket'
    BY <1>3 DEF IInv, ReadyExportsHaveTheirFile
  <2> QED BY <2>1, <2>2 DEF ReadyExportsHaveTheirFile, HasItsFile
<1>10. ReadyExportsAreAudited'
  <2>1. ASSUME NEW x \in Requested' PROVE IsAudited(x)'
    <3>1. x \in Requested => IsAudited(x)
      BY DEF IInv, ReadyExportsAreAudited, IsAudited
    <3> QED BY <3>1, <1>2, <1>3 DEF IsAudited
  <2> QED BY <2>1 DEF ReadyExportsAreAudited, IsAudited
<1>11. ASSUME NEW x \in barred' PROVE BarredOK(x)'
  <2>1. BarredOK(x) /\ x \in Requested
    BY <1>3 DEF IInv, BarredOK
  <2> QED BY <2>1, <1>2, <1>3 DEF BarredOK
<1>12. ASSUME NEW x \in Requested', repeated'[x] = 0 PROVE OneRun(x)' /\ Told(x)'
  <2>1. CASE x = e
    <3>1. \A w \in Workers : runs[w].export # e
      <4> SUFFICES ASSUME NEW w \in Workers, runs[w].export = e PROVE FALSE
        OBVIOUS
      <4>1. runs[w] # Idle
        BY IdleType, ReportExportAssumption
      <4> QED BY <4>1, <1>1, TheRun
    <3>2. OneRun(e)'
      BY <3>1, <1>3, <1>6 DEF OneRun
    <3>3. Told(e)'
      BY <3>1, <1>3, <1>4, <1>5 DEF Told
    <3> QED BY <2>1, <3>2, <3>3
  <2>2. CASE x # e
    <3>1. x \in Requested /\ x \in Exports /\ OneRun(x) /\ Told(x)
      BY <2>2, <1>2, <1>3, <1>12 DEF IInv, TypeOK
    <3>2. OneRun(x)'
      BY <3>1, <2>2, <1>3, <1>6 DEF OneRun
    <3>3. ASSUME NEW w \in Workers, runs'[w].export = x PROVE RunTold(x, w)'
      BY <3>1, <3>3, <1>3, <1>4 DEF Told
    <3> QED BY <3>1, <3>2, <3>3, <1>2, <1>4 DEF Told
  <2> QED BY <2>1, <2>2
<1> QED BY <1>4, <1>7, <1>8, <1>9, <1>10, <1>11, <1>12 DEF IInv

\* What is left to show of a step that touches only the requesters and what
\* was handed out to them.
LEMMA PeopleStepOK ==
  ASSUME IInv, UNCHANGED <<exports, queue, runs, bucket, trail, alarms, cut, lost, repeated>>,
         active' \subseteq Requesters, permitted' \subseteq Requesters,
         downloads' \subseteq bucket, barred' \subseteq Exports,
         \A e \in barred' : BarredOK(e)'
  PROVE  IInv'
<1>1. Requested' = Requested
  BY DEF Requested
<1>2. /\ \A w \in Workers : RunOK(w)'
      /\ \A x \in Exports : FilesOf(x)' = FilesOf(x)
      /\ \A x \in Requested, w \in Workers : RunTold(x, w) => RunTold(x, w)'
  BY <1>1, RunsRest DEF IInv
<1>3. TypeOK'
  BY <1>1 DEF IInv, TypeOK, Row, Files
<1>4. ASSUME NEW x \in Exports PROVE MessagesOK(x)'
  <2>1. MessagesOK(x)
    BY DEF IInv
  <2> QED BY <2>1, <1>1, <1>2 DEF MessagesOK
<1>5. ReadyExportsHaveTheirFile'
  <2>1. Requested \subseteq Exports
    BY DEF IInv, TypeOK
  <2> QED BY <2>1, <1>1, <1>2 DEF IInv, ReadyExportsHaveTheirFile
<1>6. ReadyExportsAreAudited'
  BY <1>1 DEF IInv, ReadyExportsAreAudited
<1>7. ASSUME NEW x \in Requested, repeated'[x] = 0 PROVE OneRun(x)' /\ Told(x)'
  <2>1. OneRun(x) /\ Told(x) /\ x \in Exports
    BY <1>7 DEF IInv, TypeOK
  <2>2. OneRun(x)'
    BY <2>1 DEF OneRun
  <2> QED BY <2>1, <2>2, <1>2 DEF Told
<1> QED BY <1>1, <1>2, <1>3, <1>4, <1>5, <1>6, <1>7 DEF IInv

LEMMA LoseAccessOK ==
  ASSUME IInv, NEW u \in Requesters, LoseAccess(u)
  PROVE  IInv'
<1>1. /\ UNCHANGED <<exports, queue, runs, bucket, trail, alarms, downloads, cut, lost, repeated>>
      /\ Requested' = Requested
  BY DEF LoseAccess, records, Requested
<1>2. /\ active' \subseteq active /\ permitted' \subseteq permitted
      /\ u \notin active' \/ u \notin permitted'
      /\ barred' = barred \cup {e \in ExportsOf(u) : ~BeingRun(e)}
  BY DEF LoseAccess
<1>3. ASSUME NEW e \in barred' PROVE BarredOK(e)'
  <2>1. CASE e \in barred
    <3>1. BarredOK(e)
      BY <2>1 DEF IInv
    <3> QED BY <3>1, <1>1, <1>2 DEF BarredOK
  <2>2. CASE e \notin barred
    <3>1. e \in Requested /\ exports[e].requested_by = u /\ \A w \in Workers : runs[w].export # e
      BY <2>2, <1>2, <1>3 DEF ExportsOf, BeingRun
    <3> QED BY <3>1, <1>1, <1>2 DEF BarredOK
  <2> QED BY <2>1, <2>2
<1>4. barred' \subseteq Exports
  BY <1>2 DEF IInv, TypeOK, ExportsOf
<1>5. /\ active' \subseteq Requesters /\ permitted' \subseteq Requesters
      /\ downloads' \subseteq bucket
  BY <1>1, <1>2 DEF IInv, TypeOK, ReadyExportsHaveTheirFile
<1> QED BY <1>1, <1>3, <1>4, <1>5, PeopleStepOK

LEMMA RegainAccessOK ==
  ASSUME IInv, NEW u \in Requesters, RegainAccess(u)
  PROVE  IInv'
<1>1. /\ UNCHANGED <<exports, queue, runs, bucket, trail, alarms, downloads, cut, lost, repeated>>
      /\ Requested' = Requested
  BY DEF RegainAccess, records, Requested
<1>2. /\ active' \subseteq active \cup {u} /\ permitted' \subseteq permitted \cup {u}
      /\ barred' = barred \ ExportsOf(u)
  BY DEF RegainAccess
<1>3. ASSUME NEW e \in barred' PROVE BarredOK(e)'
  <2>1. BarredOK(e) /\ e \notin ExportsOf(u)
    BY <1>2, <1>3 DEF IInv
  <2>2. exports[e].requested_by # u
    BY <2>1 DEF BarredOK, ExportsOf
  <2> QED BY <2>1, <2>2, <1>1, <1>2 DEF BarredOK
<1>4. /\ active' \subseteq Requesters /\ permitted' \subseteq Requesters
      /\ downloads' \subseteq bucket /\ barred' \subseteq Exports
  BY <1>1, <1>2 DEF IInv, TypeOK, ReadyExportsHaveTheirFile
<1> QED BY <1>1, <1>3, <1>4, PeopleStepOK

\* The URL is signed for the key of a READY row, which names a stored object.
LEMMA DownloadOK ==
  ASSUME IInv, NEW u \in Requesters, NEW e \in Exports, Download(u, e)
  PROVE  IInv'
<1>1. /\ UNCHANGED <<exports, queue, runs, bucket, active, permitted, trail, alarms, barred,
                     cut, lost, repeated>>
      /\ downloads' = downloads \cup {exports[e].storage_key}
      /\ e \in Requested /\ exports[e].status = "READY"
  BY DEF Download, people, history, ExportsOf, is_ready
<1>2. downloads' \subseteq bucket
  <2>1. exports[e].storage_key \in FilesOf(e) /\ downloads \subseteq bucket
    BY <1>1 DEF IInv, ReadyExportsHaveTheirFile
  <2> QED BY <2>1, <1>1 DEF FilesOf
<1>3. ASSUME NEW x \in barred' PROVE BarredOK(x)'
  <2>1. BarredOK(x) /\ Requested' = Requested
    BY <1>1 DEF IInv, Requested
  <2> QED BY <2>1, <1>1 DEF BarredOK
<1>4. active' \subseteq Requesters /\ permitted' \subseteq Requesters /\ barred' \subseteq Exports
  BY <1>1 DEF IInv, TypeOK
<1> QED BY <1>1, <1>2, <1>3, <1>4, PeopleStepOK
----------------------------------------------------------------------------
(* Every step.                                                             *)

LEMMA NextIInv == IInv /\ [Next]_vars => IInv'
<1> SUFFICES ASSUME IInv, [Next]_vars PROVE IInv'
  OBVIOUS
<1>1. CASE UNCHANGED vars
  <2>1. /\ UNCHANGED <<exports, queue, runs, bucket, active, permitted, trail, alarms, downloads,
                       barred, cut, lost, repeated>>
        /\ Requested' = Requested
    BY <1>1 DEF vars, people, records, history, Requested
  <2>2. ASSUME NEW x \in barred' PROVE BarredOK(x)'
    <3>1. BarredOK(x)
      BY <2>1, <2>2 DEF IInv
    <3> QED BY <3>1, <2>1 DEF BarredOK
  <2>3. /\ active' \subseteq Requesters /\ permitted' \subseteq Requesters
        /\ downloads' \subseteq bucket /\ barred' \subseteq Exports
    BY <2>1 DEF IInv, TypeOK, ReadyExportsHaveTheirFile
  <2> QED BY <2>1, <2>2, <2>3, PeopleStepOK
<1>2. CASE \E u \in Requesters, e \in Exports : Submit(u, e) \/ Download(u, e)
  BY <1>2, SubmitOK, DownloadOK
<1>3. CASE \E u \in Requesters : LoseAccess(u) \/ RegainAccess(u)
  BY <1>3, LoseAccessOK, RegainAccessOK
<1>4. CASE \E w \in Workers, e \in Exports : Deliver(w, e)
  BY <1>4, DeliverOK
<1>5. CASE \E w \in Workers : RunStep(w) \/ LoseWorker(w) \/ Abandon(w) \/ Repeat(w)
  <2>1. PICK w \in Workers : RunStep(w) \/ LoseWorker(w) \/ Abandon(w) \/ Repeat(w)
    BY <1>5
  <2>2. PICK e : e = runs[w].export
    OBVIOUS
  <2> QED BY <2>1, <2>2, SkipOK, StartOK, CheckOK, FailOK, StoreOK, PublishOK, AuditOK,
             LoseWorkerOK, AbandonOK, RepeatOK DEF RunStep
<1> QED BY <1>1, <1>2, <1>3, <1>4, <1>5 DEF Next

LEMMA IInvHolds == Spec => []IInv
BY InitIInv, NextIInv, PTL DEF Spec

\* Every variable keeps its type; above all the broker holds no more messages
\* of an export than the request, its losses and its repeats account for.
THEOREM TypesHold == Spec => []TypeOK
<1>1. IInv => TypeOK
  BY DEF IInv
<1> QED BY <1>1, IInvHolds, PTL

\* A READY export, and every URL signed for one, names an object that is in
\* the bucket, wherever its runs were cut short (reports/tasks.py).
THEOREM ReadyExportsHaveTheirFileHolds == Spec => []ReadyExportsHaveTheirFile
<1>1. IInv => ReadyExportsHaveTheirFile
  BY DEF IInv
<1> QED BY <1>1, IInvHolds, PTL

\* A READY export is audited, or a run is about to, or its loss is on record.
THEOREM ReadyExportsAreAuditedHolds == Spec => []ReadyExportsAreAudited
<1>1. IInv => ReadyExportsAreAudited
  BY DEF IInv
<1> QED BY <1>1, IInvHolds, PTL

\* However many workers are lost, an export whose message the broker never
\* repeated during a run leaves one object at most.
THEOREM OneFileHolds == Spec => []OneFileWhenRunsDoNotOverlap
<1>1. IInv => OneFileWhenRunsDoNotOverlap
  <2> SUFFICES ASSUME IInv, NEW e \in Exports, repeated[e] = 0
               PROVE  Cardinality(FilesOf(e)) <= 1
    BY DEF OneFileWhenRunsDoNotOverlap
  <2>1. FilesOf(e) \in {{}, {<<e, 1>>}}
    <3>1. CASE e \in Requested
      BY <3>1 DEF IInv, Told
    <3>2. CASE e \notin Requested
      BY <3>2 DEF IInv, MessagesOK
    <3> QED BY <3>1, <3>2
  <2> QED BY <2>1, FS_EmptySet, FS_Singleton
<1> QED BY <1>1, IInvHolds, PTL

\* The job of a requester who lost access while it waited stores nothing.
THEOREM NoFileOnceBarredHolds == Spec => NoFileOnceBarred
<1>1. IInv /\ [Next]_vars => [\A e \in barred : FilesOf(e)' \subseteq FilesOf(e)]_vars
  <2> SUFFICES ASSUME IInv, Next, NEW e \in barred
               PROVE  FilesOf(e)' \subseteq FilesOf(e)
    OBVIOUS
  <2>1. CASE \E w \in Workers : Store(w)
    <3>1. PICK w \in Workers : Store(w)
      BY <2>1
    <3>2. runs[w].export # e
      BY <3>1 DEF IInv, BarredOK, Store
    <3>3. bucket' = bucket \cup {NewFile(runs[w].export)}
      BY <3>1 DEF Store
    <3>4. NewFile(runs[w].export)[1] # e
      BY <3>2 DEF NewFile
    <3> QED BY <3>3, <3>4 DEF FilesOf
  <2>2. CASE bucket' = bucket
    BY <2>2 DEF FilesOf
  <2> QED BY <2>1, <2>2 DEF Next, Submit, Download, LoseAccess, RegainAccess, Deliver, RunStep,
             Skip, Start, Check, Fail, Publish, Audit, LoseWorker, Abandon, Repeat, records
<1> QED BY <1>1, IInvHolds, PTL DEF Spec, NoFileOnceBarred

\* A message that comes back after its worker was lost never undoes an answer:
\* the row goes PENDING, RUNNING, READY or FAILED, and never back.
THEOREM ExportsMoveForwardHolds == Spec => ExportsMoveForward
<1>1. IInv /\ [Next]_vars =>
        [\A e \in Requested :
           repeated'[e] = 0 /\ exports'[e] # exports[e] =>
             Rank[exports'[e].status] > Rank[exports[e].status]]_exports
  <2> SUFFICES ASSUME IInv, Next, NEW e \in Requested, repeated'[e] = 0, exports'[e] # exports[e]
               PROVE  Rank[exports'[e].status] > Rank[exports[e].status]
    BY DEF vars
  <2>1. TypeOK
    BY DEF IInv
  <2>2. CASE \E u \in Requesters, x \in Exports : Submit(u, x)
    <3>1. exports'[e] = exports[e]
      BY <2>2 DEF Submit
    <3> QED BY <3>1
  <2>3. CASE \E w \in Workers : Start(w) \/ Fail(w) \/ Publish(w)
    <3>1. PICK w \in Workers : Start(w) \/ Fail(w) \/ Publish(w)
      BY <2>3
    <3>2. PICK x : x = runs[w].export
      OBVIOUS
    <3>3. runs[w].step \in {"loaded", "running", "checked", "stored"} /\ runs[w] # Idle
      BY <3>1, IdleType DEF Start, Fail, Publish
    <3>4. x = e /\ repeated' = repeated
      <4>1. x \in Requested /\ repeated' = repeated
        BY <3>1, <3>2, <3>3, TheRun DEF Start, Fail, Publish, history
      <4>2. \A y \in Requested \ {x} : exports'[y] = exports[y]
        BY <3>1, <3>2, <4>1, <2>1 DEF Start, Fail, Publish, TypeOK, Requested
      <4> QED BY <4>1, <4>2
    <3>5. RunTold(e, w)
      BY <3>2, <3>3, <3>4, TheRun
    <3>6. CASE Start(w)
      <4>1. exports[e].status = "PENDING"
        BY <3>5, <3>6 DEF RunTold, Start, MayStart
      <4>2. exports'[e].status = "RUNNING"
        <5>1. exports' = [exports EXCEPT ![e].status = "RUNNING"]
          BY <3>2, <3>4, <3>6 DEF Start
        <5>2. e \in Requested /\ "RUNNING" \in ExportStatus
          BY <3>4 DEF ExportStatus
        <5> QED BY <5>1, <5>2, <2>1, StatusChange
      <4> QED BY <4>1, <4>2 DEF Rank
    <3>7. CASE Fail(w)
      <4>1. exports[e].status = "RUNNING"
        BY <3>5, <3>7 DEF RunTold, Fail
      <4>2. exports'[e].status = "FAILED"
        <5>1. exports' = [exports EXCEPT ![e].status = "FAILED"]
          BY <3>2, <3>4, <3>7 DEF Fail, FailedStatus
        <5>2. e \in Requested /\ "FAILED" \in ExportStatus
          BY <3>4 DEF ExportStatus
        <5> QED BY <5>1, <5>2, <2>1, StatusChange
      <4> QED BY <4>1, <4>2 DEF Rank
    <3>8. CASE Publish(w)
      <4>1. exports[e].status = "RUNNING"
        BY <3>5, <3>8 DEF RunTold, Publish
      <4>2. exports'[e].status = "READY"
        <5>1. exports \in [Requested -> Row] /\ exports[e] \in Row
          BY <2>1 DEF TypeOK
        <5> QED BY <5>1, <3>2, <3>4, <3>8 DEF Publish, Row, Requested
      <4> QED BY <4>1, <4>2 DEF Rank
    <3> QED BY <3>1, <3>6, <3>7, <3>8
  <2> QED BY <2>2, <2>3 DEF Next, Download, LoseAccess, RegainAccess, Deliver, RunStep,
             Skip, Check, Store, Audit, LoseWorker, Abandon, Repeat
<1> QED BY <1>1, IInvHolds, PTL DEF Spec, ExportsMoveForward
================================================================================
