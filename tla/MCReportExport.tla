---------------------------- MODULE MCReportExport -----------------------------
(* Small instances of ReportExport: one export and two workers, which is what
   docker-compose.prod.yml starts (--concurrency=2). *)
EXTENDS ReportExport
================================================================================
