------------------------------ MODULE MCStorage ------------------------------
(* The instance of Storage that TLC checks: a queue with one place, which   *)
(* one collector fills while the writer is busy, a write buffer that fills  *)
(* up in the middle of a line, and one restart.  Two collectors meet at the *)
(* queue in MCCollectorManager.                                             *)
EXTENDS Storage

CsvAndDb == <<"csv", "db">>

==============================================================================
