------------------------------ MODULE AsyncLog ------------------------------
(***************************************************************************)
(* What the store of internal/collector/storage.go promises its callers: a *)
(* write-behind log.  Readings are accepted into one log; every output     *)
(* goes through the log in order, at its own pace; a file on disk is what  *)
(* earlier runs left there followed by some prefix, in cells, of the lines *)
(* handed to it, a database is the earlier rows followed by the rows of    *)
(* some of the readings handed to it; nothing on disk is ever rewritten.   *)
(* The queue, the writer goroutine and its buffers do not appear here.     *)
(***************************************************************************)
EXTENDS Naturals, Sequences, Subsequences

CONSTANTS Values, Sinks, NoLine(_), Line(_), Row(_), Opened(_)

VARIABLES
  log,    \* the readings accepted in this run
  done,   \* how many of them each output has been handed
  disk,   \* what each output has on disk
  base    \* what it had when this run began

vars == <<log, done, disk, base>>

Files == Sinks \ {"db"}

(* The lines of the first n readings of the log that output s keeps. *)
Stream(s, n) ==
  LET kept == Among(SubSeq(log, 1, n), Values \ NoLine(s))
  IN  [i \in 1..2 * Len(kept) |-> Line(kept[(i + 1) \div 2])[2 - (i % 2)]]

(* The contents a file may have once n readings have been handed to it. *)
Contents(s, n) ==
  { base[s] \o SubSeq(Stream(s, n), 1, m) : m \in 0..Len(Stream(s, n)) }

Init ==
  /\ log = <<>>
  /\ done = [s \in Sinks |-> 0]
  /\ disk = Opened([s \in Sinks |-> <<>>])
  /\ base = disk

Accept(v) ==
  /\ log' = Append(log, v)
  /\ UNCHANGED <<done, disk, base>>

(* The next reading is handed to a file, which may grow on disk. *)
ApplyLine(s) ==
  /\ done[s] < Len(log)
  /\ done' = [done EXCEPT ![s] = @ + 1]
  /\ \E d \in Contents(s, done[s] + 1) :
       Len(d) >= Len(disk[s]) /\ disk' = [disk EXCEPT ![s] = d]
  /\ UNCHANGED <<log, base>>

(* The next reading is inserted as a row, or its insert fails. *)
ApplyRow(s) ==
  /\ done[s] < Len(log)
  /\ done' = [done EXCEPT ![s] = @ + 1]
  /\ \/ disk' = [disk EXCEPT ![s] = Append(@, Row(log[done[s] + 1]))]
     \/ UNCHANGED disk
  /\ UNCHANGED <<log, base>>

(* What a file was handed reaches the disk later. *)
Persist(s) ==
  /\ \E d \in Contents(s, done[s]) :
       Len(d) >= Len(disk[s]) /\ disk' = [disk EXCEPT ![s] = d]
  /\ UNCHANGED <<log, done, base>>

(* A new run appends to what the last one left. *)
Reopen ==
  /\ log' = <<>>
  /\ done' = [s \in Sinks |-> 0]
  /\ disk' = Opened(disk)
  /\ base' = disk'

Next ==
  \/ \E v \in Values : Accept(v)
  \/ \E s \in Files : ApplyLine(s) \/ Persist(s)
  \/ \E s \in Sinks \ Files : ApplyRow(s)
  \/ Reopen

Spec == Init /\ [][Next]_vars

============================================================================
