------------------------------ MODULE Storage ------------------------------
(***************************************************************************)
(* internal/collector/storage.go: the asynchronous store behind the        *)
(* collectors.  Handle puts a reading into a bounded channel; one writer   *)
(* goroutine takes readings out and gives each to the enabled outputs in   *)
(* the order JSONL, CSV, sqlite; Close closes the channel and waits for    *)
(* the writer to drain it and flush the files.                             *)
(*                                                                         *)
(* A line of a file is two cells, <<v, 1>> and <<v, 2>>, so that a buffer  *)
(* that fills up in the middle of a line, or a crash there, leaves a torn  *)
(* line behind.  A row of the database is one cell.  The process may be    *)
(* killed at any step, or die of a send on a closed channel, and be        *)
(* started again on the same files.                                        *)
(***************************************************************************)
EXTENDS Naturals, Sequences, FiniteSets, Subsequences

CONSTANTS
  Producers,     \* the goroutines that call Handle
  Values,        \* the readings
  NonFinite,     \* the readings json.Marshal refuses (NaN, infinities)
  SinkOrder,     \* the enabled outputs, in the order the writer serves them
  MaxQueue,      \* capacity of the channel q
  BufSize,       \* capacity of a file's write buffer, in cells
  MaxAccepted,   \* bound: readings accepted in one run of the process
  MaxRestarts,   \* bound: times the process is started again
  NoValue

(* The outputs NewStorage enables for each accepted file_type. *)
ASSUME SinkAssumption ==
  SinkOrder \in { <<"json">>, <<"csv">>, <<"db">>, <<"json", "csv">>,
                  <<"json", "db">>, <<"csv", "db">>, <<"json", "csv", "db">> }

ASSUME StorageAssumption ==
  /\ NonFinite \subseteq Values
  /\ NoValue \notin Values
  /\ MaxQueue \in Nat \ {0}
  /\ BufSize \in Nat \ {0, 1}
  /\ MaxAccepted \in Nat
  /\ MaxRestarts \in Nat

Sinks == { SinkOrder[i] : i \in 1..Len(SinkOrder) }

(* The outputs flushed at the end, in order: the database is not buffered. *)
FileOrder ==
  IF SinkOrder[Len(SinkOrder)] = "db"
    THEN SubSeq(SinkOrder, 1, Len(SinkOrder) - 1) ELSE SinkOrder

VARIABLES
  q,          \* the channel's buffer
  qclosed,    \* the channel is closed
  call,       \* the Handle call of each producer: how far it is, with what
  parked,     \* the producers blocked in a send, first come first
  phase,      \* the writer: "loop", "flush" or "stopped" (closed is closed)
  todo,       \* the outputs the writer has still to serve
  buf,        \* the write buffer of each file
  disk,       \* what each output has on disk
  failed,     \* the outputs with a failed write; a failed file stays failed
  closer,     \* Close: "open", "draining" or "closed"
  proc,       \* the process: "up", "panicked" or "killed"
  crashes,    \* runs that ended in a panic or a kill
  restarts,   \* runs after the first
  accepted,   \* history: the readings that entered the channel in this run
  taken,      \* history: the readings the writer took out in this run
  base        \* history: what was on disk when this run opened its outputs

chanVars == <<q, qclosed, call, parked, accepted>>
writerVars == <<phase, todo, buf, disk, failed, taken>>
runVars == <<closer, proc, crashes, restarts, base>>
storageVars == <<chanVars, writerVars, runVars>>

Cells == (Values \cup {NoValue}) \X {0, 1, 2}
Line(v) == << <<v, 1>>, <<v, 2>> >>
Row(v) == <<v, 0>>
Header == <<NoValue, 0>>

CallStates == [at : {"idle", "full", "parked", "woken", "ok", "dropped"},
               v : Values \cup {NoValue}]
Idle == [at |-> "idle", v |-> NoValue]

Up == proc = "up"

----------------------------------------------------------------------------
(* Mutant: the CSV file gets a header at every start. *)
OpenedWithHeader(d) ==
  [s \in Sinks |-> IF s = "csv" THEN Append(d[s], Header) ELSE d[s]]

(* NewStorage opens each file for appending; a CSV file that is empty gets *)
(* its header, which is flushed before the writer starts.                  *)
Opened(d) ==
  [s \in Sinks |-> IF s = "csv" /\ d[s] = <<>> THEN <<Header>> ELSE d[s]]

Init ==
  /\ q = <<>> /\ qclosed = FALSE /\ parked = <<>>
  /\ call = [p \in Producers |-> Idle]
  /\ phase = "loop" /\ todo = <<>>
  /\ buf = [s \in Sinks |-> <<>>]
  /\ failed = {}
  /\ closer = "open" /\ proc = "up"
  /\ accepted = <<>> /\ taken = <<>>
  /\ disk = Opened([s \in Sinks |-> <<>>])
  /\ base = disk
  /\ crashes = 0 /\ restarts = 0

----------------------------------------------------------------------------
(* Handle *)

(* Mutant: the send does not look at the capacity. *)
HandleSendUnbounded(p, v) ==
  /\ Up /\ call[p].at = "idle" /\ ~qclosed
  /\ q' = Append(q, v)
  /\ accepted' = Append(accepted, v)
  /\ call' = [call EXCEPT ![p] = [at |-> "ok", v |-> v]]
  /\ UNCHANGED <<qclosed, parked, writerVars, runVars>>

(* The first select: the channel has room. *)
HandleSend(p, v) ==
  /\ Up /\ call[p].at = "idle" /\ ~qclosed /\ Len(q) < MaxQueue
  /\ q' = Append(q, v)
  /\ accepted' = Append(accepted, v)
  /\ call' = [call EXCEPT ![p] = [at |-> "ok", v |-> v]]
  /\ UNCHANGED <<qclosed, parked, writerVars, runVars>>

(* The first select falls to its default: the two-second timer starts. *)
HandleFull(p, v) ==
  /\ Up /\ call[p].at = "idle" /\ ~qclosed /\ Len(q) = MaxQueue
  /\ call' = [call EXCEPT ![p] = [at |-> "full", v |-> v]]
  /\ UNCHANGED <<q, qclosed, parked, accepted, writerVars, runVars>>

(* The second select finds room again, or blocks behind earlier senders. *)
RetrySend(p) ==
  /\ Up /\ call[p].at = "full" /\ ~qclosed /\ Len(q) < MaxQueue
  /\ q' = Append(q, call[p].v)
  /\ accepted' = Append(accepted, call[p].v)
  /\ call' = [call EXCEPT ![p].at = "ok"]
  /\ UNCHANGED <<qclosed, parked, writerVars, runVars>>

Park(p) ==
  /\ Up /\ call[p].at = "full" /\ ~qclosed /\ Len(q) = MaxQueue
  /\ parked' = Append(parked, p)
  /\ call' = [call EXCEPT ![p].at = "parked"]
  /\ UNCHANGED <<q, qclosed, accepted, writerVars, runVars>>

(* Mutants: the timer is looked at before the second send only; the oldest *)
(* reading of a full queue makes room for the one that waited too long.    *)
TimeoutBeforeSend(p) ==
  /\ Up /\ call[p].at = "full"
  /\ call' = [call EXCEPT ![p].at = "dropped"]
  /\ UNCHANGED <<q, qclosed, parked, accepted, writerVars, runVars>>

TimeoutEvicting(p) ==
  /\ Up /\ ~qclosed /\ call[p].at = "full" /\ Len(q) = MaxQueue
  /\ q' = Append(Tail(q), call[p].v)
  /\ accepted' = Append(accepted, call[p].v)
  /\ call' = [call EXCEPT ![p].at = "ok"]
  /\ UNCHANGED <<qclosed, parked, writerVars, runVars>>

(* The timer fires: the reading is dropped and Handle returns an error.    *)
(* A producer delayed for two seconds before the second select may find    *)
(* both cases ready and is given either.                                   *)
Timeout(p) ==
  /\ Up
  /\ \/ call[p].at = "full" /\ UNCHANGED parked
     \/ \E i \in 1..Len(parked) :
          /\ parked[i] = p
          /\ parked' = SubSeq(parked, 1, i - 1) \o SubSeq(parked, i + 1, Len(parked))
  /\ call' = [call EXCEPT ![p].at = "dropped"]
  /\ UNCHANGED <<q, qclosed, accepted, writerVars, runVars>>

(* A send on the closed channel panics, and nothing recovers it: the       *)
(* process dies, whatever its other goroutines were doing.                 *)
SendOnClosed(p) ==
  /\ Up /\ qclosed
  /\ call[p].at \in {"idle", "full", "woken"}
  /\ proc' = "panicked"
  /\ crashes' = crashes + 1
  /\ UNCHANGED <<chanVars, writerVars, closer, restarts, base>>

Handle(p, v) == HandleSend(p, v) \/ HandleFull(p, v) \/ SendOnClosed(p)

HandleStep(p) ==
  \/ RetrySend(p) \/ Park(p) \/ Timeout(p)
  \/ call[p].at # "idle" /\ SendOnClosed(p)

(* The caller gets the result. *)
Return(p) ==
  /\ Up /\ call[p].at \in {"ok", "dropped"}
  /\ call' = [call EXCEPT ![p] = Idle]
  /\ UNCHANGED <<q, qclosed, parked, accepted, writerVars, runVars>>

----------------------------------------------------------------------------
(* The writer goroutine *)

Current == taken[Len(taken)]

(* A receive.  When a sender is parked the runtime puts its reading into   *)
(* the freed place in the same step, so no later sender overtakes it.      *)
Receive ==
  \/ /\ parked = <<>>
     /\ q' = Tail(q)
     /\ UNCHANGED <<call, parked, accepted>>
  \/ /\ parked # <<>>
     /\ LET p == Head(parked) IN
        /\ q' = Append(Tail(q), call[p].v)
        /\ accepted' = Append(accepted, call[p].v)
        /\ call' = [call EXCEPT ![p].at = "ok"]
     /\ parked' = Tail(parked)

Take ==
  /\ Up /\ phase = "loop" /\ todo = <<>> /\ q # <<>>
  /\ Receive
  /\ taken' = Append(taken, Head(q))
  /\ todo' = SinkOrder
  /\ UNCHANGED <<qclosed, phase, buf, disk, failed, runVars>>

Serving(s) == Up /\ todo # <<>> /\ Head(todo) = s /\ todo' = Tail(todo)

(* A write of bufio's buffer to the file: all of it, or a part and then    *)
(* an error that the buffer keeps for good.                                *)
WriteOut(s, cells, rest) ==
  \/ /\ disk' = [disk EXCEPT ![s] = @ \o cells]
     /\ buf' = [buf EXCEPT ![s] = rest]
     /\ UNCHANGED failed
  \/ \E n \in 0..Len(cells) - 1 :
       /\ disk' = [disk EXCEPT ![s] = @ \o SubSeq(cells, 1, n)]
       /\ failed' = failed \cup {s}
       /\ UNCHANGED buf

(* bufio.Writer.Write: fill the buffer; when the line does not fit, the    *)
(* full buffer goes to the file and the remainder stays.                   *)
BufWrite(s, line) ==
  LET all == buf[s] \o line IN
  \/ /\ Len(all) <= BufSize
     /\ buf' = [buf EXCEPT ![s] = all]
     /\ UNCHANGED <<disk, failed>>
  \/ /\ Len(all) > BufSize
     /\ WriteOut(s, SubSeq(all, 1, BufSize), SubSeq(all, BufSize + 1, Len(all)))

(* A reading that json.Marshal refuses leaves no line in the JSONL file;   *)
(* the errors of the writes are discarded.                                 *)
NoLine(s) == IF s = "json" THEN NonFinite ELSE {}
Skips(s, v) == s \in failed \/ v \in NoLine(s)

(* Mutant: the error of json.Marshal is ignored. *)
WriteFileAnyway(s) ==
  /\ s \in {"json", "csv"} /\ phase = "loop" /\ Serving(s)
  /\ \/ s \in failed /\ UNCHANGED <<buf, disk, failed>>
     \/ s \notin failed /\ BufWrite(s, Line(Current))
  /\ UNCHANGED <<chanVars, phase, taken, runVars>>

WriteFile(s) ==
  /\ s \in {"json", "csv"} /\ phase = "loop" /\ Serving(s)
  /\ \/ Skips(s, Current) /\ UNCHANGED <<buf, disk, failed>>
     \/ ~Skips(s, Current) /\ BufWrite(s, Line(Current))
  /\ UNCHANGED <<chanVars, phase, taken, runVars>>

writeJSONL == WriteFile("json")
writeCSV == WriteFile("csv")

(* One insert with a three-second limit; a failed one is not tried again. *)
writeDB ==
  /\ phase = "loop" /\ Serving("db")
  /\ \/ /\ disk' = [disk EXCEPT !["db"] = Append(@, Row(Current))]
        /\ UNCHANGED failed
     \/ /\ failed' = failed \cup {"db"}
        /\ UNCHANGED disk
  /\ UNCHANGED <<chanVars, phase, buf, taken, runVars>>

(* Mutants: the loop ends as soon as the channel is closed; the files are   *)
(* closed without a flush.                                                 *)
LoopEndsAtClose ==
  /\ Up /\ phase = "loop" /\ todo = <<>> /\ qclosed
  /\ phase' = "flush"
  /\ todo' = FileOrder
  /\ UNCHANGED <<chanVars, buf, disk, failed, taken, runVars>>

LoopEndsWithoutFlush ==
  /\ Up /\ phase = "loop" /\ todo = <<>> /\ q = <<>> /\ qclosed
  /\ phase' = "flush"
  /\ todo' = <<>>
  /\ UNCHANGED <<chanVars, buf, disk, failed, taken, runVars>>

(* range q ends when the channel is closed and empty. *)
LoopEnds ==
  /\ Up /\ phase = "loop" /\ todo = <<>> /\ q = <<>> /\ qclosed
  /\ phase' = "flush"
  /\ todo' = FileOrder
  /\ UNCHANGED <<chanVars, buf, disk, failed, taken, runVars>>

Flush(s) ==
  /\ s \in {"json", "csv"} /\ phase = "flush" /\ Serving(s)
  /\ \/ s \in failed /\ UNCHANGED <<buf, disk, failed>>
     \/ s \notin failed /\ WriteOut(s, buf[s], <<>>)
  /\ UNCHANGED <<chanVars, phase, taken, runVars>>

Stop ==
  /\ Up /\ phase = "flush" /\ todo = <<>>
  /\ phase' = "stopped"
  /\ UNCHANGED <<chanVars, todo, buf, disk, failed, taken, runVars>>

Writer ==
  \/ Take \/ writeJSONL \/ writeCSV \/ writeDB
  \/ LoopEnds \/ Flush("json") \/ Flush("csv") \/ Stop

----------------------------------------------------------------------------
(* Close, crashes and restarts *)

(* Mutant: Close waits for the writer without closing the channel. *)
CloseWithoutClosing ==
  /\ Up /\ closer = "open"
  /\ closer' = "draining"
  /\ UNCHANGED <<chanVars, writerVars, proc, crashes, restarts, base>>

(* close(q) wakes the parked senders, which panic as soon as they run. *)
CloseQueue ==
  /\ Up /\ closer = "open"
  /\ closer' = "draining"
  /\ qclosed' = TRUE
  /\ parked' = <<>>
  /\ call' = [p \in Producers |->
                IF call[p].at = "parked" THEN [call[p] EXCEPT !.at = "woken"] ELSE call[p]]
  /\ UNCHANGED <<q, accepted, writerVars, proc, crashes, restarts, base>>

(* Close returns once the writer has closed s.closed. *)
CloseReturns ==
  /\ Up /\ closer = "draining" /\ phase = "stopped"
  /\ closer' = "closed"
  /\ UNCHANGED <<chanVars, writerVars, proc, crashes, restarts, base>>

Kill ==
  /\ Up
  /\ proc' = "killed"
  /\ crashes' = crashes + 1
  /\ UNCHANGED <<chanVars, writerVars, closer, restarts, base>>

(* Mutant: the files are opened with O_TRUNC instead of O_APPEND. *)
RestartTruncating ==
  /\ ~Up \/ closer = "closed"
  /\ restarts < MaxRestarts
  /\ restarts' = restarts + 1
  /\ q' = <<>> /\ qclosed' = FALSE /\ parked' = <<>>
  /\ call' = [p \in Producers |-> Idle]
  /\ phase' = "loop" /\ todo' = <<>>
  /\ buf' = [s \in Sinks |-> <<>>]
  /\ failed' = {}
  /\ closer' = "open" /\ proc' = "up"
  /\ accepted' = <<>> /\ taken' = <<>>
  /\ disk' = Opened([s \in Sinks |-> <<>>])
  /\ base' = disk'
  /\ UNCHANGED crashes

(* The process is started again after a crash or a clean end. *)
Restart ==
  /\ ~Up \/ closer = "closed"
  /\ restarts < MaxRestarts
  /\ restarts' = restarts + 1
  /\ q' = <<>> /\ qclosed' = FALSE /\ parked' = <<>>
  /\ call' = [p \in Producers |-> Idle]
  /\ phase' = "loop" /\ todo' = <<>>
  /\ buf' = [s \in Sinks |-> <<>>]
  /\ failed' = {}
  /\ closer' = "open" /\ proc' = "up"
  /\ accepted' = <<>> /\ taken' = <<>>
  /\ disk' = Opened(disk)
  /\ base' = Opened(disk)
  /\ UNCHANGED crashes

----------------------------------------------------------------------------
(* Bound on the calls of one run, for model checking. *)
Budget ==
  Len(accepted) + Cardinality({p \in Producers : call[p].at \in {"full", "parked"}})
    < MaxAccepted

Next ==
  \/ \E p \in Producers, v \in Values : Budget /\ Handle(p, v)
  \/ \E p \in Producers : HandleStep(p) \/ Return(p)
  \/ Writer
  \/ CloseQueue \/ CloseReturns
  \/ Kill \/ Restart

SafeSpec == Init /\ [][Next]_storageVars

(* Handle alone: its goroutines run and its timer fires, while the writer  *)
(* may stand still for good inside a write, or anywhere else.              *)
HandleFairness ==
  \A p \in Producers : WF_storageVars(HandleStep(p)) /\ WF_storageVars(Return(p))

HandleSpec == SafeSpec /\ HandleFairness

(* The writer's goroutine runs and its writes end, by success or an error. *)
WriterFairness == WF_storageVars(Writer) /\ WF_storageVars(CloseReturns)

(* The scheduler runs every goroutine that can run, and the timer fires.   *)
(* Nothing says that a producer calls Handle, that anyone calls Close,     *)
(* that the process is killed or that it is started again.                 *)
Fairness == WriterFairness /\ HandleFairness

Spec == SafeSpec /\ Fairness

----------------------------------------------------------------------------
(* Properties *)

(* Every variable has its type: the queue never exceeds its capacity, the  *)
(* writer serves only enabled outputs.                                     *)
ChannelTypeOK ==
  /\ q \in Seq(Values) /\ Len(q) <= MaxQueue
  /\ qclosed \in BOOLEAN /\ closer \in {"open", "draining", "closed"}
  /\ call \in [Producers -> CallStates]
  /\ parked \in Seq(Producers)
  /\ accepted \in Seq(Values) /\ taken \in Seq(Values)

OutputTypeOK ==
  /\ phase \in {"loop", "flush", "stopped"}
  /\ todo \in Seq(Sinks)
  /\ buf \in [Sinks -> Seq(Cells)]
  /\ disk \in [Sinks -> Seq(Cells)]
  /\ base \in [Sinks -> Seq(Cells)]
  /\ failed \subseteq Sinks

RunTypeOK ==
  /\ proc \in {"up", "panicked", "killed"}
  /\ crashes \in Nat /\ restarts \in Nat

TypeOK == ChannelTypeOK /\ OutputTypeOK /\ RunTypeOK

(* The channel loses, repeats and reorders nothing: what entered it is     *)
(* what the writer has taken followed by what is still queued, also when   *)
(* receives complete the sends of parked producers.                        *)
Fifo == accepted = taken \o q

(* The readings among t that output s keeps, and how they look on disk. *)
Kept(s, t) == Among(t, Values \ NoLine(s))
Image(s, t) ==
  IF s = "db" THEN [i \in 1..Len(t) |-> Row(t[i])]
  ELSE [i \in 1..2 * Len(t) |-> Line(t[(i + 1) \div 2])[2 - (i % 2)]]

(* When Close has returned, every output whose writes all succeeded holds  *)
(* what it held before followed by every reading Handle accepted, in       *)
(* order, the JSONL file without those that have no JSON form: nothing is  *)
(* left in the queue or in a buffer.                                       *)
CloseLosesNothing ==
  closer = "closed" =>
    \A s \in Sinks \ failed : disk[s] = base[s] \o Image(s, Kept(s, accepted))

(* At any step, so also at a crash, what an output with no failed write    *)
(* lacks of the accepted readings is no more than the queue, the reading   *)
(* in the writer's hands and the file's buffer.                            *)
BoundedLoss ==
  \A s \in Sinks \ failed :
    Len(base[s] \o Image(s, Kept(s, accepted))) - Len(disk[s])
      <= IF s = "db" THEN MaxQueue + 1 ELSE 2 * (MaxQueue + 1) + BufSize

(* The lines of a file that lack their second half. *)
Torn(d) ==
  { i \in 1..Len(d) : d[i][2] = 1 /\ (i = Len(d) \/ d[i + 1] # <<d[i][1], 2>>) }

(* Buffers are written in the middle of lines and runs append to what a    *)
(* crash left, yet each run tears at most one line of a file, and none     *)
(* when it ends with Close and no failed write.                            *)
OneTornLinePerRun ==
  \A s \in Sinks \ {"db"} :
    Cardinality(Torn(disk[s])) <=
      restarts + IF closer = "closed" /\ s \notin failed THEN 0 ELSE 1

(* The CSV file begins with its header and has no other, however often the *)
(* process was killed and started again on it.                             *)
HeaderOnce ==
  "csv" \in Sinks =>
    { i \in 1..Len(disk["csv"]) : disk["csv"][i] = Header } = {1}

(* The store implements the write-behind log: see AsyncLog. *)
Done == [s \in Sinks |->
           Len(taken) - IF phase = "loop" /\ \E i \in 1..Len(todo) : todo[i] = s
                          THEN 1 ELSE 0]
Log == INSTANCE AsyncLog WITH log <- accepted, done <- Done
ImplementsLog == Log!Spec

(* Every call of Handle returns, unless the process dies first, also when  *)
(* the writer never takes another reading: the timer bounds the wait for a *)
(* full queue.                                                             *)
HandleReturns ==
  \A p \in Producers : call[p].at # "idle" ~> (call[p].at = "idle" \/ ~Up)

(* Every accepted reading is taken up by a writer that does not hang, with *)
(* or without a Close, unless the process dies first.                      *)
AcceptedIsTaken ==
  WriterFairness =>
    \A n \in 1..MaxAccepted : Len(accepted) >= n ~> (Len(taken) >= n \/ ~Up)

(* Close returns, whatever is queued and whichever writes fail, unless a   *)
(* write hangs or the process dies first.                                  *)
CloseTerminates ==
  WriterFairness => (closer = "draining" ~> (closer = "closed" \/ ~Up))

============================================================================
