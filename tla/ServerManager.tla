--------------------------- MODULE ServerManager ---------------------------
(***************************************************************************)
(* internal/servermgr/manager.go and cmd/servers/main.go: one goroutine    *)
(* per configured server takes a slot, listens, with retries, enters its   *)
(* server in a map, fills the registers from the first row of a data file  *)
(* and starts a second goroutine that writes the next row at every tick.   *)
(* Snapshot reads the registers of the servers in the map.  When the       *)
(* context is cancelled the first goroutine closes its server, the second  *)
(* ends, and Run waits for the first ones only.                            *)
(*                                                                         *)
(* A setter, a getter and a client's write are single steps: that is what  *)
(* ModbusServer shows of them.  A register holds the number of the row     *)
(* whose value was written to it last, 0 at first, or Foreign after a      *)
(* client's write.  The servers have different addresses and names.        *)
(***************************************************************************)
EXTENDS Naturals, Sequences, SequencesExt

CONSTANTS
  ServerOrder,   \* the enabled servers, in the order of the configuration
  Layout,        \* the points of each server, in order
  NumRows,       \* rows of the data file
  Size,          \* registers of a server (65536)
  RetryCount,    \* extra attempts to listen, for each server
  MaxStarts,     \* capacity of the channel sem (16)
  SnapshotMode,  \* main was given a snapshot flag: it takes one snapshot
  Foreign

Servers == { ServerOrder[k] : k \in 1..Len(ServerOrder) }
Rows == 1..NumRows

(* A point: its address, whether it is a float32 of two registers, whether *)
(* clients can write it (holding, coil), and the rows that have a value in *)
(* range for it.                                                           *)
PointType == [addr : 0..Size - 1, wide : BOOLEAN, open : BOOLEAN, rows : SUBSET Rows]

ASSUME ManagerAssumption ==
  /\ NumRows \in Nat \ {0} /\ Size \in Nat \ {0} /\ MaxStarts \in Nat \ {0}
  /\ ServerOrder \in Seq(Servers)
  /\ \A j, k \in 1..Len(ServerOrder) : ServerOrder[j] = ServerOrder[k] => j = k
  /\ Layout \in [Servers -> Seq(PointType)]
  /\ RetryCount \in [Servers -> Nat]
  /\ SnapshotMode \in BOOLEAN
  /\ Foreign \notin 0..NumRows

VARIABLES
  ctx,         \* the context is cancelled
  run,         \* Run: "running" or "returned"
  sem,         \* tokens in the channel sem
  starter,     \* the goroutine of each server: where it is, attempt, cursor
  updater,     \* the goroutine that writes the rows: where, row, cursor
  ticking,     \* the servers whose ticker has not been stopped
  listener,    \* each server: "none", "open" or "closed"
  attached,    \* the servers some client is connected to
  registered,  \* the map of running servers
  mem,         \* the registers
  snap         \* Snapshot: where it is, the points left, the values

netVars == <<listener, attached>>
goVars == <<sem, starter, updater, ticking>>
managerVars == <<ctx, run, goVars, netVars, registered, mem, snap>>

NoSnapshot == [at |-> "none", left |-> <<>>, ready |-> {}, vals |-> {}]

First == [i |-> 1, low |-> FALSE]

Init ==
  /\ ctx = FALSE /\ run = "running" /\ sem = 0
  /\ starter = [s \in Servers |-> [at |-> "queued", attempt |-> 0, cur |-> First]]
  /\ updater = [s \in Servers |-> [at |-> "none", row |-> 1, cur |-> First]]
  /\ ticking = {}
  /\ listener = [s \in Servers |-> "none"] /\ attached = {}
  /\ registered = {}
  /\ mem = [s \in Servers |-> [a \in 0..Size - 1 |-> 0]]
  /\ snap = NoSnapshot

At(s, stage) == starter[s].at = stage
Goto(s, stage) == starter' = [starter EXCEPT ![s].at = stage, ![s].cur = First]

----------------------------------------------------------------------------
(* applyRowToServer *)

(* Mutant: a float at the last address is not refused. *)
TakesUnchecked(p, r) == r \in p.rows

(* The point is written: its column exists, the value is in range, and a   *)
(* float32 has a second register.                                          *)
Takes(p, r) == r \in p.rows /\ ~(p.wide /\ p.addr = Size - 1)

Point(s, cur) == Layout[s][cur.i]

(* The second register is at address + 1, in sixteen bits. *)
Target(s, cur) == (Point(s, cur).addr + IF cur.low THEN 1 ELSE 0) % Size

Over(s, cur) == cur.i > Len(Layout[s])

(* The two words of a float are two calls of the setter. *)
After(s, r, cur) ==
  IF Takes(Point(s, cur), r) /\ Point(s, cur).wide /\ ~cur.low
    THEN [cur EXCEPT !.low = TRUE]
    ELSE [i |-> cur.i + 1, low |-> FALSE]

Apply(s, r, cur) ==
  /\ ~Over(s, cur)
  /\ mem' = IF Takes(Point(s, cur), r) THEN [mem EXCEPT ![s][Target(s, cur)] = r] ELSE mem

----------------------------------------------------------------------------
(* The goroutine of a server *)

(* select: a slot or the end of the context, either when both are ready. *)
AcquireSlot(s) ==
  /\ At(s, "queued") /\ sem < MaxStarts
  /\ sem' = sem + 1
  /\ Goto(s, "listen")
  /\ UNCHANGED <<ctx, run, updater, ticking, netVars, registered, mem, snap>>

GiveUp(s) ==
  /\ At(s, "queued") /\ ctx
  /\ Goto(s, "done")
  /\ UNCHANGED <<ctx, run, sem, updater, ticking, netVars, registered, mem, snap>>

(* The deferred receive from sem and wg.Done. *)
Finish(s) ==
  /\ Goto(s, "done")
  /\ sem' = sem - 1

Listen(s) ==
  /\ At(s, "listen")
  /\ Goto(s, "register")
  /\ listener' = [listener EXCEPT ![s] = "open"]
  /\ UNCHANGED <<ctx, run, sem, updater, ticking, attached, registered, mem, snap>>

(* Mutant: the attempts are not counted. *)
ListenFailsForever(s) ==
  /\ At(s, "listen")
  /\ IF starter[s].attempt < RetryCount[s] THEN Goto(s, "sleep") /\ UNCHANGED sem ELSE Finish(s)
  /\ UNCHANGED <<ctx, run, updater, ticking, netVars, registered, mem, snap>>

(* A failed attempt is followed by a pause that ignores the context. *)
ListenFails(s) ==
  /\ At(s, "listen")
  /\ IF starter[s].attempt < RetryCount[s]
       THEN /\ starter' = [starter EXCEPT ![s].at = "sleep", ![s].attempt = @ + 1]
            /\ UNCHANGED sem
       ELSE Finish(s)
  /\ UNCHANGED <<ctx, run, updater, ticking, netVars, registered, mem, snap>>

Wake(s) ==
  /\ At(s, "sleep")
  /\ starter' = [starter EXCEPT ![s].at = "listen"]
  /\ UNCHANGED <<ctx, run, sem, updater, ticking, netVars, registered, mem, snap>>

Register(s) ==
  /\ At(s, "register")
  /\ Goto(s, "zero")
  /\ registered' = registered \cup {s}
  /\ UNCHANGED <<ctx, run, sem, updater, ticking, netVars, mem, snap>>

(* The first register of every declared point is set to zero. *)
Zero(s) ==
  /\ At(s, "zero")
  /\ IF Over(s, starter[s].cur) THEN Goto(s, "load") /\ UNCHANGED mem
     ELSE /\ mem' = [mem EXCEPT ![s][Point(s, starter[s].cur).addr] = 0]
          /\ starter' = [starter EXCEPT ![s].cur.i = @ + 1]
  /\ UNCHANGED <<ctx, run, sem, updater, ticking, netVars, registered, snap>>

(* Mutant: the first row waits for the first tick. *)
LoadCSVOnly(s) ==
  /\ At(s, "load")
  /\ \/ Goto(s, "spawn") /\ ticking' = ticking \cup {s}
     \/ Goto(s, "serve") /\ UNCHANGED ticking
  /\ UNCHANGED <<ctx, run, sem, updater, netVars, registered, mem, snap>>

(* loadCSV: without rows the server is never updated. *)
LoadCSV(s) ==
  /\ At(s, "load")
  /\ \/ Goto(s, "row") /\ ticking' = ticking \cup {s}
     \/ Goto(s, "serve") /\ UNCHANGED ticking
  /\ UNCHANGED <<ctx, run, sem, updater, netVars, registered, mem, snap>>

FirstRow(s) ==
  /\ At(s, "row")
  /\ \/ /\ Apply(s, 1, starter[s].cur)
        /\ starter' = [starter EXCEPT ![s].cur = After(s, 1, @)]
     \/ Over(s, starter[s].cur) /\ Goto(s, "spawn") /\ UNCHANGED mem
  /\ UNCHANGED <<ctx, run, sem, updater, ticking, netVars, registered, snap>>

Spawn(s) ==
  /\ At(s, "spawn")
  /\ Goto(s, "serve")
  /\ updater' = [updater EXCEPT ![s].at = "select"]
  /\ UNCHANGED <<ctx, run, sem, ticking, netVars, registered, mem, snap>>

(* server.Close: the listener is closed first. *)
CloseListener(s) ==
  /\ At(s, "serve") /\ ctx
  /\ Goto(s, "closing")
  /\ listener' = [listener EXCEPT ![s] = "closed"]
  /\ UNCHANGED <<ctx, run, sem, updater, ticking, attached, registered, mem, snap>>

(* Mutant: Close does not wait for the connections. *)
ClosedAtOnce(s) ==
  /\ At(s, "closing")
  /\ Goto(s, "unregister")
  /\ UNCHANGED <<ctx, run, sem, updater, ticking, netVars, registered, mem, snap>>

(* Close returns when no connection is left. *)
Closed(s) ==
  /\ At(s, "closing") /\ s \notin attached
  /\ Goto(s, "unregister")
  /\ UNCHANGED <<ctx, run, sem, updater, ticking, netVars, registered, mem, snap>>

Unregister(s) ==
  /\ At(s, "unregister")
  /\ Goto(s, "stop")
  /\ registered' = registered \ {s}
  /\ UNCHANGED <<ctx, run, sem, updater, ticking, netVars, mem, snap>>

(* Mutant: the ticker is never stopped. *)
StopNothing(s) ==
  /\ At(s, "stop")
  /\ Finish(s)
  /\ UNCHANGED <<ctx, run, updater, ticking, netVars, registered, mem, snap>>

(* The deferred calls, last one first: ticker.Stop, the slot, wg.Done.  No *)
(* tick is received from a stopped ticker.                                 *)
Stop(s) ==
  /\ At(s, "stop")
  /\ Finish(s)
  /\ ticking' = ticking \ {s}
  /\ UNCHANGED <<ctx, run, updater, netVars, registered, mem, snap>>

Starter(s) ==
  \/ AcquireSlot(s) \/ GiveUp(s) \/ Listen(s) \/ ListenFails(s) \/ Wake(s)
  \/ Register(s) \/ Zero(s) \/ LoadCSV(s) \/ FirstRow(s) \/ Spawn(s)
  \/ CloseListener(s) \/ Closed(s) \/ Unregister(s) \/ Stop(s)

----------------------------------------------------------------------------
(* The goroutine that writes the rows *)

(* select: a tick or the end of the context, either when both are ready. *)
Tick(s) ==
  /\ updater[s].at = "select" /\ s \in ticking
  /\ updater' = [updater EXCEPT ![s] =
                   [at |-> "apply", row |-> (@.row % NumRows) + 1, cur |-> First]]
  /\ UNCHANGED <<ctx, run, sem, starter, ticking, netVars, registered, mem, snap>>

(* Mutant: the updater looks at the context only when it gets a tick. *)
EndUpdaterAtTick(s) ==
  /\ updater[s].at = "select" /\ ctx /\ s \in ticking
  /\ updater' = [updater EXCEPT ![s].at = "ended"]
  /\ UNCHANGED <<ctx, run, sem, starter, ticking, netVars, registered, mem, snap>>

EndUpdater(s) ==
  /\ updater[s].at = "select" /\ ctx
  /\ updater' = [updater EXCEPT ![s].at = "ended"]
  /\ UNCHANGED <<ctx, run, sem, starter, ticking, netVars, registered, mem, snap>>

Update(s) ==
  /\ updater[s].at = "apply"
  /\ \/ /\ Apply(s, updater[s].row, updater[s].cur)
        /\ updater' = [updater EXCEPT ![s].cur = After(s, updater[s].row, @)]
     \/ /\ Over(s, updater[s].cur)
        /\ updater' = [updater EXCEPT ![s].at = "select", ![s].cur = First]
        /\ UNCHANGED mem
  /\ UNCHANGED <<ctx, run, sem, starter, ticking, netVars, registered, snap>>

----------------------------------------------------------------------------
(* Clients *)

Attach(s) ==
  /\ listener[s] = "open" /\ s \notin attached
  /\ attached' = attached \cup {s}
  /\ UNCHANGED <<ctx, run, goVars, listener, registered, mem, snap>>

Detach(s) ==
  /\ s \in attached
  /\ attached' = attached \ {s}
  /\ UNCHANGED <<ctx, run, goVars, listener, registered, mem, snap>>

(* Both registers of a float, each by itself.  Those that no point has can  *)
(* be written too, and nothing here reads them.                            *)
Writable(s) ==
  { a \in 0..Size - 1 :
      \E i \in 1..Len(Layout[s]) :
        LET p == Layout[s][i] IN p.open /\ (a = p.addr \/ (p.wide /\ a = p.addr + 1)) }

ClientWrites(s) ==
  /\ s \in attached
  /\ \E a \in Writable(s) : mem' = [mem EXCEPT ![s][a] = Foreign]
  /\ UNCHANGED <<ctx, run, goVars, netVars, registered, snap>>

----------------------------------------------------------------------------
(* Snapshot: the map is copied under its mutex, the registers are read one *)
(* by one without it.  A float is read by its first register.              *)

PointsOf(s) == [i \in 1..Len(Layout[s]) |-> <<s, i>>]

(* The points of the servers whose updater is running. *)
Live == UNION { ToSet(PointsOf(s)) :
                  s \in { t \in Servers : At(t, "serve") /\ updater[t].at # "none" } }

TakeSnapshot ==
  /\ SnapshotMode /\ snap.at = "none"
  /\ snap' = [snap EXCEPT !.at = "reading", !.ready = Live,
       !.left = FlattenSeq([k \in 1..Len(ServerOrder) |->
                  IF ServerOrder[k] \in registered THEN PointsOf(ServerOrder[k]) ELSE <<>>])]
  /\ UNCHANGED <<ctx, run, goVars, netVars, registered, mem>>

SnapshotPoint ==
  /\ snap.left # <<>>
  /\ LET x == Head(snap.left) IN
     snap' = [snap EXCEPT !.left = Tail(@),
                !.vals = @ \cup {Append(x, mem[x[1]][Layout[x[1]][x[2]].addr])}]
  /\ UNCHANGED <<ctx, run, goVars, netVars, registered, mem>>

(* The values go to main, which prints them. *)
SnapshotReturns ==
  /\ snap.at = "reading" /\ snap.left = <<>>
  /\ snap' = [NoSnapshot EXCEPT !.at = "done"]
  /\ UNCHANGED <<ctx, run, goVars, netVars, registered, mem>>

----------------------------------------------------------------------------
(* main and Run *)

(* A signal, or main after its snapshot. *)
Cancel ==
  /\ ~ctx
  /\ ctx' = TRUE
  /\ UNCHANGED <<run, goVars, netVars, registered, mem, snap>>

RunReturns ==
  /\ run = "running" /\ ctx /\ \A s \in Servers : At(s, "done")
  /\ run' = "returned"
  /\ UNCHANGED <<ctx, goVars, netVars, registered, mem, snap>>

Next ==
  \/ \E s \in Servers :
       \/ Starter(s) \/ Tick(s) \/ EndUpdater(s) \/ Update(s)
       \/ Attach(s) \/ Detach(s) \/ ClientWrites(s)
  \/ TakeSnapshot \/ SnapshotPoint \/ SnapshotReturns
  \/ Cancel \/ RunReturns

SafeSpec == Init /\ [][Next]_managerVars

(* Every goroutine that can run does.  A select whose two cases are ready  *)
(* again and again picks each of them again and again.  Nothing says that  *)
(* clients hang up, or that anyone cancels the context.                    *)
Fairness ==
  /\ \A s \in Servers :
       WF_managerVars(Starter(s)) /\ WF_managerVars(Update(s)) /\ SF_managerVars(EndUpdater(s))
  /\ WF_managerVars(RunReturns)

Spec == SafeSpec /\ Fairness

----------------------------------------------------------------------------
(* Properties *)

(* What a register of point p can show once row r has been applied to it:  *)
(* the last row that has a value for it, in this pass or the one before.   *)
Shown(p, r) ==
  LET past == { q \in p.rows : q <= r }
      latest(Q) == { q \in Q : \A o \in Q : o <= q }
  IN  IF past # {} THEN latest(past) ELSE {0} \cup latest(p.rows)

(* The row that has reached a register of the i-th point, when the writer  *)
(* at cur is applying row r.                                               *)
Reached(i, low, cur, r, before) ==
  IF i < cur.i \/ (i = cur.i /\ cur.low /\ ~low) THEN r ELSE before

RowAt(s, i, low) ==
  IF updater[s].at = "apply"
    THEN Reached(i, low, updater[s].cur, updater[s].row,
                 ((updater[s].row + NumRows - 2) % NumRows) + 1)
  ELSE IF updater[s].at # "none" THEN updater[s].row
  ELSE IF At(s, "row") THEN Reached(i, low, starter[s].cur, 1, 0)
  ELSE IF At(s, "spawn") THEN 1 ELSE 0

(* The registers follow the rows: whatever clients write and whenever the  *)
(* context ends, a register that no client wrote shows the row in hand if  *)
(* the writer has passed it and the row before if not.  A client sees at   *)
(* most two adjacent rows, and the words of a float disagree only between  *)
(* the writer's two calls.                                                 *)
RegistersFollowTheRows ==
  \A s \in Servers : \A i \in 1..Len(Layout[s]) : \A low \in BOOLEAN :
    LET p == Layout[s][i]
        r == RowAt(s, i, low)
        value == mem[s][Target(s, [i |-> i, low |-> low])]
    IN  (low => p.wide /\ p.addr # Size - 1) =>
          value \in {Foreign} \cup
            (IF r = 0 \/ (p.wide /\ p.addr = Size - 1) THEN {0} ELSE Shown(p, r))

(* A snapshot has every point of every server that was being updated when  *)
(* it began, also if the server is closed meanwhile, and none of them is   *)
(* seen before its first row.                                              *)
SnapshotShowsRows ==
  \A x \in snap.ready :
    \/ x \in ToSet(snap.left)
    \/ \E y \in snap.vals :
         /\ <<y[1], y[2]>> = x
         /\ Takes(Layout[x[1]][x[2]], 1) => y[3] # 0

(* When Run has returned nothing is left of the servers: no listener, no   *)
(* client, no entry of the map, no slot taken.                             *)
ReturnedMeansDown ==
  run = "returned" =>
    /\ \A s \in Servers : listener[s] # "open"
    /\ attached = {} /\ registered = {} /\ sem = 0

(* The updaters are in no wait group, yet none begins a row once Run has   *)
(* returned: at most it finishes the one in hand.                          *)
NoRowBegunAfterRun ==
  [][run = "returned" =>
       \A s \in Servers : updater[s].at = "select" => updater'[s].at # "apply"]_managerVars

(* Every updater ends after a cancel, whether or not its server can close. *)
UpdatersEnd ==
  \A s \in Servers : ctx /\ updater[s].at # "none" ~> updater[s].at = "ended"

(* After a cancel Run returns, or some client keeps its connection. *)
RunEndsWithoutClients == ctx ~> (run = "returned" \/ attached # {})

(* What the comment on Run says: all enabled servers are started. *)
EveryServerStarts == \A s \in Servers : At(s, "queued") ~> ~At(s, "queued")

============================================================================
