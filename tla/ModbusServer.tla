--------------------------- MODULE ModbusServer ---------------------------
(***************************************************************************)
(* internal/modbus/server.go: a Modbus TCP server.  One goroutine accepts  *)
(* connections, one goroutine per connection reads a request, carries it   *)
(* out under an RWMutex, entry by entry, and answers; other goroutines of  *)
(* the process read and write the same tables with the setters and         *)
(* getters.  Close closes quit and the listener, and waits for the         *)
(* accepting goroutine and the connections' goroutines.                    *)
(*                                                                         *)
(* Registers and bits are words of a small set.  A frame that carries no   *)
(* PDU has fn "empty"; the checks on the length of a PDU, on its byte      *)
(* count and on the value of a single coil are the field sound.            *)
(***************************************************************************)
EXTENDS Naturals, Sequences, FiniteSets

CONSTANTS
  Clients,      \* the Modbus clients, each with at most one connection
  Locals,       \* the goroutines of the process that use the tables
  Requests,     \* the frames the clients send
  LocalCalls,   \* the calls of the setters and getters
  Tables,       \* holding, input, coils, discrete
  Size,         \* entries of a table (65536)
  ReadLimit,    \* entries of one read, by table (125 and 2000)
  WriteLimit,   \* entries of one write, by table (123 and 1968)
  Words,        \* what an entry can hold, 0 among them
  NoRequest, Nobody

Actors == Clients \cup Locals

RequestType == [fn : {"read", "write", "other", "empty"}, table : Tables,
                start : 0..Size - 1, qty : Nat, words : Seq(Words), sound : BOOLEAN]

ASSUME ServerAssumption ==
  /\ Clients \cap Locals = {} /\ IsFiniteSet(Clients)
  /\ Nobody \notin Actors
  /\ 0 \in Words
  /\ Size \in Nat \ {0}
  /\ ReadLimit \in [Tables -> Nat] /\ WriteLimit \in [Tables -> Nat]
  /\ NoRequest \notin Requests \cup LocalCalls
  /\ \A r \in Requests \cup LocalCalls :
       r \in RequestType /\ (r.fn = "write" /\ r.sound => Len(r.words) = r.qty)
  /\ \A r \in LocalCalls : r.fn \in {"read", "write"} /\ r.sound

VARIABLES
  mem,        \* the four tables
  writer,     \* who holds the mutex for writing or waits inside Lock for the readers
  readers,    \* who holds it for reading
  pc,         \* where each actor is in a request
  op,         \* its request
  idx,        \* the entries it has read or written
  result,     \* the code and the data of its answer
  conn,       \* each client's connection: "none", "backlog", "accepted", "served"
  peer,       \* the client has not closed its end
  inbox,      \* the frame the client has sent and the server not read
  acceptor,   \* the accepting goroutine: "new", "accepting", "exited"
  closer,     \* Close: "open", "quit", "waiting", "returned"
  wg,         \* the wait group's counter
  committed   \* history: the tables as the last writer left them

tableVars == <<mem, writer, readers, committed>>
actorVars == <<pc, op, idx, result>>
connVars == <<conn, peer, inbox>>
lifeVars == <<acceptor, closer, wg>>
serverVars == <<tableVars, actorVars, connVars, lifeVars>>

None == [code |-> "none", data |-> <<>>]

Init ==
  /\ mem = [t \in Tables |-> [x \in 0..Size - 1 |-> 0]]
  /\ committed = mem
  /\ writer = Nobody /\ readers = {}
  /\ pc = [a \in Actors |-> "idle"]
  /\ op = [a \in Actors |-> NoRequest]
  /\ idx = [a \in Actors |-> 0]
  /\ result = [a \in Actors |-> None]
  /\ conn = [c \in Clients |-> "none"]
  /\ peer = [c \in Clients |-> FALSE]
  /\ inbox = [c \in Clients |-> NoRequest]
  /\ acceptor = "new" /\ closer = "open" /\ wg = 0

----------------------------------------------------------------------------
(* The clients *)

Dial(c) ==
  /\ acceptor # "new" /\ closer \in {"open", "quit"}
  /\ conn[c] = "none"
  /\ conn' = [conn EXCEPT ![c] = "backlog"]
  /\ peer' = [peer EXCEPT ![c] = TRUE]
  /\ UNCHANGED <<inbox, tableVars, actorVars, lifeVars>>

(* A request, possibly while the one before is still being carried out. *)
Send(c, r) ==
  /\ peer[c] /\ inbox[c] = NoRequest
  /\ inbox' = [inbox EXCEPT ![c] = r]
  /\ UNCHANGED <<conn, peer, tableVars, actorVars, lifeVars>>

HangUp(c) ==
  /\ peer[c]
  /\ peer' = [peer EXCEPT ![c] = FALSE]
  /\ UNCHANGED <<conn, inbox, tableVars, actorVars, lifeVars>>

----------------------------------------------------------------------------
(* Listen and acceptLoop *)

Listen ==
  /\ acceptor = "new" /\ closer = "open"
  /\ acceptor' = "accepting"
  /\ wg' = wg + 1
  /\ UNCHANGED <<closer, tableVars, actorVars, connVars>>

Accept(c) ==
  /\ acceptor = "accepting" /\ closer \in {"open", "quit"}
  /\ conn[c] = "backlog" /\ \A d \in Clients : conn[d] # "accepted"
  /\ conn' = [conn EXCEPT ![c] = "accepted"]
  /\ UNCHANGED <<peer, inbox, tableVars, actorVars, lifeVars>>

(* Mutant: the connection's goroutine is not counted. *)
SpawnUncounted(c) ==
  /\ conn[c] = "accepted"
  /\ conn' = [conn EXCEPT ![c] = "served"]
  /\ UNCHANGED <<peer, inbox, tableVars, actorVars, lifeVars>>

(* The connection is counted before its goroutine starts. *)
Spawn(c) ==
  /\ conn[c] = "accepted"
  /\ wg' = wg + 1
  /\ conn' = [conn EXCEPT ![c] = "served"]
  /\ UNCHANGED <<peer, inbox, tableVars, actorVars, acceptor, closer>>

(* Accept fails on the closed listener; quit was closed before it. *)
AcceptFails ==
  /\ acceptor = "accepting" /\ closer = "waiting"
  /\ \A c \in Clients : conn[c] # "accepted"
  /\ acceptor' = "exited"
  /\ wg' = wg - 1
  /\ UNCHANGED <<closer, tableVars, actorVars, connVars>>

----------------------------------------------------------------------------
(* handleConnection: a frame without a PDU is skipped. *)

SkipFrame(c) ==
  /\ conn[c] = "served" /\ pc[c] = "idle" /\ inbox[c] # NoRequest
  /\ inbox[c].fn = "empty"
  /\ inbox' = [inbox EXCEPT ![c] = NoRequest]
  /\ UNCHANGED <<conn, peer, tableVars, actorVars, lifeVars>>

Start(a, r) ==
  /\ pc' = [pc EXCEPT ![a] = "check"]
  /\ op' = [op EXCEPT ![a] = r]
  /\ UNCHANGED <<idx, result>>

ReadFrame(c) ==
  /\ conn[c] = "served" /\ pc[c] = "idle" /\ inbox[c] # NoRequest
  /\ inbox[c].fn # "empty"
  /\ Start(c, inbox[c])
  /\ inbox' = [inbox EXCEPT ![c] = NoRequest]
  /\ UNCHANGED <<conn, peer, tableVars, lifeVars>>

Finish(a) ==
  /\ pc' = [pc EXCEPT ![a] = "idle"]
  /\ op' = [op EXCEPT ![a] = NoRequest]
  /\ idx' = [idx EXCEPT ![a] = 0]
  /\ result' = [result EXCEPT ![a] = None]

(* Mutant: the goroutine ends without wg.Done. *)
HangUncounted(c) ==
  /\ conn' = [conn EXCEPT ![c] = "none"]
  /\ peer' = [peer EXCEPT ![c] = FALSE]
  /\ inbox' = [inbox EXCEPT ![c] = NoRequest]
  /\ UNCHANGED wg

(* The goroutine ends: conn.Close and wg.Done. *)
Hang(c) ==
  /\ conn' = [conn EXCEPT ![c] = "none"]
  /\ peer' = [peer EXCEPT ![c] = FALSE]
  /\ inbox' = [inbox EXCEPT ![c] = NoRequest]
  /\ wg' = wg - 1

(* The header and the response go out; writing to a client that has closed *)
(* its end may fail, and the goroutine ends.                               *)
Reply(c) ==
  /\ pc[c] = "done" /\ Finish(c)
  /\ UNCHANGED <<connVars, tableVars, lifeVars>>

ReplyFails(c) ==
  /\ pc[c] = "done" /\ ~peer[c] /\ Finish(c)
  /\ Hang(c)
  /\ UNCHANGED <<tableVars, acceptor, closer>>

(* The read fails: the client has closed its end. *)
ReadFails(c) ==
  /\ conn[c] = "served" /\ pc[c] = "idle" /\ ~peer[c]
  /\ Hang(c)
  /\ UNCHANGED <<tableVars, actorVars, acceptor, closer>>

----------------------------------------------------------------------------
(* handlePDU, the setters and the getters *)

Call(l, r) ==
  /\ pc[l] = "idle" /\ Start(l, r)
  /\ UNCHANGED <<tableVars, connVars, lifeVars>>

Return(l) ==
  /\ pc[l] = "done" /\ Finish(l)
  /\ UNCHANGED <<tableVars, connVars, lifeVars>>

Limit(fn, t) == IF fn = "read" THEN ReadLimit[t] ELSE WriteLimit[t]

(* Mutant: the range is checked before the quantity. *)
CodeRangeFirst(r) ==
  IF r.fn \notin {"read", "write"} THEN "function"
  ELSE IF r.start + r.qty > Size THEN "address"
  ELSE IF ~r.sound \/ r.qty = 0 \/ r.qty > Limit(r.fn, r.table) THEN "value"
  ELSE "ok"

(* The checks in their order: the function, the quantity and the form of   *)
(* the PDU, the range, computed wider than the sixteen bits of an address. *)
Code(r) ==
  IF r.fn \notin {"read", "write"} THEN "function"
  ELSE IF ~r.sound \/ r.qty = 0 \/ r.qty > Limit(r.fn, r.table) THEN "value"
  ELSE IF r.start + r.qty > Size THEN "address"
  ELSE "ok"

Check(a) ==
  /\ pc[a] = "check"
  /\ IF Code(op[a]) = "ok"
       THEN pc' = [pc EXCEPT ![a] = "want"] /\ UNCHANGED result
       ELSE /\ pc' = [pc EXCEPT ![a] = "done"]
            /\ result' = [result EXCEPT ![a] = [code |-> Code(op[a]), data |-> <<>>]]
  /\ UNCHANGED <<op, idx, tableVars, connVars, lifeVars>>

(* Mutant: the read does not take the mutex. *)
RLockNothing(a) ==
  /\ pc[a] = "want" /\ op[a].fn = "read"
  /\ pc' = [pc EXCEPT ![a] = "in"]
  /\ UNCHANGED <<op, idx, result, tableVars, connVars, lifeVars>>

(* RWMutex: a reader enters unless a writer holds the mutex or waits for   *)
(* it; a writer first shuts out the others, then waits for the readers.    *)
RLock(a) ==
  /\ pc[a] = "want" /\ op[a].fn = "read" /\ writer = Nobody
  /\ readers' = readers \cup {a}
  /\ pc' = [pc EXCEPT ![a] = "in"]
  /\ UNCHANGED <<mem, writer, committed, op, idx, result, connVars, lifeVars>>

Lock(a) ==
  /\ pc[a] = "want" /\ op[a].fn = "write" /\ writer = Nobody
  /\ writer' = a
  /\ pc' = [pc EXCEPT ![a] = "pending"]
  /\ UNCHANGED <<mem, readers, committed, op, idx, result, connVars, lifeVars>>

Locked(a) ==
  /\ pc[a] = "pending" /\ readers = {}
  /\ pc' = [pc EXCEPT ![a] = "in"]
  /\ UNCHANGED <<tableVars, op, idx, result, connVars, lifeVars>>

ReadEntry(a) ==
  /\ pc[a] = "in" /\ op[a].fn = "read" /\ idx[a] < op[a].qty
  /\ result' = [result EXCEPT ![a].data =
                  Append(@, mem[op[a].table][op[a].start + idx[a]])]
  /\ idx' = [idx EXCEPT ![a] = @ + 1]
  /\ UNCHANGED <<pc, op, tableVars, connVars, lifeVars>>

WriteEntry(a) ==
  /\ pc[a] = "in" /\ op[a].fn = "write" /\ idx[a] < op[a].qty
  /\ mem' = [mem EXCEPT ![op[a].table][op[a].start + idx[a]] = op[a].words[idx[a] + 1]]
  /\ idx' = [idx EXCEPT ![a] = @ + 1]
  /\ UNCHANGED <<writer, readers, committed, pc, op, result, connVars, lifeVars>>

(* Mutant: a writer does not release the mutex. *)
UnlockForgotten(a) ==
  /\ pc[a] = "in" /\ idx[a] = op[a].qty
  /\ readers' = readers \ {a}
  /\ result' = [result EXCEPT ![a].code = "ok"]
  /\ pc' = [pc EXCEPT ![a] = "done"]
  /\ UNCHANGED <<mem, writer, committed, op, idx, connVars, lifeVars>>

Unlock(a) ==
  /\ pc[a] = "in" /\ idx[a] = op[a].qty
  /\ readers' = readers \ {a}
  /\ IF writer = a THEN writer' = Nobody /\ committed' = mem
                  ELSE UNCHANGED <<writer, committed>>
  /\ result' = [result EXCEPT ![a].code = "ok"]
  /\ pc' = [pc EXCEPT ![a] = "done"]
  /\ UNCHANGED <<mem, op, idx, connVars, lifeVars>>

Acquire(a) == RLock(a) \/ Lock(a)

Execute(a) == Check(a) \/ Locked(a) \/ ReadEntry(a) \/ WriteEntry(a) \/ Unlock(a)

----------------------------------------------------------------------------
(* Close *)

CloseQuit ==
  /\ closer = "open"
  /\ closer' = "quit"
  /\ UNCHANGED <<acceptor, wg, tableVars, actorVars, connVars>>

(* The connections nobody has accepted are reset. *)
CloseListener ==
  /\ closer = "quit"
  /\ closer' = "waiting"
  /\ conn' = [c \in Clients |-> IF conn[c] = "backlog" THEN "none" ELSE conn[c]]
  /\ peer' = [c \in Clients |-> peer[c] /\ conn[c] # "backlog"]
  /\ inbox' = [c \in Clients |-> IF conn[c] = "backlog" THEN NoRequest ELSE inbox[c]]
  /\ UNCHANGED <<acceptor, wg, tableVars, actorVars>>

(* s.wg.Wait() *)
Wait ==
  /\ closer = "waiting" /\ wg = 0
  /\ closer' = "returned"
  /\ UNCHANGED <<acceptor, wg, tableVars, actorVars, connVars>>

----------------------------------------------------------------------------

AcceptLoop == (\E c \in Clients : Accept(c) \/ Spawn(c)) \/ AcceptFails

Serve(c) == SkipFrame(c) \/ ReadFrame(c) \/ Reply(c) \/ ReplyFails(c) \/ ReadFails(c)

Step(a) == Execute(a) \/ (IF a \in Clients THEN Serve(a) ELSE Return(a))

Next ==
  \/ Listen \/ AcceptLoop
  \/ \E c \in Clients : Dial(c) \/ HangUp(c) \/ \E r \in Requests : Send(c, r)
  \/ \E l \in Locals, r \in LocalCalls : Call(l, r)
  \/ \E a \in Actors : Acquire(a) \/ Step(a)
  \/ CloseQuit \/ CloseListener \/ Wait

SafeSpec == Init /\ [][Next]_serverVars

(* Every goroutine that can run does.  A waiter gets the mutex when it is  *)
(* free again and again: the mutex lets the waiting readers in when a      *)
(* writer leaves and hands over to a writer that has waited long.  Nothing *)
(* says that a client sends, hangs up, or that anyone calls Close.         *)
Fairness ==
  /\ WF_serverVars(AcceptLoop)
  /\ \A a \in Actors : SF_serverVars(Acquire(a)) /\ WF_serverVars(Step(a))
  /\ WF_serverVars(CloseListener) /\ WF_serverVars(Wait)

Spec == SafeSpec /\ Fairness

----------------------------------------------------------------------------
(* Properties *)

(* Whoever is at the entries holds the mutex, and a writer is alone there. *)
MutualExclusion ==
  /\ readers = {a \in Actors : pc[a] = "in" /\ op[a].fn = "read"}
  /\ \A a \in Actors : (pc[a] = "pending" \/ (pc[a] = "in" /\ op[a].fn = "write")) <=> writer = a
  /\ \A a, b \in Actors : pc[a] = "in" /\ op[a].fn = "write" /\ pc[b] = "in" => a = b

(* Every request, of a client or of a setter, is carried out at one moment *)
(* between its arrival and its answer, whole or not at all.                *)
Answer == [a \in Actors |-> IF pc[a] = "done" THEN result[a] ELSE None]
Atomic == INSTANCE Registers WITH
            Requests <- Requests \cup LocalCalls, table <- committed,
            Contents <- [t \in Tables |-> [x \in 0..Size - 1 |-> 0]],
            request <- op, answer <- Answer
ImplementsRegisters == Atomic!Spec

(* When Close has returned no goroutine of the server is left: none is     *)
(* about to start a connection, and no client can change a table any more, *)
(* though connections were accepted while Close was at work.               *)
QuietAfterClose ==
  closer = "returned" =>
    /\ acceptor # "accepting"
    /\ \A c \in Clients : conn[c] = "none" /\ pc[c] = "idle"

(* Every request is answered, or its connection fails, and every setter    *)
(* returns, also during Close: nobody is kept from the mutex for good, not *)
(* even behind a writer that waits behind a reader.                        *)
RequestsEnd ==
  /\ \A a \in Actors : pc[a] # "idle" ~> pc[a] = "idle"
  /\ \A c \in Clients : inbox[c] # NoRequest ~> inbox[c] = NoRequest

(* Close returns if the clients hang up: sooner or later it does or some   *)
(* client keeps its end open.                                              *)
CloseReturnsWithoutClients ==
  closer = "waiting" ~> (closer = "returned" \/ \E c \in Clients : peer[c])

============================================================================
