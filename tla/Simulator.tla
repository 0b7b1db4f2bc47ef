----------------------------- MODULE Simulator -----------------------------
(***************************************************************************)
(* cmd/server/main.go and cmd/client/main.go, one process of each.  The    *)
(* server replays the rows of a data file into its registers, one setter   *)
(* call per word, and serves them over TCP or, in RTU mode, on a serial    *)
(* port.  The client reads the registers of the same configuration in      *)
(* rounds and prints the values it decodes.                                *)
(*                                                                         *)
(* A setter and a request are single steps: that is what ModbusServer and  *)
(* RtuLine show of them.  A row's value is what scale and offset make of   *)
(* it, counted in halves so that rounding matters; a float32 is a number   *)
(* of two words.  The server answers in time or not at all, and a read     *)
(* can fail at any time.                                                   *)
(***************************************************************************)
EXTENDS Integers, Sequences

CONSTANTS
  Config,   \* the registers: table, data type, address
  Data,     \* the rows: a value for each register
  Size,     \* entries of a table (65536)
  Base,     \* values of a word (65536)
  NaN,      \* a field that says so
  Missing   \* no value: the file has no such column

Kinds == {"uint16", "int16", "float32", "bit"}
RegisterType == [table : {"holding", "input", "coil", "discrete"}, kind : Kinds, addr : 0..Size - 1]
N == Len(Config)

(* main refuses a file without rows.  A column is in every row, or in none. *)
ASSUME SimulatorAssumption ==
  /\ Config \in Seq(RegisterType)
  /\ Size \in Nat \ {0} /\ Base \in Nat /\ Base % 2 = 0 /\ Base > 0
  /\ Len(Data) \in Nat \ {0} /\ \A r \in 1..Len(Data) : Len(Data[r]) = N
  /\ \A r \in 1..Len(Data), i \in 1..N :
       /\ Data[r][i] \notin {NaN, Missing} =>
            Data[r][i] \in IF Config[i].kind = "float32" THEN 0..Base * Base - 1 ELSE Int
       /\ Data[r][i] = Missing => \A q \in 1..Len(Data) : Data[q][i] = Missing

VARIABLES
  mode,      \* of the server: "tcp" or "rtu"
  via,       \* the client's: "tcp" or "rtu"
  ctx,       \* the server has been told to stop
  main,      \* the server's main goroutine: "running", "closing", "exited"
  start,     \* its goroutine Start: where, row, register, word
  mem,       \* the registers it serves
  port,      \* the stream of its serial port: "closed", "open", "ended"
  cl,        \* the client: where it is, and in which register
  handle,    \* the client has an open handler
  printed    \* what the client printed in its last step

serverVars == <<mode, ctx, main, start, mem, port>>
clientVars == <<via, cl, handle, printed>>
simVars == <<serverVars, clientVars>>

Tables == {"holding", "input", "coil", "discrete"}
Nothing == [i |-> 0, v |-> 0]

Init ==
  /\ mode \in {"tcp", "rtu"} /\ via \in {"tcp", "rtu"}
  /\ ctx = FALSE /\ main = "running"
  /\ start = [at |-> "apply", row |-> 1, i |-> 1, k |-> 1]
  /\ mem = [t \in Tables |-> [a \in 0..Size - 1 |-> 0]]
  /\ port = "closed"
  /\ cl = [at |-> "opening", i |-> 1]
  /\ handle = FALSE /\ printed = Nothing

----------------------------------------------------------------------------
(* Words: what the server writes for a value *)

(* math.Round of x/2: halves away from zero. *)
Round(x) == IF x >= 0 THEN (x + 1) \div 2 ELSE -((1 - x) \div 2)

Scalar(n, least) == IF n \in least..least + Base - 1 THEN <<n % Base>> ELSE <<>>

(* No words: there is no value or it is refused, and the register stays as *)
(* it is.                                                                  *)
Words(reg, x) ==
  IF x = Missing THEN <<>>
  ELSE IF x = NaN THEN IF reg.kind = "bit" THEN <<0>> ELSE <<>>
  ELSE CASE reg.kind = "bit" -> <<IF x > 0 THEN 1 ELSE 0>>
         [] reg.kind = "uint16" -> Scalar(Round(x), 0)
         [] reg.kind = "int16" -> Scalar(Round(x), -(Base \div 2))
         [] reg.kind = "float32" ->
              IF reg.addr = Size - 1 THEN <<>> ELSE <<x \div Base, x % Base>>

(* What the client makes of the words of an answer. *)

(* Mutant: a signed word is read as an unsigned one. *)
DecodeUnsigned(reg, w) == IF reg.kind = "float32" THEN w[1] * Base + w[2] ELSE w[1]

Decode(reg, w) ==
  CASE reg.kind \in {"uint16", "bit"} -> w[1]
    [] reg.kind = "int16" -> IF w[1] >= Base \div 2 THEN w[1] - Base ELSE w[1]
    [] reg.kind = "float32" -> w[1] * Base + w[2]

Width(reg) == IF reg.kind = "float32" THEN 2 ELSE 1

----------------------------------------------------------------------------
(* The server: Start *)

(* applyRowLocked: each word is one call of a setter. *)
WriteWord ==
  /\ start.at = "apply" /\ start.i <= N
  /\ LET reg == Config[start.i]
         w == Words(reg, Data[start.row][start.i])
     IN  /\ mem' = IF w = <<>> THEN mem
                   ELSE [mem EXCEPT ![reg.table][reg.addr + start.k - 1] = w[start.k]]
         /\ start' = IF start.k < Len(w) THEN [start EXCEPT !.k = @ + 1]
                     ELSE [start EXCEPT !.i = @ + 1, !.k = 1]
  /\ UNCHANGED <<mode, ctx, main, port, clientVars>>

RowApplied ==
  /\ start.at = "apply" /\ start.i > N
  /\ start' = [start EXCEPT !.at = "select", !.i = 1]
  /\ UNCHANGED <<mode, ctx, main, mem, port, clientVars>>

(* nextRow, at a tick *)
NextRow ==
  /\ start.at = "select"
  /\ start' = [start EXCEPT !.at = "apply", !.row = (@ % Len(Data)) + 1]
  /\ UNCHANGED <<mode, ctx, main, mem, port, clientVars>>

StartReturns ==
  /\ start.at = "select" /\ ctx
  /\ start' = [start EXCEPT !.at = "ended"]
  /\ UNCHANGED <<mode, ctx, main, mem, port, clientVars>>

----------------------------------------------------------------------------
(* The server: the serial port and the end *)

(* A port that cannot be opened is logged, and the server goes on. *)
OpenPort ==
  /\ mode = "rtu" /\ port = "closed"
  /\ port' \in {"open", "ended"}
  /\ UNCHANGED <<mode, ctx, main, start, mem, clientVars>>

(* rtuStream ends for good when the port is quiet for ten seconds, or      *)
(* carries what it cannot read.                                            *)
StreamEnds ==
  /\ port = "open"
  /\ port' = "ended"
  /\ UNCHANGED <<mode, ctx, main, start, mem, clientVars>>

Cancel ==
  /\ ~ctx
  /\ ctx' = TRUE
  /\ UNCHANGED <<mode, main, start, mem, port, clientVars>>

(* run returns: simulator.Close begins. *)
BeginClose ==
  /\ main = "running" /\ ctx
  /\ main' = "closing"
  /\ UNCHANGED <<mode, ctx, start, mem, port, clientVars>>

(* Over TCP the client's connection must have ended (Server.Close waits);  *)
(* in RTU mode nothing is waited for.                                      *)
Exit ==
  /\ main = "closing"
  /\ mode = "tcp" /\ via = "tcp" => ~handle
  /\ main' = "exited"
  /\ UNCHANGED <<mode, ctx, start, mem, port, clientVars>>

(* What answers the client: the registers, or none.  In RTU mode the TCP   *)
(* server that newSimulator started goes on listening, on registers that   *)
(* nobody writes.                                                          *)
Answering == main # "exited" /\ (via = "tcp" \/ port = "open")
Served(t, a) == IF via = "tcp" /\ mode = "rtu" THEN 0 ELSE mem[t][a]

----------------------------------------------------------------------------
(* The client *)

OpenClient(ok) ==
  IF ok THEN via = "tcp" => main # "exited" /\ (mode = "tcp" => main = "running")
        ELSE TRUE

Connect ==
  /\ cl.at = "opening"
  /\ \/ OpenClient(TRUE) /\ handle' = TRUE /\ cl' = [at |-> "read", i |-> 1]
     \/ OpenClient(FALSE) /\ handle' = FALSE /\ cl' = [cl EXCEPT !.at = "fatal"]
  /\ printed' = Nothing
  /\ UNCHANGED <<via, serverVars>>

NextRegister == cl' = [at |-> "read", i |-> cl.i + 1]

ReadValue ==
  /\ cl.at = "read" /\ cl.i <= N /\ handle /\ Answering
  /\ LET reg == Config[cl.i] IN
     /\ reg.addr + Width(reg) <= Size
     /\ printed' = [i |-> cl.i,
          v |-> Decode(reg, [k \in 1..Width(reg) |-> Served(reg.table, reg.addr + k - 1)])]
  /\ NextRegister
  /\ UNCHANGED <<via, handle, serverVars>>

(* An error is logged; that of a broken descriptor makes the client open   *)
(* its handler again, if it was reading holding registers.                 *)
ReadFails ==
  /\ cl.at = "read" /\ cl.i <= N /\ handle
  /\ \/ NextRegister
     \/ Config[cl.i].table = "holding" /\ cl' = [cl EXCEPT !.at = "reopen"]
  /\ printed' = Nothing
  /\ UNCHANGED <<via, handle, serverVars>>

CloseClient ==
  /\ cl.at = "reopen" /\ handle
  /\ handle' = FALSE /\ printed' = Nothing
  /\ UNCHANGED <<via, cl, serverVars>>

(* Mutant: the client tries until its handler opens. *)
ReopenUntilOpen ==
  /\ cl.at = "reopen" /\ ~handle
  /\ \/ OpenClient(TRUE) /\ handle' = TRUE /\ cl' = [cl EXCEPT !.at = "retry"]
     \/ OpenClient(FALSE) /\ UNCHANGED <<handle, cl>>
  /\ printed' = Nothing
  /\ UNCHANGED <<via, serverVars>>

(* When it does not open, the client is left without one. *)
Reopen ==
  /\ cl.at = "reopen" /\ ~handle
  /\ \/ OpenClient(TRUE) /\ handle' = TRUE /\ cl' = [cl EXCEPT !.at = "retry"]
     \/ OpenClient(FALSE) /\ NextRegister /\ UNCHANGED handle
  /\ printed' = Nothing
  /\ UNCHANGED <<via, serverVars>>

(* The register is read once more; the value, or the error, is not used:   *)
(* break leaves the switch.                                                *)
Retry ==
  /\ cl.at = "retry"
  /\ NextRegister /\ printed' = Nothing
  /\ UNCHANGED <<via, handle, serverVars>>

(* A read without a handler is a nil dereference. *)
Panic ==
  /\ cl.at = "read" /\ cl.i <= N /\ ~handle
  /\ cl' = [cl EXCEPT !.at = "panicked"] /\ printed' = Nothing
  /\ UNCHANGED <<via, handle, serverVars>>

(* The round is over; the next begins at a tick. *)
NextRound ==
  /\ cl.at = "read" /\ cl.i > N
  /\ cl' = [at |-> "read", i |-> 1] /\ printed' = Nothing
  /\ UNCHANGED <<via, handle, serverVars>>

Server == WriteWord \/ RowApplied \/ OpenPort \/ BeginClose \/ Exit
Client ==
  \/ Connect \/ ReadValue \/ ReadFails \/ CloseClient \/ Reopen \/ Retry \/ Panic \/ NextRound

Next ==
  \/ main # "exited" /\ (Server \/ NextRow \/ StartReturns \/ StreamEnds \/ Cancel)
  \/ Client

SafeSpec == Init /\ [][Next]_simVars

(* The client's reads and pauses end (its requests time out after five     *)
(* seconds); nothing says that they succeed or that the server runs.       *)
Spec == SafeSpec /\ WF_simVars(Client)

----------------------------------------------------------------------------
(* Properties *)

(* The row whose value for the i-th register has its k-th word written     *)
(* last: the row being applied, if the writer has passed the word, or the  *)
(* one before, 0 before the first.                                         *)
Rows == 1..Len(Data)
Passed(i, k) == start.at # "apply" \/ i < start.i \/ (i = start.i /\ k < start.k)
Usable(i) == { r \in Rows : Words(Config[i], Data[r][i]) # <<>> }

(* The rows a word can show when r is the last one written: the newest     *)
(* usable one up to r; or, with none so far, that of the pass before, or   *)
(* none.                                                                   *)
Newest(Q) == { r \in Q : \A q \in Q : q <= r }
Showing(i, r) ==
  LET past == { q \in Usable(i) : q <= r }
  IN  IF past # {} THEN Newest(past) ELSE {0} \cup Newest(Usable(i))
Shown(i, k) ==
  IF Passed(i, k) THEN Showing(i, start.row)
  ELSE IF start.row > 1 THEN Showing(i, start.row - 1)
  ELSE {0} \cup Newest(Usable(i))

ValueOf(i, r) == IF r = 0 THEN 0 ELSE Data[r][i]

(* Every value the client prints is that of a row, within the half unit    *)
(* that rounding costs and with its sign: the row just written or, where   *)
(* the writer has not come yet, the one before; where neither had a usable *)
(* value, an older one.  A float has the words of two rows only when it is *)
(* read between the two calls of the setter.                               *)
Fits(i, v) ==
  LET kind == Config[i].kind IN
  IF via = "tcp" /\ mode = "rtu" THEN v = 0
  ELSE IF kind = "float32"
    THEN \E r \in Shown(i, 1), s \in Shown(i, 2) :
           /\ v = (ValueOf(i, r) \div Base) * Base + (ValueOf(i, s) % Base)
           /\ r # s => start.i = i /\ start.k = 2
  ELSE \E r \in Shown(i, 1) :
         IF kind = "bit" THEN (v = 1) <=> (r # 0 /\ Data[r][i] # NaN /\ Data[r][i] > 0)
         ELSE 2 * v - ValueOf(i, r) \in -1..1

PrintedIsARow ==
  [][printed' # printed /\ printed' # Nothing => Fits(printed'.i, printed'.v)]_simVars

(* The client reads every register again and again, whatever errors the    *)
(* registers before it have and whether or not the server is there, unless *)
(* it ends: at its start, or by a panic after a reopening that failed.     *)
RoundsGoOn ==
  \A i \in 1..N : []<>((cl.at = "read" /\ cl.i = i) \/ cl.at \in {"fatal", "panicked"})

============================================================================
