------------------------------ MODULE RtuLine ------------------------------
(***************************************************************************)
(* cmd/mocktty/main.go, handleStream and below: Modbus RTU frames on byte  *)
(* streams, a serial line or TCP connections.  Each stream has a goroutine *)
(* that cuts the bytes into frames by the function code and the byte count *)
(* alone, drops a frame with a wrong checksum or for another station, and  *)
(* carries out the others on one store under an RWMutex.  A ticker adds    *)
(* one to a register of the same store.                                    *)
(*                                                                         *)
(* A byte is its value and, for the two bytes of a checksum, the bytes it  *)
(* is the checksum of: a checksum is right for these bytes and no others.  *)
(* A short or a spurious byte shifts all the frames after it.              *)
(***************************************************************************)
EXTENDS Naturals, Sequences, SequencesExt

CONSTANTS
  Lines,         \* the streams of an endpoint
  Pieces,        \* what the other end of each writes: bytes, and what they are
  MaxPieces,     \* how many pieces it writes (bound)
  Station,       \* SlaveID; 0 answers for every station
  Size,          \* entries of a table (65536)
  WordMod,       \* values of a register (65536)
  ReadLimit,     \* entries of one read, by table (125 and 2000)
  WriteLimit,    \* entries of one write, by table (123 and 1968)
  Seed,          \* the demo values
  Counter,       \* the register the ticker counts in (100)
  Updater, Nobody

Tables == {"coils", "discretes", "holding", "input"}
Bits == {"coils", "discretes"}

ASSUME LineAssumption ==
  /\ Updater \notin Lines /\ Nobody \notin Lines \cup {Updater}
  /\ Size \in Nat \ {0} /\ WordMod \in Nat \ {0} /\ Counter \in 0..Size - 1
  /\ MaxPieces \in [Lines -> Nat]
  /\ Seed \in [Tables -> [0..Size - 1 -> 0..WordMod - 1]]
  /\ ReadLimit \in [Tables -> Nat \ {0}] /\ WriteLimit \in [Tables -> Nat \ {0}]

VARIABLES
  mem,        \* the store
  writer,     \* who holds its mutex for writing or waits inside Lock for the readers
  readers,    \* who holds it for reading
  wire,       \* the bytes of each line that nobody has read
  rd,         \* its goroutine: where it is, the bytes of the frame, the request, what is done of it
  upd,        \* the ticker's goroutine: where it is, the value it loaded
  put,        \* pieces written to each line
  committed,  \* history: the store as the last writer left it
  due,        \* history: the frames written and not answered, nor overtaken by an answer
  clean       \* history: the lines that carried only whole frames

storeVars == <<mem, writer, readers, committed>>
inputVars == <<wire, put, clean>>
lineVars == <<storeVars, inputVars, rd, upd, due>>

NoRequest == [fn |-> "none"]
Idle == [at |-> "none", frame |-> <<>>, op |-> NoRequest, idx |-> 0, data |-> <<>>]
Fresh == [Idle EXCEPT !.at = "read"]

LineInit ==
  /\ mem = Seed /\ committed = Seed
  /\ writer = Nobody /\ readers = {}
  /\ wire = [l \in Lines |-> <<>>]
  /\ rd = [l \in Lines |-> Idle]
  /\ upd = [at |-> "none", v |-> 0]
  /\ put = [l \in Lines |-> 0]
  /\ due = [l \in Lines |-> <<>>]
  /\ clean = Lines

At(l, stage) == rd[l].at = stage
Goto(l, stage) == rd' = [rd EXCEPT ![l].at = stage]

----------------------------------------------------------------------------
(* Bytes and frames *)

Short == 1..6
Long == {15, 16}

Byte(v) == [v |-> v, of |-> <<>>]
Values(w) == [k \in 1..Len(w) |-> w[k].v]
Body(w) == SubSeq(Values(w), 1, Len(w) - 2)

(* How long the frame that begins with the bytes w is, as far as they tell: *)
(* ReadFull is called for the bytes in between.                             *)
Length(w) ==
  IF Len(w) < 2 THEN 2
  ELSE IF w[2].v \in Short THEN 8
  ELSE IF Len(w) < 7 THEN 7
  ELSE 9 + w[7].v

CrcOk(w) == w[Len(w) - 1].of = Body(w) /\ w[Len(w)].of = Body(w)

ForMe(w) == Station = 0 \/ w[1].v = Station

IsFrame(w) ==
  Len(w) = Length(w) /\ w[2].v \in Short \cup Long /\ CrcOk(w) /\ ForMe(w)

(* The bytes of a line after each of the pieces qs. *)
Sent(qs) ==
  LET sent[n \in 0..Len(qs)] == IF n = 0 THEN <<>> ELSE sent[n - 1] \o qs[n].bytes
  IN  sent

(* A piece that asks is a frame for this station, and a whole piece has    *)
(* the length that its function code and byte count announce.  A checksum  *)
(* does its work: whatever pieces a line carries, no other stretch of its  *)
(* bytes is, by chance, a frame.                                           *)
ASSUME PiecesAssumption ==
  \A l \in Lines :
    /\ \A p \in Pieces[l] :
         /\ p.bytes \in Seq([v : 0..255, of : Seq(0..255)])
         /\ p.whole => Len(p.bytes) = Length(p.bytes)
         /\ p.asks => p.whole /\ IsFrame(p.bytes)
    /\ \A n \in 0..MaxPieces[l] : \A qs \in [1..n -> Pieces[l]] :
         LET line == Sent(qs) IN
         \A a, b \in 0..Len(line[n]) :
           IsFrame(SubSeq(line[n], a + 1, b)) =>
             \E j \in 1..n : qs[j].asks /\ a = Len(line[j - 1]) /\ b = Len(line[j])

Word(b, k) == b[k] * 256 + b[k + 1]

TableOf(fn) ==
  CASE fn \in {1, 5, 15} -> "coils"
    [] fn = 2 -> "discretes"
    [] fn \in {3, 6, 16} -> "holding"
    [] fn = 4 -> "input"

(* What the body of a frame asks for.  It is sound unless the value of a   *)
(* coil or the byte count of a write of registers is wrong.                *)
Request(b) ==
  LET fn == b[2]
      value == Word(b, 5)
      qty == IF fn \in {5, 6} THEN 1 ELSE value
  IN  [fn |-> IF fn \in 1..4 THEN "read" ELSE "write", table |-> TableOf(fn),
       start |-> Word(b, 3), qty |-> qty,
       words |-> CASE fn \in 1..4 -> <<>>
                   [] fn = 5 -> <<IF value = 0 THEN 0 ELSE 1>>
                   [] fn = 6 -> <<value>>
                   [] fn = 15 -> [k \in 1..qty |->
                                    (b[8 + (k - 1) \div 8] \div 2^((k - 1) % 8)) % 2]
                   [] fn = 16 -> [k \in 1..b[7] \div 2 |-> Word(b, 6 + 2 * k)],
       sound |-> CASE fn = 5 -> value \in {0, 65280}
                   [] fn = 16 -> b[7] = 2 * qty
                   [] OTHER -> TRUE]

Op(l) == rd[l].op
Limit(fn, t) == IF fn = "read" THEN ReadLimit[t] ELSE WriteLimit[t]

(* The checks of the reads and the writes; all have the same exception. *)
Permitted(r) ==
  r.sound /\ r.qty \in 1..Limit(r.fn, r.table) /\ r.start + r.qty <= Size

(* A write of coils brings a bit for each of them.  This leaves out the     *)
(* request that announces fewer bytes than its quantity needs: carrying it *)
(* out reads past the payload and ends the process in a panic.             *)
ASSUME CoilsAssumption ==
  \A l \in Lines : \A p \in Pieces[l] :
    p.asks /\ p.bytes[2].v = 15 =>
      LET r == Request(Body(p.bytes)) IN Permitted(r) => r.qty <= 8 * p.bytes[7].v

----------------------------------------------------------------------------
(* The other end *)

Transmit(l, p) ==
  /\ put[l] < MaxPieces[l]
  /\ put' = [put EXCEPT ![l] = @ + 1]
  /\ wire' = [wire EXCEPT ![l] = @ \o p.bytes]
  /\ due' = IF p.asks THEN [due EXCEPT ![l] = Append(@, Body(p.bytes))] ELSE due
  /\ clean' = IF p.whole THEN clean ELSE clean \ {l}
  /\ UNCHANGED <<storeVars, rd, upd>>

----------------------------------------------------------------------------
(* handleStream: reading a frame *)

(* The bytes the next io.ReadFull waits for. *)
Missing(l) == Length(rd[l].frame) - Len(rd[l].frame)

(* Mutant: the checksum is not looked at. *)
FollowAnyChecksum(w) ==
  IF w[2].v \notin Short \cup Long THEN [Idle EXCEPT !.at = "ended"]
  ELSE IF Len(w) < Length(w) THEN [Fresh EXCEPT !.frame = w]
  ELSE IF ForMe(w) THEN [Idle EXCEPT !.at = "call", !.frame = Body(w), !.op = Request(Body(w))]
  ELSE Fresh

(* An unknown function ends the goroutine; a frame whose checksum or       *)
(* station is not right is dropped.                                        *)
Follow(w) ==
  IF w[2].v \notin Short \cup Long THEN [Idle EXCEPT !.at = "ended"]
  ELSE IF Len(w) < Length(w) THEN [Fresh EXCEPT !.frame = w]
  ELSE IF CrcOk(w) /\ ForMe(w)
    THEN [Idle EXCEPT !.at = "call", !.frame = Body(w), !.op = Request(Body(w))]
  ELSE Fresh

ReadFull(l) ==
  /\ At(l, "read") /\ Len(wire[l]) >= Missing(l)
  /\ rd' = [rd EXCEPT ![l] = Follow(@.frame \o SubSeq(wire[l], 1, Missing(l)))]
  /\ wire' = [wire EXCEPT ![l] = SubSeq(@, Missing(l) + 1, Len(@))]
  /\ UNCHANGED <<storeVars, put, clean, upd, due>>

(* A read error ends the goroutine, whatever it has read. *)
ReadFails(l) ==
  /\ At(l, "read") /\ Len(wire[l]) < Missing(l)
  /\ rd' = [rd EXCEPT ![l] = [Idle EXCEPT !.at = "ended"]]
  /\ UNCHANGED <<storeVars, inputVars, upd, due>>

----------------------------------------------------------------------------
(* handleRTUPDU: every request takes the mutex for reading; a write gives  *)
(* it back, takes it for writing and, at the end, for reading once more.   *)

(* RWMutex: a reader enters unless a writer holds the mutex or waits for   *)
(* it; a writer first shuts out the others, then waits for the readers.    *)
RLock(l) ==
  /\ writer = Nobody
  /\ \/ At(l, "call") /\ Goto(l, "held")
     \/ At(l, "again") /\ Goto(l, "leave")
  /\ readers' = readers \cup {l}
  /\ UNCHANGED <<mem, writer, committed, inputVars, upd, due>>

ReadEntry(l) ==
  /\ At(l, "held") /\ Op(l).fn = "read" /\ Permitted(Op(l)) /\ rd[l].idx < Op(l).qty
  /\ rd' = [rd EXCEPT ![l].idx = @ + 1,
              ![l].data = Append(@, mem[Op(l).table][Op(l).start + rd[l].idx])]
  /\ UNCHANGED <<storeVars, inputVars, upd, due>>

(* A read answers, and the deferred RUnlock gives the mutex back. *)
EndRead(l) ==
  /\ At(l, "held") /\ Op(l).fn = "read"
  /\ Permitted(Op(l)) => rd[l].idx = Op(l).qty
  /\ readers' = readers \ {l}
  /\ Goto(l, "reply")
  /\ UNCHANGED <<mem, writer, committed, inputVars, upd, due>>

(* Mutant: a write keeps the mutex it has for reading. *)
GiveUpReadLockForgotten(l) ==
  /\ At(l, "held") /\ Op(l).fn = "write"
  /\ Goto(l, "want")
  /\ UNCHANGED <<storeVars, inputVars, upd, due>>

GiveUpReadLock(l) ==
  /\ At(l, "held") /\ Op(l).fn = "write"
  /\ readers' = readers \ {l}
  /\ Goto(l, "want")
  /\ UNCHANGED <<mem, writer, committed, inputVars, upd, due>>

(* Mutant: a write works under the mutex it has for reading. *)
LockNothing(l) ==
  /\ At(l, "want") /\ Goto(l, "write")
  /\ UNCHANGED <<storeVars, inputVars, upd, due>>

Lock(l) ==
  /\ At(l, "want") /\ writer = Nobody
  /\ writer' = l
  /\ Goto(l, "pending")
  /\ UNCHANGED <<mem, readers, committed, inputVars, upd, due>>

Locked(l) ==
  /\ At(l, "pending") /\ readers = {}
  /\ Goto(l, "write")
  /\ UNCHANGED <<storeVars, inputVars, upd, due>>

WriteEntry(l) ==
  /\ At(l, "write") /\ Permitted(Op(l)) /\ rd[l].idx < Op(l).qty
  /\ mem' = [mem EXCEPT ![Op(l).table][Op(l).start + rd[l].idx] = Op(l).words[rd[l].idx + 1]]
  /\ rd' = [rd EXCEPT ![l].idx = @ + 1]
  /\ UNCHANGED <<writer, readers, committed, inputVars, upd, due>>

Unlock(l) ==
  /\ At(l, "write")
  /\ Permitted(Op(l)) => rd[l].idx = Op(l).qty
  /\ writer' = Nobody
  /\ committed' = mem
  /\ Goto(l, "again")
  /\ UNCHANGED <<mem, readers, inputVars, upd, due>>

RUnlock(l) ==
  /\ At(l, "leave")
  /\ readers' = readers \ {l}
  /\ Goto(l, "reply")
  /\ UNCHANGED <<mem, writer, committed, inputVars, upd, due>>

(* The frames before the answered one are overtaken. *)
Overtake(frames, b) ==
  LET k == SelectInSeq(frames, LAMBDA f : f = b) IN SubSeq(frames, k + 1, Len(frames))

(* A write error is ignored. *)
Reply(l) ==
  /\ At(l, "reply")
  /\ rd' = [rd EXCEPT ![l] = Fresh]
  /\ due' = [due EXCEPT ![l] = Overtake(@, rd[l].frame)]
  /\ UNCHANGED <<storeVars, inputVars, upd>>

Execute(l) ==
  \/ ReadEntry(l) \/ EndRead(l) \/ GiveUpReadLock(l) \/ Locked(l)
  \/ WriteEntry(l) \/ Unlock(l) \/ RUnlock(l) \/ Reply(l)

Acquire(l) == RLock(l) \/ Lock(l)

----------------------------------------------------------------------------
(* startDynamic *)

(* Mutant: the ticker does not take the mutex. *)
TickLocksNothing ==
  /\ upd.at = "select"
  /\ upd' = [upd EXCEPT !.at = "pending"]
  /\ UNCHANGED <<storeVars, inputVars, rd, due>>

(* A tick, and the first half of Lock. *)
Tick ==
  /\ upd.at = "select" /\ writer = Nobody
  /\ writer' = Updater
  /\ upd' = [upd EXCEPT !.at = "pending"]
  /\ UNCHANGED <<mem, readers, committed, inputVars, rd, due>>

(* The register is loaded, and stored with one added, in sixteen bits. *)
Load ==
  /\ upd.at = "pending" /\ readers = {}
  /\ upd' = [at |-> "loaded", v |-> mem["holding"][Counter]]
  /\ UNCHANGED <<storeVars, inputVars, rd, due>>

Store ==
  /\ upd.at = "loaded"
  /\ mem' = [mem EXCEPT !["holding"][Counter] = (upd.v + 1) % WordMod]
  /\ upd' = [upd EXCEPT !.at = "stored"]
  /\ UNCHANGED <<writer, readers, committed, inputVars, rd, due>>

TickUnlocks ==
  /\ upd.at = "stored"
  /\ writer' = Nobody
  /\ committed' = mem
  /\ upd' = [upd EXCEPT !.at = "unlocked"]
  /\ UNCHANGED <<mem, readers, inputVars, rd, due>>

TickOver ==
  /\ upd.at = "unlocked"
  /\ upd' = [at |-> "select", v |-> 0]
  /\ UNCHANGED <<storeVars, inputVars, rd, due>>

Count == Load \/ Store \/ TickUnlocks \/ TickOver

----------------------------------------------------------------------------
(* Properties *)

Serving(l) == rd[l].at \in {"call", "held", "want", "pending", "write", "again", "leave", "reply"}

(* Whatever noise, short frames and frames for other stations a line       *)
(* carries, a request is carried out only if it was written to this line   *)
(* for this station and nothing written after it was answered yet.  While  *)
(* a line carries whole frames only, none of those that ask is passed over.*)
AnswersFollowFrames ==
  \A l \in Lines :
    /\ Serving(l) => /\ rd[l].frame \in ToSet(due[l])
                     /\ l \in clean => rd[l].frame = Head(due[l])
    /\ l \in clean /\ rd[l] = Fresh /\ wire[l] = <<>> => due[l] = <<>>

(* The requests of the lines, and the ticks, are each carried out at one   *)
(* moment, whole or not at all.  The exception 2 stands for every refusal: *)
(* it does not tell the reasons apart.                                     *)
TickWrite(v) == [fn |-> "write", table |-> "holding", start |-> Counter, qty |-> 1,
                 words |-> <<v>>, sound |-> TRUE]
Requests ==
  { Request(Body(p.bytes)) : p \in { q \in UNION { Pieces[l] : l \in Lines } : q.asks } }
    \cup { TickWrite(v) : v \in 0..WordMod - 1 }
Unanswered == [code |-> "none", data |-> <<>>]

Reason(r) ==
  IF ~r.sound \/ r.qty \notin 1..Limit(r.fn, r.table) THEN "value" ELSE "address"

Answer(l) ==
  IF At(l, "reply") \/ (rd[l].at \in {"again", "leave"} /\ Op(l).fn = "write")
    THEN [code |-> IF Permitted(Op(l)) THEN "ok" ELSE Reason(Op(l)), data |-> rd[l].data]
    ELSE Unanswered

Goroutines == Lines \cup {Updater}

AskedBy == [a \in Goroutines |->
  IF a # Updater THEN Op(a)
  ELSE IF upd.at \in {"loaded", "stored", "unlocked"} THEN TickWrite((upd.v + 1) % WordMod)
  ELSE NoRequest]

ToldTo == [a \in Goroutines |->
  IF a # Updater THEN Answer(a)
  ELSE IF upd.at = "unlocked" THEN [code |-> "ok", data |-> <<>>]
  ELSE Unanswered]

Atomic == INSTANCE Registers WITH
  Actors <- Goroutines, Contents <- Seed,
  table <- committed, request <- AskedBy, answer <- ToldTo

LinesImplementRegisters == Atomic!Spec

(* No tick is lost, and no client's write is undone by one: the register   *)
(* still has the value the tick began with when its successor is stored.   *)
NoLostTick == upd.at = "loaded" => mem["holding"][Counter] = upd.v

============================================================================
