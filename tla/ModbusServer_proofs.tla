------------------------ MODULE ModbusServer_proofs ------------------------
(***************************************************************************)
(* Theorems about ModbusServer, for every set of clients and setters,      *)
(* every set of requests and every size: the mutex keeps writers apart     *)
(* from everybody, a Close that has returned leaves nobody behind, and the *)
(* server implements Registers.  A request that works on its entries one   *)
(* after the other, among others that do the same, looks as if it were     *)
(* carried out at one moment: a read and a write when they unlock, a       *)
(* refusal when it is checked.                                             *)
(***************************************************************************)
EXTENDS ModbusServer, TLAPS, FiniteSetTheorems, SequenceTheorems

LifeTypeOK ==
  /\ writer \in Actors \cup {Nobody} /\ readers \subseteq Actors
  /\ pc \in [Actors -> {"idle", "check", "want", "pending", "in", "done"}]
  /\ DOMAIN op = Actors
  /\ conn \in [Clients -> {"none", "backlog", "accepted", "served"}]
  /\ acceptor \in {"new", "accepting", "exited"}
  /\ closer \in {"open", "quit", "waiting", "returned"}

(* Only reads and writes come as far as the mutex, and only writes wait    *)
(* inside Lock: the checks come first.                                     *)
CheckedFirst ==
  \A a \in Actors :
    /\ pc[a] \in {"want", "pending", "in"} => op[a].fn \in {"read", "write"}
    /\ pc[a] = "pending" => op[a].fn = "write"

LockInv == LifeTypeOK /\ CheckedFirst /\ MutualExclusion

(* What the wait group counts, and why nothing is added to it once Close   *)
(* has seen zero: a connection is accepted only by the accepting goroutine *)
(* and read only by its own.                                               *)
Served == {c \in Clients : conn[c] = "served"}
Counted == wg = Cardinality(Served) + (IF acceptor = "accepting" THEN 1 ELSE 0)

Accounted ==
  /\ \A c \in Clients : conn[c] = "accepted" => acceptor = "accepting"
  /\ \A c \in Clients : pc[c] # "idle" => conn[c] = "served"
  /\ closer \in {"waiting", "returned"} => \A c \in Clients : conn[c] # "backlog"
  /\ closer = "returned" => wg = 0

LifeInv == LifeTypeOK /\ Counted /\ Accounted

----------------------------------------------------------------------------
(* The mutex *)

(* At first nobody is at the entries. *)
LEMMA LockInit == Init => LockInv
BY ServerAssumption DEF Init, LockInv, LifeTypeOK, CheckedFirst, MutualExclusion, Actors

(* A step that is no actor's request leaves the mutex and its users alone. *)
LEMMA LockElsewhere ==
  ASSUME LockInv, LifeTypeOK',
         UNCHANGED <<writer, readers, pc, op>>
  PROVE  LockInv'
BY DEF LockInv, CheckedFirst, MutualExclusion

(* One actor moves: it enters no entry and holds nothing, before or after. *)
LEMMA LockOutside ==
  ASSUME LockInv, LifeTypeOK', NEW a \in Actors,
         UNCHANGED <<writer, readers>>,
         pc[a] \notin {"pending", "in"}, pc'[a] \notin {"pending", "in"},
         \A b \in Actors \ {a} : pc'[b] = pc[b] /\ op'[b] = op[b],
         pc'[a] = "want" => op'[a].fn \in {"read", "write"}
  PROVE  LockInv'
BY DEF LockInv, LifeTypeOK, CheckedFirst, MutualExclusion

(* What every step of an actor's request keeps. *)
LEMMA LockStep ==
  ASSUME LockInv, NEW a \in Actors, Acquire(a) \/ Execute(a)
  PROVE  LockInv'
<1> USE DEF LockInv
<1>1. CASE RLock(a)
  <2>1. LifeTypeOK'
    BY <1>1 DEF RLock, LifeTypeOK, connVars, lifeVars
  <2>2. CheckedFirst'
    BY <1>1 DEF RLock, LifeTypeOK, CheckedFirst
  <2>3. MutualExclusion'
    BY <1>1, ServerAssumption DEF RLock, LifeTypeOK, MutualExclusion
  <2> QED BY <2>1, <2>2, <2>3
<1>2. CASE Lock(a)
  <2>1. LifeTypeOK'
    BY <1>2 DEF Lock, LifeTypeOK, connVars, lifeVars
  <2>2. CheckedFirst'
    BY <1>2 DEF Lock, LifeTypeOK, CheckedFirst
  <2>3. MutualExclusion'
    BY <1>2, ServerAssumption DEF Lock, LifeTypeOK, MutualExclusion
  <2> QED BY <2>1, <2>2, <2>3
<1>3. CASE Check(a)
  <2>1. LifeTypeOK'
    BY <1>3 DEF Check, LifeTypeOK, tableVars, connVars, lifeVars
  <2>2. pc'[a] = "want" => op'[a].fn \in {"read", "write"}
    BY <1>3 DEF Check, LifeTypeOK, Code
  <2>3. pc'[a] \in {"want", "done"} /\ \A b \in Actors \ {a} : pc'[b] = pc[b] /\ op'[b] = op[b]
    BY <1>3 DEF Check, LifeTypeOK
  <2> QED BY <1>3, <2>1, <2>2, <2>3, LockOutside DEF Check, tableVars
<1>4. CASE Locked(a)
  <2>1. LifeTypeOK'
    BY <1>4 DEF Locked, LifeTypeOK, tableVars, connVars, lifeVars
  <2>2. CheckedFirst'
    BY <1>4 DEF Locked, LifeTypeOK, CheckedFirst
  <2>3. MutualExclusion'
    BY <1>4 DEF Locked, LifeTypeOK, CheckedFirst, MutualExclusion, tableVars
  <2> QED BY <2>1, <2>2, <2>3
<1>5. CASE ReadEntry(a) \/ WriteEntry(a)
  <2>1. UNCHANGED <<writer, readers, pc, op, conn, acceptor, closer>>
    BY <1>5 DEF ReadEntry, WriteEntry, tableVars, connVars, lifeVars
  <2>2. LifeTypeOK'
    BY <2>1 DEF LifeTypeOK
  <2> QED BY <2>1, <2>2, LockElsewhere
<1>6. CASE Unlock(a)
  <2>1. LifeTypeOK'
    BY <1>6 DEF Unlock, LifeTypeOK, connVars, lifeVars
  <2>2. CheckedFirst'
    BY <1>6 DEF Unlock, LifeTypeOK, CheckedFirst
  <2>3. MutualExclusion'
    BY <1>6, ServerAssumption DEF Unlock, LifeTypeOK, CheckedFirst, MutualExclusion
  <2> QED BY <2>1, <2>2, <2>3
<1> QED BY <1>1, <1>2, <1>3, <1>4, <1>5, <1>6 DEF Acquire, Execute

(* The rest of the server: a request begins, or its answer has gone.       *)
LEMMA LockNext == LockInv /\ [Next]_serverVars => LockInv'
<1> SUFFICES ASSUME LockInv, [Next]_serverVars PROVE LockInv'
  OBVIOUS
<1>1. CASE UNCHANGED serverVars
  <2>1. LifeTypeOK'
    BY <1>1 DEF LockInv, LifeTypeOK, serverVars, tableVars, actorVars, connVars, lifeVars
  <2> QED BY <1>1, <2>1, LockElsewhere DEF serverVars, tableVars, actorVars
<1>2. CASE \/ Listen \/ AcceptLoop \/ CloseQuit \/ CloseListener \/ Wait
           \/ \E c \in Clients : Dial(c) \/ HangUp(c) \/ SkipFrame(c) \/ \E r \in Requests : Send(c, r)
  <2>1. UNCHANGED <<writer, readers, pc, op>>
    BY <1>2 DEF Listen, AcceptLoop, Accept, Spawn, AcceptFails, CloseQuit, CloseListener, Wait,
         Dial, HangUp, SkipFrame, Send, tableVars, actorVars
  <2>2. /\ conn' \in [Clients -> {"none", "backlog", "accepted", "served"}]
        /\ acceptor' \in {"new", "accepting", "exited"}
        /\ closer' \in {"open", "quit", "waiting", "returned"}
    BY <1>2 DEF LockInv, LifeTypeOK, Listen, AcceptLoop, Accept, Spawn, AcceptFails, CloseQuit,
         CloseListener, Wait, Dial, HangUp, SkipFrame, Send, connVars, lifeVars
  <2>3. LifeTypeOK'
    BY <2>1, <2>2 DEF LockInv, LifeTypeOK
  <2> QED BY <2>1, <2>3, LockElsewhere
<1>3. ASSUME NEW a \in Actors, Acquire(a) \/ Execute(a)
      PROVE  LockInv'
  BY <1>3, LockStep
<1>4. ASSUME NEW a \in Actors, NEW r, pc[a] = "idle", Start(a, r),
             UNCHANGED <<writer, readers, conn, acceptor, closer>>
      PROVE  LockInv'
  <2>1. LifeTypeOK'
    BY <1>4 DEF Start, LockInv, LifeTypeOK
  <2>2. pc'[a] = "check" /\ \A b \in Actors \ {a} : pc'[b] = pc[b] /\ op'[b] = op[b]
    BY <1>4 DEF Start, LockInv, LifeTypeOK
  <2> QED BY <1>4, <2>1, <2>2, LockOutside
<1>5. ASSUME NEW a \in Actors, pc[a] \in {"idle", "done"},
             Finish(a) \/ (UNCHANGED actorVars),
             conn' \in [Clients -> {"none", "backlog", "accepted", "served"}],
             UNCHANGED <<writer, readers, acceptor, closer>>
      PROVE  LockInv'
  <2>1. LifeTypeOK'
    BY <1>5 DEF Finish, actorVars, LockInv, LifeTypeOK
  <2>2. pc'[a] \in {"idle", "done"} /\ \A b \in Actors \ {a} : pc'[b] = pc[b] /\ op'[b] = op[b]
    BY <1>5 DEF Finish, actorVars, LockInv, LifeTypeOK
  <2> QED BY <1>5, <2>1, <2>2, LockOutside
<1>6. CASE \E c \in Clients : ReadFrame(c)
  BY <1>4, <1>6 DEF ReadFrame, tableVars, lifeVars, Actors
<1>7. CASE \E l \in Locals, r \in LocalCalls : Call(l, r)
  BY <1>4, <1>7 DEF Call, tableVars, connVars, lifeVars, Actors
<1>8. CASE \E c \in Clients : Reply(c) \/ ReplyFails(c) \/ ReadFails(c)
  BY <1>5, <1>8 DEF Reply, ReplyFails, ReadFails, Hang, connVars, tableVars, lifeVars, Actors,
       LockInv, LifeTypeOK
<1>9. CASE \E l \in Locals : Return(l)
  BY <1>5, <1>9 DEF Return, connVars, tableVars, lifeVars, Actors, LockInv, LifeTypeOK
<1> QED
  BY <1>1, <1>2, <1>3, <1>6, <1>7, <1>8, <1>9 DEF Next, Step, Serve, Actors

(* Whoever is at the entries holds the mutex, and a writer is there alone: *)
(* handlePDU, the setters and the getters take it before they touch an     *)
(* entry and give it back after.                                           *)
THEOREM MutexHolds == Spec => []MutualExclusion
<1>1. LockInv => MutualExclusion
  BY DEF LockInv
<1> QED
  BY <1>1, LockInit, LockNext, PTL DEF Spec, SafeSpec
----------------------------------------------------------------------------
(* The wait group *)

(* There are finitely many connections; none are left when none are counted. *)
LEMMA ServedFinite ==
  /\ IsFiniteSet(Served) /\ Cardinality(Served) \in Nat
  /\ Cardinality(Served) = 0 => Served = {}
<1>1. Served \subseteq Clients
  BY DEF Served
<1>2. IsFiniteSet(Served)
  BY <1>1, ServerAssumption, FS_Subset
<1> QED
  BY <1>2, FS_CardinalityType, FS_EmptySet

(* At first there is no connection and nothing is counted. *)
LEMMA LifeInit == Init => LifeInv
<1> SUFFICES ASSUME Init PROVE LifeInv
  OBVIOUS
<1>1. LifeTypeOK
  BY DEF Init, LifeTypeOK, Actors
<1>2. Served = {}
  BY DEF Init, Served
<1>3. Counted
  BY <1>2, FS_EmptySet DEF Init, Counted
<1> QED
  BY <1>1, <1>3 DEF Init, LifeInv, Accounted, Actors

(* A connection more: Add(1) comes before its goroutine. *)
LEMMA ServeOneMore ==
  ASSUME LifeInv, NEW c \in Clients, Spawn(c)
  PROVE  LifeInv'
<1>1. LifeTypeOK'
  BY DEF Spawn, LifeInv, LifeTypeOK, tableVars, actorVars
<1>2. Served' = Served \cup {c} /\ c \notin Served
  BY DEF Spawn, LifeInv, LifeTypeOK, Served
<1>3. wg' = wg + 1 /\ acceptor' = acceptor
  BY DEF Spawn
<1>4. Counted'
  BY <1>2, <1>3, ServedFinite, FS_AddElement DEF LifeInv, Counted
<1>5. wg \in Nat \ {0}
  BY ServedFinite DEF Spawn, LifeInv, Counted, Accounted
<1>6. Accounted'
  BY <1>5 DEF Spawn, LifeInv, LifeTypeOK, Accounted, actorVars
<1> QED
  BY <1>1, <1>4, <1>6 DEF LifeInv

(* A connection less, and its goroutine was in no request. *)
LEMMA ServeOneLess ==
  ASSUME LifeInv, NEW c \in Clients, conn[c] = "served", Hang(c), LifeTypeOK',
         pc'[c] = "idle", \A b \in Clients \ {c} : pc'[b] = pc[b],
         UNCHANGED <<acceptor, closer>>
  PROVE  LifeInv'
<1>1. Served' = Served \ {c} /\ c \in Served
  BY DEF Hang, LifeInv, LifeTypeOK, Served
<1>2. wg' = wg - 1 /\ acceptor' = acceptor
  BY DEF Hang
<1>3. Cardinality(Served) # 0
  BY <1>1, ServedFinite
<1>4. Counted'
  <2>1. Cardinality(Served') = Cardinality(Served) - 1
    BY <1>1, ServedFinite, FS_RemoveElement
  <2> QED BY <1>2, <2>1, ServedFinite DEF LifeInv, Counted
<1>5. wg \in Nat \ {0}
  BY <1>3, ServedFinite DEF LifeInv, Counted
<1>6. Accounted'
  BY <1>5 DEF Hang, LifeInv, LifeTypeOK, Accounted
<1> QED
  BY <1>4, <1>6 DEF LifeInv

(* Nothing that the wait group counts comes or goes, and a request begins  *)
(* only on a connection that is served.                                    *)
LEMMA LifeElsewhere ==
  ASSUME LifeInv, LifeTypeOK', UNCHANGED <<conn, acceptor, closer, wg>>,
         \A c \in Clients : pc'[c] # "idle" => pc[c] # "idle" \/ conn[c] = "served"
  PROVE  LifeInv'
<1>1. Served' = Served
  BY DEF Served
<1> QED
  BY <1>1 DEF LifeInv, Counted, Accounted

(* Connections and Close, the requests being left alone. *)
LEMMA LifeEnds ==
  ASSUME LifeInv, LifeTypeOK', pc' = pc,
         \/ Listen \/ AcceptFails \/ CloseQuit \/ CloseListener \/ Wait
         \/ \E c \in Clients : Dial(c) \/ Accept(c)
  PROVE  LifeInv'
<1>1. Served' = Served
  BY DEF LifeInv, LifeTypeOK, Served, Listen, AcceptFails, CloseQuit, CloseListener, Wait, Dial,
       Accept, connVars
<1>2. Counted'
  BY <1>1, ServedFinite DEF LifeInv, Counted, Listen, AcceptFails, CloseQuit, CloseListener, Wait,
       Dial, Accept, lifeVars
<1>3. Accounted'
  <2>1. CASE Listen
    BY <2>1 DEF Listen, LifeInv, LifeTypeOK, Accounted, connVars
  <2>2. CASE AcceptFails
    BY <2>2 DEF AcceptFails, LifeInv, LifeTypeOK, Accounted, connVars
  <2>3. CASE CloseQuit
    BY <2>3 DEF CloseQuit, LifeInv, LifeTypeOK, Accounted, connVars
  <2>4. CASE CloseListener
    BY <2>4 DEF CloseListener, LifeInv, LifeTypeOK, Accounted
  <2>5. CASE Wait
    BY <2>5 DEF Wait, LifeInv, LifeTypeOK, Accounted, connVars
  <2>6. CASE \E c \in Clients : Dial(c)
    BY <2>6 DEF Dial, LifeInv, LifeTypeOK, Accounted, lifeVars
  <2>7. CASE \E c \in Clients : Accept(c)
    BY <2>7 DEF Accept, LifeInv, LifeTypeOK, Accounted, lifeVars
  <2> QED BY <2>1, <2>2, <2>3, <2>4, <2>5, <2>6, <2>7
<1> QED
  BY <1>2, <1>3 DEF LifeInv

(* Every step of the server keeps the count. *)
LEMMA LifeNext == LockInv /\ LockInv' /\ LifeInv /\ [Next]_serverVars => LifeInv'
<1> SUFFICES ASSUME LockInv', LifeInv, [Next]_serverVars PROVE LifeInv'
  OBVIOUS
<1>1. LifeTypeOK /\ LifeTypeOK'
  BY DEF LockInv, LifeInv
<1>2. CASE UNCHANGED serverVars
  BY <1>1, <1>2, LifeElsewhere DEF serverVars, actorVars, connVars, lifeVars
<1>3. CASE Listen \/ AcceptFails \/ CloseQuit \/ CloseListener \/ Wait
  BY <1>1, <1>3, LifeEnds DEF Listen, AcceptFails, CloseQuit, CloseListener, Wait, actorVars
<1>4. CASE \E c \in Clients : Dial(c) \/ Accept(c)
  BY <1>1, <1>4, LifeEnds DEF Dial, Accept, actorVars
<1>5. CASE \E c \in Clients : Spawn(c)
  BY <1>5, ServeOneMore
<1>6. CASE \E c \in Clients : HangUp(c) \/ SkipFrame(c) \/ \E r \in Requests : Send(c, r)
  BY <1>1, <1>6, LifeElsewhere DEF HangUp, SkipFrame, Send, actorVars, lifeVars
<1>7. CASE \E a \in Actors : Acquire(a) \/ Execute(a)
  <2> SUFFICES ASSUME NEW a \in Actors, Acquire(a) \/ Execute(a) PROVE LifeInv'
    BY <1>7
  <2>1. UNCHANGED <<conn, acceptor, closer, wg>>
    BY DEF Acquire, RLock, Lock, Execute, Check, Locked, ReadEntry, WriteEntry, Unlock, connVars, lifeVars
  <2>2. pc[a] # "idle" /\ \A b \in Actors \ {a} : pc'[b] = pc[b]
    BY <1>1 DEF LifeTypeOK, Acquire, RLock, Lock, Execute, Check, Locked, ReadEntry, WriteEntry, Unlock
  <2> QED BY <1>1, <2>1, <2>2, LifeElsewhere DEF Actors
<1>8. CASE \E c \in Clients : ReadFrame(c)
  <2> PICK c \in Clients : ReadFrame(c)
    BY <1>8
  <2>1. UNCHANGED <<conn, acceptor, closer, wg>>
    BY DEF ReadFrame, lifeVars
  <2>2. conn[c] = "served" /\ \A b \in Actors \ {c} : pc'[b] = pc[b]
    BY <1>1 DEF ReadFrame, Start, LifeTypeOK
  <2> QED BY <1>1, <2>1, <2>2, LifeElsewhere DEF Actors
<1>9. CASE \E l \in Locals : Return(l) \/ \E r \in LocalCalls : Call(l, r)
  <2> PICK l \in Locals : Return(l) \/ \E r \in LocalCalls : Call(l, r)
    BY <1>9
  <2>1. UNCHANGED <<conn, acceptor, closer, wg>>
    BY DEF Return, Call, connVars, lifeVars
  <2>2. l \notin Clients /\ \A b \in Actors \ {l} : pc'[b] = pc[b]
    BY <1>1, ServerAssumption DEF Return, Call, Start, Finish, LifeTypeOK
  <2> QED BY <1>1, <2>1, <2>2, LifeElsewhere DEF Actors
<1>10. CASE \E c \in Clients : Reply(c)
  <2> PICK c \in Clients : Reply(c)
    BY <1>10
  <2>1. UNCHANGED <<conn, acceptor, closer, wg>>
    BY DEF Reply, connVars, lifeVars
  <2>2. pc[c] # "idle" /\ \A b \in Actors \ {c} : pc'[b] = pc[b]
    BY <1>1 DEF Reply, Finish, LifeTypeOK
  <2> QED BY <1>1, <2>1, <2>2, LifeElsewhere DEF Actors
<1>11. CASE \E c \in Clients : ReplyFails(c) \/ ReadFails(c)
  <2> PICK c \in Clients : ReplyFails(c) \/ ReadFails(c)
    BY <1>11
  <2>1. conn[c] = "served" /\ Hang(c) /\ UNCHANGED <<acceptor, closer>>
    BY DEF ReplyFails, ReadFails, LifeInv, Accounted
  <2>2. pc'[c] = "idle" /\ \A b \in Clients \ {c} : pc'[b] = pc[b]
    BY <1>1 DEF ReplyFails, ReadFails, Finish, LifeTypeOK, actorVars, Actors
  <2> QED BY <1>1, <2>1, <2>2, ServeOneLess
<1> QED
  BY <1>2, <1>3, <1>4, <1>5, <1>6, <1>7, <1>8, <1>9, <1>10, <1>11
     DEF Next, AcceptLoop, Step, Serve, Actors

(* When Close has returned no connection is served, accepted or about to   *)
(* be, and no client is in a request: everything that can still start a    *)
(* goroutine is itself counted, so the wait group cannot leave zero.       *)
THEOREM CloseIsQuiet == Spec => []QuietAfterClose
<1>1. LifeInv => QuietAfterClose
  <2> SUFFICES ASSUME LifeInv, closer = "returned"
               PROVE  /\ acceptor # "accepting"
                      /\ \A c \in Clients : conn[c] = "none" /\ pc[c] = "idle"
    BY DEF QuietAfterClose
  <2>1. Cardinality(Served) = 0 /\ acceptor # "accepting"
    BY ServedFinite DEF LifeInv, Counted, Accounted, LifeTypeOK
  <2>2. Served = {}
    BY <2>1, ServedFinite
  <2> QED BY <2>1, <2>2 DEF Served, LifeInv, Accounted, LifeTypeOK
<1>2. Init => LockInv /\ LifeInv
  BY LockInit, LifeInit
<1>3. LockInv /\ LifeInv /\ [Next]_serverVars => (LockInv /\ LifeInv)'
  BY LockNext, LifeNext
<1> QED
  BY <1>1, <1>2, <1>3, PTL DEF Spec, SafeSpec

----------------------------------------------------------------------------
(* Requests are atomic *)

Known == Requests \cup LocalCalls
TableContents == [Tables -> [0..Size - 1 -> Words]]
Results == [code : {"none", "ok", "function", "value", "address"}, data : Seq(Words)]

DataTyped ==
  /\ mem \in TableContents /\ committed \in TableContents
  /\ op \in [Actors -> Known \cup {NoRequest}]
  /\ inbox \in [Clients -> Requests \cup {NoRequest}]
  /\ idx \in [Actors -> Nat]
  /\ result \in [Actors -> Results]

Reads(a) == pc[a] = "in" /\ op[a].fn = "read"
Writes(a) == pc[a] = "in" /\ op[a].fn = "write"

(* How far a request has come, and what it has in hand: nothing before it  *)
(* is at the entries, and what it has read is what is there.               *)
Place(a) ==
  /\ pc[a] = "idle" <=> op[a] = NoRequest
  /\ pc[a] \in {"want", "pending", "in"} => Code(op[a]) = "ok"
  /\ pc[a] \notin {"in", "done"} => idx[a] = 0 /\ result[a] = None
  /\ pc[a] = "in" => idx[a] <= op[a].qty /\ result[a].code = "none"
  /\ pc[a] = "done" => result[a].code # "none"
HasRead(a) ==
  Reads(a) =>
    /\ Len(result[a].data) = idx[a]
    /\ \A k \in 1..idx[a] : result[a].data[k] = mem[op[a].table][op[a].start + k - 1]
HasWritten(a) ==
  Writes(a) =>
    /\ result[a].data = <<>>
    /\ \A t \in Tables, x \in 0..Size - 1 :
         mem[t][x] = IF t = op[a].table /\ x \in op[a].start..op[a].start + idx[a] - 1
                       THEN op[a].words[x - op[a].start + 1] ELSE committed[t][x]

Progress == \A a \in Actors : Place(a) /\ HasRead(a) /\ HasWritten(a)

(* The entries are as the last writer left them, unless one is at work. *)
Settled == (\A a \in Actors : ~Writes(a)) => mem = committed

DataInv == DataTyped /\ Progress /\ Settled

----------------------------------------------------------------------------
(* The data *)

(* A request is none, or has the form of one. *)
LEMMA RequestForm ==
  ASSUME DataTyped, NEW a \in Actors, op[a] # NoRequest
  PROVE  /\ op[a] \in RequestType
         /\ op[a].fn = "write" /\ op[a].sound => Len(op[a].words) = op[a].qty
BY ServerAssumption DEF DataTyped, Known

(* What a request that passed the checks may rely on. *)
LEMMA Checked ==
  ASSUME NEW r \in RequestType, Code(r) = "ok"
  PROVE  /\ r.fn \in {"read", "write"} /\ r.sound
         /\ r.qty \in 1..Limit(r.fn, r.table)
         /\ r.start + r.qty <= Size
BY ServerAssumption DEF Code, RequestType, Limit

(* At first nothing is requested and every entry is zero. *)
LEMMA DataInit == Init => DataInv
<1> SUFFICES ASSUME Init PROVE DataInv
  OBVIOUS
<1>1. None \in Results
  BY EmptySeq DEF None, Results
<1>2. DataTyped
  BY <1>1, ServerAssumption DEF Init, DataTyped, TableContents, Actors
<1>3. Progress
  BY DEF Init, Progress, Place, HasRead, HasWritten, Reads, Writes
<1> QED BY <1>2, <1>3 DEF Init, DataInv, Settled

(* Nobody moves. *)
LEMMA DataElsewhere ==
  ASSUME DataInv, UNCHANGED <<mem, committed, pc, op, idx, result>>,
         inbox' \in [Clients -> Requests \cup {NoRequest}]
  PROVE  DataInv'
BY DEF DataInv, DataTyped, Progress, Place, HasRead, HasWritten, Settled, Reads, Writes

(* One actor moves, and what the others have in hand is as it was. *)
Alone(a) ==
  \A b \in Actors \ {a} :
    pc'[b] = pc[b] /\ op'[b] = op[b] /\ idx'[b] = idx[b] /\ result'[b] = result[b]

(* It moves away from the entries, and the entries stay as they are. *)
LEMMA DataOutside ==
  ASSUME DataInv, DataTyped', NEW a \in Actors, Alone(a), UNCHANGED <<mem, committed>>,
         ~Writes(a), pc'[a] # "in", Place(a)'
  PROVE  DataInv'
BY DEF DataInv, Alone, Progress, Place, HasRead, HasWritten, Settled, Reads, Writes

(* A request arrives. *)
LEMMA StartKeeps ==
  ASSUME DataInv, NEW a \in Actors, NEW r \in Known, pc[a] = "idle", Start(a, r),
         UNCHANGED <<mem, committed>>, inbox' \in [Clients -> Requests \cup {NoRequest}],
         pc \in [Actors -> {"idle", "check", "want", "pending", "in", "done"}]
  PROVE  DataInv'
<1>1. DataTyped'
  BY DEF DataInv, DataTyped, Start
<1>2. /\ Alone(a) /\ pc'[a] = "check" /\ op'[a] = r /\ idx'[a] = idx[a] /\ result'[a] = result[a]
  BY DEF DataInv, DataTyped, Start, Alone
<1>3. Place(a)'
  BY <1>2, ServerAssumption DEF DataInv, Progress, Place, Known
<1> QED BY <1>1, <1>2, <1>3, DataOutside DEF Writes

(* Its answer has gone. *)
LEMMA FinishKeeps ==
  ASSUME DataInv, NEW a \in Actors, pc[a] = "done", Finish(a),
         UNCHANGED <<mem, committed>>, inbox' \in [Clients -> Requests \cup {NoRequest}],
         pc \in [Actors -> {"idle", "check", "want", "pending", "in", "done"}]
  PROVE  DataInv'
<1>0. None \in Results
  BY EmptySeq DEF None, Results
<1>1. DataTyped'
  BY <1>0 DEF DataInv, DataTyped, Finish
<1>2. /\ Alone(a) /\ pc'[a] = "idle" /\ op'[a] = NoRequest /\ idx'[a] = 0 /\ result'[a] = None
  BY DEF DataInv, DataTyped, Finish, Alone
<1>3. Place(a)'
  BY <1>2 DEF Place
<1> QED BY <1>1, <1>2, <1>3, DataOutside DEF Writes

(* It is checked, and refused or sent to the mutex. *)
LEMMA CheckKeeps ==
  ASSUME DataInv, LockInv, NEW a \in Actors, Check(a)
  PROVE  DataInv'
<1>1. /\ pc[a] = "check" /\ Place(a)
      /\ UNCHANGED <<mem, committed, op, idx, inbox>>
  BY DEF Check, DataInv, Progress, tableVars, connVars
<1>2. [code |-> Code(op[a]), data |-> <<>>] \in Results
  BY EmptySeq DEF Code, Results
<1>3. DataTyped'
  BY <1>1, <1>2 DEF DataInv, DataTyped, Check
<1>4. Alone(a) /\ pc'[a] # "in"
  BY <1>1 DEF DataInv, DataTyped, LockInv, LifeTypeOK, Check, Alone
<1>5. Place(a)'
  <2>1. CASE Code(op[a]) = "ok"
    BY <1>1, <2>1 DEF Check, DataInv, DataTyped, LockInv, LifeTypeOK, Place
  <2>2. CASE Code(op[a]) # "ok"
    <3>1. Code(op[a]) # "none"
      BY DEF Code
    <3>2. pc'[a] = "done" /\ result'[a].code = Code(op[a])
      BY <1>1, <2>2 DEF Check, DataInv, DataTyped, LockInv, LifeTypeOK
    <3> QED BY <1>1, <3>1, <3>2 DEF Place
  <2> QED BY <2>1, <2>2
<1> QED BY <1>1, <1>3, <1>4, <1>5, DataOutside DEF Writes

(* It enters: for reading with nothing read, for writing with nothing      *)
(* written, and then no other writer is there.                             *)
LEMMA EnterKeeps ==
  ASSUME DataInv, LockInv, NEW a \in Actors, Acquire(a) \/ Locked(a)
  PROVE  DataInv'
<1>1. /\ UNCHANGED <<mem, committed, op, idx, result, inbox>>
      /\ pc[a] \in {"want", "pending"} /\ Place(a)
      /\ \A b \in Actors \ {a} : pc'[b] = pc[b]
  BY DEF Acquire, RLock, Lock, Locked, DataInv, Progress, tableVars, connVars, LockInv, LifeTypeOK
<1>2. DataTyped' /\ Alone(a)
  BY <1>1 DEF DataInv, DataTyped, Alone
<1>3. CASE Lock(a)
  <2>1. pc'[a] = "pending"
    BY <1>3 DEF Lock, LockInv, LifeTypeOK
  <2>2. Place(a)'
    BY <1>1, <2>1 DEF Place
  <2> QED BY <1>1, <1>2, <2>1, <2>2, DataOutside DEF Writes
<1>4. CASE RLock(a) \/ Locked(a)
  <2>1. pc'[a] = "in"
    BY <1>4 DEF RLock, Locked, LockInv, LifeTypeOK
  <2>2. op[a] \in RequestType /\ op[a].qty \in Nat
    BY <1>1, RequestForm DEF DataInv, Place, RequestType
  <2>3. idx[a] = 0 /\ result[a] = None /\ Code(op[a]) = "ok"
    BY <1>1 DEF Place
  <2>4. Place(a)'
    BY <1>1, <2>1, <2>2, <2>3 DEF Place, None
  <2>5. HasRead(a)'
    BY <1>1, <2>3, LenProperties DEF HasRead, None
  <2>6. op[a].fn = "write" => mem = committed
    <3> SUFFICES ASSUME op[a].fn = "write", NEW b \in Actors, Writes(b) PROVE FALSE
      BY DEF DataInv, Settled
    <3>1. writer = a /\ writer = b
      BY <1>4 DEF RLock, Locked, LockInv, MutualExclusion, Writes
    <3> QED BY <1>1, <3>1 DEF Writes
  <2>7. HasWritten(a)'
    <3>1. op[a].start \in Int
      BY <2>2 DEF RequestType
    <3> QED BY <1>1, <2>3, <2>6, <3>1 DEF HasWritten, Writes, None
  <2>8. \A b \in Actors \ {a} : Place(b)' /\ HasRead(b)' /\ HasWritten(b)'
    BY <1>1 DEF DataInv, Progress, Place, HasRead, HasWritten, Reads, Writes
  <2>9. Settled'
    BY <1>1, <2>1, <2>6 DEF DataInv, Settled, Writes
  <2> QED BY <1>2, <2>4, <2>5, <2>7, <2>8, <2>9 DEF DataInv, Progress
<1> QED BY <1>3, <1>4 DEF Acquire

(* It reads the next entry. *)
LEMMA ReadKeeps ==
  ASSUME DataInv, LockInv, NEW a \in Actors, ReadEntry(a)
  PROVE  DataInv'
<1> DEFINE r == op[a]
           w == mem[r.table][r.start + idx[a]]
<1>1. /\ UNCHANGED <<mem, committed, pc, op, inbox>>
      /\ Reads(a) /\ idx[a] < r.qty /\ Place(a) /\ HasRead(a)
  BY DEF ReadEntry, Reads, DataInv, Progress, tableVars, connVars
<1>2. r \in RequestType /\ Code(r) = "ok"
  BY <1>1, RequestForm DEF DataInv, Place, Reads
<1>3. r.start + idx[a] \in 0..Size - 1 /\ r.qty \in Nat /\ r.start \in Nat
  BY <1>1, <1>2, Checked, ServerAssumption DEF RequestType, DataInv, DataTyped
<1>4. w \in Words
  BY <1>2, <1>3 DEF DataInv, DataTyped, TableContents, RequestType
<1>5. result[a].data \in Seq(Words) /\ result[a] \in Results
  BY DEF DataInv, DataTyped, Results
<1>6. /\ Append(result[a].data, w) \in Seq(Words)
      /\ Len(Append(result[a].data, w)) = Len(result[a].data) + 1
      /\ \A k \in 1..Len(result[a].data) : Append(result[a].data, w)[k] = result[a].data[k]
      /\ Append(result[a].data, w)[Len(result[a].data) + 1] = w
  BY <1>4, <1>5, AppendProperties
<1>7. /\ result' = [result EXCEPT ![a] = [result[a] EXCEPT !.data = Append(result[a].data, w)]]
      /\ idx' = [idx EXCEPT ![a] = idx[a] + 1]
  BY DEF ReadEntry, DataInv, DataTyped
<1>8. /\ idx'[a] = idx[a] + 1
      /\ result'[a].code = result[a].code /\ result'[a].data = Append(result[a].data, w)
      /\ Alone(a)
  BY <1>1, <1>5, <1>7 DEF DataInv, DataTyped, Alone, Results
<1>9. DataTyped'
  <2>1. [result[a] EXCEPT !.data = Append(result[a].data, w)] \in Results
    BY <1>5, <1>6 DEF Results
  <2> QED BY <1>1, <1>7, <2>1 DEF DataInv, DataTyped
<1>10. Place(a)'
  BY <1>1, <1>3, <1>8 DEF Place, Reads, DataInv, DataTyped
<1>11. HasRead(a)'
  <2>1. Len(result[a].data) = idx[a] /\ idx[a] \in Nat
    BY <1>1 DEF HasRead, DataInv, DataTyped
  <2>2. ASSUME NEW k \in 1..idx[a] + 1
        PROVE  Append(result[a].data, w)[k] = mem[r.table][r.start + k - 1]
    <3>1. CASE k = idx[a] + 1
      BY <1>3, <1>6, <2>1, <3>1
    <3>2. CASE k # idx[a] + 1
      <4>1. k \in 1..idx[a]
        BY <2>1, <3>2
      <4> QED BY <1>1, <1>6, <2>1, <4>1 DEF HasRead
    <3> QED BY <3>1, <3>2
  <2> QED BY <1>1, <1>6, <1>8, <2>1, <2>2 DEF HasRead
<1>12. ~Writes(a)'
  BY <1>1 DEF Writes, Reads
<1>13. \A b \in Actors \ {a} : Place(b)' /\ HasRead(b)' /\ HasWritten(b)'
  BY <1>1, <1>8 DEF Alone, DataInv, Progress, Place, HasRead, HasWritten, Reads, Writes
<1>14. Settled'
  BY <1>1 DEF DataInv, Settled, Writes
<1> QED BY <1>9, <1>10, <1>11, <1>12, <1>13, <1>14 DEF DataInv, Progress, HasWritten

(* It writes the next entry; nobody else is at the entries. *)
LEMMA WriteKeeps ==
  ASSUME DataInv, LockInv, NEW a \in Actors, WriteEntry(a)
  PROVE  DataInv'
<1> DEFINE r == op[a]
           y == r.start + idx[a]
           w == r.words[idx[a] + 1]
<1>1. /\ UNCHANGED <<committed, pc, op, result, inbox>>
      /\ Writes(a) /\ idx[a] < r.qty /\ Place(a) /\ HasWritten(a)
  BY DEF WriteEntry, Writes, DataInv, Progress, connVars
<1>2. r \in RequestType /\ Code(r) = "ok" /\ Len(r.words) = r.qty
  BY <1>1, RequestForm, Checked DEF DataInv, Place, Writes
<1>3. y \in 0..Size - 1 /\ r.qty \in Nat /\ r.start \in Nat /\ idx[a] \in Nat /\ r.table \in Tables
  BY <1>1, <1>2, Checked, ServerAssumption DEF RequestType, DataInv, DataTyped
<1>4. w \in Words
  BY <1>1, <1>2, <1>3, ElementOfSeq DEF RequestType
<1>5. /\ mem' = [mem EXCEPT ![r.table] = [mem[r.table] EXCEPT ![y] = w]]
      /\ idx' = [idx EXCEPT ![a] = idx[a] + 1]
  BY <1>3 DEF WriteEntry, DataInv, DataTyped, TableContents
<1>6. DataTyped'
  <2>1. [mem[r.table] EXCEPT ![y] = w] \in [0..Size - 1 -> Words]
    BY <1>3, <1>4 DEF DataInv, DataTyped, TableContents
  <2>2. mem' \in TableContents
    BY <1>5, <2>1 DEF DataInv, DataTyped, TableContents
  <2>3. idx' \in [Actors -> Nat]
    BY <1>3, <1>5 DEF DataInv, DataTyped
  <2> QED BY <1>1, <2>2, <2>3 DEF DataInv, DataTyped, TableContents
<1>7. idx'[a] = idx[a] + 1 /\ Alone(a)
  BY <1>1, <1>5 DEF DataInv, DataTyped, Alone
<1>8. Place(a)'
  BY <1>1, <1>3, <1>7 DEF Place, Writes
<1>9. ~Reads(a)'
  BY <1>1 DEF Reads, Writes
<1>10. HasWritten(a)'
  <2> SUFFICES ASSUME NEW t \in Tables, NEW x \in 0..Size - 1
               PROVE  mem'[t][x] = IF t = r.table /\ x \in r.start..r.start + (idx[a] + 1) - 1
                                     THEN r.words[x - r.start + 1] ELSE committed[t][x]
    BY <1>1, <1>7 DEF HasWritten
  <2>1. mem[t][x] = IF t = r.table /\ x \in r.start..r.start + idx[a] - 1
                      THEN r.words[x - r.start + 1] ELSE committed[t][x]
    BY <1>1 DEF HasWritten
  <2>2. CASE t = r.table /\ x = y
    <3>1. mem'[t][x] = w
      BY <1>3, <1>5, <2>2 DEF DataInv, DataTyped, TableContents
    <3>2. x \in r.start..r.start + (idx[a] + 1) - 1 /\ x - r.start + 1 = idx[a] + 1
      BY <1>3, <2>2
    <3> QED BY <2>2, <3>1, <3>2
  <2>3. CASE ~(t = r.table /\ x = y)
    <3>1. mem'[t][x] = mem[t][x]
      BY <1>3, <1>5, <2>3 DEF DataInv, DataTyped, TableContents
    <3>2. t = r.table => (x \in r.start..r.start + (idx[a] + 1) - 1 <=> x \in r.start..r.start + idx[a] - 1)
      BY <1>3, <2>3
    <3> QED BY <2>1, <3>1, <3>2
  <2> QED BY <2>2, <2>3
<1>11. ASSUME NEW b \in Actors \ {a}
       PROVE  Place(b)' /\ HasRead(b)' /\ HasWritten(b)'
  <2>1. pc[b] # "in"
    BY <1>1 DEF LockInv, MutualExclusion, Writes
  <2> QED BY <1>1, <1>7, <2>1
          DEF Alone, DataInv, Progress, Place, HasRead, HasWritten, Reads, Writes
<1>12. Settled'
  BY <1>1 DEF Settled, Writes
<1> QED BY <1>6, <1>8, <1>9, <1>10, <1>11, <1>12 DEF DataInv, Progress, HasRead

(* It leaves the entries, which are now as it leaves them. *)
LEMMA UnlockKeeps ==
  ASSUME DataInv, LockInv, NEW a \in Actors, Unlock(a)
  PROVE  DataInv'
<1>1. UNCHANGED <<mem, op, idx, inbox>> /\ pc[a] = "in" /\ Place(a)
  BY DEF Unlock, DataInv, Progress, connVars
<1>2. /\ Alone(a) /\ pc'[a] = "done"
      /\ result'[a] = [result[a] EXCEPT !.code = "ok"] /\ result'[a].code = "ok"
  BY <1>1 DEF Unlock, DataInv, DataTyped, Results, LockInv, LifeTypeOK, Alone
<1>3. DataTyped'
  <2>1. [result[a] EXCEPT !.code = "ok"] \in Results
    BY DEF DataInv, DataTyped, Results
  <2> QED BY <1>1, <2>1 DEF Unlock, DataInv, DataTyped
<1>4. Place(a)'
  BY <1>1, <1>2 DEF Place
<1>5. op[a].fn \in {"read", "write"}
  BY <1>1 DEF LockInv, CheckedFirst
<1>6. CASE op[a].fn = "read"
  <2>1. writer # a
    BY <1>6 DEF LockInv, MutualExclusion, CheckedFirst
  <2>2. UNCHANGED committed
    BY <2>1 DEF Unlock
  <2> QED BY <1>1, <1>2, <1>3, <1>4, <1>6, <2>2, DataOutside DEF Writes
<1>7. CASE op[a].fn = "write"
  <2>1. writer = a /\ \A b \in Actors \ {a} : pc[b] # "in"
    BY <1>1, <1>7 DEF LockInv, MutualExclusion
  <2>2. mem' = committed'
    BY <1>1, <2>1 DEF Unlock
  <2>3. \A b \in Actors \ {a} : Place(b)' /\ HasRead(b)' /\ HasWritten(b)'
    BY <1>1, <1>2, <2>1 DEF Alone, DataInv, Progress, Place, HasRead, HasWritten, Reads, Writes
  <2> QED BY <1>2, <1>3, <1>4, <2>2, <2>3 DEF DataInv, Progress, Settled, HasRead, HasWritten, Reads, Writes
<1> QED BY <1>5, <1>6, <1>7

(* Every step of the server keeps the data in order. *)
LEMMA DataNext == DataInv /\ LockInv /\ [Next]_serverVars => DataInv'
<1> SUFFICES ASSUME DataInv, LockInv, [Next]_serverVars PROVE DataInv'
  OBVIOUS
<1>t. /\ inbox \in [Clients -> Requests \cup {NoRequest}]
      /\ pc \in [Actors -> {"idle", "check", "want", "pending", "in", "done"}]
  BY DEF DataInv, DataTyped, LockInv, LifeTypeOK
<1>1. CASE \/ UNCHANGED serverVars \/ Listen \/ AcceptLoop \/ CloseQuit \/ CloseListener \/ Wait
           \/ \E c \in Clients : Dial(c) \/ HangUp(c) \/ SkipFrame(c) \/ ReadFails(c)
           \/ \E c \in Clients, r \in Requests : Send(c, r)
  <2>1. UNCHANGED <<mem, committed, pc, op, idx, result>>
    BY <1>1 DEF Listen, AcceptLoop, Accept, Spawn, AcceptFails, CloseQuit, CloseListener, Wait,
         Dial, HangUp, SkipFrame, ReadFails, Send, serverVars, tableVars, actorVars
  <2>2. inbox' \in [Clients -> Requests \cup {NoRequest}]
    BY <1>1, <1>t DEF Listen, AcceptLoop, Accept, Spawn, AcceptFails, CloseQuit, CloseListener, Wait,
         Dial, HangUp, SkipFrame, ReadFails, Hang, Send, serverVars, connVars
  <2> QED BY <2>1, <2>2, DataElsewhere
<1>2. ASSUME NEW c \in Clients, ReadFrame(c)
      PROVE  DataInv'
  <2>1. inbox[c] \in Known /\ inbox' \in [Clients -> Requests \cup {NoRequest}] /\ c \in Actors
    BY <1>2, <1>t DEF ReadFrame, Known, Actors
  <2> QED BY <1>2, <1>t, <2>1, StartKeeps DEF ReadFrame, tableVars
<1>3. ASSUME NEW l \in Locals, NEW r \in LocalCalls, Call(l, r)
      PROVE  DataInv'
  BY <1>3, <1>t, StartKeeps DEF Call, Known, Actors, tableVars, connVars
<1>4. ASSUME NEW c \in Clients, Reply(c) \/ ReplyFails(c)
      PROVE  DataInv'
  <2>1. inbox' \in [Clients -> Requests \cup {NoRequest}] /\ c \in Actors
    BY <1>4, <1>t DEF Reply, ReplyFails, Hang, connVars, Actors
  <2> QED BY <1>4, <1>t, <2>1, FinishKeeps DEF Reply, ReplyFails, tableVars
<1>5. ASSUME NEW l \in Locals, Return(l)
      PROVE  DataInv'
  BY <1>5, <1>t, FinishKeeps DEF Return, Actors, tableVars, connVars
<1>6. ASSUME NEW a \in Actors, Acquire(a) \/ Execute(a)
      PROVE  DataInv'
  BY <1>6, EnterKeeps, CheckKeeps, ReadKeeps, WriteKeeps, UnlockKeeps DEF Execute
<1> QED BY <1>1, <1>2, <1>3, <1>4, <1>5, <1>6 DEF Next, Step, Serve, Actors

----------------------------------------------------------------------------
(* The steps as Registers sees them *)

(* The answer of one actor, in a step in which it alone moves.             *)
LEMMA AnswerMoves ==
  ASSUME NEW a \in Actors,
         \A b \in Actors \ {a} : pc'[b] = pc[b] /\ result'[b] = result[b]
  PROVE  Answer' = [Answer EXCEPT ![a] = IF pc'[a] = "done" THEN result'[a] ELSE None]
BY DEF Answer

(* Nothing is to be seen of most steps. *)
LEMMA Unseen ==
  ASSUME DataInv, LockInv, DataInv', UNCHANGED <<committed, op>>,
         \A a \in Actors : (pc[a] = "done" <=> pc'[a] = "done") /\ (pc[a] = "done" => result'[a] = result[a])
  PROVE  UNCHANGED Atomic!vars
BY DEF Atomic!vars, Answer

(* A request arrives. *)
LEMMA StartInvokes ==
  ASSUME DataInv, LockInv, NEW a \in Actors, NEW r \in Known, pc[a] = "idle", Start(a, r),
         UNCHANGED committed
  PROVE  Atomic!Invoke(a, r)
<1>1. op[a] = NoRequest /\ op' = [op EXCEPT ![a] = r]
  BY DEF DataInv, Progress, Place, Start
<1>2. UNCHANGED Answer
  BY DEF Answer, Start, LockInv, LifeTypeOK
<1> QED BY <1>1, <1>2 DEF Atomic!Invoke

(* The answer is seen. *)
LEMMA FinishResponds ==
  ASSUME DataInv, LockInv, NEW a \in Actors, pc[a] = "done", Finish(a), UNCHANGED committed
  PROVE  Atomic!Respond(a)
<1>1. Answer[a] # None
  BY DEF Answer, DataInv, Progress, Place, None
<1>2. Answer' = [Answer EXCEPT ![a] = None]
  BY AnswerMoves DEF Finish, DataInv, DataTyped, LockInv, LifeTypeOK
<1> QED BY <1>1, <1>2 DEF Atomic!Respond, Atomic!NoAnswer, Atomic!Answered, None, Finish

(* A check is seen when it refuses the request. *)
LEMMA CheckPerforms ==
  ASSUME DataInv, LockInv, DataInv', NEW a \in Actors, Check(a)
  PROVE  Atomic!Perform(a) \/ UNCHANGED Atomic!vars
<1> DEFINE r == op[a]
<1>1. pc[a] = "check" /\ UNCHANGED <<committed, op>> /\ r # NoRequest
  BY DEF Check, DataInv, Progress, Place, tableVars
<1>2. r \in RequestType
  BY <1>1, RequestForm DEF DataInv
<1>3. CASE Code(r) = "ok"
  BY <1>1, <1>3, Unseen DEF Check, LockInv, LifeTypeOK
<1>4. CASE Code(r) # "ok"
  <2>1. Answer[a] = Atomic!NoAnswer
    BY <1>1 DEF Answer, Atomic!NoAnswer, Atomic!Answered, None
  <2>2. Answer' = [Answer EXCEPT ![a] = Atomic!Answered(Code(r), <<>>)]
    <3>1. \A b \in Actors \ {a} : pc'[b] = pc[b] /\ result'[b] = result[b]
      BY <1>4 DEF Check, LockInv, LifeTypeOK, DataInv, DataTyped
    <3>2. pc'[a] = "done" /\ result'[a] = Atomic!Answered(Code(r), <<>>)
      BY <1>4 DEF Check, LockInv, LifeTypeOK, DataInv, DataTyped, Atomic!Answered
    <3> QED BY <3>1, <3>2, AnswerMoves
  <2>3. Atomic!Refuse(a, Code(r))
    BY <1>1, <2>2 DEF Atomic!Refuse
  <2>4. CASE ~Atomic!Understood(r)
    BY <1>1, <2>1, <2>3, <2>4 DEF Atomic!Perform, Atomic!Understood, Code
  <2>5. CASE Atomic!Understood(r) /\ ~Atomic!Meaningful(r)
    <3>1. Code(r) = "value"
      BY <1>2, <2>5, ServerAssumption DEF Atomic!Understood, Atomic!Meaningful, Code, RequestType, Limit
    <3> QED BY <1>1, <2>1, <2>3, <2>5, <3>1 DEF Atomic!Perform
  <2>6. CASE Atomic!Understood(r) /\ Atomic!Meaningful(r)
    <3>1. r.qty \in Nat /\ r.start \in Nat /\ r.qty # 0 /\ r.start + r.qty > Size
      BY <1>2, <1>4, <2>6, ServerAssumption
         DEF Atomic!Understood, Atomic!Meaningful, Code, RequestType, Limit
    <3>2. Code(r) = "address"
      BY <1>2, <2>6, <3>1, ServerAssumption
         DEF Atomic!Understood, Atomic!Meaningful, Code, RequestType, Limit
    <3>3. ~Atomic!Addressable(r)
      <4>1. r.start + r.qty - 1 \in Atomic!Named(r) /\ r.qty \in 1..r.qty
        BY <3>1 DEF Atomic!Named
      <4>2. r.start + r.qty - 1 \notin 0..Size - 1
        BY <3>1, ServerAssumption
      <4> QED BY <4>1, <4>2 DEF Atomic!Addressable, Atomic!Addresses
    <3> QED BY <1>1, <2>1, <2>3, <2>6, <3>2, <3>3 DEF Atomic!Perform
  <2> QED BY <2>4, <2>5, <2>6
<1> QED BY <1>3, <1>4

(* The unlock is the moment at which a read or a write takes place.        *)
LEMMA UnlockPerforms ==
  ASSUME DataInv, LockInv, NEW a \in Actors, Unlock(a)
  PROVE  Atomic!Perform(a)
<1> DEFINE r == op[a]
<1>1. /\ pc[a] = "in" /\ idx[a] = r.qty /\ op' = op /\ r # NoRequest
      /\ Place(a) /\ HasRead(a) /\ HasWritten(a) /\ Code(r) = "ok"
  BY DEF Unlock, DataInv, Progress, Place
<1>2. r \in RequestType /\ (r.fn = "write" => Len(r.words) = r.qty)
  BY <1>1, RequestForm, Checked DEF DataInv
<1>3. /\ r.fn \in {"read", "write"} /\ r.sound /\ r.qty \in 1..Limit(r.fn, r.table)
      /\ r.start + r.qty <= Size /\ r.start \in Nat /\ r.qty \in Nat /\ r.table \in Tables
  BY <1>1, <1>2, Checked DEF RequestType
<1>4. Atomic!Understood(r) /\ Atomic!Meaningful(r) /\ Atomic!Addressable(r)
  <2>1. Atomic!Named(r) \subseteq 0..Size - 1
    BY <1>3, ServerAssumption DEF Atomic!Named
  <2> QED BY <1>3, <2>1 DEF Atomic!Understood, Atomic!Meaningful, Atomic!Addressable, Atomic!Addresses
<1>5. Answer[a] = Atomic!NoAnswer
  BY <1>1 DEF Answer, Atomic!NoAnswer, Atomic!Answered, None
<1>6. /\ result[a] \in Results
      /\ result' = [result EXCEPT ![a].code = "ok"] /\ pc' = [pc EXCEPT ![a] = "done"]
  BY DEF Unlock, DataInv, DataTyped
<1>7. Answer' = [Answer EXCEPT ![a] = Atomic!Answered("ok", result[a].data)]
  <2>1. \A b \in Actors \ {a} : pc'[b] = pc[b] /\ result'[b] = result[b]
    BY <1>6 DEF DataInv, DataTyped, LockInv, LifeTypeOK
  <2>2. pc'[a] = "done" /\ result'[a] = [code |-> "ok", data |-> result[a].data]
    BY <1>6 DEF DataInv, DataTyped, LockInv, LifeTypeOK, Results
  <2> QED BY <2>1, <2>2, AnswerMoves DEF Atomic!Answered
<1>8. CASE r.fn = "read"
  <2>1. mem = committed
    <3> SUFFICES ASSUME NEW b \in Actors, Writes(b) PROVE FALSE
      BY DEF DataInv, Settled
    <3> QED BY <1>1, <1>8 DEF Writes, LockInv, MutualExclusion
  <2>2. UNCHANGED committed
    BY <1>8 DEF Unlock, LockInv, MutualExclusion
  <2>3. result[a].data = [k \in 1..r.qty |-> committed[r.table][r.start + k - 1]]
    <3>1. result[a].data \in Seq(Words) /\ Len(result[a].data) = r.qty
      BY <1>1, <1>6, <1>8 DEF Results, HasRead, Reads
    <3>2. \A k \in 1..r.qty : result[a].data[k] = committed[r.table][r.start + k - 1]
      BY <1>1, <1>8, <2>1 DEF HasRead, Reads
    <3> QED BY <3>1, <3>2, LenProperties
  <2>4. Atomic!Read(a, r)
    BY <1>1, <1>7, <2>2, <2>3 DEF Atomic!Read
  <2> QED BY <1>1, <1>4, <1>5, <1>8, <2>4 DEF Atomic!Perform
<1>9. CASE r.fn = "write"
  <2>1. committed' = mem
    BY <1>1, <1>9 DEF Unlock, LockInv, MutualExclusion
  <2>2. result[a].data = <<>>
    BY <1>1, <1>9 DEF HasWritten, Writes
  <2>3. ASSUME NEW t \in Tables, NEW x \in 0..Size - 1
        PROVE  mem[t][x] = IF t = r.table /\ x \in Atomic!Named(r)
                             THEN r.words[x - r.start + 1] ELSE committed[t][x]
    <3>1. x \in Atomic!Named(r) <=> x \in r.start..r.start + r.qty - 1
      <4>1. ASSUME x \in r.start..r.start + r.qty - 1
            PROVE  x \in Atomic!Named(r)
        <5>1. x - r.start + 1 \in 1..r.qty /\ x = r.start + (x - r.start + 1) - 1
          BY <1>3, <4>1
        <5> QED BY <5>1 DEF Atomic!Named
      <4> QED BY <1>3, <4>1 DEF Atomic!Named
    <3> QED BY <1>1, <1>9, <3>1 DEF HasWritten, Writes
  <2> DEFINE G == [x \in Atomic!Addresses |->
                     IF x \in Atomic!Named(r) THEN r.words[x - r.start + 1]
                                              ELSE committed[r.table][x]]
  <2>4. mem = [committed EXCEPT ![r.table] = G]
    <3>1. \A t \in Tables : mem[t] \in [0..Size - 1 -> Words] /\ committed[t] \in [0..Size - 1 -> Words]
      BY DEF DataInv, DataTyped, TableContents
    <3>2. mem[r.table] = G
      BY <1>3, <2>3, <3>1 DEF Atomic!Addresses
    <3>3. ASSUME NEW t \in Tables, t # r.table
          PROVE  mem[t] = committed[t]
      <4>1. \A x \in 0..Size - 1 : mem[t][x] = committed[t][x]
        BY <2>3, <3>3
      <4>2. /\ mem[t] = [x \in 0..Size - 1 |-> mem[t][x]]
            /\ committed[t] = [x \in 0..Size - 1 |-> committed[t][x]]
        BY <3>1
      <4>3. [x \in 0..Size - 1 |-> mem[t][x]] = [x \in 0..Size - 1 |-> committed[t][x]]
        BY <4>1, Zenon
      <4> QED BY <4>2, <4>3, Zenon
    <3>4. /\ DOMAIN mem = Tables /\ DOMAIN committed = Tables
          /\ mem = [t \in Tables |-> mem[t]]
      BY DEF DataInv, DataTyped, TableContents
    <3> HIDE DEF G
    <3> QED BY <1>3, <3>2, <3>3, <3>4
  <2>5. Atomic!Write(a, r)
    BY <1>1, <1>7, <2>1, <2>2, <2>4 DEF Atomic!Write
  <2> QED BY <1>1, <1>4, <1>5, <1>9, <2>5 DEF Atomic!Perform
<1> QED BY <1>3, <1>8, <1>9

----------------------------------------------------------------------------
(* The refinement *)

(* At first there are the tables' contents and no requests. *)
LEMMA StartsAsRegisters == Init => Atomic!Init
BY DEF Init, Atomic!Init, Answer, Atomic!NoAnswer, Atomic!Answered, None

(* Every step of the server is a step of Registers or not to be seen.      *)
LEMMA StepsAsRegisters ==
  DataInv /\ LockInv /\ DataInv' /\ LockInv' /\ [Next]_serverVars => [Atomic!Next]_(Atomic!vars)
<1> SUFFICES ASSUME DataInv, LockInv, DataInv', LockInv', [Next]_serverVars
             PROVE  Atomic!Next \/ UNCHANGED Atomic!vars
  OBVIOUS
<1>1. CASE \/ UNCHANGED serverVars \/ Listen \/ AcceptLoop \/ CloseQuit \/ CloseListener \/ Wait
           \/ \E c \in Clients : Dial(c) \/ HangUp(c) \/ SkipFrame(c) \/ ReadFails(c)
           \/ \E c \in Clients, r \in Requests : Send(c, r)
  <2>1. UNCHANGED <<committed, pc, op, result>>
    BY <1>1 DEF Listen, AcceptLoop, Accept, Spawn, AcceptFails, CloseQuit, CloseListener, Wait,
         Dial, HangUp, SkipFrame, ReadFails, Send, serverVars, tableVars, actorVars
  <2> QED BY <2>1 DEF Atomic!vars, Answer
<1>2. ASSUME NEW c \in Clients, ReadFrame(c)
      PROVE  Atomic!Next
  <2>1. inbox[c] \in Requests /\ c \in Actors
    BY <1>2 DEF ReadFrame, DataInv, DataTyped, Actors
  <2>2. Atomic!Invoke(c, inbox[c])
    BY <1>2, <2>1, StartInvokes DEF ReadFrame, Known, tableVars
  <2> QED BY <2>1, <2>2 DEF Atomic!Next
<1>3. ASSUME NEW l \in Locals, NEW r \in LocalCalls, Call(l, r)
      PROVE  Atomic!Next
  <2>1. Atomic!Invoke(l, r) /\ l \in Actors
    BY <1>3, StartInvokes DEF Call, Known, tableVars, Actors
  <2> QED BY <2>1 DEF Atomic!Next
<1>4. ASSUME NEW a \in Actors, pc[a] = "done", Finish(a), UNCHANGED committed
      PROVE  Atomic!Next
  BY <1>4, FinishResponds DEF Atomic!Next
<1>5. CASE (\E c \in Clients : Reply(c) \/ ReplyFails(c)) \/ (\E l \in Locals : Return(l))
  BY <1>4, <1>5 DEF Reply, ReplyFails, Return, tableVars, Actors
<1>6. ASSUME NEW a \in Actors, Acquire(a) \/ Locked(a) \/ ReadEntry(a) \/ WriteEntry(a)
      PROVE  UNCHANGED Atomic!vars
  <2>1. UNCHANGED <<committed, op>> /\ pc[a] # "done" /\ pc'[a] # "done"
    BY <1>6 DEF Acquire, RLock, Lock, Locked, ReadEntry, WriteEntry, tableVars, LockInv, LifeTypeOK
  <2>2. \A b \in Actors \ {a} : pc'[b] = pc[b] /\ result'[b] = result[b]
    BY <1>6 DEF Acquire, RLock, Lock, Locked, ReadEntry, WriteEntry, tableVars, LockInv, LifeTypeOK,
                DataInv, DataTyped
  <2> QED BY <2>1, <2>2, Unseen
<1>7. ASSUME NEW a \in Actors, Check(a) \/ Unlock(a)
      PROVE  Atomic!Next \/ UNCHANGED Atomic!vars
  BY <1>7, CheckPerforms, UnlockPerforms DEF Atomic!Next
<1> QED BY <1>1, <1>2, <1>3, <1>5, <1>6, <1>7 DEF Next, Step, Serve, Execute, Actors

(* Every request of a client and every call of a setter or getter takes    *)
(* place at one moment between its arrival and its answer, whole or not at *)
(* all, and gets the answer of that moment.                                *)
THEOREM RequestsAreAtomic == Spec => ImplementsRegisters
<1>1. Init => DataInv /\ LockInv
  BY DataInit, LockInit
<1>2. DataInv /\ LockInv /\ [Next]_serverVars => DataInv' /\ LockInv'
  BY DataNext, LockNext
<1> QED
  BY <1>1, <1>2, StartsAsRegisters, StepsAsRegisters, PTL
     DEF Spec, SafeSpec, ImplementsRegisters, Atomic!Spec
=============================================================================
