--------------------------- MODULE MockTty_proofs ---------------------------
(***************************************************************************)
(* Theorems about MockTty, for every set of connections, whatever their    *)
(* other ends write, and every size of the store: no tick and no write of  *)
(* a client undoes another; a serial endpoint ends with no request in      *)
(* hand; what is carried out was asked of this station, once and in order; *)
(* and the lines with their common store implement Registers.              *)
(***************************************************************************)
EXTENDS MockTty, Subsequences_proofs

LineTyped ==
  /\ DOMAIN rd = Lines /\ \A l \in Lines : "at" \in DOMAIN rd[l]
  /\ "at" \in DOMAIN upd

(* Whoever is between Lock and Unlock is the one who took it, and whoever  *)
(* is between RLock and RUnlock is among the readers.                      *)
Writing == {"pending", "write"}
Reading == {"held", "leave"}
LockInv ==
  /\ upd.at \in {"pending", "loaded", "stored"} <=> writer = Updater
  /\ \A l \in Lines : rd[l].at \in Writing <=> writer = l
  /\ \A l \in Lines : rd[l].at \in Reading <=> l \in readers

(* Nothing runs before the port or the listener is open. *)
NotYetOpen ==
  main = "opening" =>
    /\ port = "none" /\ upd.at = "none"
    /\ \A l \in Lines : rd[l].at = "none"

TtyInv == LineTyped /\ LockInv /\ NotYetOpen

----------------------------------------------------------------------------
(* One stream moves, and nothing of the endpoint but its place, the mutex  *)
(* and the entries.                                                        *)
MovesTo(l, S) ==
  /\ "at" \in DOMAIN rd'[l] /\ rd'[l].at \in S
  /\ DOMAIN rd' = Lines /\ \A k \in Lines \ {l} : rd'[k] = rd[k]

(* Going to a stage does that. *)
LEMMA Goes ==
  ASSUME LineTyped, NEW l \in Lines, NEW stage, Goto(l, stage)
  PROVE  MovesTo(l, {stage})
BY DEF Goto, LineTyped, MovesTo

(* So does filling or emptying its frame. *)
LEMMA Refilled ==
  ASSUME LineTyped, NEW l \in Lines, NEW r, "at" \in DOMAIN r,
         rd' = [rd EXCEPT ![l] = r]
  PROVE  MovesTo(l, {r.at})
BY DEF LineTyped, MovesTo

(* The mutex when a stream moves without it. *)
LEMMA MovesUnlocked ==
  ASSUME TtyInv, NEW l \in Lines, NEW S, MovesTo(l, S),
         (S \cap (Writing \cup Reading)) = {}, rd[l].at \notin Writing \cup Reading \cup {"none"},
         UNCHANGED <<writer, readers, upd, main, port>>
  PROVE  TtyInv'
BY DEF TtyInv, LineTyped, LockInv, NotYetOpen, MovesTo

(* Where a frame read so far leads: the stream goes on, ends, or has a     *)
(* request.                                                                *)
LEMMA FollowPlaces ==
  ASSUME NEW w
  PROVE  "at" \in DOMAIN Follow(w) /\ Follow(w).at \in {"read", "call", "ended"}
BY DEF Follow, Fresh, Idle

(* Reading frames touches no mutex. *)
LEMMA ReadKeeps ==
  ASSUME TtyInv, NEW l \in Lines, ReadFull(l) \/ ReadFails(l),
         UNCHANGED <<main, port>>
  PROVE  TtyInv'
<1>1. \E r : "at" \in DOMAIN r /\ r.at \in {"read", "call", "ended"} /\ rd' = [rd EXCEPT ![l] = r]
  <2>1. CASE ReadFull(l)
    <3> DEFINE w == rd[l].frame \o SubSeq(wire[l], 1, Missing(l))
    <3>1. rd' = [rd EXCEPT ![l] = Follow(w)]
      BY <2>1 DEF ReadFull
    <3> HIDE DEF w
    <3> QED BY <3>1, FollowPlaces
  <2>2. CASE ReadFails(l)
    <3> DEFINE r == [Idle EXCEPT !.at = "ended"]
    <3>1. "at" \in DOMAIN r /\ r.at = "ended"
      BY DEF Idle
    <3>2. rd' = [rd EXCEPT ![l] = r]
      BY <2>2 DEF ReadFails
    <3> HIDE DEF r
    <3> QED BY <3>1, <3>2
  <2> QED BY <2>1, <2>2
<1>2. PICK r : "at" \in DOMAIN r /\ r.at \in {"read", "call", "ended"} /\ rd' = [rd EXCEPT ![l] = r]
  BY <1>1
<1>3. MovesTo(l, {r.at})
  BY <1>2, Refilled DEF TtyInv
<1>4. ({r.at} \cap (Writing \cup Reading)) = {}
  BY <1>2 DEF Writing, Reading
<1>5. rd[l].at = "read" /\ UNCHANGED <<writer, readers, upd>>
  BY DEF ReadFull, ReadFails, At, storeVars
<1> QED BY <1>3, <1>4, <1>5, MovesUnlocked DEF Writing, Reading

(* What a request does to the mutex, step by step: the place of its stream *)
(* and the mutex change together.                                          *)
LEMMA RequestKeeps ==
  ASSUME TtyInv, NEW l \in Lines, Acquire(l) \/ Execute(l), UNCHANGED <<main, port>>
  PROVE  TtyInv'
<1> USE DEF TtyInv
<1>1. l # Updater /\ l # Nobody /\ Updater # Nobody
  BY LineAssumption
<1>2. CASE RLock(l)
  <2>1. MovesTo(l, Reading) /\ rd[l].at \in {"call", "again"}
    BY <1>2, Goes DEF RLock, At, MovesTo, Reading
  <2>2. readers' = readers \cup {l} /\ UNCHANGED <<writer, upd>>
    BY <1>2 DEF RLock
  <2> QED BY <2>1, <2>2 DEF MovesTo, LineTyped, LockInv, NotYetOpen, Writing, Reading
<1>3. CASE EndRead(l) \/ GiveUpReadLock(l) \/ RUnlock(l)
  <2>1. MovesTo(l, {"reply", "want"}) /\ rd[l].at \in Reading
    BY <1>3, Goes DEF EndRead, GiveUpReadLock, RUnlock, At, MovesTo, Reading
  <2>2. readers' = readers \ {l} /\ UNCHANGED <<writer, upd>>
    BY <1>3 DEF EndRead, GiveUpReadLock, RUnlock
  <2> QED BY <2>1, <2>2 DEF MovesTo, LineTyped, LockInv, NotYetOpen, Writing, Reading
<1>4. CASE Lock(l)
  <2>1. MovesTo(l, {"pending"}) /\ rd[l].at = "want"
    BY <1>4, Goes DEF Lock, At
  <2>2. writer = Nobody /\ writer' = l /\ UNCHANGED <<readers, upd>>
    BY <1>4 DEF Lock
  <2> QED BY <1>1, <2>1, <2>2, LineAssumption
          DEF MovesTo, LineTyped, LockInv, NotYetOpen, Writing, Reading
<1>5. CASE Locked(l)
  <2>1. MovesTo(l, {"write"}) /\ rd[l].at = "pending"
    BY <1>5, Goes DEF Locked, At
  <2>2. UNCHANGED <<writer, readers, upd>>
    BY <1>5 DEF Locked, storeVars
  <2> QED BY <2>1, <2>2 DEF MovesTo, LineTyped, LockInv, NotYetOpen, Writing, Reading
<1>6. CASE Unlock(l)
  <2>1. MovesTo(l, {"again"}) /\ rd[l].at = "write"
    BY <1>6, Goes DEF Unlock, At
  <2>2. writer' = Nobody /\ UNCHANGED <<readers, upd>>
    BY <1>6 DEF Unlock
  <2> QED BY <1>1, <2>1, <2>2, LineAssumption
          DEF MovesTo, LineTyped, LockInv, NotYetOpen, Writing, Reading
<1>7. CASE ReadEntry(l) \/ WriteEntry(l)
  <2>1. \A k \in Lines : "at" \in DOMAIN rd'[k] /\ rd'[k].at = rd[k].at
    BY <1>7 DEF ReadEntry, WriteEntry, LineTyped
  <2>2. DOMAIN rd' = Lines /\ UNCHANGED <<writer, readers, upd>>
    BY <1>7 DEF ReadEntry, WriteEntry, LineTyped, storeVars
  <2> QED BY <2>1, <2>2 DEF LineTyped, LockInv, NotYetOpen
<1>8. CASE Reply(l)
  <2>1. rd' = [rd EXCEPT ![l] = Fresh] /\ rd[l].at = "reply" /\ UNCHANGED <<writer, readers, upd>>
    BY <1>8 DEF Reply, At, storeVars
  <2>2. "at" \in DOMAIN Fresh /\ Fresh.at = "read"
    BY DEF Fresh, Idle
  <2>3. MovesTo(l, {"read"})
    BY <2>1, <2>2, Refilled
  <2> QED BY <2>1, <2>3, MovesUnlocked DEF Writing, Reading
<1> QED BY <1>2, <1>3, <1>4, <1>5, <1>6, <1>7, <1>8 DEF Acquire, Execute

(* The ticker takes the mutex and gives it back, between a tick and the    *)
(* next.                                                                   *)
LEMMA TickerKeeps ==
  ASSUME TtyInv, Tick \/ Count \/ EndTicker, UNCHANGED <<main, port>>
  PROVE  TtyInv'
<1>1. UNCHANGED <<rd, readers>> /\ "at" \in DOMAIN upd'
  BY DEF TtyInv, LineTyped, Tick, Count, Load, Store, TickUnlocks, TickOver, EndTicker, storeVars
<1>2. upd.at # "none"
  BY DEF Tick, Count, Load, Store, TickUnlocks, TickOver, EndTicker
<1>3. /\ upd'.at \in {"pending", "loaded", "stored"} <=> writer' = Updater
      /\ \A l \in Lines : writer' = l <=> writer = l
  BY LineAssumption
     DEF TtyInv, LineTyped, LockInv, Tick, Count, Load, Store, TickUnlocks, TickOver, EndTicker,
         storeVars
<1> QED BY <1>1, <1>2, <1>3 DEF TtyInv, LineTyped, LockInv, NotYetOpen

(* The endpoint opens, accepts and closes. *)
LEMMA EndpointKeeps ==
  ASSUME TtyInv, Endpoint \/ AcceptFails \/ Cancel \/ \E c \in Conns : Accept(c)
  PROVE  TtyInv'
<1>1. CASE OpenFails \/ ClosePort \/ SerialReturns \/ AcceptFails \/ Cancel
  BY <1>1 DEF TtyInv, LineTyped, LockInv, NotYetOpen, OpenFails, ClosePort, SerialReturns,
       AcceptFails, Cancel, lineVars, storeVars
<1>2. CASE Open
  <2>1. "at" \in DOMAIN Fresh /\ Fresh.at = "read"
    BY DEF Fresh, Idle
  <2>2. /\ DOMAIN rd' = Lines /\ \A l \in Lines : "at" \in DOMAIN rd'[l]
        /\ \A l \in Lines : rd'[l].at \in {"none", "read"}
    BY <1>2, <2>1, EndpointAssumption DEF Open, TtyInv, LineTyped, NotYetOpen
  <2>3. "at" \in DOMAIN upd' /\ upd'.at = "select" /\ upd.at = "none" /\ main' = "serving"
    BY <1>2 DEF Open, TtyInv, LineTyped, NotYetOpen
  <2>4. UNCHANGED <<writer, readers>> /\ \A l \in Lines : rd[l].at = "none"
    BY <1>2 DEF Open, TtyInv, NotYetOpen, storeVars
  <2> QED BY <2>2, <2>3, <2>4 DEF TtyInv, LineTyped, LockInv, NotYetOpen, Writing, Reading
<1>3. CASE \E c \in Conns : Accept(c)
  <2> PICK c \in Conns : Accept(c)
    BY <1>3
  <2>1. "at" \in DOMAIN Fresh /\ Fresh.at = "read"
    BY DEF Fresh, Idle
  <2>2. c \in Lines /\ rd' = [rd EXCEPT ![c] = Fresh] /\ rd[c].at = "none"
    BY EndpointAssumption DEF Accept, At
  <2>3. MovesTo(c, {"read"})
    BY <2>1, <2>2, Refilled DEF TtyInv
  <2>4. UNCHANGED <<writer, readers, upd, main>> /\ main # "opening"
    BY DEF Accept, storeVars
  <2> QED BY <2>2, <2>3, <2>4
          DEF TtyInv, MovesTo, LineTyped, LockInv, NotYetOpen, Writing, Reading
<1> QED BY <1>1, <1>2, <1>3 DEF Endpoint

(* At first nobody holds the mutex and nothing runs. *)
LEMMA TtyInit == Init => TtyInv
BY LineAssumption DEF Init, LineInit, TtyInv, LineTyped, LockInv, NotYetOpen, Idle, Writing,
     Reading

(* Every step keeps the mutex and the places in agreement. *)
LEMMA TtyNext == TtyInv /\ [Next]_ttyVars => TtyInv'
<1> SUFFICES ASSUME TtyInv, [Next]_ttyVars PROVE TtyInv'
  OBVIOUS
<1>1. CASE UNCHANGED ttyVars
  BY <1>1 DEF TtyInv, LineTyped, LockInv, NotYetOpen, ttyVars, lineVars, storeVars, endVars
<1>2. CASE Endpoint \/ AcceptFails \/ Cancel \/ \E c \in Conns : Accept(c)
  BY <1>2, EndpointKeeps
<1>3. CASE EndTicker \/ Ticker
  BY <1>3, TickerKeeps DEF Ticker, EndTicker, endVars
<1>4. CASE Quiet \/ ReadClosed \/ \E c \in Conns : HangUp(c)
  BY <1>4, ReadKeeps, EndpointAssumption DEF Quiet, ReadClosed, HangUp, endVars
<1>5. CASE \E l \in Lines : Receive(l)
  BY <1>5 DEF Receive, Transmit, TtyInv, LineTyped, LockInv, NotYetOpen, storeVars, endVars
<1>6. CASE \E l \in Lines : Stream(l)
  BY <1>6, ReadKeeps, RequestKeeps DEF Stream, endVars
<1> QED BY <1>1, <1>2, <1>3, <1>4, <1>5, <1>6 DEF Next

----------------------------------------------------------------------------
(* Only the ticker's own step and a write change the store, and the write  *)
(* holds the mutex that the ticker has while it counts.                    *)
LEMMA CountedValueStays ==
  TtyInv /\ NoLostTick /\ [Next]_ttyVars => NoLostTick'
<1> SUFFICES ASSUME TtyInv, NoLostTick, [Next]_ttyVars, upd'.at = "loaded"
             PROVE  mem'["holding"][Counter] = upd'.v
  BY DEF NoLostTick
<1>1. CASE Load
  BY <1>1 DEF Load, storeVars, TtyInv, LineTyped
<1>2. CASE UNCHANGED <<mem, upd>>
  BY <1>2 DEF NoLostTick
<1>3. CASE \E l \in Lines : WriteEntry(l)
  BY <1>3, LineAssumption DEF WriteEntry, At, TtyInv, LockInv, Writing
<1>4. CASE Tick \/ Store \/ TickUnlocks \/ TickOver \/ EndTicker \/ Open
  BY <1>4 DEF Tick, Store, TickUnlocks, TickOver, EndTicker, Open, TtyInv, LineTyped
<1>5. CASE Cancel \/ OpenFails \/ ClosePort \/ SerialReturns \/ AcceptFails
           \/ \E c \in Conns : Accept(c)
  BY <1>2, <1>5 DEF Cancel, OpenFails, ClosePort, SerialReturns, AcceptFails, Accept, lineVars,
       storeVars
<1>6. CASE \E l \in Lines : Receive(l) \/ ReadFull(l) \/ ReadFails(l)
  BY <1>2, <1>6 DEF Receive, Transmit, ReadFull, ReadFails, storeVars
<1>7. CASE \E l \in Lines : \/ RLock(l) \/ ReadEntry(l) \/ EndRead(l) \/ GiveUpReadLock(l)
                            \/ Lock(l) \/ Locked(l) \/ Unlock(l) \/ RUnlock(l) \/ Reply(l)
  BY <1>2, <1>7 DEF RLock, ReadEntry, EndRead, GiveUpReadLock, Lock, Locked, Unlock, RUnlock,
       Reply, storeVars
<1>8. CASE UNCHANGED ttyVars
  BY <1>2, <1>8 DEF ttyVars, lineVars, storeVars
<1> QED
  BY <1>1, <1>3, <1>4, <1>5, <1>6, <1>7, <1>8, EndpointAssumption
     DEF Next, Endpoint, Ticker, Count, Quiet, ReadClosed, HangUp, Stream, Acquire, Execute

(* startDynamic's register never loses a tick, nor a client's write: the   *)
(* value it loaded is still there when it stores its successor.            *)
THEOREM TicksAreKept == Spec => []NoLostTick
<1>1. Init => NoLostTick
  BY DEF Init, LineInit, NoLostTick
<1> QED
  BY <1>1, TtyInit, TtyNext, CountedValueStays, PTL DEF Spec, SafeSpec

----------------------------------------------------------------------------
(* A serial endpoint that has returned never opened its port, or has       *)
(* closed it and seen its stream end.                                      *)
Ended ==
  mode = "serial" /\ main = "returned" =>
    /\ port # "open"
    /\ rd[Serial].at \in {"none", "ended"}

(* It stays so: nothing starts the stream again. *)
LEMMA EndedStays == TtyInv /\ Ended /\ [Next]_ttyVars => Ended'
<1> SUFFICES ASSUME TtyInv, Ended, [Next]_ttyVars, mode' = "serial", main' = "returned"
             PROVE  port' # "open" /\ rd'[Serial].at \in {"none", "ended"}
  BY DEF Ended
<1>1. Serial \in Lines
  BY EndpointAssumption
<1>2. mode = "serial"
  BY DEF Next, Endpoint, Open, OpenFails, ClosePort, SerialReturns, AcceptFails, EndTicker, Cancel,
       Ticker, Quiet, ReadClosed, Accept, HangUp, Receive, Stream, endVars, ttyVars
<1>3. CASE OpenFails
  BY <1>1, <1>3 DEF OpenFails, TtyInv, NotYetOpen, lineVars
<1>4. CASE SerialReturns
  BY <1>1, <1>4 DEF SerialReturns, At, lineVars
<1>5. CASE ClosePort \/ Cancel \/ EndTicker \/ UNCHANGED ttyVars
  BY <1>2, <1>5 DEF ClosePort, Cancel, EndTicker, ttyVars, lineVars, endVars, Ended
<1>6. CASE Open \/ AcceptFails \/ \E c \in Conns : Accept(c)
  BY <1>2, <1>6 DEF Open, AcceptFails, Accept
<1>7. CASE Ticker \/ \E l \in Lines : Receive(l)
  BY <1>2, <1>7 DEF Ticker, Tick, Count, Load, Store, TickUnlocks, TickOver, Receive, Transmit,
       endVars, Ended
<1>8. CASE \E l \in Lines : (ReadFull(l) \/ ReadFails(l) \/ Acquire(l) \/ Execute(l)) /\ UNCHANGED endVars
  <2> PICK l \in Lines : (ReadFull(l) \/ ReadFails(l) \/ Acquire(l) \/ Execute(l)) /\ UNCHANGED endVars
    BY <1>8
  <2>1. port # "open" /\ port' = port /\ rd[Serial].at \in {"none", "ended"}
    BY <1>2 DEF Ended, endVars
  <2>2. rd[l].at \notin {"none", "ended"}
    BY DEF ReadFull, ReadFails, Acquire, RLock, Lock, Execute, ReadEntry, EndRead, GiveUpReadLock,
         Locked, WriteEntry, Unlock, RUnlock, Reply, At
  <2>3. rd'[Serial] = rd[Serial]
    BY <1>1, <2>1, <2>2 DEF ReadFull, ReadFails, Acquire, RLock, Lock, Execute, ReadEntry, EndRead,
         GiveUpReadLock, Locked, WriteEntry, Unlock, RUnlock, Reply, Goto, TtyInv, LineTyped
  <2> QED BY <2>1, <2>3
<1> QED
  BY <1>1, <1>3, <1>4, <1>5, <1>6, <1>7, <1>8, EndpointAssumption
     DEF Next, Endpoint, Quiet, ReadClosed, HangUp, Stream

(* runSerialEndpoint returns with its port closed and its stream's         *)
(* goroutine gone, which therefore holds the mutex in neither way and      *)
(* leaves no request half written.                                         *)
THEOREM SerialEndIsClean == Spec => []SerialEndsCleanly
<1>1. TtyInv /\ Ended => SerialEndsCleanly
  BY EndpointAssumption
     DEF TtyInv, LockInv, Ended, SerialEndsCleanly, Writing, Reading
<1>2. Init => Ended
  BY DEF Init, Ended
<1> QED
  BY <1>1, <1>2, TtyInit, TtyNext, EndedStays, PTL DEF Spec, SafeSpec

----------------------------------------------------------------------------
(* The bytes of a line *)

IsSent(f, qs, k) == f = [n \in 0..k |-> IF n = 0 THEN <<>> ELSE f[n - 1] \o qs[n].bytes]

(* A function that satisfies the recursive definition of Sent exists. *)
LEMMA SentExists == ASSUME NEW qs PROVE \A k \in Nat : \E f : IsSent(f, qs, k)
<1> DEFINE T == {k \in Nat : \E f : IsSent(f, qs, k)}
<1>1. 0 \in T
  <2> DEFINE f == [n \in 0..0 |-> <<>>]
  <2>1. f = [n \in 0..0 |-> IF n = 0 THEN <<>> ELSE f[n - 1] \o qs[n].bytes]
    OBVIOUS
  <2> QED
    BY <2>1 DEF IsSent
<1>2. ASSUME NEW k \in Nat, k \in T PROVE k + 1 \in T
  <2>1. PICK f : IsSent(f, qs, k)
    BY <1>2
  <2> DEFINE g == [n \in 0..k + 1 |-> IF n = k + 1 THEN f[k] \o qs[k + 1].bytes ELSE f[n]]
  <2>2. f = [n \in 0..k |-> IF n = 0 THEN <<>> ELSE f[n - 1] \o qs[n].bytes]
    BY <2>1 DEF IsSent
  <2>3. ASSUME NEW n \in 0..k + 1
        PROVE  g[n] = IF n = 0 THEN <<>> ELSE g[n - 1] \o qs[n].bytes
    <3>1. CASE n = k + 1
      <4>1. n # 0 /\ n - 1 = k /\ k \in 0..k + 1 /\ k # k + 1
        BY <3>1
      <4>2. g[n - 1] = f[k] /\ g[n] = f[k] \o qs[k + 1].bytes
        BY <3>1, <4>1
      <4> QED
        BY <3>1, <4>1, <4>2
    <3>2. CASE n # k + 1
      <4>1. n \in 0..k /\ g[n] = f[n]
        BY <3>2
      <4>2. f[n] = IF n = 0 THEN <<>> ELSE f[n - 1] \o qs[n].bytes
        <5> HIDE DEF g
        <5> QED
          BY <2>2, <4>1
      <4>3. n # 0 => n - 1 \in 0..k + 1 /\ n - 1 # k + 1
        BY <4>1
      <4>4. n # 0 => g[n - 1] = f[n - 1]
        BY <4>3
      <4> QED
        BY <4>1, <4>2, <4>4
    <3> QED
      BY <3>1, <3>2
  <2>4. g = [n \in 0..k + 1 |-> g[n]]
    OBVIOUS
  <2> HIDE DEF g
  <2>5. IsSent(g, qs, k + 1)
    BY <2>3, <2>4 DEF IsSent
  <2> QED
    BY <2>5
<1>3. Nat \subseteq T
  <2> HIDE DEF T
  <2> QED
    BY <1>1, <1>2, SetInduction
<1> QED
  BY <1>3

(* What the definition says of it. *)
LEMMA SentRecursion ==
  ASSUME NEW qs, Len(qs) \in Nat
  PROVE  /\ Sent(qs)[0] = <<>>
         /\ \A n \in 1..Len(qs) : Sent(qs)[n] = Sent(qs)[n - 1] \o qs[n].bytes
<1> DEFINE f == Sent(qs)
<1>1. IsSent(f, qs, Len(qs))
  <2> DEFINE P(g) == IsSent(g, qs, Len(qs))
  <2>1. \E g : P(g)
    BY SentExists
  <2>2. f = CHOOSE g : P(g)
    BY DEF Sent, IsSent
  <2> HIDE DEF P, f
  <2>3. P(f)
    BY <2>1, <2>2
  <2> QED
    BY <2>3 DEF P
<1> HIDE DEF f
<1>2. f = [n \in 0..Len(qs) |-> IF n = 0 THEN <<>> ELSE f[n - 1] \o qs[n].bytes]
  BY <1>1 DEF IsSent
<1>3. \A n \in 0..Len(qs) : f[n] = IF n = 0 THEN <<>> ELSE f[n - 1] \o qs[n].bytes
  BY <1>2
<1>4. f[0] = <<>> /\ \A n \in 1..Len(qs) : f[n] = f[n - 1] \o qs[n].bytes
  <2>1. 0 \in 0..Len(qs) /\ \A n \in 1..Len(qs) : n \in 0..Len(qs) /\ n # 0
    OBVIOUS
  <2> QED
    BY <1>3, <2>1, Zenon
<1> QED
  BY <1>4 DEF f

Octet == 0..255
ByteType == [v : Octet, of : Seq(Octet)]

(* How many bytes there are after the first n pieces. *)
EndOf(qs, n) == Len(Sent(qs)[n])

(* What is on a line after more pieces begins with what was there before.  *)
LEMMA SentTyped ==
  ASSUME NEW l \in Lines, NEW qs \in Seq(Pieces[l])
  PROVE  /\ \A n \in 0..Len(qs) : Sent(qs)[n] \in Seq(ByteType) /\ EndOf(qs, n) \in Nat
         /\ EndOf(qs, 0) = 0
         /\ \A n \in 1..Len(qs) :
              /\ qs[n] \in Pieces[l] /\ qs[n].bytes \in Seq(ByteType)
              /\ EndOf(qs, n) = EndOf(qs, n - 1) + Len(qs[n].bytes)
<1>1. Len(qs) \in Nat /\ \A n \in 1..Len(qs) : qs[n] \in Pieces[l] /\ qs[n].bytes \in Seq(ByteType)
  BY PiecesAssumption, LenProperties DEF ByteType, Octet
<1> DEFINE T == {n \in Nat : n <= Len(qs) => Sent(qs)[n] \in Seq(ByteType)}
<1>2. 0 \in T
  BY <1>1, SentRecursion, EmptySeq
<1>3. ASSUME NEW n \in Nat, n \in T PROVE n + 1 \in T
  <2> SUFFICES ASSUME n + 1 <= Len(qs) PROVE Sent(qs)[n + 1] \in Seq(ByteType)
    OBVIOUS
  <2>1. n + 1 \in 1..Len(qs) /\ (n + 1) - 1 = n /\ n <= Len(qs)
    BY <1>1
  <2>2. Sent(qs)[n + 1] = Sent(qs)[n] \o qs[n + 1].bytes
    BY <1>1, <2>1, SentRecursion
  <2>3. Sent(qs)[n] \in Seq(ByteType) /\ qs[n + 1].bytes \in Seq(ByteType)
    BY <1>1, <1>3, <2>1
  <2>4. Sent(qs)[n] \o qs[n + 1].bytes \in Seq(ByteType)
    BY <2>3, ConcatProperties
  <2> QED
    BY <2>2, <2>4
<1>4. Nat \subseteq T
  <2> HIDE DEF T
  <2> QED
    BY <1>2, <1>3, SetInduction
<1>5. \A n \in 0..Len(qs) : Sent(qs)[n] \in Seq(ByteType) /\ EndOf(qs, n) \in Nat
  BY <1>1, <1>4, LenProperties DEF EndOf
<1>6. EndOf(qs, 0) = 0
  BY <1>1, SentRecursion, EmptySeq DEF EndOf
<1>7. ASSUME NEW n \in 1..Len(qs)
      PROVE  EndOf(qs, n) = EndOf(qs, n - 1) + Len(qs[n].bytes)
  <2>1. Sent(qs)[n] = Sent(qs)[n - 1] \o qs[n].bytes
    BY <1>1, SentRecursion
  <2>2. n - 1 \in 0..Len(qs)
    BY <1>1
  <2>3. Sent(qs)[n - 1] \in Seq(ByteType) /\ qs[n].bytes \in Seq(ByteType)
    BY <1>1, <1>5, <2>2
  <2>4. Len(Sent(qs)[n - 1] \o qs[n].bytes) = Len(Sent(qs)[n - 1]) + Len(qs[n].bytes)
    BY <2>3, ConcatProperties
  <2> QED
    BY <2>1, <2>4 DEF EndOf
<1> QED
  BY <1>1, <1>5, <1>6, <1>7

LEMMA SentGrows ==
  ASSUME NEW l \in Lines, NEW qs \in Seq(Pieces[l]), NEW m \in 0..Len(qs), NEW n \in 0..m
  PROVE  /\ EndOf(qs, n) <= EndOf(qs, m)
         /\ \A x \in 1..EndOf(qs, n) : Sent(qs)[m][x] = Sent(qs)[n][x]
<1>1. Len(qs) \in Nat
  BY LenProperties
<1> DEFINE Kept(k) == \A j \in 0..k : /\ EndOf(qs, j) <= EndOf(qs, k)
                                      /\ \A x \in 1..EndOf(qs, j) : Sent(qs)[k][x] = Sent(qs)[j][x]
           T == {k \in Nat : k <= Len(qs) => Kept(k)}
<1>2. 0 \in T
  <2>1. EndOf(qs, 0) \in Nat
    BY <1>1, SentTyped
  <2> QED
    BY <2>1
<1>3. ASSUME NEW k \in Nat, k \in T PROVE k + 1 \in T
  <2> SUFFICES ASSUME k + 1 <= Len(qs) PROVE Kept(k + 1)
    OBVIOUS
  <2>1. k + 1 \in 1..Len(qs) /\ (k + 1) - 1 = k /\ k \in 0..Len(qs) /\ k <= Len(qs) /\ k + 1 \in 0..Len(qs)
    BY <1>1
  <2>2. Kept(k)
    BY <1>3, <2>1
  <2>3. Sent(qs)[k + 1] = Sent(qs)[k] \o qs[k + 1].bytes
    BY <1>1, <2>1, SentRecursion
  <2>4. Sent(qs)[k] \in Seq(ByteType) /\ qs[k + 1].bytes \in Seq(ByteType)
    BY <2>1, SentTyped
  <2>5. /\ \A x \in 1..EndOf(qs, k) : Sent(qs)[k + 1][x] = Sent(qs)[k][x]
        /\ EndOf(qs, k) <= EndOf(qs, k + 1)
    <3>1. PICK s, t : s = Sent(qs)[k] /\ t = qs[k + 1].bytes
      OBVIOUS
    <3>2. s \in Seq(ByteType) /\ t \in Seq(ByteType)
      BY <2>4, <3>1
    <3>3. Len(s) \in Nat /\ Len(t) \in Nat /\ Len(s \o t) = Len(s) + Len(t)
          /\ \A x \in 1..Len(s) : (s \o t)[x] = s[x]
      BY <3>2, ConcatProperties, LenProperties
    <3>4. Len(s) <= Len(s \o t)
      BY <3>3
    <3> QED
      BY <2>3, <3>1, <3>3, <3>4 DEF EndOf
  <2>6. ASSUME NEW j \in 0..k + 1
        PROVE  /\ EndOf(qs, j) <= EndOf(qs, k + 1)
               /\ \A x \in 1..EndOf(qs, j) : Sent(qs)[k + 1][x] = Sent(qs)[j][x]
    <3>1. j \in 0..Len(qs)
      BY <2>1
    <3>2. EndOf(qs, j) \in Nat /\ EndOf(qs, k) \in Nat /\ EndOf(qs, k + 1) \in Nat
      BY <2>1, <3>1, SentTyped
    <3>3. CASE j = k + 1
      BY <3>2, <3>3
    <3>4. CASE j # k + 1
      <4>1. j \in 0..k
        BY <3>4
      <4>2. EndOf(qs, j) <= EndOf(qs, k) /\ \A x \in 1..EndOf(qs, j) : Sent(qs)[k][x] = Sent(qs)[j][x]
        BY <2>2, <4>1
      <4>3. \A x \in 1..EndOf(qs, j) : x \in 1..EndOf(qs, k)
        BY <3>2, <4>2
      <4> QED
        BY <2>5, <3>2, <4>2, <4>3
    <3> QED
      BY <3>3, <3>4
  <2> QED
    BY <2>6
<1>4. Nat \subseteq T
  <2> HIDE DEF T
  <2> QED
    BY <1>2, <1>3, SetInduction
<1>5. m \in Nat /\ m <= Len(qs)
  BY <1>1
<1> QED
  BY <1>4, <1>5

(* All the bytes written. *)
LineOf(qs) == Sent(qs)[Len(qs)]

(* Each piece lies between the end of the one before and its own. *)
LEMMA PieceInPlace ==
  ASSUME NEW l \in Lines, NEW qs \in Seq(Pieces[l]), NEW n \in 1..Len(qs),
         NEW i \in 1..Len(qs[n].bytes)
  PROVE  LineOf(qs)[EndOf(qs, n - 1) + i] = qs[n].bytes[i]
<1>1. Len(qs) \in Nat /\ n - 1 \in 0..Len(qs) /\ n \in 0..Len(qs) /\ Len(qs) \in 0..Len(qs)
  BY LenProperties
<1>2. PICK s, t : s = Sent(qs)[n - 1] /\ t = qs[n].bytes
  OBVIOUS
<1>3. s \in Seq(ByteType) /\ t \in Seq(ByteType)
  BY <1>1, <1>2, SentTyped
<1>4. Len(s) \in Nat /\ Len(t) \in Nat /\ Len(s \o t) = Len(s) + Len(t)
      /\ \A x \in 1..Len(s) + Len(t) : (s \o t)[x] = IF x <= Len(s) THEN s[x] ELSE t[x - Len(s)]
  BY <1>3, ConcatProperties, LenProperties
<1>5. i \in 1..Len(t)
  BY <1>2
<1>6. Len(s) + i \in 1..Len(s) + Len(t) /\ ~ (Len(s) + i <= Len(s)) /\ (Len(s) + i) - Len(s) = i
  BY <1>4, <1>5
<1>7. (s \o t)[Len(s) + i] = t[i]
  BY <1>4, <1>6
<1>8. Sent(qs)[n] = s \o t
  BY <1>1, <1>2, SentRecursion
<1>9. EndOf(qs, n - 1) + i \in 1..EndOf(qs, n) /\ Sent(qs)[n][EndOf(qs, n - 1) + i] = qs[n].bytes[i]
  BY <1>2, <1>4, <1>6, <1>7, <1>8 DEF EndOf
<1> QED
  BY <1>1, <1>9, SentGrows DEF LineOf

(* One more piece. *)
LEMMA SentAppend ==
  ASSUME NEW l \in Lines, NEW qs \in Seq(Pieces[l]), NEW p \in Pieces[l]
  PROVE  /\ \A n \in 0..Len(qs) : Sent(Append(qs, p))[n] = Sent(qs)[n]
         /\ LineOf(Append(qs, p)) = LineOf(qs) \o p.bytes
<1> DEFINE rs == Append(qs, p)
<1>1. /\ Len(qs) \in Nat /\ rs \in Seq(Pieces[l]) /\ Len(rs) = Len(qs) + 1
      /\ \A n \in 1..Len(qs) : rs[n] = qs[n]
      /\ rs[Len(qs) + 1] = p
  BY LenProperties, AppendProperties
<1> HIDE DEF rs
<1>10. Len(rs) \in Nat
  BY <1>1
<1> DEFINE T == {n \in Nat : n <= Len(qs) => Sent(rs)[n] = Sent(qs)[n]}
<1>2. 0 \in T
  <2>1. Sent(rs)[0] = <<>> /\ Sent(qs)[0] = <<>>
    BY <1>1, <1>10, SentRecursion
  <2> QED
    BY <2>1
<1>3. ASSUME NEW n \in Nat, n \in T PROVE n + 1 \in T
  <2> SUFFICES ASSUME n + 1 <= Len(qs) PROVE Sent(rs)[n + 1] = Sent(qs)[n + 1]
    OBVIOUS
  <2>1. n + 1 \in 1..Len(qs) /\ n + 1 \in 1..Len(rs) /\ (n + 1) - 1 = n /\ n <= Len(qs)
    BY <1>1
  <2>2. Sent(qs)[n + 1] = Sent(qs)[n] \o qs[n + 1].bytes
    BY <1>1, <2>1, SentRecursion
  <2>3. Sent(rs)[n + 1] = Sent(rs)[n] \o rs[n + 1].bytes
    <3>1. \A k \in 1..Len(rs) : Sent(rs)[k] = Sent(rs)[k - 1] \o rs[k].bytes
      BY <1>10, SentRecursion
    <3> QED
      BY <2>1, <3>1
  <2>4. Sent(rs)[n] = Sent(qs)[n] /\ rs[n + 1] = qs[n + 1]
    BY <1>1, <1>3, <2>1
  <2> QED
    BY <2>2, <2>3, <2>4
<1>4. Nat \subseteq T
  <2> HIDE DEF T
  <2> QED
    BY <1>2, <1>3, SetInduction
<1>5. \A n \in 0..Len(qs) : Sent(rs)[n] = Sent(qs)[n]
  BY <1>1, <1>4
<1>6. LineOf(rs) = LineOf(qs) \o p.bytes
  <2>1. Len(rs) \in Nat /\ Len(rs) \in 1..Len(rs) /\ Len(rs) - 1 = Len(qs) /\ Len(qs) \in 0..Len(qs)
    BY <1>1
  <2>2. Sent(rs)[Len(rs)] = Sent(rs)[Len(qs)] \o rs[Len(rs)].bytes
    BY <2>1, SentRecursion
  <2>3. Sent(rs)[Len(qs)] = Sent(qs)[Len(qs)] /\ rs[Len(rs)] = p
    BY <1>1, <1>5, <2>1
  <2> QED
    BY <2>2, <2>3 DEF LineOf
<1> QED
  BY <1>5, <1>6 DEF rs

----------------------------------------------------------------------------
(* Stretches of a sequence *)

LEMMA Stretch ==
  ASSUME NEW S, NEW s \in Seq(S), NEW a \in Nat, NEW c \in a..Len(s)
  PROVE  /\ SubSeq(s, a + 1, c) \in Seq(S) /\ Len(SubSeq(s, a + 1, c)) = c - a
         /\ \A i \in 1..c - a : SubSeq(s, a + 1, c)[i] = s[a + i]
<1>1. Len(s) \in Nat /\ c \in Nat /\ a <= c /\ c <= Len(s)
  BY LenProperties
<1>2. a + 1 \in Int /\ c \in Int /\ \A i \in a + 1..c : i \in 1..Len(s)
  BY <1>1
<1>3. \A i \in a + 1..c : s[i] \in S
  BY <1>2, ElementOfSeq
<1>4. /\ SubSeq(s, a + 1, c) \in Seq(S)
      /\ Len(SubSeq(s, a + 1, c)) = IF a + 1 <= c THEN c - (a + 1) + 1 ELSE 0
      /\ \A i \in 1..c - (a + 1) + 1 : SubSeq(s, a + 1, c)[i] = s[(a + 1) + i - 1]
  BY <1>2, <1>3, SubSeqProperties
<1>5. c - (a + 1) + 1 = c - a /\ (a + 1 <= c \/ c - a = 0)
  BY <1>1
<1>6. \A i \in 1..c - a : (a + 1) + i - 1 = a + i
  BY <1>1
<1> QED
  BY <1>4, <1>5, <1>6

(* Two that touch make one. *)
LEMMA StretchesJoin ==
  ASSUME NEW S, NEW s \in Seq(S), NEW a \in Nat, NEW c \in a..Len(s), NEW b \in c..Len(s)
  PROVE  SubSeq(s, a + 1, c) \o SubSeq(s, c + 1, b) = SubSeq(s, a + 1, b)
<1>1. Len(s) \in Nat /\ c \in Nat /\ b \in Nat /\ a <= c /\ c <= b /\ b <= Len(s) /\ b \in a..Len(s)
  BY LenProperties
<1>2. PICK u, v, w : u = SubSeq(s, a + 1, c) /\ v = SubSeq(s, c + 1, b) /\ w = SubSeq(s, a + 1, b)
  OBVIOUS
<1>3. u \in Seq(S) /\ Len(u) = c - a /\ \A i \in 1..c - a : u[i] = s[a + i]
  BY <1>2, Stretch
<1>4. v \in Seq(S) /\ Len(v) = b - c /\ \A i \in 1..b - c : v[i] = s[c + i]
  BY <1>1, <1>2, Stretch
<1>5. w \in Seq(S) /\ Len(w) = b - a /\ \A i \in 1..b - a : w[i] = s[a + i]
  BY <1>1, <1>2, Stretch
<1>6. /\ u \o v \in Seq(S) /\ Len(u \o v) = Len(u) + Len(v)
      /\ \A i \in 1..Len(u) + Len(v) : (u \o v)[i] = IF i <= Len(u) THEN u[i] ELSE v[i - Len(u)]
  BY <1>3, <1>4, ConcatProperties
<1>7. Len(u) + Len(v) = b - a
  BY <1>1, <1>3, <1>4
<1>8. ASSUME NEW i \in 1..b - a
      PROVE  (u \o v)[i] = w[i]
  <2>1. CASE i <= c - a
    <3>1. i \in 1..c - a
      BY <1>1, <2>1
    <3>2. (u \o v)[i] = u[i]
      BY <1>3, <1>6, <1>7, <2>1
    <3> QED
      BY <1>3, <1>5, <3>1, <3>2
  <2>2. CASE ~ (i <= c - a)
    <3>1. i - (c - a) \in 1..b - c /\ c + (i - (c - a)) = a + i
      BY <1>1, <2>2
    <3> QED
      BY <1>3, <1>4, <1>5, <1>6, <1>7, <2>2, <3>1
  <2> QED
    BY <2>1, <2>2
<1>9. u \o v = w
  BY <1>5, <1>6, <1>7, <1>8, SeqEqual
<1> QED
  BY <1>2, <1>9

(* Part of a rest: its beginning and what comes after. *)
LEMMA StretchOfRest ==
  ASSUME NEW S, NEW s \in Seq(S), NEW c \in 0..Len(s), NEW m \in 0..Len(s) - c,
         NEW w, w = SubSeq(s, c + 1, Len(s))
  PROVE  /\ Len(w) = Len(s) - c
         /\ SubSeq(w, 1, m) = SubSeq(s, c + 1, c + m)
         /\ SubSeq(w, m + 1, Len(w)) = SubSeq(s, (c + m) + 1, Len(s))
<1>1. /\ Len(s) \in Nat /\ c \in Nat /\ m \in Nat /\ c + m \in Nat /\ c + m <= Len(s)
      /\ Len(s) \in c..Len(s) /\ c + m \in c..Len(s) /\ Len(s) \in c + m..Len(s) /\ (c + m) - c = m
  BY LenProperties
<1>2. w \in Seq(S) /\ Len(w) = Len(s) - c /\ \A i \in 1..Len(s) - c : w[i] = s[c + i]
  BY <1>1, Stretch
<1>3. PICK u, v : u = SubSeq(s, c + 1, c + m) /\ v = SubSeq(s, (c + m) + 1, Len(s))
  OBVIOUS
<1>4. u \in Seq(S) /\ Len(u) = m /\ \A i \in 1..m : u[i] = s[c + i]
  BY <1>1, <1>3, Stretch
<1>5. v \in Seq(S) /\ Len(v) = Len(s) - (c + m) /\ \A i \in 1..Len(s) - (c + m) : v[i] = s[(c + m) + i]
  BY <1>1, <1>3, Stretch
<1>6. PICK x, y : x = SubSeq(w, 1, m) /\ y = SubSeq(w, m + 1, Len(w))
  OBVIOUS
<1>7. x \in Seq(S) /\ Len(x) = m /\ \A i \in 1..m : x[i] = w[i]
  <2>1. 0 \in Nat /\ 0 + 1 = 1 /\ m \in 0..Len(w) /\ m - 0 = m /\ \A i \in 1..m : 0 + i = i
    BY <1>1, <1>2
  <2>2. w \in Seq(S) /\ 0 \in Nat /\ m \in 0..Len(w)
    BY <1>2, <2>1
  <2>3. /\ SubSeq(w, 0 + 1, m) \in Seq(S) /\ Len(SubSeq(w, 0 + 1, m)) = m - 0
        /\ \A i \in 1..m - 0 : SubSeq(w, 0 + 1, m)[i] = w[0 + i]
    BY <2>2, Stretch
  <2>4. SubSeq(w, 0 + 1, m) = x
    BY <1>6, <2>1
  <2> QED
    BY <2>1, <2>3, <2>4
<1>8. y \in Seq(S) /\ Len(y) = Len(w) - m /\ \A i \in 1..Len(w) - m : y[i] = w[m + i]
  <2>1. Len(w) \in m..Len(w)
    BY <1>1, <1>2
  <2>2. w \in Seq(S) /\ m \in Nat
    BY <1>1, <1>2
  <2>3. /\ SubSeq(w, m + 1, Len(w)) \in Seq(S) /\ Len(SubSeq(w, m + 1, Len(w))) = Len(w) - m
        /\ \A i \in 1..Len(w) - m : SubSeq(w, m + 1, Len(w))[i] = w[m + i]
    BY <2>1, <2>2, Stretch
  <2> QED
    BY <1>6, <2>3
<1>9. x = u
  <2>1. \A i \in 1..m : i \in 1..Len(s) - c
    BY <1>1
  <2>2. \A i \in 1..m : x[i] = u[i]
    BY <1>2, <1>4, <1>7, <2>1
  <2> QED
    BY <1>4, <1>7, <2>2, SeqEqual
<1>10. y = v
  <2>1. Len(w) - m = Len(s) - (c + m)
    BY <1>1, <1>2
  <2>2. \A i \in 1..Len(s) - (c + m) : m + i \in 1..Len(s) - c /\ c + (m + i) = (c + m) + i
    BY <1>1
  <2>3. \A i \in 1..Len(s) - (c + m) : y[i] = v[i]
    BY <1>2, <1>5, <1>8, <2>1, <2>2
  <2> QED
    BY <1>5, <1>8, <2>1, <2>3, SeqEqual
<1> QED
  BY <1>2, <1>3, <1>6, <1>9, <1>10

(* More behind does not change a stretch, and makes a rest longer. *)
LEMMA StretchExtended ==
  ASSUME NEW S, NEW s \in Seq(S), NEW t \in Seq(S), NEW a \in Nat, NEW c \in a..Len(s)
  PROVE  /\ Len(s \o t) = Len(s) + Len(t)
         /\ SubSeq(s \o t, a + 1, c) = SubSeq(s, a + 1, c)
         /\ SubSeq(s, c + 1, Len(s)) \o t = SubSeq(s \o t, c + 1, Len(s \o t))
<1>1. Len(s) \in Nat /\ Len(t) \in Nat /\ c \in Nat /\ a <= c /\ c <= Len(s)
  BY LenProperties
<1>2. PICK r : r = s \o t
  OBVIOUS
<1>3. /\ r \in Seq(S) /\ Len(r) = Len(s) + Len(t)
      /\ \A i \in 1..Len(s) + Len(t) : r[i] = IF i <= Len(s) THEN s[i] ELSE t[i - Len(s)]
  BY <1>2, ConcatProperties
<1>4. /\ c \in a..Len(r) /\ Len(s) \in c..Len(r) /\ Len(r) \in Len(s)..Len(r) /\ Len(r) \in Nat
      /\ Len(s) \in Nat /\ Len(s) \in c..Len(s) /\ Len(r) - Len(s) = Len(t)
  BY <1>1, <1>3
<1>5. SubSeq(r, a + 1, c) = SubSeq(s, a + 1, c)
  <2>1. PICK u, v : u = SubSeq(r, a + 1, c) /\ v = SubSeq(s, a + 1, c)
    OBVIOUS
  <2>2. u \in Seq(S) /\ Len(u) = c - a /\ \A i \in 1..c - a : u[i] = r[a + i]
    BY <1>3, <1>4, <2>1, Stretch
  <2>3. v \in Seq(S) /\ Len(v) = c - a /\ \A i \in 1..c - a : v[i] = s[a + i]
    BY <2>1, Stretch
  <2>4. \A i \in 1..c - a : a + i \in 1..Len(s) + Len(t) /\ a + i <= Len(s)
    BY <1>1
  <2>5. \A i \in 1..c - a : u[i] = v[i]
    BY <1>3, <2>2, <2>3, <2>4
  <2> QED
    BY <2>1, <2>2, <2>3, <2>5, SeqEqual
<1>6. SubSeq(r, c + 1, Len(s)) = SubSeq(s, c + 1, Len(s))
  <2>1. PICK u, v : u = SubSeq(r, c + 1, Len(s)) /\ v = SubSeq(s, c + 1, Len(s))
    OBVIOUS
  <2>2. u \in Seq(S) /\ Len(u) = Len(s) - c /\ \A i \in 1..Len(s) - c : u[i] = r[c + i]
    BY <1>1, <1>3, <1>4, <2>1, Stretch
  <2>3. v \in Seq(S) /\ Len(v) = Len(s) - c /\ \A i \in 1..Len(s) - c : v[i] = s[c + i]
    BY <1>1, <1>4, <2>1, Stretch
  <2>4. \A i \in 1..Len(s) - c : c + i \in 1..Len(s) + Len(t) /\ c + i <= Len(s)
    BY <1>1
  <2>5. \A i \in 1..Len(s) - c : u[i] = v[i]
    BY <1>3, <2>2, <2>3, <2>4
  <2> QED
    BY <2>1, <2>2, <2>3, <2>5, SeqEqual
<1>7. SubSeq(r, Len(s) + 1, Len(r)) = t
  <2>1. PICK u : u = SubSeq(r, Len(s) + 1, Len(r))
    OBVIOUS
  <2>2. u \in Seq(S) /\ Len(u) = Len(t) /\ \A i \in 1..Len(t) : u[i] = r[Len(s) + i]
    BY <1>3, <1>4, <2>1, Stretch
  <2>3. \A i \in 1..Len(t) : /\ Len(s) + i \in 1..Len(s) + Len(t) /\ ~ (Len(s) + i <= Len(s))
                             /\ (Len(s) + i) - Len(s) = i
    BY <1>1
  <2>4. \A i \in 1..Len(t) : u[i] = t[i]
    BY <1>3, <2>2, <2>3
  <2> QED
    BY <2>1, <2>2, <2>4, SeqEqual
<1>8. SubSeq(r, c + 1, Len(s)) \o SubSeq(r, Len(s) + 1, Len(r)) = SubSeq(r, c + 1, Len(r))
  BY <1>1, <1>3, <1>4, StretchesJoin
<1> QED
  BY <1>2, <1>3, <1>5, <1>6, <1>7, <1>8

----------------------------------------------------------------------------
LEMMA BytesTyped ==
  ASSUME NEW w \in Seq(ByteType)
  PROVE  Len(w) \in Nat /\ \A i \in 1..Len(w) : w[i].v \in Octet /\ w[i].v \in Nat
<1>1. Len(w) \in Nat /\ \A i \in 1..Len(w) : w[i] \in ByteType
  BY LenProperties, ElementOfSeq
<1>2. \A b \in ByteType : b.v \in Octet
  BY DEF ByteType
<1>3. \A v \in Octet : v \in Nat
  BY DEF Octet
<1> QED
  BY <1>1, <1>2, <1>3

(* How long a frame is, from its first bytes on.                           *)
LEMMA LengthIs ==
  ASSUME NEW w, Len(w) \in Nat
  PROVE  /\ Len(w) < 2 => Length(w) = 2
         /\ Len(w) >= 2 /\ w[2].v \in Short => Length(w) = 8
         /\ Len(w) >= 2 /\ w[2].v \notin Short /\ Len(w) < 7 => Length(w) = 7
         /\ Len(w) >= 7 /\ w[2].v \notin Short => Length(w) = 9 + w[7].v
<1>1. Len(w) < 2 => Length(w) = 2
  BY DEF Length
<1>2. ASSUME Len(w) >= 2 PROVE ~ (Len(w) < 2)
  BY <1>2
<1>3. ASSUME Len(w) >= 7 PROVE ~ (Len(w) < 7) /\ ~ (Len(w) < 2)
  BY <1>3
<1> QED
  BY <1>1, <1>2, <1>3, Zenon DEF Length

LEMMA LengthTyped ==
  ASSUME NEW w \in Seq(ByteType)
  PROVE  Length(w) \in Nat /\ Length(w) >= 2 /\ (Len(w) = Length(w) => Len(w) >= 8)
<1>1. Len(w) \in Nat /\ \A i \in 1..Len(w) : w[i].v \in Octet /\ w[i].v \in Nat
  BY BytesTyped
<1>2. CASE Len(w) < 2
  BY <1>1, <1>2, LengthIs
<1>3. CASE Len(w) >= 2 /\ w[2].v \in Short
  <2>1. Length(w) = 8
    BY <1>1, <1>3, LengthIs
  <2>2. 8 \in Nat /\ 8 >= 2 /\ 8 >= 8
    OBVIOUS
  <2> QED
    BY <2>1, <2>2, Zenon
<1>4. CASE Len(w) >= 2 /\ w[2].v \notin Short /\ Len(w) < 7
  <2>1. Length(w) = 7
    BY <1>1, <1>4, LengthIs
  <2>2. 7 \in Nat /\ 7 >= 2
    OBVIOUS
  <2>3. Len(w) # 7
    <3>1. \A m \in Nat : m < 7 => m # 7
      OBVIOUS
    <3> QED
      BY <1>1, <1>4, <3>1, Zenon
  <2> QED
    BY <2>1, <2>2, <2>3, Zenon
<1>5. CASE Len(w) >= 7 /\ w[2].v \notin Short
  <2>1. Length(w) = 9 + w[7].v
    BY <1>1, <1>5, LengthIs
  <2>2. w[7].v \in Nat
    BY <1>1, <1>5
  <2> QED
    BY <1>1, <2>1, <2>2
<1> QED
  BY <1>1, <1>2, <1>3, <1>4, <1>5

(* The beginning of a whole frame announces no more than the frame has.    *)
LEMMA LengthOfPrefix ==
  ASSUME NEW w \in Seq(ByteType), NEW u \in Seq(ByteType),
         Len(u) <= Len(w), \A i \in 1..Len(u) : u[i] = w[i], Len(w) = Length(w)
  PROVE  Length(u) <= Len(w) /\ (Len(u) >= Length(u) => Length(u) = Len(w))
<1>1. Len(w) \in Nat /\ Len(u) \in Nat /\ \A i \in 1..Len(w) : w[i].v \in Nat
  BY BytesTyped
<1>2. Len(w) >= 8
  BY LengthTyped
<1>3. CASE Len(u) < 2
  <2>1. Length(u) = 2
    BY <1>1, <1>3, LengthIs
  <2> QED
    BY <1>1, <1>2, <1>3, <2>1
<1>4. CASE Len(u) >= 2 /\ w[2].v \in Short
  <2>1. u[2] = w[2] /\ Len(w) >= 2
    BY <1>1, <1>2, <1>4
  <2>2. Length(u) = 8 /\ Length(w) = 8
    BY <1>1, <1>4, <2>1, LengthIs
  <2> QED
    BY <1>1, <2>2
<1>5. CASE Len(u) >= 2 /\ w[2].v \notin Short /\ Len(u) < 7
  <2>1. u[2] = w[2]
    BY <1>1, <1>5
  <2>2. Length(u) = 7
    BY <1>1, <1>5, <2>1, LengthIs
  <2> QED
    BY <1>1, <1>2, <1>5, <2>2
<1>6. CASE Len(u) >= 7 /\ w[2].v \notin Short
  <2>1. u[2] = w[2] /\ u[7] = w[7] /\ Len(w) >= 7 /\ w[7].v \in Nat
    BY <1>1, <1>2, <1>6
  <2>2. Length(u) = 9 + w[7].v /\ Length(w) = 9 + w[7].v
    BY <1>1, <1>6, <2>1, LengthIs
  <2> QED
    BY <1>1, <2>1, <2>2
<1> QED
  BY <1>1, <1>3, <1>4, <1>5, <1>6

(* A body is a sequence of numbers. *)
LEMMA BodyTyped ==
  ASSUME NEW w \in Seq(ByteType), Len(w) >= 2
  PROVE  Body(w) \in Seq(Octet) /\ Len(Body(w)) = Len(w) - 2
<1>1. Len(w) \in Nat /\ \A i \in 1..Len(w) : w[i].v \in Octet /\ w[i].v \in Nat
  BY BytesTyped
<1>2. Values(w) \in [1..Len(w) -> Octet]
  BY <1>1 DEF Values
<1>3. PICK u : u = Values(w)
  OBVIOUS
<1>4. u \in Seq(Octet) /\ DOMAIN u = 1..Len(w)
  <2>1. u \in [1..Len(w) -> Octet] /\ Len(w) \in Nat
    BY <1>1, <1>2, <1>3
  <2> QED
    BY <2>1, SeqDef
<1>5. Len(u) = Len(w)
  BY <1>1, <1>4, LenProperties
<1>6. 0 \in Nat /\ Len(w) - 2 \in 0..Len(u) /\ 0 + 1 = 1 /\ (Len(w) - 2) - 0 = Len(w) - 2
  BY <1>1, <1>5
<1>7. SubSeq(u, 0 + 1, Len(w) - 2) \in Seq(Octet) /\ Len(SubSeq(u, 0 + 1, Len(w) - 2)) = (Len(w) - 2) - 0
  <2>1. u \in Seq(Octet) /\ 0 \in Nat /\ Len(w) - 2 \in 0..Len(u)
    BY <1>4, <1>6
  <2> QED
    BY <2>1, Stretch
<1>8. Body(w) = SubSeq(u, 0 + 1, Len(w) - 2)
  BY <1>3, <1>6 DEF Body
<1> QED
  BY <1>6, <1>7, <1>8

----------------------------------------------------------------------------
(* What a line owes *)

Unread == {"none", "read"}
InHand == {"call", "held", "want", "pending", "write", "again", "leave", "reply"}

(* The frames d are those of the pieces after the k-th that ask; the i-th  *)
(* is the piece f[i].                                                      *)
DueFrom(d, qs, k, f) ==
  /\ d \in Seq(Seq(Octet))
  /\ f \in [1..Len(d) -> k + 1..Len(qs)]
  /\ \A i, j \in 1..Len(d) : i < j => f[i] < f[j]
  /\ \A i \in 1..Len(d) : qs[f[i]].asks /\ d[i] = Body(qs[f[i]].bytes)
  /\ \A j \in k + 1..Len(qs) : qs[j].asks => \E i \in 1..Len(d) : f[i] = j

(* A line that carried the pieces qs, of whose bytes a belong to frames    *)
(* that are done with and c are read; r is its goroutine, w what it has    *)
(* not read, d what is due, and cl whether all the pieces are whole.  The  *)
(* frame it reads begins behind every piece that is no longer due, and     *)
(* where one of them ends as long as all are whole.  A request in hand is  *)
(* a piece that is due: the first one, if all are whole.                   *)
Carries(l, r, w, n, d, cl, qs, a, c, k, f) ==
  /\ qs \in Seq(Pieces[l]) /\ Len(qs) = n /\ n <= MaxPieces[l]
  /\ a \in Nat /\ c \in a..Len(LineOf(qs)) /\ w = SubSeq(LineOf(qs), c + 1, Len(LineOf(qs)))
  /\ k \in 0..Len(qs) /\ DueFrom(d, qs, k, f)
  /\ r.at \in Unread =>
       /\ r.frame = SubSeq(LineOf(qs), a + 1, c) /\ Len(r.frame) < Length(r.frame)
       /\ EndOf(qs, k) <= a /\ (cl => EndOf(qs, k) = a)
  /\ r.at = "none" => r.frame = <<>>
  /\ r.at \in InHand =>
       \E j \in k + 1..Len(qs) :
         /\ qs[j].asks /\ r.frame = Body(qs[j].bytes) /\ r.op = Request(r.frame)
         /\ EndOf(qs, j) = c /\ (cl => j = k + 1)
  /\ cl => \A j \in 1..Len(qs) : qs[j].whole

LineOk(l, r, w, n, d, cl) == \E qs, a, c, k, f : Carries(l, r, w, n, d, cl, qs, a, c, k, f)

(* All that is on a line. *)
LEMMA LineOfTyped ==
  ASSUME NEW l \in Lines, NEW qs \in Seq(Pieces[l])
  PROVE  /\ LineOf(qs) \in Seq(ByteType) /\ Len(LineOf(qs)) = EndOf(qs, Len(qs))
         /\ Len(LineOf(qs)) \in Nat /\ Len(qs) \in Nat
         /\ \A m \in 0..Len(qs) : EndOf(qs, m) \in 0..Len(LineOf(qs))
<1>1. Len(qs) \in Nat /\ Len(qs) \in 0..Len(qs)
  BY LenProperties
<1>2. LineOf(qs) \in Seq(ByteType) /\ Len(LineOf(qs)) = EndOf(qs, Len(qs)) /\ EndOf(qs, Len(qs)) \in Nat
  BY <1>1, SentTyped DEF LineOf, EndOf
<1>3. \A m \in 0..Len(qs) : EndOf(qs, m) \in Nat /\ EndOf(qs, m) <= EndOf(qs, Len(qs))
  BY <1>1, SentTyped, SentGrows
<1> QED
  BY <1>1, <1>2, <1>3

(* The end of a piece is behind that of the one before. *)
LEMMA EndsGrow ==
  ASSUME NEW l \in Lines, NEW qs \in Seq(Pieces[l]), NEW j \in 1..Len(qs), qs[j].whole
  PROVE  /\ EndOf(qs, j - 1) \in Nat /\ EndOf(qs, j) \in Nat /\ Len(qs[j].bytes) >= 8
         /\ EndOf(qs, j) = EndOf(qs, j - 1) + Len(qs[j].bytes)
         /\ qs[j].bytes \in Seq(ByteType) /\ Len(qs[j].bytes) = Length(qs[j].bytes)
<1>1. Len(qs) \in Nat /\ j - 1 \in 0..Len(qs) /\ j \in 0..Len(qs)
  BY LenProperties
<1>2. /\ qs[j] \in Pieces[l] /\ qs[j].bytes \in Seq(ByteType)
      /\ EndOf(qs, j) = EndOf(qs, j - 1) + Len(qs[j].bytes)
      /\ EndOf(qs, j - 1) \in Nat /\ EndOf(qs, j) \in Nat
  BY <1>1, SentTyped
<1>3. Len(qs[j].bytes) = Length(qs[j].bytes)
  BY <1>2, PiecesAssumption
<1> QED
  BY <1>2, <1>3, LengthTyped


(* What is due when another piece is written. *)
LEMMA DueGrows ==
  ASSUME NEW l \in Lines, NEW qs \in Seq(Pieces[l]), NEW p \in Pieces[l], NEW d,
         NEW k \in 0..Len(qs), NEW f, DueFrom(d, qs, k, f)
  PROVE  \E g : DueFrom(IF p.asks THEN Append(d, Body(p.bytes)) ELSE d, Append(qs, p), k, g)
<1>1. PICK rs : rs = Append(qs, p)
  OBVIOUS
<1>2. /\ Len(qs) \in Nat /\ rs \in Seq(Pieces[l]) /\ Len(rs) = Len(qs) + 1
      /\ \A x \in 1..Len(qs) : rs[x] = qs[x]
      /\ rs[Len(qs) + 1] = p
  BY <1>1, LenProperties, AppendProperties
<1>3. d \in Seq(Seq(Octet)) /\ Len(d) \in Nat
  <2>1. d \in Seq(Seq(Octet))
    BY DEF DueFrom
  <2> QED
    BY <2>1, LenProperties
<1>4. \A i \in 1..Len(d) : f[i] \in k + 1..Len(qs) /\ f[i] \in 1..Len(qs) /\ rs[f[i]] = qs[f[i]]
  <2>1. \A i \in 1..Len(d) : f[i] \in k + 1..Len(qs)
    BY DEF DueFrom
  <2>2. \A x \in k + 1..Len(qs) : x \in 1..Len(qs)
    BY <1>2
  <2> QED
    BY <1>2, <2>1, <2>2
<1>5. CASE ~ p.asks
  <2>1. f \in [1..Len(d) -> k + 1..Len(rs)]
    <3>1. \A x \in k + 1..Len(qs) : x \in k + 1..Len(rs)
      BY <1>2
    <3> QED
      BY <3>1 DEF DueFrom
  <2>2. \A i \in 1..Len(d) : rs[f[i]].asks /\ d[i] = Body(rs[f[i]].bytes)
    BY <1>4 DEF DueFrom
  <2>3. \A j \in k + 1..Len(rs) : rs[j].asks => \E i \in 1..Len(d) : f[i] = j
    <3>1. \A j \in k + 1..Len(rs) : j = Len(qs) + 1 \/ (j \in k + 1..Len(qs) /\ j \in 1..Len(qs))
      BY <1>2
    <3> QED
      BY <1>2, <1>5, <3>1 DEF DueFrom
  <2>4. DueFrom(d, rs, k, f)
    BY <2>1, <2>2, <2>3 DEF DueFrom
  <2> QED
    BY <1>1, <1>5, <2>4
<1>6. CASE p.asks
  <2>1. PICK b : b = Body(p.bytes)
    OBVIOUS
  <2>2. b \in Seq(Octet)
    <3>1. p.bytes \in Seq(ByteType) /\ Len(p.bytes) = Length(p.bytes)
      BY <1>6, PiecesAssumption DEF ByteType, Octet
    <3>2. Len(p.bytes) >= 2
      BY <3>1, LengthTyped
    <3> QED
      BY <2>1, <3>1, <3>2, BodyTyped
  <2>3. PICK e : e = Append(d, b)
    OBVIOUS
  <2>4. /\ e \in Seq(Seq(Octet)) /\ Len(e) = Len(d) + 1
        /\ \A i \in 1..Len(d) : e[i] = d[i]
        /\ e[Len(d) + 1] = b
    BY <1>3, <2>2, <2>3, AppendProperties
  <2> DEFINE g == [i \in 1..Len(e) |-> IF i = Len(e) THEN Len(rs) ELSE f[i]]
  <2>5. \A i \in 1..Len(e) : i = Len(d) + 1 \/ (i \in 1..Len(d) /\ i # Len(e))
    BY <1>3, <2>4
  <2>6. Len(e) \in 1..Len(e) /\ Len(rs) \in k + 1..Len(rs)
    BY <1>2, <1>3, <2>4
  <2>7. g[Len(e)] = Len(rs) /\ \A i \in 1..Len(d) : g[i] = f[i]
    <3>1. \A i \in 1..Len(d) : i \in 1..Len(e) /\ i # Len(e)
      BY <1>3, <2>4
    <3> QED
      BY <2>6, <3>1
  <2>8. \A x \in k + 1..Len(qs) : x \in k + 1..Len(rs) /\ x < Len(rs)
    BY <1>2
  <2>9. g = [i \in 1..Len(e) |-> g[i]]
    OBVIOUS
  <2> HIDE DEF g
  <2>10. \A i \in 1..Len(e) : g[i] \in k + 1..Len(rs)
    BY <1>4, <2>4, <2>5, <2>6, <2>7, <2>8
  <2>11. g \in [1..Len(e) -> k + 1..Len(rs)]
    BY <2>9, <2>10
  <2>12. \A i, j \in 1..Len(e) : i < j => g[i] < g[j]
    <3> TAKE i, j \in 1..Len(e)
    <3> HAVE i < j
    <3>1. i \in 1..Len(d)
      BY <1>3, <2>4
    <3>2. CASE j \in 1..Len(d)
      <4>1. f[i] < f[j]
        BY <3>1, <3>2 DEF DueFrom
      <4> QED
        BY <2>7, <3>1, <3>2, <4>1
    <3>3. CASE j = Len(d) + 1
      <4>1. g[j] = Len(rs) /\ g[i] = f[i] /\ f[i] \in k + 1..Len(qs)
        BY <1>4, <2>4, <2>7, <3>1, <3>3
      <4> QED
        BY <2>8, <4>1
    <3> QED
      BY <2>5, <3>2, <3>3
  <2>13. \A i \in 1..Len(e) : rs[g[i]].asks /\ e[i] = Body(rs[g[i]].bytes)
    <3> TAKE i \in 1..Len(e)
    <3>1. CASE i \in 1..Len(d)
      <4>1. qs[f[i]].asks /\ d[i] = Body(qs[f[i]].bytes)
        BY <3>1 DEF DueFrom
      <4> QED
        BY <1>4, <2>4, <2>7, <3>1, <4>1
    <3>2. CASE i = Len(d) + 1
      <4>1. rs[g[i]] = p /\ e[i] = b
        BY <1>2, <2>4, <2>7, <3>2
      <4> QED
        BY <1>6, <2>1, <4>1
    <3> QED
      BY <2>5, <3>1, <3>2
  <2>14. \A j \in k + 1..Len(rs) : rs[j].asks => \E i \in 1..Len(e) : g[i] = j
    <3> TAKE j \in k + 1..Len(rs)
    <3> HAVE rs[j].asks
    <3>1. CASE j = Len(rs)
      BY <2>6, <2>7, <3>1
    <3>2. CASE j # Len(rs)
      <4>1. j \in k + 1..Len(qs) /\ j \in 1..Len(qs)
        BY <1>2, <3>2
      <4>2. PICK i \in 1..Len(d) : f[i] = j
        BY <1>2, <4>1 DEF DueFrom
      <4>3. i \in 1..Len(e) /\ g[i] = j
        BY <1>3, <2>4, <2>7, <4>2
      <4> QED
        BY <4>3
    <3> QED
      BY <3>1, <3>2
  <2>15. DueFrom(e, rs, k, g)
    BY <2>4, <2>11, <2>12, <2>13, <2>14 DEF DueFrom
  <2> QED
    BY <1>1, <1>6, <2>1, <2>3, <2>15
<1> QED
  BY <1>5, <1>6

(* The other end writes another piece. *)
LEMMA LineGrows ==
  ASSUME NEW l \in Lines, NEW r, NEW w, NEW n, NEW d, NEW cl \in BOOLEAN,
         LineOk(l, r, w, n, d, cl), n < MaxPieces[l], NEW p \in Pieces[l]
  PROVE  LineOk(l, r, w \o p.bytes, n + 1,
                IF p.asks THEN Append(d, Body(p.bytes)) ELSE d, cl /\ p.whole)
<1>1. PICK qs, a, c, k, f : Carries(l, r, w, n, d, cl, qs, a, c, k, f)
  BY DEF LineOk
<1> USE <1>1 DEF Carries
<1>2. PICK rs : rs = Append(qs, p)
  OBVIOUS
<1>3. /\ Len(qs) \in Nat /\ rs \in Seq(Pieces[l]) /\ Len(rs) = Len(qs) + 1
      /\ \A x \in 1..Len(qs) : rs[x] = qs[x]
      /\ rs[Len(qs) + 1] = p
  BY <1>2, LenProperties, AppendProperties
<1>4. PICK s, t : s = LineOf(qs) /\ t = LineOf(rs)
  OBVIOUS
<1>5. s \in Seq(ByteType) /\ Len(s) \in Nat /\ p.bytes \in Seq(ByteType) /\ Len(p.bytes) \in Nat
  <2>1. qs \in Seq(Pieces[l])
    OBVIOUS
  <2>2. s \in Seq(ByteType)
    BY <1>4, <2>1, LineOfTyped
  <2>3. p.bytes \in Seq(ByteType)
    BY PiecesAssumption DEF ByteType, Octet
  <2> QED
    BY <2>2, <2>3, LenProperties
<1>6. /\ t = s \o p.bytes
      /\ \A x \in 0..Len(qs) : EndOf(rs, x) = EndOf(qs, x)
  <2>1. qs \in Seq(Pieces[l])
    OBVIOUS
  <2> QED
    BY <1>2, <1>4, <2>1, SentAppend DEF EndOf
<1>7. a \in Nat /\ c \in a..Len(s) /\ w = SubSeq(s, c + 1, Len(s)) /\ c \in 0..Len(s)
  <2>1. a \in Nat /\ c \in a..Len(s) /\ w = SubSeq(s, c + 1, Len(s))
    BY <1>4
  <2>2. \A x, y \in Nat : \A z \in x..y : z \in 0..y
    OBVIOUS
  <2> QED
    BY <1>5, <2>1, <2>2, Zenon
<1>8. /\ Len(t) = Len(s) + Len(p.bytes)
      /\ SubSeq(t, a + 1, c) = SubSeq(s, a + 1, c)
      /\ w \o p.bytes = SubSeq(t, c + 1, Len(t))
  <2> HIDE <1>1 DEF Carries
  <2>1. s \in Seq(ByteType) /\ p.bytes \in Seq(ByteType) /\ a \in Nat /\ c \in a..Len(s)
    BY <1>5, <1>7
  <2>2. /\ Len(s \o p.bytes) = Len(s) + Len(p.bytes)
        /\ SubSeq(s \o p.bytes, a + 1, c) = SubSeq(s, a + 1, c)
        /\ SubSeq(s, c + 1, Len(s)) \o p.bytes = SubSeq(s \o p.bytes, c + 1, Len(s \o p.bytes))
    BY <2>1, StretchExtended
  <2> QED
    BY <1>6, <1>7, <2>2
<1>9. PICK e : e = IF p.asks THEN Append(d, Body(p.bytes)) ELSE d
  OBVIOUS
<1>10. PICK g : DueFrom(e, rs, k, g)
  <2>1. qs \in Seq(Pieces[l]) /\ k \in 0..Len(qs) /\ DueFrom(d, qs, k, f)
    OBVIOUS
  <2> QED
    BY <1>2, <1>9, <2>1, DueGrows
<1>11. rs \in Seq(Pieces[l]) /\ Len(rs) = n + 1 /\ n + 1 <= MaxPieces[l]
  <2>1. n \in Nat /\ MaxPieces[l] \in Nat /\ Len(qs) = n
    BY <1>3, LineAssumption
  <2> QED
    BY <1>3, <2>1
<1>12. a \in Nat /\ c \in a..Len(t) /\ w \o p.bytes = SubSeq(t, c + 1, Len(t)) /\ k \in 0..Len(rs)
  <2>1. c \in a..Len(t)
    BY <1>5, <1>7, <1>8
  <2>2. k \in 0..Len(qs)
    OBVIOUS
  <2>3. k \in 0..Len(rs)
    BY <1>3, <2>2
  <2> QED
    BY <1>7, <1>8, <2>1, <2>3
<1>13. r.at \in Unread =>
         /\ r.frame = SubSeq(t, a + 1, c) /\ Len(r.frame) < Length(r.frame)
         /\ EndOf(rs, k) <= a /\ (cl => EndOf(rs, k) = a)
  BY <1>4, <1>6, <1>8
<1>14. r.at \in InHand =>
         \E j \in k + 1..Len(rs) :
           /\ rs[j].asks /\ r.frame = Body(rs[j].bytes) /\ r.op = Request(r.frame)
           /\ EndOf(rs, j) = c /\ (cl => j = k + 1)
  <2> HAVE r.at \in InHand
  <2>1. PICK j \in k + 1..Len(qs) :
          /\ qs[j].asks /\ r.frame = Body(qs[j].bytes) /\ r.op = Request(r.frame)
          /\ EndOf(qs, j) = c /\ (cl => j = k + 1)
    OBVIOUS
  <2>2. j \in k + 1..Len(rs) /\ j \in 1..Len(qs) /\ j \in 0..Len(qs)
    <3>1. k \in 0..Len(qs)
      OBVIOUS
    <3> QED
      BY <1>3, <3>1
  <2>3. rs[j] = qs[j] /\ EndOf(rs, j) = EndOf(qs, j)
    BY <1>3, <1>6, <2>2
  <2> QED
    BY <2>1, <2>2, <2>3
<1>15. cl /\ p.whole => \A j \in 1..Len(rs) : rs[j].whole
  <2>1. \A j \in 1..Len(rs) : j \in 1..Len(qs) \/ j = Len(qs) + 1
    BY <1>3
  <2> QED
    BY <1>3, <2>1
<1>16. r.at = "none" => r.frame = <<>>
  OBVIOUS
<1> USE DEF LineOk
<1>17. Carries(l, r, w \o p.bytes, n + 1, e, cl /\ p.whole, rs, a, c, k, g)
  BY <1>4, <1>10, <1>11, <1>12, <1>13, <1>14, <1>15, <1>16
<1> QED
  BY <1>9, <1>17


(* A piece is the stretch between the end of the one before and its own.   *)
LEMMA PieceStretch ==
  ASSUME NEW l \in Lines, NEW qs \in Seq(Pieces[l]), NEW j \in 1..Len(qs)
  PROVE  SubSeq(LineOf(qs), EndOf(qs, j - 1) + 1, EndOf(qs, j)) = qs[j].bytes
<1>1. PICK s, b, x, y : s = LineOf(qs) /\ b = qs[j].bytes /\ x = EndOf(qs, j - 1) /\ y = EndOf(qs, j)
  OBVIOUS
<1>2. j - 1 \in 0..Len(qs) /\ j \in 0..Len(qs)
  BY LenProperties
<1>3. s \in Seq(ByteType) /\ Len(s) \in Nat /\ x \in 0..Len(s) /\ y \in 0..Len(s)
  BY <1>1, <1>2, LineOfTyped
<1>4. b \in Seq(ByteType) /\ Len(b) \in Nat /\ y = x + Len(b)
  <2>1. b \in Seq(ByteType) /\ y = x + Len(b)
    BY <1>1, SentTyped
  <2> QED
    BY <2>1, LenProperties
<1>5. x \in Nat /\ y \in x..Len(s) /\ y - x = Len(b)
  BY <1>3, <1>4
<1>6. PICK u : u = SubSeq(s, x + 1, y)
  OBVIOUS
<1>7. u \in Seq(ByteType) /\ Len(u) = Len(b) /\ \A i \in 1..Len(b) : u[i] = s[x + i]
  <2>1. s \in Seq(ByteType) /\ x \in Nat /\ y \in x..Len(s)
    BY <1>3, <1>5
  <2>2. /\ SubSeq(s, x + 1, y) \in Seq(ByteType) /\ Len(SubSeq(s, x + 1, y)) = y - x
        /\ \A i \in 1..y - x : SubSeq(s, x + 1, y)[i] = s[x + i]
    BY <2>1, Stretch
  <2> QED
    BY <1>5, <1>6, <2>2
<1>8. \A i \in 1..Len(b) : s[x + i] = b[i]
  BY <1>1, PieceInPlace
<1>9. \A i \in 1..Len(b) : u[i] = b[i]
  BY <1>7, <1>8
<1>10. u = b
  BY <1>4, <1>7, <1>9, SeqEqual
<1> QED
  BY <1>1, <1>6, <1>10

(* Who waits for more of what begins like a whole piece has not read all   *)
(* of it.                                                                  *)
LEMMA WaitsWithin ==
  ASSUME NEW w \in Seq(ByteType), Len(w) = Length(w), NEW u \in Seq(ByteType),
         Len(u) < Length(u), \A i \in 1..Len(u) : i <= Len(w) => u[i] = w[i]
  PROVE  Len(u) < Len(w)
<1> SUFFICES ASSUME ~ (Len(u) < Len(w)) PROVE FALSE
  OBVIOUS
<1>1. Len(w) \in Nat /\ Len(u) \in Nat /\ \A i \in 1..Len(w) : w[i].v \in Nat
  BY BytesTyped
<1>2. Len(w) >= 8
  BY LengthTyped
<1>3. Len(u) >= 7 /\ Len(w) >= 7 /\ 2 \in 1..Len(u) /\ 7 \in 1..Len(u) /\ 2 <= Len(w) /\ 7 <= Len(w)
      /\ Len(u) >= 2 /\ Len(w) >= 2 /\ Len(w) <= Len(u)
  BY <1>1, <1>2
<1>4. u[2] = w[2] /\ u[7] = w[7]
  BY <1>3
<1>5. Length(u) = Length(w)
  <2>1. CASE w[2].v \in Short
    BY <1>1, <1>3, <1>4, <2>1, LengthIs, Zenon
  <2>2. CASE w[2].v \notin Short
    BY <1>1, <1>3, <1>4, <2>2, LengthIs, Zenon
  <2> QED
    BY <2>1, <2>2
<1> QED
  BY <1>1, <1>3, <1>5

(* io.ReadFull never reads beyond the end of a frame. *)
LEMMA ReadsNoFurther ==
  ASSUME NEW u \in Seq(ByteType), NEW v \in Seq(ByteType), Len(u) < Length(u),
         Len(v) = Length(u), \A i \in 1..Len(u) : v[i] = u[i]
  PROVE  Len(v) <= Length(v)
<1>1. Len(v) \in Nat /\ Len(u) \in Nat /\ \A i \in 1..Len(v) : v[i].v \in Nat
  BY BytesTyped
<1>2. CASE Len(u) < 2
  <2>1. Len(v) = 2
    BY <1>1, <1>2, LengthIs
  <2> QED
    BY <2>1, LengthTyped
<1>3. CASE Len(u) >= 2 /\ v[2].v \in Short
  <2>1. u[2] = v[2]
    BY <1>1, <1>3
  <2>2. Length(u) = 8
    BY <1>1, <1>3, <2>1, LengthIs
  <2>3. Len(v) >= 2 /\ Len(v) = 8
    BY <2>2
  <2>4. Length(v) = 8
    BY <1>1, <1>3, <2>3, LengthIs
  <2> QED
    BY <2>3, <2>4
<1>4. CASE Len(u) >= 2 /\ v[2].v \notin Short /\ Len(u) < 7
  <2>1. u[2] = v[2]
    BY <1>1, <1>4
  <2>2. Length(u) = 7
    BY <1>1, <1>4, <2>1, LengthIs
  <2>3. Len(v) >= 7 /\ Len(v) = 7 /\ v[7].v \in Nat
    BY <1>1, <2>2
  <2>4. Length(v) = 9 + v[7].v
    BY <1>1, <1>4, <2>3, LengthIs
  <2> QED
    BY <2>3, <2>4
<1>5. CASE Len(u) >= 7 /\ v[2].v \notin Short
  <2>1. u[2] = v[2] /\ u[7] = v[7]
    BY <1>1, <1>5
  <2>2. Length(u) = 9 + v[7].v
    BY <1>1, <1>5, <2>1, LengthIs
  <2>3. Len(v) >= 7
    <3>1. \A x, y \in Nat : x >= 7 /\ x < y => y >= 7
      OBVIOUS
    <3>2. Length(u) \in Nat
      BY LengthTyped
    <3> QED
      BY <1>1, <1>5, <3>1, <3>2, Zenon
  <2>4. Length(v) = 9 + v[7].v
    BY <1>1, <1>5, <2>3, LengthIs
  <2>5. Len(v) = Length(v)
    BY <2>2, <2>4, Zenon
  <2> QED
    BY <1>1, <2>5
<1> QED
  BY <1>1, <1>2, <1>3, <1>4, <1>5


(* A frame for this station on the line is one of the pieces that ask. *)
LEMMA FrameFound ==
  ASSUME NEW l \in Lines, NEW qs \in Seq(Pieces[l]), Len(qs) <= MaxPieces[l],
         NEW a \in Nat, NEW c \in a..Len(LineOf(qs)), NEW v,
         v = SubSeq(LineOf(qs), a + 1, c), IsFrame(v)
  PROVE  \E j \in 1..Len(qs) :
           qs[j].asks /\ a = EndOf(qs, j - 1) /\ c = EndOf(qs, j) /\ a < c
<1>1. PICK n : n = Len(qs)
  OBVIOUS
<1>2. n \in 0..MaxPieces[l] /\ qs \in [1..n -> Pieces[l]]
  <2>1. n \in Nat /\ n <= MaxPieces[l] /\ MaxPieces[l] \in Nat
    BY <1>1, LenProperties, LineAssumption
  <2>2. qs \in [1..n -> Pieces[l]]
    BY <1>1, LenProperties
  <2> QED
    BY <2>1, <2>2
<1>3. PICK line : line = Sent(qs)
  OBVIOUS
<1>4. /\ Len(line[n]) \in Nat /\ line[n] = LineOf(qs)
      /\ a \in 0..Len(line[n]) /\ c \in 0..Len(line[n])
  <2>1. Len(LineOf(qs)) \in Nat
    BY LineOfTyped
  <2>2. \A x, y \in Nat : \A z \in x..y : x \in 0..y /\ z \in 0..y
    OBVIOUS
  <2> QED
    BY <1>1, <1>3, <2>1, <2>2, Zenon DEF LineOf
<1>5. IsFrame(SubSeq(line[n], a + 1, c))
  BY <1>4
<1>6. PICK j \in 1..n : qs[j].asks /\ a = Len(line[j - 1]) /\ c = Len(line[j])
  <2>1. \A x, y \in 0..Len(line[n]) :
          IsFrame(SubSeq(line[n], x + 1, y)) =>
            \E j \in 1..n : qs[j].asks /\ x = Len(line[j - 1]) /\ y = Len(line[j])
    BY <1>2, <1>3, PiecesAssumption, Zenon
  <2> QED
    BY <1>4, <1>5, <2>1, Zenon
<1>7. j \in 1..Len(qs) /\ a = EndOf(qs, j - 1) /\ c = EndOf(qs, j)
  BY <1>1, <1>3, <1>6 DEF EndOf
<1>9. qs[j] \in Pieces[l] /\ qs[j].whole
  <2>1. qs[j] \in Pieces[l]
    BY <1>7, ElementOfSeq
  <2> QED
    BY <1>6, <2>1, PiecesAssumption
<1>10. a < c
  <2>1. PICK m : m = Len(qs[j].bytes)
    OBVIOUS
  <2>2. a \in Nat /\ c = a + m /\ m >= 8
    BY <1>7, <1>9, <2>1, EndsGrow
  <2>3. qs[j].bytes \in Seq(ByteType)
    BY <1>7, <1>9, EndsGrow
  <2>4. m \in Nat
    BY <2>1, <2>3, LenProperties
  <2>5. a < a + m
    BY <2>2, <2>4
  <2> QED
    BY <2>2, <2>5
<1> QED
  BY <1>6, <1>7, <1>10

(* No two pieces end at the same place if all are whole. *)
LEMMA EndsDiffer ==
  ASSUME NEW l \in Lines, NEW qs \in Seq(Pieces[l]), \A j \in 1..Len(qs) : qs[j].whole,
         NEW k \in 0..Len(qs), NEW j \in k + 1..Len(qs)
  PROVE  EndOf(qs, k) < EndOf(qs, j)
<1>1. Len(qs) \in Nat /\ k + 1 \in 1..Len(qs) /\ j \in 0..Len(qs) /\ k + 1 \in 0..j /\ (k + 1) - 1 = k
  BY LenProperties
<1>2. PICK x, y, z : x = EndOf(qs, k) /\ y = EndOf(qs, k + 1) /\ z = EndOf(qs, j)
  OBVIOUS
<1>3. x \in Nat /\ y \in Nat /\ y = x + Len(qs[k + 1].bytes) /\ Len(qs[k + 1].bytes) >= 8
  BY <1>1, <1>2, EndsGrow
<1>4. y <= z /\ z \in Nat
  BY <1>1, <1>2, SentGrows, SentTyped
<1>5. qs[k + 1].bytes \in Seq(ByteType)
  BY <1>1, EndsGrow
<1>6. Len(qs[k + 1].bytes) \in Nat
  BY <1>5, LenProperties
<1>7. x < z
  BY <1>3, <1>4, <1>6
<1> QED
  BY <1>2, <1>7


(* The bytes from a to c announce that e is the end, and so do those to e. *)
ReadsTo(qs, a, c, e) ==
  LET u == SubSeq(LineOf(qs), a + 1, c)
      v == SubSeq(LineOf(qs), a + 1, e)
  IN  Len(u) < Length(u) /\ Len(v) = Length(u) /\ Length(v) <= Len(v)

(* While all pieces are whole, what is read to its announced length from   *)
(* the end of a piece on is the next piece.                                *)
LEMMA PieceRead ==
  ASSUME NEW l \in Lines, NEW qs \in Seq(Pieces[l]), \A j \in 1..Len(qs) : qs[j].whole,
         NEW k \in 0..Len(qs), NEW c \in EndOf(qs, k)..Len(LineOf(qs)),
         NEW e \in c..Len(LineOf(qs)), ReadsTo(qs, EndOf(qs, k), c, e)
  PROVE  k + 1 \in 1..Len(qs) /\ EndOf(qs, k + 1) = e
<1>a. PICK a, u, v : /\ a = EndOf(qs, k)
                     /\ u = SubSeq(LineOf(qs), a + 1, c) /\ v = SubSeq(LineOf(qs), a + 1, e)
  OBVIOUS
<1>b. Len(u) < Length(u) /\ Len(v) = Length(u) /\ Length(v) <= Len(v)
  BY <1>a, Zenon DEF ReadsTo
<1>c. a \in Nat /\ c \in a..Len(LineOf(qs))
  BY <1>a, SentTyped
<1>1. PICK s : s = LineOf(qs)
  OBVIOUS
<1>2. /\ s \in Seq(ByteType) /\ Len(s) = EndOf(qs, Len(qs)) /\ Len(s) \in Nat /\ Len(qs) \in Nat
  BY <1>1, LineOfTyped
<1>3. /\ c \in Nat /\ e \in Nat /\ a <= c /\ c <= e /\ e <= Len(s) /\ c \in a..Len(s)
      /\ e \in a..Len(s) /\ k \in Nat /\ k <= Len(qs)
  BY <1>1, <1>2, <1>c
<1>4. u \in Seq(ByteType) /\ Len(u) = c - a /\ \A i \in 1..c - a : u[i] = s[a + i]
  <2>1. s \in Seq(ByteType) /\ a \in Nat /\ c \in a..Len(s)
    BY <1>2, <1>3, <1>c
  <2>2. /\ SubSeq(s, a + 1, c) \in Seq(ByteType) /\ Len(SubSeq(s, a + 1, c)) = c - a
        /\ \A i \in 1..c - a : SubSeq(s, a + 1, c)[i] = s[a + i]
    BY <2>1, Stretch
  <2>3. u = SubSeq(s, a + 1, c)
    BY <1>1, <1>a
  <2> QED
    BY <2>2, <2>3, Zenon
<1>5. v \in Seq(ByteType) /\ Len(v) = e - a /\ \A i \in 1..e - a : v[i] = s[a + i]
  <2>1. s \in Seq(ByteType) /\ a \in Nat /\ e \in a..Len(s)
    BY <1>2, <1>3, <1>c
  <2>2. /\ SubSeq(s, a + 1, e) \in Seq(ByteType) /\ Len(SubSeq(s, a + 1, e)) = e - a
        /\ \A i \in 1..e - a : SubSeq(s, a + 1, e)[i] = s[a + i]
    BY <2>1, Stretch
  <2>3. v = SubSeq(s, a + 1, e)
    BY <1>1, <1>a
  <2> QED
    BY <2>2, <2>3, Zenon
<1>6. k + 1 \in 1..Len(qs) /\ (k + 1) - 1 = k
  <2>1. Length(u) \in Nat
    BY <1>4, LengthTyped
  <2>2. a < e
    BY <1>3, <1>4, <1>5, <1>b, <1>c, <2>1
  <2>3. k # Len(qs)
    BY <1>1, <1>2, <1>3, <1>a, <1>c, <2>2
  <2> QED
    BY <1>2, <1>3, <2>3
<1>7. PICK b : b = qs[k + 1].bytes
  OBVIOUS
<1>8. b \in Seq(ByteType) /\ Len(b) = Length(b) /\ EndOf(qs, k + 1) = a + Len(b)
  BY <1>6, <1>7, <1>a, EndsGrow
<1>9. Len(b) \in Nat /\ a + Len(b) <= Len(s)
  <2>1. k + 1 \in 0..Len(qs) /\ Len(b) \in Nat
    BY <1>6, <1>8, LenProperties
  <2>2. EndOf(qs, k + 1) \in 0..Len(s)
    BY <1>1, <2>1, LineOfTyped
  <2> QED
    BY <1>2, <1>8, <2>1, <2>2
<1>10. \A i \in 1..Len(b) : s[a + i] = b[i]
  <2>1. \A i \in 1..Len(qs[k + 1].bytes) :
          LineOf(qs)[EndOf(qs, (k + 1) - 1) + i] = qs[k + 1].bytes[i]
    BY <1>6, PieceInPlace
  <2> QED
    BY <1>1, <1>6, <1>7, <1>a, <2>1, Zenon
<1>11. Len(u) < Len(b)
  <2>1. \A i \in 1..Len(u) : i <= Len(b) => u[i] = b[i]
    <3>1. \A i \in 1..Len(u) : i <= Len(b) => i \in 1..Len(b) /\ i \in 1..c - a
      BY <1>3, <1>4, <1>9
    <3> QED
      BY <1>4, <1>10, <3>1
  <2> QED
    BY <1>4, <1>8, <1>b, <2>1, WaitsWithin
<1>12. Length(u) <= Len(b)
  <2>1. \A i \in 1..Len(u) : u[i] = b[i]
    <3>1. \A x, y, z \in Nat : x < y /\ x = z => \A i \in 1..x : i \in 1..y /\ i \in 1..z
      OBVIOUS
    <3>2. Len(u) \in Nat /\ c - a \in Nat
      <4>1. c - a \in Nat
        BY <1>3, <1>c
      <4> QED
        BY <1>4, <4>1, Zenon
    <3>3. \A i \in 1..Len(u) : i \in 1..Len(b) /\ i \in 1..c - a
      BY <1>4, <1>9, <1>11, <3>1, <3>2, Zenon
    <3> QED
      BY <1>4, <1>10, <3>3
  <2>2. Len(u) <= Len(b)
    BY <1>3, <1>4, <1>9, <1>11
  <2> QED
    BY <1>4, <1>8, <2>1, <2>2, LengthOfPrefix
<1>13. Len(v) = Len(b) /\ \A i \in 1..Len(v) : v[i] = b[i]
  <2>1. Len(v) <= Len(b) /\ Len(v) \in Nat
    BY <1>12, <1>5, <1>b, LenProperties
  <2>2. \A i \in 1..Len(v) : v[i] = b[i]
    <3>1. \A i \in 1..Len(v) : i \in 1..Len(b) /\ i \in 1..e - a
      BY <1>3, <1>5, <1>9, <2>1
    <3> QED
      BY <1>5, <1>10, <3>1
  <2>3. Length(v) = Len(b)
    <3>1. Length(v) <= Len(v) /\ Length(v) \in Nat
      BY <1>5, <1>b, LengthTyped
    <3>2. \A x, y \in Nat : x <= y => y >= x
      OBVIOUS
    <3>3. Len(v) >= Length(v)
      BY <2>1, <3>1, <3>2, Zenon
    <3> QED
      BY <1>5, <1>8, <2>1, <2>2, <3>3, LengthOfPrefix
  <2>4. \A x, y \in Nat : x <= y /\ y <= x => x = y
    OBVIOUS
  <2>5. Len(v) = Len(b)
    BY <1>9, <1>b, <2>1, <2>3, <2>4, Zenon
  <2> QED
    BY <2>2, <2>5
<1>15. EndOf(qs, k + 1) = e
  <2>1. Len(b) = e - a
    BY <1>5, <1>13, Zenon
  <2> QED
    BY <1>3, <1>8, <1>c, <2>1
<1> QED
  BY <1>6, <1>15


(* Where a frame read so far leads, and with what. *)
LEMMA FollowCases ==
  ASSUME NEW w
  PROVE  LET x == Follow(w) IN
         \/ x.at = "ended"
         \/ Len(w) < Length(w) /\ x.at = "read" /\ x.frame = w
         \/ /\ ~ (Len(w) < Length(w)) /\ w[2].v \in Short \cup Long /\ CrcOk(w) /\ ForMe(w)
            /\ x.at = "call" /\ x.frame = Body(w) /\ x.op = Request(x.frame)
         \/ ~ (Len(w) < Length(w)) /\ ~ (CrcOk(w) /\ ForMe(w)) /\ x.at = "read" /\ x.frame = <<>>
<1>1. CASE w[2].v \notin Short \cup Long
  <2>1. Follow(w) = [Idle EXCEPT !.at = "ended"]
    BY <1>1, Zenon DEF Follow
  <2> QED
    BY <2>1 DEF Idle
<1>2. CASE w[2].v \in Short \cup Long /\ Len(w) < Length(w)
  <2>1. Follow(w) = [Fresh EXCEPT !.frame = w]
    BY <1>2, Zenon DEF Follow
  <2>2. [Fresh EXCEPT !.frame = w].at = "read" /\ [Fresh EXCEPT !.frame = w].frame = w
    BY DEF Fresh, Idle
  <2> QED
    BY <1>2, <2>1, <2>2, Zenon
<1>3. CASE w[2].v \in Short \cup Long /\ ~ (Len(w) < Length(w)) /\ CrcOk(w) /\ ForMe(w)
  <2>1. PICK b, q : b = Body(w) /\ q = Request(Body(w))
    OBVIOUS
  <2>2. Follow(w) = [Idle EXCEPT !.at = "call", !.frame = b, !.op = q]
    BY <1>3, <2>1, Zenon DEF Follow
  <2>3. LET x == [Idle EXCEPT !.at = "call", !.frame = b, !.op = q]
        IN  x.at = "call" /\ x.frame = b /\ x.op = q
    BY DEF Idle
  <2> QED
    BY <1>3, <2>1, <2>2, <2>3, Zenon
<1>4. CASE w[2].v \in Short \cup Long /\ ~ (Len(w) < Length(w)) /\ ~ (CrcOk(w) /\ ForMe(w))
  <2>1. Follow(w) = Fresh
    BY <1>4, Zenon DEF Follow
  <2>2. Fresh.at = "read" /\ Fresh.frame = <<>>
    BY DEF Fresh, Idle
  <2> QED
    BY <1>4, <2>1, <2>2, Zenon
<1> QED
  BY <1>1, <1>2, <1>3, <1>4, Zenon

(* A piece that does not ask is passed over. *)
LEMMA DueSkips ==
  ASSUME NEW d, NEW qs, Len(qs) \in Nat, NEW k \in 0..Len(qs), NEW f, DueFrom(d, qs, k, f),
         k + 1 \in 1..Len(qs), ~ qs[k + 1].asks
  PROVE  DueFrom(d, qs, k + 1, f)
<1>1. \A i \in 1..Len(d) : f[i] \in (k + 1) + 1..Len(qs)
  <2> TAKE i \in 1..Len(d)
  <2>1. f[i] \in k + 1..Len(qs) /\ f[i] # k + 1
    BY DEF DueFrom
  <2>2. \A x \in k + 1..Len(qs) : x # k + 1 => x \in (k + 1) + 1..Len(qs)
    OBVIOUS
  <2> QED
    BY <2>1, <2>2
<1>2. f \in [1..Len(d) -> (k + 1) + 1..Len(qs)]
  BY <1>1 DEF DueFrom
<1>3. \A j \in (k + 1) + 1..Len(qs) : j \in k + 1..Len(qs)
  OBVIOUS
<1> QED
  BY <1>2, <1>3 DEF DueFrom

(* The stream waits for m bytes more, and they are there. *)
Awaits(r, w, m) == r.at = "read" /\ m = Length(r.frame) - Len(r.frame) /\ Len(w) >= m

(* ReadFull, whatever it reads. *)
LEMMA LineRead ==
  ASSUME NEW l \in Lines, NEW r, NEW w, NEW n, NEW d, NEW cl \in BOOLEAN,
         LineOk(l, r, w, n, d, cl), NEW m, Awaits(r, w, m)
  PROVE  LineOk(l, Follow(r.frame \o SubSeq(w, 1, m)), SubSeq(w, m + 1, Len(w)), n, d, cl)
<1>1. PICK qs, a, c, k, f : Carries(l, r, w, n, d, cl, qs, a, c, k, f)
  BY DEF LineOk
<1>2. PICK s, u : s = LineOf(qs) /\ u = r.frame
  OBVIOUS
<1>3. /\ qs \in Seq(Pieces[l]) /\ Len(qs) = n /\ n <= MaxPieces[l] /\ k \in 0..Len(qs)
      /\ DueFrom(d, qs, k, f) /\ a \in Nat /\ c \in a..Len(s) /\ w = SubSeq(s, c + 1, Len(s))
      /\ u = SubSeq(s, a + 1, c) /\ Len(u) < Length(u)
      /\ EndOf(qs, k) <= a /\ (cl => EndOf(qs, k) = a)
      /\ cl => \A j \in 1..Len(qs) : qs[j].whole
  BY <1>1, <1>2 DEF Carries, Unread, Awaits
<1>4. s \in Seq(ByteType) /\ Len(s) \in Nat /\ Len(qs) \in Nat /\ EndOf(qs, k) \in Nat
  <2>1. s \in Seq(ByteType) /\ Len(s) \in Nat /\ Len(qs) \in Nat
    BY <1>2, <1>3, LineOfTyped
  <2> QED
    BY <1>3, <2>1, SentTyped
<1>5. u \in Seq(ByteType) /\ Len(u) = c - a
  <2>1. s \in Seq(ByteType) /\ a \in Nat /\ c \in a..Len(s)
    BY <1>3, <1>4
  <2>2. SubSeq(s, a + 1, c) \in Seq(ByteType) /\ Len(SubSeq(s, a + 1, c)) = c - a
    BY <2>1, Stretch
  <2> QED
    BY <1>3, <2>2, Zenon
<1>6. /\ m \in Nat /\ m > 0 /\ (c - a) + m = Length(u) /\ c \in Nat /\ a <= c /\ c <= Len(s)
      /\ c \in 0..Len(s)
  <2>1. Length(u) \in Nat
    BY <1>5, LengthTyped
  <2>2. m = Length(u) - Len(u)
    BY <1>2 DEF Awaits
  <2>3. PICK x, y, z : x = Len(u) /\ y = Length(u) /\ z = Len(s)
    OBVIOUS
  <2>4. a \in Nat /\ c \in a..z /\ x < y /\ z \in Nat /\ x = c - a /\ y \in Nat /\ m = y - x
    BY <1>3, <1>4, <1>5, <2>1, <2>2, <2>3, Zenon
  <2>5. m \in Nat /\ m > 0 /\ (c - a) + m = y /\ c \in Nat /\ a <= c /\ c <= z /\ c \in 0..z
    BY <2>4
  <2> QED
    BY <2>3, <2>5, Zenon
<1>7. PICK e : e = c + m
  OBVIOUS
<1>8. /\ Len(w) = Len(s) - c
      /\ SubSeq(w, 1, m) = SubSeq(s, c + 1, e)
      /\ SubSeq(w, m + 1, Len(w)) = SubSeq(s, e + 1, Len(s))
      /\ e \in c..Len(s)
  <2>1. Len(w) = Len(s) - c
    <3>1. s \in Seq(ByteType) /\ c \in Nat /\ Len(s) \in c..Len(s)
      BY <1>4, <1>6
    <3>2. Len(SubSeq(s, c + 1, Len(s))) = Len(s) - c
      BY <3>1, Stretch
    <3> QED
      BY <1>3, <3>2, Zenon
  <2>2. m \in 0..Len(s) - c /\ e \in c..Len(s)
    BY <1>4, <1>6, <1>7, <2>1 DEF Awaits
  <2>3. s \in Seq(ByteType) /\ c \in 0..Len(s) /\ w = SubSeq(s, c + 1, Len(s))
    BY <1>3, <1>4, <1>6
  <2>4. /\ SubSeq(w, 1, m) = SubSeq(s, c + 1, c + m)
        /\ SubSeq(w, m + 1, Len(w)) = SubSeq(s, (c + m) + 1, Len(s))
    BY <2>2, <2>3, StretchOfRest, Zenon
  <2> QED
    BY <1>7, <2>1, <2>2, <2>4
<1>9. PICK v : v = r.frame \o SubSeq(w, 1, m)
  OBVIOUS
<1>10. v = SubSeq(s, a + 1, e) /\ a <= e /\ e \in a..Len(s) /\ e \in Nat /\ a < e
  <2>1. SubSeq(s, a + 1, c) \o SubSeq(s, c + 1, e) = SubSeq(s, a + 1, e)
    BY <1>3, <1>4, <1>8, StretchesJoin
  <2>2. a < e /\ e \in a..Len(s) /\ a <= e /\ e \in Nat
    <3>1. PICK z : z = Len(s)
      OBVIOUS
    <3>2. z \in Nat /\ a \in Nat /\ c \in Nat /\ a <= c /\ e = c + m /\ m \in Nat /\ m > 0 /\ e \in c..z
      BY <1>3, <1>4, <1>6, <1>7, <1>8, <3>1, Zenon
    <3>3. a < e /\ e \in a..z /\ a <= e /\ e \in Nat
      BY <3>2
    <3> QED
      BY <3>1, <3>3, Zenon
  <2> QED
    BY <1>2, <1>3, <1>8, <1>9, <2>1, <2>2, Zenon
<1>11. v \in Seq(ByteType) /\ Len(v) = Length(u) /\ \A i \in 1..Len(u) : v[i] = u[i]
  <2>1. s \in Seq(ByteType) /\ a \in Nat /\ e \in a..Len(s) /\ c \in a..Len(s)
    BY <1>3, <1>4, <1>10
  <2>2. /\ SubSeq(s, a + 1, e) \in Seq(ByteType) /\ Len(SubSeq(s, a + 1, e)) = e - a
        /\ \A i \in 1..e - a : SubSeq(s, a + 1, e)[i] = s[a + i]
    BY <2>1, Stretch
  <2>3. \A i \in 1..c - a : SubSeq(s, a + 1, c)[i] = s[a + i]
    BY <2>1, Stretch
  <2>4. \A i \in 1..c - a : i \in 1..e - a
    BY <1>3, <1>6, <1>7
  <2>5. e - a = Length(u)
    BY <1>3, <1>6, <1>7
  <2> QED
    BY <1>3, <1>5, <1>10, <2>2, <2>3, <2>4, <2>5, Zenon
<1>12. Len(v) <= Length(v)
  BY <1>3, <1>5, <1>11, ReadsNoFurther
<1>13. PICK x : x = Follow(v)
  OBVIOUS
<1>14. PICK w2 : w2 = SubSeq(w, m + 1, Len(w))
  OBVIOUS
<1>15. SUFFICES \E b, h : Carries(l, x, w2, n, d, cl, qs, b, e, h, f)
  BY <1>9, <1>13, <1>14, Zenon DEF LineOk
<1>16. w2 = SubSeq(s, e + 1, Len(s))
  BY <1>8, <1>14
<1>17. CASE x.at = "ended"
  <2>1. Carries(l, x, w2, n, d, cl, qs, a, e, k, f)
    BY <1>2, <1>3, <1>10, <1>16, <1>17 DEF Carries, Unread, InHand
  <2> QED
    BY <2>1
<1>18. CASE Len(v) < Length(v) /\ x.at = "read" /\ x.frame = v
  <2>1. Carries(l, x, w2, n, d, cl, qs, a, e, k, f)
    BY <1>2, <1>3, <1>10, <1>16, <1>18 DEF Carries, Unread, InHand
  <2> QED
    BY <2>1
<1>19. CASE /\ ~ (Len(v) < Length(v)) /\ v[2].v \in Short \cup Long /\ CrcOk(v) /\ ForMe(v)
            /\ x.at = "call" /\ x.frame = Body(v) /\ x.op = Request(x.frame)
  <2>1. Len(v) = Length(v)
    <3>1. Len(v) \in Nat /\ Length(v) \in Nat
      BY <1>11, LengthTyped, LenProperties
    <3>2. \A y, z \in Nat : y <= z /\ ~ (y < z) => y = z
      OBVIOUS
    <3> QED
      BY <1>12, <1>19, <3>1, <3>2, Zenon
  <2>2. IsFrame(v)
    BY <1>19, <2>1, Zenon DEF IsFrame
  <2>3. PICK j \in 1..Len(qs) : qs[j].asks /\ a = EndOf(qs, j - 1) /\ e = EndOf(qs, j) /\ v = qs[j].bytes
    <3>1. /\ qs \in Seq(Pieces[l]) /\ Len(qs) <= MaxPieces[l] /\ a \in Nat
          /\ e \in a..Len(LineOf(qs)) /\ v = SubSeq(LineOf(qs), a + 1, e)
      BY <1>2, <1>3, <1>10, Zenon
    <3>2. PICK j \in 1..Len(qs) : qs[j].asks /\ a = EndOf(qs, j - 1) /\ e = EndOf(qs, j)
      BY <2>2, <3>1, FrameFound
    <3>3. SubSeq(LineOf(qs), EndOf(qs, j - 1) + 1, EndOf(qs, j)) = qs[j].bytes
      BY <3>1, PieceStretch
    <3>4. v = qs[j].bytes
      BY <3>1, <3>2, <3>3
    <3> QED
      BY <3>2, <3>4
  <2>4. j \in k + 1..Len(qs)
    <3>1. CASE j <= k
      <4>1. j \in 0..k /\ k \in 0..Len(qs)
        BY <1>3, <3>1
      <4>2. EndOf(qs, j) <= EndOf(qs, k)
        BY <1>3, <4>1, SentGrows
      <4> QED
        BY <1>3, <1>4, <1>10, <2>3, <4>2
    <3>2. CASE ~ (j <= k)
      BY <1>3, <1>4, <3>2
    <3> QED
      BY <3>1, <3>2
  <2>5. cl => j = k + 1
    <3> SUFFICES ASSUME cl, j # k + 1 PROVE FALSE
      OBVIOUS
    <3>1. j - 1 \in k + 1..Len(qs)
      BY <1>3, <1>4, <2>4
    <3>2. EndOf(qs, k) < EndOf(qs, j - 1)
      BY <1>3, <3>1, EndsDiffer
    <3>3. EndOf(qs, k) = EndOf(qs, j - 1)
      BY <1>3, <2>3
    <3> QED
      BY <1>4, <3>2, <3>3
  <2>6. Carries(l, x, w2, n, d, cl, qs, a, e, k, f)
    BY <1>2, <1>3, <1>10, <1>16, <1>19, <2>3, <2>4, <2>5 DEF Carries, Unread, InHand
  <2> QED
    BY <2>6
<1>20. CASE ~ (Len(v) < Length(v)) /\ ~ (CrcOk(v) /\ ForMe(v)) /\ x.at = "read" /\ x.frame = <<>>
  <2>1. <<>> = SubSeq(s, e + 1, e) /\ Len(x.frame) < Length(x.frame) /\ e \in e..Len(s)
    <3>1. s \in Seq(ByteType) /\ e \in Nat /\ e \in e..Len(s) /\ e - e = 0
      BY <1>4, <1>8, <1>10
    <3>2. SubSeq(s, e + 1, e) \in Seq(ByteType) /\ Len(SubSeq(s, e + 1, e)) = e - e
      BY <3>1, Stretch
    <3>3. SubSeq(s, e + 1, e) = <<>>
      BY <3>1, <3>2, EmptySeq
    <3>4. Len(<<>>) = 0 /\ Length(<<>>) = 2
      BY DEF Length
    <3> QED
      BY <1>20, <3>1, <3>3, <3>4
  <2>2. CASE ~ cl
    <3>1. EndOf(qs, k) <= e
      BY <1>3, <1>4, <1>10
    <3>2. Carries(l, x, w2, n, d, cl, qs, e, e, k, f)
      BY <1>2, <1>3, <1>10, <1>16, <1>20, <2>1, <2>2, <3>1 DEF Carries, Unread, InHand
    <3> QED
      BY <3>2
  <2>3. CASE cl
    <3>1. Length(v) <= Len(v)
      <4>1. Len(v) \in Nat /\ Length(v) \in Nat
        BY <1>11, LengthTyped, LenProperties
      <4>2. \A y, z \in Nat : ~ (y < z) => z <= y
        OBVIOUS
      <4> QED
        BY <1>20, <4>1, <4>2, Zenon
    <3>2. k + 1 \in 1..Len(qs) /\ EndOf(qs, k + 1) = e /\ v = qs[k + 1].bytes
      <4>1. /\ qs \in Seq(Pieces[l]) /\ \A j \in 1..Len(qs) : qs[j].whole
            /\ k \in 0..Len(qs) /\ a \in Nat /\ a = EndOf(qs, k)
        BY <1>3, <2>3, Zenon
      <4>2. /\ c \in a..Len(LineOf(qs)) /\ e \in c..Len(LineOf(qs))
            /\ u = SubSeq(LineOf(qs), a + 1, c) /\ v = SubSeq(LineOf(qs), a + 1, e)
            /\ Len(u) < Length(u) /\ Len(v) = Length(u)
        BY <1>2, <1>3, <1>8, <1>10, <1>11, Zenon
      <4>3. k + 1 \in 1..Len(qs) /\ EndOf(qs, k + 1) = e
        <5>1. ReadsTo(qs, a, c, e)
          BY <3>1, <4>2, Zenon DEF ReadsTo
        <5>2. ReadsTo(qs, EndOf(qs, k), c, e) /\ c \in EndOf(qs, k)..Len(LineOf(qs))
          BY <4>1, <4>2, <5>1, Zenon
        <5> QED
          BY <4>1, <4>2, <5>2, PieceRead
      <4>4. (k + 1) - 1 = k
        BY <4>1
      <4>5. SubSeq(LineOf(qs), EndOf(qs, (k + 1) - 1) + 1, EndOf(qs, k + 1)) = qs[k + 1].bytes
        BY <4>1, <4>3, PieceStretch
      <4> QED
        BY <4>1, <4>2, <4>3, <4>4, <4>5
    <3>3. ~ qs[k + 1].asks
      <4> SUFFICES ASSUME qs[k + 1].asks PROVE FALSE
        OBVIOUS
      <4>1. qs[k + 1] \in Pieces[l]
        BY <1>3, <3>2, ElementOfSeq
      <4>2. IsFrame(v)
        BY <3>2, <4>1, PiecesAssumption
      <4> QED
        BY <1>20, <4>2 DEF IsFrame
    <3>4. DueFrom(d, qs, k + 1, f)
      BY <1>3, <1>4, <3>2, <3>3, DueSkips
    <3>5. k + 1 \in 0..Len(qs) /\ EndOf(qs, k + 1) <= e
      BY <1>3, <1>4, <1>10, <3>2
    <3>6. Carries(l, x, w2, n, d, cl, qs, e, e, k + 1, f)
      BY <1>2, <1>3, <1>10, <1>16, <1>20, <2>1, <3>2, <3>4, <3>5 DEF Carries, Unread, InHand
    <3> QED
      BY <3>6
  <2> QED
    BY <2>2, <2>3
<1> QED
  BY <1>13, <1>17, <1>18, <1>19, <1>20, FollowCases, Zenon


(* An answer takes the first of the frames like the answered one, and      *)
(* those before it.                                                        *)
LEMMA Overtakes ==
  ASSUME NEW d, Len(d) \in Nat, NEW b, NEW j \in 1..Len(d), d[j] = b
  PROVE  \E i \in 1..j : Overtake(d, b) = SubSeq(d, i + 1, Len(d))
<1> DEFINE I == {i \in 1..Len(d) : d[i] = b}
<1>1. j \in I /\ I \subseteq Nat /\ \A i \in I : i \in 1..Len(d) /\ i \in Nat
  OBVIOUS
<1>2. SelectInSeq(d, LAMBDA x : x = b) = IF I # {} THEN Min(I) ELSE 0
  BY DEF SelectInSeq
<1> HIDE DEF I
<1>3. I # {}
  BY <1>1
<1>4. PICK i : i = Min(I)
  OBVIOUS
<1>5. i \in I /\ \A y \in I : i <= y
  <2>1. \E x \in I : \A y \in I : x <= y
    BY <1>1, <1>3, LeastNumber
  <2>2. i = CHOOSE x \in I : \A y \in I : x <= y
    BY <1>4 DEF Min
  <2> HIDE <1>4
  <2> QED
    BY <2>1, <2>2, Zenon
<1>6. SelectInSeq(d, LAMBDA x : x = b) = i
  BY <1>2, <1>3, <1>4, Zenon
<1>7. Overtake(d, b) = SubSeq(d, i + 1, Len(d))
  BY <1>6 DEF Overtake
<1>8. i \in 1..j
  BY <1>1, <1>5
<1> QED
  BY <1>7, <1>8

(* What is still due once the piece of the i-th frame was answered. *)
LEMMA DueAnswered ==
  ASSUME NEW d, NEW qs, Len(qs) \in Nat, NEW k \in 0..Len(qs), NEW f, DueFrom(d, qs, k, f),
         NEW i \in 1..Len(d), NEW e, e = SubSeq(d, i + 1, Len(d))
  PROVE  f[i] \in 0..Len(qs) /\ \E g : DueFrom(e, qs, f[i], g)
<1>1. d \in Seq(Seq(Octet)) /\ f[i] \in k + 1..Len(qs)
  BY DEF DueFrom
<1>2. Len(d) \in Nat /\ i \in Nat /\ Len(d) \in i..Len(d)
  <2>1. Len(d) \in Nat
    BY <1>1, LenProperties
  <2>2. \A y \in Nat : \A x \in 1..y : x \in Nat /\ y \in x..y
    OBVIOUS
  <2> QED
    BY <2>1, <2>2, Zenon
<1>3. /\ e \in Seq(Seq(Octet)) /\ Len(e) = Len(d) - i
      /\ \A x \in 1..Len(d) - i : e[x] = d[i + x]
  <2>1. /\ SubSeq(d, i + 1, Len(d)) \in Seq(Seq(Octet))
        /\ Len(SubSeq(d, i + 1, Len(d))) = Len(d) - i
        /\ \A x \in 1..Len(d) - i : SubSeq(d, i + 1, Len(d))[x] = d[i + x]
    <3>1. PICK S, z : S = Seq(Octet) /\ z = Len(d)
      OBVIOUS
    <3>2. d \in Seq(S) /\ i \in Nat /\ z \in i..Len(d)
      BY <1>1, <1>2, <3>1, Zenon
    <3>3. /\ SubSeq(d, i + 1, z) \in Seq(S) /\ Len(SubSeq(d, i + 1, z)) = z - i
          /\ \A x \in 1..z - i : SubSeq(d, i + 1, z)[x] = d[i + x]
      BY <3>2, Stretch
    <3> QED
      BY <3>1, <3>3, Zenon
  <2> QED
    BY <2>1, Zenon
<1>4. PICK m, n : m = Len(d) /\ n = Len(e)
  OBVIOUS
<1>5. m \in Nat /\ n \in Nat /\ n = m - i /\ i \in 1..m
  <2>1. m \in Nat /\ i \in 1..m /\ n = m - i
    BY <1>2, <1>3, <1>4, Zenon
  <2> QED
    BY <2>1
<1>6. \A x \in 1..n : i + x \in 1..m /\ i < i + x
  BY <1>5
<1> DEFINE g == [x \in 1..n |-> f[i + x]]
<1>7. g = [x \in 1..n |-> g[x]] /\ \A x \in 1..n : g[x] = f[i + x]
  OBVIOUS
<1> HIDE DEF g
<1>8. \A x \in 1..n : g[x] \in f[i] + 1..Len(qs)
  <2> TAKE x \in 1..n
  <2>1. f[i] < f[i + x] /\ f[i + x] \in k + 1..Len(qs)
    BY <1>4, <1>5, <1>6 DEF DueFrom
  <2>2. \A y, z \in k + 1..Len(qs) : y < z => z \in y + 1..Len(qs)
    OBVIOUS
  <2> QED
    BY <1>1, <1>7, <2>1, <2>2
<1>9. g \in [1..n -> f[i] + 1..Len(qs)]
  BY <1>7, <1>8
<1>10. \A x, y \in 1..n : x < y => g[x] < g[y]
  <2> TAKE x, y \in 1..n
  <2> HAVE x < y
  <2>1. i + x \in 1..m /\ i + y \in 1..m /\ i + x < i + y
    BY <1>5, <1>6
  <2>2. f[i + x] < f[i + y]
    BY <1>4, <2>1 DEF DueFrom
  <2> QED
    BY <1>7, <2>2
<1>11. \A x \in 1..n : qs[g[x]].asks /\ e[x] = Body(qs[g[x]].bytes)
  <2> TAKE x \in 1..n
  <2>1. qs[f[i + x]].asks /\ d[i + x] = Body(qs[f[i + x]].bytes)
    BY <1>4, <1>6 DEF DueFrom
  <2>2. e[x] = d[i + x]
    BY <1>3, <1>4, <1>5
  <2> QED
    BY <1>7, <2>1, <2>2
<1>12. \A j \in f[i] + 1..Len(qs) : qs[j].asks => \E x \in 1..n : g[x] = j
  <2> TAKE j \in f[i] + 1..Len(qs)
  <2> HAVE qs[j].asks
  <2>1. j \in k + 1..Len(qs) /\ f[i] < j
    BY <1>1
  <2>2. PICK y \in 1..m : f[y] = j
    BY <1>4, <2>1 DEF DueFrom
  <2>3. i < y
    <3>1. CASE y < i
      <4>1. f[y] < f[i]
        BY <1>4, <1>5, <2>2, <3>1 DEF DueFrom
      <4>2. \A p, q \in Nat : ~ (p < q /\ q < p)
        OBVIOUS
      <4>3. f[i] \in Nat /\ j \in Nat
        BY <1>1, <2>1
      <4> QED
        BY <2>1, <2>2, <4>1, <4>2, <4>3, Zenon
    <3>2. CASE y = i
      <4>1. f[i] \in Nat /\ f[i] < f[i]
        BY <1>1, <2>1, <2>2, <3>2
      <4> QED
        BY <4>1
    <3> QED
      BY <1>5, <3>1, <3>2
  <2>4. y - i \in 1..n /\ i + (y - i) = y
    BY <1>5, <2>3
  <2> QED
    BY <1>7, <2>2, <2>4
<1>13. DueFrom(e, qs, f[i], g)
  BY <1>3, <1>4, <1>9, <1>10, <1>11, <1>12 DEF DueFrom
<1> QED
  BY <1>1, <1>13


(* A stream begins to read, has read part of nothing. *)
LEMMA FreshIs == Fresh.at = "read" /\ Fresh.frame = <<>> /\ Len(Fresh.frame) < Length(Fresh.frame)
<1>1. Fresh.at = "read" /\ Fresh.frame = <<>>
  BY DEF Fresh, Idle
<1>2. Len(<<>>) = 0 /\ Length(<<>>) = 2
  BY DEF Length
<1> QED
  BY <1>1, <1>2

(* Nothing lies between a place and itself. *)
LEMMA NoStretch ==
  ASSUME NEW S, NEW s \in Seq(S), NEW c \in 0..Len(s)
  PROVE  SubSeq(s, c + 1, c) = <<>>
<1>1. c \in Nat /\ c \in c..Len(s) /\ c - c = 0
  BY LenProperties
<1>2. SubSeq(s, c + 1, c) \in Seq(S) /\ Len(SubSeq(s, c + 1, c)) = c - c
  BY <1>1, Stretch
<1> QED
  BY <1>1, <1>2, EmptySeq

(* The request in hand is answered, and the frames before it overtaken. *)
LEMMA LineAnswered ==
  ASSUME NEW l \in Lines, NEW r, NEW w, NEW n, NEW d, NEW cl \in BOOLEAN,
         LineOk(l, r, w, n, d, cl), r.at \in InHand
  PROVE  LineOk(l, Fresh, w, n, Overtake(d, r.frame), cl)
<1>1. PICK qs, a, c, k, f : Carries(l, r, w, n, d, cl, qs, a, c, k, f)
  BY DEF LineOk
<1>2. /\ qs \in Seq(Pieces[l]) /\ Len(qs) = n /\ n <= MaxPieces[l] /\ k \in 0..Len(qs)
      /\ DueFrom(d, qs, k, f) /\ a \in Nat /\ c \in a..Len(LineOf(qs))
      /\ w = SubSeq(LineOf(qs), c + 1, Len(LineOf(qs)))
      /\ cl => \A j \in 1..Len(qs) : qs[j].whole
  BY <1>1 DEF Carries
<1>3. PICK j \in k + 1..Len(qs) :
         /\ qs[j].asks /\ r.frame = Body(qs[j].bytes)
         /\ EndOf(qs, j) = c /\ (cl => j = k + 1)
  BY <1>1 DEF Carries
<1>4. /\ Len(qs) \in Nat /\ j \in 0..Len(qs) /\ LineOf(qs) \in Seq(ByteType)
      /\ c \in 0..Len(LineOf(qs)) /\ c \in Nat
  <2>1. Len(qs) \in Nat /\ LineOf(qs) \in Seq(ByteType)
        /\ \A m \in 0..Len(qs) : EndOf(qs, m) \in 0..Len(LineOf(qs))
    BY <1>2, LineOfTyped
  <2>2. j \in 0..Len(qs)
    BY <1>2, <2>1
  <2>3. c \in 0..Len(LineOf(qs))
    BY <1>3, <2>1, <2>2
  <2> QED
    BY <2>1, <2>2, <2>3
<1>5. d \in Seq(Seq(Octet)) /\ Len(d) \in Nat
  <2>1. d \in Seq(Seq(Octet))
    BY <1>2 DEF DueFrom
  <2> QED
    BY <2>1, LenProperties
<1>6. PICK z \in 1..Len(d) : f[z] = j
  BY <1>2, <1>3 DEF DueFrom
<1>7. d[z] = r.frame
  BY <1>2, <1>3, <1>6 DEF DueFrom
<1>8. PICK i \in 1..z : Overtake(d, r.frame) = SubSeq(d, i + 1, Len(d))
  BY <1>5, <1>7, Overtakes
<1>9. i \in 1..Len(d) /\ (i = z \/ i < z)
  BY <1>5
<1>10. PICK e : e = Overtake(d, r.frame)
  OBVIOUS
<1>11. f[i] \in 0..Len(qs) /\ \E g : DueFrom(e, qs, f[i], g)
  BY <1>2, <1>4, <1>8, <1>9, <1>10, DueAnswered
<1>12. PICK g : DueFrom(e, qs, f[i], g)
  BY <1>11
<1>13. f[i] \in k + 1..Len(qs) /\ f[i] \in 0..j
  <2>1. f[i] \in k + 1..Len(qs)
    BY <1>2, <1>9 DEF DueFrom
  <2>2. i < z => f[i] < f[z]
    BY <1>2, <1>9 DEF DueFrom
  <2>3. f[i] = j \/ f[i] < j
    BY <1>6, <1>9, <2>2, Zenon
  <2> QED
    BY <1>2, <1>4, <2>1, <2>3
<1>14. EndOf(qs, f[i]) <= c
  BY <1>2, <1>3, <1>4, <1>13, SentGrows
<1>15. cl => EndOf(qs, f[i]) = c
  <2> HAVE cl
  <2>1. f[i] = j
    BY <1>2, <1>3, <1>4, <1>13
  <2> QED
    BY <1>3, <2>1
<1>16. <<>> = SubSeq(LineOf(qs), c + 1, c) /\ c \in c..Len(LineOf(qs))
  <2>1. c \in c..Len(LineOf(qs))
    BY <1>4
  <2> QED
    BY <1>4, <2>1, NoStretch
<1>17. Carries(l, Fresh, w, n, e, cl, qs, c, c, f[i], g)
  <2>1. Fresh.at \notin InHand /\ Fresh.at # "none"
    BY FreshIs DEF InHand
  <2>2. /\ Fresh.frame = SubSeq(LineOf(qs), c + 1, c) /\ Len(Fresh.frame) < Length(Fresh.frame)
        /\ EndOf(qs, f[i]) <= c /\ (cl => EndOf(qs, f[i]) = c)
    BY <1>14, <1>15, <1>16, FreshIs
  <2>3. /\ qs \in Seq(Pieces[l]) /\ Len(qs) = n /\ n <= MaxPieces[l] /\ f[i] \in 0..Len(qs)
        /\ c \in Nat /\ c \in c..Len(LineOf(qs))
    BY <1>2, <1>4, <1>11, <1>16
  <2> QED
    BY <1>2, <1>12, <2>1, <2>2, <2>3, Zenon DEF Carries
<1> QED
  BY <1>10, <1>17, Zenon DEF LineOk

(* A stream with a request in hand goes on with it. *)
LEMMA HandMoves ==
  ASSUME NEW l \in Lines, NEW r, NEW w, NEW n, NEW d, NEW cl \in BOOLEAN,
         LineOk(l, r, w, n, d, cl), r.at \in InHand,
         NEW x, x.at \in InHand, x.frame = r.frame, x.op = r.op
  PROVE  LineOk(l, x, w, n, d, cl)
<1>1. PICK qs, a, c, k, f : Carries(l, r, w, n, d, cl, qs, a, c, k, f)
  BY DEF LineOk
<1>2. x.at \notin Unread /\ x.at # "none"
  BY DEF InHand, Unread
<1>3. Carries(l, x, w, n, d, cl, qs, a, c, k, f)
  BY <1>1, <1>2, Zenon DEF Carries
<1> QED
  BY <1>3 DEF LineOk

(* A stream ends. *)
LEMMA LineEnds ==
  ASSUME NEW l \in Lines, NEW r, NEW w, NEW n, NEW d, NEW cl \in BOOLEAN,
         LineOk(l, r, w, n, d, cl), NEW x, x.at = "ended"
  PROVE  LineOk(l, x, w, n, d, cl)
<1>1. PICK qs, a, c, k, f : Carries(l, r, w, n, d, cl, qs, a, c, k, f)
  BY DEF LineOk
<1>2. x.at \notin Unread /\ x.at # "none" /\ x.at \notin InHand
  BY DEF InHand, Unread
<1>3. Carries(l, x, w, n, d, cl, qs, a, c, k, f)
  BY <1>1, <1>2, Zenon DEF Carries
<1> QED
  BY <1>3 DEF LineOk

(* A stream begins. *)
LEMMA LineOpens ==
  ASSUME NEW l \in Lines, NEW r, NEW w, NEW n, NEW d, NEW cl \in BOOLEAN,
         LineOk(l, r, w, n, d, cl), r.at = "none"
  PROVE  LineOk(l, Fresh, w, n, d, cl)
<1>1. PICK qs, a, c, k, f : Carries(l, r, w, n, d, cl, qs, a, c, k, f)
  BY DEF LineOk
<1>2. Fresh.at \notin InHand /\ Fresh.at # "none" /\ r.at \in Unread
  BY FreshIs DEF InHand, Unread
<1>3. r.frame = Fresh.frame
  BY <1>1, FreshIs DEF Carries
<1>4. Carries(l, Fresh, w, n, d, cl, qs, a, c, k, f)
  BY <1>1, <1>2, <1>3, Zenon DEF Carries
<1> QED
  BY <1>4 DEF LineOk

(* At first nothing is on a line. *)
LEMMA LineEmpty == ASSUME NEW l \in Lines PROVE LineOk(l, Idle, <<>>, 0, <<>>, TRUE)
<1>1. PICK qs : qs = <<>>
  OBVIOUS
<1>2. qs \in Seq(Pieces[l]) /\ Len(qs) = 0 /\ 0 <= MaxPieces[l] /\ 0 \in 0..Len(qs) /\ 0 \in Nat
  BY <1>1, LineAssumption
<1>3. LineOf(qs) = <<>>
  <2>1. Len(qs) \in Nat
    BY <1>2
  <2> QED
    BY <1>2, <2>1, SentRecursion DEF LineOf
<1>4. EndOf(qs, 0) = 0
  BY <1>2, SentTyped
<1>5. PICK f : f = <<>>
  OBVIOUS
<1>6. DueFrom(<<>>, qs, 0, f)
  <2>1. <<>> \in Seq(Seq(Octet)) /\ Len(<<>>) = 0
    OBVIOUS
  <2>2. f \in [1..0 -> 0 + 1..Len(qs)] /\ \A j \in 0 + 1..Len(qs) : FALSE
    BY <1>2, <1>5
  <2> QED
    BY <1>2, <2>1, <2>2 DEF DueFrom
<1>7. Idle.at = "none" /\ Idle.frame = <<>>
  BY DEF Idle
<1>8. Len(<<>>) = 0 /\ Length(<<>>) = 2 /\ SubSeq(<<>>, 0 + 1, 0) = <<>>
  BY DEF Length
<1>9. \A j \in 1..Len(qs) : qs[j].whole
  BY <1>2
<1>10. Carries(l, Idle, <<>>, 0, <<>>, TRUE, qs, 0, 0, 0, f)
  BY <1>2, <1>3, <1>4, <1>6, <1>7, <1>8, <1>9 DEF Carries, Unread, InHand
<1> QED
  BY <1>10 DEF LineOk

(* What is in hand was written, and is due; nothing whole is passed over. *)
LEMMA HandIsDue ==
  ASSUME NEW l \in Lines, NEW r, NEW w, NEW n, NEW d, NEW cl \in BOOLEAN,
         LineOk(l, r, w, n, d, cl)
  PROVE  /\ r.at \in InHand => r.frame \in ToSet(d) /\ (cl => r.frame = Head(d))
         /\ cl /\ r = Fresh /\ w = <<>> => d = <<>>
<1>1. PICK qs, a, c, k, f : Carries(l, r, w, n, d, cl, qs, a, c, k, f)
  BY DEF LineOk
<1>2. /\ qs \in Seq(Pieces[l]) /\ Len(qs) = n /\ n <= MaxPieces[l] /\ k \in 0..Len(qs)
      /\ DueFrom(d, qs, k, f) /\ a \in Nat /\ c \in a..Len(LineOf(qs))
      /\ w = SubSeq(LineOf(qs), c + 1, Len(LineOf(qs)))
      /\ cl => \A j \in 1..Len(qs) : qs[j].whole
  BY <1>1 DEF Carries
<1>3. d \in Seq(Seq(Octet)) /\ Len(d) \in Nat
  <2>1. d \in Seq(Seq(Octet))
    BY <1>2 DEF DueFrom
  <2> QED
    BY <2>1, LenProperties
<1>4. /\ Len(qs) \in Nat /\ LineOf(qs) \in Seq(ByteType) /\ Len(LineOf(qs)) \in Nat
      /\ Len(LineOf(qs)) = EndOf(qs, Len(qs))
  BY <1>2, LineOfTyped
<1>5. ASSUME r.at \in InHand
      PROVE  r.frame \in ToSet(d) /\ (cl => r.frame = Head(d))
  <2>1. PICK j \in k + 1..Len(qs) : qs[j].asks /\ r.frame = Body(qs[j].bytes) /\ (cl => j = k + 1)
    BY <1>1, <1>5 DEF Carries
  <2>2. PICK z \in 1..Len(d) : f[z] = j
    BY <1>2, <2>1 DEF DueFrom
  <2>3. d[z] = r.frame
    BY <1>2, <2>1, <2>2 DEF DueFrom
  <2>4. DOMAIN d = 1..Len(d)
    BY <1>3, LenProperties
  <2>5. r.frame \in ToSet(d)
    BY <2>3, <2>4 DEF ToSet
  <2>6. ASSUME cl PROVE z = 1
    <3> SUFFICES ASSUME z # 1 PROVE FALSE
      OBVIOUS
    <3>1. 1 \in 1..Len(d) /\ 1 < z
      BY <1>3
    <3>2. f[1] < f[z] /\ f[1] \in k + 1..Len(qs) /\ f[z] = k + 1
      BY <1>2, <2>1, <2>2, <2>6, <3>1 DEF DueFrom
    <3> QED
      BY <1>2, <1>4, <3>2
  <2>7. Head(d) = d[1]
    BY <1>3, <2>2
  <2> QED
    BY <2>3, <2>5, <2>6, <2>7
<1>6. ASSUME cl, r = Fresh, w = <<>>
      PROVE  d = <<>>
  <2>1. r.at \in Unread /\ r.frame = <<>>
    BY <1>6, FreshIs DEF Unread
  <2>2. r.frame = SubSeq(LineOf(qs), a + 1, c) /\ EndOf(qs, k) = a
    BY <1>1, <1>6, <2>1 DEF Carries
  <2>3. PICK s, e : s = LineOf(qs) /\ e = Len(s)
    OBVIOUS
  <2>4. s \in Seq(ByteType) /\ a \in Nat /\ c \in a..Len(s) /\ c \in Nat /\ e \in c..Len(s) /\ a <= c /\ e \in Nat
    BY <1>2, <1>4, <2>3
  <2>5. Len(SubSeq(s, a + 1, c)) = c - a /\ Len(SubSeq(s, c + 1, e)) = e - c
    BY <2>4, Stretch
  <2>6. SubSeq(s, a + 1, c) = <<>> /\ SubSeq(s, c + 1, e) = <<>> /\ Len(<<>>) = 0
    BY <1>2, <1>6, <2>1, <2>2, <2>3
  <2>7. c - a = 0 /\ e - c = 0
    BY <2>5, <2>6, Zenon
  <2>8. EndOf(qs, k) = EndOf(qs, Len(qs))
    BY <1>4, <2>2, <2>3, <2>4, <2>7
  <2>9. k = Len(qs)
    <3> SUFFICES ASSUME k # Len(qs) PROVE FALSE
      OBVIOUS
    <3>1. Len(qs) \in k + 1..Len(qs)
      BY <1>2, <1>4
    <3>2. EndOf(qs, k) < EndOf(qs, Len(qs))
      BY <1>2, <1>6, <3>1, EndsDiffer
    <3>3. EndOf(qs, k) \in Nat
      BY <1>2, SentTyped
    <3> QED
      BY <2>8, <3>2, <3>3
  <2>10. Len(d) = 0
    <3> SUFFICES ASSUME Len(d) # 0 PROVE FALSE
      OBVIOUS
    <3>1. 1 \in 1..Len(d)
      BY <1>3
    <3>2. f[1] \in k + 1..Len(qs)
      BY <1>2, <3>1 DEF DueFrom
    <3> QED
      BY <1>4, <2>9, <3>2
  <2> QED
    BY <1>3, <2>10, EmptySeq
<1> QED
  BY <1>5, <1>6


----------------------------------------------------------------------------
(* Every line, at every moment *)

Fields == {"at", "frame", "op"}

LinesTyped ==
  /\ DOMAIN rd = Lines /\ DOMAIN wire = Lines /\ DOMAIN put = Lines /\ DOMAIN due = Lines
  /\ \A l \in Lines : Fields \subseteq DOMAIN rd[l]

LinesOk ==
  LinesTyped /\ \A l \in Lines : LineOk(l, rd[l], wire[l], put[l], due[l], l \in clean)

(* The other lines are left alone. *)
Aside(l) ==
  /\ DOMAIN rd' = Lines /\ DOMAIN wire' = Lines /\ DOMAIN put' = Lines /\ DOMAIN due' = Lines
  /\ \A k \in Lines \ {l} :
       /\ rd'[k] = rd[k] /\ wire'[k] = wire[k] /\ put'[k] = put[k] /\ due'[k] = due[k]
       /\ (k \in clean') = (k \in clean)

(* So one line moves. *)
LEMMA OneLine ==
  ASSUME LinesOk, NEW l \in Lines, Aside(l), Fields \subseteq DOMAIN rd'[l],
         LineOk(l, rd'[l], wire'[l], put'[l], due'[l], l \in clean')
  PROVE  LinesOk'
<1>1. LinesTyped'
  BY DEF LinesOk, LinesTyped, Aside
<1>2. ASSUME NEW k \in Lines
      PROVE  LineOk(k, rd'[k], wire'[k], put'[k], due'[k], k \in clean')
  <2>1. CASE k = l
    BY <2>1
  <2>2. CASE k # l
    <3>1. LineOk(k, rd[k], wire[k], put[k], due[k], k \in clean)
      BY DEF LinesOk
    <3>2. /\ rd'[k] = rd[k] /\ wire'[k] = wire[k] /\ put'[k] = put[k] /\ due'[k] = due[k]
          /\ (k \in clean') = (k \in clean)
      BY <2>2 DEF Aside
    <3> QED
      BY <3>1, <3>2
  <2> QED
    BY <2>1, <2>2
<1> QED
  BY <1>1, <1>2 DEF LinesOk

(* The goroutines of the endpoint, the ticker and the entries touch none   *)
(* of it.                                                                  *)
LEMMA LinesRest == ASSUME LinesOk, UNCHANGED <<rd, wire, put, due, clean>> PROVE LinesOk'
BY DEF LinesOk, LinesTyped

(* A line is clean or not. *)
LEMMA CleanOrNot == ASSUME NEW l, NEW S PROVE \E cl : cl \in BOOLEAN /\ cl = (l \in S)
<1>1. CASE l \in S
  <2>1. TRUE \in BOOLEAN /\ TRUE = (l \in S)
    BY <1>1
  <2> WITNESS TRUE
  <2> QED
    BY <2>1
<1>2. CASE l \notin S
  <2>1. FALSE \in BOOLEAN /\ FALSE = (l \in S)
    BY <1>2
  <2> WITNESS FALSE
  <2> QED
    BY <2>1
<1> QED
  BY <1>1, <1>2

(* The other end writes. *)
LEMMA WrittenOk ==
  ASSUME LinesOk, NEW l \in Lines, NEW p \in Pieces[l], Transmit(l, p)
  PROVE  LinesOk'
<1> USE DEF LinesOk
<1>1. PICK r, w, n, d : r = rd[l] /\ w = wire[l] /\ n = put[l] /\ d = due[l]
  OBVIOUS
<1>2. PICK cl : cl \in BOOLEAN /\ cl = (l \in clean)
  BY CleanOrNot
<1>3. LineOk(l, r, w, n, d, cl)
  BY <1>1, <1>2
<1>4. n < MaxPieces[l]
  BY <1>1 DEF Transmit
<1>5. PICK e : e = IF p.asks THEN Append(d, Body(p.bytes)) ELSE d
  OBVIOUS
<1>6. LineOk(l, r, w \o p.bytes, n + 1, e, cl /\ p.whole)
  BY <1>2, <1>3, <1>4, <1>5, LineGrows
<1>7. rd' = rd /\ wire' = [wire EXCEPT ![l] = w \o p.bytes] /\ put' = [put EXCEPT ![l] = n + 1]
  BY <1>1 DEF Transmit
<1>a. DOMAIN due' = Lines /\ due'[l] = e /\ \A k \in Lines \ {l} : due'[k] = due[k]
  <2>1. CASE p.asks
    BY <1>1, <1>5, <2>1 DEF Transmit, LinesTyped
  <2>2. CASE ~ p.asks
    BY <1>1, <1>5, <2>2 DEF Transmit, LinesTyped
  <2> QED
    BY <2>1, <2>2
<1>8. /\ \A k \in Lines \ {l} : (k \in clean') = (k \in clean)
      /\ (l \in clean') = (cl /\ p.whole)
  <2>1. CASE p.whole
    BY <1>2, <2>1 DEF Transmit
  <2>2. CASE ~ p.whole
    BY <1>2, <2>2 DEF Transmit
  <2> QED
    BY <2>1, <2>2
<1>9. Aside(l)
  BY <1>7, <1>8, <1>a DEF LinesTyped, Aside
<1>10. rd'[l] = r /\ wire'[l] = w \o p.bytes /\ put'[l] = n + 1 /\ due'[l] = e
  BY <1>1, <1>7, <1>a DEF LinesTyped
<1>11. LineOk(l, rd'[l], wire'[l], put'[l], due'[l], l \in clean')
  BY <1>6, <1>8, <1>10
<1>12. Fields \subseteq DOMAIN rd'[l]
  BY <1>7 DEF LinesTyped
<1> HIDE DEF LinesOk
<1> QED
  BY <1>9, <1>11, <1>12, OneLine

(* Only the stream of a line moves. *)
LEMMA StreamMoves ==
  ASSUME LinesOk, NEW l \in Lines, NEW x, rd' = [rd EXCEPT ![l] = x], Fields \subseteq DOMAIN x,
         UNCHANGED <<wire, put, due, clean>>,
         LineOk(l, x, wire[l], put[l], due[l], l \in clean)
  PROVE  LinesOk'
<1>1. Aside(l) /\ rd'[l] = x
  BY DEF LinesOk, LinesTyped, Aside
<1>2. LineOk(l, rd'[l], wire'[l], put'[l], due'[l], l \in clean')
  BY <1>1
<1> QED
  BY <1>1, <1>2, OneLine

(* A frame is read, or reading fails. *)
LEMMA ReadOk ==
  ASSUME LinesOk, NEW l \in Lines, ReadFull(l) \/ ReadFails(l)
  PROVE  LinesOk'
<1>a. PICK cl : cl \in BOOLEAN /\ cl = (l \in clean)
  BY CleanOrNot
<1>1. PICK r, w, n, d : r = rd[l] /\ w = wire[l] /\ n = put[l] /\ d = due[l]
  OBVIOUS
<1>2. LineOk(l, r, w, n, d, cl)
  BY <1>1, <1>a DEF LinesOk
<1>3. CASE ReadFull(l)
  <2>1. PICK m : m = Length(r.frame) - Len(r.frame)
    OBVIOUS
  <2>2. m = Missing(l)
    BY <1>1, <2>1 DEF Missing
  <2>3. Awaits(r, w, m)
    BY <1>1, <1>3, <2>1, <2>2 DEF ReadFull, At, Awaits
  <2>4. PICK x : x = Follow(r.frame \o SubSeq(w, 1, m))
    OBVIOUS
  <2>5. LineOk(l, x, SubSeq(w, m + 1, Len(w)), n, d, cl)
    BY <1>2, <1>a, <2>3, <2>4, LineRead
  <2>6. rd' = [rd EXCEPT ![l] = x] /\ wire' = [wire EXCEPT ![l] = SubSeq(w, m + 1, Len(w))]
        /\ UNCHANGED <<put, clean, due>>
    BY <1>1, <1>3, <2>2, <2>4 DEF ReadFull
  <2>7. Fields \subseteq DOMAIN x
    <3>1. Fields \subseteq DOMAIN Idle
      BY DEF Fields, Idle
    <3>2. DOMAIN Follow(r.frame \o SubSeq(w, 1, m)) = DOMAIN Idle
      BY DEF Follow, Fresh
    <3> QED
      BY <2>4, <3>1, <3>2
  <2>8. Aside(l) /\ rd'[l] = x /\ wire'[l] = SubSeq(w, m + 1, Len(w)) /\ put'[l] = n /\ due'[l] = d
        /\ (l \in clean') = cl
    BY <1>1, <1>a, <2>6 DEF LinesOk, LinesTyped, Aside
  <2>9. LineOk(l, rd'[l], wire'[l], put'[l], due'[l], l \in clean')
    BY <2>5, <2>8
  <2> QED
    BY <2>7, <2>8, <2>9, OneLine
<1>4. CASE ReadFails(l)
  <2>1. PICK x : x = [Idle EXCEPT !.at = "ended"]
    OBVIOUS
  <2>2. x.at = "ended" /\ Fields \subseteq DOMAIN x
    BY <2>1 DEF Idle, Fields
  <2>3. LineOk(l, x, w, n, d, cl)
    BY <1>2, <1>a, <2>2, LineEnds
  <2>4. rd' = [rd EXCEPT ![l] = x] /\ UNCHANGED <<wire, put, clean, due>>
    BY <1>4, <2>1 DEF ReadFails, inputVars
  <2>5. LineOk(l, x, wire[l], put[l], due[l], l \in clean)
    BY <1>1, <1>a, <2>3
  <2> QED
    BY <2>2, <2>4, <2>5, StreamMoves
<1> QED
  BY <1>3, <1>4

(* A request is carried out: the stream keeps its frame until the answer.  *)
LEMMA RequestOk ==
  ASSUME LinesOk, NEW l \in Lines, Acquire(l) \/ Execute(l)
  PROVE  LinesOk'
<1>a. PICK cl : cl \in BOOLEAN /\ cl = (l \in clean)
  BY CleanOrNot
<1>1. PICK r, w, n, d : r = rd[l] /\ w = wire[l] /\ n = put[l] /\ d = due[l]
  OBVIOUS
<1>2. LineOk(l, r, w, n, d, cl) /\ Fields \subseteq DOMAIN r
  BY <1>1, <1>a DEF LinesOk, LinesTyped
<1>3. CASE Reply(l)
  <2>1. r.at \in InHand
    BY <1>1, <1>3 DEF Reply, At, InHand
  <2>2. PICK e : e = Overtake(d, r.frame)
    OBVIOUS
  <2>3. LineOk(l, Fresh, w, n, e, cl)
    BY <1>2, <1>a, <2>1, <2>2, LineAnswered
  <2>4. rd' = [rd EXCEPT ![l] = Fresh] /\ due' = [due EXCEPT ![l] = e] /\ UNCHANGED <<wire, put, clean>>
    BY <1>1, <1>3, <2>2 DEF Reply, inputVars
  <2>5. Aside(l) /\ rd'[l] = Fresh /\ wire'[l] = w /\ put'[l] = n /\ due'[l] = e
        /\ (l \in clean') = cl
    BY <1>1, <1>a, <2>4 DEF LinesOk, LinesTyped, Aside
  <2>6. Fields \subseteq DOMAIN rd'[l]
    <3>1. Fields \subseteq DOMAIN Fresh
      BY DEF Fields, Fresh, Idle
    <3> QED
      BY <2>5, <3>1
  <2>7. LineOk(l, rd'[l], wire'[l], put'[l], due'[l], l \in clean')
    BY <2>3, <2>5
  <2> QED
    BY <2>5, <2>6, <2>7, OneLine
<1>4. CASE ~ Reply(l)
  <2>1. \E x : /\ x.at \in InHand /\ x.frame = r.frame /\ x.op = r.op /\ Fields \subseteq DOMAIN x
               /\ rd' = [rd EXCEPT ![l] = x]
    <3>1. rd = [k \in Lines |-> rd[k]] => rd[l] = r
      BY <1>1
    <3>2. CASE RLock(l) \/ EndRead(l) \/ GiveUpReadLock(l) \/ Lock(l) \/ Locked(l) \/ Unlock(l) \/ RUnlock(l)
      <4>1. PICK stage \in InHand : Goto(l, stage)
        BY <3>2 DEF RLock, EndRead, GiveUpReadLock, Lock, Locked, Unlock, RUnlock, InHand
      <4>2. PICK x : x = [r EXCEPT !.at = stage]
        OBVIOUS
      <4>3. x.at = stage /\ x.frame = r.frame /\ x.op = r.op /\ Fields \subseteq DOMAIN x
        BY <1>2, <4>2 DEF Fields
      <4>4. rd' = [rd EXCEPT ![l] = x]
        BY <1>1, <4>1, <4>2 DEF Goto
      <4> QED
        BY <4>1, <4>3, <4>4
    <3>3. CASE ReadEntry(l)
      <4>1. PICK i, y : rd' = [rd EXCEPT ![l] = [r EXCEPT !.idx = i, !.data = y]]
        BY <1>1, <3>3 DEF ReadEntry
      <4>2. PICK x : x = [r EXCEPT !.idx = i, !.data = y]
        OBVIOUS
      <4>3. x.at = r.at /\ x.frame = r.frame /\ x.op = r.op /\ Fields \subseteq DOMAIN x
        BY <1>2, <4>2 DEF Fields
      <4>4. r.at \in InHand
        BY <1>1, <3>3 DEF ReadEntry, At, InHand
      <4> QED
        BY <4>1, <4>2, <4>3, <4>4
    <3>4. CASE WriteEntry(l)
      <4>1. PICK i : rd' = [rd EXCEPT ![l] = [r EXCEPT !.idx = i]]
        BY <1>1, <3>4 DEF WriteEntry
      <4>2. PICK x : x = [r EXCEPT !.idx = i]
        OBVIOUS
      <4>3. x.at = r.at /\ x.frame = r.frame /\ x.op = r.op /\ Fields \subseteq DOMAIN x
        BY <1>2, <4>2 DEF Fields
      <4>4. r.at \in InHand
        BY <1>1, <3>4 DEF WriteEntry, At, InHand
      <4> QED
        BY <4>1, <4>2, <4>3, <4>4
    <3> QED
      BY <1>4, <3>2, <3>3, <3>4 DEF Acquire, Execute
  <2>2. PICK x : /\ x.at \in InHand /\ x.frame = r.frame /\ x.op = r.op /\ Fields \subseteq DOMAIN x
                 /\ rd' = [rd EXCEPT ![l] = x]
    BY <2>1
  <2>3. r.at \in InHand
    BY <1>1, <1>4 DEF Acquire, Execute, RLock, EndRead, GiveUpReadLock, Lock, Locked, Unlock,
         RUnlock, ReadEntry, WriteEntry, At, InHand
  <2>4. LineOk(l, x, w, n, d, cl)
    BY <1>2, <1>a, <2>2, <2>3, HandMoves
  <2>5. UNCHANGED <<wire, put, clean, due>>
    BY <1>4 DEF Acquire, Execute, RLock, EndRead, GiveUpReadLock, Lock, Locked, Unlock,
         RUnlock, ReadEntry, WriteEntry, inputVars
  <2>6. LineOk(l, x, wire[l], put[l], due[l], l \in clean)
    BY <1>1, <1>a, <2>4
  <2> QED
    BY <2>2, <2>5, <2>6, StreamMoves
<1> QED
  BY <1>3, <1>4


(* A stream begins to be read. *)
LEMMA OpenedOk ==
  ASSUME LinesOk, NEW l \in Lines, rd[l].at = "none", rd' = [rd EXCEPT ![l] = Fresh],
         UNCHANGED <<wire, put, due, clean>>
  PROVE  LinesOk'
<1>a. PICK cl : cl \in BOOLEAN /\ cl = (l \in clean)
  BY CleanOrNot
<1>1. PICK r, w, n, d : r = rd[l] /\ w = wire[l] /\ n = put[l] /\ d = due[l]
  OBVIOUS
<1>2. LineOk(l, r, w, n, d, cl) /\ r.at = "none"
  BY <1>1, <1>a DEF LinesOk
<1>3. LineOk(l, Fresh, w, n, d, cl)
  BY <1>2, <1>a, LineOpens
<1>4. LineOk(l, Fresh, wire[l], put[l], due[l], l \in clean)
  BY <1>1, <1>3, <1>a
<1>5. Fields \subseteq DOMAIN Fresh
  BY DEF Fields, Fresh, Idle
<1>6. PICK x : x = Fresh
  OBVIOUS
<1>7. LineOk(l, x, wire[l], put[l], due[l], l \in clean) /\ Fields \subseteq DOMAIN x
  BY <1>4, <1>5, <1>6
<1>8. rd' = [rd EXCEPT ![l] = x]
  BY <1>6
<1> QED
  BY <1>7, <1>8, StreamMoves

(* At first no line carries anything. *)
LEMMA LinesInit == Init => LinesOk
<1> SUFFICES ASSUME Init PROVE LinesOk
  OBVIOUS
<1>1. LinesTyped
  BY DEF Init, LineInit, LinesTyped, Fields, Idle
<1>2. ASSUME NEW l \in Lines
      PROVE  LineOk(l, rd[l], wire[l], put[l], due[l], l \in clean)
  <2>1. LineOk(l, Idle, <<>>, 0, <<>>, TRUE)
    BY LineEmpty
  <2>2. rd[l] = Idle /\ wire[l] = <<>> /\ put[l] = 0 /\ due[l] = <<>> /\ (l \in clean) = TRUE
    BY DEF Init, LineInit
  <2> QED
    BY <2>1, <2>2
<1> QED
  BY <1>1, <1>2 DEF LinesOk

(* Every step keeps all lines so. *)
LEMMA LinesNext == TtyInv /\ LinesOk /\ [Next]_ttyVars => LinesOk'
<1> SUFFICES ASSUME TtyInv, LinesOk, [Next]_ttyVars PROVE LinesOk'
  OBVIOUS
<1>1. CASE OpenFails \/ AcceptFails \/ ClosePort \/ SerialReturns \/ EndTicker \/ Cancel \/ Ticker
  <2>1. UNCHANGED <<rd, wire, put, due, clean>>
    BY <1>1 DEF OpenFails, AcceptFails, ClosePort, SerialReturns, EndTicker, Cancel, Ticker, Tick,
         Count, Load, Store, TickUnlocks, TickOver, lineVars, inputVars
  <2> QED
    BY <2>1, LinesRest
<1>2. CASE Open
  <2>1. UNCHANGED <<wire, put, due, clean>>
    BY <1>2 DEF Open, inputVars
  <2>2. CASE mode = "serial"
    <3>1. Serial \in Lines /\ rd[Serial].at = "none"
      BY <1>2, EndpointAssumption DEF Open, TtyInv, NotYetOpen
    <3>2. rd' = [rd EXCEPT ![Serial] = Fresh]
      BY <1>2, <2>2 DEF Open
    <3> QED
      BY <2>1, <3>1, <3>2, OpenedOk
  <2>3. CASE mode # "serial"
    <3>1. rd' = rd
      BY <1>2, <2>3 DEF Open
    <3> QED
      BY <2>1, <3>1, LinesRest
  <2> QED
    BY <2>2, <2>3
<1>3. CASE \E c \in Conns : Accept(c)
  <2>1. PICK c \in Conns : Accept(c)
    BY <1>3
  <2>2. c \in Lines /\ rd[c].at = "none" /\ rd' = [rd EXCEPT ![c] = Fresh]
        /\ UNCHANGED <<wire, put, due, clean>>
    BY <2>1, EndpointAssumption DEF Accept, At, inputVars
  <2> QED
    BY <2>2, OpenedOk
<1>4. CASE Quiet \/ ReadClosed \/ \E c \in Conns : HangUp(c)
  BY <1>4, ReadOk, EndpointAssumption DEF Quiet, ReadClosed, HangUp
<1>5. CASE \E l \in Lines : Receive(l)
  BY <1>5, WrittenOk DEF Receive
<1>6. CASE \E l \in Lines : Stream(l)
  BY <1>6, ReadOk, RequestOk DEF Stream
<1>7. CASE UNCHANGED ttyVars
  <2>1. UNCHANGED <<rd, wire, put, due, clean>>
    BY <1>7 DEF ttyVars, lineVars, inputVars
  <2> QED
    BY <2>1, LinesRest
<1> QED
  BY <1>1, <1>2, <1>3, <1>4, <1>5, <1>6, <1>7 DEF Next, Endpoint

(* handleStream answers what was written and nothing else: whatever noise, *)
(* short frames, damaged frames and frames for others its line carries,    *)
(* the request it carries out is a frame of its line that is still due;    *)
(* and on a line that carries whole frames only, it is the next one, and   *)
(* none is left when all the bytes are read. A stream that met an unknown  *)
(* function code has ended and answers nothing more.                       *)
THEOREM FramesAreAnswered == Spec => []AnswersFollowFrames
<1>1. LinesOk => AnswersFollowFrames
  <2> SUFFICES ASSUME LinesOk, NEW l \in Lines
               PROVE  /\ Serving(l) => /\ rd[l].frame \in ToSet(due[l])
                                       /\ l \in clean => rd[l].frame = Head(due[l])
                      /\ l \in clean /\ rd[l] = Fresh /\ wire[l] = <<>> => due[l] = <<>>
    BY DEF AnswersFollowFrames
  <2>1. PICK cl : cl \in BOOLEAN /\ cl = (l \in clean)
    BY CleanOrNot
  <2>2. PICK r, w, n, d : r = rd[l] /\ w = wire[l] /\ n = put[l] /\ d = due[l]
    OBVIOUS
  <2>3. LineOk(l, r, w, n, d, cl)
    BY <2>1, <2>2 DEF LinesOk
  <2>4. /\ r.at \in InHand => r.frame \in ToSet(d) /\ (cl => r.frame = Head(d))
        /\ cl /\ r = Fresh /\ w = <<>> => d = <<>>
    <3>1. cl \in BOOLEAN
      BY <2>1
    <3> QED
      BY <2>3, <3>1, HandIsDue, Zenon
  <2>5. Serving(l) <=> r.at \in InHand
    BY <2>2 DEF Serving, InHand
  <2> QED
    BY <2>1, <2>2, <2>4, <2>5
<1> QED
  BY <1>1, TtyInit, TtyNext, LinesInit, LinesNext, PTL DEF Spec, SafeSpec


----------------------------------------------------------------------------
(* The requests and the entries *)

(* What the frames of the lines ask for. *)
Asked == { Request(Body(p.bytes)) : p \in { q \in UNION { Pieces[l] : l \in Lines } : q.asks } }

(* A table has its entries and nothing else. *)
IsStore(m) == m = [t \in Tables |-> [x \in 0..Size - 1 |-> m[t][x]]]

(* What a read q has in hand after n entries of the store m. *)
Taken(m, q, n) == [k \in 1..n |-> m[q.table][q.start + k - 1]]

(* After n entries of a write q the store m has n of its words, and is     *)
(* beyond them what it was before.                                         *)
Written(m, old, q, n) ==
  \A t \in Tables, x \in 0..Size - 1 :
    m[t][x] = IF t = q.table /\ x \in q.start..q.start + n - 1
                THEN q.words[x - q.start + 1] ELSE old[t][x]

(* What the stream r holds of its request, and what the store m has of it, *)
(* which was old before.                                                   *)
OneWrites == {"want", "pending", "write", "again", "leave"}
Progress(r, m, old) ==
  /\ r.at \notin InHand => r.op = NoRequest
  /\ r.at \notin InHand \/ r.at \in {"call", "want", "pending"} => r.idx = 0
  /\ r.at \notin {"held", "reply"} => r.data = <<>>
  /\ r.at \in OneWrites => r.op.fn = "write"
  /\ r.at = "held" =>
       IF r.op.fn = "read" /\ Permitted(r.op)
         THEN r.idx \in 0..r.op.qty /\ r.data = Taken(m, r.op, r.idx)
         ELSE r.idx = 0 /\ r.data = <<>>
  /\ r.at = "write" =>
       IF Permitted(r.op)
         THEN r.idx \in 0..r.op.qty /\ Written(m, old, r.op, r.idx)
         ELSE m = old

AllFields == {"at", "frame", "op", "idx", "data"}
StreamsTyped == DOMAIN rd = Lines /\ \A l \in Lines : AllFields \subseteq DOMAIN rd[l]

(* Only who writes is at the entries then; and while nobody writes, the    *)
(* store is as the last writer left it.                                    *)
Alone == (\E l \in Lines : rd[l].at = "write") \/ upd.at \in {"loaded", "stored"} => readers = {}
Settled == (\A l \in Lines : rd[l].at # "write") /\ upd.at # "stored" => mem = committed

Ticked == TickWrite((upd.v + 1) % WordMod)
TickerInHand ==
  /\ upd.at \in {"loaded", "stored", "unlocked"} => upd.v \in Nat
  /\ upd.at = "stored" => Written(mem, committed, Ticked, 1)

StoreInv ==
  /\ IsStore(mem) /\ IsStore(committed) /\ \A x \in 0..Size - 1 : mem["holding"][x] \in Nat
  /\ StreamsTyped /\ \A l \in Lines : Progress(rd[l], mem, committed)
  /\ Alone /\ Settled /\ TickerInHand


----------------------------------------------------------------------------
(* What a frame asks for: a read or a write of a table, and, if the table  *)
(* is that of the ticker, numbers for its registers.                       *)
KnownRequest(q) ==
  /\ q.fn \in {"read", "write"} /\ q.table \in Tables
  /\ q.start \in Nat /\ q.qty \in Nat /\ q.sound \in BOOLEAN
  /\ q.fn = "write" /\ q.table = "holding" /\ q.sound => \A k \in 1..q.qty : q.words[k] \in Nat

LEMMA BodyElements ==
  ASSUME NEW w \in Seq(ByteType), Len(w) >= 2
  PROVE  \A i \in 1..Len(w) - 2 : Body(w)[i] = w[i].v /\ Body(w)[i] \in Nat
<1>1. Len(w) \in Nat /\ \A i \in 1..Len(w) : w[i].v \in Octet /\ w[i].v \in Nat
  BY BytesTyped
<1>2. Values(w) \in [1..Len(w) -> Octet]
  BY <1>1 DEF Values
<1>3. PICK u : u = Values(w)
  OBVIOUS
<1>4. u \in Seq(Octet) /\ DOMAIN u = 1..Len(w)
  <2>1. u \in [1..Len(w) -> Octet] /\ Len(w) \in Nat
    BY <1>1, <1>2, <1>3
  <2> QED
    BY <2>1, SeqDef
<1>5. Len(u) = Len(w)
  BY <1>1, <1>4, LenProperties
<1>6. u \in Seq(Octet) /\ 0 \in Nat /\ Len(w) - 2 \in 0..Len(u)
  BY <1>1, <1>4, <1>5
<1>7. \A i \in 1..(Len(w) - 2) - 0 : SubSeq(u, 0 + 1, Len(w) - 2)[i] = u[0 + i]
  BY <1>6, Stretch
<1>8. 0 + 1 = 1 /\ (Len(w) - 2) - 0 = Len(w) - 2 /\ \A i \in 1..Len(w) - 2 : 0 + i = i /\ i \in 1..Len(w)
  BY <1>1
<1>9. Body(w) = SubSeq(u, 0 + 1, Len(w) - 2)
  BY <1>3, <1>8 DEF Body
<1>10. \A i \in 1..Len(w) : u[i] = w[i].v
  BY <1>3 DEF Values
<1> QED
  BY <1>1, <1>7, <1>8, <1>9, <1>10

(* Two bytes are a number. *)
LEMMA WordTyped ==
  ASSUME NEW b, NEW k \in Nat, b[k] \in Nat, b[k + 1] \in Nat
  PROVE  Word(b, k) \in Nat
BY DEF Word

LEMMA RequestKnown ==
  ASSUME NEW l \in Lines, NEW p \in Pieces[l], p.asks
  PROVE  KnownRequest(Request(Body(p.bytes)))
<1>1. PICK w : w = p.bytes
  OBVIOUS
<1>2. /\ w \in Seq(ByteType) /\ Len(w) = Length(w) /\ w[2].v \in Short \cup Long
  BY <1>1, PiecesAssumption DEF IsFrame, ByteType, Octet
<1>3. Len(w) \in Nat /\ Len(w) >= 8
  BY <1>2, LengthTyped, LenProperties
<1>4. PICK b : b = Body(w)
  OBVIOUS
<1>5. \A i \in 1..Len(w) - 2 : b[i] = w[i].v /\ b[i] \in Nat
  BY <1>2, <1>3, <1>4, BodyElements
<1>6. \A i \in {2, 3, 4, 5, 6} : b[i] = w[i].v /\ b[i] \in Nat
  BY <1>3, <1>5
<1>7. PICK fn, value, start : fn = b[2] /\ value = Word(b, 5) /\ start = Word(b, 3)
  OBVIOUS
<1>8. value \in Nat /\ start \in Nat
  <2>1. b[3] \in Nat /\ b[3 + 1] \in Nat /\ b[5] \in Nat /\ b[5 + 1] \in Nat
    BY <1>6
  <2> QED
    BY <1>7, <2>1, WordTyped
<1>9. fn \in 1..6 \cup {15, 16}
  BY <1>2, <1>6, <1>7 DEF Short, Long
<1>10. PICK q : q = Request(b)
  OBVIOUS
<1>11. /\ q.fn = (IF fn \in 1..4 THEN "read" ELSE "write")
       /\ q.table = TableOf(fn) /\ q.start = start
       /\ q.qty = (IF fn \in {5, 6} THEN 1 ELSE value)
  BY <1>7, <1>10 DEF Request
<1>12. q.sound = (CASE fn = 5 -> value \in {0, 65280} [] fn = 16 -> b[7] = 2 * q.qty [] OTHER -> TRUE)
  BY <1>7, <1>10 DEF Request
<1>13. q.fn \in {"read", "write"} /\ q.start \in Nat /\ q.qty \in Nat
  BY <1>8, <1>11
<1>14. q.table \in Tables
  BY <1>9, <1>11 DEF TableOf, Tables
<1>15. q.sound \in BOOLEAN
  <2>1. CASE fn = 5
    <3>1. q.sound = (value \in {0, 65280})
      BY <1>12, <2>1
    <3> QED
      BY <3>1
  <2>2. CASE fn = 16
    <3>1. q.sound = (b[7] = 2 * q.qty)
      BY <1>12, <2>2
    <3> QED
      BY <3>1
  <2>3. CASE fn # 5 /\ fn # 16
    <3>1. q.sound = TRUE
      BY <1>12, <2>3
    <3> QED
      BY <3>1
  <2> QED
    BY <2>1, <2>2, <2>3
<1>16. ASSUME q.fn = "write", q.table = "holding", q.sound, NEW k \in 1..q.qty
       PROVE  q.words[k] \in Nat
  <2>1. fn \in {6, 16}
    BY <1>9, <1>11, <1>16 DEF TableOf
  <2>2. CASE fn = 6
    <3>1. q.words = <<value>> /\ q.qty = 1
      BY <1>7, <1>10, <1>11, <2>2 DEF Request
    <3> QED
      BY <1>8, <1>16, <3>1
  <2>3. CASE fn = 16
    <3>a. fn \notin 1..4 /\ fn # 5 /\ fn # 6 /\ fn # 15
      BY <2>3
    <3>b. q.words = [i \in 1..b[7] \div 2 |-> Word(b, 6 + 2 * i)]
      BY <1>7, <1>10, <2>3, <3>a DEF Request
    <3>c. q.sound = (b[7] = 2 * q.qty)
      BY <1>12, <2>3
    <3>1. q.words = [i \in 1..b[7] \div 2 |-> Word(b, 6 + 2 * i)] /\ b[7] = 2 * q.qty
      BY <1>16, <3>b, <3>c
    <3>d. w[2].v \notin Short /\ Len(w) >= 7
      <4>1. b[2] = w[2].v
        BY <1>6
      <4>2. w[2].v = 16
        BY <1>7, <2>3, <4>1
      <4> QED
        BY <1>3, <4>2 DEF Short
    <3>2. Len(w) = 9 + w[7].v
      BY <1>2, <1>3, <3>d, LengthIs
    <3>3. w[7].v \in Nat
      BY <1>2, <1>3, BytesTyped
    <3>4. b[7] = w[7].v /\ b[7] \in Nat
      BY <1>3, <1>5, <3>2, <3>3
    <3>5. k \in 1..b[7] \div 2
      BY <1>13, <1>16, <3>1
    <3>6. q.words[k] = Word(b, 6 + 2 * k)
      BY <3>1, <3>5
    <3>7. 6 + 2 * k \in Nat /\ 6 + 2 * k \in 1..Len(w) - 2 /\ (6 + 2 * k) + 1 \in 1..Len(w) - 2
      <4>1. \A m, n \in Nat : n = 9 + 2 * m =>
              \A x \in 1..m : /\ 6 + 2 * x \in Nat /\ 6 + 2 * x \in 1..n - 2
                              /\ (6 + 2 * x) + 1 \in 1..n - 2
        OBVIOUS
      <4>2. Len(w) = 9 + 2 * q.qty
        BY <3>1, <3>2, <3>4
      <4>3. q.qty \in Nat /\ Len(w) \in Nat
        BY <1>3, <1>13
      <4> QED
        BY <1>16, <4>1, <4>2, <4>3, Zenon
    <3> QED
      BY <1>5, <3>6, <3>7, WordTyped
  <2> QED
    BY <2>1, <2>2, <2>3
<1> QED
  BY <1>1, <1>4, <1>10, <1>13, <1>14, <1>15, <1>16 DEF KnownRequest


(* The request in hand is one of those. *)
LEMMA LineKnown ==
  ASSUME NEW l \in Lines, NEW r, NEW w, NEW n, NEW d, NEW cl, LineOk(l, r, w, n, d, cl), r.at \in InHand
  PROVE  r.op \in Asked /\ KnownRequest(r.op)
<1>1. PICK qs, a, c, k, f : Carries(l, r, w, n, d, cl, qs, a, c, k, f)
  BY DEF LineOk
<1>2. PICK j \in k + 1..Len(qs) : qs[j].asks /\ r.frame = Body(qs[j].bytes) /\ r.op = Request(r.frame)
  BY <1>1 DEF Carries
<1>3. qs \in Seq(Pieces[l]) /\ k \in 0..Len(qs)
  BY <1>1 DEF Carries
<1>4. j \in 1..Len(qs)
  <2>1. Len(qs) \in Nat
    BY <1>3, LenProperties
  <2> QED
    BY <1>3, <2>1
<1>5. PICK p : p = qs[j]
  OBVIOUS
<1>6. p \in Pieces[l] /\ p.asks /\ r.op = Request(Body(p.bytes))
  BY <1>2, <1>3, <1>4, <1>5, ElementOfSeq
<1> QED
  BY <1>6, RequestKnown DEF Asked

LEMMA HandKnown ==
  ASSUME LinesOk, NEW l \in Lines, rd[l].at \in InHand
  PROVE  rd[l].op \in Asked /\ KnownRequest(rd[l].op)
<1>1. PICK r, w, n, d : r = rd[l] /\ w = wire[l] /\ n = put[l] /\ d = due[l]
  OBVIOUS
<1>2. PICK cl : cl \in BOOLEAN /\ cl = (l \in clean)
  BY CleanOrNot
<1>3. LineOk(l, r, w, n, d, cl) /\ r.at \in InHand
  BY <1>1, <1>2 DEF LinesOk
<1> QED
  BY <1>1, <1>3, LineKnown

----------------------------------------------------------------------------
(* Entries taken and written, one after the other *)

LEMMA NothingTaken == ASSUME NEW m, NEW q PROVE Taken(m, q, 0) = <<>>
BY DEF Taken

LEMMA TakenMore ==
  ASSUME NEW m, NEW q, q.start \in Nat, NEW n \in Nat
  PROVE  Append(Taken(m, q, n), m[q.table][q.start + n]) = Taken(m, q, n + 1)
<1> DEFINE S == {m[q.table][q.start + k - 1] : k \in 1..n + 1}
<1>1. PICK s, t, v : s = Taken(m, q, n) /\ t = Taken(m, q, n + 1) /\ v = m[q.table][q.start + n]
  OBVIOUS
<1>2. /\ DOMAIN s = 1..n /\ \A k \in 1..n : s[k] = m[q.table][q.start + k - 1]
      /\ DOMAIN t = 1..n + 1 /\ \A k \in 1..n + 1 : t[k] = m[q.table][q.start + k - 1]
      /\ s = [k \in 1..n |-> s[k]] /\ t = [k \in 1..n + 1 |-> t[k]]
  BY <1>1 DEF Taken
<1>3. /\ \A k \in 1..n : k \in 1..n + 1
      /\ n + 1 \in 1..n + 1 /\ q.start + (n + 1) - 1 = q.start + n
  OBVIOUS
<1>4. v \in S /\ (\A k \in 1..n : s[k] \in S) /\ (\A k \in 1..n + 1 : t[k] \in S) /\ t[n + 1] = v
  BY <1>1, <1>2, <1>3
<1> HIDE DEF S
<1>5. s \in Seq(S) /\ Len(s) = n
  <2>1. s \in [1..n -> S]
    BY <1>2, <1>4
  <2>2. s \in Seq(S)
    BY <2>1, SeqDef
  <2> QED
    BY <1>2, <2>2, LenProperties
<1>6. t \in Seq(S) /\ Len(t) = n + 1
  <2>1. t \in [1..n + 1 -> S] /\ n + 1 \in Nat
    BY <1>2, <1>4
  <2>2. t \in Seq(S)
    BY <2>1, SeqDef
  <2> QED
    BY <1>2, <2>1, <2>2, LenProperties
<1>7. /\ Append(s, v) \in Seq(S) /\ Len(Append(s, v)) = n + 1
      /\ (\A k \in 1..n : Append(s, v)[k] = s[k]) /\ Append(s, v)[n + 1] = v
  BY <1>4, <1>5, AppendProperties
<1>8. ASSUME NEW k \in 1..n + 1
      PROVE  Append(s, v)[k] = t[k]
  <2>1. CASE k = n + 1
    BY <1>4, <1>7, <2>1
  <2>2. CASE k # n + 1
    <3>1. k \in 1..n
      BY <2>2
    <3> QED
      BY <1>2, <1>3, <1>7, <3>1
  <2> QED
    BY <2>1, <2>2
<1>9. Append(s, v) = t
  BY <1>6, <1>7, <1>8, SeqEqual
<1> QED
  BY <1>1, <1>9

LEMMA StoreIs ==
  ASSUME NEW m, IsStore(m)
  PROVE  DOMAIN m = Tables /\ \A t \in Tables : DOMAIN m[t] = 0..Size - 1
BY DEF IsStore

(* Two stores with the same entries are the same. *)
LEMMA StoresAgree ==
  ASSUME NEW m, NEW old, IsStore(m), IsStore(old), \A t \in Tables, x \in 0..Size - 1 : m[t][x] = old[t][x]
  PROVE  m = old
<1>1. ASSUME NEW t \in Tables
      PROVE  [x \in 0..Size - 1 |-> m[t][x]] = [x \in 0..Size - 1 |-> old[t][x]]
  OBVIOUS
<1>2. [t \in Tables |-> [x \in 0..Size - 1 |-> m[t][x]]] = [t \in Tables |-> [x \in 0..Size - 1 |-> old[t][x]]]
  BY <1>1, Zenon
<1> QED
  BY <1>2, Zenon DEF IsStore

(* A store with one entry set. *)
Sets(m2, m, T, X, v) == m2 = [m EXCEPT ![T][X] = v]

LEMMA EntrySet ==
  ASSUME NEW m, IsStore(m), NEW T \in Tables, NEW X \in 0..Size - 1, NEW v,
         NEW m2, Sets(m2, m, T, X, v)
  PROVE  /\ IsStore(m2)
         /\ \A t \in Tables, x \in 0..Size - 1 : m2[t][x] = IF t = T /\ x = X THEN v ELSE m[t][x]
<1>1. DOMAIN m = Tables /\ \A t \in Tables : DOMAIN m[t] = 0..Size - 1
  BY StoreIs
<1>2. m2 = [m EXCEPT ![T] = [m[T] EXCEPT ![X] = v]]
  BY <1>1 DEF Sets
<1>3. \A t \in Tables : m2[t] = IF t = T THEN [m[T] EXCEPT ![X] = v] ELSE m[t]
  BY <1>1, <1>2
<1>4. \A t \in Tables, x \in 0..Size - 1 : m2[t][x] = IF t = T /\ x = X THEN v ELSE m[t][x]
  BY <1>1, <1>3
<1>5. DOMAIN m2 = Tables /\ m2 = [t \in Tables |-> m2[t]]
  BY <1>1, <1>2
<1>6. ASSUME NEW t \in Tables
      PROVE  m2[t] = [x \in 0..Size - 1 |-> m2[t][x]]
  <2>1. CASE t = T
    BY <1>1, <1>3, <2>1
  <2>2. CASE t # T
    <3>1. m2[t] = m[t]
      BY <1>3, <2>2
    <3>2. m[t] = [x \in 0..Size - 1 |-> m[t][x]]
      BY DEF IsStore
    <3> QED
      BY <3>1, <3>2
  <2> QED
    BY <2>1, <2>2
<1>7. IsStore(m2)
  BY <1>5, <1>6, Zenon DEF IsStore
<1> QED
  BY <1>4, <1>7

LEMMA NothingWritten ==
  ASSUME NEW m, NEW q, q.start \in Nat
  PROVE  Written(m, m, q, 0)
<1>1. q.start..q.start + 0 - 1 = {}
  OBVIOUS
<1> QED
  BY <1>1 DEF Written

LEMMA WrittenMore ==
  ASSUME NEW m, NEW old, NEW q, IsStore(m), q.table \in Tables, q.start \in Nat, NEW n \in Nat,
         q.start + n \in 0..Size - 1, Written(m, old, q, n),
         NEW m2, Sets(m2, m, q.table, q.start + n, q.words[n + 1])
  PROVE  IsStore(m2) /\ Written(m2, old, q, n + 1)
<1>1. PICK T, X, v, s : T = q.table /\ X = q.start + n /\ v = q.words[n + 1] /\ s = q.start
  OBVIOUS
<1>2. T \in Tables /\ X \in 0..Size - 1 /\ Sets(m2, m, T, X, v) /\ s \in Nat /\ X = s + n
  BY <1>1
<1>3. /\ IsStore(m2)
      /\ \A t \in Tables, x \in 0..Size - 1 : m2[t][x] = IF t = T /\ x = X THEN v ELSE m[t][x]
  BY <1>2, EntrySet
<1>4. ASSUME NEW t \in Tables, NEW x \in 0..Size - 1
      PROVE  m2[t][x] = IF t = T /\ x \in s..s + (n + 1) - 1 THEN q.words[x - s + 1] ELSE old[t][x]
  <2>1. m[t][x] = IF t = T /\ x \in s..s + n - 1 THEN q.words[x - s + 1] ELSE old[t][x]
    BY <1>1 DEF Written
  <2>2. CASE x = X
    <3>1. x \in s..s + (n + 1) - 1 /\ x \notin s..s + n - 1 /\ x - s + 1 = n + 1
      BY <1>2, <2>2
    <3> QED
      BY <1>1, <1>3, <2>1, <2>2, <3>1
  <2>3. CASE x # X
    <3>1. x \in s..s + (n + 1) - 1 <=> x \in s..s + n - 1
      BY <1>2, <2>3
    <3> QED
      BY <1>3, <2>1, <2>3, <3>1
  <2> QED
    BY <2>2, <2>3
<1> QED
  BY <1>1, <1>3, <1>4 DEF Written


----------------------------------------------------------------------------
(* The invariant of the store, step by step *)

(* At first the store has its seed, and nobody has anything in hand. *)
LEMMA StoreInit == Init => StoreInv
<1> SUFFICES ASSUME Init PROVE StoreInv
  OBVIOUS
<1>1. IsStore(Seed) /\ \A x \in 0..Size - 1 : Seed["holding"][x] \in Nat
  <2>1. Seed \in [Tables -> [0..Size - 1 -> 0..WordMod - 1]]
    BY LineAssumption
  <2>2. \A t \in Tables : Seed[t] \in [0..Size - 1 -> 0..WordMod - 1]
    BY <2>1
  <2>3. "holding" \in Tables
    BY DEF Tables
  <2>4. \A x \in 0..Size - 1 : Seed["holding"][x] \in 0..WordMod - 1
    BY <2>2, <2>3
  <2>5. \A t \in Tables : Seed[t] = [x \in 0..Size - 1 |-> Seed[t][x]]
    BY <2>2
  <2>6. Seed = [t \in Tables |-> Seed[t]]
    BY <2>1
  <2>7. IsStore(Seed)
    BY <2>5, <2>6, Zenon DEF IsStore
  <2> QED
    BY <2>4, <2>7
<1>2. rd = [l \in Lines |-> Idle] /\ mem = Seed /\ committed = Seed /\ upd.at = "none" /\ readers = {}
  BY DEF Init, LineInit
<1>3. Progress(Idle, Seed, Seed) /\ AllFields \subseteq DOMAIN Idle /\ Idle.at = "none"
  BY DEF Progress, Idle, InHand, OneWrites, AllFields
<1> QED
  BY <1>1, <1>2, <1>3 DEF StoreInv, StreamsTyped, Alone, Settled, TickerInHand

(* A step of one stream that leaves the entries alone. *)
LEMMA StreamStays ==
  ASSUME TtyInv, StoreInv, NEW l \in Lines, NEW x, rd' = [rd EXCEPT ![l] = x],
         AllFields \subseteq DOMAIN x, Progress(x, mem, committed),
         UNCHANGED <<mem, committed, upd>>,
         x.at = "write" => rd[l].at = "write" \/ readers = {},
         rd[l].at = "write" => x.at = "write",
         readers' \subseteq readers \/ (writer = Nobody /\ x.at # "write")
  PROVE  StoreInv'
<1>1. DOMAIN rd = Lines /\ rd'[l] = x /\ DOMAIN rd' = Lines /\ \A k \in Lines \ {l} : rd'[k] = rd[k]
  BY DEF StoreInv, StreamsTyped
<1>2. StreamsTyped' /\ \A k \in Lines : Progress(rd'[k], mem, committed)
  BY <1>1 DEF StoreInv, StreamsTyped
<1>3. Alone'
  <2> SUFFICES ASSUME (\E k \in Lines : rd'[k].at = "write") \/ upd.at \in {"loaded", "stored"}
               PROVE  readers' = {}
    BY DEF Alone
  <2>1. CASE upd.at \in {"loaded", "stored"}
    <3>1. readers = {} /\ writer = Updater
      BY <2>1 DEF StoreInv, Alone, TtyInv, LockInv
    <3> QED
      BY <3>1, LineAssumption
  <2>2. CASE \E k \in Lines : rd'[k].at = "write"
    <3>1. PICK k \in Lines : rd'[k].at = "write"
      BY <2>2
    <3>2. CASE k # l
      <4>1. rd[k].at = "write"
        BY <1>1, <3>1, <3>2
      <4>2. readers = {} /\ writer = k
        BY <4>1 DEF StoreInv, Alone, TtyInv, LockInv, Writing
      <4> QED
        BY <4>2, LineAssumption
    <3>3. CASE k = l
      <4>1. x.at = "write"
        BY <1>1, <3>1, <3>3
      <4>2. readers = {}
        BY <4>1 DEF StoreInv, Alone
      <4> QED
        BY <4>1, <4>2
    <3> QED
      BY <3>2, <3>3
  <2> QED
    BY <2>1, <2>2
<1>4. Settled'
  BY <1>1 DEF StoreInv, Settled
<1> QED
  BY <1>2, <1>3, <1>4 DEF StoreInv, TickerInHand, Ticked

(* Where a frame read so far leads: no request, or one of which nothing is *)
(* done.                                                                   *)
LEMMA FollowHas ==
  ASSUME NEW w
  PROVE  /\ AllFields \subseteq DOMAIN Follow(w) /\ Follow(w).at \in {"read", "call", "ended"}
         /\ Follow(w).idx = 0 /\ Follow(w).data = <<>>
         /\ Follow(w).at # "call" => Follow(w).op = NoRequest
<1>1. PICK b, q : b = Body(w) /\ q = Request(Body(w))
  OBVIOUS
<1>2. Follow(w) \in { [Idle EXCEPT !.at = "ended"], [Fresh EXCEPT !.frame = w], Fresh,
                      [Idle EXCEPT !.at = "call", !.frame = b, !.op = q] }
  BY <1>1, Zenon DEF Follow
<1>3. PICK x : x = Follow(w)
  OBVIOUS
<1>4. /\ AllFields \subseteq DOMAIN x /\ x.at \in {"read", "call", "ended"}
      /\ x.idx = 0 /\ x.data = <<>>
      /\ x.at # "call" => x.op = NoRequest
  BY <1>2, <1>3 DEF Idle, Fresh, AllFields
<1> QED
  BY <1>3, <1>4

LEMMA ReadStays ==
  ASSUME TtyInv, StoreInv, NEW l \in Lines, ReadFull(l) \/ ReadFails(l)
  PROVE  StoreInv'
<1>1. /\ rd[l].at = "read" /\ UNCHANGED <<mem, committed, upd, readers>>
  BY DEF ReadFull, ReadFails, At, storeVars
<1>2. PICK x : /\ rd' = [rd EXCEPT ![l] = x]
               /\ AllFields \subseteq DOMAIN x /\ x.at \in {"read", "call", "ended"}
               /\ x.idx = 0 /\ x.data = <<>> /\ (x.at # "call" => x.op = NoRequest)
  <2>1. CASE ReadFull(l)
    <3>1. PICK w : w = rd[l].frame \o SubSeq(wire[l], 1, Missing(l))
      OBVIOUS
    <3>2. rd' = [rd EXCEPT ![l] = Follow(w)]
      BY <2>1, <3>1 DEF ReadFull
    <3> QED
      BY <3>2, FollowHas
  <2>2. CASE ReadFails(l)
    <3>1. PICK x : x = [Idle EXCEPT !.at = "ended"]
      OBVIOUS
    <3>2. rd' = [rd EXCEPT ![l] = x]
      BY <2>2, <3>1 DEF ReadFails
    <3>3. AllFields \subseteq DOMAIN x /\ x.at = "ended" /\ x.idx = 0 /\ x.data = <<>> /\ x.op = NoRequest
      BY <3>1 DEF Idle, AllFields
    <3> QED
      BY <3>2, <3>3
  <2> QED
    BY <2>1, <2>2
<1>3. Progress(x, mem, committed)
  BY <1>2 DEF Progress, InHand, OneWrites
<1> QED
  BY <1>1, <1>2, <1>3, StreamStays

(* A stream begins. *)
LEMMA OpenStays ==
  ASSUME TtyInv, StoreInv, NEW l \in Lines, rd[l].at = "none", rd' = [rd EXCEPT ![l] = Fresh],
         UNCHANGED <<mem, committed, upd, readers>>
  PROVE  StoreInv'
<1>1. PICK x : x = Fresh
  OBVIOUS
<1>2. AllFields \subseteq DOMAIN x /\ x.at = "read" /\ Progress(x, mem, committed)
  BY <1>1 DEF Fresh, Idle, AllFields, Progress, InHand, OneWrites
<1> QED
  BY <1>1, <1>2, StreamStays

(* An answered request is over. *)
LEMMA ReplyStays ==
  ASSUME TtyInv, StoreInv, NEW l \in Lines, Reply(l)
  PROVE  StoreInv'
<1>1. PICK x : x = Fresh
  OBVIOUS
<1>2. AllFields \subseteq DOMAIN x /\ x.at = "read" /\ Progress(x, mem, committed)
  BY <1>1 DEF Fresh, Idle, AllFields, Progress, InHand, OneWrites
<1>3. rd' = [rd EXCEPT ![l] = x] /\ rd[l].at = "reply" /\ UNCHANGED <<mem, committed, upd, readers>>
  BY <1>1 DEF Reply, At, storeVars
<1> QED
  BY <1>2, <1>3, StreamStays


(* A stream that only goes on to another stage. *)
LEMMA StageOnly ==
  ASSUME StoreInv, NEW l \in Lines, NEW stage, Goto(l, stage)
  PROVE  \E x : /\ rd' = [rd EXCEPT ![l] = x] /\ AllFields \subseteq DOMAIN x /\ x.at = stage
                /\ x.op = rd[l].op /\ x.idx = rd[l].idx /\ x.data = rd[l].data
<1>1. PICK x : x = [rd[l] EXCEPT !.at = stage]
  OBVIOUS
<1>2. rd' = [rd EXCEPT ![l] = x]
  BY <1>1 DEF Goto, StoreInv, StreamsTyped
<1>3. AllFields \subseteq DOMAIN rd[l]
  BY DEF StoreInv, StreamsTyped
<1>4. AllFields \subseteq DOMAIN x /\ x.at = stage /\ x.op = rd[l].op /\ x.idx = rd[l].idx /\ x.data = rd[l].data
  BY <1>1, <1>3 DEF AllFields
<1> QED
  BY <1>2, <1>4

(* Entering the mutex, with nothing read or written yet. *)
LEMMA EnterStays ==
  ASSUME TtyInv, LinesOk, StoreInv, NEW l \in Lines, RLock(l) \/ Lock(l) \/ Locked(l)
  PROVE  StoreInv'
<1>1. Progress(rd[l], mem, committed) /\ UNCHANGED <<mem, committed, upd>>
  BY DEF StoreInv, RLock, Lock, Locked, storeVars
<1>2. CASE RLock(l)
  <2>1. writer = Nobody /\ rd[l].at \in {"call", "again"}
    BY <1>2 DEF RLock, At
  <2>2. CASE rd[l].at = "call"
    <3>1. Goto(l, "held")
      BY <1>2, <2>2 DEF RLock, At
    <3>2. PICK x : /\ rd' = [rd EXCEPT ![l] = x] /\ AllFields \subseteq DOMAIN x /\ x.at = "held"
                   /\ x.op = rd[l].op /\ x.idx = rd[l].idx /\ x.data = rd[l].data
      BY <3>1, StageOnly
    <3>3. x.idx = 0 /\ x.data = <<>> /\ KnownRequest(x.op)
      BY <1>1, <2>2, <3>2, HandKnown DEF Progress, InHand
    <3>4. Progress(x, mem, committed)
      <4>1. 0 \in 0..x.op.qty
        BY <3>3 DEF KnownRequest
      <4>2. x.data = Taken(mem, x.op, x.idx)
        BY <3>3, NothingTaken
      <4> QED
        BY <3>2, <3>3, <4>1, <4>2 DEF Progress, InHand, OneWrites
    <3> QED
      BY <1>1, <2>1, <2>2, <3>2, <3>4, StreamStays
  <2>3. CASE rd[l].at = "again"
    <3>1. Goto(l, "leave")
      BY <1>2, <2>3 DEF RLock, At
    <3>2. PICK x : /\ rd' = [rd EXCEPT ![l] = x] /\ AllFields \subseteq DOMAIN x /\ x.at = "leave"
                   /\ x.op = rd[l].op /\ x.idx = rd[l].idx /\ x.data = rd[l].data
      BY <3>1, StageOnly
    <3>3. Progress(x, mem, committed)
      BY <1>1, <2>3, <3>2 DEF Progress, InHand, OneWrites
    <3> QED
      BY <1>1, <2>1, <2>3, <3>2, <3>3, StreamStays
  <2> QED
    BY <2>1, <2>2, <2>3
<1>3. CASE Lock(l)
  <2>1. rd[l].at = "want" /\ Goto(l, "pending") /\ UNCHANGED readers
    BY <1>3 DEF Lock, At
  <2>2. PICK x : /\ rd' = [rd EXCEPT ![l] = x] /\ AllFields \subseteq DOMAIN x /\ x.at = "pending"
                 /\ x.op = rd[l].op /\ x.idx = rd[l].idx /\ x.data = rd[l].data
    BY <2>1, StageOnly
  <2>3. Progress(x, mem, committed)
    BY <1>1, <2>1, <2>2 DEF Progress, InHand, OneWrites
  <2> QED
    BY <1>1, <2>1, <2>2, <2>3, StreamStays
<1>4. CASE Locked(l)
  <2>1. rd[l].at = "pending" /\ readers = {} /\ Goto(l, "write") /\ UNCHANGED readers
    BY <1>4 DEF Locked, At, storeVars
  <2>2. PICK x : /\ rd' = [rd EXCEPT ![l] = x] /\ AllFields \subseteq DOMAIN x /\ x.at = "write"
                 /\ x.op = rd[l].op /\ x.idx = rd[l].idx /\ x.data = rd[l].data
    BY <2>1, StageOnly
  <2>3. x.idx = 0 /\ x.data = <<>> /\ x.op.fn = "write" /\ KnownRequest(x.op)
    BY <1>1, <2>1, <2>2, HandKnown DEF Progress, InHand, OneWrites
  <2>4. mem = committed
    <3>1. writer = l
      BY <2>1 DEF TtyInv, LockInv, Writing
    <3>2. upd.at # "stored"
      BY <3>1, LineAssumption DEF TtyInv, LockInv
    <3>3. \A k \in Lines : rd[k].at # "write"
      BY <2>1, <3>1 DEF TtyInv, LockInv, Writing
    <3> QED
      BY <3>2, <3>3 DEF StoreInv, Settled
  <2>5. Written(mem, committed, x.op, x.idx) /\ x.idx \in 0..x.op.qty
    BY <2>3, <2>4, NothingWritten DEF KnownRequest
  <2>6. Progress(x, mem, committed)
    BY <2>2, <2>3, <2>4, <2>5 DEF Progress, InHand, OneWrites
  <2> QED
    BY <1>1, <2>1, <2>2, <2>6, StreamStays
<1> QED
  BY <1>2, <1>3, <1>4

(* Leaving it, but for the end of a write. *)
LEMMA LeaveStays ==
  ASSUME TtyInv, LinesOk, StoreInv, NEW l \in Lines, EndRead(l) \/ GiveUpReadLock(l) \/ RUnlock(l)
  PROVE  StoreInv'
<1>1. Progress(rd[l], mem, committed) /\ UNCHANGED <<mem, committed, upd>> /\ readers' \subseteq readers
  BY DEF StoreInv, EndRead, GiveUpReadLock, RUnlock
<1>2. CASE EndRead(l) \/ RUnlock(l)
  <2>1. Goto(l, "reply") /\ rd[l].at \in {"held", "leave"}
    BY <1>2 DEF EndRead, RUnlock, At
  <2>2. PICK x : /\ rd' = [rd EXCEPT ![l] = x] /\ AllFields \subseteq DOMAIN x /\ x.at = "reply"
                 /\ x.op = rd[l].op /\ x.idx = rd[l].idx /\ x.data = rd[l].data
    BY <2>1, StageOnly
  <2>3. Progress(x, mem, committed)
    BY <1>1, <2>1, <2>2 DEF Progress, InHand, OneWrites
  <2> QED
    BY <1>1, <2>1, <2>2, <2>3, StreamStays
<1>3. CASE GiveUpReadLock(l)
  <2>1. Goto(l, "want") /\ rd[l].at = "held" /\ rd[l].op.fn = "write"
    BY <1>3 DEF GiveUpReadLock, At, Op
  <2>2. PICK x : /\ rd' = [rd EXCEPT ![l] = x] /\ AllFields \subseteq DOMAIN x /\ x.at = "want"
                 /\ x.op = rd[l].op /\ x.idx = rd[l].idx /\ x.data = rd[l].data
    BY <2>1, StageOnly
  <2>3. Progress(x, mem, committed)
    BY <1>1, <2>1, <2>2 DEF Progress, InHand, OneWrites
  <2> QED
    BY <1>1, <2>1, <2>2, <2>3, StreamStays
<1> QED
  BY <1>2, <1>3

(* What a permitted request may touch next. *)
LEMMA NextEntry ==
  ASSUME NEW q, KnownRequest(q), Permitted(q), NEW n \in 0..q.qty, n # q.qty
  PROVE  n \in Nat /\ q.start + n \in 0..Size - 1 /\ n + 1 \in 0..q.qty /\ n + 1 \in 1..q.qty
<1>1. q.start \in Nat /\ q.qty \in Nat
  BY DEF KnownRequest
<1>2. q.start + q.qty <= Size
  BY DEF Permitted
<1>3. Size \in Nat
  BY LineAssumption
<1>4. \A s, y, z, x \in Nat : s + y <= z /\ x \in 0..y /\ x # y =>
        s + x \in 0..z - 1 /\ x + 1 \in 0..y /\ x + 1 \in 1..y
  OBVIOUS
<1>5. n \in Nat
  BY <1>1
<1> QED
  BY <1>1, <1>2, <1>3, <1>4, <1>5, Zenon

(* The next entry is read. *)
LEMMA EntryRead ==
  ASSUME TtyInv, LinesOk, StoreInv, NEW l \in Lines, ReadEntry(l)
  PROVE  StoreInv'
<1>1. PICK r : r = rd[l]
  OBVIOUS
<1>2. PICK q, n, v : q = r.op /\ n = r.idx /\ v = mem[q.table][q.start + n]
  OBVIOUS
<1>3. /\ Progress(r, mem, committed) /\ UNCHANGED <<mem, committed, upd, readers>>
      /\ r.at = "held" /\ q.fn = "read" /\ Permitted(q) /\ n < q.qty
  BY <1>1, <1>2 DEF StoreInv, ReadEntry, storeVars, At, Op
<1>4. KnownRequest(q)
  BY <1>1, <1>2, <1>3, HandKnown DEF InHand
<1>5. n \in 0..q.qty /\ r.data = Taken(mem, q, n)
  BY <1>2, <1>3 DEF Progress
<1>6. n \in Nat /\ n + 1 \in 0..q.qty /\ q.start \in Nat
  BY <1>4, <1>5, <1>3 DEF KnownRequest
<1>7. Append(r.data, v) = Taken(mem, q, n + 1)
  BY <1>2, <1>5, <1>6, TakenMore
<1>8. PICK x : x = [r EXCEPT !.idx = n + 1, !.data = Append(r.data, v)]
  OBVIOUS
<1>9. AllFields \subseteq DOMAIN r
  BY <1>1 DEF StoreInv, StreamsTyped
<1>10. /\ AllFields \subseteq DOMAIN x /\ x.at = "held" /\ x.op = q /\ x.idx = n + 1
       /\ x.data = Append(r.data, v)
  BY <1>2, <1>3, <1>8, <1>9 DEF AllFields
<1>11. rd' = [rd EXCEPT ![l] = x]
  BY <1>1, <1>2, <1>8 DEF ReadEntry, Op, StoreInv, StreamsTyped
<1>12. Progress(x, mem, committed)
  BY <1>3, <1>6, <1>7, <1>10 DEF Progress, InHand, OneWrites
<1> QED
  BY <1>1, <1>3, <1>10, <1>11, <1>12, StreamStays


(* The next entry is written; nobody else is at the entries.               *)
LEMMA EntryWritten ==
  ASSUME TtyInv, LinesOk, StoreInv, NEW l \in Lines, WriteEntry(l)
  PROVE  StoreInv'
<1>1. PICK r : r = rd[l]
  OBVIOUS
<1>2. PICK q, n : q = r.op /\ n = r.idx
  OBVIOUS
<1>3. /\ Progress(r, mem, committed) /\ UNCHANGED <<committed, upd, readers>>
      /\ r.at = "write" /\ Permitted(q) /\ n < q.qty
  BY <1>1, <1>2 DEF StoreInv, WriteEntry, At, Op
<1>4. KnownRequest(q)
  BY <1>1, <1>2, <1>3, HandKnown DEF InHand
<1>5. n \in 0..q.qty /\ Written(mem, committed, q, n) /\ n # q.qty
  BY <1>2, <1>3, <1>4 DEF Progress, KnownRequest
<1>6. n \in Nat /\ q.start + n \in 0..Size - 1 /\ n + 1 \in 0..q.qty /\ n + 1 \in 1..q.qty
      /\ q.start \in Nat /\ q.table \in Tables
  BY <1>3, <1>4, <1>5, NextEntry DEF KnownRequest
<1>7. PICK v : v = q.words[n + 1]
  OBVIOUS
<1>8. IsStore(mem) /\ Sets(mem', mem, q.table, q.start + n, v)
  BY <1>1, <1>2, <1>7 DEF WriteEntry, Op, Sets, StoreInv
<1>9. IsStore(mem') /\ Written(mem', committed, q, n + 1)
  BY <1>5, <1>6, <1>7, <1>8, WrittenMore
<1>10. \A x \in 0..Size - 1 : mem'["holding"][x] \in Nat
  <2>1. \A t \in Tables, x \in 0..Size - 1 :
          mem'[t][x] = IF t = q.table /\ x = q.start + n THEN v ELSE mem[t][x]
    BY <1>6, <1>8, EntrySet
  <2>2. "holding" \in Tables
    BY DEF Tables
  <2>3. q.table = "holding" => v \in Nat
    <3>1. q.fn = "write"
      BY <1>2, <1>3 DEF Progress, OneWrites
    <3>2. q.sound
      BY <1>3 DEF Permitted
    <3> QED
      BY <1>4, <1>6, <1>7, <3>1, <3>2 DEF KnownRequest
  <2> QED
    BY <2>1, <2>2, <2>3 DEF StoreInv
<1>11. PICK x : x = [r EXCEPT !.idx = n + 1]
  OBVIOUS
<1>12. AllFields \subseteq DOMAIN r
  BY <1>1 DEF StoreInv, StreamsTyped
<1>13. AllFields \subseteq DOMAIN x /\ x.at = "write" /\ x.op = q /\ x.idx = n + 1 /\ x.data = r.data
  BY <1>2, <1>3, <1>11, <1>12 DEF AllFields
<1>14. rd' = [rd EXCEPT ![l] = x]
  BY <1>1, <1>2, <1>11 DEF WriteEntry, StoreInv, StreamsTyped
<1>15. Progress(x, mem', committed)
  BY <1>2, <1>3, <1>6, <1>9, <1>13 DEF Progress, InHand, OneWrites
<1>16. rd'[l] = x /\ DOMAIN rd' = Lines /\ \A k \in Lines \ {l} : rd'[k] = rd[k]
  BY <1>14 DEF StoreInv, StreamsTyped
<1>17. /\ readers = {} /\ writer = l /\ upd.at \notin {"loaded", "stored"}
       /\ \A k \in Lines \ {l} : rd[k].at \notin {"held", "write"}
  <2>1. readers = {}
    BY <1>1, <1>3 DEF StoreInv, Alone
  <2>2. writer = l
    BY <1>1, <1>3 DEF TtyInv, LockInv, Writing
  <2>3. upd.at \notin {"loaded", "stored"}
    BY <2>2, LineAssumption DEF TtyInv, LockInv
  <2> QED
    BY <2>1, <2>2, <2>3 DEF TtyInv, LockInv, Writing, Reading
<1>18. \A k \in Lines : AllFields \subseteq DOMAIN rd'[k] /\ Progress(rd'[k], mem', committed)
  <2>1. ASSUME NEW k \in Lines \ {l}
        PROVE  AllFields \subseteq DOMAIN rd[k] /\ Progress(rd[k], mem', committed)
    BY <1>17 DEF StoreInv, StreamsTyped, Progress
  <2> QED
    BY <1>13, <1>15, <1>16, <2>1
<1>19. Alone' /\ Settled' /\ TickerInHand'
  BY <1>3, <1>13, <1>16, <1>17 DEF StoreInv, Alone, Settled, TickerInHand
<1> QED
  BY <1>3, <1>9, <1>10, <1>16, <1>18, <1>19 DEF StoreInv, StreamsTyped

(* A writer leaves the entries, which are now as it leaves them.           *)
LEMMA WriterLeaves ==
  ASSUME TtyInv, StoreInv, NEW l \in Lines, Unlock(l)
  PROVE  StoreInv'
<1>1. rd[l].at = "write" /\ Goto(l, "again") /\ committed' = mem /\ UNCHANGED <<mem, readers, upd>>
  BY DEF Unlock, At
<1>2. PICK x : /\ rd' = [rd EXCEPT ![l] = x] /\ AllFields \subseteq DOMAIN x /\ x.at = "again"
               /\ x.op = rd[l].op /\ x.idx = rd[l].idx /\ x.data = rd[l].data
  BY <1>1, StageOnly
<1>3. Progress(x, mem, mem)
  BY <1>1, <1>2 DEF StoreInv, Progress, InHand, OneWrites
<1>4. rd'[l] = x /\ DOMAIN rd' = Lines /\ \A k \in Lines \ {l} : rd'[k] = rd[k]
  BY <1>2 DEF StoreInv, StreamsTyped
<1>5. readers = {} /\ upd.at \notin {"loaded", "stored"} /\ \A k \in Lines \ {l} : rd[k].at # "write"
  <2>1. readers = {} /\ writer = l
    BY <1>1 DEF StoreInv, Alone, TtyInv, LockInv, Writing
  <2>2. upd.at \notin {"loaded", "stored"}
    BY <2>1, LineAssumption DEF TtyInv, LockInv
  <2> QED
    BY <2>1, <2>2 DEF TtyInv, LockInv, Writing
<1>6. \A k \in Lines : AllFields \subseteq DOMAIN rd'[k] /\ Progress(rd'[k], mem', committed')
  <2>1. ASSUME NEW k \in Lines \ {l}
        PROVE  AllFields \subseteq DOMAIN rd[k] /\ Progress(rd[k], mem, mem)
    BY <1>5 DEF StoreInv, StreamsTyped, Progress
  <2> QED
    BY <1>1, <1>2, <1>3, <1>4, <2>1
<1>7. Alone' /\ Settled' /\ TickerInHand'
  BY <1>1, <1>5 DEF StoreInv, Alone, Settled, TickerInHand
<1> QED
  BY <1>1, <1>4, <1>6, <1>7 DEF StoreInv, StreamsTyped


(* The ticker takes the mutex, counts, and gives it back. *)
LEMMA TickStays ==
  ASSUME TtyInv, StoreInv, Tick \/ Load \/ TickUnlocks \/ TickOver \/ EndTicker
  PROVE  StoreInv'
<1>1. UNCHANGED <<mem, rd, readers>>
  BY DEF Tick, Load, TickUnlocks, TickOver, EndTicker, storeVars
<1>2. CASE Tick \/ TickOver \/ EndTicker
  <2>1. upd'.at \notin {"loaded", "stored", "unlocked"} /\ upd.at \notin {"loaded", "stored"} /\ UNCHANGED committed
    BY <1>2 DEF Tick, TickOver, EndTicker, storeVars, TtyInv, LineTyped
  <2> QED
    BY <1>1, <2>1 DEF StoreInv, StreamsTyped, Alone, Settled, TickerInHand
<1>3. CASE Load
  <2>1. upd' = [at |-> "loaded", v |-> mem["holding"][Counter]] /\ upd.at = "pending" /\ readers = {}
        /\ UNCHANGED committed
    BY <1>3 DEF Load, storeVars
  <2>2. mem["holding"][Counter] \in Nat
    BY LineAssumption DEF StoreInv
  <2> QED
    BY <1>1, <2>1, <2>2 DEF StoreInv, StreamsTyped, Alone, Settled, TickerInHand
<1>4. CASE TickUnlocks
  <2>1. upd.at = "stored" /\ committed' = mem /\ upd' = [upd EXCEPT !.at = "unlocked"]
    BY <1>4 DEF TickUnlocks
  <2>2. upd'.at = "unlocked" /\ ("v" \in DOMAIN upd => upd'.v = upd.v)
    BY <2>1 DEF TtyInv, LineTyped
  <2>3. \A k \in Lines : rd[k].at # "write"
    <3>1. writer = Updater
      BY <2>1 DEF TtyInv, LockInv
    <3> QED
      BY <3>1, LineAssumption DEF TtyInv, LockInv, Writing
  <2>4. \A k \in Lines : Progress(rd[k], mem, mem)
    BY <2>3 DEF StoreInv, Progress
  <2>5. TickerInHand'
    BY <2>1, <2>2 DEF StoreInv, TickerInHand
  <2> QED
    BY <1>1, <2>1, <2>2, <2>3, <2>4, <2>5 DEF StoreInv, StreamsTyped, Alone, Settled
<1> QED
  BY <1>2, <1>3, <1>4

LEMMA TickWritten ==
  ASSUME TtyInv, StoreInv, Store
  PROVE  StoreInv'
<1>1. /\ upd.at = "loaded" /\ upd' = [upd EXCEPT !.at = "stored"]
      /\ UNCHANGED <<rd, readers, committed>>
  BY DEF Store
<1>2. upd'.at = "stored" /\ upd'.v = upd.v /\ upd.v \in Nat
  BY <1>1 DEF StoreInv, TickerInHand, TtyInv, LineTyped
<1>3. PICK q, v : v = (upd.v + 1) % WordMod /\ q = TickWrite(v)
  OBVIOUS
<1>4. v \in Nat /\ v \in 0..WordMod - 1
  BY <1>2, <1>3, LineAssumption
<1>5. /\ q.table = "holding" /\ q.start = Counter /\ q.words[1] = v
      /\ q.table \in Tables /\ q.start \in Nat /\ q.start + 0 \in 0..Size - 1 /\ q.start + 0 = Counter
  BY <1>3, LineAssumption DEF TickWrite, Tables
<1>6. readers = {} /\ writer = Updater
  BY <1>1 DEF StoreInv, Alone, TtyInv, LockInv
<1>7. \A k \in Lines : rd[k].at \notin {"held", "write"}
  BY <1>6, LineAssumption DEF TtyInv, LockInv, Reading, Writing
<1>8. mem = committed
  BY <1>1, <1>7 DEF StoreInv, Settled
<1>9. Sets(mem', mem, "holding", Counter, v)
  BY <1>3 DEF Store, Sets
<1>10. Written(mem, committed, q, 0)
  BY <1>5, <1>8, NothingWritten
<1>11. Sets(mem', mem, q.table, q.start + 0, q.words[0 + 1])
  <2>1. 0 + 1 = 1
    OBVIOUS
  <2> QED
    BY <1>5, <1>9, <2>1
<1>12. IsStore(mem') /\ Written(mem', committed, q, 0 + 1)
  <2>1. IsStore(mem) /\ 0 \in Nat
    BY DEF StoreInv
  <2> QED
    BY <1>5, <1>10, <1>11, <2>1, WrittenMore
<1>13. \A x \in 0..Size - 1 : mem'["holding"][x] \in Nat
  <2>1. "holding" \in Tables /\ Counter \in 0..Size - 1 /\ IsStore(mem)
    BY LineAssumption DEF Tables, StoreInv
  <2>2. \A t \in Tables, x \in 0..Size - 1 :
          mem'[t][x] = IF t = "holding" /\ x = Counter THEN v ELSE mem[t][x]
    BY <1>9, <2>1, EntrySet
  <2> QED
    BY <1>4, <2>1, <2>2 DEF StoreInv
<1>14. \A k \in Lines : Progress(rd[k], mem', committed)
  BY <1>7 DEF StoreInv, Progress
<1>15. TickerInHand'
  <2>1. Ticked' = q
    BY <1>2, <1>3 DEF Ticked
  <2>2. Written(mem', committed, q, 1)
    BY <1>12
  <2> QED
    BY <1>1, <1>2, <2>1, <2>2 DEF TickerInHand
<1> QED
  BY <1>1, <1>2, <1>6, <1>12, <1>13, <1>14, <1>15 DEF StoreInv, StreamsTyped, Alone, Settled

(* Every step keeps the entries and who works on them in agreement. *)
LEMMA StoreNext == TtyInv /\ LinesOk /\ StoreInv /\ [Next]_ttyVars => StoreInv'
<1> SUFFICES ASSUME TtyInv, LinesOk, StoreInv, [Next]_ttyVars PROVE StoreInv'
  OBVIOUS
<1>1. ASSUME UNCHANGED <<mem, committed, upd, readers, rd>>
      PROVE  StoreInv'
  BY <1>1 DEF StoreInv, StreamsTyped, Alone, Settled, TickerInHand, Ticked
<1>2. CASE OpenFails \/ AcceptFails \/ ClosePort \/ SerialReturns \/ Cancel \/ UNCHANGED ttyVars
  BY <1>1, <1>2 DEF OpenFails, AcceptFails, ClosePort, SerialReturns, Cancel, lineVars, storeVars, ttyVars
<1>3. CASE \E l \in Lines : Receive(l)
  BY <1>1, <1>3 DEF Receive, Transmit, storeVars
<1>4. CASE EndTicker \/ Ticker
  BY <1>4, TickStays, TickWritten DEF Ticker, Count
<1>5. CASE Open
  <2>1. /\ main = "opening" /\ UNCHANGED <<mem, committed, readers>>
        /\ upd' = [upd EXCEPT !.at = "select"]
        /\ rd' = IF mode = "serial" THEN [rd EXCEPT ![Serial] = Fresh] ELSE rd
    BY <1>5 DEF Open, storeVars
  <2>2. upd.at = "none" /\ \A l \in Lines : rd[l].at = "none"
    BY <2>1 DEF TtyInv, NotYetOpen
  <2>3. upd'.at = "select"
    BY <2>1 DEF TtyInv, LineTyped
  <2>4. Fresh.at = "read" /\ Progress(Fresh, mem, committed) /\ AllFields \subseteq DOMAIN Fresh
    BY DEF Fresh, Idle, AllFields, Progress, InHand, OneWrites
  <2>5. /\ DOMAIN rd' = Lines
        /\ \A l \in Lines : rd'[l] = rd[l] \/ rd'[l] = Fresh
    BY <2>1 DEF StoreInv, StreamsTyped
  <2>6. \A l \in Lines : /\ rd'[l].at # "write" /\ AllFields \subseteq DOMAIN rd'[l]
                         /\ Progress(rd'[l], mem, committed)
    BY <2>2, <2>4, <2>5 DEF StoreInv, StreamsTyped
  <2>7. mem = committed
    BY <2>2 DEF StoreInv, Settled
  <2> QED
    BY <2>1, <2>3, <2>5, <2>6, <2>7 DEF StoreInv, StreamsTyped, Alone, Settled, TickerInHand
<1>6. CASE \E c \in Conns : Accept(c)
  <2>1. PICK c \in Conns : Accept(c)
    BY <1>6
  <2>2. c \in Lines /\ rd[c].at = "none" /\ rd' = [rd EXCEPT ![c] = Fresh]
        /\ UNCHANGED <<mem, committed, upd, readers>>
    BY <2>1, EndpointAssumption DEF Accept, At, storeVars
  <2> QED
    BY <2>2, OpenStays
<1>7. CASE Quiet \/ ReadClosed \/ \E c \in Conns : HangUp(c)
  BY <1>7, ReadStays, EndpointAssumption DEF Quiet, ReadClosed, HangUp
<1>8. CASE \E l \in Lines : Stream(l)
  <2>1. PICK l \in Lines : ReadFull(l) \/ Acquire(l) \/ Execute(l)
    BY <1>8 DEF Stream
  <2> QED
    BY <2>1, ReadStays, EnterStays, LeaveStays, EntryRead, EntryWritten, WriterLeaves, ReplyStays
       DEF Acquire, Execute
<1> QED
  BY <1>2, <1>3, <1>4, <1>5, <1>6, <1>7, <1>8 DEF Next, Endpoint


----------------------------------------------------------------------------
(* The steps as Registers sees them *)

(* What a stream has told. *)
Told(r) ==
  IF r.at = "reply" \/ (r.at \in {"again", "leave"} /\ r.op.fn = "write")
    THEN [code |-> IF Permitted(r.op) THEN "ok" ELSE Reason(r.op), data |-> r.data]
    ELSE Unanswered

(* One stream moves: the others, and the ticker, ask and are told what     *)
(* they were.                                                              *)
LEMMA StreamViews ==
  ASSUME StoreInv, NEW l \in Lines, NEW x, rd' = [rd EXCEPT ![l] = x], UNCHANGED upd
  PROVE  /\ AskedBy[l] = rd[l].op /\ ToldTo[l] = Told(rd[l]) /\ l \in Goroutines
         /\ AskedBy' = [AskedBy EXCEPT ![l] = x.op]
         /\ ToldTo' = [ToldTo EXCEPT ![l] = Told(x)]
<1>1. l # Updater /\ l \in Goroutines
  BY LineAssumption DEF Goroutines
<1>2. rd'[l] = x /\ \A k \in Lines \ {l} : rd'[k] = rd[k]
  BY DEF StoreInv, StreamsTyped
<1>3. \A k \in Lines : Answer(k) = Told(rd[k]) /\ Answer(k)' = Told(rd'[k])
  BY DEF Answer, Told, At, Op
<1>4. /\ AskedBy = [a \in Goroutines |-> AskedBy[a]] /\ AskedBy' = [a \in Goroutines |-> AskedBy'[a]]
      /\ ToldTo = [a \in Goroutines |-> ToldTo[a]] /\ ToldTo' = [a \in Goroutines |-> ToldTo'[a]]
  BY DEF AskedBy, ToldTo
<1>5. AskedBy[l] = rd[l].op /\ ToldTo[l] = Told(rd[l]) /\ AskedBy'[l] = x.op /\ ToldTo'[l] = Told(x)
  BY <1>1, <1>2, <1>3 DEF AskedBy, ToldTo, Op
<1>6. \A a \in Goroutines \ {l} : AskedBy'[a] = AskedBy[a] /\ ToldTo'[a] = ToldTo[a]
  BY <1>2, <1>3 DEF AskedBy, ToldTo, Op, Goroutines
<1> QED
  BY <1>1, <1>4, <1>5, <1>6

(* Nothing is to be seen of a step that neither ends nor begins a request. *)
LEMMA StreamUnseen ==
  ASSUME StoreInv, NEW l \in Lines, NEW x, rd' = [rd EXCEPT ![l] = x], UNCHANGED <<upd, committed>>,
         x.op = rd[l].op, Told(x) = Told(rd[l])
  PROVE  UNCHANGED Atomic!vars
<1>1. /\ AskedBy[l] = rd[l].op /\ ToldTo[l] = Told(rd[l]) /\ l \in Goroutines
      /\ AskedBy' = [AskedBy EXCEPT ![l] = x.op]
      /\ ToldTo' = [ToldTo EXCEPT ![l] = Told(x)]
  BY StreamViews
<1>2. AskedBy = [a \in Goroutines |-> AskedBy[a]] /\ ToldTo = [a \in Goroutines |-> ToldTo[a]]
  BY DEF AskedBy, ToldTo
<1>3. AskedBy' = AskedBy /\ ToldTo' = ToldTo
  BY <1>1, <1>2
<1> QED
  BY <1>3 DEF Atomic!vars

LEMMA AnswersAre ==
  /\ Unanswered = Atomic!NoAnswer
  /\ \A code, data : Atomic!Answered(code, data) = [code |-> code, data |-> data]
BY DEF Unanswered, Atomic!NoAnswer, Atomic!Answered

LEMMA KnownIsAsked == ASSUME NEW q, KnownRequest(q) PROVE q # NoRequest
BY DEF KnownRequest, NoRequest

(* The entries a request names are a range; and the requests permitted are *)
(* those that Registers carries out.                                       *)
LEMMA NamesRange ==
  ASSUME NEW q, KnownRequest(q)
  PROVE  \A x : x \in Atomic!Named(q) <=> x \in q.start..q.start + q.qty - 1
<1>1. q.start \in Nat /\ q.qty \in Nat
  BY DEF KnownRequest
<1>2. PICK s, n : s = q.start /\ n = q.qty
  OBVIOUS
<1>3. ASSUME NEW x \in s..s + n - 1
      PROVE  x - s + 1 \in 1..n /\ x = s + (x - s + 1) - 1
  BY <1>1, <1>2
<1>4. \A k \in 1..n : s + k - 1 \in s..s + n - 1
  BY <1>1, <1>2
<1> QED
  BY <1>2, <1>3, <1>4 DEF Atomic!Named

LEMMA PermittedIs ==
  ASSUME NEW q, KnownRequest(q)
  PROVE  /\ Atomic!Understood(q)
         /\ Permitted(q) => Atomic!Meaningful(q) /\ Atomic!Addressable(q)
         /\ ~Permitted(q) /\ Atomic!Meaningful(q) => ~Atomic!Addressable(q)
<1>1. q.start \in Nat /\ q.qty \in Nat /\ Atomic!Understood(q) /\ Size \in Nat
  BY LineAssumption DEF KnownRequest, Atomic!Understood
<1>2. PICK s, n : s = q.start /\ n = q.qty
  OBVIOUS
<1>3. Permitted(q) <=> Atomic!Meaningful(q) /\ s + n <= Size
  BY <1>2 DEF Permitted, Atomic!Meaningful
<1>4. \A x : x \in Atomic!Named(q) <=> x \in s..s + n - 1
  BY <1>2, NamesRange
<1>5. s \in Nat /\ n \in Nat
  BY <1>1, <1>2
<1>6. ASSUME Permitted(q)
      PROVE  Atomic!Addressable(q)
  <2>1. s + n <= Size
    BY <1>3, <1>6
  <2>2. \A x \in s..s + n - 1 : x \in 0..Size - 1
    BY <1>1, <1>5, <2>1
  <2> QED
    BY <1>4, <2>2 DEF Atomic!Addressable, Atomic!Addresses
<1>7. ASSUME ~Permitted(q), Atomic!Meaningful(q)
      PROVE  ~Atomic!Addressable(q)
  <2>1. n # 0
    BY <1>2, <1>5, <1>7 DEF Atomic!Meaningful
  <2>2. ~(s + n <= Size)
    BY <1>3, <1>7
  <2>3. s + n - 1 \in s..s + n - 1 /\ s + n - 1 \notin 0..Size - 1
    BY <1>1, <1>5, <2>1, <2>2
  <2> QED
    BY <1>4, <2>3 DEF Atomic!Addressable, Atomic!Addresses
<1> QED
  BY <1>1, <1>3, <1>6, <1>7

(* A request that is not permitted is refused, for one of two reasons.     *)
LEMMA RefusePerforms ==
  ASSUME NEW a \in Goroutines, NEW q, KnownRequest(q), ~Permitted(q),
         AskedBy[a] = q, ToldTo[a] = Unanswered, UNCHANGED committed, AskedBy' = AskedBy,
         ToldTo' = [ToldTo EXCEPT ![a] = [code |-> Reason(q), data |-> <<>>]]
  PROVE  Atomic!Perform(a)
<1>1. AskedBy[a] # NoRequest /\ ToldTo[a] = Atomic!NoAnswer
  BY KnownIsAsked, AnswersAre
<1>2. Atomic!Refuse(a, Reason(q))
  BY AnswersAre DEF Atomic!Refuse
<1>3. CASE Atomic!Meaningful(q)
  <2>1. Reason(q) = "address"
    BY <1>3 DEF Reason, Atomic!Meaningful
  <2>2. Atomic!Understood(q) /\ ~Atomic!Addressable(q)
    BY <1>3, PermittedIs
  <2> QED
    BY <1>1, <1>2, <1>3, <2>1, <2>2 DEF Atomic!Perform
<1>4. CASE ~Atomic!Meaningful(q)
  <2>1. Reason(q) = "value"
    BY <1>4 DEF Reason, Atomic!Meaningful
  <2>2. Atomic!Understood(q)
    BY PermittedIs
  <2> QED
    BY <1>1, <1>2, <1>4, <2>1, <2>2 DEF Atomic!Perform
<1> QED
  BY <1>3, <1>4

(* A permitted read has the entries of one moment. *)
LEMMA ReadPerforms ==
  ASSUME NEW a \in Goroutines, NEW q, KnownRequest(q), Permitted(q), q.fn = "read",
         AskedBy[a] = q, ToldTo[a] = Unanswered, UNCHANGED committed, AskedBy' = AskedBy,
         ToldTo' = [ToldTo EXCEPT ![a] = [code |-> "ok", data |-> Taken(committed, q, q.qty)]]
  PROVE  Atomic!Perform(a)
<1>1. AskedBy[a] # NoRequest /\ ToldTo[a] = Atomic!NoAnswer
  BY KnownIsAsked, AnswersAre
<1>2. Taken(committed, q, q.qty) = [k \in 1..q.qty |-> committed[q.table][q.start + k - 1]]
  BY DEF Taken
<1>3. Atomic!Read(a, q)
  BY <1>2, AnswersAre DEF Atomic!Read
<1>4. Atomic!Understood(q) /\ Atomic!Meaningful(q) /\ Atomic!Addressable(q)
  BY PermittedIs
<1> QED
  BY <1>1, <1>3, <1>4 DEF Atomic!Perform

(* The store with all the words of a write is what Registers has then. *)
Overwritten(m, old, q) ==
  m = [old EXCEPT ![q.table] =
         [x \in Atomic!Addresses |->
            IF x \in Atomic!Named(q) THEN q.words[x - q.start + 1] ELSE old[q.table][x]]]

LEMMA WholeWrite ==
  ASSUME NEW m, NEW old, NEW q, IsStore(m), IsStore(old), KnownRequest(q), Written(m, old, q, q.qty)
  PROVE  Overwritten(m, old, q)
<1>1. PICK T, G : /\ T = q.table
                  /\ G = [x \in Atomic!Addresses |->
                            IF x \in Atomic!Named(q) THEN q.words[x - q.start + 1] ELSE old[q.table][x]]
  OBVIOUS
<1>2. T \in Tables /\ DOMAIN m = Tables /\ DOMAIN old = Tables
  BY <1>1, StoreIs DEF KnownRequest
<1>3. /\ G = [x \in 0..Size - 1 |-> G[x]]
      /\ \A x \in 0..Size - 1 : G[x] = IF x \in Atomic!Named(q) THEN q.words[x - q.start + 1] ELSE old[T][x]
  BY <1>1 DEF Atomic!Addresses
<1>4. PICK m2 : m2 = [old EXCEPT ![T] = G]
  OBVIOUS
<1>5. /\ DOMAIN m2 = Tables /\ m2 = [t \in Tables |-> m2[t]]
      /\ \A t \in Tables : m2[t] = IF t = T THEN G ELSE old[t]
  BY <1>2, <1>4
<1>6. ASSUME NEW t \in Tables
      PROVE  m2[t] = [x \in 0..Size - 1 |-> m2[t][x]]
  <2>1. CASE t = T
    BY <1>3, <1>5, <2>1
  <2>2. CASE t # T
    <3>1. m2[t] = old[t]
      BY <1>5, <2>2
    <3>2. old[t] = [x \in 0..Size - 1 |-> old[t][x]]
      BY DEF IsStore
    <3> QED
      BY <3>1, <3>2
  <2> QED
    BY <2>1, <2>2
<1>7. IsStore(m2)
  BY <1>5, <1>6, Zenon DEF IsStore
<1>8. ASSUME NEW t \in Tables, NEW x \in 0..Size - 1
      PROVE  m[t][x] = m2[t][x]
  <2>1. m[t][x] = IF t = T /\ x \in q.start..q.start + q.qty - 1
                    THEN q.words[x - q.start + 1] ELSE old[t][x]
    BY <1>1 DEF Written
  <2>2. x \in q.start..q.start + q.qty - 1 <=> x \in Atomic!Named(q)
    BY NamesRange
  <2>3. CASE t = T
    BY <1>3, <1>5, <2>1, <2>2, <2>3
  <2>4. CASE t # T
    BY <1>5, <2>1, <2>4
  <2> QED
    BY <2>3, <2>4
<1>9. m = m2
  BY <1>7, <1>8, StoresAgree
<1> QED
  BY <1>1, <1>4, <1>9 DEF Overwritten

(* A permitted write takes place as its writer leaves the entries. *)
LEMMA WritePerforms ==
  ASSUME StoreInv, NEW a \in Goroutines, NEW q, KnownRequest(q), Permitted(q), q.fn = "write",
         Written(mem, committed, q, q.qty), committed' = mem,
         AskedBy[a] = q, ToldTo[a] = Unanswered, AskedBy' = AskedBy,
         ToldTo' = [ToldTo EXCEPT ![a] = [code |-> "ok", data |-> <<>>]]
  PROVE  Atomic!Perform(a)
<1>1. AskedBy[a] # NoRequest /\ ToldTo[a] = Atomic!NoAnswer
  BY KnownIsAsked, AnswersAre
<1>2. PICK m, old : m = mem /\ old = committed
  OBVIOUS
<1>3. IsStore(m) /\ IsStore(old) /\ Written(m, old, q, q.qty)
  BY <1>2 DEF StoreInv
<1>4. Overwritten(m, old, q)
  BY <1>3, WholeWrite
<1>5. Atomic!Write(a, q)
  BY <1>2, <1>4, AnswersAre DEF Overwritten, Atomic!Write
<1>6. Atomic!Understood(q) /\ Atomic!Meaningful(q) /\ Atomic!Addressable(q)
  BY PermittedIs
<1> QED
  BY <1>1, <1>5, <1>6 DEF Atomic!Perform


----------------------------------------------------------------------------
(* The steps of the streams, and of the ticker, as Registers sees them *)

(* Taking the mutex, or giving it back, without an answer. *)
LEMMA StageUnseen ==
  ASSUME StoreInv, NEW l \in Lines,
         RLock(l) \/ Lock(l) \/ Locked(l) \/ GiveUpReadLock(l) \/ RUnlock(l)
  PROVE  UNCHANGED Atomic!vars
<1>1. UNCHANGED <<upd, committed>> /\ Progress(rd[l], mem, committed)
  BY DEF RLock, Lock, Locked, GiveUpReadLock, RUnlock, storeVars, StoreInv
<1>2. PICK stage : /\ Goto(l, stage)
                   /\ <<rd[l].at, stage>> \in { <<"call", "held">>, <<"again", "leave">>, <<"want", "pending">>,
                        <<"pending", "write">>, <<"held", "want">>, <<"leave", "reply">> }
  BY DEF RLock, Lock, Locked, GiveUpReadLock, RUnlock, At
<1>3. PICK x : /\ rd' = [rd EXCEPT ![l] = x] /\ x.at = stage
               /\ x.op = rd[l].op /\ x.data = rd[l].data
  BY <1>2, StageOnly
<1>4. PICK r : r = rd[l]
  OBVIOUS
<1>5. r.at \in {"again", "leave"} => r.op.fn = "write"
  BY <1>1, <1>4 DEF Progress, OneWrites
<1>6. Told(x) = Told(r)
  BY <1>2, <1>3, <1>4, <1>5 DEF Told
<1> QED
  BY <1>1, <1>3, <1>4, <1>6, StreamUnseen

(* The entries, one after the other. *)
LEMMA EntryUnseen ==
  ASSUME StoreInv, NEW l \in Lines, ReadEntry(l) \/ WriteEntry(l)
  PROVE  UNCHANGED Atomic!vars
<1>1. UNCHANGED <<upd, committed>> /\ rd[l].at \in {"held", "write"} /\ AllFields \subseteq DOMAIN rd[l]
      /\ DOMAIN rd = Lines
  BY DEF ReadEntry, WriteEntry, storeVars, At, StoreInv, StreamsTyped
<1>2. PICK x : rd' = [rd EXCEPT ![l] = x] /\ x.at = rd[l].at /\ x.op = rd[l].op
  <2>1. CASE ReadEntry(l)
    <3>1. PICK y : y = [rd[l] EXCEPT !.idx = rd[l].idx + 1,
                          !.data = Append(rd[l].data, mem[Op(l).table][Op(l).start + rd[l].idx])]
      OBVIOUS
    <3>2. rd' = [rd EXCEPT ![l] = y]
      BY <1>1, <2>1, <3>1 DEF ReadEntry
    <3>3. y.at = rd[l].at /\ y.op = rd[l].op
      BY <1>1, <3>1 DEF AllFields
    <3> QED
      BY <3>2, <3>3
  <2>2. CASE WriteEntry(l)
    <3>1. PICK y : y = [rd[l] EXCEPT !.idx = rd[l].idx + 1]
      OBVIOUS
    <3>2. rd' = [rd EXCEPT ![l] = y]
      BY <1>1, <2>2, <3>1 DEF WriteEntry
    <3>3. y.at = rd[l].at /\ y.op = rd[l].op
      BY <1>1, <3>1 DEF AllFields
    <3> QED
      BY <3>2, <3>3
  <2> QED
    BY <2>1, <2>2
<1>3. Told(x) = Told(rd[l])
  BY <1>1, <1>2 DEF Told
<1> QED
  BY <1>1, <1>2, <1>3, StreamUnseen

(* A frame is read: it asks for something, or nothing is to be seen.       *)
LEMMA ReadInvokes ==
  ASSUME StoreInv, LinesOk', NEW l \in Lines, ReadFull(l) \/ ReadFails(l)
  PROVE  Atomic!Next \/ UNCHANGED Atomic!vars
<1>1. /\ rd[l].at = "read" /\ UNCHANGED <<committed, upd>>
  BY DEF ReadFull, ReadFails, At, storeVars
<1>2. PICK x : /\ rd' = [rd EXCEPT ![l] = x]
               /\ x.at \in {"read", "call", "ended"} /\ (x.at # "call" => x.op = NoRequest)
  <2>1. CASE ReadFull(l)
    <3>1. PICK w : w = rd[l].frame \o SubSeq(wire[l], 1, Missing(l))
      OBVIOUS
    <3>2. rd' = [rd EXCEPT ![l] = Follow(w)]
      BY <2>1, <3>1 DEF ReadFull
    <3> QED
      BY <3>2, FollowHas
  <2>2. CASE ReadFails(l)
    <3>1. PICK x : x = [Idle EXCEPT !.at = "ended"]
      OBVIOUS
    <3>2. rd' = [rd EXCEPT ![l] = x]
      BY <2>2, <3>1 DEF ReadFails
    <3>3. x.at = "ended" /\ x.op = NoRequest
      BY <3>1 DEF Idle
    <3> QED
      BY <3>2, <3>3
  <2> QED
    BY <2>1, <2>2
<1>3. rd[l].op = NoRequest
  <2>1. Progress(rd[l], mem, committed)
    BY DEF StoreInv
  <2> QED
    BY <1>1, <2>1 DEF Progress, InHand
<1>4. Told(x) = Unanswered /\ Told(rd[l]) = Unanswered
  BY <1>1, <1>2 DEF Told
<1>5. CASE x.at # "call"
  BY <1>1, <1>2, <1>3, <1>4, <1>5, StreamUnseen
<1>6. CASE x.at = "call"
  <2>1. rd'[l] = x
    BY <1>2 DEF StoreInv, StreamsTyped
  <2>2. x.op \in Requests
    <3>1. PICK w, n, d : w = wire'[l] /\ n = put'[l] /\ d = due'[l]
      OBVIOUS
    <3>2. PICK cl : cl \in BOOLEAN /\ cl = (l \in clean')
      BY CleanOrNot
    <3>3. LineOk(l, x, w, n, d, cl) /\ x.at \in InHand
      BY <1>6, <2>1, <3>1, <3>2 DEF LinesOk, InHand
    <3>4. x.op \in Asked
      BY <3>3, LineKnown
    <3> QED
      BY <3>4 DEF Requests, Asked
  <2>3. /\ AskedBy[l] = rd[l].op /\ ToldTo[l] = Told(rd[l]) /\ l \in Goroutines
        /\ AskedBy' = [AskedBy EXCEPT ![l] = x.op]
        /\ ToldTo' = [ToldTo EXCEPT ![l] = Told(x)]
    BY <1>1, <1>2, StreamViews
  <2>4. ToldTo' = ToldTo
    <3>1. ToldTo = [a \in Goroutines |-> ToldTo[a]]
      BY DEF ToldTo
    <3> QED
      BY <1>4, <2>3, <3>1
  <2>5. Atomic!Invoke(l, x.op)
    BY <1>1, <1>3, <2>3, <2>4 DEF Atomic!Invoke
  <2> QED
    BY <2>2, <2>3, <2>5 DEF Atomic!Next
<1> QED
  BY <1>5, <1>6

(* A stream begins. *)
LEMMA OpenUnseen ==
  ASSUME StoreInv, NEW l \in Lines, rd[l].at = "none", rd' = [rd EXCEPT ![l] = Fresh],
         UNCHANGED <<upd, committed>>
  PROVE  UNCHANGED Atomic!vars
<1>1. PICK x : x = Fresh
  OBVIOUS
<1>2. x.at = "read" /\ x.op = NoRequest
  BY <1>1 DEF Fresh, Idle
<1>3. rd[l].op = NoRequest
  <2>1. Progress(rd[l], mem, committed)
    BY DEF StoreInv
  <2> QED
    BY <2>1 DEF Progress, InHand
<1>4. Told(x) = Told(rd[l])
  BY <1>2 DEF Told
<1> QED
  BY <1>1, <1>2, <1>3, <1>4, StreamUnseen

(* The answer goes out. *)
LEMMA ReplyResponds ==
  ASSUME StoreInv, NEW l \in Lines, Reply(l)
  PROVE  Atomic!Respond(l)
<1>1. PICK x : x = Fresh
  OBVIOUS
<1>2. x.at = "read" /\ x.op = NoRequest
  BY <1>1 DEF Fresh, Idle
<1>3. rd' = [rd EXCEPT ![l] = x] /\ rd[l].at = "reply" /\ UNCHANGED <<committed, upd>>
  BY <1>1 DEF Reply, At, storeVars
<1>4. /\ AskedBy[l] = rd[l].op /\ ToldTo[l] = Told(rd[l]) /\ l \in Goroutines
      /\ AskedBy' = [AskedBy EXCEPT ![l] = x.op]
      /\ ToldTo' = [ToldTo EXCEPT ![l] = Told(x)]
  BY <1>3, StreamViews
<1>5. Told(x) = Unanswered
  BY <1>2 DEF Told
<1>6. ToldTo[l] # Unanswered
  <2>1. Told(rd[l]).code \in {"ok", "value", "address"}
    BY <1>3 DEF Told, Reason
  <2>2. Unanswered.code = "none"
    BY DEF Unanswered
  <2> QED
    BY <1>4, <2>1, <2>2
<1> QED
  BY <1>2, <1>3, <1>4, <1>5, <1>6, AnswersAre DEF Atomic!Respond


(* The answer to a read is its entries as they were all at one moment, for *)
(* nobody writes while it holds the mutex.                                 *)
LEMMA EndReadPerforms ==
  ASSUME TtyInv, StoreInv, LinesOk, NEW l \in Lines, EndRead(l)
  PROVE  Atomic!Perform(l)
<1>1. PICK r, q : r = rd[l] /\ q = r.op
  OBVIOUS
<1>2. /\ r.at = "held" /\ q.fn = "read" /\ (Permitted(q) => r.idx = q.qty)
      /\ Goto(l, "reply") /\ UNCHANGED <<committed, upd>> /\ Progress(r, mem, committed)
  BY <1>1 DEF EndRead, At, Op, StoreInv
<1>3. KnownRequest(q)
  BY <1>1, <1>2, HandKnown DEF InHand
<1>4. PICK x : rd' = [rd EXCEPT ![l] = x] /\ x.at = "reply" /\ x.op = q /\ x.data = r.data
  BY <1>1, <1>2, StageOnly
<1>5. /\ AskedBy[l] = q /\ ToldTo[l] = Told(r) /\ l \in Goroutines
      /\ AskedBy' = [AskedBy EXCEPT ![l] = q]
      /\ ToldTo' = [ToldTo EXCEPT ![l] = Told(x)]
  <2>1. /\ AskedBy[l] = rd[l].op /\ ToldTo[l] = Told(rd[l]) /\ l \in Goroutines
        /\ AskedBy' = [AskedBy EXCEPT ![l] = x.op]
        /\ ToldTo' = [ToldTo EXCEPT ![l] = Told(x)]
    BY <1>2, <1>4, StreamViews
  <2> QED
    BY <1>1, <1>4, <2>1
<1>6. ToldTo[l] = Unanswered
  BY <1>2, <1>5 DEF Told
<1>7. AskedBy' = AskedBy
  <2>1. AskedBy = [a \in Goroutines |-> AskedBy[a]]
    BY DEF AskedBy
  <2> QED
    BY <1>5, <2>1
<1>8. CASE Permitted(q)
  <2>1. r.data = Taken(mem, q, q.qty)
    BY <1>1, <1>2, <1>8 DEF Progress
  <2>2. mem = committed
    <3>1. l \in readers
      BY <1>1, <1>2 DEF TtyInv, LockInv, Reading
    <3> QED
      BY <3>1 DEF StoreInv, Alone, Settled
  <2>3. Told(x) = [code |-> "ok", data |-> Taken(committed, q, q.qty)]
    BY <1>4, <1>8, <2>1, <2>2 DEF Told
  <2> QED
    BY <1>2, <1>3, <1>5, <1>6, <1>7, <1>8, <2>3, ReadPerforms
<1>9. CASE ~ Permitted(q)
  <2>1. r.data = <<>>
    BY <1>1, <1>2, <1>9 DEF Progress
  <2>2. Told(x) = [code |-> Reason(q), data |-> <<>>]
    BY <1>4, <1>9, <2>1 DEF Told
  <2> QED
    BY <1>2, <1>3, <1>5, <1>6, <1>7, <1>9, <2>2, RefusePerforms
<1> QED
  BY <1>8, <1>9

(* A write takes place as its writer leaves the entries. *)
LEMMA UnlockPerforms ==
  ASSUME StoreInv, LinesOk, NEW l \in Lines, Unlock(l)
  PROVE  Atomic!Perform(l)
<1>1. PICK r, q : r = rd[l] /\ q = r.op
  OBVIOUS
<1>2. /\ r.at = "write" /\ (Permitted(q) => r.idx = q.qty)
      /\ Goto(l, "again") /\ committed' = mem /\ UNCHANGED upd /\ Progress(r, mem, committed)
  BY <1>1 DEF Unlock, At, Op, StoreInv
<1>3. KnownRequest(q)
  BY <1>1, <1>2, HandKnown DEF InHand
<1>4. q.fn = "write" /\ r.data = <<>>
  BY <1>1, <1>2 DEF Progress, OneWrites
<1>5. PICK x : rd' = [rd EXCEPT ![l] = x] /\ x.at = "again" /\ x.op = q /\ x.data = r.data
  BY <1>1, <1>2, StageOnly
<1>6. /\ AskedBy[l] = q /\ ToldTo[l] = Told(r) /\ l \in Goroutines
      /\ AskedBy' = [AskedBy EXCEPT ![l] = q]
      /\ ToldTo' = [ToldTo EXCEPT ![l] = Told(x)]
  <2>1. /\ AskedBy[l] = rd[l].op /\ ToldTo[l] = Told(rd[l]) /\ l \in Goroutines
        /\ AskedBy' = [AskedBy EXCEPT ![l] = x.op]
        /\ ToldTo' = [ToldTo EXCEPT ![l] = Told(x)]
    BY <1>2, <1>5, StreamViews
  <2> QED
    BY <1>1, <1>5, <2>1
<1>7. ToldTo[l] = Unanswered
  BY <1>2, <1>6 DEF Told
<1>8. AskedBy' = AskedBy
  <2>1. AskedBy = [a \in Goroutines |-> AskedBy[a]]
    BY DEF AskedBy
  <2> QED
    BY <1>6, <2>1
<1>9. CASE Permitted(q)
  <2>1. Written(mem, committed, q, q.qty)
    BY <1>1, <1>2, <1>9 DEF Progress
  <2>2. Told(x) = [code |-> "ok", data |-> <<>>]
    BY <1>4, <1>5, <1>9 DEF Told
  <2> QED
    BY <1>2, <1>3, <1>4, <1>6, <1>7, <1>8, <1>9, <2>1, <2>2, WritePerforms
<1>10. CASE ~ Permitted(q)
  <2>1. mem = committed
    BY <1>1, <1>2, <1>10 DEF Progress
  <2>2. Told(x) = [code |-> Reason(q), data |-> <<>>]
    BY <1>4, <1>5, <1>10 DEF Told
  <2> QED
    BY <1>2, <1>3, <1>6, <1>7, <1>8, <1>10, <2>1, <2>2, RefusePerforms
<1> QED
  BY <1>9, <1>10

(* What the ticker has asked, and been told. *)
Asks(u) == IF u.at \in {"loaded", "stored", "unlocked"} THEN TickWrite((u.v + 1) % WordMod) ELSE NoRequest
Hears(u) == IF u.at = "unlocked" THEN [code |-> "ok", data |-> <<>>] ELSE Unanswered

LEMMA TickerViews ==
  ASSUME UNCHANGED rd
  PROVE  /\ AskedBy[Updater] = Asks(upd) /\ ToldTo[Updater] = Hears(upd) /\ Updater \in Goroutines
         /\ AskedBy' = [AskedBy EXCEPT ![Updater] = Asks(upd')]
         /\ ToldTo' = [ToldTo EXCEPT ![Updater] = Hears(upd')]
<1>1. Updater \in Goroutines /\ \A a \in Goroutines \ {Updater} : a \in Lines
  BY DEF Goroutines
<1>2. \A k \in Lines : Answer(k)' = Answer(k) /\ Op(k)' = Op(k)
  BY DEF Answer, At, Op
<1>3. /\ AskedBy = [a \in Goroutines |-> AskedBy[a]] /\ AskedBy' = [a \in Goroutines |-> AskedBy'[a]]
      /\ ToldTo = [a \in Goroutines |-> ToldTo[a]] /\ ToldTo' = [a \in Goroutines |-> ToldTo'[a]]
  BY DEF AskedBy, ToldTo
<1>4. /\ AskedBy[Updater] = Asks(upd) /\ ToldTo[Updater] = Hears(upd)
      /\ AskedBy'[Updater] = Asks(upd') /\ ToldTo'[Updater] = Hears(upd')
  BY <1>1 DEF AskedBy, ToldTo, Asks, Hears
<1>5. \A a \in Goroutines \ {Updater} : AskedBy'[a] = AskedBy[a] /\ ToldTo'[a] = ToldTo[a]
  BY <1>1, <1>2 DEF AskedBy, ToldTo
<1> QED
  BY <1>1, <1>3, <1>4, <1>5

LEMMA TickerUnseen ==
  ASSUME UNCHANGED <<rd, committed>>, Asks(upd') = Asks(upd), Hears(upd') = Hears(upd)
  PROVE  UNCHANGED Atomic!vars
<1>1. /\ AskedBy[Updater] = Asks(upd) /\ ToldTo[Updater] = Hears(upd) /\ Updater \in Goroutines
      /\ AskedBy' = [AskedBy EXCEPT ![Updater] = Asks(upd')]
      /\ ToldTo' = [ToldTo EXCEPT ![Updater] = Hears(upd')]
  BY TickerViews
<1>2. AskedBy = [a \in Goroutines |-> AskedBy[a]] /\ ToldTo = [a \in Goroutines |-> ToldTo[a]]
  BY DEF AskedBy, ToldTo
<1>3. AskedBy' = AskedBy /\ ToldTo' = ToldTo
  BY <1>1, <1>2
<1> QED
  BY <1>3 DEF Atomic!vars

(* A tick is known, and permitted. *)
LEMMA TickPermitted ==
  ASSUME NEW v \in Nat
  PROVE  /\ KnownRequest(TickWrite(v)) /\ Permitted(TickWrite(v))
         /\ TickWrite(v).fn = "write" /\ TickWrite(v).qty = 1 /\ TickWrite(v) # NoRequest
<1>1. PICK q : q = TickWrite(v)
  OBVIOUS
<1>2. /\ q.fn = "write" /\ q.table = "holding" /\ q.start = Counter /\ q.qty = 1
      /\ q.words = <<v>> /\ q.sound = TRUE
  BY <1>1 DEF TickWrite
<1>3. KnownRequest(q)
  <2>1. q.start \in Nat /\ q.qty \in Nat /\ q.table \in Tables
    BY <1>2, LineAssumption DEF Tables
  <2>2. \A k \in 1..q.qty : q.words[k] \in Nat
    BY <1>2
  <2> QED
    BY <1>2, <2>1, <2>2 DEF KnownRequest
<1>4. WriteLimit["holding"] \in Nat \ {0} /\ Counter + 1 <= Size
  BY LineAssumption DEF Tables
<1>5. Permitted(q)
  BY <1>2, <1>4 DEF Permitted, Limit
<1> QED
  BY <1>1, <1>2, <1>3, <1>5, KnownIsAsked

LEMMA TickerSteps ==
  ASSUME TtyInv, StoreInv, Ticker \/ EndTicker
  PROVE  Atomic!Next \/ UNCHANGED Atomic!vars
<1>0. UNCHANGED rd /\ "at" \in DOMAIN upd
  BY DEF Ticker, Count, Tick, Load, Store, TickUnlocks, TickOver, EndTicker, TtyInv, LineTyped
<1>1. CASE Tick \/ EndTicker
  <2>1. /\ UNCHANGED committed /\ upd.at = "select" /\ upd'.at \in {"pending", "ended"}
    BY <1>0, <1>1 DEF Tick, EndTicker, storeVars
  <2>2. Asks(upd') = Asks(upd) /\ Hears(upd') = Hears(upd)
    BY <2>1 DEF Asks, Hears
  <2> QED
    BY <1>0, <2>1, <2>2, TickerUnseen
<1>2. CASE Load
  <2>1. PICK v : v = mem["holding"][Counter]
    OBVIOUS
  <2>2. upd.at = "pending" /\ upd' = [at |-> "loaded", v |-> v] /\ UNCHANGED committed
    BY <1>2, <2>1 DEF Load, storeVars
  <2>3. v \in Nat
    BY <2>1, LineAssumption DEF StoreInv
  <2>4. (v + 1) % WordMod \in 0..WordMod - 1
    BY <2>3, LineAssumption
  <2>5. Asks(upd) = NoRequest /\ Hears(upd) = Unanswered /\ Hears(upd') = Unanswered
        /\ Asks(upd') = TickWrite((v + 1) % WordMod)
    BY <2>2 DEF Asks, Hears
  <2>6. Asks(upd') \in Requests
    BY <2>4, <2>5 DEF Requests
  <2>7. /\ AskedBy[Updater] = Asks(upd) /\ ToldTo[Updater] = Hears(upd) /\ Updater \in Goroutines
        /\ AskedBy' = [AskedBy EXCEPT ![Updater] = Asks(upd')]
        /\ ToldTo' = [ToldTo EXCEPT ![Updater] = Hears(upd')]
    BY <1>0, TickerViews
  <2>8. ToldTo' = ToldTo
    <3>1. ToldTo = [a \in Goroutines |-> ToldTo[a]]
      BY DEF ToldTo
    <3> QED
      BY <2>5, <2>7, <3>1
  <2>9. Atomic!Invoke(Updater, Asks(upd'))
    BY <2>2, <2>5, <2>7, <2>8 DEF Atomic!Invoke
  <2> QED
    BY <2>6, <2>7, <2>9 DEF Atomic!Next
<1>3. CASE Store
  <2>1. UNCHANGED committed /\ upd.at = "loaded" /\ upd' = [upd EXCEPT !.at = "stored"]
    BY <1>3 DEF Store
  <2>2. upd'.at = "stored" /\ upd'.v = upd.v
    BY <1>0, <2>1
  <2>3. Asks(upd') = Asks(upd) /\ Hears(upd') = Hears(upd)
    BY <2>1, <2>2 DEF Asks, Hears
  <2> QED
    BY <1>0, <2>1, <2>3, TickerUnseen
<1>4. CASE TickUnlocks
  <2>1. committed' = mem /\ upd.at = "stored" /\ upd' = [upd EXCEPT !.at = "unlocked"]
    BY <1>4 DEF TickUnlocks
  <2>2. upd'.at = "unlocked" /\ upd'.v = upd.v
    BY <1>0, <2>1
  <2>3. PICK v : v = (upd.v + 1) % WordMod
    OBVIOUS
  <2>4. v \in Nat /\ Written(mem, committed, TickWrite(v), 1)
    <3>1. upd.v \in Nat
      BY <2>1 DEF StoreInv, TickerInHand
    <3> QED
      BY <2>1, <2>3, <3>1, LineAssumption DEF StoreInv, TickerInHand, Ticked
  <2>5. PICK q : q = TickWrite(v)
    OBVIOUS
  <2>6. KnownRequest(q) /\ Permitted(q) /\ q.fn = "write" /\ q.qty = 1 /\ Written(mem, committed, q, q.qty)
    BY <2>4, <2>5, TickPermitted
  <2>7. /\ Asks(upd) = q /\ Asks(upd') = q /\ Hears(upd) = Unanswered
        /\ Hears(upd') = [code |-> "ok", data |-> <<>>]
    BY <2>1, <2>2, <2>3, <2>5 DEF Asks, Hears
  <2>8. /\ AskedBy[Updater] = Asks(upd) /\ ToldTo[Updater] = Hears(upd) /\ Updater \in Goroutines
        /\ AskedBy' = [AskedBy EXCEPT ![Updater] = Asks(upd')]
        /\ ToldTo' = [ToldTo EXCEPT ![Updater] = Hears(upd')]
    BY <1>0, TickerViews
  <2>9. AskedBy' = AskedBy
    <3>1. AskedBy = [a \in Goroutines |-> AskedBy[a]]
      BY DEF AskedBy
    <3> QED
      BY <2>7, <2>8, <3>1
  <2>10. Atomic!Perform(Updater)
    BY <2>1, <2>6, <2>7, <2>8, <2>9, WritePerforms
  <2> QED
    BY <2>8, <2>10 DEF Atomic!Next
<1>5. CASE TickOver
  <2>1. UNCHANGED committed /\ upd.at = "unlocked" /\ upd' = [at |-> "select", v |-> 0]
    BY <1>5 DEF TickOver, storeVars
  <2>2. Asks(upd') = NoRequest /\ Hears(upd') = Unanswered /\ Hears(upd) # Unanswered
    BY <2>1 DEF Asks, Hears, Unanswered
  <2>3. /\ AskedBy[Updater] = Asks(upd) /\ ToldTo[Updater] = Hears(upd) /\ Updater \in Goroutines
        /\ AskedBy' = [AskedBy EXCEPT ![Updater] = Asks(upd')]
        /\ ToldTo' = [ToldTo EXCEPT ![Updater] = Hears(upd')]
    BY <1>0, TickerViews
  <2>4. Atomic!Respond(Updater)
    BY <2>1, <2>2, <2>3, AnswersAre DEF Atomic!Respond
  <2> QED
    BY <2>3, <2>4 DEF Atomic!Next
<1> QED
  BY <1>1, <1>2, <1>3, <1>4, <1>5 DEF Ticker, Count


----------------------------------------------------------------------------
(* The refinement of Registers *)

(* At first there are the seed and no requests. *)
LEMMA StartsAsRegisters == Init => Atomic!Init
<1> SUFFICES ASSUME Init PROVE Atomic!Init
  OBVIOUS
<1>1. committed = Seed /\ rd = [l \in Lines |-> Idle] /\ upd.at = "none"
  BY DEF Init, LineInit
<1>2. \A l \in Lines : rd[l].at = "none" /\ rd[l].op = NoRequest
  BY <1>1 DEF Idle
<1>3. \A l \in Lines : Answer(l) = Unanswered
  BY <1>2 DEF Answer, At
<1>4. \A a \in Goroutines \ {Updater} : a \in Lines
  BY DEF Goroutines
<1>5. AskedBy = [a \in Goroutines |-> NoRequest]
  BY <1>1, <1>2, <1>4 DEF AskedBy, Op
<1>6. ToldTo = [a \in Goroutines |-> Unanswered]
  BY <1>1, <1>3, <1>4 DEF ToldTo
<1> QED
  BY <1>1, <1>5, <1>6, AnswersAre DEF Atomic!Init

(* Every step is a step of Registers, or nothing is to be seen of it.      *)
LEMMA StepsAsRegisters ==
  TtyInv /\ LinesOk /\ StoreInv /\ LinesOk' /\ [Next]_ttyVars => [Atomic!Next]_(Atomic!vars)
<1> SUFFICES ASSUME TtyInv, LinesOk, StoreInv, LinesOk', [Next]_ttyVars
             PROVE  Atomic!Next \/ UNCHANGED Atomic!vars
  OBVIOUS
<1>1. ASSUME UNCHANGED <<committed, upd, rd>>
      PROVE  UNCHANGED Atomic!vars
  <2>1. AskedBy' = AskedBy
    BY <1>1 DEF AskedBy, Op
  <2>2. ToldTo' = ToldTo
    BY <1>1 DEF ToldTo, Answer, At, Op
  <2> QED
    BY <1>1, <2>1, <2>2 DEF Atomic!vars
<1>2. CASE OpenFails \/ AcceptFails \/ ClosePort \/ SerialReturns \/ Cancel \/ UNCHANGED ttyVars
  BY <1>1, <1>2 DEF OpenFails, AcceptFails, ClosePort, SerialReturns, Cancel, lineVars, storeVars, ttyVars
<1>3. CASE \E l \in Lines : Receive(l)
  BY <1>1, <1>3 DEF Receive, Transmit, storeVars
<1>4. CASE EndTicker \/ Ticker
  BY <1>4, TickerSteps
<1>5. CASE Open
  <2>1. /\ main = "opening" /\ UNCHANGED committed
        /\ upd' = [upd EXCEPT !.at = "select"]
        /\ rd' = IF mode = "serial" THEN [rd EXCEPT ![Serial] = Fresh] ELSE rd
    BY <1>5 DEF Open, storeVars
  <2>2. upd.at = "none" /\ \A l \in Lines : rd[l].at = "none"
    BY <2>1 DEF TtyInv, NotYetOpen
  <2>3. upd'.at = "select"
    BY <2>1 DEF TtyInv, LineTyped
  <2>4. \A l \in Lines : rd'[l] = rd[l] \/ rd'[l] = Fresh
    BY <2>1 DEF StoreInv, StreamsTyped
  <2>5. \A l \in Lines : rd[l].op = NoRequest /\ rd'[l].op = NoRequest /\ rd'[l].at \in {"none", "read"}
    <3>1. Fresh.at = "read" /\ Fresh.op = NoRequest
      BY DEF Fresh, Idle
    <3>2. \A l \in Lines : rd[l].op = NoRequest
      BY <2>2 DEF StoreInv, Progress, InHand
    <3> QED
      BY <2>2, <2>4, <3>1, <3>2
  <2>6. \A l \in Lines : Op(l)' = Op(l) /\ Answer(l) = Unanswered /\ Answer(l)' = Unanswered
    BY <2>2, <2>5 DEF Op, Answer, At
  <2>7. \A a \in Goroutines \ {Updater} : a \in Lines
    BY DEF Goroutines
  <2>8. AskedBy' = AskedBy
    BY <2>2, <2>3, <2>6, <2>7 DEF AskedBy
  <2>9. ToldTo' = ToldTo
    BY <2>2, <2>3, <2>6, <2>7 DEF ToldTo
  <2> QED
    BY <2>1, <2>8, <2>9 DEF Atomic!vars
<1>6. CASE \E c \in Conns : Accept(c)
  <2>1. PICK c \in Conns : Accept(c)
    BY <1>6
  <2>2. c \in Lines /\ rd[c].at = "none" /\ rd' = [rd EXCEPT ![c] = Fresh] /\ UNCHANGED <<upd, committed>>
    BY <2>1, EndpointAssumption DEF Accept, At, storeVars
  <2> QED
    BY <2>2, OpenUnseen
<1>7. CASE Quiet \/ ReadClosed \/ \E c \in Conns : HangUp(c)
  BY <1>7, ReadInvokes, EndpointAssumption DEF Quiet, ReadClosed, HangUp
<1>8. CASE \E l \in Lines : Stream(l)
  <2>1. PICK l \in Lines : ReadFull(l) \/ Acquire(l) \/ Execute(l)
    BY <1>8 DEF Stream
  <2>2. l \in Goroutines
    BY DEF Goroutines
  <2>3. CASE ReadFull(l)
    BY <2>3, ReadInvokes
  <2>4. CASE RLock(l) \/ Lock(l) \/ Locked(l) \/ GiveUpReadLock(l) \/ RUnlock(l)
    BY <2>4, StageUnseen
  <2>5. CASE ReadEntry(l) \/ WriteEntry(l)
    BY <2>5, EntryUnseen
  <2>6. CASE EndRead(l)
    BY <2>2, <2>6, EndReadPerforms DEF Atomic!Next
  <2>7. CASE Unlock(l)
    BY <2>2, <2>7, UnlockPerforms DEF Atomic!Next
  <2>8. CASE Reply(l)
    BY <2>2, <2>8, ReplyResponds DEF Atomic!Next
  <2> QED
    BY <2>1, <2>3, <2>4, <2>5, <2>6, <2>7, <2>8 DEF Acquire, Execute
<1> QED
  BY <1>2, <1>3, <1>4, <1>5, <1>6, <1>7, <1>8 DEF Next, Endpoint

(* The requests of all the streams, and the ticks, are each carried out at *)
(* one moment between their arrival and their answer, whole or not at all: *)
(* no read sees half of a write, and no write or tick undoes a part of     *)
(* another. Left out are writes of coils that bring too few bits, which    *)
(* end the process in a panic (CoilsAssumption).                           *)
THEOREM LinesAreAtomic == Spec => LinesImplementRegisters
<1>1. Init => TtyInv /\ LinesOk /\ StoreInv
  BY TtyInit, LinesInit, StoreInit
<1>2. TtyInv /\ LinesOk /\ StoreInv /\ [Next]_ttyVars => TtyInv' /\ LinesOk' /\ StoreInv'
  BY TtyNext, LinesNext, StoreNext
<1> QED
  BY <1>1, <1>2, StartsAsRegisters, StepsAsRegisters, PTL
     DEF Spec, SafeSpec, LinesImplementRegisters, Atomic!Spec
=============================================================================
