----------------------- MODULE CollectorManager_proofs -----------------------
(***************************************************************************)
(* Theorems about CollectorManager, for every set of devices, every number *)
(* of points and worker slots: the collectors use the store as Storage     *)
(* lets its producers use it, so all that is proved of the store holds of  *)
(* it in their hands; the cache holds what the store accepted last; each   *)
(* handles at most one reading after the cancel, and a panic needs the     *)
(* grace period to run out.                                                *)
(***************************************************************************)
EXTENDS CollectorManager, Storage_proofs

(* What a collector has in hand between its stages. *)
ColTyped ==
  /\ DOMAIN col = Producers
  /\ \A c \in Producers :
       /\ DOMAIN col[c] = {"at", "attempt", "i", "v"}
       /\ col[c].i \in Nat \ {0}
       /\ col[c].at \in {"reading", "reconnect", "retry", "value"} => col[c].i \in Points(c)
       /\ col[c].at = "value" => col[c].v \in Raw[c]

(* A call of Handle belongs to a collector that waits for it. *)
CallsAwaited == \A c \in Producers : call[c].at # "idle" => col[c].at = "sending"

(* After the cancel the readings in hand are the last. *)
Busy == {"reading", "reconnect", "retry", "value"}
LateInv ==
  /\ DOMAIN late = Producers
  /\ \A c \in Producers :
       /\ late[c] \in {0, 1}
       /\ late[c] = 1 => ctx /\ col[c].at \notin Busy

(* The store is closed by a manager that waited for all, or long enough. *)
ClosedInOrder ==
  /\ qclosed => expired \/ AllDone
  /\ PanicOnlyAfterGrace

LocalInv == ColTyped /\ CallsAwaited /\ LateInv /\ ClosedInOrder
CollectorInv == StorageInv /\ LocalInv

----------------------------------------------------------------------------
(* The collectors as producers *)

(* Every step is a step of the store or leaves it alone: a collector hands *)
(* over a reading of one of its points.                                    *)
LEMMA StoreIsUsed ==
  ASSUME ColTyped, [CollectorNext]_vars
  PROVE  [AnyStep]_storageVars
<1>1. ASSUME NEW c \in Producers, Store(c)
      PROVE  AnyStep
  <2>1. col[c].i \in Points(c) /\ col[c].v \in Raw[c]
    BY <1>1 DEF Store, At, ColTyped
  <2>2. <<c, col[c].i, col[c].v>> \in Values
    BY <2>1, CollectorAssumption DEF Readings
  <2> QED BY <1>1, <2>2 DEF Store, AnyStep
<1>2. ASSUME NEW c \in Producers, InStore(c) \/ Stored(c)
      PROVE  AnyStep
  BY <1>2 DEF InStore, Stored, AnyStep
<1>3. ASSUME NEW c \in Producers,
             \/ AcquireSlot(c) \/ GiveUpSlot(c) \/ NoHandler(c) \/ Connect(c) \/ Backoff(c)
             \/ WaitTick(c) \/ NextPoint(c) \/ ReadPoint(c) \/ Reconnect(c) \/ Suppress(c)
      PROVE  UNCHANGED storageVars
  BY <1>3 DEF AcquireSlot, GiveUpSlot, NoHandler, Connect, Backoff, WaitTick, NextPoint,
              ReadPoint, Reconnect, Suppress, Finish, BeginPoll
<1>4. CASE StoreWriter \/ Cancel \/ BeginWait \/ EndWait \/ RunReturns
  BY <1>4 DEF StoreWriter, Cancel, BeginWait, EndWait, RunReturns, AnyStep
<1>5. CASE UNCHANGED vars
  BY <1>5 DEF vars
<1> QED BY <1>1, <1>2, <1>3, <1>4, <1>5 DEF CollectorNext, Collector

----------------------------------------------------------------------------
(* Steps of one collector *)

(* It goes to a stage, with something typed in its hands.                  *)
GoesWith(c, r) ==
  /\ col' = [col EXCEPT ![c] = r]
  /\ DOMAIN r = {"at", "attempt", "i", "v"}
  /\ r.i \in Nat \ {0}
  /\ r.at \in Busy => r.i \in Points(c)
  /\ r.at = "value" => r.v \in Raw[c]

(* Its place and its hands stay typed. *)
LEMMA GoesTyped ==
  ASSUME ColTyped, NEW c \in Producers, NEW r, GoesWith(c, r)
  PROVE  /\ ColTyped'
         /\ col'[c] = r
         /\ \A d \in Producers \ {c} : col'[d] = col[d]
BY DEF ColTyped, GoesWith, Busy

(* Going to a stage that is not busy, or on to the next busy one. *)
LEMMA Goes ==
  ASSUME ColTyped, NEW c \in Producers, NEW stage, Goto(c, stage),
         stage \in Busy => col[c].i \in Points(c), stage # "value"
  PROVE  GoesWith(c, [col[c] EXCEPT !.at = stage])
BY DEF ColTyped, Goto, GoesWith

(* Starting over at a stage. *)
LEMMA Enters ==
  ASSUME NEW c \in Producers, NEW stage, Enter(c, stage), stage \notin Busy
  PROVE  GoesWith(c, [Queued EXCEPT !.at = stage])
BY DEF Enter, Queued, GoesWith, Busy

(* A move of a collector that leaves the store and the manager alone.      *)
LEMMA MoveKeeps ==
  ASSUME LocalInv, NEW c \in Producers, NEW r, GoesWith(c, r),
         col[c].at \notin {"sending", "done"},
         r.at \in Busy => late[c] = 0,
         UNCHANGED <<late, storageVars, managerVars>>
  PROVE  LocalInv'
<1>1. UNCHANGED <<late, ctx, expired, qclosed, proc, call>>
  BY DEF storageVars, chanVars, runVars, managerVars
<1>2. /\ ColTyped' /\ col'[c] = r
      /\ \A d \in Producers \ {c} : col'[d] = col[d]
  BY GoesTyped DEF LocalInv
<1>3. CallsAwaited'
  BY <1>1, <1>2 DEF LocalInv, CallsAwaited
<1>4. LateInv'
  BY <1>1, <1>2 DEF LocalInv, LateInv
<1>5. ClosedInOrder'
  BY <1>1, <1>2 DEF LocalInv, ClosedInOrder, PanicOnlyAfterGrace, AllDone
<1> QED BY <1>2, <1>3, <1>4, <1>5 DEF LocalInv

(* Slot, connect, rounds and requests. *)
LEMMA PollingKeeps ==
  ASSUME LocalInv, NEW c \in Producers,
         \/ AcquireSlot(c) \/ GiveUpSlot(c) \/ NoHandler(c) \/ Connect(c) \/ Backoff(c)
         \/ WaitTick(c) \/ NextPoint(c) \/ ReadPoint(c) \/ Reconnect(c)
  PROVE  LocalInv'
<1> DEFINE Free == UNCHANGED <<late, storageVars, managerVars>>
<1>t. ColTyped
  BY DEF LocalInv
<1>1. ASSUME NEW stage, stage \notin Busy \cup {"sending", "done"} \/ stage = "done",
             Enter(c, stage), Free, col[c].at \notin {"sending", "done"}
      PROVE  LocalInv'
  <2>1. GoesWith(c, [Queued EXCEPT !.at = stage])
    BY <1>1, Enters DEF Busy
  <2>2. [Queued EXCEPT !.at = stage].at \notin Busy
    BY <1>1 DEF Queued, Busy
  <2> QED BY <1>1, <2>1, <2>2, MoveKeeps
<1>2. ASSUME NEW stage, Goto(c, stage), Free, col[c].at \notin {"sending", "done"},
             stage \in Busy => col[c].i \in Points(c) /\ late[c] = 0, stage # "value"
      PROVE  LocalInv'
  <2>1. GoesWith(c, [col[c] EXCEPT !.at = stage])
    BY <1>1, <1>2, <1>t, Goes
  <2>2. [col[c] EXCEPT !.at = stage].at = stage
    BY <1>t DEF ColTyped
  <2> QED BY <1>2, <2>1, <2>2, MoveKeeps
<1>3. ASSUME BeginPoll(c), col[c].at \notin {"sending", "done"}
      PROVE  LocalInv'
  BY <1>1, <1>3 DEF BeginPoll, Busy
<1>4. ASSUME Finish(c), col[c].at \notin {"sending", "done"}
      PROVE  LocalInv'
  BY <1>1, <1>4 DEF Finish, Busy
<1>5. CASE AcquireSlot(c) \/ GiveUpSlot(c) \/ NoHandler(c)
  BY <1>5, <1>2, <1>4 DEF AcquireSlot, GiveUpSlot, NoHandler, At, Busy
<1>6. CASE Connect(c)
  <2>1. CASE col' = [col EXCEPT ![c].at = "backoff", ![c].attempt = col[c].attempt + 1] /\ Free
    <3> DEFINE r == [col[c] EXCEPT !.at = "backoff", !.attempt = col[c].attempt + 1]
    <3>1. GoesWith(c, r) /\ r.at = "backoff"
      BY <2>1, <1>t DEF GoesWith, ColTyped, Busy
    <3> QED BY <1>6, <2>1, <3>1, MoveKeeps DEF Connect, At, Busy
  <2> QED BY <1>6, <1>3, <1>4, <2>1 DEF Connect, At
<1>7. CASE Backoff(c) \/ WaitTick(c)
  BY <1>7, <1>2, <1>3, <1>4 DEF Backoff, WaitTick, At, Busy
<1>8. CASE NextPoint(c)
  <2>1. CASE ctx \/ col[c].i > NumPoints[c]
    BY <1>8, <2>1, <1>1 DEF NextPoint, At, Busy
  <2>2. CASE ~(ctx \/ col[c].i > NumPoints[c])
    <3>1. col[c].i \in Points(c) /\ late[c] = 0
      BY <2>2, CollectorAssumption DEF LocalInv, ColTyped, LateInv, Points
    <3> QED BY <1>8, <2>2, <3>1, <1>2 DEF NextPoint, At
  <2> QED BY <2>1, <2>2
<1>9. CASE ReadPoint(c)
  <2>1. col[c].i \in Points(c) /\ late[c] = 0
    BY <1>9 DEF ReadPoint, At, LocalInv, ColTyped, LateInv, Busy
  <2>2. ASSUME NEW raw \in Raw[c], col' = [col EXCEPT ![c].at = "value", ![c].v = raw]
        PROVE  LocalInv'
    <3> DEFINE r == [col[c] EXCEPT !.at = "value", !.v = raw]
    <3>1. GoesWith(c, r)
      BY <2>1, <2>2, <1>t DEF GoesWith, ColTyped, Busy
    <3> QED BY <1>9, <2>1, <3>1, MoveKeeps DEF ReadPoint, At
  <2> QED BY <1>9, <2>1, <2>2, <1>1, <1>2 DEF ReadPoint, At, Busy
<1>10. CASE Reconnect(c)
  <2>1. col[c].i \in Points(c) /\ late[c] = 0
    BY <1>10 DEF Reconnect, At, LocalInv, ColTyped, LateInv, Busy
  <2> QED BY <1>10, <2>1, <1>1, <1>2 DEF Reconnect, At, Busy
<1> QED BY <1>5, <1>6, <1>7, <1>8, <1>9, <1>10

(* A collector takes the last reading in hand to the handler.              *)
LEMMA LateCounted ==
  ASSUME LateInv, NEW c \in Producers, col[c].at = "value", CountLate(c), UNCHANGED ctx,
         col'[c].at \notin Busy, \A d \in Producers \ {c} : col'[d] = col[d]
  PROVE  LateInv'
<1>1. late[c] = 0
  BY DEF LateInv, Busy
<1>2. late' = [late EXCEPT ![c] = IF ctx THEN 1 ELSE 0]
  BY <1>1 DEF CountLate
<1> QED BY <1>1, <1>2 DEF LateInv

(* The handler: the cache, the call of Handle, its end. *)
LEMMA HandlerKeeps ==
  ASSUME LocalInv, StorageInv, NEW c \in Producers, Suppress(c) \/ Store(c) \/ Stored(c)
  PROVE  LocalInv'
<1> DEFINE onward == [col[c] EXCEPT !.at = "point", !.i = col[c].i + 1, !.v = NoValue]
<1>t. ColTyped /\ CallsAwaited /\ LateInv /\ ClosedInOrder /\ call \in [Producers -> CallStates]
  BY DEF LocalInv, StorageInv, TypeOK, ChannelTypeOK
<1>a. ASSUME Advance(c)
      PROVE  GoesWith(c, onward) /\ onward.at = "point"
  BY <1>a, <1>t DEF Advance, ColTyped, GoesWith, Busy
<1>1. CASE Suppress(c)
  <2>1. GoesWith(c, onward) /\ onward.at = "point" /\ col[c].at = "value"
    BY <1>1, <1>a DEF Suppress, At
  <2>2. UNCHANGED <<ctx, expired, qclosed, proc, call>> /\ CountLate(c)
    BY <1>1 DEF Suppress, storageVars, chanVars, runVars, managerVars
  <2>3. ColTyped' /\ col'[c].at = "point" /\ \A d \in Producers \ {c} : col'[d] = col[d]
    BY <1>t, <2>1, GoesTyped
  <2>4. LateInv'
    BY <1>t, <2>1, <2>2, <2>3, LateCounted DEF Busy
  <2>5. CallsAwaited' /\ ClosedInOrder'
    BY <1>t, <2>1, <2>2, <2>3 DEF CallsAwaited, ClosedInOrder, AllDone, PanicOnlyAfterGrace
  <2> QED BY <2>3, <2>4, <2>5 DEF LocalInv
<1>2. CASE Store(c)
  <2>1. GoesWith(c, [col[c] EXCEPT !.at = "sending"]) /\ col[c].at = "value"
    BY <1>2, <1>t, Goes DEF Store, At, Busy
  <2>2. ColTyped' /\ col'[c].at = "sending" /\ \A d \in Producers \ {c} : col'[d] = col[d]
    <3>1. [col[c] EXCEPT !.at = "sending"].at = "sending"
      BY <1>t DEF ColTyped
    <3> QED BY <1>t, <2>1, <3>1, GoesTyped
  <2>3. UNCHANGED <<ctx, expired>> /\ CountLate(c)
    BY <1>2 DEF Store, managerVars
  <2>4. LateInv'
    BY <1>t, <2>1, <2>2, <2>3, LateCounted DEF Busy
  <2>5. Handle(c, <<c, col[c].i, col[c].v>>)
    BY <1>2 DEF Store
  <2>6. /\ \A d \in Producers \ {c} : call'[d] = call[d]
        /\ UNCHANGED qclosed
        /\ proc' # proc => qclosed
    BY <1>t, <2>5 DEF Handle, HandleSend, HandleFull, SendOnClosed, chanVars, runVars
  <2>7. CallsAwaited' /\ ClosedInOrder'
    BY <1>t, <2>1, <2>2, <2>3, <2>6 DEF CallsAwaited, ClosedInOrder, AllDone, PanicOnlyAfterGrace
  <2> QED BY <2>2, <2>4, <2>7 DEF LocalInv
<1>3. CASE Stored(c)
  <2>1. GoesWith(c, onward) /\ onward.at = "point" /\ col[c].at = "sending"
    BY <1>3, <1>a DEF Stored, At
  <2>2. ColTyped' /\ col'[c].at = "point" /\ \A d \in Producers \ {c} : col'[d] = col[d]
    BY <1>t, <2>1, GoesTyped
  <2>3. UNCHANGED <<ctx, expired, late, qclosed, proc>> /\ call' = [call EXCEPT ![c] = Idle]
    BY <1>3 DEF Stored, Return, managerVars, runVars
  <2>4. LateInv'
    BY <1>t, <2>1, <2>2, <2>3 DEF LateInv, Busy
  <2>5. CallsAwaited' /\ ClosedInOrder'
    BY <1>t, <2>1, <2>2, <2>3
       DEF CallsAwaited, ClosedInOrder, AllDone, PanicOnlyAfterGrace, Idle
  <2> QED BY <2>2, <2>4, <2>5 DEF LocalInv
<1> QED BY <1>1, <1>2, <1>3

----------------------------------------------------------------------------
(* The store and the manager *)

(* Steps inside the store move calls in progress and nothing else here.    *)
LEMMA StoreKeeps ==
  ASSUME LocalInv, StorageInv, StoreWriter \/ \E c \in Producers : InStore(c)
  PROVE  LocalInv'
<1>t. /\ call \in [Producers -> CallStates] /\ parked \in Seq(Producers)
      /\ ParkedOnlyWhenFull
  BY DEF StorageInv, TypeOK, ChannelTypeOK, ChannelInv
<1>1. UNCHANGED <<col, late, ctx, expired, qclosed>>
  BY DEF StoreWriter, InStore, collectorVars, managerVars, HandleStep, RetrySend, Park, Timeout,
         SendOnClosed, Writer, Take, writeJSONL, writeCSV, WriteFile, writeDB, LoopEnds, Flush,
         Stop, chanVars
<1>2. CASE StoreWriter
  <2>1. UNCHANGED proc
    BY <1>2 DEF StoreWriter, Writer, Take, writeJSONL, writeCSV, WriteFile, writeDB, LoopEnds,
                Flush, Stop, runVars
  <2>2. CASE Take /\ parked # <<>>
    <3>1. Head(parked) \in Producers /\ call[Head(parked)].at = "parked"
      <4>1. 1 \in 1..Len(parked) /\ Head(parked) = parked[1] /\ parked[1] \in Producers
        BY <1>t, <2>2, LenProperties, EmptySeq, ElementOfSeq
      <4> QED BY <1>t, <4>1 DEF ParkedOnlyWhenFull
    <3>2. call' = [call EXCEPT ![Head(parked)].at = "ok"]
      BY <2>2 DEF Take, Receive
    <3>3. \A c \in Producers : call'[c].at # "idle" => call[c].at # "idle"
      BY <1>t, <3>1, <3>2
    <3> QED BY <1>1, <2>1, <3>3
            DEF LocalInv, ColTyped, CallsAwaited, LateInv, ClosedInOrder, AllDone,
                PanicOnlyAfterGrace
  <2>3. CASE UNCHANGED call
    BY <1>1, <2>1, <2>3
       DEF LocalInv, ColTyped, CallsAwaited, LateInv, ClosedInOrder, AllDone, PanicOnlyAfterGrace
  <2>4. UNCHANGED call \/ (Take /\ parked # <<>>)
    BY <1>2 DEF StoreWriter, Writer, Take, Receive, writeJSONL, writeCSV, WriteFile, writeDB,
                LoopEnds, Flush, Stop, chanVars
  <2> QED BY <2>2, <2>3, <2>4
<1>3. ASSUME NEW c \in Producers, InStore(c)
      PROVE  LocalInv'
  <2>1. call[c].at # "idle"
    <3>1. ASSUME NEW i \in 1..Len(parked), parked[i] = c
          PROVE  call[c].at = "parked"
      BY <1>t, <3>1 DEF ParkedOnlyWhenFull
    <3> QED BY <1>3, <3>1 DEF InStore, HandleStep, RetrySend, Park, Timeout
  <2>2. /\ \A d \in Producers \ {c} : call'[d] = call[d]
        /\ proc' # proc => qclosed
    BY <1>3, <1>t DEF InStore, HandleStep, RetrySend, Park, Timeout, SendOnClosed, chanVars, runVars
  <2>3. col[c].at = "sending"
    BY <2>1 DEF LocalInv, CallsAwaited
  <2> QED BY <1>1, <2>2, <2>3
          DEF LocalInv, ColTyped, CallsAwaited, LateInv, ClosedInOrder, AllDone,
              PanicOnlyAfterGrace
<1> QED BY <1>2, <1>3

(* Manager.Run: nothing closes the store but the end of the wait.          *)
LEMMA ManagerKeeps ==
  ASSUME LocalInv, StorageInv,
         Cancel \/ BeginWait \/ EndWait \/ RunReturns \/ UNCHANGED vars
  PROVE  LocalInv'
<1>t. call \in [Producers -> CallStates]
  BY DEF StorageInv, TypeOK, ChannelTypeOK
<1>1. UNCHANGED <<col, late, proc>> /\ (ctx => ctx') /\ (expired => expired')
  BY DEF Cancel, BeginWait, EndWait, RunReturns, CloseQueue, CloseReturns, vars, managerVars,
         collectorVars, storageVars, runVars
<1>2. \A c \in Producers : call'[c].at # "idle" => call[c].at # "idle"
  BY <1>t DEF Cancel, BeginWait, EndWait, RunReturns, CloseQueue, CloseReturns, vars, storageVars,
              chanVars
<1>3. qclosed' => qclosed \/ expired' \/ AllDone
  BY DEF Cancel, BeginWait, EndWait, RunReturns, CloseQueue, CloseReturns, vars, storageVars,
         chanVars
<1> QED BY <1>1, <1>2, <1>3
        DEF LocalInv, ColTyped, CallsAwaited, LateInv, ClosedInOrder, AllDone, PanicOnlyAfterGrace

----------------------------------------------------------------------------
(* The cache *)

(* A collector in the handler offers its reading under its key; once the    *)
(* store has it, it is the newest under that key, and the cached value is   *)
(* the one before.                                                          *)
Offered(c) == <<c, col[c].i, col[c].v>>
Sent(c) == col[c].at = "sending" /\ call[c].at = "ok"
OfferInv ==
  \A c \in Producers :
    /\ col[c].at = "sending" => col[c].i \in Points(c) /\ Offered(c) \in Readings
    /\ call[c].at # "idle" => call[c].v = Offered(c)
    /\ \A k : Sent(c) /\ KeyInHand(c) = k =>
              AcceptedOf(c, k) # <<>> /\ LastAccepted(c, k) = col[c].v
CacheShaped ==
  /\ DOMAIN cache = Producers
  /\ \A c \in Producers : DOMAIN cache[c] = Points(c)
CachedIsLast ==
  \A c \in Producers : \A k \in Points(c) :
    cache[c][k] # NoValue =>
      /\ AcceptedOf(c, k) # <<>>
      /\ cache[c][k] = LastAccepted(c, k) \/ (Sent(c) /\ KeyInHand(c) = k)

CacheInv == OfferInv /\ CacheShaped /\ CachedIsLast

(* What a step leaves in the cache was there before. *)
NothingCached ==
  /\ CacheShaped'
  /\ \A c \in Producers : \A k \in Points(c) :
       cache'[c][k] # NoValue => cache'[c][k] = cache[c][k]

(* A point has the key of a point that is not after it. *)
LEMMA KeyIsPoint ==
  ASSUME NEW c \in Producers, NEW i \in Points(c)
  PROVE  Key[c][i] \in Points(c)
<1>1. NumPoints[c] \in Nat /\ Key[c][i] \in 1..i
  BY CollectorAssumption
<1> QED BY <1>1 DEF Points

(* A lookup may delete an outlived entry and does nothing else.             *)
LEMMA LookupKeeps ==
  ASSUME CacheShaped, NEW c \in Producers, NEW k \in Points(c), NEW v, GetValue(c, k, v)
  PROVE  NothingCached
BY DEF CacheShaped, NothingCached, GetValue

(* One more reading is the newest under its own key, and changes no other.  *)
LEMMA AcceptOne ==
  ASSUME accepted \in Seq(Values), NEW c \in Producers, NEW i \in Points(c), NEW v,
         <<c, i, v>> \in Readings, accepted' = Append(accepted, <<c, i, v>>)
  PROVE  /\ AcceptedOf(c, Key[c][i])' # <<>> /\ LastAccepted(c, Key[c][i])' = v
         /\ \A d \in Producers : \A k : d # c \/ k # Key[c][i] => AcceptedOf(d, k)' = AcceptedOf(d, k)
<1> DEFINE r == <<c, i, v>>
<1>1. r \in Values
  BY CollectorAssumption
<1>2. ASSUME NEW d \in Producers, NEW k
      PROVE  AcceptedOf(d, k)' = IF d = c /\ k = Key[c][i] THEN Append(AcceptedOf(d, k), r)
                                 ELSE AcceptedOf(d, k)
  <2>1. r \in ReadingsOf(d, k) <=> d = c /\ k = Key[c][i]
    BY DEF ReadingsOf
  <2> DEFINE S == ReadingsOf(d, k)
  <2> HIDE DEF r, S
  <2>2. Among(Append(accepted, r), S) = IF r \in S THEN Append(Among(accepted, S), r)
                                        ELSE Among(accepted, S)
    BY <1>1, AmongAppend
  <2> QED BY <2>1, <2>2 DEF AcceptedOf, S, r
<1> DEFINE k == Key[c][i]
           old == AcceptedOf(c, k)
           new == AcceptedOf(c, k)'
<1>3. new = Append(old, r)
  BY <1>2
<1>4. old \in Seq(Values \cap ReadingsOf(c, k))
  BY AmongType DEF AcceptedOf
<1>5. r \in Values \cap ReadingsOf(c, k)
  BY <1>1 DEF ReadingsOf
<1>6. new # <<>> /\ new[Len(new)] = r
  <2> DEFINE V == Values \cap ReadingsOf(c, k)
  <2> HIDE DEF V, old, new, r
  <2>1. /\ Len(Append(old, r)) = Len(old) + 1 /\ Append(old, r)[Len(old) + 1] = r
        /\ Append(old, r) # <<>>
    BY <1>4, <1>5, AppendProperties DEF V
  <2> QED BY <1>3, <2>1
<1>7. AcceptedOf(c, Key[c][i])' # <<>> /\ LastAccepted(c, Key[c][i])' = v
  <2>1. LastAccepted(c, Key[c][i])' = new[Len(new)][3]
    BY DEF LastAccepted
  <2> QED BY <1>6, <2>1
<1> QED BY <1>2, <1>7

(* A collector moves while nothing is accepted: what it leaves in the cache *)
(* is what was there, or the newest under its key.                         *)
LEMMA CacheMoves ==
  ASSUME CacheInv, NEW c \in Producers, UNCHANGED accepted,
         \A d \in Producers \ {c} : col'[d] = col[d] /\ call'[d] = call[d],
         ~Sent(c)', CacheShaped',
         col'[c].at = "sending" => col'[c].i \in Points(c) /\ Offered(c)' \in Readings,
         call'[c].at # "idle" => call'[c].v = Offered(c)',
         \A d \in Producers : \A k \in Points(d) : cache'[d][k] # NoValue =>
           \/ cache'[d][k] = cache[d][k] /\ (d = c => ~(Sent(c) /\ KeyInHand(c) = k))
           \/ AcceptedOf(d, k) # <<>> /\ cache'[d][k] = LastAccepted(d, k)
  PROVE  CacheInv'
<1>1. \A d, k : AcceptedOf(d, k)' = AcceptedOf(d, k) /\ LastAccepted(d, k)' = LastAccepted(d, k)
  BY DEF AcceptedOf, LastAccepted
<1>2. \A d \in Producers \ {c} : /\ Sent(d)' <=> Sent(d)
                                 /\ KeyInHand(d)' = KeyInHand(d) /\ Offered(d)' = Offered(d)
  BY DEF Sent, KeyInHand, Offered
<1>3. OfferInv'
  <2> SUFFICES ASSUME NEW d \in Producers
               PROVE  /\ col'[d].at = "sending" => col'[d].i \in Points(d) /\ Offered(d)' \in Readings
                      /\ call'[d].at # "idle" => call'[d].v = Offered(d)'
                      /\ \A k : Sent(d)' /\ KeyInHand(d)' = k =>
                                AcceptedOf(d, k)' # <<>> /\ LastAccepted(d, k)' = col'[d].v
    BY DEF OfferInv
  <2>1. CASE d = c
    BY <2>1
  <2>2. CASE d # c
    <3>1. /\ col[d].at = "sending" => col[d].i \in Points(d) /\ Offered(d) \in Readings
          /\ call[d].at # "idle" => call[d].v = Offered(d)
          /\ \A k : Sent(d) /\ KeyInHand(d) = k =>
                    AcceptedOf(d, k) # <<>> /\ LastAccepted(d, k) = col[d].v
      BY DEF CacheInv, OfferInv
    <3> QED BY <1>1, <1>2, <2>2, <3>1
  <2> QED BY <2>1, <2>2
<1>4. CachedIsLast'
  <2> SUFFICES ASSUME NEW d \in Producers, NEW k \in Points(d), cache'[d][k] # NoValue
               PROVE  /\ AcceptedOf(d, k) # <<>>
                      /\ \/ cache'[d][k] = LastAccepted(d, k)
                         \/ Sent(d)' /\ KeyInHand(d)' = k
    BY <1>1 DEF CachedIsLast
  <2>1. CASE cache'[d][k] = cache[d][k] /\ (d = c => ~(Sent(c) /\ KeyInHand(c) = k))
    <3>1. /\ AcceptedOf(d, k) # <<>>
          /\ cache[d][k] = LastAccepted(d, k) \/ (Sent(d) /\ KeyInHand(d) = k)
      BY <2>1 DEF CacheInv, CachedIsLast
    <3> QED BY <1>2, <2>1, <3>1
  <2> QED BY <2>1
<1> QED BY <1>3, <1>4 DEF CacheInv

(* Inside the store calls move on, without a reading being accepted.        *)
LEMMA CacheWaits ==
  ASSUME CacheInv, UNCHANGED <<accepted, cache, col>>,
         \A d \in Producers : /\ call'[d].at # "idle" => call[d].at # "idle" /\ call'[d].v = call[d].v
                              /\ call'[d].at = "ok" <=> call[d].at = "ok"
  PROVE  CacheInv'
<1>1. \A d, k : AcceptedOf(d, k)' = AcceptedOf(d, k) /\ LastAccepted(d, k)' = LastAccepted(d, k)
  BY DEF AcceptedOf, LastAccepted
<1>2. \A d \in Producers : /\ Sent(d)' <=> Sent(d)
                           /\ KeyInHand(d)' = KeyInHand(d) /\ Offered(d)' = Offered(d)
  BY DEF Sent, KeyInHand, Offered
<1>3. OfferInv'
  <2> SUFFICES ASSUME NEW d \in Producers
               PROVE  /\ col[d].at = "sending" => col[d].i \in Points(d) /\ Offered(d) \in Readings
                      /\ call'[d].at # "idle" => call'[d].v = Offered(d)
                      /\ \A k : Sent(d) /\ KeyInHand(d) = k =>
                                AcceptedOf(d, k) # <<>> /\ LastAccepted(d, k) = col[d].v
    BY <1>1, <1>2 DEF OfferInv
  <2> QED BY DEF CacheInv, OfferInv
<1>4. CachedIsLast'
  <2> SUFFICES ASSUME NEW d \in Producers, NEW k \in Points(d), cache[d][k] # NoValue
               PROVE  /\ AcceptedOf(d, k) # <<>>
                      /\ cache[d][k] = LastAccepted(d, k) \/ (Sent(d) /\ KeyInHand(d) = k)
    BY <1>1, <1>2 DEF CachedIsLast
  <2> QED BY DEF CacheInv, CachedIsLast
<1> QED BY <1>3, <1>4 DEF CacheInv, CacheShaped

(* A reading is accepted: until the collector has the answer, the cached    *)
(* value under its key is the one before the newest.                       *)
LEMMA CacheBehind ==
  ASSUME CacheInv, accepted \in Seq(Values), NEW c \in Producers, ~Sent(c),
         col'[c].at = "sending", col'[c].i \in Points(c), Offered(c)' \in Readings,
         accepted' = Append(accepted, Offered(c)'), call'[c].at = "ok", call'[c].v = Offered(c)',
         \A d \in Producers \ {c} : col'[d] = col[d] /\ call'[d] = call[d],
         NothingCached
  PROVE  CacheInv'
<1>0. PICK i, v : i = col'[c].i /\ v = col'[c].v
  OBVIOUS
<1>1. /\ AcceptedOf(c, Key[c][i])' # <<>> /\ LastAccepted(c, Key[c][i])' = v
      /\ \A d \in Producers : \A k : d # c \/ k # Key[c][i] => AcceptedOf(d, k)' = AcceptedOf(d, k)
  <2>1. i \in Points(c) /\ <<c, i, v>> \in Readings /\ accepted' = Append(accepted, <<c, i, v>>)
    BY <1>0 DEF Offered
  <2> QED BY <2>1, AcceptOne
<1>2. KeyInHand(c)' = Key[c][i] /\ Sent(c)'
  BY <1>0 DEF KeyInHand, Sent
<1>3. \A d \in Producers \ {c} : /\ Sent(d)' <=> Sent(d)
                                 /\ KeyInHand(d)' = KeyInHand(d) /\ Offered(d)' = Offered(d)
  BY DEF Sent, KeyInHand, Offered
<1>4. \A d \in Producers : \A k : d # c \/ k # Key[c][i] => LastAccepted(d, k)' = LastAccepted(d, k)
  BY <1>1 DEF LastAccepted
<1>5. OfferInv'
  <2> SUFFICES ASSUME NEW d \in Producers
               PROVE  /\ col'[d].at = "sending" => col'[d].i \in Points(d) /\ Offered(d)' \in Readings
                      /\ call'[d].at # "idle" => call'[d].v = Offered(d)'
                      /\ \A k : Sent(d)' /\ KeyInHand(d)' = k =>
                                AcceptedOf(d, k)' # <<>> /\ LastAccepted(d, k)' = col'[d].v
    BY DEF OfferInv
  <2>1. CASE d = c
    BY <1>0, <1>1, <1>2, <2>1
  <2>2. CASE d # c
    <3>1. /\ col[d].at = "sending" => col[d].i \in Points(d) /\ Offered(d) \in Readings
          /\ call[d].at # "idle" => call[d].v = Offered(d)
          /\ \A k : Sent(d) /\ KeyInHand(d) = k =>
                    AcceptedOf(d, k) # <<>> /\ LastAccepted(d, k) = col[d].v
      BY DEF CacheInv, OfferInv
    <3> QED BY <1>1, <1>3, <1>4, <2>2, <3>1
  <2> QED BY <2>1, <2>2
<1>6. CachedIsLast'
  <2> SUFFICES ASSUME NEW d \in Producers, NEW k \in Points(d), cache'[d][k] # NoValue
               PROVE  /\ AcceptedOf(d, k)' # <<>>
                      /\ \/ cache'[d][k] = LastAccepted(d, k)'
                         \/ Sent(d)' /\ KeyInHand(d)' = k
    BY DEF CachedIsLast
  <2>1. cache'[d][k] = cache[d][k]
    BY DEF NothingCached
  <2>2. /\ AcceptedOf(d, k) # <<>>
        /\ cache[d][k] = LastAccepted(d, k) \/ (Sent(d) /\ KeyInHand(d) = k)
    BY <2>1 DEF CacheInv, CachedIsLast
  <2>3. CASE d = c /\ k = Key[c][i]
    BY <1>1, <1>2, <2>3
  <2>4. CASE d = c /\ k # Key[c][i]
    BY <1>1, <1>4, <2>1, <2>2, <2>4
  <2>5. CASE d # c
    BY <1>1, <1>3, <1>4, <2>1, <2>2, <2>5
  <2> QED BY <2>3, <2>4, <2>5
<1> QED BY <1>5, <1>6 DEF CacheInv, NothingCached

(* Outside the handler nothing is offered and nothing cached.               *)
LEMMA PollingCaches ==
  ASSUME CacheInv, LocalInv, StorageInv, NEW c \in Producers,
         \/ AcquireSlot(c) \/ GiveUpSlot(c) \/ NoHandler(c) \/ Connect(c) \/ Backoff(c)
         \/ WaitTick(c) \/ NextPoint(c) \/ ReadPoint(c) \/ Reconnect(c) \/ Suppress(c)
  PROVE  CacheInv'
<1>1. col[c].at # "sending" /\ UNCHANGED <<accepted, call>>
  BY DEF AcquireSlot, GiveUpSlot, NoHandler, Connect, Backoff, WaitTick, NextPoint, ReadPoint,
         Reconnect, Suppress, Finish, BeginPoll, At, storageVars, chanVars
<1>2. call[c].at = "idle" /\ ~Sent(c)
  BY <1>1 DEF LocalInv, CallsAwaited, Sent
<1>3. col'[c].at # "sending" /\ \A d \in Producers \ {c} : col'[d] = col[d]
  BY DEF AcquireSlot, GiveUpSlot, NoHandler, Connect, Backoff, WaitTick, NextPoint, ReadPoint,
         Reconnect, Suppress, Finish, BeginPoll, Goto, Enter, Queued, Advance, LocalInv, ColTyped
<1>4. NothingCached
  <2>1. CASE Suppress(c)
    <3>1. KeyInHand(c) \in Points(c)
      BY <2>1, KeyIsPoint DEF Suppress, At, LocalInv, ColTyped, KeyInHand
    <3>2. PICK old \in Raw[c] : GetValue(c, KeyInHand(c), old)
      BY <2>1 DEF Suppress
    <3> QED BY <3>1, <3>2, LookupKeeps DEF CacheInv
  <2>2. CASE UNCHANGED cache
    BY <2>2 DEF NothingCached, CacheInv, CacheShaped
  <2> QED BY <2>1, <2>2 DEF AcquireSlot, GiveUpSlot, NoHandler, Connect, Backoff, WaitTick,
                            NextPoint, ReadPoint, Reconnect, Finish, BeginPoll
<1>5. ~Sent(c)'
  BY <1>3 DEF Sent
<1> QED BY <1>1, <1>2, <1>3, <1>4, <1>5, CacheMoves DEF NothingCached

(* A reading goes to the store: accepted at once, or not yet.               *)
LEMMA StoreCaches ==
  ASSUME CacheInv, LocalInv, StorageInv, NEW c \in Producers, Store(c)
  PROVE  CacheInv'
<1> DEFINE r == <<c, col[c].i, col[c].v>>
<1>t. ColTyped /\ CallsAwaited /\ call \in [Producers -> CallStates] /\ accepted \in Seq(Values)
  BY DEF LocalInv, StorageInv, TypeOK, ChannelTypeOK
<1>1. col[c].at = "value" /\ col[c].i \in Points(c) /\ col[c].v \in Raw[c] /\ r \in Readings
  <2>1. col[c].at = "value" /\ col[c].i \in Points(c) /\ col[c].v \in Raw[c]
    BY <1>t DEF Store, At, ColTyped
  <2> QED BY <2>1 DEF Readings
<1>2. call[c].at = "idle" /\ ~Sent(c)
  BY <1>t, <1>1 DEF CallsAwaited, Sent
<1>3. /\ col'[c].at = "sending" /\ col'[c].i = col[c].i /\ Offered(c)' = r
      /\ \A d \in Producers \ {c} : col'[d] = col[d]
  BY <1>t DEF Store, Goto, Offered, ColTyped
<1>4. NothingCached
  <2>1. KeyInHand(c) \in Points(c)
    BY <1>1, KeyIsPoint DEF KeyInHand
  <2>2. PICK old \in Raw[c] \cup {NoValue} : GetValue(c, KeyInHand(c), old)
    BY DEF Store
  <2> QED BY <2>1, <2>2, LookupKeeps DEF CacheInv
<1> HIDE DEF r
<1>5. Handle(c, r)
  BY DEF Store, r
<1>6. CASE HandleSend(c, r)
  <2>1. /\ accepted' = Append(accepted, r) /\ call'[c].at = "ok" /\ call'[c].v = r
        /\ \A d \in Producers \ {c} : call'[d] = call[d]
    BY <1>t, <1>6 DEF HandleSend
  <2> QED BY <1>t, <1>1, <1>2, <1>3, <1>4, <2>1, CacheBehind
<1>7. CASE HandleFull(c, r) \/ SendOnClosed(c)
  <2>1. /\ UNCHANGED accepted /\ call'[c].at # "ok" /\ (call'[c].at # "idle" => call'[c].v = r)
        /\ \A d \in Producers \ {c} : call'[d] = call[d]
    BY <1>t, <1>2, <1>7 DEF HandleFull, SendOnClosed, chanVars
  <2>2. ~Sent(c)'
    BY <2>1 DEF Sent
  <2> QED BY <1>1, <1>2, <1>3, <1>4, <2>1, <2>2, CacheMoves DEF NothingCached
<1> QED BY <1>5, <1>6, <1>7 DEF Handle

(* The answer: the newest value takes its place in the cache, and one that *)
(* was dropped leaves the cache as it was.                                 *)
LEMMA StoredCaches ==
  ASSUME CacheInv, LocalInv, StorageInv, NEW c \in Producers, Stored(c)
  PROVE  CacheInv'
<1>t. ColTyped /\ call \in [Producers -> CallStates]
  BY DEF LocalInv, StorageInv, TypeOK, ChannelTypeOK
<1>1. /\ col[c].at = "sending" /\ col'[c].at = "point" /\ UNCHANGED accepted
      /\ \A d \in Producers \ {c} : col'[d] = col[d]
  BY <1>t DEF Stored, At, Advance, Return, ColTyped
<1>2. call'[c].at = "idle" /\ \A d \in Producers \ {c} : call'[d] = call[d]
  BY <1>t DEF Stored, Return, Idle
<1>3. ~Sent(c)'
  BY <1>1 DEF Sent
<1>4. col[c].i \in Points(c)
  BY <1>1 DEF CacheInv, OfferInv
<1>5. CASE call[c].at = "ok" /\ SetValue(c, col[c].v)
  <2>1. PICK key \in Points(c) : key = KeyInHand(c)
    BY <1>4, KeyIsPoint DEF KeyInHand
  <2>2. AcceptedOf(c, key) # <<>> /\ LastAccepted(c, key) = col[c].v
    BY <1>1, <1>5, <2>1 DEF CacheInv, OfferInv, Sent
  <2>3. cache' = [cache EXCEPT ![c][key] = col[c].v]
    BY <1>5, <2>1 DEF SetValue
  <2>4. CacheShaped'
    BY <2>1, <2>3 DEF CacheInv, CacheShaped
  <2>5. ASSUME NEW d \in Producers, NEW k \in Points(d)
        PROVE  cache'[d][k] = IF d = c /\ k = key THEN col[c].v ELSE cache[d][k]
    BY <2>1, <2>3 DEF CacheInv, CacheShaped
  <2> QED BY <1>1, <1>2, <1>3, <2>1, <2>2, <2>4, <2>5, CacheMoves
<1>6. CASE call[c].at = "dropped" /\ UNCHANGED cache
  <2>1. ~Sent(c) /\ CacheShaped'
    BY <1>6 DEF Sent, CacheInv, CacheShaped
  <2> QED BY <1>1, <1>2, <1>3, <1>6, <2>1, CacheMoves
<1> QED BY <1>5, <1>6 DEF Stored

(* A reading that waits keeps waiting, or is accepted as it was offered.    *)
LEMMA WaitingCaches ==
  ASSUME CacheInv, LocalInv, StorageInv, NEW c \in Producers, UNCHANGED <<cache, col>>,
         call[c].at \in {"full", "parked"}, accepted' = Append(accepted, call[c].v),
         call' = [call EXCEPT ![c].at = "ok"]
  PROVE  CacheInv'
<1>t. /\ CallsAwaited /\ call \in [Producers -> CallStates] /\ accepted \in Seq(Values)
  BY DEF LocalInv, StorageInv, TypeOK, ChannelTypeOK
<1>1. col[c].at = "sending" /\ ~Sent(c)
  BY <1>t DEF CallsAwaited, Sent
<1>2. col[c].i \in Points(c) /\ Offered(c) \in Readings /\ call[c].v = Offered(c)
  BY <1>1 DEF CacheInv, OfferInv
<1>3. Offered(c)' = Offered(c)
  BY DEF Offered
<1>4. /\ call'[c].at = "ok" /\ call'[c].v = call[c].v
      /\ \A d \in Producers \ {c} : call'[d] = call[d]
  BY <1>t DEF CallStates
<1>5. NothingCached
  BY DEF NothingCached, CacheInv, CacheShaped
<1> QED BY <1>t, <1>1, <1>2, <1>3, <1>4, <1>5, CacheBehind

(* The steps inside the store and those of the manager. *)
LEMMA InsideCaches ==
  ASSUME CacheInv, LocalInv, StorageInv,
         \/ \E c \in Producers : InStore(c)
         \/ StoreWriter \/ Cancel \/ BeginWait \/ EndWait \/ RunReturns \/ UNCHANGED vars
  PROVE  CacheInv'
<1>t. /\ call \in [Producers -> CallStates] /\ parked \in Seq(Producers) /\ ParkedOnlyWhenFull
  BY DEF StorageInv, TypeOK, ChannelTypeOK, ChannelInv
<1>1. UNCHANGED <<cache, col>>
  BY DEF InStore, StoreWriter, Cancel, BeginWait, EndWait, RunReturns, vars, collectorVars
<1>2. ASSUME NEW c \in Producers, InStore(c)
      PROVE  CacheInv'
  <2>1. CASE RetrySend(c)
    BY <1>1, <2>1, WaitingCaches DEF RetrySend
  <2>2. CASE Park(c) \/ Timeout(c) \/ SendOnClosed(c)
    <3>1. ASSUME Timeout(c) PROVE call[c].at \in {"full", "parked"}
      <4>1. ASSUME NEW i \in 1..Len(parked), parked[i] = c
            PROVE  call[c].at = "parked"
        BY <1>t, <4>1 DEF ParkedOnlyWhenFull
      <4> QED BY <3>1, <4>1 DEF Timeout
    <3>2. UNCHANGED accepted
      BY <2>2 DEF Park, Timeout, SendOnClosed, chanVars
    <3>3. \A d \in Producers :
            /\ call'[d].at # "idle" => call[d].at # "idle" /\ call'[d].v = call[d].v
            /\ call'[d].at = "ok" <=> call[d].at = "ok"
      <4>1. CASE Park(c)
        BY <1>t, <4>1 DEF Park, CallStates
      <4>2. CASE Timeout(c)
        <5>1. call' = [call EXCEPT ![c].at = "dropped"]
          BY <4>2 DEF Timeout
        <5> QED BY <1>t, <3>1, <4>2, <5>1 DEF CallStates
      <4>3. CASE SendOnClosed(c)
        BY <4>3 DEF SendOnClosed, chanVars
      <4> QED BY <2>2, <4>1, <4>2, <4>3
    <3> QED BY <1>1, <3>2, <3>3, CacheWaits
  <2> QED BY <1>2, <2>1, <2>2 DEF InStore, HandleStep
<1>3. CASE StoreWriter
  <2>1. CASE Take /\ parked # <<>>
    <3>1. PICK p \in Producers : p = Head(parked) /\ call[p].at = "parked"
      <4>1. 1 \in 1..Len(parked) /\ Head(parked) = parked[1] /\ parked[1] \in Producers
        BY <1>t, <2>1, LenProperties, EmptySeq, ElementOfSeq
      <4> QED BY <1>t, <4>1 DEF ParkedOnlyWhenFull
    <3>2. accepted' = Append(accepted, call[p].v) /\ call' = [call EXCEPT ![p].at = "ok"]
      BY <2>1, <3>1 DEF Take, Receive
    <3> QED BY <1>1, <3>1, <3>2, WaitingCaches
  <2>2. CASE UNCHANGED <<call, accepted>>
    BY <1>1, <2>2, CacheWaits
  <2> QED BY <1>3, <2>1, <2>2
          DEF StoreWriter, Writer, Take, Receive, writeJSONL, writeCSV, WriteFile, writeDB,
              LoopEnds, Flush, Stop, chanVars
<1>4. CASE EndWait
  <2>1. UNCHANGED accepted
    BY <1>4 DEF EndWait, CloseQueue
  <2>2. \A d \in Producers :
          /\ call'[d].at # "idle" => call[d].at # "idle" /\ call'[d].v = call[d].v
          /\ call'[d].at = "ok" <=> call[d].at = "ok"
    BY <1>t, <1>4 DEF EndWait, CloseQueue, CallStates
  <2> QED BY <1>1, <2>1, <2>2, CacheWaits
<1>5. CASE Cancel \/ BeginWait \/ RunReturns \/ UNCHANGED vars
  <2>1. UNCHANGED <<call, accepted>>
    BY <1>5 DEF Cancel, BeginWait, RunReturns, CloseReturns, vars, storageVars, chanVars
  <2> QED BY <1>1, <2>1, CacheWaits
<1> QED BY <1>2, <1>3, <1>4, <1>5

(* A reading is left out only by Suppress, when the cached value, which is  *)
(* then the newest accepted, is near it.                                   *)
LEMMA LeftOutWhenNear ==
  ASSUME CacheInv, LocalInv, [CollectorNext]_vars, NEW c \in Producers,
         col[c].at = "value", col'[c].at = "point"
  PROVE  /\ AcceptedOf(c, KeyInHand(c)) # <<>>
         /\ Near(LastAccepted(c, KeyInHand(c)), col[c].v)
<1>t. ColTyped
  BY DEF LocalInv
<1>1. Suppress(c)
  <2>1. ASSUME NEW d \in Producers, d # c, Collector(d)
        PROVE  col'[c] = col[c]
    BY <1>t, <2>1 DEF Collector, AcquireSlot, GiveUpSlot, NoHandler, Connect, Backoff, WaitTick,
       NextPoint, ReadPoint, Reconnect, Suppress, Finish, BeginPoll, Goto, Enter, Advance, Store,
       InStore, Stored, collectorVars, ColTyped
  <2>2. Collector(c)
    BY <2>1 DEF CollectorNext, StoreWriter, Cancel, BeginWait, EndWait, RunReturns, vars,
                collectorVars
  <2>3. ASSUME Store(c)
        PROVE  col'[c].at = "sending"
    BY <1>t, <2>3 DEF Store, Goto, ColTyped
  <2> QED BY <2>2, <2>3 DEF Collector, AcquireSlot, GiveUpSlot, NoHandler, Connect, Backoff,
             WaitTick, NextPoint, ReadPoint, Reconnect, InStore, Stored, At, collectorVars
<1>2. PICK k \in Points(c) : k = KeyInHand(c)
  BY <1>1, KeyIsPoint DEF Suppress, At, LocalInv, ColTyped, KeyInHand
<1>3. cache[c][k] # NoValue /\ Near(cache[c][k], col[c].v)
  BY <1>1, <1>2 DEF Suppress, GetValue, FloatsEqual
<1>4. AcceptedOf(c, k) # <<>> /\ cache[c][k] = LastAccepted(c, k)
  BY <1>3 DEF CacheInv, CachedIsLast, Sent
<1> QED BY <1>2, <1>3, <1>4

----------------------------------------------------------------------------
(* Theorems *)

(* At first nobody has begun. *)
LEMMA CollectorInitially == CollectorInit => CollectorInv
<1> SUFFICES ASSUME CollectorInit PROVE CollectorInv
  OBVIOUS
<1>1. StorageInv
  BY InvInit DEF CollectorInit
<1>2. ColTyped /\ CallsAwaited /\ LateInv /\ ClosedInOrder
  BY DEF CollectorInit, Init, Queued, Idle, ColTyped, CallsAwaited, LateInv, ClosedInOrder,
         PanicOnlyAfterGrace, Busy
<1> QED BY <1>1, <1>2 DEF CollectorInv, LocalInv

(* Every step of the composition keeps both invariants. *)
LEMMA CollectorKeeps == CollectorInv /\ [CollectorNext]_vars => CollectorInv'
<1> SUFFICES ASSUME CollectorInv, [CollectorNext]_vars PROVE CollectorInv'
  OBVIOUS
<1>1. StorageInv'
  BY StoreIsUsed, InvNext DEF CollectorInv, LocalInv
<1>2. LocalInv'
  BY PollingKeeps, HandlerKeeps, StoreKeeps, ManagerKeeps
     DEF CollectorInv, CollectorNext, Collector
<1> QED BY <1>1, <1>2 DEF CollectorInv

(* What is proved of the store holds of it in the hands of the collectors, *)
(* which call Handle as often as they like: the channel is a FIFO, and     *)
(* when Close has returned the writer has taken all it accepted.           *)
THEOREM CollectorsKeepStore == CollectorSpec => [](Fifo /\ Drained)
<1>1. CollectorInv => Fifo /\ Drained
  BY InvDrained DEF CollectorInv, StorageInv, ChannelInv
<1> QED BY <1>1, CollectorInitially, CollectorKeeps, PTL DEF CollectorSpec

(* After the cancel a collector hands over the reading it has and no other, *)
(* because pollOnce looks at the context before each point.                *)
THEOREM OneMoreReading == CollectorSpec => []OneReadingAfterCancel
<1>1. CollectorInv => OneReadingAfterCancel
  BY DEF CollectorInv, LocalInv, LateInv, OneReadingAfterCancel
<1> QED BY <1>1, CollectorInitially, CollectorKeeps, PTL DEF CollectorSpec

(* Manager.Run closes the store when no collector is left or the grace     *)
(* period is over, so only then can a send on the closed channel be.       *)
THEOREM PanicNeedsGrace == CollectorSpec => []PanicOnlyAfterGrace
<1>1. CollectorInv => PanicOnlyAfterGrace
  BY DEF CollectorInv, LocalInv, ClosedInOrder
<1> QED BY <1>1, CollectorInitially, CollectorKeeps, PTL DEF CollectorSpec

(* Run returns behind Close, which is never undone. *)
Returned == mgr = "returned" => closer = "closed"

(* Only RunReturns returns, and only Restart, which is the next process,   *)
(* opens a store again.                                                    *)
LEMMA ReturnedNext == Returned /\ [CollectorNext]_vars => Returned'
<1> SUFFICES ASSUME Returned, [CollectorNext]_vars PROVE Returned'
  OBVIOUS
<1>1. ASSUME NEW c \in Producers, Collector(c)
      PROVE  UNCHANGED <<mgr, closer>>
  BY <1>1 DEF Collector, AcquireSlot, GiveUpSlot, NoHandler, Connect, Backoff, WaitTick, NextPoint,
     ReadPoint, Reconnect, Suppress, Finish, BeginPoll, Store, InStore, Stored, Handle, HandleStep,
     Return, HandleSend, HandleFull, RetrySend, Park, Timeout, SendOnClosed, storageVars, runVars,
     managerVars
<1>2. CASE StoreWriter
  BY <1>2 DEF Returned, StoreWriter, managerVars, Writer, Take, writeJSONL, writeCSV, WriteFile,
     writeDB, LoopEnds, Flush, Stop, runVars
<1>3. CASE Cancel \/ BeginWait \/ EndWait \/ RunReturns \/ UNCHANGED vars
  BY <1>3 DEF Returned, Cancel, BeginWait, EndWait, RunReturns, CloseQueue, CloseReturns, vars,
     managerVars, storageVars, runVars
<1> QED BY <1>1, <1>2, <1>3 DEF CollectorNext, Returned

(* An orderly shutdown: when Run has returned within the grace period no   *)
(* collector is left and the writer has taken every reading accepted from  *)
(* any of them.                                                            *)
THEOREM OrderlyReturn ==
  CollectorSpec => [](mgr = "returned" /\ ~expired => AllDone /\ taken = accepted)
<1>1. CollectorInit => Returned
  BY DEF CollectorInit, Returned
<1>2. CollectorInv /\ Returned => (mgr = "returned" /\ ~expired => AllDone /\ taken = accepted)
  BY InvDrained
     DEF Returned, Drained, CollectorInv, LocalInv, ClosedInOrder, StorageInv, ChannelInv,
         ParkedOnlyWhenFull
<1> QED BY <1>1, <1>2, CollectorInitially, CollectorKeeps, ReturnedNext, PTL DEF CollectorSpec

----------------------------------------------------------------------------
(* Theorems of the cache *)

(* At first nothing is cached and nothing offered. *)
LEMMA CacheInitially == CollectorInit => CacheInv
<1> SUFFICES ASSUME CollectorInit PROVE CacheInv
  OBVIOUS
<1> QED BY DEF CollectorInit, Init, Queued, Idle, CacheInv, OfferInv, CacheShaped, CachedIsLast,
               Sent

(* Every step of the composition keeps what the cache says. *)
LEMMA CacheKeeps == CollectorInv /\ CacheInv /\ [CollectorNext]_vars => CacheInv'
<1> SUFFICES ASSUME CollectorInv, CacheInv, [CollectorNext]_vars PROVE CacheInv'
  OBVIOUS
<1> QED BY PollingCaches, StoreCaches, StoredCaches, InsideCaches
           DEF CollectorInv, CollectorNext, Collector

(* The cache holds the newest value accepted under each key, whichever      *)
(* points share it and whatever was suppressed, dropped or forgotten since; *)
(* only while a collector is in Storage.Handle may it be one behind.       *)
THEOREM CacheIsNewest == CollectorSpec => []CacheIsLastAccepted
<1>1. CacheInv => CacheIsLastAccepted
  BY DEF CacheInv, CachedIsLast, Sent, CacheIsLastAccepted
<1> QED BY <1>1, CollectorInitially, CacheInitially, CollectorKeeps, CacheKeeps, PTL
           DEF CollectorSpec

(* A reading the handler leaves out is near the last value that the store   *)
(* accepted under its key: readings that drift cannot slip away in steps   *)
(* each too small to be stored.                                            *)
THEOREM ChangesAreStored == CollectorSpec => NeverLeftOutWhenChanged
<1>1. CollectorInv /\ CacheInv /\ [CollectorNext]_vars => [\A c \in Producers : ~LeftOut(c)]_vars
  BY LeftOutWhenNear DEF LeftOut, CollectorInv
<1> QED BY <1>1, CollectorInitially, CacheInitially, CollectorKeeps, CacheKeeps, PTL
           DEF CollectorSpec, NeverLeftOutWhenChanged

----------------------------------------------------------------------------
(* Theorems of what the collectors leave on disk *)

(* The outputs hold what the store's invariant says, since the collectors  *)
(* use it as one more kind of producer.                                    *)
LEMMA CollectorsContents ==
  CollectorSpec => [](CollectorInv /\ ContentsInv)
<1>1. CollectorInit => ContentsInv
  BY ContentsInit DEF CollectorInit
<1>2. CollectorInv /\ ContentsInv /\ [CollectorNext]_vars => ContentsInv'
  <2> SUFFICES ASSUME CollectorInv, ContentsInv, [CollectorNext]_vars PROVE ContentsInv'
    OBVIOUS
  <2> QED BY StoreIsUsed, ContentsNext DEF CollectorInv, LocalInv
<1> QED BY <1>1, <1>2, CollectorInitially, CollectorKeeps, PTL DEF CollectorSpec

(* When Run returns within the grace period no collector is left, and every *)
(* output without a failed write holds, behind what it held before, all    *)
(* the readings accepted from any of them.                                 *)
THEOREM AllStoredAtReturn == CollectorSpec => []ReturnedMeansStored
<1>1. CollectorInit => Returned
  BY DEF CollectorInit, Returned
<1>2. CollectorInv /\ ContentsInv /\ Returned => ReturnedMeansStored
  <2> SUFFICES ASSUME CollectorInv, ContentsInv, Returned, mgr = "returned", ~expired
               PROVE  /\ AllDone
                      /\ \A s \in Sinks \ failed : disk[s] = base[s] \o Image(s, Kept(s, accepted))
    BY DEF ReturnedMeansStored
  <2>1. closer = "closed"
    BY DEF Returned
  <2>2. qclosed
    BY <2>1 DEF CollectorInv, StorageInv, ChannelInv, ParkedOnlyWhenFull
  <2>3. AllDone
    BY <2>2 DEF CollectorInv, LocalInv, ClosedInOrder
  <2> QED BY <2>1, <2>3, InvCloseLosesNothing DEF CollectorInv, CloseLosesNothing
<1> QED BY <1>1, <1>2, CollectorInitially, CollectorKeeps, CollectorsContents, ReturnedNext, PTL
           DEF CollectorSpec

(* Whatever the collectors do and wherever they are killed, an output       *)
(* without a failed write lacks at most the queue, the reading in the      *)
(* writer's hands and one buffer, and together they are a write-behind log *)
(* to anyone who reads the outputs.                                        *)
THEOREM CollectorsWriteALog == CollectorSpec => []BoundedLoss /\ ImplementsLog
<1>1. CollectorInv /\ ContentsInv => BoundedLoss
  BY InvBoundedLoss DEF CollectorInv
<1>2. CollectorInit => Log!Init
  BY LogInit DEF CollectorInit
<1>3. CollectorInv /\ ContentsInv /\ (CollectorInv /\ ContentsInv)' /\ [CollectorNext]_vars
      => [Log!Next]_Log!vars
  <2> SUFFICES ASSUME CollectorInv, ContentsInv, CollectorInv', ContentsInv', [CollectorNext]_vars
               PROVE  [Log!Next]_Log!vars
    OBVIOUS
  <2> QED BY StoreIsUsed, LogNext DEF CollectorInv, LocalInv
<1> QED BY <1>1, <1>2, <1>3, CollectorsContents, PTL
           DEF CollectorSpec, ImplementsLog, Log!Spec

============================================================================
