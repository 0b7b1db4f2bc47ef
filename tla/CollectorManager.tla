-------------------------- MODULE CollectorManager --------------------------
(***************************************************************************)
(* internal/collector/manager.go and client.go, over the store of          *)
(* storage.go: Manager.Run starts one collector goroutine per device, each *)
(* waits for a worker slot, connects, polls its points in turn and hands   *)
(* every reading to a handler that drops readings near the cached one      *)
(* (internal/utils/cache.go) and gives the others to Storage.Handle.  When *)
(* the context is cancelled the manager waits for the collectors, for at   *)
(* most five seconds, and closes the store.                                *)
(*                                                                         *)
(* The collectors are the Producers of Storage, and its Values are the     *)
(* readings <<collector, point, raw>>.  Requests to a device succeed or    *)
(* fail, with any value, each time.                                        *)
(***************************************************************************)
EXTENDS Storage

CONSTANTS
  NumPoints,     \* how many points each device has
  Key,           \* the first point of the device with the same cache key
  Raw,           \* what the points of each device may read as
  Near(_, _),    \* utils.FloatsEqual on raw values
  MaxWorkers,    \* worker slots: capacity of the channel sem
  RetryCount,    \* extra attempts of the initial connect to each device
  MaxPolls       \* bound: poll rounds of each collector

Points(c) == 1..NumPoints[c]
Readings == UNION { {c} \X Points(c) \X Raw[c] : c \in Producers }

ASSUME CollectorAssumption ==
  /\ Values = Readings
  /\ Key \in [Producers -> Seq(Nat)]
  /\ \A c \in Producers : Len(Key[c]) = NumPoints[c] /\ \A i \in Points(c) : Key[c][i] \in 1..i
  /\ NumPoints \in [Producers -> Nat \ {0}] /\ MaxPolls \in [Producers -> Nat \ {0}]
  /\ MaxWorkers \in Nat \ {0} /\ RetryCount \in [Producers -> Nat]

VARIABLES
  ctx,       \* the context is cancelled
  mgr,       \* Manager.Run: "running", "waiting", "closing", "returned"
  expired,   \* the five-second grace timer ended the wait
  sem,       \* tokens in the channel sem
  col,       \* each collector: where it is, connect attempt, point, reading
  polls,     \* poll rounds begun by each collector
  cache,     \* ValueCache: the value kept under each key, if any
  late       \* history: readings each collector handled after the cancel

managerVars == <<ctx, mgr, expired>>
collectorVars == <<sem, col, polls, cache, late>>
vars == <<storageVars, managerVars, collectorVars>>

Queued == [at |-> "queued", attempt |-> 0, i |-> 1, v |-> NoValue]

CollectorInit ==
  /\ Init
  /\ ctx = FALSE /\ mgr = "running" /\ expired = FALSE
  /\ sem = 0
  /\ col = [c \in Producers |-> Queued]
  /\ polls = [c \in Producers |-> 0]
  /\ cache = [c \in Producers |-> [i \in Points(c) |-> NoValue]]
  /\ late = [c \in Producers |-> 0]

At(c, stage) == Up /\ col[c].at = stage
Goto(c, stage) == col' = [col EXCEPT ![c].at = stage]
Enter(c, stage) == col' = [col EXCEPT ![c] = [Queued EXCEPT !.at = stage]]

----------------------------------------------------------------------------
(* The goroutine of a collector *)

(* select: a worker slot, or the end of the context. *)
AcquireSlot(c) ==
  /\ At(c, "queued") /\ sem < MaxWorkers
  /\ sem' = sem + 1
  /\ Goto(c, "connect")
  /\ UNCHANGED <<polls, cache, late, storageVars, managerVars>>

GiveUpSlot(c) ==
  /\ At(c, "queued") /\ ctx
  /\ Goto(c, "done")
  /\ UNCHANGED <<sem, polls, cache, late, storageVars, managerVars>>

(* Mutant: the slot is not given back. *)
FinishKeepingSlot(c) ==
  /\ Enter(c, "done")
  /\ UNCHANGED <<sem, polls, cache, late, storageVars, managerVars>>

(* The goroutine ends and its deferred receive frees the slot. *)
Finish(c) ==
  /\ Enter(c, "done")
  /\ sem' = sem - 1
  /\ UNCHANGED <<polls, cache, late, storageVars, managerVars>>

(* A poll round begins at the first point. *)
BeginPoll(c) ==
  /\ polls[c] < MaxPolls[c]
  /\ polls' = [polls EXCEPT ![c] = @ + 1]
  /\ Enter(c, "point")
  /\ UNCHANGED <<sem, cache, late, storageVars, managerVars>>

(* newHandler refuses the server's protocol or connection settings: Run     *)
(* returns before the first attempt.                                       *)
NoHandler(c) ==
  /\ At(c, "connect") /\ col[c].attempt = 0
  /\ Finish(c)

(* Connect: the first poll follows at once; after the last failed attempt  *)
(* Run returns the error and nobody starts this collector again.           *)
Connect(c) ==
  /\ At(c, "connect")
  /\ \/ BeginPoll(c)
     \/ /\ col[c].attempt < RetryCount[c]
        /\ col' = [col EXCEPT ![c].at = "backoff", ![c].attempt = col[c].attempt + 1]
        /\ UNCHANGED <<sem, polls, cache, late, storageVars, managerVars>>
     \/ col[c].attempt = RetryCount[c] /\ Finish(c)

(* select: one second, or the end of the context. *)
Backoff(c) ==
  /\ At(c, "backoff")
  /\ \/ /\ Goto(c, "connect")
        /\ UNCHANGED <<sem, polls, cache, late, storageVars, managerVars>>
     \/ ctx /\ Finish(c)

(* select: the next tick, or the end of the context. *)
WaitTick(c) ==
  /\ At(c, "wait")
  /\ \/ BeginPoll(c)
     \/ ctx /\ Finish(c)

----------------------------------------------------------------------------
(* pollOnce *)

(* Mutant: the loop over the points does not look at the context. *)
NextPointUnchecked(c) ==
  /\ At(c, "point")
  /\ IF col[c].i > NumPoints[c] THEN Enter(c, "wait") ELSE Goto(c, "reading")
  /\ UNCHANGED <<sem, polls, cache, late, storageVars, managerVars>>

(* The top of the loop: the round ends when the context is cancelled or no *)
(* point is left; otherwise the request for the point goes out.            *)
NextPoint(c) ==
  /\ At(c, "point")
  /\ IF ctx \/ col[c].i > NumPoints[c] THEN Enter(c, "wait") ELSE Goto(c, "reading")
  /\ UNCHANGED <<sem, polls, cache, late, storageVars, managerVars>>

(* readPoint, the first time and after the reconnect. *)
ReadPoint(c) ==
  /\ At(c, "reading") \/ At(c, "retry")
  /\ \/ \E raw \in Raw[c] :
          col' = [col EXCEPT ![c].at = "value", ![c].v = raw]
     \/ col[c].at = "reading" /\ Goto(c, "reconnect")
     \/ col[c].at = "retry" /\ Enter(c, "wait")
  /\ UNCHANGED <<sem, polls, cache, late, storageVars, managerVars>>

(* One reconnect; when it fails the rest of the round is skipped. *)
Reconnect(c) ==
  /\ At(c, "reconnect")
  /\ Goto(c, "retry") \/ Enter(c, "wait")
  /\ UNCHANGED <<sem, polls, cache, late, storageVars, managerVars>>

Advance(c) ==
  col' = [col EXCEPT ![c].at = "point", ![c].i = col[c].i + 1, ![c].v = NoValue]

CountLate(c) == late' = [late EXCEPT ![c] = @ + IF ctx THEN 1 ELSE 0]

----------------------------------------------------------------------------
(* The handler: GetValue, FloatsEqual, Storage.Handle, SetValue *)

(* The key is the device, the name and the register type of the point, not *)
(* its address: points can share one.                                      *)
KeyInHand(c) == Key[c][col[c].i]

(* GetValue: the cached value, or none when there is none or it has        *)
(* outlived the TTL, in which case the entry is deleted.                   *)
GetValue(c, k, v) ==
  \/ v = cache[c][k] /\ UNCHANGED cache
  \/ v = NoValue /\ cache' = [cache EXCEPT ![c][k] = NoValue]

FloatsEqual(a, b) == a # NoValue /\ Near(a, b)

(* Mutant: a reading that is left out replaces the cached value. *)
SuppressRefreshing(c) ==
  /\ At(c, "value")
  /\ FloatsEqual(cache[c][KeyInHand(c)], col[c].v)
  /\ cache' = [cache EXCEPT ![c][KeyInHand(c)] = col[c].v]
  /\ Advance(c) /\ CountLate(c)
  /\ UNCHANGED <<sem, polls, storageVars, managerVars>>

(* The reading is near the cached one: nothing is stored and the cached    *)
(* value stays as it was.                                                  *)
Suppress(c) ==
  /\ At(c, "value")
  /\ \E old \in Raw[c] :
       GetValue(c, KeyInHand(c), old) /\ FloatsEqual(old, col[c].v)
  /\ Advance(c) /\ CountLate(c)
  /\ UNCHANGED <<sem, polls, storageVars, managerVars>>

Store(c) ==
  /\ At(c, "value")
  /\ \E old \in Raw[c] \cup {NoValue} :
       GetValue(c, KeyInHand(c), old) /\ ~FloatsEqual(old, col[c].v)
  /\ Handle(c, <<c, col[c].i, col[c].v>>)
  /\ Goto(c, "sending") /\ CountLate(c)
  /\ UNCHANGED <<sem, polls, managerVars>>

(* The cache takes the value once the store has accepted it; an error is   *)
(* logged and the next point follows.                                      *)
SetValue(c, v) == cache' = [cache EXCEPT ![c][KeyInHand(c)] = v]

(* Mutant: the value is cached whether or not the store took it. *)
StoredAnyway(c) ==
  /\ At(c, "sending") /\ Return(c)
  /\ SetValue(c, col[c].v)
  /\ Advance(c)
  /\ UNCHANGED <<sem, polls, late, managerVars>>

Stored(c) ==
  /\ At(c, "sending") /\ Return(c)
  /\ \/ call[c].at = "ok" /\ SetValue(c, col[c].v)
     \/ call[c].at = "dropped" /\ UNCHANGED cache
  /\ Advance(c)
  /\ UNCHANGED <<sem, polls, late, managerVars>>

InStore(c) == HandleStep(c) /\ UNCHANGED <<collectorVars, managerVars>>

Collector(c) ==
  \/ AcquireSlot(c) \/ GiveUpSlot(c) \/ NoHandler(c) \/ Connect(c) \/ Backoff(c) \/ WaitTick(c)
  \/ NextPoint(c) \/ ReadPoint(c) \/ Reconnect(c)
  \/ Suppress(c) \/ Store(c) \/ InStore(c) \/ Stored(c)

----------------------------------------------------------------------------
(* Manager.Run *)

Cancel ==
  /\ Up /\ ~ctx
  /\ ctx' = TRUE
  /\ UNCHANGED <<mgr, expired, collectorVars, storageVars>>

(* <-ctx.Done(): the goroutine that waits for wg and the timer start. *)
BeginWait ==
  /\ Up /\ mgr = "running" /\ ctx
  /\ mgr' = "waiting"
  /\ UNCHANGED <<ctx, expired, collectorVars, storageVars>>

AllDone == \A c \in Producers : col[c].at = "done"

(* Mutant: the store is closed without waiting for the collectors. *)
EndWaitAtOnce ==
  /\ Up /\ mgr = "waiting"
  /\ mgr' = "closing"
  /\ CloseQueue
  /\ UNCHANGED <<ctx, expired, collectorVars>>

(* The wait ends, because of wg or because of the timer, and the store is  *)
(* closed.                                                                 *)
EndWait ==
  /\ Up /\ mgr = "waiting"
  /\ \/ AllDone /\ UNCHANGED expired
     \/ expired' = TRUE
  /\ mgr' = "closing"
  /\ CloseQueue
  /\ UNCHANGED <<ctx, collectorVars>>

RunReturns ==
  /\ mgr = "closing"
  /\ CloseReturns
  /\ mgr' = "returned"
  /\ UNCHANGED <<ctx, expired, collectorVars>>

StoreWriter == Writer /\ UNCHANGED <<collectorVars, managerVars>>

CollectorNext ==
  \/ \E c \in Producers : Collector(c)
  \/ StoreWriter
  \/ Cancel \/ BeginWait \/ EndWait \/ RunReturns

(* Requests, connects and pauses end, by an answer or a timeout; the       *)
(* runtime runs every goroutine that can run.  The context need not be     *)
(* cancelled.                                                              *)
CollectorFairness ==
  /\ \A c \in Producers : WF_vars(Collector(c))
  /\ WF_vars(StoreWriter)
  /\ WF_vars(BeginWait) /\ WF_vars(EndWait) /\ WF_vars(RunReturns)

CollectorSpec == CollectorInit /\ [][CollectorNext]_vars /\ CollectorFairness

----------------------------------------------------------------------------
(* Properties *)

(* The collectors between the acquire of their slot and the end of their   *)
(* goroutine.                                                              *)
AtWork == {c \in Producers : col[c].at \notin {"queued", "done"}}

(* The readings accepted of the points with a key, oldest first. *)
ReadingsOf(c, k) == { r \in Readings : r[1] = c /\ Key[c][r[2]] = k }
AcceptedOf(c, k) == Among(accepted, ReadingsOf(c, k))
LastAccepted(c, k) == AcceptedOf(c, k)[Len(AcceptedOf(c, k))][3]

(* What the cache remembers under a key is the newest value the store has  *)
(* accepted from any of its points, unless the collector is in the middle  *)
(* of storing the next one: a value that was dropped, or only suppressed,  *)
(* is not there.                                                           *)
CacheIsLastAccepted ==
  \A c \in Producers : \A k \in Points(c) :
    cache[c][k] # NoValue =>
      /\ AcceptedOf(c, k) # <<>>
      /\ cache[c][k] = LastAccepted(c, k) \/ (col[c].at = "sending" /\ KeyInHand(c) = k)

(* A reading is left out only when it is near the last value that the      *)
(* store accepted under its key, however slowly the readings drift away    *)
(* from it and whichever readings were left out or dropped in between.     *)
(* Points that share a key leave out each other's readings, no others.     *)
LeftOut(c) ==
  /\ col[c].at = "value" /\ col'[c].at = "point"
  /\ LET k == KeyInHand(c)
     IN  ~(AcceptedOf(c, k) # <<>> /\ Near(LastAccepted(c, k), col[c].v))
NeverLeftOutWhenChanged == [][\A c \in Producers : ~LeftOut(c)]_vars

(* After the cancel a collector finishes at most the reading it has in     *)
(* hand: the rest of the round, and all later rounds, handle nothing.      *)
OneReadingAfterCancel == \A c \in Producers : late[c] <= 1

(* The process dies of a send on the closed channel only when the grace    *)
(* period ran out while a collector was still at work.                     *)
PanicOnlyAfterGrace == proc = "panicked" => expired

(* When Run returns within the grace period, no collector is left, and     *)
(* every reading accepted from any of them is on disk, in the order of its *)
(* acceptance, in each output without a failed write.                      *)
ReturnedMeansStored ==
  mgr = "returned" /\ ~expired =>
    /\ AllDone
    /\ \A s \in Sinks \ failed : disk[s] = base[s] \o Image(s, Kept(s, accepted))

(* Once the context is cancelled Run returns, whatever the devices answer  *)
(* and however full the queue is, unless the process dies first.           *)
ShutdownTerminates == ctx ~> (mgr = "returned" \/ ~Up)

(* While fewer collectors are at work than there are slots, a waiting one  *)
(* starts, unless others take the slots or the process dies: a collector   *)
(* whose connect failed for good makes room for the next device.           *)
FreeSlotIsTaken ==
  \A c \in Producers :
    col[c].at = "queued" /\ Cardinality(AtWork) < MaxWorkers
      ~> (col[c].at # "queued" \/ Cardinality(AtWork) = MaxWorkers \/ ~Up)

(* What the comments say of the program, and the code does not do.         *)

(* cmd/collector handles SIGINT and SIGTERM "for graceful shutdown": the   *)
(* process does not die of a panic.                                        *)
GracefulShutdown == proc # "panicked"

============================================================================
