------------------------ MODULE ServerManager_proofs ------------------------
(***************************************************************************)
(* Theorems about ServerManager, for every list of servers with whatever   *)
(* points, every number of slots and of rows: when Run has returned        *)
(* nothing of the servers is left, and no updater begins another row; the  *)
(* registers follow the rows when no two points of a layout share one; and *)
(* a snapshot has every point of the servers that were being updated.      *)
(***************************************************************************)
EXTENDS ServerManager, FiniteSetTheorems, Subsequences_proofs

(* Where the goroutine of a server is, by what the server has then: a      *)
(* listener, a client that may still be connected, an entry of the map, a  *)
(* ticker, a slot.                                                         *)
Listening == {"register", "zero", "load", "row", "spawn", "serve"}
Connected == Listening \cup {"closing"}
InMap == {"zero", "load", "row", "spawn", "serve", "closing", "unregister"}
Ticked == {"row", "spawn", "serve", "closing", "unregister", "stop"}
WithSlot == Connected \cup {"listen", "sleep", "unregister", "stop"}

Cursor == [i : Nat, low : BOOLEAN]
ManagerTyped ==
  /\ starter \in [Servers -> [at : WithSlot \cup {"queued", "done"}, attempt : Nat, cur : Cursor]]
  /\ updater \in [Servers -> [at : {"none", "select", "apply", "ended"}, row : Nat, cur : Cursor]]
  /\ listener \in [Servers -> {"none", "open", "closed"}]
  /\ attached \subseteq Servers /\ registered \subseteq Servers /\ ticking \subseteq Servers

(* What a server has, its goroutine has yet to give back. *)
Owned ==
  \A s \in Servers :
    /\ listener[s] = "open" => starter[s].at \in Listening
    /\ s \in attached => starter[s].at \in Connected
    /\ s \in registered => starter[s].at \in InMap
    /\ s \in ticking => starter[s].at \in Ticked

(* The channel sem holds a token for each goroutine that took a slot. *)
Holders == {s \in Servers : starter[s].at \in WithSlot}
SlotsCounted == sem = Cardinality(Holders)

AllDone == run = "returned" => \A s \in Servers : starter[s].at = "done"

DownInv == ManagerTyped /\ Owned /\ SlotsCounted /\ AllDone

----------------------------------------------------------------------------
(* Slots *)

(* The list of servers is finite, and so is every part of it. *)
LEMMA ServersFinite == IsFiniteSet(Servers)
<1> DEFINE D == 1..Len(ServerOrder)
<1>1. IsFiniteSet(D)
  BY ManagerAssumption, FS_Interval
<1>2. ServerOrder \in Surjection(D, Servers)
  BY ManagerAssumption DEF Surjection, Servers
<1> QED BY <1>1, <1>2, FS_Surjection

(* The goroutines with a slot can be counted. *)
LEMMA HoldersFinite == IsFiniteSet(Holders) /\ Cardinality(Holders) \in Nat
  BY ServersFinite, FS_Subset, FS_CardinalityType DEF Holders

(* A goroutine moves on without taking or giving back a slot. *)
LEMMA SlotKept ==
  ASSUME SlotsCounted, NEW s \in Servers, sem' = sem,
         \A t \in Servers \ {s} : starter'[t] = starter[t],
         starter[s].at \in WithSlot <=> starter'[s].at \in WithSlot
  PROVE  SlotsCounted'
<1>1. Holders' = Holders
  BY DEF Holders
<1> QED BY <1>1 DEF SlotsCounted

(* It takes one. *)
LEMMA SlotTaken ==
  ASSUME SlotsCounted, NEW s \in Servers, sem' = sem + 1,
         \A t \in Servers \ {s} : starter'[t] = starter[t],
         starter[s].at \notin WithSlot, starter'[s].at \in WithSlot
  PROVE  SlotsCounted'
<1>1. Holders' = Holders \cup {s} /\ s \notin Holders
  BY DEF Holders
<1> QED BY <1>1, HoldersFinite, FS_AddElement DEF SlotsCounted

(* It ends and gives one back. *)
LEMMA SlotFreed ==
  ASSUME SlotsCounted, NEW s \in Servers, sem' = sem - 1,
         \A t \in Servers \ {s} : starter'[t] = starter[t],
         starter[s].at \in WithSlot, starter'[s].at \notin WithSlot
  PROVE  SlotsCounted'
<1>1. Holders' = Holders \ {s} /\ s \in Holders
  BY DEF Holders
<1> QED BY <1>1, HoldersFinite, FS_RemoveElement DEF SlotsCounted

----------------------------------------------------------------------------
(* The goroutine of a server *)

(* Moving to a stage changes the place of that goroutine alone. *)
LEMMA Moves ==
  ASSUME ManagerTyped, NEW s \in Servers, NEW stage \in WithSlot \cup {"queued", "done"},
         Goto(s, stage)
  PROVE  /\ starter' \in [Servers -> [at : WithSlot \cup {"queued", "done"}, attempt : Nat,
                                      cur : Cursor]]
         /\ starter'[s].at = stage
         /\ \A t \in Servers \ {s} : starter'[t] = starter[t]
<1>1. First \in Cursor
  BY DEF First, Cursor
<1> QED BY <1>1 DEF Goto, ManagerTyped

(* The loop over the points keeps to its cursor. *)
LEMMA AfterTyped ==
  ASSUME NEW s, NEW r, NEW cur \in Cursor
  PROVE  After(s, r, cur) \in Cursor
<1>1. [cur EXCEPT !.low = TRUE] \in Cursor
  BY DEF Cursor
<1>2. [i |-> cur.i + 1, low |-> FALSE] \in Cursor
  BY DEF Cursor
<1>3. After(s, r, cur) \in {[cur EXCEPT !.low = TRUE], [i |-> cur.i + 1, low |-> FALSE]}
  BY DEF After
<1> QED BY <1>1, <1>2, <1>3

(* Before the server is in service. *)
LEMMA StartingKeeps ==
  ASSUME DownInv, NEW s \in Servers,
         AcquireSlot(s) \/ GiveUp(s) \/ Listen(s) \/ ListenFails(s) \/ Wake(s) \/ Register(s)
  PROVE  DownInv'
<1> USE DEF DownInv
<1>1. ManagerTyped' /\ \A t \in Servers \ {s} : starter'[t] = starter[t]
  <2>1. CASE ListenFails(s) /\ starter[s].attempt < RetryCount[s]
    BY <2>1 DEF ListenFails, ManagerTyped, goVars, netVars, WithSlot
  <2>2. CASE Wake(s)
    BY <2>2 DEF Wake, ManagerTyped, netVars, WithSlot, Connected, Listening
  <2>3. CASE ListenFails(s) /\ ~(starter[s].attempt < RetryCount[s])
    BY <2>3, Moves DEF ListenFails, Finish, ManagerTyped, netVars
  <2>4. CASE AcquireSlot(s) \/ GiveUp(s)
    BY <2>4, Moves DEF AcquireSlot, GiveUp, ManagerTyped, netVars, WithSlot
  <2>5. CASE Listen(s) \/ Register(s)
    BY <2>5, Moves DEF Listen, Register, ManagerTyped, netVars, WithSlot, Connected, Listening
  <2> QED BY <2>1, <2>2, <2>3, <2>4, <2>5
<1>2. /\ AcquireSlot(s) => starter[s].at = "queued" /\ starter'[s].at = "listen"
      /\ GiveUp(s) => starter[s].at = "queued" /\ starter'[s].at = "done"
      /\ Listen(s) => starter[s].at = "listen" /\ starter'[s].at = "register"
      /\ Wake(s) => starter[s].at = "sleep" /\ starter'[s].at = "listen"
      /\ Register(s) => starter[s].at = "register" /\ starter'[s].at = "zero"
  BY Moves DEF AcquireSlot, GiveUp, Listen, Wake, Register, At, ManagerTyped, WithSlot,
       Connected, Listening
<1>3. ListenFails(s) => /\ starter[s].at = "listen"
                        /\ \/ starter'[s].at = "sleep" /\ sem' = sem
                           \/ starter'[s].at = "done" /\ sem' = sem - 1
  BY Moves DEF ListenFails, Finish, At, ManagerTyped
<1>4. run' = run
  BY DEF AcquireSlot, GiveUp, Listen, ListenFails, Wake, Register
<1>5. Owned'
  <2>1. CASE AcquireSlot(s) \/ GiveUp(s) \/ ListenFails(s) \/ Wake(s)
    <3>1. /\ UNCHANGED <<netVars, registered, ticking>>
          /\ starter[s].at \notin Connected \cup InMap \cup Ticked
      BY <2>1, <1>2, <1>3 DEF AcquireSlot, GiveUp, ListenFails, Wake, Connected, Listening, InMap,
           Ticked
    <3> QED BY <1>1, <3>1 DEF Owned, netVars, Connected
  <2>2. CASE Listen(s)
    <3>1. UNCHANGED <<attached, registered, ticking>> /\ starter[s].at \notin Connected \cup InMap \cup Ticked
      BY <2>2, <1>2 DEF Listen, Connected, Listening, InMap, Ticked
    <3>2. \A t \in Servers \ {s} : listener'[t] = listener[t]
      BY <2>2 DEF Listen, ManagerTyped
    <3> QED BY <1>1, <1>2, <2>2, <3>1, <3>2 DEF Owned, Listening
  <2>3. CASE Register(s)
    <3>1. UNCHANGED <<netVars, ticking>> /\ registered' = registered \cup {s} /\ s \notin ticking
      BY <2>3, <1>2 DEF Register, Owned, Ticked
    <3> QED BY <1>1, <1>2, <2>3, <3>1 DEF Owned, netVars, Connected, Listening, InMap
  <2> QED BY <2>1, <2>2, <2>3
<1>6. SlotsCounted'
  <2>1. CASE AcquireSlot(s)
    BY <2>1, <1>1, <1>2, SlotTaken DEF AcquireSlot, WithSlot, Connected, Listening
  <2>2. CASE ListenFails(s) /\ starter'[s].at = "done"
    BY <2>2, <1>1, <1>3, SlotFreed DEF WithSlot, Connected, Listening
  <2>3. CASE ListenFails(s) /\ starter'[s].at = "sleep"
    BY <2>3, <1>1, <1>3, SlotKept DEF WithSlot
  <2>4. CASE GiveUp(s) \/ Listen(s) \/ Wake(s) \/ Register(s)
    BY <2>4, <1>1, <1>2, SlotKept DEF GiveUp, Listen, Wake, Register, WithSlot, Connected,
         Listening
  <2> QED BY <2>1, <2>2, <2>3, <2>4, <1>3
<1>7. AllDone'
  BY <1>1, <1>2, <1>3, <1>4 DEF AllDone
<1> QED BY <1>1, <1>5, <1>6, <1>7

(* While it is filled and put into service. *)
LEMMA FillingKeeps ==
  ASSUME DownInv, NEW s \in Servers,
         Zero(s) \/ LoadCSV(s) \/ FirstRow(s) \/ Spawn(s)
  PROVE  DownInv'
<1> USE DEF DownInv
<1>1. ManagerTyped' /\ \A t \in Servers \ {s} : starter'[t] = starter[t]
  <2>1. CASE Zero(s) /\ Over(s, starter[s].cur)
    BY <2>1, Moves DEF Zero, ManagerTyped, netVars, WithSlot, Connected, Listening
  <2>2. CASE Zero(s) /\ ~Over(s, starter[s].cur)
    <3> DEFINE c == [starter[s].cur EXCEPT !.i = @ + 1]
    <3>1. starter' = [starter EXCEPT ![s] = [starter[s] EXCEPT !.cur = c]]
      BY <2>2 DEF Zero
    <3>2. c \in Cursor
      BY DEF ManagerTyped, Cursor
    <3>3. UNCHANGED <<updater, ticking, netVars, registered>>
      BY <2>2 DEF Zero
    <3> HIDE DEF c
    <3> QED BY <3>1, <3>2, <3>3 DEF ManagerTyped, netVars
  <2>3. CASE LoadCSV(s)
    BY <2>3, Moves DEF LoadCSV, ManagerTyped, netVars, WithSlot, Connected, Listening
  <2>4. CASE FirstRow(s) /\ Over(s, starter[s].cur)
    BY <2>4, Moves DEF FirstRow, Apply, ManagerTyped, netVars, WithSlot, Connected, Listening
  <2>5. CASE FirstRow(s) /\ ~Over(s, starter[s].cur)
    <3> DEFINE c == After(s, 1, starter[s].cur)
    <3>1. starter' = [starter EXCEPT ![s] = [starter[s] EXCEPT !.cur = c]]
      BY <2>5 DEF FirstRow
    <3>2. c \in Cursor
      BY AfterTyped DEF ManagerTyped
    <3>3. UNCHANGED <<updater, ticking, netVars, registered>>
      BY <2>5 DEF FirstRow
    <3> HIDE DEF c
    <3> QED BY <3>1, <3>2, <3>3 DEF ManagerTyped, netVars
  <2>6. CASE Spawn(s)
    <3>1. Goto(s, "serve") /\ UNCHANGED <<ticking, netVars, registered>>
      BY <2>6 DEF Spawn
    <3>2. updater' \in [Servers -> [at : {"none", "select", "apply", "ended"}, row : Nat,
                                    cur : Cursor]]
      BY <2>6 DEF Spawn, ManagerTyped
    <3> QED BY <3>1, <3>2, Moves DEF ManagerTyped, netVars, WithSlot, Connected, Listening
  <2> QED BY <2>1, <2>2, <2>3, <2>4, <2>5, <2>6
<1>5. /\ Zero(s) => starter[s].at = "zero" /\ starter'[s].at \in {"zero", "load"}
      /\ LoadCSV(s) => /\ starter[s].at = "load"
                       /\ starter'[s].at = "row" \/ (starter'[s].at = "serve" /\ ticking' = ticking)
      /\ FirstRow(s) => starter[s].at = "row" /\ starter'[s].at \in {"row", "spawn"}
      /\ Spawn(s) => starter[s].at = "spawn" /\ starter'[s].at = "serve"
  BY Moves DEF Zero, LoadCSV, FirstRow, Spawn, At, ManagerTyped, WithSlot, Connected, Listening
<1>2. /\ UNCHANGED <<run, sem, netVars, registered>>
      /\ Zero(s) \/ FirstRow(s) \/ Spawn(s) => ticking' = ticking
      /\ ticking' \subseteq ticking \cup {s}
  BY DEF Zero, LoadCSV, FirstRow, Spawn
<1>3. Owned'
  <2>1. starter[s].at \in {"zero", "load", "row", "spawn"} /\ starter'[s].at \in Listening \cap InMap
    BY <1>5 DEF Listening, InMap
  <2>2. s \in ticking' => starter'[s].at \in Ticked
    BY <1>2, <1>5 DEF Owned, Ticked
  <2> QED BY <1>1, <1>2, <2>1, <2>2 DEF Owned, netVars, Connected
<1>4. SlotsCounted'
  BY <1>1, <1>2, <1>5, SlotKept DEF WithSlot, Connected, Listening
<1>6. AllDone'
  BY <1>1, <1>2, <1>5 DEF AllDone
<1> QED BY <1>1, <1>3, <1>4, <1>6

(* While it is closed. *)
LEMMA ClosingKeeps ==
  ASSUME DownInv, NEW s \in Servers,
         CloseListener(s) \/ Closed(s) \/ Unregister(s) \/ Stop(s)
  PROVE  DownInv'
<1> USE DEF DownInv
<1>1. /\ ManagerTyped' /\ \A t \in Servers \ {s} : starter'[t] = starter[t]
      /\ CloseListener(s) => starter[s].at = "serve" /\ starter'[s].at = "closing"
      /\ Closed(s) => starter[s].at = "closing" /\ starter'[s].at = "unregister"
      /\ Unregister(s) => starter[s].at = "unregister" /\ starter'[s].at = "stop"
      /\ Stop(s) => starter[s].at = "stop" /\ starter'[s].at = "done"
  <2>1. CASE CloseListener(s) \/ Closed(s)
    BY <2>1, Moves DEF CloseListener, Closed, Unregister, Stop, Finish, At, ManagerTyped, netVars,
         WithSlot, Connected
  <2>2. CASE Unregister(s) \/ Stop(s)
    BY <2>2, Moves DEF CloseListener, Closed, Unregister, Stop, Finish, At, ManagerTyped, netVars,
         WithSlot
  <2> QED BY <2>1, <2>2
<1>2. Owned'
  BY <1>1 DEF Owned, ManagerTyped, CloseListener, Closed, Unregister, Stop, netVars, Connected,
       Listening, InMap, Ticked
<1>3. SlotsCounted'
  <2>1. CASE Stop(s)
    BY <2>1, <1>1, SlotFreed DEF Stop, Finish, WithSlot, Connected, Listening
  <2>2. CASE CloseListener(s) \/ Closed(s) \/ Unregister(s)
    BY <2>2, <1>1, SlotKept DEF CloseListener, Closed, Unregister, WithSlot, Connected, Listening
  <2> QED BY <2>1, <2>2
<1>4. AllDone'
  BY <1>1 DEF AllDone, CloseListener, Closed, Unregister, Stop
<1> QED BY <1>1, <1>2, <1>3, <1>4

----------------------------------------------------------------------------
(* The whole manager *)

(* At first nothing is there. *)
LEMMA DownInit == Init => DownInv
<1> SUFFICES ASSUME Init PROVE DownInv
  OBVIOUS
<1>1. ManagerTyped
  BY DEF Init, ManagerTyped, First, Cursor
<1>2. Owned /\ AllDone
  BY DEF Init, Owned, AllDone
<1>3. Holders = {}
  BY DEF Init, Holders, WithSlot, Connected, Listening
<1> QED BY <1>1, <1>2, <1>3, FS_EmptySet DEF Init, DownInv, SlotsCounted

(* An updater keeps to its variable. *)
LEMMA UpdaterKeeps ==
  ASSUME DownInv, NEW s \in Servers, Tick(s) \/ EndUpdater(s) \/ Update(s)
  PROVE  DownInv'
<1>1. UNCHANGED <<run, sem, starter, ticking, netVars, registered>>
  BY DEF Tick, EndUpdater, Update
<1>2. ManagerTyped'
  <2>1. First \in Cursor
    BY DEF First, Cursor
  <2>2. CASE Tick(s)
    <3>1. (updater[s].row % NumRows) + 1 \in Nat
      BY ManagerAssumption DEF DownInv, ManagerTyped
    <3> QED BY <1>1, <2>1, <2>2, <3>1 DEF Tick, DownInv, ManagerTyped, netVars
  <2>3. CASE EndUpdater(s)
    BY <1>1, <2>3 DEF EndUpdater, DownInv, ManagerTyped, netVars
  <2>4. CASE Update(s)
    <3> DEFINE c == After(s, updater[s].row, updater[s].cur)
    <3>1. c \in Cursor
      BY AfterTyped DEF DownInv, ManagerTyped
    <3>2. \/ updater' = [updater EXCEPT ![s] = [updater[s] EXCEPT !.cur = c]]
          \/ updater' = [updater EXCEPT ![s] = [updater[s] EXCEPT !.at = "select", !.cur = First]]
      BY <2>4 DEF Update
    <3> HIDE DEF c
    <3>3. updater' \in [Servers -> [at : {"none", "select", "apply", "ended"}, row : Nat,
                                    cur : Cursor]]
      <4>1. CASE updater' = [updater EXCEPT ![s] = [updater[s] EXCEPT !.cur = c]]
        BY <3>1, <4>1 DEF DownInv, ManagerTyped
      <4>2. CASE updater' = [updater EXCEPT ![s] = [updater[s] EXCEPT !.at = "select", !.cur = First]]
        <5>1. [updater[s] EXCEPT !.at = "select", !.cur = First]
                \in [at : {"none", "select", "apply", "ended"}, row : Nat, cur : Cursor]
          BY <2>1 DEF DownInv, ManagerTyped
        <5> QED BY <4>2, <5>1 DEF DownInv, ManagerTyped
      <4> QED BY <3>2, <4>1, <4>2
    <3> QED BY <1>1, <3>3 DEF DownInv, ManagerTyped, netVars
  <2> QED BY <2>2, <2>3, <2>4
<1> QED BY <1>1, <1>2 DEF DownInv, Owned, SlotsCounted, Holders, AllDone, netVars

(* Every step keeps the books of the manager. *)
LEMMA DownNext == DownInv /\ [Next]_managerVars => DownInv'
<1> SUFFICES ASSUME DownInv, [Next]_managerVars PROVE DownInv'
  OBVIOUS
<1>1. CASE UNCHANGED managerVars
  BY <1>1 DEF DownInv, ManagerTyped, Owned, SlotsCounted, Holders, AllDone, managerVars, goVars,
       netVars
<1>2. CASE \E s \in Servers : Starter(s)
  BY <1>2, StartingKeeps, FillingKeeps, ClosingKeeps DEF Starter
<1>3. CASE \E s \in Servers : Tick(s) \/ EndUpdater(s) \/ Update(s)
  BY <1>3, UpdaterKeeps
<1>4. CASE \E s \in Servers : Attach(s) \/ Detach(s)
  <2>1. UNCHANGED <<run, goVars, listener, registered>>
    BY <1>4 DEF Attach, Detach
  <2>2. ManagerTyped'
    BY <1>4, <2>1 DEF Attach, Detach, DownInv, ManagerTyped, goVars
  <2>3. Owned'
    BY <1>4, <2>1 DEF Attach, Detach, DownInv, Owned, goVars, Connected
  <2> QED BY <2>1, <2>2, <2>3 DEF DownInv, SlotsCounted, Holders, AllDone, goVars
<1>5. CASE \/ \E s \in Servers : ClientWrites(s)
           \/ TakeSnapshot \/ SnapshotPoint \/ SnapshotReturns \/ Cancel
  <2>1. UNCHANGED <<run, goVars, netVars, registered>>
    BY <1>5 DEF ClientWrites, TakeSnapshot, SnapshotPoint, SnapshotReturns, Cancel
  <2> QED BY <2>1 DEF DownInv, ManagerTyped, Owned, SlotsCounted, Holders, AllDone, goVars,
            netVars
<1>6. CASE RunReturns
  BY <1>6 DEF RunReturns, At, DownInv, ManagerTyped, Owned, SlotsCounted, Holders, AllDone,
       goVars, netVars
<1> QED BY <1>1, <1>2, <1>3, <1>4, <1>5, <1>6 DEF Next

(* When Run has returned every listener is closed, no client is connected, *)
(* the map is empty and all slots are free: Run waits for the goroutines   *)
(* of startServer, and each gives back all it took before it ends.         *)
THEOREM RunLeavesNothing == Spec => []ReturnedMeansDown
<1>1. DownInv => ReturnedMeansDown
  <2> SUFFICES ASSUME DownInv, run = "returned"
               PROVE  /\ \A s \in Servers : listener[s] # "open"
                      /\ attached = {} /\ registered = {} /\ sem = 0
    BY DEF ReturnedMeansDown
  <2>1. \A s \in Servers : starter[s].at \notin WithSlot \cup InMap
    BY DEF DownInv, AllDone, WithSlot, Connected, Listening, InMap
  <2>2. Holders = {}
    BY <2>1 DEF Holders
  <2> QED BY <2>1, <2>2, FS_EmptySet
          DEF DownInv, ManagerTyped, Owned, SlotsCounted, WithSlot, Connected
<1> QED
  BY <1>1, DownInit, DownNext, PTL DEF Spec, SafeSpec

(* Once Run has returned no updater begins a row, though nobody waits for  *)
(* the updaters: each ticker was stopped before its server's goroutine     *)
(* ended.                                                                  *)
THEOREM NoRowAfterRun == Spec => NoRowBegunAfterRun
<1> DEFINE NoneBegun == run = "returned" =>
             \A s \in Servers : updater[s].at = "select" => updater'[s].at # "apply"
<1>1. DownInv /\ [Next]_managerVars => [NoneBegun]_managerVars
  <2> SUFFICES ASSUME DownInv, Next, run = "returned",
                      NEW s \in Servers, updater[s].at = "select"
               PROVE  updater'[s].at # "apply"
    OBVIOUS
  <2>1. \A t \in Servers : starter[t].at = "done" /\ t \notin ticking
    BY DEF DownInv, AllDone, Owned, Ticked
  <2>2. CASE \E t \in Servers : Starter(t) \/ Tick(t)
    BY <2>1, <2>2 DEF Starter, AcquireSlot, GiveUp, Listen, ListenFails, Wake, Register, Zero,
         LoadCSV, FirstRow, Spawn, CloseListener, Closed, Unregister, Stop, At, Tick
  <2>3. CASE \E t \in Servers : EndUpdater(t)
    BY <2>3 DEF EndUpdater, DownInv, ManagerTyped
  <2>4. CASE \E t \in Servers : Update(t)
    BY <2>4 DEF Update, DownInv, ManagerTyped
  <2>5. CASE UNCHANGED updater
    BY <2>5
  <2> QED BY <2>2, <2>3, <2>4, <2>5 DEF Next, Attach, Detach, ClientWrites, TakeSnapshot,
            SnapshotPoint, SnapshotReturns, Cancel, RunReturns, goVars
<1>2. [][NoneBegun]_managerVars <=> NoRowBegunAfterRun
  BY DEF NoRowBegunAfterRun
<1> QED
  BY <1>1, <1>2, DownInit, DownNext, PTL DEF Spec, SafeSpec

----------------------------------------------------------------------------
(* The rows *)

(* A server is in service from the start of its updater on, and its two     *)
(* goroutines write one after the other.                                   *)
InService == {"serve", "closing", "unregister", "stop", "done"}

(* A writer between the two words of a point is at a float it writes.       *)
Paired(s, r, cur) ==
  /\ cur.i \in Nat \ {0}
  /\ cur.low => /\ cur.i \in 1..Len(Layout[s])
                /\ Point(s, cur).wide /\ Takes(Point(s, cur), r)

Writers(s) ==
  /\ updater[s].row \in Rows
  /\ updater[s].at = "none" => updater[s].row = 1
  /\ updater[s].at # "none" => starter[s].at \in InService
  /\ updater[s].at = "apply" => Paired(s, updater[s].row, updater[s].cur)
  /\ starter[s].at = "row" => Paired(s, 1, starter[s].cur)
  /\ starter[s].at = "zero" => starter[s].cur.i \in Nat \ {0}
WritersInv == \A s \in Servers : Writers(s)
MemTyped == mem \in [Servers -> [0..Size - 1 -> 0..NumRows \cup {Foreign}]]
RowsInv == DownInv /\ WritersInv /\ MemTyped

(* The registers of the points: a point has a second word when it is a      *)
(* float32 and there is a register behind its first.  Separate: no two of  *)
(* them share a register.                                                  *)
IsWord(s, i, low) == low => Layout[s][i].wide /\ Layout[s][i].addr # Size - 1
Reg(s, i, low) == Target(s, [i |-> i, low |-> low])
Separate ==
  \A s \in Servers : \A i, j \in 1..Len(Layout[s]) : \A low, high \in BOOLEAN :
    IsWord(s, i, low) /\ IsWord(s, j, high) /\ Reg(s, i, low) = Reg(s, j, high)
      => i = j /\ low = high

(* What a register may hold when row r was the last to reach it.            *)
May(s, i, r) ==
  {Foreign} \cup (IF r = 0 \/ (Layout[s][i].wide /\ Layout[s][i].addr = Size - 1) THEN {0}
                  ELSE Shown(Layout[s][i], r))
Before(r, before) == before = (IF r = 1 THEN NumRows ELSE r - 1) \/ (r = 1 /\ before = 0)

LEMMA PointTyped ==
  ASSUME NEW s \in Servers, NEW i \in 1..Len(Layout[s])
  PROVE  Layout[s][i] \in PointType
BY ManagerAssumption, ElementOfSeq

LEMMA RegTyped ==
  ASSUME NEW s \in Servers, NEW i \in 1..Len(Layout[s]), NEW low \in BOOLEAN, IsWord(s, i, low)
  PROVE  Reg(s, i, low) \in 0..Size - 1 /\ Reg(s, i, FALSE) = Layout[s][i].addr
<1> DEFINE a == Layout[s][i].addr
<1>1. a \in 0..Size - 1 /\ Size \in Nat \ {0}
  BY PointTyped, ManagerAssumption DEF PointType
<1>2. /\ Reg(s, i, TRUE) = (a + 1) % Size
      /\ Reg(s, i, FALSE) = (a + 0) % Size
  BY DEF Reg, Target, Point
<1>3. low => a + 1 \in 0..Size - 1
  BY <1>1 DEF IsWord
<1> HIDE DEF a
<1>4. (a + 0) % Size = a /\ (low => (a + 1) % Size = a + 1)
  BY <1>1, <1>3
<1> QED BY <1>1, <1>2, <1>3, <1>4 DEF a

(* A row that has a value for a point is the one to show; one that has none *)
(* leaves it as it was, at the end of a pass and before the first too.      *)
LEMMA ShownNow ==
  ASSUME NEW p \in PointType, NEW r \in p.rows
  PROVE  r \in Shown(p, r)
<1>1. p.rows \subseteq Nat
  BY DEF PointType, Rows
<1> QED BY <1>1 DEF Shown

LEMMA ShownKept ==
  ASSUME NEW p \in PointType, NEW r \in Rows, r \notin p.rows
  PROVE  /\ Shown(p, IF r = 1 THEN NumRows ELSE r - 1) \subseteq Shown(p, r)
         /\ r = 1 => 0 \in Shown(p, r)
<1> DEFINE latest(Q) == { q \in Q : \A o \in Q : o <= q }
           past(n) == { q \in p.rows : q <= n }
<1>1. p.rows \subseteq 1..NumRows /\ NumRows \in Nat \ {0} /\ r \in 1..NumRows
  BY ManagerAssumption DEF PointType, Rows
<1>2. \A n : Shown(p, n) = IF past(n) # {} THEN latest(past(n)) ELSE {0} \cup latest(p.rows)
  BY DEF Shown
<1>3. CASE r = 1
  <2>1. past(1) = {} /\ past(NumRows) = p.rows
    BY <1>1, <1>3
  <2>2. Shown(p, 1) = {0} \cup latest(p.rows)
    BY <1>2, <2>1
  <2>3. Shown(p, NumRows) = IF p.rows # {} THEN latest(p.rows) ELSE {0} \cup latest(p.rows)
    BY <1>2, <2>1
  <2> HIDE DEF latest, past
  <2> QED BY <1>3, <2>2, <2>3
<1>4. CASE r # 1
  <2>1. past(r) = past(r - 1)
    BY <1>1, <1>4
  <2>2. Shown(p, r) = Shown(p, r - 1)
    <3> HIDE DEF latest, past
    <3> QED BY <1>2, <2>1
  <2> QED BY <1>4, <2>2
<1> QED BY <1>3, <1>4

(* So a row without a value, or a float without its second register, takes *)
(* nothing from what a register may hold.                                  *)
LEMMA NotTaken ==
  ASSUME NEW s \in Servers, NEW i \in 1..Len(Layout[s]), NEW r \in Rows, NEW before,
         Before(r, before), ~Takes(Layout[s][i], r)
  PROVE  May(s, i, before) \subseteq May(s, i, r)
<1> DEFINE p == Layout[s][i]
<1>1. p \in PointType /\ NumRows \in Nat \ {0} /\ r \in 1..NumRows
  BY PointTyped, ManagerAssumption DEF Rows
<1>2. CASE p.wide /\ p.addr = Size - 1
  BY <1>2 DEF May
<1>3. CASE ~(p.wide /\ p.addr = Size - 1)
  <2>1. r \notin p.rows
    BY <1>3 DEF Takes
  <2>2. May(s, i, r) = {Foreign} \cup Shown(p, r)
    BY <1>1, <1>3 DEF May
  <2>3. May(s, i, before) = {Foreign} \cup (IF before = 0 THEN {0} ELSE Shown(p, before))
    BY <1>3 DEF May
  <2> HIDE DEF p
  <2>4. /\ Shown(p, IF r = 1 THEN NumRows ELSE r - 1) \subseteq Shown(p, r)
        /\ r = 1 => 0 \in Shown(p, r)
    BY <1>1, <2>1, ShownKept
  <2> QED BY <1>1, <2>2, <2>3, <2>4 DEF Before
<1> QED BY <1>2, <1>3

(* One call of a setter: the registers behind the writer show its row, the *)
(* others the row before.                                                  *)
LEMMA WriterPasses ==
  ASSUME Separate, MemTyped, NEW s \in Servers, NEW r \in Rows, NEW before, Before(r, before),
         NEW cur \in Cursor, Paired(s, r, cur), Apply(s, r, cur),
         NEW i \in 1..Len(Layout[s]), NEW low \in BOOLEAN, IsWord(s, i, low),
         mem[s][Reg(s, i, low)] \in May(s, i, Reached(i, low, cur, r, before))
  PROVE  mem'[s][Reg(s, i, low)] \in May(s, i, Reached(i, low, After(s, r, cur), r, before))
<1> DEFINE j == cur.i
           p == Layout[s][j]
           value == mem[s][Reg(s, i, low)]
           value2 == mem'[s][Reg(s, i, low)]
<1>1. /\ Len(Layout[s]) \in Nat /\ j \in 1..Len(Layout[s]) /\ cur.low \in BOOLEAN
      /\ cur = [i |-> j, low |-> cur.low]
  <2>1. Len(Layout[s]) \in Nat
    BY ManagerAssumption, LenProperties
  <2> QED BY <2>1 DEF Cursor, Paired, Apply, Over
<1>2. Point(s, cur) = p /\ Target(s, cur) = Reg(s, j, cur.low)
  BY DEF Point, Target, Reg
<1>3. mem' = IF Takes(p, r) THEN [mem EXCEPT ![s][Reg(s, j, cur.low)] = r] ELSE mem
  BY <1>2 DEF Apply
<1>4. Reg(s, i, low) \in 0..Size - 1
  BY RegTyped
<1>5. Takes(p, r) => IsWord(s, j, cur.low)
  BY <1>2 DEF Paired, Takes, IsWord
<1>6. value2 = IF Takes(p, r) /\ i = j /\ low = cur.low THEN r ELSE value
  <2>1. Takes(p, r) /\ Reg(s, i, low) = Reg(s, j, cur.low) => i = j /\ low = cur.low
    BY <1>1, <1>5 DEF Separate
  <2> QED BY <1>3, <1>4, <2>1 DEF MemTyped
<1>7. After(s, r, cur) = IF Takes(p, r) /\ p.wide /\ ~cur.low THEN [i |-> j, low |-> TRUE]
                         ELSE [i |-> j + 1, low |-> FALSE]
  <2>1. [cur EXCEPT !.low = TRUE] = [i |-> j, low |-> TRUE]
    <3> DEFINE c == [cur EXCEPT !.low = TRUE]
               d == [i |-> j, low |-> TRUE]
    <3>1. c \in Cursor /\ c.i = j /\ c.low = TRUE
      BY DEF Cursor
    <3>2. d \in Cursor /\ d.i = j /\ d.low = TRUE
      BY DEF Cursor
    <3> HIDE DEF c, d
    <3>3. c = d
      BY <3>1, <3>2 DEF Cursor
    <3> QED BY <3>3 DEF c, d
  <2> QED BY <1>2, <2>1 DEF After
<1>8. value \in May(s, i, IF i < j \/ (i = j /\ cur.low /\ ~low) THEN r ELSE before)
  BY DEF Reached
<1>9. CASE i # j
  <2>1. Reached(i, low, After(s, r, cur), r, before) = Reached(i, low, cur, r, before)
    BY <1>1, <1>7, <1>9 DEF Reached
  <2> QED BY <1>6, <1>9, <2>1
<1>10. CASE i = j /\ Takes(p, r) /\ low = cur.low
  <2>1. p \in PointType /\ r \in p.rows /\ r # 0
    BY <1>1, <1>10, PointTyped DEF Takes, Rows
  <2>2. ~(p.wide /\ p.addr = Size - 1)
    BY <1>10 DEF Takes
  <2>3. r \in May(s, i, r)
    BY <1>10, <2>1, <2>2, ShownNow DEF May
  <2>4. Reached(i, low, After(s, r, cur), r, before) = r
    BY <1>1, <1>7, <1>10 DEF Reached
  <2> QED BY <1>6, <1>10, <2>3, <2>4
<1>11. CASE i = j /\ Takes(p, r) /\ low # cur.low
  <2>1. value2 = value
    BY <1>6, <1>11
  <2>2. CASE cur.low
    <3>1. Reached(i, low, After(s, r, cur), r, before) = r
      BY <1>1, <1>7, <1>11, <2>2 DEF Reached
    <3> QED BY <1>8, <1>11, <2>1, <2>2, <3>1
  <2>3. CASE ~cur.low
    <3>1. low /\ p.wide
      BY <1>1, <1>11, <2>3 DEF IsWord
    <3>2. After(s, r, cur) = [i |-> j, low |-> TRUE]
      BY <1>7, <1>11, <2>3, <3>1
    <3>3. Reached(i, low, After(s, r, cur), r, before) = before
      BY <1>1, <1>11, <3>1, <3>2 DEF Reached
    <3> QED BY <1>8, <1>11, <2>1, <2>3, <3>3
  <2> QED BY <1>1, <2>2, <2>3
<1>12. CASE i = j /\ ~Takes(p, r)
  <2>1. ~cur.low
    BY <1>2, <1>12 DEF Paired
  <2>2. Reached(i, low, After(s, r, cur), r, before) = r
    BY <1>1, <1>7, <1>12 DEF Reached
  <2>3. value \in May(s, i, before)
    BY <1>1, <1>8, <1>12, <2>1
  <2>4. May(s, i, before) \subseteq May(s, i, r)
    BY <1>12, NotTaken
  <2> QED BY <1>6, <1>12, <2>2, <2>3, <2>4
<1> QED BY <1>9, <1>10, <1>11, <1>12

(* One goroutine moves.                                                     *)
LEMMA OneMoves ==
  ASSUME WritersInv, NEW s \in Servers, Writers(s)',
         \A t \in Servers \ {s} : starter'[t] = starter[t] /\ updater'[t] = updater[t]
  PROVE  WritersInv'
<1>1. ASSUME NEW t \in Servers, t # s
      PROVE  Writers(t)'
  <2>1. Writers(t)
    BY DEF WritersInv
  <2> QED BY <1>1, <2>1 DEF Writers
<1> QED BY <1>1 DEF WritersInv

(* The writer's loop goes on to the next call.                              *)
LEMMA PairedAfter ==
  ASSUME NEW s \in Servers, NEW r, NEW cur \in Cursor, Paired(s, r, cur), ~Over(s, cur)
  PROVE  Paired(s, r, After(s, r, cur)) /\ After(s, r, cur).i # 0
<1>1. Len(Layout[s]) \in Nat /\ cur.i \in 1..Len(Layout[s])
  <2>1. Len(Layout[s]) \in Nat
    BY ManagerAssumption, LenProperties
  <2> QED BY <2>1 DEF Cursor, Paired, Over
<1>2. CASE Takes(Point(s, cur), r) /\ Point(s, cur).wide /\ ~cur.low
  <2> DEFINE c == [cur EXCEPT !.low = TRUE]
  <2>1. c.i = cur.i /\ After(s, r, cur) = c
    BY <1>2 DEF Cursor, After
  <2> HIDE DEF c
  <2>2. Point(s, c) = Point(s, cur)
    BY <2>1 DEF Point
  <2> QED BY <1>1, <1>2, <2>1, <2>2 DEF Paired
<1>3. CASE ~(Takes(Point(s, cur), r) /\ Point(s, cur).wide /\ ~cur.low)
  <2>1. After(s, r, cur) = [i |-> cur.i + 1, low |-> FALSE]
    BY <1>3 DEF After
  <2> QED BY <1>1, <2>1 DEF Paired
<1> QED BY <1>2, <1>3

(* Each loop begins at the first point.                                     *)
LEMMA PairedFirst == ASSUME NEW s, NEW r PROVE Paired(s, r, First)
BY DEF Paired, First

(* The goroutine of a server, outside the rows.                             *)
LEMMA StagesKeep ==
  ASSUME DownInv, WritersInv, NEW s \in Servers,
         \/ AcquireSlot(s) \/ GiveUp(s) \/ Listen(s) \/ ListenFails(s) \/ Wake(s) \/ Register(s)
         \/ LoadCSV(s) \/ CloseListener(s) \/ Closed(s) \/ Unregister(s) \/ Stop(s)
  PROVE  /\ WritersInv' /\ UNCHANGED <<updater, mem>>
         /\ \A t \in Servers \ {s} : starter'[t] = starter[t]
         /\ starter[s].at \notin {"row", "spawn"} /\ starter'[s].at # "spawn"
         /\ starter'[s].at = "row" => starter'[s].cur = First
<1>1. UNCHANGED <<updater, mem>>
  BY DEF AcquireSlot, GiveUp, Listen, ListenFails, Wake, Register, LoadCSV, CloseListener, Closed,
         Unregister, Stop
<1>2. /\ \A t \in Servers \ {s} : starter'[t] = starter[t]
      /\ starter[s].at \notin {"row", "spawn"}
      /\ starter[s].at \in InService => starter'[s].at \in InService
      /\ starter'[s].at # "spawn" /\ (starter'[s].at \in {"row", "zero"} => starter'[s].cur = First)
  <2>1. CASE Wake(s) \/ ListenFails(s)
    BY <2>1 DEF Wake, ListenFails, Finish, Goto, At, DownInv, ManagerTyped, InService
  <2>2. CASE \/ AcquireSlot(s) \/ GiveUp(s) \/ Listen(s) \/ Register(s)
    BY <2>2 DEF AcquireSlot, GiveUp, Listen, Register, Goto, At, DownInv, ManagerTyped, InService
  <2>3. CASE LoadCSV(s)
    BY <2>3 DEF LoadCSV, Goto, At, DownInv, ManagerTyped, InService
  <2>4. CASE CloseListener(s) \/ Closed(s) \/ Unregister(s) \/ Stop(s)
    BY <2>4 DEF CloseListener, Closed, Unregister, Stop, Finish, Goto, At, DownInv, ManagerTyped,
                InService
  <2> QED BY <2>1, <2>2, <2>3, <2>4
<1>3. Writers(s)'
  <2>1. First.i \in Nat \ {0}
    BY DEF First
  <2> QED BY <1>1, <1>2, <2>1, PairedFirst DEF WritersInv, Writers
<1> QED BY <1>1, <1>2, <1>3, OneMoves

(* The setters keep the registers a table of row numbers.                   *)
LEMMA WriteTyped ==
  ASSUME MemTyped, NEW s \in Servers, NEW a, NEW v \in 0..NumRows \cup {Foreign},
         mem' = [mem EXCEPT ![s][a] = v]
  PROVE  MemTyped' /\ \A t \in Servers \ {s} : mem'[t] = mem[t]
BY DEF MemTyped

LEMMA ApplyTyped ==
  ASSUME MemTyped, NEW s \in Servers, NEW r \in Rows, NEW cur, Apply(s, r, cur)
  PROVE  MemTyped' /\ \A t \in Servers \ {s} : mem'[t] = mem[t]
<1>1. r \in 0..NumRows \cup {Foreign}
  BY DEF Rows
<1>2. CASE mem' = mem
  BY <1>2 DEF MemTyped
<1>3. CASE mem' = [mem EXCEPT ![s][Target(s, cur)] = r]
  BY <1>1, <1>3, WriteTyped
<1> QED BY <1>2, <1>3 DEF Apply

(* The zeros of the beginning.                                              *)
LEMMA ZeroKeeps ==
  ASSUME RowsInv, NEW s \in Servers, Zero(s)
  PROVE  /\ WritersInv' /\ MemTyped' /\ UNCHANGED updater
         /\ starter[s].at = "zero" /\ updater[s].at = "none"
         /\ starter'[s].at \in {"zero", "load"}
         /\ \A t \in Servers \ {s} : starter'[t] = starter[t] /\ mem'[t] = mem[t]
         /\ \A b \in 0..Size - 1 : mem'[s][b] \in {0, mem[s][b]}
<1>t. ManagerTyped /\ Writers(s) /\ MemTyped
  BY DEF RowsInv, DownInv, WritersInv
<1>1. starter[s].at = "zero" /\ updater[s].at = "none" /\ UNCHANGED updater
  BY <1>t DEF Zero, At, Writers, InService
<1>2. /\ starter'[s].at \in {"zero", "load"} /\ \A t \in Servers \ {s} : starter'[t] = starter[t]
      /\ starter'[s].at = "zero" => starter'[s].cur.i \in Nat \ {0}
  <2>1. CASE Over(s, starter[s].cur)
    BY <1>t, <2>1 DEF Zero, Goto, ManagerTyped
  <2>2. CASE ~Over(s, starter[s].cur)
    <3>1. starter' = [starter EXCEPT ![s].cur.i = @ + 1]
      BY <2>2 DEF Zero
    <3>2. starter[s].cur.i \in Nat /\ DOMAIN starter = Servers
      BY <1>t DEF ManagerTyped, Cursor
    <3>3. starter'[s].at = starter[s].at /\ starter'[s].cur.i = starter[s].cur.i + 1
      BY <1>t, <3>1 DEF ManagerTyped, Cursor
    <3> QED BY <1>1, <3>1, <3>2, <3>3
  <2> QED BY <2>1, <2>2
<1>3. WritersInv'
  <2>1. Writers(s)'
    BY <1>t, <1>1, <1>2 DEF Writers
  <2> QED BY <1>1, <1>2, <2>1, OneMoves DEF RowsInv
<1>4. PICK a : mem' = mem \/ mem' = [mem EXCEPT ![s][a] = 0]
  BY DEF Zero
<1>5. /\ MemTyped' /\ \A t \in Servers \ {s} : mem'[t] = mem[t]
      /\ \A b \in 0..Size - 1 : mem'[s][b] \in {0, mem[s][b]}
  <2>1. CASE mem' = mem
    BY <1>t, <2>1 DEF MemTyped
  <2>2. CASE mem' = [mem EXCEPT ![s][a] = 0]
    <3>1. 0 \in 0..NumRows \cup {Foreign}
      BY ManagerAssumption
    <3> QED BY <1>t, <2>2, <3>1, WriteTyped DEF MemTyped
  <2> QED BY <1>4, <2>1, <2>2
<1> QED BY <1>1, <1>2, <1>3, <1>5

(* The first row, which the goroutine of the server applies itself.         *)
FirstRowAt(s, cur) ==
  /\ cur = starter[s].cur /\ Paired(s, 1, cur)
  /\ \/ /\ Apply(s, 1, cur)
        /\ starter'[s].at = "row" /\ starter'[s].cur = After(s, 1, cur)
     \/ Over(s, cur) /\ mem' = mem /\ starter'[s].at = "spawn"

LEMMA FirstRowKeeps ==
  ASSUME RowsInv, NEW s \in Servers, FirstRow(s)
  PROVE  /\ WritersInv' /\ MemTyped' /\ UNCHANGED updater
         /\ starter[s].at = "row" /\ updater[s].at = "none"
         /\ \A t \in Servers \ {s} : starter'[t] = starter[t] /\ mem'[t] = mem[t]
         /\ \E cur \in Cursor : FirstRowAt(s, cur)
<1>t. ManagerTyped /\ Writers(s) /\ MemTyped /\ 1 \in Rows
  BY ManagerAssumption DEF RowsInv, DownInv, WritersInv, Rows
<1>0. PICK cur \in Cursor : cur = starter[s].cur
  BY <1>t DEF ManagerTyped
<1>1. /\ starter[s].at = "row" /\ updater[s].at = "none" /\ UNCHANGED updater
      /\ Paired(s, 1, cur)
  BY <1>t, <1>0 DEF FirstRow, At, Writers, InService
<1>3. CASE Apply(s, 1, cur) /\ starter' = [starter EXCEPT ![s].cur = After(s, 1, @)]
  <2>0. PICK next \in Cursor : next = After(s, 1, cur)
    BY AfterTyped
  <2>1. /\ starter'[s].at = "row" /\ starter'[s].cur = next
        /\ \A t \in Servers \ {s} : starter'[t] = starter[t]
    BY <1>t, <1>0, <1>1, <1>3, <2>0 DEF ManagerTyped
  <2>2. Paired(s, 1, next)
    BY <1>1, <1>3, <2>0, PairedAfter DEF Apply
  <2>3. WritersInv'
    <3>1. Writers(s)'
      BY <1>t, <1>1, <2>1, <2>2 DEF Writers
    <3> QED BY <1>1, <2>1, <3>1, OneMoves DEF RowsInv
  <2>4. MemTyped' /\ \A t \in Servers \ {s} : mem'[t] = mem[t]
    BY <1>t, <1>3, ApplyTyped
  <2>5. FirstRowAt(s, cur)
    BY <1>0, <1>1, <1>3, <2>0, <2>1 DEF FirstRowAt
  <2> QED BY <1>1, <2>1, <2>3, <2>4, <2>5
<1>4. CASE Over(s, cur) /\ Goto(s, "spawn") /\ UNCHANGED mem
  <2>1. starter'[s].at = "spawn" /\ \A t \in Servers \ {s} : starter'[t] = starter[t]
    BY <1>t, <1>4 DEF Goto, ManagerTyped
  <2>2. WritersInv'
    <3>1. Writers(s)'
      BY <1>t, <1>1, <2>1 DEF Writers
    <3> QED BY <1>1, <2>1, <3>1, OneMoves DEF RowsInv
  <2>3. FirstRowAt(s, cur)
    BY <1>0, <1>1, <1>4, <2>1 DEF FirstRowAt
  <2> QED BY <1>t, <1>1, <1>4, <2>1, <2>2, <2>3 DEF MemTyped
<1> QED BY <1>0, <1>3, <1>4 DEF FirstRow

(* The updater starts behind it.                                            *)
LEMMA SpawnKeeps ==
  ASSUME RowsInv, NEW s \in Servers, Spawn(s)
  PROVE  /\ WritersInv' /\ UNCHANGED mem
         /\ starter[s].at = "spawn" /\ updater[s].at = "none"
         /\ starter'[s].at = "serve" /\ updater'[s].at = "select" /\ updater'[s].row = 1
         /\ \A t \in Servers \ {s} : starter'[t] = starter[t] /\ updater'[t] = updater[t]
<1>t. ManagerTyped /\ Writers(s)
  BY DEF RowsInv, DownInv, WritersInv
<1>1. starter[s].at = "spawn" /\ updater[s].at = "none" /\ updater[s].row = 1 /\ UNCHANGED mem
  BY <1>t DEF Spawn, At, Writers, InService
<1>2. /\ starter'[s].at = "serve" /\ updater'[s].at = "select" /\ updater'[s].row = 1
      /\ \A t \in Servers \ {s} : starter'[t] = starter[t] /\ updater'[t] = updater[t]
  BY <1>t, <1>1 DEF Spawn, Goto, ManagerTyped
<1>3. Writers(s)'
  BY <1>t, <1>1, <1>2 DEF Writers, InService
<1> QED BY <1>1, <1>2, <1>3, OneMoves DEF RowsInv

(* Rows follow each other, and the first follows the last.                  *)
LEMMA RowBefore ==
  ASSUME NEW r \in Rows
  PROVE  /\ ((r + NumRows - 2) % NumRows) + 1 = IF r = 1 THEN NumRows ELSE r - 1
         /\ (r % NumRows) + 1 = IF r = NumRows THEN 1 ELSE r + 1
<1>1. NumRows \in Nat \ {0} /\ r \in 1..NumRows
  BY ManagerAssumption DEF Rows
<1>2. (r + NumRows - 2) % NumRows = IF r = 1 THEN NumRows - 1 ELSE r - 2
  BY <1>1
<1>3. r % NumRows = IF r = NumRows THEN 0 ELSE r
  BY <1>1
<1> QED BY <1>1, <1>2, <1>3

(* An updater takes the next row, or ends.                                  *)
LEMMA TickKeeps ==
  ASSUME RowsInv, NEW s \in Servers, Tick(s) \/ EndUpdater(s)
  PROVE  /\ WritersInv' /\ UNCHANGED <<starter, mem>>
         /\ updater[s].at = "select" /\ updater[s].row \in Rows
         /\ \A t \in Servers \ {s} : updater'[t] = updater[t]
         /\ \/ /\ updater'[s].at = "apply" /\ updater'[s].cur = First
               /\ updater'[s].row \in Rows
               /\ ((updater'[s].row + NumRows - 2) % NumRows) + 1 = updater[s].row
            \/ updater'[s].at = "ended" /\ updater'[s].row = updater[s].row
<1>t. ManagerTyped /\ Writers(s)
  BY DEF RowsInv, DownInv, WritersInv
<1>1. updater[s].at = "select" /\ UNCHANGED <<starter, mem>>
  BY DEF Tick, EndUpdater
<1>2. \A t \in Servers \ {s} : updater'[t] = updater[t]
  BY <1>t DEF Tick, EndUpdater, ManagerTyped
<1>3. PICK r \in Rows : r = updater[s].row
  BY <1>t DEF Writers
<1>4. CASE Tick(s)
  <2>0. PICK n \in Rows : n = (r % NumRows) + 1
    <3>1. NumRows \in Nat \ {0} /\ r \in 1..NumRows
      BY ManagerAssumption DEF Rows
    <3>2. (r % NumRows) + 1 = IF r = NumRows THEN 1 ELSE r + 1
      BY RowBefore
    <3>3. (r % NumRows) + 1 \in Rows
      BY <3>1, <3>2 DEF Rows
    <3> QED BY <3>3
  <2>1. updater'[s] = [at |-> "apply", row |-> n, cur |-> First]
    BY <1>t, <1>3, <1>4, <2>0 DEF Tick, ManagerTyped
  <2>2. Writers(s)'
    BY <1>t, <1>1, <2>1, PairedFirst DEF Writers
  <2>3. ((n + NumRows - 2) % NumRows) + 1 = r
    <3>1. NumRows \in Nat \ {0} /\ r \in 1..NumRows /\ n \in 1..NumRows
      BY ManagerAssumption DEF Rows
    <3>2. n = IF r = NumRows THEN 1 ELSE r + 1
      BY <2>0, RowBefore
    <3>3. ((n + NumRows - 2) % NumRows) + 1 = IF n = 1 THEN NumRows ELSE n - 1
      BY RowBefore
    <3> QED BY <3>1, <3>2, <3>3
  <2> QED BY <1>1, <1>2, <1>3, <2>1, <2>2, <2>3, OneMoves DEF RowsInv
<1>5. CASE EndUpdater(s)
  <2>1. updater'[s].at = "ended" /\ updater'[s].row = updater[s].row
    BY <1>t, <1>5 DEF EndUpdater, ManagerTyped
  <2>2. Writers(s)'
    BY <1>t, <1>1, <2>1 DEF Writers
  <2> QED BY <1>1, <1>2, <1>3, <2>1, <2>2, OneMoves DEF RowsInv
<1> QED BY <1>4, <1>5

(* An updater writes its row.                                               *)
UpdateAt(s, r, cur) ==
  /\ cur = updater[s].cur /\ r = updater[s].row /\ Paired(s, r, cur)
  /\ updater'[s].row = r
  /\ \/ /\ Apply(s, r, cur)
        /\ updater'[s].at = "apply" /\ updater'[s].cur = After(s, r, cur)
     \/ Over(s, cur) /\ mem' = mem /\ updater'[s].at = "select"

LEMMA UpdateKeeps ==
  ASSUME RowsInv, NEW s \in Servers, Update(s)
  PROVE  /\ WritersInv' /\ MemTyped' /\ UNCHANGED starter
         /\ updater[s].at = "apply"
         /\ \A t \in Servers \ {s} : updater'[t] = updater[t] /\ mem'[t] = mem[t]
         /\ \E r \in Rows, cur \in Cursor : UpdateAt(s, r, cur)
<1>t. ManagerTyped /\ Writers(s) /\ MemTyped
  BY DEF RowsInv, DownInv, WritersInv
<1>0. PICK cur \in Cursor, r \in Rows : cur = updater[s].cur /\ r = updater[s].row
  BY <1>t DEF ManagerTyped, Writers
<1>1. updater[s].at = "apply" /\ UNCHANGED starter /\ Paired(s, r, cur)
  BY <1>t, <1>0 DEF Update, Writers
<1>4. CASE Apply(s, r, cur) /\ updater' = [updater EXCEPT ![s].cur = After(s, r, @)]
  <2>0. PICK next \in Cursor : next = After(s, r, cur)
    BY AfterTyped
  <2>1. /\ updater'[s].at = "apply" /\ updater'[s].cur = next /\ updater'[s].row = r
        /\ \A t \in Servers \ {s} : updater'[t] = updater[t]
    BY <1>t, <1>0, <1>1, <1>4, <2>0 DEF ManagerTyped
  <2>2. Paired(s, r, next)
    BY <1>1, <1>4, <2>0, PairedAfter DEF Apply
  <2>3. Writers(s)'
    BY <1>t, <1>1, <2>1, <2>2 DEF Writers
  <2>4. MemTyped' /\ \A t \in Servers \ {s} : mem'[t] = mem[t]
    BY <1>t, <1>4, ApplyTyped
  <2>5. UpdateAt(s, r, cur)
    BY <1>0, <1>1, <1>4, <2>0, <2>1 DEF UpdateAt
  <2> QED BY <1>1, <2>1, <2>3, <2>4, <2>5, OneMoves DEF RowsInv
<1>5. CASE /\ Over(s, cur) /\ UNCHANGED mem
           /\ updater' = [updater EXCEPT ![s].at = "select", ![s].cur = First]
  <2>1. /\ updater'[s].at = "select" /\ updater'[s].row = r
        /\ \A t \in Servers \ {s} : updater'[t] = updater[t]
    BY <1>t, <1>0, <1>5 DEF ManagerTyped
  <2>2. Writers(s)'
    BY <1>t, <1>1, <2>1 DEF Writers
  <2>3. UpdateAt(s, r, cur)
    BY <1>0, <1>1, <1>5, <2>1 DEF UpdateAt
  <2> QED BY <1>t, <1>1, <1>5, <2>1, <2>2, <2>3, OneMoves DEF RowsInv, MemTyped
<1> QED BY <1>0, <1>4, <1>5 DEF Update

(* Clients write what they like.                                            *)
LEMMA ClientKeeps ==
  ASSUME RowsInv, NEW s \in Servers, ClientWrites(s)
  PROVE  /\ WritersInv' /\ MemTyped' /\ UNCHANGED <<starter, updater>>
         /\ \A t \in Servers \ {s} : mem'[t] = mem[t]
         /\ \A b \in 0..Size - 1 : mem'[s][b] \in {Foreign, mem[s][b]}
<1>t. MemTyped /\ UNCHANGED <<starter, updater>>
  BY DEF RowsInv, ClientWrites, goVars
<1>1. PICK a : mem' = [mem EXCEPT ![s][a] = Foreign]
  BY DEF ClientWrites
<1>2. /\ MemTyped' /\ \A t \in Servers \ {s} : mem'[t] = mem[t]
      /\ \A b \in 0..Size - 1 : mem'[s][b] \in {Foreign, mem[s][b]}
  BY <1>t, <1>1, WriteTyped DEF MemTyped
<1>3. WritersInv'
  BY <1>t DEF RowsInv, WritersInv, Writers
<1> QED BY <1>t, <1>2, <1>3

(* What touches neither the goroutines nor the registers. *)
Elsewhere ==
  \/ \E s \in Servers : Attach(s) \/ Detach(s)
  \/ TakeSnapshot \/ SnapshotPoint \/ SnapshotReturns \/ Cancel \/ RunReturns
  \/ UNCHANGED managerVars

LEMMA ElsewhereKeeps == ASSUME Elsewhere PROVE UNCHANGED <<starter, updater, mem>>
BY DEF Elsewhere, Attach, Detach, TakeSnapshot, SnapshotPoint, SnapshotReturns, Cancel, RunReturns,
       goVars, managerVars

(* Every step keeps the writers to their places. *)
LEMMA RowsNext == RowsInv /\ [Next]_managerVars => RowsInv'
<1> SUFFICES ASSUME RowsInv, [Next]_managerVars PROVE RowsInv'
  OBVIOUS
<1>1. DownInv'
  BY DownNext DEF RowsInv
<1>2. CASE \E s \in Servers : Starter(s)
  <2>1. PICK s \in Servers : Starter(s)
    BY <1>2
  <2>2. CASE Zero(s) \/ FirstRow(s) \/ Spawn(s)
    BY <1>1, <2>2, ZeroKeeps, FirstRowKeeps, SpawnKeeps DEF RowsInv, MemTyped
  <2>3. CASE ~(Zero(s) \/ FirstRow(s) \/ Spawn(s))
    BY <1>1, <2>1, <2>3, StagesKeep DEF Starter, RowsInv, MemTyped
  <2> QED BY <2>2, <2>3
<1>3. CASE \E s \in Servers : Tick(s) \/ EndUpdater(s) \/ Update(s) \/ ClientWrites(s)
  BY <1>1, <1>3, TickKeeps, UpdateKeeps, ClientKeeps DEF RowsInv, MemTyped
<1>4. CASE Elsewhere
  <2>1. UNCHANGED <<starter, updater, mem>>
    BY <1>4, ElsewhereKeeps
  <2> QED BY <1>1, <2>1 DEF RowsInv, WritersInv, Writers, MemTyped
<1> QED BY <1>2, <1>3, <1>4 DEF Next, Elsewhere

(* At first all registers are zero. *)
LEMMA RowsInit == Init => RowsInv
<1> SUFFICES ASSUME Init PROVE RowsInv
  OBVIOUS
<1>1. MemTyped
  BY ManagerAssumption DEF Init, MemTyped
<1>2. WritersInv
  BY ManagerAssumption DEF Init, WritersInv, Writers, Rows
<1> QED BY <1>1, <1>2, DownInit DEF RowsInv

----------------------------------------------------------------------------
(* The registers follow the rows *)

(* What a register shows of the rows. *)
Follows(s) ==
  \A i \in 1..Len(Layout[s]) : \A low \in BOOLEAN :
    IsWord(s, i, low) => mem[s][Reg(s, i, low)] \in May(s, i, RowAt(s, i, low))
FollowInv == RowsInv /\ \A s \in Servers : Follows(s)

(* A register that is not written keeps what it shows, at the same row.     *)
LEMMA FollowsFrame ==
  ASSUME NEW s \in Servers, Follows(s), mem'[s] = mem[s],
         \A i \in 1..Len(Layout[s]) : \A low \in BOOLEAN : RowAt(s, i, low)' = RowAt(s, i, low)
  PROVE  Follows(s)'
<1> SUFFICES ASSUME NEW i \in 1..Len(Layout[s]), NEW low \in BOOLEAN, IsWord(s, i, low)
             PROVE  mem'[s][Reg(s, i, low)] \in May(s, i, RowAt(s, i, low)')
  BY DEF Follows, IsWord, Reg, Target, Point, May, Shown
<1>1. mem[s][Reg(s, i, low)] \in May(s, i, RowAt(s, i, low))
  BY DEF Follows
<1> QED BY <1>1

(* One server moves.                                                        *)
LEMMA OneFollows ==
  ASSUME RowsInv', \A t \in Servers : Follows(t), NEW s \in Servers, Follows(s)',
         \A t \in Servers \ {s} :
           starter'[t] = starter[t] /\ updater'[t] = updater[t] /\ mem'[t] = mem[t]
  PROVE  FollowInv'
<1>1. ASSUME NEW t \in Servers, t # s
      PROVE  Follows(t)'
  <2>1. \A i, low : RowAt(t, i, low)' = RowAt(t, i, low)
    BY <1>1 DEF RowAt, At
  <2> QED BY <1>1, <2>1, FollowsFrame
<1> QED BY <1>1 DEF FollowInv

(* The goroutine of a server, outside the rows.                             *)
LEMMA StagesFollow ==
  ASSUME FollowInv, RowsInv', NEW s \in Servers,
         \/ AcquireSlot(s) \/ GiveUp(s) \/ Listen(s) \/ ListenFails(s) \/ Wake(s) \/ Register(s)
         \/ LoadCSV(s) \/ CloseListener(s) \/ Closed(s) \/ Unregister(s) \/ Stop(s)
  PROVE  FollowInv'
<1>1. /\ UNCHANGED <<updater, mem>>
      /\ \A t \in Servers \ {s} : starter'[t] = starter[t]
      /\ starter[s].at \notin {"row", "spawn"} /\ starter'[s].at # "spawn"
      /\ starter'[s].at = "row" => starter'[s].cur = First
  BY StagesKeep DEF FollowInv, RowsInv
<1>2. ASSUME NEW i \in 1..Len(Layout[s]), NEW low \in BOOLEAN
      PROVE  RowAt(s, i, low)' = RowAt(s, i, low)
  <2>1. Reached(i, low, First, 1, 0) = 0
    BY DEF Reached, First
  <2>2. starter'[s].at = "row" => Reached(i, low, starter'[s].cur, 1, 0) = 0
    BY <1>1, <2>1
  <2> QED BY <1>1, <2>2 DEF RowAt, At
<1> QED BY <1>1, <1>2, FollowsFrame, OneFollows DEF FollowInv

(* The zeros of the beginning.                                              *)
LEMMA ZeroFollows ==
  ASSUME FollowInv, RowsInv', NEW s \in Servers, Zero(s)
  PROVE  FollowInv'
<1>1. /\ UNCHANGED updater
      /\ starter[s].at = "zero" /\ updater[s].at = "none" /\ starter'[s].at \in {"zero", "load"}
      /\ \A t \in Servers \ {s} : starter'[t] = starter[t] /\ mem'[t] = mem[t]
      /\ \A b \in 0..Size - 1 : mem'[s][b] \in {0, mem[s][b]}
  BY ZeroKeeps DEF FollowInv
<1>2. Follows(s)'
  <2> SUFFICES ASSUME NEW i \in 1..Len(Layout[s]), NEW low \in BOOLEAN, IsWord(s, i, low)
               PROVE  mem'[s][Reg(s, i, low)] \in May(s, i, RowAt(s, i, low)')
    BY DEF Follows, IsWord, Reg, Target, Point, May, Shown
  <2>1. RowAt(s, i, low) = 0 /\ RowAt(s, i, low)' = 0
    BY <1>1 DEF RowAt, At
  <2>2. mem[s][Reg(s, i, low)] \in May(s, i, 0)
    BY <2>1 DEF FollowInv, Follows
  <2>3. 0 \in May(s, i, 0)
    BY DEF May
  <2>4. mem'[s][Reg(s, i, low)] \in {0, mem[s][Reg(s, i, low)]}
    BY <1>1, RegTyped
  <2> QED BY <2>1, <2>2, <2>3, <2>4
<1> QED BY <1>1, <1>2, OneFollows DEF FollowInv

(* The first row.                                                           *)
LEMMA FirstRowFollows ==
  ASSUME Separate, FollowInv, RowsInv', NEW s \in Servers, FirstRow(s)
  PROVE  FollowInv'
<1>1. /\ UNCHANGED updater /\ starter[s].at = "row" /\ updater[s].at = "none"
      /\ \A t \in Servers \ {s} : starter'[t] = starter[t] /\ mem'[t] = mem[t]
  BY FirstRowKeeps DEF FollowInv
<1>0. PICK cur \in Cursor : FirstRowAt(s, cur)
  BY FirstRowKeeps DEF FollowInv
<1>2. ASSUME NEW i \in 1..Len(Layout[s]), NEW low \in BOOLEAN
      PROVE  RowAt(s, i, low) = Reached(i, low, cur, 1, 0)
  BY <1>0, <1>1 DEF RowAt, At, FirstRowAt
<1>3. CASE Apply(s, 1, cur) /\ starter'[s].at = "row" /\ starter'[s].cur = After(s, 1, cur)
  <2>1. Follows(s)'
    <3> SUFFICES ASSUME NEW i \in 1..Len(Layout[s]), NEW low \in BOOLEAN, IsWord(s, i, low)
                 PROVE  mem'[s][Reg(s, i, low)] \in May(s, i, RowAt(s, i, low)')
      BY DEF Follows, IsWord, Reg, Target, Point, May, Shown
    <3>1. RowAt(s, i, low)' = Reached(i, low, After(s, 1, cur), 1, 0)
      BY <1>1, <1>3 DEF RowAt, At
    <3>2. mem[s][Reg(s, i, low)] \in May(s, i, Reached(i, low, cur, 1, 0))
      BY <1>2 DEF FollowInv, Follows
    <3>3. 1 \in Rows /\ Paired(s, 1, cur)
      BY <1>0, ManagerAssumption DEF Rows, FirstRowAt
    <3>4. mem'[s][Reg(s, i, low)] \in May(s, i, Reached(i, low, After(s, 1, cur), 1, 0))
      BY <1>3, <3>2, <3>3, WriterPasses DEF Before, FollowInv, RowsInv
    <3> QED BY <3>1, <3>4
  <2> QED BY <1>1, <2>1, OneFollows DEF FollowInv
<1>4. CASE Over(s, cur) /\ mem' = mem /\ starter'[s].at = "spawn"
  <2>1. ASSUME NEW i \in 1..Len(Layout[s]), NEW low \in BOOLEAN
        PROVE  RowAt(s, i, low)' = RowAt(s, i, low)
    <3>1. i < cur.i
      <4>1. Len(Layout[s]) \in Nat
        BY ManagerAssumption, LenProperties
      <4> QED BY <1>4, <4>1 DEF Over, Cursor
    <3>2. RowAt(s, i, low) = 1
      BY <1>2, <3>1 DEF Reached
    <3> QED BY <1>1, <1>4, <3>2 DEF RowAt, At
  <2> QED BY <1>1, <1>4, <2>1, FollowsFrame, OneFollows DEF FollowInv
<1> QED BY <1>0, <1>3, <1>4 DEF FirstRowAt

(* The updater starts, takes the next row, or ends.                         *)
LEMMA TurnsFollow ==
  ASSUME FollowInv, RowsInv', NEW s \in Servers, Spawn(s) \/ Tick(s) \/ EndUpdater(s)
  PROVE  FollowInv'
<1>1. /\ UNCHANGED mem
      /\ \A t \in Servers \ {s} : starter'[t] = starter[t] /\ updater'[t] = updater[t]
  BY SpawnKeeps, TickKeeps DEF FollowInv
<1>2. ASSUME NEW i \in 1..Len(Layout[s]), NEW low \in BOOLEAN
      PROVE  RowAt(s, i, low)' = RowAt(s, i, low)
  <2>1. CASE Spawn(s)
    BY <2>1, SpawnKeeps DEF FollowInv, RowAt, At
  <2>2. CASE Tick(s) \/ EndUpdater(s)
    <3>1. \A n, r : Reached(i, low, First, n, r) = r
      BY DEF Reached, First
    <3>2. updater'[s].at = "apply" => Reached(i, low, updater'[s].cur, updater'[s].row, updater[s].row)
                                        = updater[s].row
      BY <2>2, <3>1, TickKeeps DEF FollowInv
    <3> QED BY <2>2, <3>2, TickKeeps DEF FollowInv, RowAt
  <2> QED BY <2>1, <2>2
<1> QED BY <1>1, <1>2, FollowsFrame, OneFollows DEF FollowInv

(* An updater writes its row.                                               *)
LEMMA UpdateFollows ==
  ASSUME Separate, FollowInv, RowsInv', NEW s \in Servers, Update(s)
  PROVE  FollowInv'
<1>1. /\ UNCHANGED starter /\ updater[s].at = "apply"
      /\ \A t \in Servers \ {s} : updater'[t] = updater[t] /\ mem'[t] = mem[t]
  BY UpdateKeeps DEF FollowInv
<1>0. PICK r \in Rows, cur \in Cursor : UpdateAt(s, r, cur)
  BY UpdateKeeps DEF FollowInv
<1> DEFINE before == ((r + NumRows - 2) % NumRows) + 1
<1>2. Before(r, before)
  BY RowBefore DEF Before
<1>3. ASSUME NEW i \in 1..Len(Layout[s]), NEW low \in BOOLEAN
      PROVE  RowAt(s, i, low) = Reached(i, low, cur, r, before)
  BY <1>0, <1>1 DEF RowAt, UpdateAt
<1>4. CASE Apply(s, r, cur) /\ updater'[s].at = "apply" /\ updater'[s].cur = After(s, r, cur)
  <2>1. Follows(s)'
    <3> SUFFICES ASSUME NEW i \in 1..Len(Layout[s]), NEW low \in BOOLEAN, IsWord(s, i, low)
                 PROVE  mem'[s][Reg(s, i, low)] \in May(s, i, RowAt(s, i, low)')
      BY DEF Follows, IsWord, Reg, Target, Point, May, Shown
    <3>1. RowAt(s, i, low)' = Reached(i, low, After(s, r, cur), r, before)
      BY <1>0, <1>4 DEF RowAt, UpdateAt
    <3>2. mem[s][Reg(s, i, low)] \in May(s, i, Reached(i, low, cur, r, before))
      BY <1>3 DEF FollowInv, Follows
    <3> HIDE DEF before
    <3>3. mem'[s][Reg(s, i, low)] \in May(s, i, Reached(i, low, After(s, r, cur), r, before))
      BY <1>0, <1>2, <1>4, <3>2, WriterPasses DEF UpdateAt, FollowInv, RowsInv
    <3> QED BY <3>1, <3>3
  <2> QED BY <1>1, <2>1, OneFollows DEF FollowInv
<1>5. CASE Over(s, cur) /\ mem' = mem /\ updater'[s].at = "select"
  <2>1. ASSUME NEW i \in 1..Len(Layout[s]), NEW low \in BOOLEAN
        PROVE  RowAt(s, i, low)' = RowAt(s, i, low)
    <3>1. i < cur.i
      <4>1. Len(Layout[s]) \in Nat
        BY ManagerAssumption, LenProperties
      <4> QED BY <1>5, <4>1 DEF Over, Cursor
    <3>2. RowAt(s, i, low) = r
      BY <1>3, <3>1 DEF Reached
    <3> QED BY <1>0, <1>5, <3>2 DEF RowAt, UpdateAt
  <2> QED BY <1>1, <1>5, <2>1, FollowsFrame, OneFollows DEF FollowInv
<1> QED BY <1>0, <1>4, <1>5 DEF UpdateAt

(* A client writes.                                                         *)
LEMMA ClientFollows ==
  ASSUME FollowInv, RowsInv', NEW s \in Servers, ClientWrites(s)
  PROVE  FollowInv'
<1>1. /\ UNCHANGED <<starter, updater>> /\ \A t \in Servers \ {s} : mem'[t] = mem[t]
      /\ \A b \in 0..Size - 1 : mem'[s][b] \in {Foreign, mem[s][b]}
  BY ClientKeeps DEF FollowInv
<1>2. Follows(s)'
  <2> SUFFICES ASSUME NEW i \in 1..Len(Layout[s]), NEW low \in BOOLEAN, IsWord(s, i, low)
               PROVE  mem'[s][Reg(s, i, low)] \in May(s, i, RowAt(s, i, low)')
    BY DEF Follows, IsWord, Reg, Target, Point, May, Shown
  <2>1. RowAt(s, i, low)' = RowAt(s, i, low)
    BY <1>1 DEF RowAt, At
  <2>2. mem[s][Reg(s, i, low)] \in May(s, i, RowAt(s, i, low))
    BY DEF FollowInv, Follows
  <2>3. Foreign \in May(s, i, RowAt(s, i, low))
    BY DEF May
  <2>4. mem'[s][Reg(s, i, low)] \in {Foreign, mem[s][Reg(s, i, low)]}
    BY <1>1, RegTyped
  <2> QED BY <2>1, <2>2, <2>3, <2>4
<1> QED BY <1>1, <1>2, OneFollows DEF FollowInv

(* At first all is zero. *)
LEMMA FollowInit == Init => FollowInv
<1> SUFFICES ASSUME Init PROVE FollowInv
  OBVIOUS
<1>1. ASSUME NEW s \in Servers, NEW i \in 1..Len(Layout[s]), NEW low \in BOOLEAN,
             IsWord(s, i, low)
      PROVE  mem[s][Reg(s, i, low)] \in May(s, i, RowAt(s, i, low))
  <2>1. RowAt(s, i, low) = 0
    BY DEF Init, RowAt, At
  <2>2. mem[s][Reg(s, i, low)] = 0
    BY <1>1, RegTyped DEF Init
  <2> QED BY <2>1, <2>2 DEF May
<1> QED BY <1>1, RowsInit DEF FollowInv, Follows

(* Every step keeps the registers behind the rows. *)
LEMMA FollowNext == Separate /\ FollowInv /\ [Next]_managerVars => FollowInv'
<1> SUFFICES ASSUME Separate, FollowInv, [Next]_managerVars PROVE FollowInv'
  OBVIOUS
<1>1. RowsInv'
  BY RowsNext DEF FollowInv
<1>2. CASE \E s \in Servers : Starter(s)
  BY <1>1, <1>2, StagesFollow, ZeroFollows, FirstRowFollows, TurnsFollow DEF Starter
<1>3. CASE \E s \in Servers : Tick(s) \/ EndUpdater(s) \/ Update(s) \/ ClientWrites(s)
  BY <1>1, <1>3, TurnsFollow, UpdateFollows, ClientFollows
<1>4. CASE Elsewhere
  <2>1. UNCHANGED <<starter, updater, mem>>
    BY <1>4, ElsewhereKeeps
  <2>2. ASSUME NEW s \in Servers PROVE Follows(s)'
    <3>1. \A i, low : RowAt(s, i, low)' = RowAt(s, i, low)
      BY <2>1 DEF RowAt, At
    <3> QED BY <2>1, <3>1, FollowsFrame DEF FollowInv
  <2> QED BY <1>1, <2>2 DEF FollowInv
<1> QED BY <1>2, <1>3, <1>4 DEF Next, Elsewhere

(* The registers follow the rows, when no two points share a register: a    *)
(* client sees at most two adjacent rows, and the words of a float         *)
(* disagree only between two calls of the setter.                          *)
THEOREM RegistersFollow ==
  ASSUME Separate
  PROVE  Spec => []RegistersFollowTheRows
<1>1. FollowInv => RegistersFollowTheRows
  BY DEF FollowInv, Follows, RegistersFollowTheRows, IsWord, Reg, May
<1>2. FollowInv /\ [Next]_managerVars => FollowInv'
  BY FollowNext
<1> QED BY <1>1, <1>2, FollowInit, PTL DEF Spec, SafeSpec

----------------------------------------------------------------------------
(* Snapshots *)

(* What FlattenSeq computes, by its own recursion.                          *)
IsFlatten(f, ss, n) == f = [i \in 1..n |-> IF i = 1 THEN ss[i] ELSE f[i - 1] \o ss[i]]

LEMMA FlattenExists ==
  ASSUME NEW ss
  PROVE  \A n \in Nat : \E f : IsFlatten(f, ss, n)
<1> DEFINE T == {n \in Nat : \E f : IsFlatten(f, ss, n)}
<1>1. 0 \in T
  <2> DEFINE f == [i \in 1..0 |-> <<>>]
  <2>1. f = [i \in 1..0 |-> IF i = 1 THEN ss[i] ELSE f[i - 1] \o ss[i]]
    OBVIOUS
  <2> QED BY <2>1 DEF IsFlatten
<1>2. ASSUME NEW n \in Nat, n \in T PROVE n + 1 \in T
  <2>1. PICK f : IsFlatten(f, ss, n)
    BY <1>2
  <2> DEFINE last == IF n + 1 = 1 THEN ss[n + 1] ELSE f[n] \o ss[n + 1]
             g == [i \in 1..n + 1 |-> IF i = n + 1 THEN last ELSE f[i]]
  <2>2. f = [i \in 1..n |-> IF i = 1 THEN ss[i] ELSE f[i - 1] \o ss[i]]
    BY <2>1 DEF IsFlatten
  <2>3. ASSUME NEW i \in 1..n + 1
        PROVE  g[i] = IF i = 1 THEN ss[i] ELSE g[i - 1] \o ss[i]
    <3>1. CASE i = n + 1
      <4>1. g[i] = last /\ (i # 1 => i - 1 \in 1..n + 1 /\ i - 1 = n /\ g[i - 1] = f[n])
        BY <3>1
      <4> QED BY <3>1, <4>1
    <3>2. CASE i # n + 1
      <4>1. i \in 1..n /\ g[i] = f[i]
        BY <3>2
      <4>2. f[i] = IF i = 1 THEN ss[i] ELSE f[i - 1] \o ss[i]
        <5> HIDE DEF g
        <5> QED BY <2>2, <4>1
      <4>3. i # 1 => i - 1 \in 1..n + 1 /\ i - 1 # n + 1
        BY <4>1
      <4>4. i # 1 => g[i - 1] = f[i - 1]
        BY <4>3
      <4> QED BY <4>1, <4>2, <4>4
    <3> QED BY <3>1, <3>2
  <2>4. g = [i \in 1..n + 1 |-> g[i]]
    OBVIOUS
  <2> HIDE DEF g
  <2>5. IsFlatten(g, ss, n + 1)
    BY <2>3, <2>4 DEF IsFlatten
  <2> QED BY <2>5
<1>3. Nat \subseteq T
  <2> HIDE DEF T
  <2> QED BY <1>1, <1>2, SetInduction
<1> QED BY <1>3

(* It leaves out no element of any of the sequences.                        *)
LEMMA FlattenHolds ==
  ASSUME NEW V, NEW ss \in Seq(Seq(V))
  PROVE  /\ FlattenSeq(ss) \in Seq(V)
         /\ \A k \in 1..Len(ss) : ToSet(ss[k]) \subseteq ToSet(FlattenSeq(ss))
<1> DEFINE n == Len(ss)
           f == CHOOSE g : IsFlatten(g, ss, n)
<1>1. n \in Nat /\ \A i \in 1..n : ss[i] \in Seq(V)
  BY LenProperties, ElementOfSeq
<1>2. IsFlatten(f, ss, n)
  BY <1>1, FlattenExists
<1>3. FlattenSeq(ss) = IF n = 0 THEN ss ELSE f[n]
  BY DEF FlattenSeq, IsFlatten
<1> HIDE DEF f
<1>4. \A i \in 1..n : f[i] = IF i = 1 THEN ss[i] ELSE f[i - 1] \o ss[i]
  BY <1>2 DEF IsFlatten
<1> DEFINE Good(i) == f[i] \in Seq(V) /\ \A k \in 1..i : ToSet(ss[k]) \subseteq ToSet(f[i])
           T == {i \in Nat : i \in 1..n => Good(i)}
<1>5. 0 \in T
  OBVIOUS
<1>6. ASSUME NEW i \in Nat, i \in T PROVE i + 1 \in T
  <2> SUFFICES ASSUME i + 1 \in 1..n PROVE Good(i + 1)
    OBVIOUS
  <2>1. CASE i = 0
    <3>1. f[1] = ss[1] /\ 1 \in 1..n
      BY <1>4, <2>1
    <3> QED BY <1>1, <2>1, <3>1
  <2>2. CASE i # 0
    <3>1. i \in 1..n /\ i + 1 # 1 /\ (i + 1) - 1 = i
      BY <1>1, <2>2
    <3>2. Good(i) /\ f[i + 1] = f[i] \o ss[i + 1] /\ ss[i + 1] \in Seq(V)
      BY <1>1, <1>4, <1>6, <3>1
    <3>3. /\ f[i + 1] \in Seq(V)
          /\ ToSet(f[i]) \subseteq ToSet(f[i + 1]) /\ ToSet(ss[i + 1]) \subseteq ToSet(f[i + 1])
      <4> DEFINE a == f[i]
                 b == ss[i + 1]
      <4>1. a \in Seq(V) /\ b \in Seq(V) /\ f[i + 1] = a \o b
        BY <3>2
      <4> HIDE DEF a, b
      <4>2. /\ a \o b \in Seq(V) /\ Len(a \o b) = Len(a) + Len(b)
            /\ \A j \in 1..Len(a) : (a \o b)[j] = a[j]
            /\ \A j \in 1..Len(b) : (a \o b)[Len(a) + j] = b[j]
            /\ Len(a) \in Nat /\ Len(b) \in Nat
            /\ DOMAIN a = 1..Len(a) /\ DOMAIN b = 1..Len(b) /\ DOMAIN (a \o b) = 1..Len(a \o b)
        BY <4>1, ConcatProperties, LenProperties
      <4>3. ToSet(a) \subseteq ToSet(a \o b)
        BY <4>2 DEF ToSet
      <4>4. ASSUME NEW j \in 1..Len(b)
            PROVE  b[j] \in ToSet(a \o b)
        <5>1. Len(a) + j \in DOMAIN (a \o b)
          BY <4>2
        <5> QED BY <4>2, <5>1 DEF ToSet
      <4>5. ToSet(b) \subseteq ToSet(a \o b)
        BY <4>2, <4>4 DEF ToSet
      <4> QED BY <4>1, <4>2, <4>3, <4>5 DEF a, b
    <3>4. \A k \in 1..i + 1 : k \in 1..i \/ k = i + 1
      OBVIOUS
    <3> QED BY <3>2, <3>3, <3>4
  <2> QED BY <2>1, <2>2
<1>7. Nat \subseteq T
  <2> HIDE DEF T
  <2> QED BY <1>5, <1>6, SetInduction
<1>8. CASE n = 0
  BY <1>3, <1>8, EmptySeq
<1>9. CASE n # 0
  <2>1. n \in 1..n /\ n \in T
    BY <1>1, <1>7, <1>9
  <2>2. Good(n)
    BY <2>1
  <2> QED BY <1>3, <1>9, <2>2
<1> QED BY <1>8, <1>9

(* The points that a first row has reached: none of their first registers   *)
(* is zero any more, because nothing but the beginning writes zeros.        *)
RowDone(s, i) ==
  \/ updater[s].at # "none"
  \/ starter[s].at = "spawn"
  \/ starter[s].at = "row" /\ (i < starter[s].cur.i \/ (i = starter[s].cur.i /\ starter[s].cur.low))
Filled(s) ==
  \A i \in 1..Len(Layout[s]) :
    Takes(Layout[s][i], 1) /\ RowDone(s, i) => mem[s][Layout[s][i].addr] # 0

(* From its entry to its removal a server is in the map.                    *)
Registered == \A s \in Servers : starter[s].at \in InMap => s \in registered

SnapPoints == {<<s, i>> : s \in Servers, i \in Nat}
SnapTyped ==
  /\ snap.left \in Seq(SnapPoints)
  /\ DOMAIN snap = {"at", "left", "ready", "vals"}
  /\ \A x \in snap.ready :
       /\ x \in SnapPoints /\ x[2] \in 1..Len(Layout[x[1]])
       /\ updater[x[1]].at # "none"
SnapInv ==
  /\ RowsInv /\ Registered /\ (\A s \in Servers : Filled(s))
  /\ SnapTyped /\ SnapshotShowsRows

LEMMA FilledFrame ==
  ASSUME NEW s \in Servers, Filled(s), \A i \in 1..Len(Layout[s]) : RowDone(s, i)' => RowDone(s, i),
         \A b \in 0..Size - 1 : mem[s][b] # 0 => mem'[s][b] # 0
  PROVE  Filled(s)'
<1> SUFFICES ASSUME NEW i \in 1..Len(Layout[s]), Takes(Layout[s][i], 1), RowDone(s, i)'
             PROVE  mem'[s][Layout[s][i].addr] # 0
  BY DEF Filled, Takes
<1>1. Layout[s][i].addr \in 0..Size - 1
  BY PointTyped DEF PointType
<1> QED BY <1>1 DEF Filled

(* One server moves.                                                        *)
LEMMA OneFilled ==
  ASSUME \A t \in Servers : Filled(t), NEW s \in Servers, Filled(s)',
         \A t \in Servers \ {s} :
           starter'[t] = starter[t] /\ updater'[t] = updater[t] /\ mem'[t] = mem[t]
  PROVE  (\A t \in Servers : Filled(t))'
<1>1. ASSUME NEW t \in Servers, t # s
      PROVE  Filled(t)'
  <2>1. \A i : RowDone(t, i)' => RowDone(t, i)
    BY <1>1 DEF RowDone
  <2> QED BY <1>1, <2>1, FilledFrame
<1> QED BY <1>1

(* A row number is never zero.                                              *)
LEMMA ApplyFills ==
  ASSUME MemTyped, NEW s \in Servers, NEW r \in Rows, NEW cur, Apply(s, r, cur)
  PROVE  \A b \in 0..Size - 1 : mem[s][b] # 0 => mem'[s][b] # 0
<1>1. r # 0
  BY DEF Rows
<1>2. mem' = mem \/ mem' = [mem EXCEPT ![s][Target(s, cur)] = r]
  BY DEF Apply
<1> QED BY <1>1, <1>2 DEF MemTyped

(* The first row reaches one point more.                                    *)
LEMMA FirstRowFills ==
  ASSUME RowsInv, \A t \in Servers : Filled(t), NEW s \in Servers, FirstRow(s)
  PROVE  (\A t \in Servers : Filled(t))'
<1>1. /\ UNCHANGED updater /\ starter[s].at = "row" /\ updater[s].at = "none"
      /\ \A t \in Servers \ {s} : starter'[t] = starter[t] /\ mem'[t] = mem[t]
      /\ MemTyped
  BY FirstRowKeeps DEF RowsInv
<1>0. PICK cur \in Cursor : FirstRowAt(s, cur)
  BY FirstRowKeeps
<1>2. cur = starter[s].cur /\ cur.i \in Nat /\ cur.low \in BOOLEAN /\ Paired(s, 1, cur)
  BY <1>0 DEF FirstRowAt, Cursor
<1>3. CASE Apply(s, 1, cur) /\ starter'[s].at = "row" /\ starter'[s].cur = After(s, 1, cur)
  <2>0. PICK next \in Cursor : next = After(s, 1, cur)
    BY AfterTyped
  <2>1. 1 \in Rows
    BY ManagerAssumption DEF Rows
  <2>2. \A b \in 0..Size - 1 : mem[s][b] # 0 => mem'[s][b] # 0
    BY <1>1, <1>3, <2>1, ApplyFills
  <2>3. Filled(s)'
    <3> SUFFICES ASSUME NEW i \in 1..Len(Layout[s]), Takes(Layout[s][i], 1), RowDone(s, i)'
                 PROVE  mem'[s][Layout[s][i].addr] # 0
      BY DEF Filled, Takes
    <3>1. Layout[s][i].addr \in 0..Size - 1
      BY PointTyped DEF PointType
    <3>2. CASE RowDone(s, i)
      BY <2>2, <3>1, <3>2 DEF Filled
    <3>3. CASE ~RowDone(s, i)
      <4>1. i < next.i \/ (i = next.i /\ next.low)
        BY <1>1, <1>3, <2>0 DEF RowDone
      <4>2. ~(i < cur.i) /\ ~(i = cur.i /\ cur.low)
        BY <1>1, <1>2, <3>3 DEF RowDone
      <4>3. i = cur.i /\ ~cur.low
        <5>1. (next.i = cur.i /\ next.low) \/ (next.i = cur.i + 1 /\ ~next.low)
          BY <2>0 DEF After, Cursor
        <5> QED BY <1>2, <4>1, <4>2, <5>1
      <4>4. Point(s, cur) = Layout[s][i] /\ Target(s, cur) = Reg(s, i, FALSE)
        BY <4>3 DEF Point, Target, Reg
      <4>5. Reg(s, i, FALSE) = Layout[s][i].addr
        BY RegTyped DEF IsWord
      <4>6. mem' = [mem EXCEPT ![s][Layout[s][i].addr] = 1]
        BY <1>3, <4>3, <4>4, <4>5 DEF Apply
      <4>7. PICK a \in 0..Size - 1 : a = Layout[s][i].addr
        BY <3>1
      <4>8. DOMAIN mem = Servers /\ DOMAIN mem[s] = 0..Size - 1
        BY <1>1 DEF MemTyped
      <4>9. mem'[s][a] = 1
        BY <4>6, <4>7, <4>8
      <4> QED BY <4>7, <4>9
    <3> QED BY <3>2, <3>3
  <2> QED BY <1>1, <2>3, OneFilled
<1>4. CASE Over(s, cur) /\ mem' = mem /\ starter'[s].at = "spawn"
  <2>1. ASSUME NEW i \in 1..Len(Layout[s])
        PROVE  RowDone(s, i)
    <3>1. Len(Layout[s]) \in Nat
      BY ManagerAssumption, LenProperties
    <3> QED BY <1>1, <1>2, <1>4, <3>1 DEF Over, RowDone
  <2>2. Filled(s)'
    BY <1>4, <2>1, FilledFrame
  <2> QED BY <1>1, <1>4, <2>2, OneFilled
<1> QED BY <1>0, <1>3, <1>4 DEF FirstRowAt

(* Every step keeps them so.                                                *)
LEMMA FilledNext ==
  ASSUME RowsInv, \A s \in Servers : Filled(s), [Next]_managerVars
  PROVE  (\A s \in Servers : Filled(s))'
<1>1. ASSUME NEW s \in Servers, Starter(s)
      PROVE  (\A t \in Servers : Filled(t))'
  <2>1. CASE FirstRow(s)
    BY <2>1, FirstRowFills
  <2>2. CASE Zero(s)
    <3>1. /\ UNCHANGED updater /\ updater[s].at = "none" /\ starter'[s].at \in {"zero", "load"}
          /\ \A t \in Servers \ {s} : starter'[t] = starter[t] /\ mem'[t] = mem[t]
      BY <2>2, ZeroKeeps
    <3>2. Filled(s)'
      BY <3>1 DEF Filled, RowDone
    <3> QED BY <3>1, <3>2, OneFilled
  <2>3. CASE Spawn(s)
    <3>1. /\ UNCHANGED mem /\ starter[s].at = "spawn"
          /\ \A t \in Servers \ {s} : starter'[t] = starter[t] /\ updater'[t] = updater[t]
      BY <2>3, SpawnKeeps
    <3>2. Filled(s)'
      BY <3>1, FilledFrame DEF RowDone
    <3> QED BY <3>1, <3>2, OneFilled
  <2>4. CASE ~(FirstRow(s) \/ Zero(s) \/ Spawn(s))
    <3>1. /\ UNCHANGED <<updater, mem>>
          /\ \A t \in Servers \ {s} : starter'[t] = starter[t]
          /\ starter'[s].at # "spawn"
          /\ starter'[s].at = "row" => starter'[s].cur = First
      BY <1>1, <2>4, StagesKeep DEF Starter, RowsInv
    <3>2. ASSUME NEW i \in 1..Len(Layout[s]), RowDone(s, i)'
          PROVE  RowDone(s, i)
      BY <3>1, <3>2 DEF RowDone, First
    <3>3. Filled(s)'
      BY <3>1, <3>2, FilledFrame
    <3> QED BY <3>1, <3>3, OneFilled
  <2> QED BY <2>1, <2>2, <2>3, <2>4
<1>2. ASSUME NEW s \in Servers, Tick(s) \/ EndUpdater(s) \/ Update(s) \/ ClientWrites(s)
      PROVE  (\A t \in Servers : Filled(t))'
  <2>1. CASE Tick(s) \/ EndUpdater(s)
    <3>1. /\ UNCHANGED <<starter, mem>> /\ updater[s].at = "select"
          /\ \A t \in Servers \ {s} : updater'[t] = updater[t]
      BY <2>1, TickKeeps
    <3>2. Filled(s)'
      BY <3>1, FilledFrame DEF RowDone
    <3> QED BY <3>1, <3>2, OneFilled
  <2>2. CASE Update(s)
    <3>1. /\ UNCHANGED starter /\ updater[s].at = "apply" /\ MemTyped
          /\ \A t \in Servers \ {s} : updater'[t] = updater[t] /\ mem'[t] = mem[t]
      BY <2>2, UpdateKeeps DEF RowsInv
    <3>2. PICK r \in Rows, cur \in Cursor : UpdateAt(s, r, cur)
      BY <2>2, UpdateKeeps
    <3>3. \A b \in 0..Size - 1 : mem[s][b] # 0 => mem'[s][b] # 0
      BY <3>1, <3>2, ApplyFills DEF UpdateAt
    <3>4. Filled(s)'
      BY <3>1, <3>3, FilledFrame DEF RowDone
    <3> QED BY <3>1, <3>4, OneFilled
  <2>3. CASE ClientWrites(s)
    <3>1. /\ UNCHANGED <<starter, updater>> /\ \A t \in Servers \ {s} : mem'[t] = mem[t]
          /\ \A b \in 0..Size - 1 : mem'[s][b] \in {Foreign, mem[s][b]}
      BY <2>3, ClientKeeps
    <3>2. Foreign # 0
      BY ManagerAssumption
    <3>3. Filled(s)'
      BY <3>1, <3>2, FilledFrame DEF RowDone
    <3> QED BY <3>1, <3>3, OneFilled
  <2> QED BY <1>2, <2>1, <2>2, <2>3
<1>3. CASE Elsewhere
  <2>1. UNCHANGED <<starter, updater, mem>>
    BY <1>3, ElsewhereKeeps
  <2> QED BY <2>1, FilledFrame DEF RowDone
<1> QED BY <1>1, <1>2, <1>3 DEF Next, Elsewhere

(* A server leaves the map as the last thing before it stops.               *)
LEMMA RegisteredNext ==
  ASSUME RowsInv, Registered, [Next]_managerVars
  PROVE  Registered'
<1>1. ASSUME NEW s \in Servers, Starter(s)
      PROVE  Registered'
  <2>1. \A t \in Servers \ {s} : starter'[t] = starter[t]
    <3>1. CASE Zero(s) \/ FirstRow(s) \/ Spawn(s)
      BY <3>1, ZeroKeeps, FirstRowKeeps, SpawnKeeps
    <3>2. CASE ~(Zero(s) \/ FirstRow(s) \/ Spawn(s))
      BY <1>1, <3>2, StagesKeep DEF Starter, RowsInv
    <3> QED BY <3>1, <3>2
  <2>2. CASE Register(s)
    BY <2>1, <2>2 DEF Register, Registered
  <2>3. CASE Unregister(s)
    BY <2>1, <2>3 DEF Unregister, Goto, RowsInv, DownInv, ManagerTyped, Registered, InMap
  <2>4. CASE ~(Register(s) \/ Unregister(s))
    <3>1. UNCHANGED registered
      BY <1>1, <2>4 DEF Starter, AcquireSlot, GiveUp, Listen, ListenFails, Wake, Zero, LoadCSV,
         FirstRow, Spawn, CloseListener, Closed, Stop
    <3>2. starter'[s].at \in InMap => starter[s].at \in InMap
      <4>1. CASE Wake(s) \/ ListenFails(s)
        BY <4>1 DEF Wake, ListenFails, Finish, Goto, At, RowsInv, DownInv, ManagerTyped,
                    InMap
      <4>2. CASE AcquireSlot(s) \/ GiveUp(s) \/ Listen(s) \/ Stop(s)
        BY <4>2 DEF AcquireSlot, GiveUp, Listen, Stop, Finish, Goto, At, RowsInv, DownInv, ManagerTyped,
                    InMap
      <4>3. CASE Zero(s) \/ LoadCSV(s) \/ FirstRow(s) \/ Spawn(s) \/ CloseListener(s) \/ Closed(s)
        BY <4>3 DEF Zero, LoadCSV, FirstRow, Spawn, CloseListener, Closed, At, InMap
      <4> QED BY <1>1, <2>4, <4>1, <4>2, <4>3 DEF Starter
    <3> QED BY <2>1, <3>1, <3>2 DEF Registered
  <2> QED BY <2>2, <2>3, <2>4
<1>2. CASE UNCHANGED <<starter, registered>>
  BY <1>2 DEF Registered
<1> QED BY <1>1, <1>2
        DEF Next, Tick, EndUpdater, Update, Attach, Detach, ClientWrites, TakeSnapshot,
            SnapshotPoint, SnapshotReturns, Cancel, RunReturns, goVars, managerVars

(* What the points of a server are to a snapshot. *)
LEMMA PointsListed ==
  ASSUME NEW s \in Servers
  PROVE  /\ PointsOf(s) \in Seq(SnapPoints)
         /\ ToSet(PointsOf(s)) = {<<s, i>> : i \in 1..Len(Layout[s])}
<1>1. Len(Layout[s]) \in Nat
  BY ManagerAssumption, LenProperties
<1>2. PointsOf(s) \in Seq(SnapPoints)
  <2>1. PointsOf(s) \in [1..Len(Layout[s]) -> SnapPoints]
    BY <1>1 DEF PointsOf, SnapPoints
  <2> QED BY <1>1, <2>1, SeqDef
<1>3. ToSet(PointsOf(s)) = {<<s, i>> : i \in 1..Len(Layout[s])}
  BY DEF ToSet, PointsOf
<1> QED BY <1>2, <1>3

(* A snapshot begins: it has every point of the servers being updated,      *)
(* which are in the map, still ahead.                                      *)
LEMMA SnapshotBegins ==
  ASSUME SnapInv, TakeSnapshot
  PROVE  SnapTyped' /\ SnapshotShowsRows'
<1> DEFINE points == [k \in 1..Len(ServerOrder) |->
                        IF ServerOrder[k] \in registered THEN PointsOf(ServerOrder[k]) ELSE <<>>]
<1>1. /\ snap'.left = FlattenSeq(points) /\ snap'.ready = Live /\ DOMAIN snap' = DOMAIN snap
      /\ UNCHANGED <<updater, starter>>
  BY DEF TakeSnapshot, SnapInv, SnapTyped, goVars
<1>2. /\ Len(ServerOrder) \in Nat
      /\ \A k \in 1..Len(ServerOrder) : points[k] \in Seq(SnapPoints)
      /\ points \in Seq(Seq(SnapPoints)) /\ Len(points) = Len(ServerOrder)
  <2>1. Len(ServerOrder) \in Nat /\ \A k \in 1..Len(ServerOrder) : ServerOrder[k] \in Servers
    BY ManagerAssumption, LenProperties DEF Servers
  <2>2. \A k \in 1..Len(ServerOrder) : points[k] \in Seq(SnapPoints)
    BY <2>1, PointsListed, EmptySeq
  <2>3. points \in [1..Len(ServerOrder) -> Seq(SnapPoints)]
    BY <2>2
  <2>4. points \in Seq(Seq(SnapPoints))
    BY <2>1, <2>3, SeqDef
  <2>5. Len(points) = Len(ServerOrder)
    <3>1. DOMAIN points = 1..Len(ServerOrder)
      OBVIOUS
    <3> HIDE DEF points
    <3> QED BY <2>1, <2>4, <3>1, LenProperties
  <2> QED BY <2>1, <2>2, <2>4, <2>5
<1>3. /\ FlattenSeq(points) \in Seq(SnapPoints)
      /\ \A k \in 1..Len(ServerOrder) : ToSet(points[k]) \subseteq ToSet(FlattenSeq(points))
  <2> HIDE DEF points
  <2> QED BY <1>2, FlattenHolds
<1>4. ASSUME NEW x \in Live
      PROVE  /\ x \in SnapPoints /\ x[2] \in 1..Len(Layout[x[1]]) /\ updater[x[1]].at # "none"
             /\ x \in ToSet(FlattenSeq(points))
  <2>1. PICK s \in Servers : At(s, "serve") /\ updater[s].at # "none" /\ x \in ToSet(PointsOf(s))
    BY <1>4 DEF Live
  <2>2. PICK i \in 1..Len(Layout[s]) : x = <<s, i>>
    BY <2>1, PointsListed
  <2>3. i \in Nat
    BY ManagerAssumption, LenProperties
  <2>4. PICK k \in 1..Len(ServerOrder) : s = ServerOrder[k]
    BY DEF Servers
  <2>5. s \in registered
    BY <2>1 DEF SnapInv, Registered, InMap, At
  <2>6. points[k] = PointsOf(s)
    BY <2>4, <2>5
  <2>7. x \in ToSet(FlattenSeq(points))
    BY <1>3, <2>1, <2>6
  <2> QED BY <2>1, <2>2, <2>3, <2>7 DEF SnapPoints
<1> HIDE DEF points
<1>5. SnapTyped'
  BY <1>1, <1>3, <1>4 DEF SnapTyped, SnapInv
<1>6. SnapshotShowsRows'
  BY <1>1, <1>4 DEF SnapshotShowsRows
<1> QED BY <1>5, <1>6

(* It reads one register.                                                   *)
LEMMA SnapshotReads ==
  ASSUME SnapInv, SnapshotPoint
  PROVE  SnapTyped' /\ SnapshotShowsRows'
<1>1. snap.left \in Seq(SnapPoints) /\ snap.left # <<>> /\ UNCHANGED <<updater, mem>>
  BY DEF SnapInv, SnapTyped, SnapshotPoint, goVars
<1>2. PICK x : x = Head(snap.left)
  OBVIOUS
<1>3. PICK v : v = mem[x[1]][Layout[x[1]][x[2]].addr]
  OBVIOUS
<1>4. x \in SnapPoints
  BY <1>1, <1>2, HeadTailProperties
<1>5. Append(x, v) = <<x[1], x[2], v>> /\ x = <<x[1], x[2]>>
  <2>1. PICK s \in Servers, i \in Nat : x = <<s, i>>
    BY <1>4 DEF SnapPoints
  <2>2. Append(<<s, i>>, v) = <<s, i, v>>
    <3> DEFINE S == {s, i, v}
               p == <<s, i>>
               q == <<s, i, v>>
    <3>1. p \in Seq(S) /\ Len(p) = 2 /\ p[1] = s /\ p[2] = i
      OBVIOUS
    <3>2. q \in Seq(S) /\ Len(q) = 3 /\ q[1] = s /\ q[2] = i /\ q[3] = v
      OBVIOUS
    <3>3. v \in S
      OBVIOUS
    <3> HIDE DEF S, p, q
    <3>4. Append(p, v) \in Seq(S) /\ Len(Append(p, v)) = 3 /\ Append(p, v)[3] = v
          /\ Append(p, v)[1] = s /\ Append(p, v)[2] = i
      <4>1. /\ Append(p, v) \in Seq(S) /\ Len(Append(p, v)) = Len(p) + 1
            /\ \A k \in 1..Len(p) : Append(p, v)[k] = p[k]
            /\ Append(p, v)[Len(p) + 1] = v
        <5>1. p \in Seq(S)
          BY <3>1
        <5> QED BY <3>3, <5>1, AppendProperties
      <4>2. Len(p) + 1 = 3 /\ 1 \in 1..Len(p) /\ 2 \in 1..Len(p)
        BY <3>1
      <4> QED BY <3>1, <4>1, <4>2
    <3>5. Append(p, v) = q
      <4>1. \A k \in 1..Len(q) : q[k] = Append(p, v)[k]
        BY <3>2, <3>4
      <4> QED BY <3>2, <3>4, <4>1, SeqEqual
    <3> QED BY <3>5 DEF p, q
  <2> QED BY <2>1, <2>2
<1>6. /\ snap'.left = Tail(snap.left) /\ snap'.ready = snap.ready /\ DOMAIN snap' = DOMAIN snap
      /\ snap'.vals = snap.vals \cup {<<x[1], x[2], v>>}
  BY <1>2, <1>3, <1>5 DEF SnapshotPoint, SnapInv, SnapTyped
<1>7. SnapTyped'
  <2>1. Tail(snap.left) \in Seq(SnapPoints)
    BY <1>1, HeadTailProperties
  <2> QED BY <1>1, <1>6, <2>1 DEF SnapTyped, SnapInv
<1>8. ToSet(snap.left) \subseteq {x} \cup ToSet(Tail(snap.left))
  <2> DEFINE left == snap.left
  <2>1. left \in Seq(SnapPoints) /\ left # <<>> /\ x = Head(left)
    BY <1>1, <1>2
  <2> HIDE DEF left
  <2>2. /\ Len(left) \in Nat \ {0} /\ DOMAIN left = 1..Len(left) /\ Head(left) = left[1]
        /\ Tail(left) \in Seq(SnapPoints) /\ Len(Tail(left)) = Len(left) - 1
        /\ \A i \in 1..Len(Tail(left)) : Tail(left)[i] = left[i + 1]
        /\ DOMAIN Tail(left) = 1..Len(Tail(left))
    BY <2>1, EmptySeq, HeadTailProperties, LenProperties
  <2>3. ASSUME NEW i \in 1..Len(left)
        PROVE  left[i] \in {x} \cup ToSet(Tail(left))
    <3>1. CASE i = 1
      BY <2>1, <2>2, <3>1
    <3>2. CASE i # 1
      <4>1. i - 1 \in 1..Len(Tail(left)) /\ (i - 1) + 1 = i
        BY <2>2, <3>2
      <4>2. Tail(left)[i - 1] = left[i]
        BY <2>2, <4>1
      <4> QED BY <2>2, <4>1, <4>2 DEF ToSet
    <3> QED BY <3>1, <3>2
  <2>4. ToSet(left) \subseteq {x} \cup ToSet(Tail(left))
    BY <2>2, <2>3 DEF ToSet
  <2> QED BY <2>4 DEF left
<1>9. SnapshotShowsRows'
  <2> SUFFICES ASSUME NEW y \in snap.ready, y \notin ToSet(Tail(snap.left))
               PROVE  \E z \in snap'.vals :
                        <<z[1], z[2]>> = y /\ (Takes(Layout[y[1]][y[2]], 1) => z[3] # 0)
    BY <1>6 DEF SnapshotShowsRows, Takes
  <2>1. CASE y \in ToSet(snap.left)
    <3>1. y = x
      BY <1>8, <2>1
    <3>2. x[1] \in Servers /\ x[2] \in 1..Len(Layout[x[1]]) /\ updater[x[1]].at # "none"
      BY <1>4, <3>1 DEF SnapInv, SnapTyped, SnapPoints
    <3>3. Takes(Layout[x[1]][x[2]], 1) => v # 0
      BY <1>3, <3>2 DEF SnapInv, Filled, RowDone
    <3> DEFINE z == <<x[1], x[2], v>>
    <3>4. z \in snap'.vals /\ <<z[1], z[2]>> = y /\ z[3] = v
      BY <1>5, <1>6, <3>1
    <3> HIDE DEF z
    <3> QED BY <3>1, <3>3, <3>4
  <2>2. CASE y \notin ToSet(snap.left)
    BY <1>6, <2>2 DEF SnapInv, SnapshotShowsRows
  <2> QED BY <2>1, <2>2
<1> QED BY <1>7, <1>9

(* Every step keeps what a snapshot has seen.                               *)
LEMMA SnapNext == SnapInv /\ [Next]_managerVars => SnapInv'
<1> SUFFICES ASSUME SnapInv, [Next]_managerVars PROVE SnapInv'
  OBVIOUS
<1>1. RowsInv' /\ Registered' /\ (\A s \in Servers : Filled(s))'
  BY RowsNext, RegisteredNext, FilledNext DEF SnapInv
<1>2. ASSUME UNCHANGED snap PROVE SnapTyped' /\ SnapshotShowsRows'
  <2>1. ASSUME NEW s \in Servers, updater[s].at # "none"
        PROVE  updater'[s].at # "none"
    <3>1. CASE \E t \in Servers : Starter(t)
      <4>1. PICK t \in Servers : Starter(t)
        BY <3>1
      <4>2. CASE Spawn(t)
        BY <2>1, <4>2, SpawnKeeps DEF SnapInv
      <4>3. CASE ~Spawn(t)
        BY <2>1, <4>1, <4>3 DEF Starter, AcquireSlot, GiveUp, Listen, ListenFails, Wake, Register,
           Zero, LoadCSV, FirstRow, CloseListener, Closed, Unregister, Stop
      <4> QED BY <4>2, <4>3
    <3>2. CASE \E t \in Servers : Tick(t) \/ EndUpdater(t)
      BY <2>1, <3>2, TickKeeps DEF SnapInv
    <3>3. CASE \E t \in Servers : Update(t)
      BY <2>1, <3>3, UpdateKeeps DEF SnapInv, UpdateAt
    <3>4. CASE \E t \in Servers : ClientWrites(t)
      BY <2>1, <3>4, ClientKeeps DEF SnapInv
    <3>5. CASE Elsewhere
      BY <2>1, <3>5, ElsewhereKeeps
    <3> QED BY <3>1, <3>2, <3>3, <3>4, <3>5 DEF Next, Elsewhere
  <2>2. \A x \in snap.ready : x[1] \in Servers
    BY DEF SnapInv, SnapTyped, SnapPoints
  <2> QED BY <1>2, <2>1, <2>2 DEF SnapInv, SnapTyped, SnapshotShowsRows
<1>3. CASE SnapshotReturns
  <2>1. snap'.ready = {} /\ snap'.left = <<>> /\ DOMAIN snap' = {"at", "left", "ready", "vals"}
    BY <1>3 DEF SnapshotReturns, NoSnapshot
  <2> QED BY <1>1, <2>1, EmptySeq DEF SnapInv, SnapTyped, SnapshotShowsRows
<1>4. UNCHANGED snap \/ TakeSnapshot \/ SnapshotPoint \/ SnapshotReturns
  BY DEF Next, Starter, AcquireSlot, GiveUp, Listen, ListenFails, Wake, Register, Zero, LoadCSV, FirstRow,
     Spawn, CloseListener, Closed, Unregister, Stop, Tick, EndUpdater, Update, Attach, Detach,
     ClientWrites, Cancel, RunReturns, managerVars
<1> QED BY <1>1, <1>2, <1>3, <1>4, SnapshotBegins, SnapshotReads DEF SnapInv

(* A snapshot has every point of every server that was being updated when   *)
(* it began, whatever is closed and written meanwhile, and shows none of    *)
(* them before its first row.                                              *)
THEOREM SnapshotIsComplete == Spec => []SnapshotShowsRows
<1>1. Init => SnapInv
  <2> SUFFICES ASSUME Init PROVE SnapInv
    OBVIOUS
  <2>1. SnapTyped /\ SnapshotShowsRows
    BY EmptySeq DEF Init, NoSnapshot, SnapTyped, SnapshotShowsRows
  <2>2. Registered /\ \A s \in Servers : Filled(s)
    BY DEF Init, Registered, InMap, Filled, RowDone
  <2> QED BY <2>1, <2>2, RowsInit DEF SnapInv
<1>2. SnapInv => SnapshotShowsRows
  BY DEF SnapInv
<1> QED BY <1>1, <1>2, SnapNext, PTL DEF Spec, SafeSpec

============================================================================
