# Formal models of the Modbus simulator and collector

TLA+ models of the concurrent parts of this repository, the TLC configurations
that check them on small instances, and proofs for the TLA+ proof system.
Paths below are relative to the repository root (`src/` in `PROJECT.json`).

## 1. The system

| part | code | state | operations | talks to |
|---|---|---|---|---|
| Collector storage | `internal/collector/storage.go` | channel `q`, writer goroutine, buffered JSONL and CSV files, sqlite handle, `closed` | `NewStorage`, `Handle`, `Close` | called by every collector; inserts into the point database |
| Manager and collectors | `internal/collector/manager.go`, `client.go`, `internal/utils/cache.go` | worker-slot channel `sem`, wait group, one goroutine per device, duplicate cache | `Manager.Run`, `Collector.Run`, `pollOnce`, `reconnect`, the `OnValue` handler | polls Modbus servers, hands readings to the storage |
| Modbus TCP server | `internal/modbus/server.go`, `snapshot.go` | four tables under an RWMutex, listener, `quit`, wait group, a goroutine per connection | `Listen`, eight function codes, `Set*`/`Get*`, float helpers, `Close` | clients over TCP, setters in the same process |
| Multi-server manager | `internal/servermgr/manager.go`, `cmd/servers` | map of servers, semaphore, tickers | `Run`, `Snapshot` | starts and updates several Modbus servers |
| Simulator server | `cmd/server/main.go` | one server, data rows, a serial port | `Start`, `applyRowLocked`, `nextRow`, `serveSerialRTU`, `Close` | Modbus server, serial line |
| Mock serial endpoints | `cmd/mocktty/main.go`, `internal/utils/rtu.go` | register tables under an RWMutex, serial ports, TCP listeners, a ticker | `handleStream`, `handleRTUPDU`, `startDynamic`, `runEndpoint`, `runSerialEndpoint` | serial line, TCP clients |
| Point database | `internal/db`, `internal/model`, `pkg/modbusdb` | tables of servers, devices and readings | migration, seeding, saves, deletes, latest values, history | storage, `Manager.Run`, programs that use `pkg/modbusdb` |
| Interactive client | `cmd/client/main.go` | one handler | rounds of reads, decoding, reconnect | the simulator server |
| Configuration, export | `internal/config`, `internal/collector/config.go`, `internal/output`, `cmd/export` | none | run once, sequential | files |

What is hard in this code: a bounded channel that several goroutines send on
and one goroutine closes; a shutdown with a grace timer; buffered files and
crashes; a cache that decides which readings are stored; multi-word registers
behind a read-write lock, which one of the servers gives up and takes again
within a request; a `Close` that waits for connections; frames cut out of a byte
stream without any mark of where they begin; resources that are taken for the
life of a goroutine; a database that one process fills while others edit it.
`PROJECT.json` lists these hazards at their lines with the properties that cover
them.

What makes each part correct:

* storage: what `Handle` accepts reaches every working output once and in order;
  nobody waits for good; `Close` leaves nothing behind; a crash loses a bounded
  tail and never damages what is on disk.
* manager: every reading left out is near one that was stored; worker slots do
  not leak; shutdown ends and is orderly.
* Modbus server: every request is atomic and gets the right answer; `Close`
  leaves no goroutine behind.
* multi-server manager: every configured server starts; the registers show two
  adjacent rows of the data at most, and half of a float only for a moment; when
  `Run` has returned nothing is left running.
* serial endpoints: only what was asked of this station is carried out, in
  order and atomically; the ticker loses nothing; the endpoint ends.
* simulator and client: what the client prints is a value of the data, within
  rounding; errors of one register do not keep the client from the others.
* database: seeding is whole or absent, undoes no edit and is seen whole by a
  client that asks for statistics.

## 2. Modules

| module | models | extends / uses |
|---|---|---|
| `Storage` | the asynchronous store | |
| `AsyncLog` | what the store promises: a write-behind log | refined by `Storage` |
| `CollectorManager` | manager, collectors and duplicate filter over the store | extends `Storage` |
| `ModbusServer` | the TCP server | |
| `Registers` | what a server promises: atomic register tables | refined by `ModbusServer` and by `RtuLine` |
| `ServerManager` | the multi-server manager, over atomic registers | rests on what `ModbusServer` shows of a request |
| `RtuLine` | RTU frames on byte streams, carried out on one store, and the ticker | |
| `MockTty` | an endpoint of mocktty: port or listener, streams, ticker, end of the process | extends `RtuLine` |
| `Simulator` | the simulator server and the interactive client | rests on what `ModbusServer` and `RtuLine` show of a request |
| `PointDB` | the database, its seeding and its clients | |
| `Subsequences` | the elements of a sequence that are in a set | extended by `Storage` and `AsyncLog` |
| `Storage_proofs`, `CollectorManager_proofs`, `ModbusServer_proofs`, `ServerManager_proofs`, `MockTty_proofs`, `Simulator_proofs`, `PointDB_proofs` | theorems about the module of that name | extend it |
| `Subsequences_proofs` | induction over numbers and sequences; lemmas about `Subsequences` | extended by the proofs that need them |
| `MCStorage`, `MCCollectorManager`, `MCModbusServer`, `MCServerManager`, `MCMockTty`, `MCSimulator`, `MCPointDB` | the instances TLC checks | extend it |

Definitions whose comment begins with "Mutant" are variants of an operation with
one plausible mistake. They occur in no specification; each shows that a
property notices that mistake.

### Storage

One producer is one goroutine that calls `Handle`. The two selects of `Handle`
are separate steps: `HandleSend` or `HandleFull`, then `RetrySend`, `Park` (the
goroutine blocks in the send, in the channel's first-come line) or `Timeout`. A
receive completes the first parked send in the same step, as the runtime does.
The writer is `Take`, then one step for each enabled output (`writeJSONL`,
`writeCSV`, `writeDB`), then `LoopEnds`, `Flush`, `Stop`. `CloseQueue` and
`CloseReturns` are the two halves of `Close`; a send on a closed channel
(`SendOnClosed`) ends the process, and `Kill` does so at any step.

A line of a file is two cells, so that a write buffer of three cells fills up in
the middle of a line. A write to a file succeeds or writes a part of the buffer
and fails, after which the buffer refuses further writes, as `bufio` does. A
failed insert is discarded. `Restart` opens what is on disk for appending; a CSV
file gets its header only when it is empty (`Opened`). The row layout, timestamps and the
failures of `NewStorage` itself (no storage exists then) are left out.

### CollectorManager

The collectors are the producers of `Storage`; a reading is
`<<collector, point, raw>>`. The stages of a collector follow `Run`,
`pollOnce` and `readPoint`: slot, connect with retries and pauses, first poll,
points in order, one reconnect and one retry, handler, next tick. Every request
and connect succeeds or fails freely. The handler is three steps, as in the
code: look the value up and compare, call `Handle`, write the cache; an entry
may have outlived its TTL at any look-up. `Near` stands for `FloatsEqual`: an
arbitrary relation, in the runs one that is not transitive, as relative
closeness is not. `Key` says which points of a device share a cache entry: the
key is made of the device, the name and the register type of a point, not of its
address. `BeginWait`, `EndWait` and `RunReturns` are the end of `Manager.Run`;
the grace timer may fire at any moment of the wait, because nothing bounds a
request from below.

Left out: word decoding (`decodeRegisterData`, `reorder32`), a custom
`OnValue`, the log-only mode. The seeding of the database is in `PointDB`.

### ModbusServer

Actors are the clients' connection goroutines and goroutines of the process that
use the setters and getters. A request is checked (`Check`, `Code`), acquires
the mutex (`RLock`; or `Lock`, which shuts out later readers, and `Locked`),
reads or writes one entry per step, and unlocks. The listener's backlog, the
accepted connection that is not yet counted, the frames that are skipped
without an answer, and clients that hang up at any time are in the model.
`CloseQuit`, `CloseListener` and `Wait` are the steps of `Close`.

Registers and bits are words of a small set; the tables differ only in their
limits, which are constants. The form checks of a PDU are one Boolean of the
request, because they all lead to the same exception code.

### ServerManager

Each server has two goroutines. The `Starter` takes a slot, listens with
retries, registers the server, zeroes its registers, loads the data, writes the
first row, spawns the updater and waits for the end of the context; then it
closes the server, removes it from the map, stops the ticker and gives the slot
back. The updater (`Tick`, `Update`, `EndUpdater`) writes one row per tick, one
register per step, so a float takes two. Both use `Apply` and `After`, the loop
of `applyRowToServer`. A register holds the number of the row it shows, which is
all the properties tell apart; whether a row has a value in range for a point is
a field of the point, and a float at the last address is refused. `Snapshot`
copies the map in one step and then reads one register per step, while servers
are closed or written. A client attaches, writes any register of a point that can
be written, either word of a float (`Writable`), and hangs up;
the rest of a client's life is in `ModbusServer`, which also justifies that a
setter is one step here. Whether listening succeeds and whether the file can be
read are free choices.

Server names and addresses are taken to be different, as a configuration needs
them to be. A mistaken duplicate of a name would make two servers share an entry
of the map, which is not modelled.

### RtuLine and MockTty

`RtuLine` is `handleStream` and what it calls. A stream is a sequence of bytes.
A byte is its value and, for the bytes of a checksum, the body they are the
checksum of: so a checksum is right for its own bytes and for no others, and no
arithmetic of CRC16 is needed. `ReadFull` takes the bytes that `Length` says are
missing, first two, then those the function code announces, then those a byte
count announces, one step each. `Follow` drops a frame with a wrong checksum or
for another station without an answer and ends the goroutine at an unknown
function code. A short or a spurious byte shifts every later frame: nothing in
the code looks for the beginning of one.

A request takes the store's mutex for reading (`RLock`). A read works under it.
A write gives it back, takes the mutex for writing, works, gives it back and
takes it once more for reading, because `handleRTUPDU` defers an `RUnlock` that
the write must have something to undo; all six places of this dance are stages.
The ticker (`Tick`, `Load`, `Store`, `TickUnlocks`) adds one to a register under
the same mutex.

`MockTty` puts these streams into an endpoint, on a serial port or over TCP: it
opens, accepts, loses a client, meets an accept error, and ends after a cancel.
The goroutines that are in no wait group (connections, ticker) are dropped when
the process ends. The read timeout of ten seconds of a serial port is `Quiet`.

Left out: the `socat` child process; a write of coils whose byte count is
smaller than its quantity needs, which indexes past the end of the PDU
(`cmd/mocktty/main.go:132`) and ends the process. `CoilsAssumption` of `RtuLine`
says that no line carries one, so it is a hypothesis of every property and theorem
about lines.

### Simulator

One server process and one client process. The server's `Start` writes the rows
one word per step: `Words` is what `applyRowLocked` makes of a value (rounding,
range, two words for a float, nothing for a value that is refused or for a column
that the file does not have), so a float can be read half written. The client is `Connect`, `ReadValue`, `ReadFails`,
`CloseClient`, `Reopen`, `Retry`, `NextRound`; `Decode` is what it makes of the
words. The loop of the client ends its round early nowhere: the `break` after a
successful retry leaves the `switch`, so the value read again is not used.

Two facts about the pair are in the model because the code does them: in RTU
mode the TCP server that `newSimulator` started goes on listening, on registers
nobody writes, and its clients read zeros; and a client whose reopening failed
reads through a nil handler and dies (`Panic`).

The server's RTU stream is the code of mocktty under other names, without a
station to check (`RtuLine` with station 0), so a request is one step here.

### PointDB

The tables of servers and devices, the readings, and the transaction of
`initDatabaseFromConfig`: `Count`, `Begin`, one `SaveNext` per definition,
`Commit` or `Rollback`; `Restart` kills the collector at any step and starts it
again on the same file. A client of `pkg/modbusdb` edits definitions and
readings at any other time; sqlite admits one writer, so it waits while the
transaction writes, but not between the count and the transaction. `StatsJSON` is
its first two queries, for the servers and the devices, each in its own step. Of a definition the model keeps who
wrote it last, of a device its server, of a reading its order of arrival and its
timestamp, which may go back.

Deletes are what the code does: a single `DELETE`. The comments on `DeleteServer`
and `deleteDevice` and `docs/db.md` speak of cascades, but no statement switches
sqlite's foreign keys on, so the devices of a deleted server and the readings of
a deleted device stay, and come back into the answers when the id does. An update of
a reading is gorm's `Save`: it replaces every field but the id, and inserts the
reading again when somebody has deleted it meanwhile.

Left out: the queries for readings (`LatestPointsORM`, `ListDevicePointValues` and
the third query of `StatsJSON`), each a single `SELECT`; readings inserted with an id of the
caller's choice.

## 3. Runs

| run | instance | shows |
|---|---|---|
| `storage` | 1 producer, CSV and the database, 1-place channel, 3-cell buffer, 3 accepted readings, 1 restart, a writer that may hang | `Close` loses nothing and ends, bounded loss and one torn line at a crash, one header, later runs only append, what was accepted is taken, refinement of `AsyncLog`; `Handle` returns also when the writer hangs |
| `collectors` | 2 devices, 1 slot, 3 points that share one cache key and drift; the database | the cache equals the last accepted value of its key, no changed reading is left out, slots are given back |
| `shutdown` | 2 devices, 2 slots, a NaN reading, JSONL and the database, cancel at any step | channel order and refinement of `AsyncLog` with different readings, at most one reading after the cancel, panics only after the grace period, an orderly return means all is on disk, shutdown ends |
| `graceful_shutdown` | as `shutdown`, 1 slot | violated: the process can panic during shutdown |
| `modbus` | 1 client with every kind of frame, 1 setter, 2 registers | mutual exclusion, requests are atomic and get exact answers, nothing runs after `Close` returned; every request ends, `Close` returns once clients hang up |
| `servers` | 2 servers, 1 slot, a float and a refused float at the last address, 2 rows, 1 snapshot | registers follow the rows, a snapshot shows rows, nothing is left after `Run`, no row is begun then; updaters end, `Run` ends once clients hang up |
| `every_server` | 2 servers, 1 slot | violated: the second server never listens |
| `mocktty` | a serial port with up to 3 whole, short, damaged or foreign frames, or 2 TCP connections with a frame each; 2 registers of 1 bit | what is carried out was asked, in order and atomically; no tick is lost; requests are answered; the endpoint ends, cleanly on a serial port |
| `quiet_line` | as `mocktty`, without fairness | violated: a quiet line ends the service |
| `unknown_function` | as `mocktty`, without fairness | violated: a byte that is no function code ends the stream |
| `simulator` | words of 8 values, 3 rows of 6 registers: rounding, NaN, out of range, too large a float, a missing column | what is printed is a value of a row, or of two adjacent rows for a float; the rounds go on |
| `point_db` | 2 servers with a device each, 2 names, 2 timestamps, 2 readings, 2 edits, 1 crash | seeding is whole or absent, undoes no edit it could see, and statistics show it whole or not at all |

The violated properties state what a comment or a document says:

* `cmd/collector/main.go:28` promises a graceful shutdown. When a collector
  outlasts the grace period (a request with its reconnect and retry takes longer
  than five seconds with the default and with the shipped timeouts), the store is
  closed under it and its next `Handle` panics on the closed channel.
* `internal/servermgr/manager.go:208` says that `Run` starts all enabled servers.
  The semaphore of 16 is meant to "cap concurrent starts" (line 211) but is given
  back only when a server's goroutine ends, at the shutdown, so a seventeenth
  server never listens.
* `cmd/mocktty/main.go:344` says that `runSerialEndpoint` opens a port and serves
  RTU frames. The port has a read timeout of ten seconds, and `handleStream`
  takes every read error for the end of the stream: after ten quiet seconds the
  endpoint serves nobody, while its ticker runs on.
* `cmd/mocktty/main.go:299` says of an unknown function code "try to drain some
  bytes and continue". The next line returns, and the stream is over: for a TCP
  client the connection, for a serial port the service.

Some facts the models contain and no run is about:

* A collector keeps its worker slot for life, so devices beyond `max_workers`
  are never polled while the others run (`internal/collector/manager.go:118`).
* `Close` of the Modbus server closes no connection; it waits as long as a
  client stays connected, and serves it meanwhile
  (`internal/modbus/server.go:370`). `CloseReturnsWithoutClients` and
  `RunEndsWithoutClients` therefore suppose that clients hang up.
* Points of a device with the same name and register type share an entry of the
  duplicate cache: the reading of one is left out when it is near the last
  stored reading of the other (`internal/collector/manager.go:55`).
* An RTU simulator keeps the TCP listener that it started before it was switched
  to RTU, with registers nobody writes (`cmd/server/main.go:374`).
* `cmd/client/main.go:89` says "Auto-reconnect". When the handler does not open
  again, `client` is nil; the failure is logged, `break` leaves the `switch`, and
  the next read dereferences it (`Panic` of `Simulator`).
* `internal/db/orm.go:125` says that `deleteDevice` "cascades associated data", and
  `docs/db.md:110` that readings go with their device. They stay
  (`DeleteDevice` of `PointDB`): the statement deletes the device's row, and
  sqlite's foreign keys are off. A deleted server leaves its devices likewise.

Some facts about queries and formats, which the models leave out:

* `internal/db/orm.go:148` says that `LatestPointsORM` returns the latest record of
  a point, and `README.md:94` that one record of it is kept. It returns all
  readings with the greatest timestamp (line 165).
* The header of a CSV file names ten columns and `writeCSV` writes twelve fields:
  the data type and the byte order have no name (`internal/collector/storage.go:127`,
  249).

### Bounds

* Channel capacity 1: full, parked and hand-over all occur, with one producer and with two; a
  longer channel adds only waiting positions.
* `MaxAccepted` bounds the readings of one run of the process. Three overflow the
  three-cell buffer in the middle of a line, and are one more than the database may
  lack at a crash. In `shutdown` two producers meet at the channel with readings
  that all differ, so that a change of their order shows, over two outputs in turn.
  The theorems hold for every number of producers and every choice of outputs.
* `MaxPolls` bounds the rounds of a collector. In `collectors` three points with
  one key in one round let two small drifts add up to a change, as three rounds
  of one point do; after the last round a collector only waits, which is also
  what it does between ticks. The other device has a
  second round and a retry of its connect; in `shutdown` it has the retry.
* `MaxRestarts` is one: a second run on the files of the first.
* `Size = 2` with requests for both registers, for one register and past the end
  is the smallest table in which a request can be half done. Nothing in
  `ModbusServer` needs a counter bound: clients may connect, send and hang up
  for ever. One client and one setter already meet in the mutex as two clients
  do; a reader behind a writer behind a reader needs a third party, which only the
  theorems have: they hold for any number.
* `ServerManager` needs no counter bound either: the rows are replayed for ever.
  Two rows are the fewest with a row before and a row after; a value out of range
  in the second row makes a register keep the first. One slot for two servers
  stands for 16; `SnapshotMode` is the flag of `main`, which takes one snapshot.
* `MaxPieces` bounds what the other end of a stream writes: three pieces on the
  serial line, so that a damaged or short frame has a whole one before and after
  it, and one on each connection, of which the second writes several coils. A register is one bit (`WordMod = 2`), which
  is enough to see a lost tick, and the ticker wraps around at once. The value of
  a checksum byte in the instance is a function code the reader knows, so that
  a shifted line does go on being read.
* `Base = 8` makes words small enough to enumerate and keeps the two halves of a
  float, the sign of an `int16` and the limits of both 16-bit types.
* `MaxRows`, `MaxEdits` and `MaxCrashes` of `PointDB`: two readings can have the same
  or different times and arrive together or one after the other; two edits can hit a
  server and its device, before and after the count; one crash is a second start
  on the same file. The two names are symmetric: nothing compares them.
* Deadlock is checked in `modbus`. In the other runs the process really ends or
  the bounds are used up: after a kill, a panic, the return of `Run` or of an
  endpoint, or after the last edit.

### Fairness

Weak fairness on the steps of each goroutine: the Go scheduler runs what can
run, and timers fire. `storage` takes it from the writer: only the steps of a
call of `Handle` are fair there (`HandleSpec`), so that what ends the call is the
timer of its second select. `AcceptedIsTaken` and `CloseTerminates`, which need a
writer that does not hang, say so themselves (`WriterFairness`). An answer that a server has begun to write is taken to
end (`Reply` is fair): a client that stays connected and never reads, until the
buffers of its connection are full, is not modelled. Acquiring a mutex is strongly fair (`ModbusServer`,
`MockTty`): `sync.RWMutex` admits the waiting readers when a writer leaves, and
`sync.Mutex` hands over to a writer that has waited long. In `ServerManager` the
updater's choice to end is strongly fair: its `select` picks at random between a
tick and the end of the context when both are ready. In `MockTty` the stream
goroutines are fair as long as the process lives, and so are the ticker's work on a
tick it has taken, noticing a closed port, and the goroutine of the endpoint; a
tick itself, bytes and timeouts are not. In `Simulator` only the client is fair:
`RoundsGoOn` needs nothing of the server, because a request that fails ends the
step too.

Nothing is assumed of callers: no one need call `Handle` or `Close`, cancel the
context, send a request, hang up, edit the database, kill or restart the
process. Requests to devices are assumed to end, by an answer or by their
timeout. `point_db` and the violated runs except `every_server` and
`graceful_shutdown` check safety only and use specifications without fairness.

## 4. Proofs

Every safety property that a passing run checks, action properties and the three
refinements included, is a theorem for every value of the constants that the
named assumptions of the modules admit. The runs check them on small instances,
and the proofs use no bound of an instance. (`RegistersFollow` and `ValuesAreRows`
have one hypothesis each, named `Separate` below.)

Each proof has an inductive invariant in named parts, a lemma for the initial
states, one for each kind of step, and a theorem that reads the property off the
invariant. Where a property says what a recursive function computes (the kept
readings of an output, the definitions seeded so far, the bytes sent), the proof
uses the induction of `Subsequences_proofs`.

**`Subsequences_proofs`**: the library states induction with the hypothesis as
an operator, which the provers cannot instantiate. `SetInduction` and
`SequenceInduction` state it with the *set* of the numbers, or sequences, for which
the hypothesis holds, and follow from the well-foundedness of `<`. From them come
the laws of `Among`: what one more element adds to it, what its elements are, and
how much longer it can be with more of them.

**`Storage_proofs`** (`SinkAssumption`: the output combinations `NewStorage`
accepts; `StorageAssumption`: positive capacity, a buffer of at least two cells).
The channel:

* `TypeCorrect`: `SafeSpec => []TypeOK`;
* `ChannelIsFifo`: `SafeSpec => []Fifo`;
* `CloseDrains`: when `Close` has returned, the writer has taken every accepted
  reading and nobody is parked.

`Fifo` is not inductive alone: a receive moves the reading of the first parked
producer into the channel, so the invariant must say that a call in progress
carries a reading (`CallsCarryReadings`); the channel stays within its capacity in
that step only because producers are parked when it is full
(`ParkedOnlyWhenFull`); and a write uses the reading the writer took last,
so while outputs remain to be served there must be one (`ReadingInHand`).
`CloseDrains` rests on `LoopDrained`: the loop ends only when the channel is
closed and empty, and then nothing enters it again, because a producer parked
before the close was woken, not served. `StorageInv` is the conjunction, and
`InvInit` and `InvNext` show it inductive, with one lemma for each kind of step
of the channel (`SendStep`, `ParkStep`, `TimeoutStep`, `TakeStep`, `CloseStep`,
...) and one for the outputs (`OutputNext`).

The outputs:

* `NothingIsLost`: `SafeSpec => []CloseLosesNothing`;
* `LossIsBounded`: `SafeSpec => []BoundedLoss`;
* `TornLinesAreFew`: `SafeSpec => []OneTornLinePerRun`;
* `OneHeader`: `SafeSpec => []HeaderOnce`;
* `StoreImplementsLog`: `SafeSpec => ImplementsLog`, the refinement of `AsyncLog`.

`ContentsInv` says that what an output held when the run began, followed by the
cells of the readings it has been handed, is what is on disk and some rest, which
is the buffer as long as no write failed (`OnDisk`); that the database has no
buffer (`AllRows`); that no output is served twice with a reading, and a file
whose turn to be flushed is over has an empty buffer (`ServedInTurn`); and that
earlier runs tore at most a line each (`TornBefore`). A partial write keeps it
because it moves the boundary between disk and rest and touches neither; the bound
on torn lines holds because lines are cells in pairs, so a prefix of a stream has
at most one half line, at its end. `OneHeader` adds that what a run found in a CSV
file begins with the header and has no other (`FoundWithHeader`): lines are not
headers, and `Opened` writes one to an empty file only.

The lemmas about steps are about `AnyStep`, a step of the store with any number of
calls, so that they serve every caller:

**`CollectorManager_proofs`** (`CollectorAssumption`: the readings of the store
are those of the collectors' points):

* `CollectorsKeepStore`, `CollectorsWriteALog`: what is proved of the store, the
  refinement of the log included, holds with collectors for producers;
* `OneMoreReading`: `CollectorSpec => []OneReadingAfterCancel`;
* `PanicNeedsGrace`: `CollectorSpec => []PanicOnlyAfterGrace`;
* `OrderlyReturn`, `AllStoredAtReturn`: when `Run` has returned within the grace
  period, every collector is done, the writer has taken every accepted reading,
  and each is on disk (`CollectorSpec => []ReturnedMeansStored`);
* `CacheIsNewest`: `CollectorSpec => []CacheIsLastAccepted`;
* `ChangesAreStored`: `CollectorSpec => NeverLeftOutWhenChanged`.

`StoreIsUsed` shows that each step of the composition is a step of the store or
leaves it alone, which carries the store's invariants over. `LocalInv` adds what
the collectors have in hand (`ColTyped`), that a call of `Handle` has a collector
that waits for it (`CallsAwaited`), that a collector which has handled its last
reading is at no stage that leads to another (`LateInv`), and that the channel is
closed only behind the collectors or behind the timer (`ClosedInOrder`).
`CacheInv` is about the two steps of the handler, the check against the cache and
the update after `Handle`: what a collector offers is the reading it has in hand,
and once `Handle` accepted it that is the last of its key (`OfferInv`); the cache has
the shape of a map from keys (`CacheShaped`); and a cached value is the last
accepted of its key unless the collector has sent one and not yet noted it
(`CachedIsLast`).

**`ModbusServer_proofs`** (`ServerAssumption`: finitely many clients, other than
the process's own goroutines):

* `MutexHolds`: `Spec => []MutualExclusion`;
* `CloseIsQuiet`: `Spec => []QuietAfterClose`;
* `RequestsAreAtomic`: `Spec => ImplementsRegisters`, the refinement of
  `Registers`.

`LockInv` adds to mutual exclusion the types it needs and `CheckedFirst`: only a
request that `Check` accepted as a read or a write waits for the mutex. `LifeInv`
is the accounting of the wait group: `Counted` (its number is the number of
served connections, and one for the accept loop) and `Accounted` (an accepted
connection has the accept loop behind it, a request has its connection). Zero is
therefore final: whatever could start a goroutine is itself counted.

In the refinement the tables of `Registers` are those of the last writer
(`committed`), its answers the results of the actors that are done. A read and a
write take place at their `Unlock`, a refused request at its `Check`. `DataInv` says
what makes this right: a request at the entries has passed the checks in full
(`Place`), what a reader has in hand is what the entries still hold (`HasRead`), a
writer's entries are the new words as far as it has come and those of the last
writer beyond (`HasWritten`), and without a writer the entries are as the last one
left them (`Settled`). `HasRead` and `HasWritten` survive the steps of others because
of `MutexHolds`'s invariant.

**`ServerManager_proofs`** (`ManagerAssumption`: a list of different servers,
their layouts and retries):

* `RunLeavesNothing`: `Spec => []ReturnedMeansDown`;
* `NoRowAfterRun`: `Spec => NoRowBegunAfterRun`;
* `RegistersFollow`: `Spec => []RegistersFollowTheRows`, for layouts in which no
  two points share a register (`Separate`);
* `SnapshotIsComplete`: `Spec => []SnapshotShowsRows`.

`DownInv` is `ManagerTyped`, `Owned` (what is listening, connected, ticking or in
the map belongs to a goroutine at a stage that has it), `SlotsCounted` (free and
taken slots add up) and `AllDone` (`Run` returns when every goroutine has ended).
That a list has finitely many elements is used for the count. `FollowInv` adds
where a writer is in its row (`RowsInv`) and, for each register, the row it shows
by whether that writer has passed it (`Follows`). `Separate` is needed: two points on
one register overwrite each other, and the register then shows the rows of the
point the writer came to last; nothing in the configuration rules that out.
`SnapInv` says that a running server is in the map (`Registered`), that a register
whose point takes the first row is not empty once the writer has passed it
(`Filled`), and that the points a snapshot must have belong to servers whose first
row is complete (`SnapTyped`).

**`MockTty_proofs`** (`LineAssumption`, `EndpointAssumption`, `PiecesAssumption`,
`CoilsAssumption`):

* `TicksAreKept`: `Spec => []NoLostTick`;
* `SerialEndIsClean`: `Spec => []SerialEndsCleanly`;
* `FramesAreAnswered`: `Spec => []AnswersFollowFrames`;
* `LinesAreAtomic`: `Spec => LinesImplementRegisters`, the refinement of
  `Registers`.

`TtyInv` ties the mutex to the stages: its writer is the stream or the ticker
that is at a writing stage, its readers are the streams at a reading stage, through
the exchange of locks within a write; and nothing runs before the port is open.
`Ended` is what `SerialEndsCleanly` needs in addition: once a serial endpoint
has returned, its stream is over and nothing starts it again.

For the frames, `LinesOk` says what each line `Carries`: the bytes a stream has
consumed, those in its hand and those nobody has read make up the pieces written,
and the requests carried out are those whose pieces ended there. `PiecesAssumption`
idealises the CRC: no other stretch of the bytes a line can carry is, by chance, a
frame for this station. With a real CRC16 one in 65536 such stretches is.

For the refinement, the tables of `Registers` are those of the last writer. A read
or a refused request takes place at the end of its work under the read lock
(`EndRead`), a write and a tick when they unlock. `StoreInv` has the shape of the store,
what each stream has done of its request (`Progress`), that a writer is alone
(`Alone`), that the store is settled without one (`Settled`), and what the ticker
has in hand (`TickerInHand`).

**`Simulator_proofs`** (`SimulatorAssumption`): `ValuesAreRows`: `Spec =>
PrintedIsARow`, for configurations in which no two registers share a word
(`Separate`, with the same reason as above). `SimInv` says that each word of a
register holds that word of a row it may show (`Shows`), the same row for both words
of a float unless the setter is between them (`Between`). What rounding,
truncation to 16 bits and the split of a float leave of a value when it is decoded
again is proved for every even size of a word (`FitsScalar`, `FloatWords`).

**`PointDB_proofs`** (`DBAssumption`):

* `EditsAreKept`: `Spec => EditsOutliveRestarts`, from `FoundNone`: while the
  transaction may begin or is under way, the count found no server, so a server
  that is there was written since;
* `SeedAllOrNothing`: `Spec => []SeedIsWhole`, from `SeedInv`: before the first edit
  the committed tables are what seeding no definition or every definition makes,
  and those of an open transaction what seeding the first ones makes;
* `StatsSeeWholeSeeds`: `Spec => []StatsAreWhole`, from `StatsInv` beside `SeedInv`:
  tables that hold the configuration are not filled again before an edit, so
  whatever server a client has been told of has its devices there at the next
  query.

Model-checked only: liveness, because fairness and `ENABLED` are beyond the
prover: `HandleReturns`, `AcceptedIsTaken`, `CloseTerminates`, `FreeSlotIsTaken`,
`ShutdownTerminates`, `RequestsEnd`, `CloseReturnsWithoutClients`, `UpdatersEnd`,
`RunEndsWithoutClients`, `RequestsAnswered`, `EndsAfterCancel`, `RoundsGoOn`; and, because they do
not hold, the violated properties.

## 5. Not modelled, and what comes next

Left out, and why:

* configuration parsing and defaults, CSV loading, `internal/output` and
  `cmd/export`: sequential, run once, no state between calls;
* the queries for readings, and what `StatsJSON` says of them: one statement each;
* the conversions of `decodeRegisterData` and `reorder32` of the collector: pure
  functions of the words, which the properties of `CollectorManager` do not look
  at (the client's decoding is in `Simulator`);
* a custom `OnValue`, which no program of the repository sets; the log-only mode
  of the collector, in which there is no store; readings that a caller stores
  under an id of its own choice;
* the `socat` child process of mocktty, and a write of coils whose byte count is
  too small (an index out of range that ends the process), by `CoilsAssumption`;
* a client of the Modbus server that stays connected and never reads;
* the sqlite engine, the Modbus client library, the serial driver and the
  network stack, which appear only by what they can return.

Next: the types of the modules whose theorems are about behaviour alone
(`CollectorManager`, `PointDB`) as theorems of their own; a frame for this station
that appears by chance on a line, as a behaviour of `RtuLine` instead of an
assumption; `decodeRegisterData` of the collector beside the client's `Decode`.
