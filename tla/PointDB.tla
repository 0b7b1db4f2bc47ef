------------------------------ MODULE PointDB ------------------------------
(***************************************************************************)
(* internal/db, pkg/modbusdb and Manager.initDatabaseFromConfig: the       *)
(* sqlite file a collector and the clients of modbusdb share.  The         *)
(* collector fills its server and device tables from the configuration     *)
(* when it finds no server, in one transaction, and appends readings;      *)
(* clients create, save and delete definitions and readings at any time,   *)
(* and ask for statistics, which several queries outside a transaction     *)
(* make up.  The queries that are one statement are left out.              *)
(*                                                                         *)
(* Of a definition the model keeps who wrote it last, and of a device its  *)
(* server; of a reading its point, its order of arrival and its timestamp, *)
(* which may go back (a clock can be set, and a local time is stored).     *)
(* sqlite checks no foreign key unless it is told to.                      *)
(***************************************************************************)
EXTENDS Naturals, Sequences

CONSTANTS
  ServerIds, DeviceIds, Names,
  Cfg,         \* the definitions of the configuration, in order
  Times,       \* timestamps
  MaxRows,     \* bound: readings ever stored
  MaxEdits,    \* bound: definitions clients write or delete
  MaxCrashes   \* bound: collectors killed

Item == [id : ServerIds] \cup [id : DeviceIds, server : ServerIds]

ASSUME DBAssumption ==
  /\ Cfg \in Seq(Item) /\ Cfg # <<>> /\ Cfg[1].id \in ServerIds
  /\ ServerIds \cap DeviceIds = {}
  /\ Times \subseteq Nat

VARIABLES
  servers,   \* servers: who wrote each, "config" or "client"
  devices,   \* devices: who wrote each, and its server
  rows,      \* point_values
  lastId,    \* of point_values, which are numbered from 1
  main,      \* the collector's start: "opened", "empty", "saving", "ready"
  next,      \* the item the transaction saves next
  tx,        \* the tables as the open transaction sees them
  stats,     \* a client's StatsJSON: how far it is, and what it has been told
  edits, crashes,
  fresh,     \* history: what clients wrote since the collector counted
  found      \* history: the collector counted at least one server

tables == <<servers, devices>>
collectorVars == <<main, next, tx, crashes, found>>
dbVars == <<tables, rows, lastId, collectorVars, stats, edits, fresh>>

Put(t, id, x) == [i \in DOMAIN t \cup {id} |-> IF i = id THEN x ELSE t[i]]
Without(t, id) == [i \in DOMAIN t \ {id} |-> t[i]]
Empty == [i \in {} |-> 0]
NotAsked == [at |-> "idle", servers |-> {}, devices |-> {}]

Init ==
  /\ servers = Empty /\ devices = Empty
  /\ rows = {} /\ lastId = 0
  /\ main = "opened" /\ next = 1 /\ tx = <<Empty, Empty>>
  /\ stats = NotAsked
  /\ edits = 0 /\ crashes = 0 /\ fresh = {} /\ found = FALSE

----------------------------------------------------------------------------
(* The collector: initDatabaseFromConfig *)

(* Mutant: the tables are filled whatever the count. *)
CountNotUsed ==
  /\ main = "opened"
  /\ main' = "empty"
  /\ fresh' = {} /\ found' = (DOMAIN servers # {})
  /\ UNCHANGED <<tables, rows, lastId, next, tx, stats, edits, crashes>>

Count ==
  /\ main = "opened"
  /\ main' = IF DOMAIN servers = {} THEN "empty" ELSE "ready"
  /\ fresh' = {} /\ found' = (DOMAIN servers # {})
  /\ UNCHANGED <<tables, rows, lastId, next, tx, stats, edits, crashes>>

Begin ==
  /\ main = "empty"
  /\ main' = "saving" /\ next' = 1 /\ tx' = tables
  /\ UNCHANGED <<tables, rows, lastId, stats, edits, crashes, fresh, found>>

(* Save: the row is updated, or inserted when there is none. *)
Saved(t, item, who) ==
  IF item.id \in ServerIds
    THEN <<Put(t[1], item.id, who), t[2]>>
    ELSE <<t[1], Put(t[2], item.id, [server |-> item.server, by |-> who])>>

(* The tables of a new file, and what the items of the configuration, one  *)
(* after the other, make of them.                                          *)
Seeded[n \in 0..Len(Cfg)] ==
  IF n = 0 THEN <<Empty, Empty>> ELSE Saved(Seeded[n - 1], Cfg[n], "config")

(* Mutant: each Save stands by itself. *)
SaveNextAtOnce ==
  /\ main = "saving" /\ next <= Len(Cfg)
  /\ tx' = Saved(tx, Cfg[next], "config") /\ next' = next + 1
  /\ servers' = Saved(tables, Cfg[next], "config")[1]
  /\ devices' = Saved(tables, Cfg[next], "config")[2]
  /\ UNCHANGED <<rows, lastId, main, stats, edits, crashes, fresh, found>>

SaveNext ==
  /\ main = "saving" /\ next <= Len(Cfg)
  /\ tx' = Saved(tx, Cfg[next], "config") /\ next' = next + 1
  /\ UNCHANGED <<tables, rows, lastId, main, stats, edits, crashes, fresh, found>>

Commit ==
  /\ main = "saving" /\ next > Len(Cfg)
  /\ servers' = tx[1] /\ devices' = tx[2]
  /\ main' = "ready"
  /\ UNCHANGED <<rows, lastId, next, tx, stats, edits, crashes, fresh, found>>

(* An error rolls back; Run logs it and goes on. *)
Rollback ==
  /\ main \in {"opened", "saving"}
  /\ main' = "ready"
  /\ UNCHANGED <<tables, rows, lastId, next, tx, stats, edits, crashes, fresh, found>>

(* The process is killed and started again on the same file. *)
Restart ==
  /\ crashes < MaxCrashes
  /\ main' = "opened" /\ crashes' = crashes + 1
  /\ UNCHANGED <<tables, rows, lastId, next, tx, stats, edits, fresh, found>>

----------------------------------------------------------------------------
(* Readings *)

Point == [device : DeviceIds, name : Names, ts : Times]

(* SavePointValue, and a batch: the rows arrive together or not at all.    *)
Insert(ps) ==
  /\ lastId + Len(ps) <= MaxRows
  /\ rows' = rows \cup { [id |-> lastId + i, device |-> ps[i].device,
                          name |-> ps[i].name, ts |-> ps[i].ts] : i \in 1..Len(ps) }
  /\ lastId' = lastId + Len(ps)

(* While a transaction writes, every other writer waits or gives up. *)
Unlocked == main # "saving"

(* The collector's writer *)
Store(p) ==
  /\ main = "ready" /\ Insert(<<p>>)
  /\ UNCHANGED <<tables, collectorVars, stats, edits, fresh>>

SavePointValues(ps) ==
  /\ Unlocked /\ Insert(ps)
  /\ UNCHANGED <<tables, collectorVars, stats, edits, fresh>>

DeletePointValues(S) ==
  /\ Unlocked /\ edits < MaxEdits /\ S # {}
  /\ rows' = rows \ S /\ edits' = edits + 1
  /\ UNCHANGED <<tables, lastId, collectorVars, stats, fresh>>

(* Save writes every field but the id, and inserts a reading that has been *)
(* deleted meanwhile again.                                                *)
UpdatePointValue(id, p) ==
  /\ Unlocked /\ edits < MaxEdits
  /\ rows' = { r \in rows : r.id # id }
               \cup {[id |-> id, device |-> p.device, name |-> p.name, ts |-> p.ts]}
  /\ edits' = edits + 1
  /\ UNCHANGED <<tables, lastId, collectorVars, stats, fresh>>

----------------------------------------------------------------------------
(* Definitions *)

Edit(t) ==
  /\ Unlocked /\ edits < MaxEdits
  /\ servers' = t[1] /\ devices' = t[2] /\ edits' = edits + 1
  /\ UNCHANGED <<rows, lastId, collectorVars, stats>>

(* UpdateServer, SaveServer, and the same of a device, put what they get;  *)
(* CreateServer and CreateDevice do so only when the id is not there.      *)
SaveDefinition(item) ==
  /\ Edit(Saved(tables, item, "client"))
  /\ fresh' = fresh \cup {item.id}

(* A device goes, its readings stay; a server goes, its devices stay. *)
DeleteServer(s) == s \in DOMAIN servers /\ Edit(<<Without(servers, s), devices>>) /\ fresh' = fresh
DeleteDevice(d) == d \in DOMAIN devices /\ Edit(<<servers, Without(devices, d)>>) /\ fresh' = fresh

----------------------------------------------------------------------------
(* Statistics *)

(* Mutant: the devices are asked for first. *)
StatsDevicesFirst ==
  /\ \/ stats.at = "idle" /\ stats' = [NotAsked EXCEPT !.at = "asking", !.devices = DOMAIN devices]
     \/ stats.at = "asking" /\ stats' = [stats EXCEPT !.at = "asked", !.servers = DOMAIN servers]
     \/ stats.at # "idle" /\ stats' = NotAsked
  /\ UNCHANGED <<tables, rows, lastId, collectorVars, edits, fresh>>

(* The servers, then the devices, then the readings of one device, each in *)
(* a query of its own; the answer is out, or a query has failed.  What it  *)
(* says of readings is left out: they come of one query.                   *)
StatsJSON ==
  /\ \/ stats.at = "idle" /\ stats' = [NotAsked EXCEPT !.at = "asking", !.servers = DOMAIN servers]
     \/ stats.at = "asking" /\ stats' = [stats EXCEPT !.at = "asked", !.devices = DOMAIN devices]
     \/ stats.at # "idle" /\ stats' = NotAsked
  /\ UNCHANGED <<tables, rows, lastId, collectorVars, edits, fresh>>

----------------------------------------------------------------------------
Collector ==
  \/ Count \/ Begin \/ SaveNext \/ Commit \/ Rollback \/ Restart
  \/ \E p \in Point : Store(p)

Client ==
  \/ \E p \in Point, n \in Names : SavePointValues(<<p, [p EXCEPT !.name = n]>>)
  \/ \E r \in rows : DeletePointValues({r})
  \/ \E d \in DeviceIds : DeletePointValues({ r \in rows : r.device = d })
  \/ \E id \in 1..lastId, p \in Point : UpdatePointValue(id, p)
  \/ \E item \in Item : SaveDefinition(item)
  \/ \E s \in ServerIds : DeleteServer(s)
  \/ \E d \in DeviceIds : DeleteDevice(d)
  \/ StatsJSON

Next == Collector \/ Client

Spec == Init /\ [][Next]_dbVars

----------------------------------------------------------------------------
(* However often the collector is killed while it fills the tables, they   *)
(* hold the whole configuration or nothing of it, as long as no client     *)
(* touched them: a table half filled would count as filled for ever.       *)
SeedIsWhole == edits = 0 => tables \in {Seeded[0], Seeded[Len(Cfg)]}

(* StatsJSON never shows a client half of the configuration, unless        *)
(* clients edit it: an answer that lists a server lists all of them and    *)
(* their devices, although the collector's transaction may commit between  *)
(* the two queries, or be killed and done again.                           *)
StatsAreWhole ==
  edits = 0 /\ stats.at = "asked" /\ stats.servers # {} =>
    LET whole == Seeded[Len(Cfg)]
    IN  stats.servers = DOMAIN whole[1] /\ stats.devices = DOMAIN whole[2]

(* A start of the collector replaces what a client wrote only if the       *)
(* client wrote it after the count, or there was no server to be counted.  *)
EditsOutliveRestarts ==
  [][ /\ \A s \in DOMAIN servers \cap DOMAIN servers' :
           servers[s] = "client" /\ servers'[s] = "config" => s \in fresh
      /\ \A d \in DOMAIN devices \cap DOMAIN devices' :
           devices[d].by = "client" /\ devices'[d].by = "config" => d \in fresh \/ ~found ]_dbVars

============================================================================
