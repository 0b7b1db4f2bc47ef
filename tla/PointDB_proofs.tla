--------------------------- MODULE PointDB_proofs ---------------------------
(***************************************************************************)
(* Theorems about PointDB, for every configuration and every set of        *)
(* servers, devices and readings: starting the collector undoes no edit    *)
(* that its count could have seen, seeding is whole or absent, and a       *)
(* client that asks for statistics meanwhile sees it whole or not at all.  *)
(***************************************************************************)
EXTENDS PointDB, Subsequences_proofs

(* While the collector is about to fill the tables, or at it, whatever     *)
(* server there is was written by a client since the count.                *)
FoundNone ==
  main \in {"empty", "saving"} => DOMAIN servers \subseteq fresh /\ ~found

(* What SaveDefinition puts into the tables is the client's. *)
LEMMA ClientSaves ==
  ASSUME NEW item \in Item, NEW t, t = Saved(tables, item, "client")
  PROVE  /\ DOMAIN t[1] \subseteq DOMAIN servers \cup {item.id}
         /\ \A s \in DOMAIN servers \cap DOMAIN t[1] :
              servers[s] = "client" => t[1][s] # "config"
         /\ \A d \in DOMAIN devices \cap DOMAIN t[2] :
              devices[d].by = "client" => t[2][d].by # "config"
<1>1. CASE item.id \in ServerIds
  <2>1. t[1] = Put(servers, item.id, "client") /\ t[2] = devices
    BY <1>1 DEF Saved, tables
  <2> QED BY <2>1 DEF Put
<1>2. CASE item.id \notin ServerIds
  <2>1. t[1] = servers /\ t[2] = Put(devices, item.id, [server |-> item.server, by |-> "client"])
    BY <1>2 DEF Saved, tables
  <2> QED BY <2>1 DEF Put
<1> QED BY <1>1, <1>2

(* Only a commit of the collector and the edits of clients change the      *)
(* tables.                                                                 *)
LEMMA TablesKept ==
  ASSUME Next,
         ~Commit, ~(\E item \in Item : SaveDefinition(item)),
         ~(\E s \in ServerIds : DeleteServer(s)), ~(\E d \in DeviceIds : DeleteDevice(d))
  PROVE  UNCHANGED <<servers, devices>>
BY DEF Next, Collector, Client, Count, Begin, SaveNext, Rollback, Restart, Store,
     SavePointValues, DeletePointValues, UpdatePointValue, StatsJSON, tables

(* Every step keeps it: the count itself, and the edits since. *)
LEMMA FoundNoneNext == FoundNone /\ [Next]_dbVars => FoundNone'
<1> SUFFICES ASSUME FoundNone, [Next]_dbVars PROVE FoundNone'
  OBVIOUS
<1>1. CASE UNCHANGED dbVars
  BY <1>1 DEF FoundNone, dbVars, tables, collectorVars
<1>2. CASE Count
  BY <1>2 DEF Count, FoundNone, tables
<1>3. CASE Begin
  BY <1>3 DEF Begin, FoundNone, tables
<1>4. CASE SaveNext
  BY <1>4 DEF SaveNext, FoundNone, tables
<1>5. CASE Commit \/ Rollback \/ Restart
  BY <1>5 DEF Commit, Rollback, Restart, FoundNone
<1>6. CASE \E item \in Item : SaveDefinition(item)
  <2> PICK item \in Item : SaveDefinition(item)
    BY <1>6
  <2>1. /\ servers' = Saved(tables, item, "client")[1]
        /\ fresh' = fresh \cup {item.id}
        /\ UNCHANGED <<main, found>>
    BY DEF SaveDefinition, Edit, collectorVars
  <2> QED BY <2>1, ClientSaves DEF FoundNone
<1>7. CASE \E s \in ServerIds : DeleteServer(s)
  BY <1>7 DEF DeleteServer, Edit, Without, FoundNone, collectorVars
<1>8. CASE \E d \in DeviceIds : DeleteDevice(d)
  BY <1>8 DEF DeleteDevice, Edit, FoundNone, collectorVars
<1>9. CASE \/ \E p \in Point : Store(p)
           \/ \E p \in Point, n \in Names : SavePointValues(<<p, [p EXCEPT !.name = n]>>)
           \/ \E r \in rows : DeletePointValues({r})
           \/ \E d \in DeviceIds : DeletePointValues({ r \in rows : r.device = d })
           \/ \E id \in 1..lastId, p \in Point : UpdatePointValue(id, p)
           \/ StatsJSON
  BY <1>9 DEF Store, SavePointValues, DeletePointValues, UpdatePointValue, StatsJSON, FoundNone,
       tables, collectorVars
<1> QED
  BY <1>1, <1>2, <1>3, <1>4, <1>5, <1>6, <1>7, <1>8, <1>9 DEF Next, Collector, Client

(* The step of the property. *)
EditKept ==
  /\ \A s \in DOMAIN servers \cap DOMAIN servers' :
       servers[s] = "client" /\ servers'[s] = "config" => s \in fresh
  /\ \A d \in DOMAIN devices \cap DOMAIN devices' :
       devices[d].by = "client" /\ devices'[d].by = "config" => d \in fresh \/ ~found

(* No step puts the configuration in the place of an older edit. *)
LEMMA StepKeepsEdits == FoundNone /\ [Next]_dbVars => [EditKept]_dbVars
<1> SUFFICES ASSUME FoundNone, Next PROVE EditKept
  OBVIOUS
<1>1. CASE Commit
  BY <1>1 DEF Commit, FoundNone, EditKept
<1>2. CASE \E item \in Item : SaveDefinition(item)
  <2> PICK item \in Item : SaveDefinition(item)
    BY <1>2
  <2>1. /\ servers' = Saved(tables, item, "client")[1]
        /\ devices' = Saved(tables, item, "client")[2]
    BY DEF SaveDefinition, Edit
  <2> QED BY <2>1, ClientSaves DEF EditKept
<1>3. CASE \E s \in ServerIds : DeleteServer(s)
  BY <1>3 DEF DeleteServer, Edit, Without, EditKept
<1>4. CASE \E d \in DeviceIds : DeleteDevice(d)
  BY <1>4 DEF DeleteDevice, Edit, Without, EditKept
<1>5. CASE UNCHANGED <<servers, devices>>
  BY <1>5 DEF EditKept
<1> QED
  BY <1>1, <1>2, <1>3, <1>4, <1>5, TablesKept

(* initDatabaseFromConfig overwrites what a client wrote only if the       *)
(* client came after the count; a definition of a device, also if there    *)
(* was no server to be counted.                                            *)
THEOREM EditsAreKept == Spec => EditsOutliveRestarts
<1>1. Init => FoundNone
  BY DEF Init, FoundNone
<1>2. [][EditKept]_dbVars <=> EditsOutliveRestarts
  BY DEF EditKept, EditsOutliveRestarts
<1> QED
  BY <1>1, <1>2, FoundNoneNext, StepKeepsEdits, PTL DEF Spec

----------------------------------------------------------------------------
(* The seed *)

IsSeeded(f, k) ==
  f = [n \in 0..k |-> IF n = 0 THEN <<Empty, Empty>> ELSE Saved(f[n - 1], Cfg[n], "config")]

(* A function that satisfies the recursive definition exists. *)
LEMMA SeededExists == \A k \in Nat : \E f : IsSeeded(f, k)
<1> DEFINE T == {k \in Nat : \E f : IsSeeded(f, k)}
<1>1. 0 \in T
  <2> DEFINE f == [n \in 0..0 |-> <<Empty, Empty>>]
  <2>1. f = [n \in 0..0 |-> IF n = 0 THEN <<Empty, Empty>> ELSE Saved(f[n - 1], Cfg[n], "config")]
    OBVIOUS
  <2> QED
    BY <2>1 DEF IsSeeded
<1>2. ASSUME NEW k \in Nat, k \in T PROVE k + 1 \in T
  <2>1. PICK f : IsSeeded(f, k)
    BY <1>2
  <2> DEFINE g == [n \in 0..k + 1 |-> IF n = k + 1 THEN Saved(f[k], Cfg[k + 1], "config") ELSE f[n]]
  <2>2. f = [n \in 0..k |-> IF n = 0 THEN <<Empty, Empty>> ELSE Saved(f[n - 1], Cfg[n], "config")]
    BY <2>1 DEF IsSeeded
  <2>3. ASSUME NEW n \in 0..k + 1
        PROVE  g[n] = IF n = 0 THEN <<Empty, Empty>> ELSE Saved(g[n - 1], Cfg[n], "config")
    <3>1. CASE n = k + 1
      <4>1. n # 0 /\ n - 1 = k /\ k \in 0..k + 1 /\ k # k + 1
        BY <3>1
      <4>2. g[n - 1] = f[k] /\ g[n] = Saved(f[k], Cfg[k + 1], "config")
        BY <3>1, <4>1
      <4> QED
        BY <3>1, <4>1, <4>2
    <3>2. CASE n # k + 1
      <4>1. n \in 0..k /\ g[n] = f[n]
        BY <3>2
      <4>2. f[n] = IF n = 0 THEN <<Empty, Empty>> ELSE Saved(f[n - 1], Cfg[n], "config")
        <5> HIDE DEF g
        <5> QED
          BY <2>2, <4>1
      <4>3. n # 0 => n - 1 \in 0..k + 1 /\ n - 1 # k + 1
        BY <4>1
      <4>4. n # 0 => g[n - 1] = f[n - 1]
        BY <4>3
      <4> QED
        BY <4>1, <4>2, <4>4
    <3> QED
      BY <3>1, <3>2
  <2>4. g = [n \in 0..k + 1 |-> g[n]]
    OBVIOUS
  <2> HIDE DEF g
  <2>5. IsSeeded(g, k + 1)
    BY <2>3, <2>4 DEF IsSeeded
  <2> QED
    BY <2>5
<1>3. Nat \subseteq T
  <2> HIDE DEF T
  <2> QED
    BY <1>1, <1>2, SetInduction
<1> QED
  BY <1>3

(* What the definition says of it. *)
LEMMA SeededRecursion ==
  /\ Len(Cfg) \in Nat \ {0}
  /\ Seeded[0] = <<Empty, Empty>>
  /\ \A n \in 1..Len(Cfg) : Seeded[n] = Saved(Seeded[n - 1], Cfg[n], "config")
<1>1. Len(Cfg) \in Nat \ {0}
  BY DBAssumption, EmptySeq
<1>2. IsSeeded(Seeded, Len(Cfg))
  <2> DEFINE P(f) == IsSeeded(f, Len(Cfg))
  <2>1. \E f : P(f)
    BY <1>1, SeededExists
  <2>2. Seeded = CHOOSE f : P(f)
    BY DEF Seeded, IsSeeded
  <2> HIDE DEF P
  <2>3. P(Seeded)
    BY <2>1, <2>2
  <2> QED
    BY <2>3 DEF P
<1> DEFINE f == Seeded
<1>3. f = [n \in 0..Len(Cfg) |-> IF n = 0 THEN <<Empty, Empty>> ELSE Saved(f[n - 1], Cfg[n], "config")]
  BY <1>2 DEF IsSeeded
<1> HIDE DEF f
<1>4. \A n \in 0..Len(Cfg) :
        f[n] = IF n = 0 THEN <<Empty, Empty>> ELSE Saved(f[n - 1], Cfg[n], "config")
  BY <1>3
<1>5. f[0] = <<Empty, Empty>> /\ \A n \in 1..Len(Cfg) : f[n] = Saved(f[n - 1], Cfg[n], "config")
  BY <1>1, <1>4
<1> QED
  BY <1>1, <1>5 DEF f

(* The configuration begins with a server, so a whole seed has one. *)
LEMMA SeedHasServer == DOMAIN Seeded[Len(Cfg)][1] # {}
<1> DEFINE has(n) == Cfg[1].id \in DOMAIN Seeded[n][1]
           T == {n \in Nat : n + 1 <= Len(Cfg) => has(n + 1)}
<1>1. 0 \in T
  <2>1. Seeded[1] = Saved(Seeded[0], Cfg[1], "config")
    BY SeededRecursion
  <2>2. Saved(Seeded[0], Cfg[1], "config")[1] = Put(Seeded[0][1], Cfg[1].id, "config")
    BY DBAssumption DEF Saved
  <2> QED
    BY <2>1, <2>2 DEF Put
<1>2. ASSUME NEW n \in Nat, n \in T PROVE n + 1 \in T
  <2> SUFFICES ASSUME (n + 1) + 1 <= Len(Cfg) PROVE has((n + 1) + 1)
    OBVIOUS
  <2> DEFINE m == n + 1
  <2>1. m \in Nat /\ m + 1 \in 1..Len(Cfg) /\ (m + 1) - 1 = m /\ m <= Len(Cfg)
    BY SeededRecursion
  <2>2. Seeded[m + 1] = Saved(Seeded[m], Cfg[m + 1], "config")
    BY <2>1, SeededRecursion
  <2>3. has(m)
    BY <1>2, <2>1
  <2> HIDE DEF m
  <2>4. DOMAIN Seeded[m][1] \subseteq DOMAIN Seeded[m + 1][1]
    <3>1. CASE Cfg[m + 1].id \in ServerIds
      <4>1. Seeded[m + 1][1] = Put(Seeded[m][1], Cfg[m + 1].id, "config")
        BY <2>2, <3>1 DEF Saved
      <4> QED
        BY <4>1 DEF Put
    <3>2. CASE Cfg[m + 1].id \notin ServerIds
      BY <2>2, <3>2 DEF Saved
    <3> QED
      BY <3>1, <3>2
  <2>5. has(m + 1)
    BY <2>3, <2>4
  <2> QED
    BY <2>5 DEF m
<1>3. Nat \subseteq T
  <2> HIDE DEF T
  <2> QED
    BY <1>1, <1>2, SetInduction
<1>4. Len(Cfg) - 1 \in Nat /\ (Len(Cfg) - 1) + 1 = Len(Cfg)
  BY SeededRecursion
<1>5. has(Len(Cfg))
  <2> HIDE DEF has
  <2> QED
    BY <1>3, <1>4
<1> QED
  BY <1>5

(* While no client has written, a start that found no server works on      *)
(* empty tables, and its transaction has saved the first items.            *)
SeedInv ==
  edits = 0 =>
    /\ tables \in {Seeded[0], Seeded[Len(Cfg)]}
    /\ main \in {"empty", "saving"} => tables = Seeded[0]
    /\ main = "saving" => next \in 1..Len(Cfg) + 1 /\ tx = Seeded[next - 1]
EditsTyped == edits \in Nat

LEMMA SeedNext == EditsTyped /\ SeedInv /\ [Next]_dbVars => EditsTyped' /\ SeedInv'
<1> SUFFICES ASSUME EditsTyped, SeedInv, [Next]_dbVars PROVE EditsTyped' /\ SeedInv'
  OBVIOUS
<1>1. ASSUME UNCHANGED <<servers, devices, main, next, tx, edits>> PROVE EditsTyped' /\ SeedInv'
  BY <1>1 DEF EditsTyped, SeedInv, tables
<1>2. CASE Count
  <2>1. CASE DOMAIN servers = {}
    <3>1. tables # Seeded[Len(Cfg)]
      BY <2>1, SeedHasServer DEF tables
    <3> QED
      BY <1>2, <2>1, <3>1 DEF Count, EditsTyped, SeedInv, tables
  <2>2. CASE DOMAIN servers # {}
    BY <1>2, <2>2 DEF Count, EditsTyped, SeedInv, tables
  <2> QED
    BY <2>1, <2>2
<1>3. CASE Begin
  BY <1>3, SeededRecursion DEF Begin, EditsTyped, SeedInv, tables
<1>4. CASE SaveNext
  <2>1. /\ next \in 1..Len(Cfg) => next' \in 1..Len(Cfg) + 1 /\ next' - 1 = next
        /\ next <= Len(Cfg) /\ tx' = Saved(tx, Cfg[next], "config") /\ next' = next + 1
    BY <1>4, SeededRecursion DEF SaveNext
  <2>2. edits = 0 => next \in 1..Len(Cfg) /\ tx' = Seeded[next]
    BY <1>4, <2>1, SeededRecursion DEF SaveNext, SeedInv
  <2> QED
    BY <1>4, <2>1, <2>2 DEF SaveNext, EditsTyped, SeedInv, tables
<1>5. CASE Commit
  <2>1. edits = 0 => next = Len(Cfg) + 1 /\ next - 1 = Len(Cfg) /\ tx = Seeded[Len(Cfg)]
    BY <1>5, SeededRecursion DEF Commit, SeedInv
  <2>2. \E u, v : Seeded[Len(Cfg)] = <<u, v>>
    <3>1. Seeded[Len(Cfg)] = Saved(Seeded[Len(Cfg) - 1], Cfg[Len(Cfg)], "config")
      BY SeededRecursion
    <3> QED
      BY <3>1 DEF Saved
  <2>3. edits = 0 => tables' = Seeded[Len(Cfg)]
    BY <1>5, <2>1, <2>2 DEF Commit, tables
  <2> QED
    BY <1>5, <2>3 DEF Commit, EditsTyped, SeedInv
<1>6. CASE Rollback \/ Restart
  BY <1>6 DEF Rollback, Restart, EditsTyped, SeedInv, tables
<1>7. ASSUME edits' = edits + 1 PROVE EditsTyped' /\ SeedInv'
  BY <1>7 DEF EditsTyped, SeedInv
<1>8. CASE \E p \in Point : Store(p)
  BY <1>1, <1>8 DEF Store, tables, collectorVars
<1>9. CASE Client
  <2>1. CASE \E p \in Point, n \in Names : SavePointValues(<<p, [p EXCEPT !.name = n]>>)
    BY <1>1, <2>1 DEF SavePointValues, tables, collectorVars
  <2>s. CASE StatsJSON
    BY <1>1, <2>s DEF StatsJSON, tables, collectorVars
  <2>2. CASE /\ ~ StatsJSON
             /\ ~ \E p \in Point, n \in Names : SavePointValues(<<p, [p EXCEPT !.name = n]>>)
    BY <1>7, <1>9, <2>2 DEF Client, DeletePointValues, UpdatePointValue, SaveDefinition,
       DeleteServer, DeleteDevice, Edit
  <2> QED
    BY <2>1, <2>s, <2>2
<1>10. CASE UNCHANGED dbVars
  BY <1>1, <1>10 DEF dbVars, tables, collectorVars
<1> QED
  BY <1>2, <1>3, <1>4, <1>5, <1>6, <1>8, <1>9, <1>10 DEF Next, Collector

(* Killed and started again at any point, initDatabaseFromConfig leaves    *)
(* all of the configuration in the tables or none of it.                   *)
THEOREM SeedAllOrNothing == Spec => []SeedIsWhole
<1>1. Init => EditsTyped /\ SeedInv
  BY SeededRecursion DEF Init, EditsTyped, SeedInv, tables
<1>2. SeedInv => SeedIsWhole
  BY DEF SeedInv, SeedIsWhole
<1> QED
  BY <1>1, <1>2, SeedNext, PTL DEF Spec

----------------------------------------------------------------------------
(* The statistics *)

(* Tables that hold the configuration are not filled again, so what a      *)
(* client has been told of the servers goes with what it is told next.     *)
StatsInv ==
  edits = 0 /\ stats.servers # {} =>
    /\ stats.at \in {"asking", "asked"}
    /\ tables = Seeded[Len(Cfg)]
    /\ stats.servers = DOMAIN Seeded[Len(Cfg)][1]
    /\ stats.at = "asked" => stats.devices = DOMAIN Seeded[Len(Cfg)][2]

LEMMA SeedStays ==
  ASSUME EditsTyped, SeedInv, [Next]_dbVars, edits' = 0, tables = Seeded[Len(Cfg)]
  PROVE  edits = 0 /\ tables' = tables
<1>1. edits = 0
  <2>1. edits' = edits \/ edits' = edits + 1
    BY DEF Next, Collector, Client, Count, Begin, SaveNext, Commit, Rollback, Restart, Store,
       SavePointValues, DeletePointValues, UpdatePointValue, SaveDefinition, DeleteServer, DeleteDevice,
       Edit, StatsJSON, dbVars
  <2> QED
    BY <2>1 DEF EditsTyped
<1>2. main \notin {"empty", "saving"}
  <2>1. tables # Seeded[0]
    BY SeededRecursion, SeedHasServer DEF Empty
  <2> QED
    BY <1>1, <2>1 DEF SeedInv
<1>3. ~Commit
  BY <1>2 DEF Commit
<1>4. /\ ~(\E item \in Item : SaveDefinition(item))
      /\ ~(\E s \in ServerIds : DeleteServer(s)) /\ ~(\E d \in DeviceIds : DeleteDevice(d))
  BY <1>1 DEF SaveDefinition, DeleteServer, DeleteDevice, Edit
<1>5. CASE Next
  BY <1>1, <1>3, <1>4, <1>5, TablesKept DEF tables
<1> QED
  BY <1>1, <1>5 DEF dbVars, tables

LEMMA StatsNext == EditsTyped /\ SeedInv /\ StatsInv /\ [Next]_dbVars => StatsInv'
<1> SUFFICES ASSUME EditsTyped, SeedInv, StatsInv, [Next]_dbVars, edits' = 0, stats'.servers # {}
             PROVE  /\ stats'.at \in {"asking", "asked"}
                    /\ tables' = Seeded[Len(Cfg)]
                    /\ stats'.servers = DOMAIN Seeded[Len(Cfg)][1]
                    /\ stats'.at = "asked" => stats'.devices = DOMAIN Seeded[Len(Cfg)][2]
  BY DEF StatsInv
<1>0. tables = Seeded[Len(Cfg)] => edits = 0 /\ tables' = tables
  BY SeedStays
<1>1. CASE StatsJSON
  <2>1. edits = 0 /\ tables' = tables
    BY <1>1 DEF StatsJSON
  <2>2. CASE stats.at = "idle" /\ stats' = [NotAsked EXCEPT !.at = "asking", !.servers = DOMAIN servers]
    <3>1. stats'.at = "asking" /\ stats'.servers = DOMAIN servers
      BY <2>2 DEF NotAsked
    <3>2. tables # Seeded[0]
      BY <3>1, SeededRecursion DEF tables, Empty
    <3>3. tables = Seeded[Len(Cfg)]
      BY <2>1, <3>2 DEF SeedInv
    <3>4. DOMAIN servers = DOMAIN Seeded[Len(Cfg)][1]
      BY <3>3 DEF tables
    <3> QED
      BY <2>1, <3>1, <3>3, <3>4
  <2>3. CASE stats.at = "asking" /\ stats' = [stats EXCEPT !.at = "asked", !.devices = DOMAIN devices]
    <3>1. stats'.servers = stats.servers
      BY <2>3
    <3>2. tables = Seeded[Len(Cfg)] /\ stats.servers = DOMAIN Seeded[Len(Cfg)][1]
      BY <2>1, <3>1 DEF StatsInv
    <3>3. DOMAIN devices = DOMAIN Seeded[Len(Cfg)][2]
      BY <3>2 DEF tables
    <3> QED
      BY <2>1, <2>3, <3>1, <3>2, <3>3
  <2>4. CASE stats' = NotAsked
    BY <2>4 DEF NotAsked
  <2> QED
    BY <1>1, <2>2, <2>3, <2>4 DEF StatsJSON
<1>2. CASE ~StatsJSON
  <2>1. stats' = stats
    BY <1>2 DEF Next, Collector, Client, Count, Begin, SaveNext, Commit, Rollback, Restart, Store,
       SavePointValues, DeletePointValues, UpdatePointValue, SaveDefinition, DeleteServer, DeleteDevice,
       Edit, dbVars
  <2>2. edits = 0
    <3>1. edits' = edits \/ edits' = edits + 1
      BY DEF Next, Collector, Client, Count, Begin, SaveNext, Commit, Rollback, Restart, Store,
         SavePointValues, DeletePointValues, UpdatePointValue, SaveDefinition, DeleteServer, DeleteDevice,
         Edit, StatsJSON, dbVars
    <3> QED
      BY <3>1 DEF EditsTyped
  <2> QED
    BY <1>0, <2>1, <2>2 DEF StatsInv
<1> QED
  BY <1>1, <1>2

(* However StatsJSON's queries fall around the collector's start, what     *)
(* they show together is the whole configuration or no server of it.       *)
THEOREM StatsSeeWholeSeeds == Spec => []StatsAreWhole
<1>1. Init => EditsTyped /\ SeedInv /\ StatsInv
  BY SeededRecursion DEF Init, EditsTyped, SeedInv, StatsInv, NotAsked, tables
<1>2. StatsInv => StatsAreWhole
  BY DEF StatsInv, StatsAreWhole
<1> QED
  BY <1>1, <1>2, SeedNext, StatsNext, PTL DEF Spec
============================================================================
