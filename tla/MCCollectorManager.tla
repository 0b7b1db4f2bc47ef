------------------------- MODULE MCCollectorManager -------------------------
(* The instances of CollectorManager that TLC checks.                       *)
EXTENDS CollectorManager, TLC

CONSTANTS c1, c2

JsonAndDb == <<"json", "db">>
DbOnly == <<"db">>

(* Raw values are numbers, near when they differ by at most one: like       *)
(* FloatsEqual, a relation that is not transitive.                          *)
MCNear(a, b) == a - b \in {0, 1} \/ b - a \in {0, 1}

(* NaN: near nothing, itself included, and json.Marshal refuses it. *)
NaN == 9
NearOrNaN(a, b) == a # NaN /\ b # NaN /\ MCNear(a, b)
NaNs == { r \in Readings : r[3] = NaN }

Both == {c1, c2}

(* One device without, one with a retry of its connect. *)
Retries == (c1 :> 0) @@ (c2 :> 1)

(* Drifting readings of points that share a key: enough of them for two     *)
(* small steps to make a big one, while a second device, with two rounds,   *)
(* waits for the only slot.                                                 *)
DriftPoints == (c1 :> 3) @@ (c2 :> 1)
DriftKeys == (c1 :> <<1, 1, 1>>) @@ (c2 :> <<1>>)
DriftPolls == (c1 :> 1) @@ (c2 :> 2)
DriftRaw == (c1 :> {1, 2, 3}) @@ (c2 :> {1})

(* Shutdown: two devices at work, one with two points, one whose reading    *)
(* has no JSON form.                                                        *)
StopPoints == (c1 :> 2) @@ (c2 :> 1)
StopKeys == (c1 :> <<1, 2>>) @@ (c2 :> <<1>>)
StopPolls == (c1 :> 1) @@ (c2 :> 1)
StopRaw == (c1 :> {1}) @@ (c2 :> {NaN})

=============================================================================
