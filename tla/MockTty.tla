------------------------------ MODULE MockTty ------------------------------
(***************************************************************************)
(* cmd/mocktty/main.go: one endpoint, a serial port with one stream or a   *)
(* TCP listener with one stream per connection, its ticker, and the end of *)
(* the process.  runAll waits for the context, then for the endpoint; the  *)
(* connections and the ticker are in no wait group it waits for, and the   *)
(* process ends with them as soon as it returns.                           *)
(***************************************************************************)
EXTENDS RtuLine

CONSTANTS Serial, Conns   \* the stream of the serial port, those of TCP

ASSUME EndpointAssumption == Lines = {Serial} \cup Conns /\ Serial \notin Conns

VARIABLES
  mode,      \* "serial" or "tcp"
  ctx,       \* the context is cancelled
  main,      \* runSerialEndpoint or runEndpoint
  stopped,   \* the channel stop is closed
  port       \* the serial port or the listener: "none", "open", "closed"

endVars == <<mode, ctx, main, stopped, port>>
ttyVars == <<lineVars, endVars>>

Init ==
  /\ LineInit
  /\ mode \in {"serial", "tcp"}
  /\ ctx = FALSE /\ main = "opening" /\ stopped = FALSE /\ port = "none"

(* runAll has returned. *)
Exited == ctx /\ main = "returned"

----------------------------------------------------------------------------
(* The endpoint *)

(* The store is seeded, the ticker started and, on a serial port, the      *)
(* stream's goroutine.                                                     *)
Open ==
  /\ main = "opening"
  /\ main' = "serving" /\ port' = "open"
  /\ upd' = [upd EXCEPT !.at = "select"]
  /\ rd' = IF mode = "serial" THEN [rd EXCEPT ![Serial] = Fresh] ELSE rd
  /\ UNCHANGED <<mode, ctx, stopped, storeVars, inputVars, due>>

OpenFails ==
  /\ main = "opening"
  /\ main' = "returned"
  /\ UNCHANGED <<mode, ctx, stopped, port, lineVars>>

(* runEndpoint: each connection has a goroutine of its own. *)
Accept(c) ==
  /\ mode = "tcp" /\ main = "serving" /\ port = "open" /\ At(c, "none")
  /\ rd' = [rd EXCEPT ![c] = Fresh]
  /\ UNCHANGED <<mode, ctx, main, stopped, port, storeVars, inputVars, upd, due>>

(* Any error of Accept ends the endpoint, and the listener is closed; its  *)
(* connections and its ticker go on.                                       *)
AcceptFails ==
  /\ mode = "tcp" /\ main = "serving"
  /\ main' = "returned" /\ port' = "closed"
  /\ UNCHANGED <<mode, ctx, stopped, lineVars>>

(* Mutant: only stop is closed. *)
ClosePortForgotten ==
  /\ ctx /\ ~stopped /\ port # "none"
  /\ stopped' = TRUE
  /\ UNCHANGED <<mode, ctx, main, port, lineVars>>

(* The goroutine of a TCP endpoint that waits for the context closes stop  *)
(* and the listener; on a serial port runSerialEndpoint does it itself.    *)
ClosePort ==
  /\ ctx /\ ~stopped /\ port # "none"
  /\ stopped' = TRUE /\ port' = "closed"
  /\ UNCHANGED <<mode, ctx, main, lineVars>>

(* Mutant: the stream's goroutine is not waited for. *)
SerialReturnsAtOnce ==
  /\ mode = "serial" /\ main = "serving" /\ port = "closed"
  /\ main' = "returned"
  /\ UNCHANGED <<mode, ctx, stopped, port, lineVars>>

(* <-done *)
SerialReturns ==
  /\ mode = "serial" /\ main = "serving" /\ port = "closed" /\ At(Serial, "ended")
  /\ main' = "returned"
  /\ UNCHANGED <<mode, ctx, stopped, port, lineVars>>

(* select: a tick or stop, either when both are ready. *)
EndTicker ==
  /\ upd.at = "select" /\ stopped
  /\ upd' = [upd EXCEPT !.at = "ended"]
  /\ UNCHANGED <<storeVars, inputVars, rd, due, endVars>>

Cancel ==
  /\ ~ctx
  /\ ctx' = TRUE
  /\ UNCHANGED <<mode, main, stopped, port, lineVars>>

----------------------------------------------------------------------------
(* The other ends *)

(* A line carries bytes while its stream is there to read them. *)
Receive(l) ==
  /\ rd[l].at \notin {"none", "ended"}
  /\ l = Serial => port = "open"
  /\ \E p \in Pieces[l] : Transmit(l, p)
  /\ UNCHANGED endVars

(* A serial port that carries nothing for ten seconds: its read gives up. *)
Quiet ==
  /\ port = "open" /\ ReadFails(Serial)
  /\ UNCHANGED endVars

(* The client of a connection has closed it: the read fails once it has    *)
(* taken what was written before.                                          *)
HangUp(c) == ReadFails(c) /\ UNCHANGED endVars

(* The serial port is closed. *)
ReadClosed ==
  /\ port = "closed" /\ ReadFails(Serial)
  /\ UNCHANGED endVars

Stream(l) == (ReadFull(l) \/ Acquire(l) \/ Execute(l)) /\ UNCHANGED endVars

Ticker == (Tick \/ Count) /\ UNCHANGED endVars

Endpoint == Open \/ OpenFails \/ ClosePort \/ SerialReturns

Next ==
  /\ ~Exited
  /\ \/ Endpoint \/ AcceptFails \/ EndTicker \/ Cancel \/ Ticker \/ Quiet \/ ReadClosed
     \/ \E c \in Conns : Accept(c) \/ HangUp(c)
     \/ \E l \in Lines : Receive(l) \/ Stream(l)

SafeSpec == Init /\ [][Next]_ttyVars

(* Every goroutine that can run does, and nobody waits for the mutex while *)
(* others take it again and again.  Nothing says that ports open, that     *)
(* other ends hang up or write, that ticks come, or that a serial line is  *)
(* ever quiet for ten seconds.                                             *)
Live(A) == ~Exited /\ A /\ UNCHANGED endVars

Fairness ==
  /\ \A l \in Lines : WF_ttyVars(Live(ReadFull(l) \/ Execute(l))) /\ SF_ttyVars(Live(Acquire(l)))
  /\ WF_ttyVars(Live(Count)) /\ WF_ttyVars(~Exited /\ ReadClosed)
  /\ WF_ttyVars(~Exited /\ (Endpoint \/ (port = "closed" /\ AcceptFails)))

Spec == SafeSpec /\ Fairness

----------------------------------------------------------------------------
(* Properties *)

(* A request that is carried out is answered, and on a line that carries   *)
(* whole frames every frame that asks is, unless the stream ends: neither  *)
(* the ticker nor another connection keeps it from the mutex for good.     *)
(* Writes of coils that bring too few bits, which end the process in a     *)
(* panic, are left out (CoilsAssumption).                                  *)
RequestsAnswered ==
  \A l \in Lines :
    due[l] # <<>> ~>
      (due[l] = <<>> \/ (l \notin clean /\ ~Serving(l)) \/ At(l, "ended") \/ Exited)

(* After a cancel the process ends, though clients stay connected and a    *)
(* stream may be in the middle of a frame or of a request.                 *)
EndsAfterCancel == ctx ~> Exited

(* A serial endpoint ends with its stream closed and nothing in hand: no   *)
(* request is cut off half written.                                        *)
SerialEndsCleanly ==
  mode = "serial" /\ main = "returned" =>
    /\ port # "open" /\ Serial \notin readers /\ writer # Serial
    /\ rd[Serial].at \in {"none", "ended"}

(* "runSerialEndpoint opens a real/virtual serial port and serves RTU      *)
(* frames": the stream is served until the context ends.                   *)
ServesUntilClosed == At(Serial, "ended") => ctx

(* "Unknown; try to drain some bytes and continue": a stream that finds the *)
(* bytes it waits for goes on, whatever function code they hold.           *)
NoiseEndsNoStream ==
  [][\A l \in Lines :
       At(l, "read") /\ Len(wire[l]) >= Missing(l) => rd'[l].at # "ended"]_ttyVars

============================================================================
