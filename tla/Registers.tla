----------------------------- MODULE Registers -----------------------------
(***************************************************************************)
(* What a Modbus server promises to whoever reads and writes its register  *)
(* tables: every request is carried out at one moment between its arrival  *)
(* and its answer, as a whole or, when the request is refused, not at all. *)
(***************************************************************************)
EXTENDS Naturals, Sequences

CONSTANTS
  Actors,      \* the clients, and the goroutines that call the setters
  Requests,    \* the requests they make
  Tables,      \* the tables of a server
  Size,        \* entries of a table
  Contents,    \* what the tables hold at first
  Limit(_, _), \* entries one request of a kind may name in a table
  NoRequest

VARIABLES
  table,       \* the contents of each table
  request,     \* the request each actor has made and not seen answered
  answer       \* its answer, once it has been carried out

vars == <<table, request, answer>>

Addresses == 0..Size - 1
Answered(code, data) == [code |-> code, data |-> data]
NoAnswer == Answered("none", <<>>)

(* The entries a request names. *)
Named(r) == { r.start + k - 1 : k \in 1..r.qty }

Understood(r) == r.fn \in {"read", "write"}
Meaningful(r) == r.sound /\ r.qty \in 1..Limit(r.fn, r.table)
Addressable(r) == Named(r) \subseteq Addresses

Init ==
  /\ table = Contents
  /\ request = [a \in Actors |-> NoRequest]
  /\ answer = [a \in Actors |-> NoAnswer]

Invoke(a, r) ==
  /\ request[a] = NoRequest
  /\ request' = [request EXCEPT ![a] = r]
  /\ UNCHANGED <<table, answer>>

(* Refused, with the reason, and without a trace. *)
Refuse(a, code) ==
  /\ answer' = [answer EXCEPT ![a] = Answered(code, <<>>)]
  /\ UNCHANGED <<table, request>>

Read(a, r) ==
  /\ answer' = [answer EXCEPT ![a] =
       Answered("ok", [k \in 1..r.qty |-> table[r.table][r.start + k - 1]])]
  /\ UNCHANGED <<table, request>>

Write(a, r) ==
  /\ table' = [table EXCEPT ![r.table] =
       [x \in Addresses |->
          IF x \in Named(r) THEN r.words[x - r.start + 1] ELSE table[r.table][x]]]
  /\ answer' = [answer EXCEPT ![a] = Answered("ok", <<>>)]
  /\ UNCHANGED request

Perform(a) ==
  /\ request[a] # NoRequest /\ answer[a] = NoAnswer
  /\ LET r == request[a] IN
     \/ ~Understood(r) /\ Refuse(a, "function")
     \/ Understood(r) /\ ~Meaningful(r) /\ Refuse(a, "value")
     \/ Understood(r) /\ Meaningful(r) /\ ~Addressable(r) /\ Refuse(a, "address")
     \/ /\ Understood(r) /\ Meaningful(r) /\ Addressable(r)
        /\ \/ r.fn = "read" /\ Read(a, r)
           \/ r.fn = "write" /\ Write(a, r)

Respond(a) ==
  /\ answer[a] # NoAnswer
  /\ answer' = [answer EXCEPT ![a] = NoAnswer]
  /\ request' = [request EXCEPT ![a] = NoRequest]
  /\ UNCHANGED table

Next == \E a \in Actors :
  \/ \E r \in Requests : Invoke(a, r)
  \/ Perform(a)
  \/ Respond(a)

Spec == Init /\ [][Next]_vars

============================================================================
