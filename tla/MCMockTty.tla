----------------------------- MODULE MCMockTty -----------------------------
(* The instance of MockTty.  The two bytes of a checksum look like the     *)
(* function code of a read, so that a shifted line goes on being read.     *)
EXTENDS MockTty, TLC

CONSTANTS tty, c1, c2

TwoConns == {c1, c2}
AllLines == {tty, c1, c2}
One == 1
Other == 2

Two(x) == <<x \div 256, x % 256>>
Checksum(b) == [k \in 1..2 |-> [v |-> 3, of |-> b]]
Bytes(b) == [k \in 1..Len(b) |-> Byte(b[k])] \o Checksum(b)

ReadBody(s, start, qty) == <<s, 3>> \o Two(start) \o Two(qty)
WriteBody(s, start, words) ==
  <<s, 16>> \o Two(start) \o Two(Len(words)) \o <<2 * Len(words)>>
    \o FlattenSeq([k \in 1..Len(words) |-> Two(words[k])])

Frame(b) == [bytes |-> Bytes(b), asks |-> b[1] = One, whole |-> TRUE]

ReadBoth == Frame(ReadBody(One, 0, 2))
WriteBoth == Frame(WriteBody(One, 0, <<0, 1>>))
SetPastEnd == Frame(<<One, 6>> \o Two(2) \o Two(1))
SetCoils == Frame(<<One, 15>> \o Two(0) \o Two(2) \o <<1, 2>>)
ReadOther == Frame(ReadBody(Other, 0, 1))

(* A byte changed, a byte lost, a spurious one. *)
Damaged == [bytes |-> [WriteBoth.bytes EXCEPT ![9].v = 1], asks |-> FALSE, whole |-> TRUE]
ShortOne == [bytes |-> RemoveAt(ReadBoth.bytes, 3), asks |-> FALSE, whole |-> FALSE]
Noise == [bytes |-> <<Byte(0)>>, asks |-> FALSE, whole |-> FALSE]

MCPieces ==
  (tty :> {WriteBoth, ReadOther, Damaged, ShortOne, Noise})
  @@ (c1 :> {WriteBoth}) @@ (c2 :> {ReadBoth, SetPastEnd, SetCoils})
MCMaxPieces == (tty :> 3) @@ (c1 :> 1) @@ (c2 :> 1)

MCSeed == [t \in Tables |-> [x \in 0..Size - 1 |-> IF t = "holding" THEN (x + 1) % 2 ELSE 0]]
LimitOfTwo == [t \in Tables |-> 2]

============================================================================
