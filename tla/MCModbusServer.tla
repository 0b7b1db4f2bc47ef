-------------------------- MODULE MCModbusServer --------------------------
(* Instances of ModbusServer: one table of two entries stands for each of  *)
(* the four, which differ in their limits alone.                           *)
EXTENDS ModbusServer

OneTable == {"holding"}
LimitOfTwo == [t \in Tables |-> 2]

Frame(fn, start, qty, words) ==
  [fn |-> fn, table |-> "holding", start |-> start, qty |-> qty, words |-> words,
   sound |-> TRUE]

ReadBoth == Frame("read", 0, 2, <<>>)
WriteBoth == Frame("write", 0, 2, <<1, 1>>)
ReadPastEnd == Frame("read", 1, 2, <<>>)
Empty == Frame("empty", 0, 0, <<>>)

(* A read and a write of both entries, a range past the end, a quantity    *)
(* past the limit, an ill-formed PDU, an unknown function, an empty frame. *)
AllFrames ==
  { ReadBoth, WriteBoth, ReadPastEnd, Empty, Frame("read", 0, 3, <<>>),
    [WriteBoth EXCEPT !.sound = FALSE], Frame("other", 0, 0, <<>>) }

(* SetHoldingFloat32 with another value, SetHoldingRegister, and           *)
(* HoldingFloat32 at the last address.                                     *)
AllCalls == { Frame("write", 0, 2, <<0, 0>>), Frame("write", 1, 1, <<1>>), ReadPastEnd }

============================================================================
