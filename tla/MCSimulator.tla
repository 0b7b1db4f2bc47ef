---------------------------- MODULE MCSimulator ----------------------------
(* The instance of Simulator: words of eight values, three rows, a         *)
(* register of each data type, one of them with a column that the file     *)
(* does not have.                                                          *)
EXTENDS Simulator

MCConfig ==
  << [table |-> "holding", kind |-> "float32", addr |-> 0],
     [table |-> "holding", kind |-> "int16", addr |-> 2],
     [table |-> "input", kind |-> "uint16", addr |-> 0],
     [table |-> "input", kind |-> "float32", addr |-> 2],
     [table |-> "coil", kind |-> "bit", addr |-> 0],
     [table |-> "discrete", kind |-> "bit", addr |-> 0] >>

(* A float of which both words change, then one that is not a number; a    *)
(* negative value that is rounded, then the greatest; one that rounds to   *)
(* the greatest, then one past it; a float that does not fit; a bit, not a *)
(* number between.                                                         *)
MCData ==
  << <<10, -7, 14, 9, 1, Missing>>, <<NaN, 6, 15, 9, NaN, Missing>>, <<35, -8, 3, 9, 1, Missing>> >>

============================================================================
