---------------------------- MODULE Subsequences ----------------------------
(***************************************************************************)
(* The elements of a sequence that belong to a set, in their order: what   *)
(* an output keeps of the readings it is handed, and which readings belong *)
(* to one point.  It is a recursive function, not SelectSeq, so that the   *)
(* prover can reason about it: see Subsequences_proofs.                    *)
(***************************************************************************)
EXTENDS Naturals, Sequences

Among(t, S) ==
  LET among[n \in 0..Len(t)] ==
        IF n = 0 THEN <<>>
        ELSE IF t[n] \in S THEN Append(among[n - 1], t[n]) ELSE among[n - 1]
  IN  among[Len(t)]

=============================================================================
