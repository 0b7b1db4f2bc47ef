-------------------------- MODULE MCServerManager --------------------------
(* The instance of ServerManager.  The first server has a float clients    *)
(* can write, whose value in the second row is out of range, and a float   *)
(* declared at the last address, which is refused; the second server has   *)
(* no points.  The first server has a second attempt to listen.            *)
EXTENDS ServerManager

TwoServers == <<"a", "b">>

Points ==
  << [addr |-> 0, wide |-> TRUE, open |-> TRUE, rows |-> {1}],
     [addr |-> 2, wide |-> TRUE, open |-> FALSE, rows |-> {1, 2}] >>

WithPoints == [s \in Servers |-> IF s = "a" THEN Points ELSE <<>>]
Retries == [s \in Servers |-> IF s = "a" THEN 1 ELSE 0]

============================================================================
