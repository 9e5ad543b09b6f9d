-------------------------------- MODULE MCDfs --------------------------------
(* Small instances of Dfs for TLC.                                         *)
EXTENDS Dfs, TLC

CONSTANTS ip1, ip2, port1, port2, file1, c1, c2, x1, x2, x3, y1

(* Two datanodes on hosts of their own.  A heartbeat of either one fills   *)
(* its entry with what is there and recounts, so one of them stands for    *)
(* both.                                                                   *)
TwoHosts == {[datanode_id |-> 1, ip |-> ip1, port |-> port1],
             [datanode_id |-> 2, ip |-> ip2, port |-> port2]}
TheSecond == {h \in TwoHosts : h.datanode_id = 2}
AllRequests ==
    {[req_type |-> t, file_name |-> file1, file_size |-> n] :
        t \in {"read", "write", "modify", "query"}, n \in 0 .. 4}

(* One client has a file of a block and a half, the other one of a      *)
(* byte.                                                                   *)
TwoWriters ==
    (c1 :> (file1 :> <<x1, x2, x3>>)) @@ (c2 :> (file1 :> <<y1>>))

OneAndTwo == (c1 :> 1) @@ (c2 :> 2)

(* As test case 8 does it: the second block of a file of two. *)
SecondBlock == {[file_size |-> 4, start_addr |-> 2, end_addr |-> 3]}
=============================================================================
