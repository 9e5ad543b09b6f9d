---------------------------- MODULE MCNamenode ----------------------------
(* Small instances of Namenode for TLC.                                    *)
EXTENDS Namenode

CONSTANTS ip1, ip2, port1, port2, port3, file1, file2, file3

At(id, ip, port) == [datanode_id |-> id, ip |-> ip, port |-> port]
Ask(type, name, size) == [req_type |-> type, file_name |-> name, file_size |-> size]

(* Two datanodes, one of which may come back on another host and port, and *)
(* one with the id MAX_DATANODE_NUM.                                       *)
MovingDatanodes == {At(1, ip1, port1), At(1, ip2, port3), At(2, ip2, port2), At(3, ip1, port3)}
OneDatanode == {At(1, ip1, port1)}

(* Requests that run against the registration: assignments and queries.    *)
AnyAssignment == {Ask("write", file1, 3), Ask("modify", file1, 3), Ask("query", file1, 0)}
(* More files than images.                                                 *)
ThreeFiles == {Ask(t, x, n) : t \in {"write", "modify"}, x \in {file1, file2}, n \in {1, 3}}
                 \cup {Ask("read", file1, 0), Ask("query", file1, 0), Ask("write", file3, 1)}
=============================================================================
