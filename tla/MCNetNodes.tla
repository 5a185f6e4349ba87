---------------------------- MODULE MCNetNodes ----------------------------
(* Two CNode objects; a peer connects to us from b.  ThreadOpenConnections *)
(* (t1) runs with -connect and its one-shots, ThreadOpenAddedConnections   *)
(* (t2) opens address a.  One outbound slot and one inbound connection, so *)
(* that with two objects each limit can be met.                            *)
EXTENDS NetNodes

CONSTANTS t1, t2, a, b, n1, n2, none

TwoThreads == [t \in {t1, t2} |-> IF t = t1 THEN {"oneshot", "connect"} ELSE {"address"}]
OneThread == [t \in {t1} |-> {"address"}]
=============================================================================
