---------------------------- MODULE MCNetQueue ----------------------------
(* Two peers, of which one makes two requests and the other one; headers   *)
(* of two units, so that a header may arrive in two parts; replies that do *)
(* or do not fit the socket buffers.                                       *)
EXTENDS NetQueue

CONSTANTS p, q

MCMaxRequests == [x \in Peers |-> IF x = p THEN 2 ELSE 1]
\* One of them meets errors.
MCMaxUnasked == [x \in Peers |-> IF x = p THEN 2 ELSE 0]
NoneUnasked == [x \in Peers |-> 0]
=============================================================================
