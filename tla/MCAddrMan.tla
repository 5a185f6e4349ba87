----------------------------- MODULE MCAddrMan -----------------------------
(* Three hosts on new and tried buckets of one or two places, so buckets   *)
(* fill up, entries are evicted from both tables and an evicted one may    *)
(* find its own new bucket full.                                           *)
EXTENDS AddrMan

CONSTANTS A, B, C, p, q, s1, s2, s3, n1, n2, n3, k1

MCNewBucketOf == [x \in Hosts \X Sources |->
                    IF x[2] = s1 THEN n1 ELSE IF x[2] = s2 THEN n2 ELSE n3]
MCTriedBucketOf == [x \in Hosts \X Ports |-> k1]
=============================================================================
