------------------------------- MODULE MCPrgm -------------------------------
(* Prgm for TLC: two buckets, so that keys share a bucket and do not.      *)
EXTENDS Prgm

MCHashBkt(k) == (k \div 2) % 2

=============================================================================
