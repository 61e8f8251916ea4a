---- MODULE MCLeakyBucketCentralizedSet ----
(* Small instances of LeakyBucketCentralizedSet for TLC. *)
EXTENDS LeakyBucketCentralizedSet, MCLimiters
====
