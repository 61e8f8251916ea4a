---- MODULE MCLeakyBucketCentralized ----
(* Small instances of LeakyBucketCentralized for TLC. *)
EXTENDS LeakyBucketCentralized, MCLimiters
====
