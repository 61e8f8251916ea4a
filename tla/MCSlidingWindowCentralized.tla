---- MODULE MCSlidingWindowCentralized ----
(* Small instances of SlidingWindowCentralized for TLC. *)
EXTENDS SlidingWindowCentralized, MCLimiters
====
