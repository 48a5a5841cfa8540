----------------------------- MODULE MCTracker ------------------------------
(* Instances of Tracker for TLC. *)
EXTENDS Tracker

(* Up to three tiers of up to three trackers. *)
UpTo(n, S) == UNION {[1..k -> S] : k \in 0..n}
SmallLists == UpTo(2, UpTo(3, Schemes)) \cup UpTo(3, UpTo(2, Schemes))
=============================================================================
