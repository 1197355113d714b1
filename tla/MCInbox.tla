------------------------------ MODULE MCInbox ------------------------------
(***************************************************************************)
(* Instances of Inbox for TLC: one account with two projects, and two      *)
(* accounts whose projects have the same slug.  Requests are               *)
(* interchangeable.                                                        *)
(***************************************************************************)
EXTENDS Inbox, TLC

RequestSymmetry == Permutations(Requests)

OneAccountSlug  == [p \in Projects |-> IF p = "p1" THEN "web" ELSE "api"]
OneAccountOwner == [p \in Projects |-> 1]
SameSlug        == [p \in Projects |-> "web"]
TwoAccountOwner == [p \in Projects |-> IF p = "p1" THEN 1 ELSE 2]
=============================================================================
