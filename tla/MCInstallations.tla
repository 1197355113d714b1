-------------------------- MODULE MCInstallations --------------------------
(***************************************************************************)
(* Owners of the projects of Installations for TLC.                        *)
(***************************************************************************)
EXTENDS Installations

OwnedByBoth == [p \in {"p1", "p2"} |-> IF p = "p1" THEN "u1" ELSE "u2"]
=============================================================================
