---------------------------- MODULE MCIssueJobs ----------------------------
(***************************************************************************)
(* Symmetry of the safety runs of IssueJobs: nothing tells one repository  *)
(* from another.  (Groups are not symmetric: SomeGroup chooses one.)       *)
(***************************************************************************)
EXTENDS IssueJobs, TLC

RepoSymmetry == Permutations(Repos)
=============================================================================
