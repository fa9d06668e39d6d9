---------------------------- MODULE MC_SprintClosing ----------------------------
(* Small instances of SprintClosing for TLC.  The statuses with is_closed and  *)
(* without are one each per kind of item.                                      *)
EXTENDS SprintClosing, TLC

Interchangeable ==
  Permutations(UserStories) \cup Permutations(Tasks) \cup Permutations(Milestones)
=============================================================================
