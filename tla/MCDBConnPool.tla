---------------------------- MODULE MCDBConnPool ----------------------------
(* Small instances of DBConnPool for TLC: the avatar list of player s1, its *)
(* logout with the finalize event that is pushed right behind it, and three *)
(* periodic saves of player s2.                                             *)
EXTENDS DBConnPool, TLC

CONSTANTS list1, save1, save2, save3, logout1, final1

Saves == {save1, save2, save3}

MCEventIds == {"GETAVATARLIST", "AVATARSAVEDATA", "AVATARLOGOUT",
               "AVATARFINALIZE"}
MCSessions == {"s1", "s2"}
MCEventIdOf ==
  [e \in Events |->
     CASE e = list1 -> "GETAVATARLIST"
       [] e \in Saves -> "AVATARSAVEDATA"
       [] e = logout1 -> "AVATARLOGOUT"
       [] e = final1 -> "AVATARFINALIZE"]
MCSessionOf == [e \in Events |-> IF e \in Saves THEN "s2" ELSE "s1"]
MCReturnable == Events \ Saves

\* Workers are alike, and so are the saves.
Symmetry == Permutations(Workers) \cup Permutations(Saves)
=============================================================================
