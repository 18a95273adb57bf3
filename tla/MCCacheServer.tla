---------------------------- MODULE MCCacheServer ---------------------------
(* Small instances of CacheServer for TLC. *)
EXTENDS CacheServer, TLC

\* Two players: every event once; the save, which nothing waits for, is left
\* to the other instance.
OnceEach == [i \in EventIds |-> IF i = "AVATARSAVEDATA" THEN 0 ELSE 1]

\* One player: lists, creates and selects again, and is finalized twice.
Again == [i \in EventIds |->
            IF i \in {"GETAVATARLIST", "AVATARCREATE", "AVATARSELECTDATA", "AVATARFINALIZE"}
            THEN 2 ELSE 1]

\* Behaviours are followed up to the first pass of _Loop that meets two
\* players.
Bounded == ~overrun

Symmetry == Permutations(Contexts) \cup Permutations(Sessions)
              \cup Permutations(Accounts) \cup Permutations(Names)
=============================================================================
