---------------------------- MODULE MCGateServer ----------------------------
(* Small instances of GateServer for TLC. *)
EXTENDS GateServer, TLC

CONSTANT MaxUses       \* how often one session may be used

\* Behaviours are followed up to the first pass of _Loop that meets two
\* sessions or the first null pointer that is followed, and while no session
\* was used more than MaxUses times.
Bounded == ~overrun /\ ~wild /\ \A s \in Sessions : seq[s] <= MaxUses

\* Accounts, connections and sessions are only compared for equality, but for
\* the index that _CheckSessionState compares.
Symmetry ==
  Permutations(Accounts) \cup Permutations(Conns) \cup Permutations(Checked)
    \cup Permutations(Sessions \ Checked)
=============================================================================
