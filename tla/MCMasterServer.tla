--------------------------- MODULE MCMasterServer ---------------------------
(* Small instances of MasterServer for TLC. *)
EXTENDS MasterServer, TLC

MCGates == {3}
MCServerOf == [g \in GateSids |-> 3]
MCGateMax == [g \in MCGates |-> 1]
MCRegions == {4}
MCChannels == {0}
MCInitialRegion == [ch \in Channels |-> 4]

\* Behaviours are followed up to the first pass of _Loop that meets two players.
UpToOverrun == ~overrun

\* Behaviours are followed until more notices than that are lost.
MaxLost == 3
FewLost == Cardinality(peers.untold) <= MaxLost

\* Accounts, objects and session ids are only compared for equality.
Symmetry ==
  UNION { Permutations(S) : S \in {Accounts, Ctx, LoginSids, GateSids} }
=============================================================================
