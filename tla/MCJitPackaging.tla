---------------------------- MODULE MCJitPackaging ----------------------------
(***************************************************************************)
(* Instances of JitPackaging for TLC: the sets its configurations name.    *)
(***************************************************************************)
EXTENDS JitPackaging, TLC

CONSTANTS c1, c2, c3, srcA, srcB

TwoClients   == {c1, c2}
ThreeClients == {c1, c2, c3}
OneClient    == {c1}
BothSources  == {srcA, srcB}
OneSource    == {srcA}
NoneEncrypted == {}

\* Clients are interchangeable: nothing in the code tells threads apart.
Symmetry == Permutations(Clients)
=============================================================================
