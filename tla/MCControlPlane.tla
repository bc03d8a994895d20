--------------------------- MODULE MCControlPlane ---------------------------
(* Small instances of ControlPlane for TLC. *)
EXTENDS ControlPlane, TLC

CONSTANTS n1, n2, s1, s2

\* Two sessions on different nodes.
HomeTwo == s1 :> n1 @@ s2 :> n2

\* One session; the requests come in at both nodes.
HomeOne == s1 :> n1

TunnelSymmetry == Permutations(Tunnels)
=============================================================================
