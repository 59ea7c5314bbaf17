----------------------- MODULE MCProjectionReconcile -----------------------
(***************************************************************************)
(* A parent thread p with a child k, and one attachment f of the child.    *)
(***************************************************************************)
EXTENDS ProjectionReconcile, TLC

CONSTANTS p, k, f1

MCSubtree == p :> {p, k} @@ k :> {k}
MCThreadOf == [f \in Files |-> k]
=============================================================================
