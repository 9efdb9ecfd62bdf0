--------------------------- MODULE MCHostCircuit ---------------------------
(* A curve with 8 * 37 points over the field of 293 elements. *)
EXTENDS HostCircuit

At(x, y) == [u |-> x, v |-> y]
MCBase     == At(5, 144)
MCSegments == <<At(13, 117), At(15, 129), At(23, 33)>>
MCDST      == <<1, 0>>
\* Generators of the curve and of its even orders, and points of small order.
MCTorsion  == {Neutral, HostMul(37, At(1, 87))}
MCForeign  == {HostMul(2, At(1, 87)), HostMul(74, At(1, 87)), HostMul(8, At(1, 87)), At(1, 87)}
=============================================================================
