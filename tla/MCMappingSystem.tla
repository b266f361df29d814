-------------------------- MODULE MCMappingSystem ---------------------------
(* MappingSystem for TLC.  The map is three units wide, the vehicle starts *)
(* at two of them.  An image has three bearings, the last is not used.     *)
EXTENDS MappingSystem

Ray(dx, dy, whole, half) == [step |-> <<dx, dy>>, whole |-> whole, half |-> half]
NoRange == Ray(8, 0, 0, 0)

FirstRays == {Ray(8, 0, 8, 1), Ray(0, 8, 9, 0), Ray(-4, -6, 14, 1)}
SecondRays == {NoRange, Ray(-6, 4, 8, 1)}
MCImageSet == {<<a, b, a>> : a \in FirstRays, b \in SecondRays} \cup {<<NoRange, NoRange, NoRange>>}
MCDisplacements == {-60, -30, 0, 20, 50}
=============================================================================
