------------------------------- MODULE MCCart --------------------------------
(* Requests of one guest at the same time: two plain variants, two that are*)
(* personalizable, and a design for the first of these.                    *)
EXTENDS Cart, TLC

CONSTANTS black, clear, photo, slim, picture

MCVariantOf == [d \in Design |-> photo]

Interchangeable == Permutations(Request)

=============================================================================
