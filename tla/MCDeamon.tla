------------------------------ MODULE MCDeamon ------------------------------
EXTENDS Deamon, TLC

CONSTANTS pa, pb, na, nb, d1, d2

MCNameOf == pa :> na @@ pb :> nb

=============================================================================
