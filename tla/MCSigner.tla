------------------------------ MODULE MCSigner ------------------------------
(* Instances of Signer for TLC: inputs with a repeated value, as in the    *)
(* test's 0, 1, 1, 2, ...                                                  *)
EXTENDS Signer

TwoValues == <<"a", "b">>
=============================================================================
