---------------------------- MODULE MCJwksCache ----------------------------
EXTENDS JwksCache

CONSTANTS c1, c2, k1

(* The provider sends no usable max-age, or zero.                          *)
NoneOrZero == {-1, 0}
=============================================================================
