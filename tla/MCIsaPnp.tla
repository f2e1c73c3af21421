------------------------------ MODULE MCIsaPnp ------------------------------
(* Three cards, two of them with the same PnP ID; three-bit serials.        *)
EXTENDS IsaPnp, TLC

CONSTANTS c1, c2, c3, rtl, sb

MCNameOf == (c1 :> rtl) @@ (c2 :> rtl) @@ (c3 :> sb)
MCSerial == (c1 :> <<0, 1, 1>>) @@ (c2 :> <<0, 1, 0>>) @@ (c3 :> <<1, 0, 1>>)
=============================================================================
