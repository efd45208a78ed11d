-------------------------- MODULE MCDiscoveryClaims --------------------------
(***************************************************************************)
(* A small plan for DiscoveryClaims: a source with a batch of two queries  *)
(* and one with a batch of three and a batch of one.  With a cap of 6 the  *)
(* holds of 3, 4 and 2 do not fit together, but the 3 would fit twice, and *)
(* 4 with its successor 2: there the claims alone keep two ticks apart.    *)
(***************************************************************************)
EXTENDS DiscoveryClaims, TLC

CONSTANTS s1, s2

MCSourceOrder == <<s1, s2>>
MCQueryCount == (s1 :> 2) @@ (s2 :> 4)
=============================================================================
