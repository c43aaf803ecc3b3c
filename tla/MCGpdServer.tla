----------------------------- MODULE MCGpdServer -----------------------------
(***************************************************************************)
(* Three clients and two sockets; some clients may keep silent for ever.   *)
(***************************************************************************)
EXTENDS GpdServer

CONSTANTS c1, c2, c3

ThreeClients == {c1, c2, c3}
AllButThird == {c1, c2}
==============================================================================
