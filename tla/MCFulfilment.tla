------------------------------ MODULE MCFulfilment ------------------------------
(***************************************************************************)
(* Fulfilment with the constants of MCShop.                                *)
(***************************************************************************)
EXTENDS Fulfilment, MCShop

===============================================================================
