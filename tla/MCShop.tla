--------------------------------- MODULE MCShop ---------------------------------
(***************************************************************************)
(* Values for the constants of Shop that a configuration file cannot write *)
(* down, and the symmetries of the small instances.                        *)
(***************************************************************************)
EXTENDS ShopProperties, TLC

\* Every product starts with one, or two, units at price 1.
OneEach == [p \in Products |-> 1]
TwoEach == [p \in Products |-> 2]

\* Every user's cart starts empty, or with one unit of every product.
EmptyCarts  == [u \in Users |-> [p \in Products |-> 0]]
FilledCarts == [u \in Users |-> [p \in Products |-> 1]]

\* All products belong to one seller, or to a user who is none.
OneSeller ==
    [p \in Products |-> IF Sellers = {} THEN CHOOSE u \in Users : TRUE
                                        ELSE CHOOSE u \in Sellers : TRUE]

\* Order ids are never compared but for equality, and neither are slots.
IdSymmetry == Permutations(OrderIds) \cup Permutations(Requests)

===============================================================================
