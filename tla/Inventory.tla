------------------------------- MODULE Inventory -------------------------------
(***************************************************************************)
(* What checkout and cancellation promise together: a store in which an    *)
(* order takes its units out of the available stock in one step, never     *)
(* more than there are, and a cancellation gives them back, once.          *)
(***************************************************************************)
EXTENDS Integers

CONSTANTS Products, OrderIds, InitStock

VARIABLES
    available,  \* units of each product that can be ordered
    held        \* units of each product that each order holds

invVars == <<available, held>>

Nothing == [p \in Products |-> 0]

InvInit ==
    /\ available = InitStock
    /\ held = [o \in OrderIds |-> Nothing]

Place(o, units) ==
    /\ held[o] = Nothing
    /\ units # Nothing
    /\ \A p \in Products : units[p] <= available[p]
    /\ available' = [p \in Products |-> available[p] - units[p]]
    /\ held' = [held EXCEPT ![o] = units]

Release(o) ==
    /\ held[o] # Nothing
    /\ available' = [p \in Products |-> available[p] + held[o][p]]
    /\ held' = [held EXCEPT ![o] = Nothing]

\* An order asks for no more than is available: there are finitely many.
Requestable == {f \in [Products -> UNION {0..available[p] : p \in Products}] :
                    \A p \in Products : f[p] <= available[p]}

InvNext ==
    \E o \in OrderIds : Release(o) \/ \E units \in Requestable : Place(o, units)

InvSpec == InvInit /\ [][InvNext]_invVars

===============================================================================
