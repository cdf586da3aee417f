------------------------------ MODULE OrderState ------------------------------
(***************************************************************************)
(* The order state machine: the statuses of an order and of its payment,   *)
(* the transition table of app/models/order.py and the check every writer  *)
(* of an order's status is meant to pass (app/services/order_state.py).    *)
(***************************************************************************)

OrderStatus ==
    {"PENDING", "PAYMENT_SUCCESS", "PAYMENT_FAILED", "ORDER_CONFIRMED",
     "SHIPPED", "DELIVERED", "CANCELLED"}

PaymentStatus == {"PENDING", "SUCCESS", "FAILED", "REFUNDED"}

ALLOWED_TRANSITIONS ==
    [PENDING         |-> {"PAYMENT_SUCCESS", "PAYMENT_FAILED", "CANCELLED"},
     PAYMENT_FAILED  |-> {"PENDING", "PAYMENT_SUCCESS", "PAYMENT_FAILED",
                          "CANCELLED"},
     PAYMENT_SUCCESS |-> {"ORDER_CONFIRMED", "CANCELLED"},
     ORDER_CONFIRMED |-> {"SHIPPED", "CANCELLED"},
     SHIPPED         |-> {"DELIVERED"},
     DELIVERED       |-> {},
     CANCELLED       |-> {}]

(***************************************************************************)
(* assert_valid_transition raises 400 exactly when this is false.          *)
(***************************************************************************)
ValidTransition(current, target) == target \in ALLOWED_TRANSITIONS[current]

\* Mutant of Payable: only a cancelled order is refused.
PayableUnlessCancelled == OrderStatus \ {"CANCELLED"}

\* The statuses process_payment accepts an order in.
Payable == {"PENDING", "PAYMENT_FAILED"}

===============================================================================
