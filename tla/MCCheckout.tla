------------------------------ MODULE MCCheckout ------------------------------
(* Checkout with few products and visits to the cart. *)
EXTENDS Checkout
==============================================================================
