--------------------------- MODULE MCProductScreen ---------------------------
(* The product screen on a few documents, opened at most twice. *)
EXTENDS ProductScreen
==============================================================================
