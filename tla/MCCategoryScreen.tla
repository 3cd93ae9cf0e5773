--------------------------- MODULE MCCategoryScreen ---------------------------
(* The home screen's list on a few documents and time stamps. *)
EXTENDS CategoryScreen
==============================================================================
