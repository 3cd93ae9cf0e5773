--------------------------- MODULE MCCatalogEditor ---------------------------
(* CatalogEditor on small sets of documents and names. *)
EXTENDS CatalogEditor

==============================================================================
