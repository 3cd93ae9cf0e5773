--------------------------- MODULE MCWritePipeline ---------------------------
(* The write pipeline on two users and one document; two batches fill it. *)
EXTENDS WritePipeline
==============================================================================
