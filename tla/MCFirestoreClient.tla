-------------------------- MODULE MCFirestoreClient --------------------------
(* A device with two users, another device, and one document that both write. *)
EXTENDS FirestoreClient
==============================================================================
