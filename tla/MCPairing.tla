----------------------------- MODULE MCPairing ------------------------------
(* Pairing for TLC: clients and connections are model values. *)
EXTENDS Pairing, TLC

(* No formula names a client or a connection: they can be swapped. *)
Interchangeable == Permutations(Client) \cup Permutations(Conn)
=============================================================================
