----------------------------- MODULE MCSessions -----------------------------
EXTENDS Sessions

(* Two members dial each other, and a connection breaks. *)
Crossing == [founders |-> {1, 2}, active |-> {2}, reach |-> {<<1, 2>>, <<2, 1>>},
             MAX_CONNECTIONS_PER_ADDRESS |-> 2, MAX_LISTS |-> 1, MAX_SEQ |-> 0, MAX_FAULTS |-> 1]

(* A member that finds a stranger, which another may admit meanwhile. *)
Stranger == [founders |-> {1, 2}, active |-> {1, 2}, reach |-> {<<1, 2>>, <<1, 3>>},
             MAX_CONNECTIONS_PER_ADDRESS |-> 1, MAX_LISTS |-> 2, MAX_SEQ |-> 0, MAX_FAULTS |-> 0]

(* Removals: 3 is a member out of reach, 2 is connected. *)
Removals == [founders |-> {1, 2, 3}, active |-> {1}, reach |-> {<<2, 1>>},
             MAX_CONNECTIONS_PER_ADDRESS |-> 1, MAX_LISTS |-> 3, MAX_SEQ |-> 1, MAX_FAULTS |-> 1]

MCSetups == {Crossing, Stranger, Removals}
=============================================================================
