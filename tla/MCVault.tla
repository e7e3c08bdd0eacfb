------------------------------ MODULE MCVault -------------------------------
(* The store for TLC: what the requests do to it, or how releases bring    *)
(* its schema up to date before there are any.  A behaviour is of one.     *)
EXTENDS Vault, Migration, TLC

(* A picture and a text; the two share a payload.                          *)
MCContent == {"text", "image"}
MCBlobsOf == "text" :> {"b1"} @@ "image" :> {"b1", "b2"}
MCThumbOf == "image" :> "thumb"

(* Keys change, the keyring refuses at times, and the process may die.     *)
Rotations == [ops |-> {"store", "rotate"}, refused |-> {"rotate"}, dies |-> TRUE]

(* Entries come and go, from archives too, around a rotation.              *)
Archives == [ops |-> {"store", "import", "delete", "rotate"}, refused |-> {}, dies |-> FALSE]

(* The lock password, rotations and wipes.                                 *)
Locks == [ops |-> Maintenance, refused |-> {"rotate", "set password"}, dies |-> FALSE]

(* A wipe among copies and the popup's requests.                           *)
Wipes == [ops |-> {"store", "view", "clear", "wipe"}, refused |-> {}, dies |-> FALSE]

(* No requests: the file is only opened.                                   *)
Opened == [ops |-> {}, refused |-> {}, dies |-> FALSE]

MCSetups == {Rotations, Archives, Locks, Wipes, Opened}
CrashSetups == {Rotations}

MCInit ==
  /\ Init /\ DbInit
  /\ setup # Opened => db = NewFile

MCNext ==
  \/ setup # Opened /\ Next /\ UNCHANGED dbVars
  \/ setup = Opened /\ DbNext /\ UNCHANGED vars

MCSpec == MCInit /\ [][MCNext]_<<vars, dbVars>>
=============================================================================
