---------------------------- MODULE MCSyncGroup -----------------------------
(* SyncGroup for TLC, starting from a group that already has members, some *)
(* of which may have changed it at the same time.                          *)
EXTENDS SyncGroup

CONSTANTS
  Founders,        \* the first so many devices are members at the start
  Concurrent,      \* 1..k: those that start with a change of their own
  Admitters,       \* those of Concurrent whose change may be an addition
  Changers,        \* the devices whose users change the membership later
  Unsteady         \* the devices that may leave or fail to save

N == Cardinality(Device)

(* Neither order follows the order of creation or of the devices alone. *)
MCSignerRank == [h \in Hash |-> [id \in Identity |-> ((id[1] + h) % N) + id[2] * N]]
MCHashRank == [h \in Hash |-> IF h % 2 = 0 THEN h ELSE 100 - h]

FoundingRoster(i) ==
  [hash |-> i, group |-> 1, epoch |-> i - 1, prev |-> i - 1,
   key_epoch |-> 0, key_check |-> 1,
   members |-> {<<j, 0>> : j \in 1..i}, signer |-> <<1, 0>>]

FoundingChain == KeepLast([i \in 1..Founders |-> FoundingRoster(i)])

FoundingView(d) ==
  [me |-> <<d, 0>>, rosters |-> FoundingChain, keys |-> {[epoch |-> 0, check |-> 1]}]

StartView(d, target) ==
  IF d \in Concurrent /\ target[d] = d
  THEN add_member(FoundingView(d), <<Founders + 1, 0>>, Founders + d)
  ELSE IF d \in Concurrent
  THEN remove_member(FoundingView(d), <<target[d], 0>>, Founders + d)
  ELSE IF d <= Founders THEN FoundingView(d)
  ELSE NoGroup

(* Device 1 created the group and paired devices 2..Founders; then every   *)
(* device of Concurrent removed another one, or an Admitter admitted a new *)
(* one, before hearing of the rest.                                        *)
FoundedInit ==
  \E target \in [Concurrent -> 1..Founders] :
    /\ \A d \in Concurrent \ Admitters : target[d] # d
    /\ identity = [d \in Device |-> <<d, 0>>]
    /\ group = [d \in Device |-> StartView(d, target)]
    /\ disk = [d \in Device |-> [identity |-> identity[d], group |-> group[d]]]
    /\ redo = [d \in Device |-> <<>>]
    /\ joining = [d \in Device |-> {}]
    /\ welcome = [d \in Device |-> None]
    /\ admitting = [d \in Device |-> None]
    /\ chains = {group[d].rosters : d \in Concurrent}
    /\ shares = {}
    /\ signed = {FoundingRoster(i) : i \in 1..Founders}
                  \cup {current(group[d]) : d \in Concurrent}
    /\ next = Founders + Cardinality(Concurrent) + 1

-----------------------------------------------------------------------------
(* Parts of the system a run leaves out. *)
NoKeyShares == shares' = shares
NoPairing == joining' = joining

(* Users other than those of Changers change nothing; redoing is not theirs. *)
OnlyChangersChange ==
  \A r \in signed' \ signed :
    DeviceId(r.signer) \in Changers \/ redo[DeviceId(r.signer)] # <<>>

(* Redoing is not saved before it is done. *)
OthersAreSteady ==
  \A d \in Device \ Unsteady :
    /\ identity'[d] = identity[d]
    /\ redo'[d] # <<>> \/ disk'[d] = [identity |-> identity'[d], group |-> group'[d]]

FoundedSpec == FoundedInit /\ [][Next]_vars
=============================================================================
