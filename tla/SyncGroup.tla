----------------------------- MODULE SyncGroup ------------------------------
(***************************************************************************)
(* The devices of a sync group as one system: each node's SyncState behind *)
(* its mutex (crates/panora-sync/src/node.rs), the roster chains and key   *)
(* shares that travel between them, pairing as far as it touches the       *)
(* membership, leaving, and crashes.                                       *)
(*                                                                         *)
(* Channels.  A chain or a key that was sent once stays deliverable for    *)
(* ever: sessions break and come back, a device may be offline for long,   *)
(* and a hello repeats what was sent before, so late, repeated, reordered  *)
(* and lost deliveries are all behaviours.                                 *)
(*                                                                         *)
(* receive_rosters holds the state mutex while it redoes changes after a   *)
(* lost fork and saves at the end.  Here that loop is the sequence redo:   *)
(* while it is not empty the device does nothing else, nobody sees its     *)
(* view, and a crash brings back what is on disk.                          *)
(***************************************************************************)
EXTENDS GroupState

CONSTANT SavesMayFail   \* whether writing the state file can fail

VARIABLES
  identity,    \* [Device -> Identity]: the node's current identity
  group,       \* [Device -> view or NoGroup]: SyncState.group in memory
  disk,        \* identity and group as last saved in the state file
  redo,        \* changes still to redo while the state mutex is held
  joining,     \* [Device -> SUBSET Identity]: who a running join speaks as
  welcome,     \* the welcome on its way to a joining device
  admitting,   \* the inviter's copy between the welcome and the commit
  chains,      \* every roster chain a device has sent
  shares,      \* every key share a device has sent
  signed,      \* history: every roster signed so far
  next         \* the hash the next roster gets

vars == <<identity, group, disk, redo, joining, welcome, admitting,
          chains, shares, signed, next>>
pairingVars == <<joining, welcome, admitting>>

None == [none |-> TRUE]

View == GroupView \cup {NoGroup}
Stored == [identity : Identity, group : View]
Welcome == [rosters : Seq(Roster), key : GroupKey]
Admission == [request : Identity, roster : Roster, group : GroupView]
Share == [to : Identity, key : GroupKey]

TypeOK ==
  /\ identity \in [Device -> Identity]
  /\ group \in [Device -> View]
  /\ disk \in [Device -> Stored]
  /\ redo \in [Device -> Seq(Change)]
  /\ joining \in [Device -> SUBSET Identity]
  /\ welcome \in [Device -> Welcome \cup {None}]
  /\ admitting \in [Device -> Admission \cup {None}]
  /\ chains \subseteq Seq(Roster)
  /\ shares \subseteq Share
  /\ signed \subseteq Roster
  /\ next \in Nat \ {0}

Init ==
  /\ identity = [d \in Device |-> <<d, 0>>]
  /\ group = [d \in Device |-> NoGroup]
  /\ disk = [d \in Device |-> [identity |-> <<d, 0>>, group |-> NoGroup]]
  /\ redo = [d \in Device |-> <<>>]
  /\ joining = [d \in Device |-> {}]
  /\ welcome = [d \in Device |-> None]
  /\ admitting = [d \in Device |-> None]
  /\ chains = {}
  /\ shares = {}
  /\ signed = {}
  /\ next = 1

-----------------------------------------------------------------------------
InGroup(d) == group[d] # NoGroup
Idle(d) == redo[d] = <<>>
Member(d) == InGroup(d) /\ is_member(group[d])

(* A failed write is logged and otherwise ignored; the old file stays. *)
Save(d, id, g) ==
  \/ disk' = [disk EXCEPT ![d] = [identity |-> id, group |-> g]]
  \/ SavesMayFail /\ UNCHANGED disk

(* Install a view and save it. *)
Keep(d, g) ==
  /\ group' = [group EXCEPT ![d] = g]
  /\ Save(d, identity[d], g)

(* And send it around, now or with the next hello. *)
Commit(d, g) ==
  /\ Keep(d, g)
  /\ chains' = chains \cup {g.rosters}

Sign(r) ==
  /\ next \in Hash
  /\ signed' = signed \cup {r}
  /\ next' = next + 1

NothingSigned == UNCHANGED <<signed, next>>

(* The user invites a first device: a group of one starts. *)
Create(d) ==
  /\ Idle(d)
  /\ ~InGroup(d)
  /\ Sign(create(identity[d], next).rosters[1])
  /\ Commit(d, create(identity[d], next))
  /\ UNCHANGED <<identity, redo, pairingVars, shares>>

(* The user removes a device; the key moves on. *)
RemoveDevice(d, x) ==
  /\ Idle(d)
  /\ InGroup(d)
  /\ CanRemove(group[d], identity[d], x)
  /\ Sign(RemovalOf(group[d], x, next))
  /\ Commit(d, remove_member(group[d], x, next))
  /\ UNCHANGED <<identity, redo, pairingVars, shares>>

(* receive_rosters: apply a peer's chain, then redo what a lost fork       *)
(* dropped.  A device that finds itself removed sends nothing on.          *)
ReceiveRosters(d, chain) ==
  /\ Idle(d)
  /\ InGroup(d)
  /\ LET outcome == apply_chain(group[d], chain)
     IN  /\ outcome.update \in {"Advanced", "RemovedThisDevice", "Replaced"}
         /\ redo' = [redo EXCEPT ![d] = outcome.reapply]
         /\ CASE outcome.update = "RemovedThisDevice" ->
                   Keep(d, outcome.group) /\ UNCHANGED chains
              [] outcome.update = "Advanced" ->
                   Commit(d, outcome.group)
              [] outcome.update = "Replaced" ->
                   /\ group' = [group EXCEPT ![d] = outcome.group]
                   /\ UNCHANGED <<disk, chains>>
  /\ NothingSigned
  /\ UNCHANGED <<identity, pairingVars, shares>>

(* One iteration of reapply.  The loop ends with its last change or with   *)
(* the first that fails; either way the state is saved and sent.           *)
RedoTo(d, g, rest) ==
  /\ redo' = [redo EXCEPT ![d] = rest]
  /\ IF rest = <<>>
     THEN Commit(d, g)
     ELSE group' = [group EXCEPT ![d] = g] /\ UNCHANGED <<disk, chains>>
  /\ UNCHANGED <<identity, pairingVars, shares>>

Without(list, x) ==
  IF list[1].ids = {x} THEN Tail(list)
  ELSE <<[kind |-> list[1].kind, ids |-> list[1].ids \ {x}]>> \o Tail(list)

RedoAdded(d, x) ==
  LET g    == group[d]
      rest == Without(redo[d], x)
  IN  IF Taken(g, x) THEN RedoTo(d, g, rest) /\ NothingSigned
      ELSE IF ~CanAdd(g, identity[d], x) THEN RedoTo(d, g, <<>>) /\ NothingSigned
      ELSE RedoTo(d, add_member(g, x, next), rest) /\ Sign(AdditionOf(g, x, next))

RedoRemoved(d, x) ==
  LET g    == group[d]
      rest == Without(redo[d], x)
  IN  IF ~is_peer(g, x) THEN RedoTo(d, g, rest) /\ NothingSigned
      ELSE IF ~CanRemove(g, identity[d], x) THEN RedoTo(d, g, <<>>) /\ NothingSigned
      ELSE RedoTo(d, remove_member(g, x, next), rest) /\ Sign(RemovalOf(g, x, next))

Redo(d) ==
  /\ ~Idle(d)
  /\ InGroup(d)
  /\ LET head == redo[d][1]
     IN  IF head.ids = {}
         THEN RedoTo(d, group[d], Tail(redo[d])) /\ NothingSigned
         ELSE \E x \in head.ids :
                IF head.kind = "Added" THEN RedoAdded(d, x) ELSE RedoRemoved(d, x)

(* Mutant: the key goes to whoever asks. *)
ShareKey_Anyone(d, peer) ==
  /\ Idle(d)
  /\ Member(d)
  /\ has_current_key(group[d])
  /\ shares' = shares \cup {[to |-> peer, key |-> KeyOf(current(group[d]))]}
  /\ UNCHANGED <<identity, group, disk, redo, pairingVars, chains, signed, next>>

(* The current key, to a member, over a channel authenticated as it. *)
ShareKey(d, peer) ==
  /\ Idle(d)
  /\ Member(d)
  /\ is_peer(group[d], peer)
  /\ has_current_key(group[d])
  /\ shares' = shares \cup {[to |-> peer, key |-> KeyOf(current(group[d]))]}
  /\ UNCHANGED <<identity, group, disk, redo, pairingVars, chains, signed, next>>

ReceiveKey(d, share) ==
  /\ Idle(d)
  /\ InGroup(d)
  /\ share.to = group[d].me
  /\ CanAcceptKey(group[d], share.key)
  /\ Keep(d, accept_key(group[d], share.key))
  /\ UNCHANGED <<identity, redo, pairingVars, chains, shares, signed, next>>

-----------------------------------------------------------------------------
(* Pairing. *)

(* check_can_join, at the start only; the join speaks as the identity the  *)
(* device has now.                                                         *)
StartJoin(d) ==
  /\ Idle(d)
  /\ joining[d] = {}
  /\ ~Member(d)
  /\ joining' = [joining EXCEPT ![d] = {identity[d]}]
  /\ UNCHANGED <<identity, group, disk, redo, welcome, admitting,
                 chains, shares, signed, next>>

(* The inviter admits the device on a copy of its group and sends the      *)
(* welcome.                                                                *)
Approve(i, d, x) ==
  /\ Idle(i)
  /\ i # d
  /\ x \in joining[d]
  /\ welcome[d] = None
  /\ admitting[i] = None
  /\ Member(i)
  /\ CanAdd(group[i], identity[i], x)
  /\ has_current_key(group[i])
  /\ LET roster == AdditionOf(group[i], x, next)
         copy   == add_member(group[i], x, next)
     IN  /\ Sign(roster)
         /\ admitting' = [admitting EXCEPT ![i] =
              [request |-> x, roster |-> roster, group |-> copy]]
         /\ welcome' = [welcome EXCEPT ![d] =
              [rosters |-> copy.rosters, key |-> KeyOf(current(copy))]]
  /\ UNCHANGED <<identity, group, disk, redo, joining, chains, shares>>

(* The welcome is out: keep the copy, or put the new roster on top the     *)
(* ordinary way if the device list changed meanwhile.  What apply_roster   *)
(* hands back to redo is not redone here.                                  *)
CommitAdmission(i) ==
  /\ Idle(i)
  /\ admitting[i] # None
  /\ admitting' = [admitting EXCEPT ![i] = None]
  /\ IF ~InGroup(i)
     THEN UNCHANGED <<group, disk, chains>>
     ELSE IF current(group[i]).hash = admitting[i].roster.prev
     THEN Commit(i, admitting[i].group)
     ELSE LET outcome == apply_chain(group[i], <<admitting[i].roster>>)
          IN  IF outcome.update = "Error"
              THEN UNCHANGED <<group, disk, chains>>
              ELSE Commit(i, outcome.group)
  /\ NothingSigned
  /\ UNCHANGED <<identity, redo, joining, welcome, shares>>

(* The welcome could not be written, or the pairing timed out. *)
AdmissionFails(i) ==
  /\ admitting[i] # None
  /\ admitting' = [admitting EXCEPT ![i] = None]
  /\ UNCHANGED <<identity, group, disk, redo, joining, welcome,
                 chains, shares, signed, next>>

(* The joiner installs the group it was welcomed to. *)
FinishJoin(d, x) ==
  /\ Idle(d)
  /\ x \in joining[d]
  /\ welcome[d] # None
  /\ CanJoin(x, welcome[d].rosters, welcome[d].key)
  /\ Commit(d, joined(x, welcome[d].rosters, welcome[d].key))
  /\ joining' = [joining EXCEPT ![d] = {}]
  /\ welcome' = [welcome EXCEPT ![d] = None]
  /\ NothingSigned
  /\ UNCHANGED <<identity, redo, admitting, shares>>

(* The user cancels, the connection breaks, a step times out. *)
AbandonJoin(d) ==
  /\ joining[d] # {}
  /\ joining' = [joining EXCEPT ![d] = {}]
  /\ welcome' = [welcome EXCEPT ![d] = None]
  /\ UNCHANGED <<identity, group, disk, redo, admitting,
                 chains, shares, signed, next>>

(* Forget the group and take a new identity. *)
Leave(d) ==
  /\ Idle(d)
  /\ identity[d][2] + 1 \in Incarnation
  /\ identity' = [identity EXCEPT ![d] = <<d, @[2] + 1>>]
  /\ group' = [group EXCEPT ![d] = NoGroup]
  /\ Save(d, <<d, identity[d][2] + 1>>, NoGroup)
  /\ UNCHANGED <<redo, pairingVars, chains, shares, signed, next>>

(* What SyncState::load accepts. *)
Loads(stored) ==
  stored.group # NoGroup =>
    validate(stored.group) /\ stored.group.me = stored.identity

(* The process dies, between any two steps, and starts again. *)
Restart(d) ==
  /\ Loads(disk[d])
  /\ identity' = [identity EXCEPT ![d] = disk[d].identity]
  /\ group' = [group EXCEPT ![d] = disk[d].group]
  /\ redo' = [redo EXCEPT ![d] = <<>>]
  /\ joining' = [joining EXCEPT ![d] = {}]
  /\ welcome' = [welcome EXCEPT ![d] = None]
  /\ admitting' = [admitting EXCEPT ![d] = None]
  /\ UNCHANGED <<disk, chains, shares, signed, next>>

DeviceNext(d) ==
  \/ Create(d)
  \/ \E x \in Identity : RemoveDevice(d, x)
  \/ \E chain \in chains : ReceiveRosters(d, chain)
  \/ Redo(d)
  \/ \E peer \in Identity : ShareKey(d, peer)
  \/ \E share \in shares : ReceiveKey(d, share)
  \/ StartJoin(d)
  \/ \E j \in Device : \E x \in joining[j] : Approve(d, j, x)
  \/ CommitAdmission(d)
  \/ AdmissionFails(d)
  \/ \E x \in joining[d] : FinishJoin(d, x)
  \/ AbandonJoin(d)
  \/ Leave(d)
  \/ Restart(d)

Next == \E d \in Device : DeviceNext(d)

Spec == Init /\ [][Next]_vars

-----------------------------------------------------------------------------
(* The rosters and keys of the state file stay sound: whatever sequence of *)
(* forks, removals, key deliveries and crashes a device went through, the  *)
(* rosters it saved are consecutive, within bounds, and every saved key    *)
(* matches one of them (GroupState::validate).  The other check of         *)
(* SyncState::load, that the group is for the device's own identity, is    *)
(* SavedGroupIsOwn, which a leave during a join breaks.                    *)
SavedGroupValidates ==
  \A d \in Device : disk[d].group # NoGroup => validate(disk[d].group)

(* Removing a device keeps it out of what is shared afterwards: a device   *)
(* holds a group key only if some roster under that key lists it, however  *)
(* forks and late key shares are interleaved (key_for_peer, accept_key,    *)
(* RemovedThisDevice).                                                     *)
EntitledTo(id, key) == \E r \in signed : KeyOf(r) = key /\ id \in r.members

KeysOnlyForMembers ==
  /\ \A d \in Device : InGroup(d) =>
       \A key \in group[d].keys : EntitledTo(group[d].me, key)
  /\ \A share \in shares : EntitledTo(share.to, share.key)

(* A device never undoes a removal it has seen: when a competing branch    *)
(* replaces the one it holds, every other device that the dropped branch   *)
(* had removed is out again by the time the new state is saved, unless     *)
(* this device itself is no longer a member (fork_winner, reapply).  A     *)
(* join starts from the welcome it was given and is left out.              *)
DroppedRemovals(g, h) ==
  {x \in Identity : \E i \in 2..Len(g.rosters) :
     /\ x \in members_without(g.rosters[i - 1], g.rosters[i])
     /\ x # g.me
     /\ x \notin current(g).members
     /\ g.rosters[i].epoch >= h.rosters[1].epoch
     /\ \A j \in 1..Len(h.rosters) : h.rosters[j].hash # g.rosters[i].hash}

SameGroup(g, h) ==
  g # NoGroup /\ h # NoGroup /\ g.me = h.me /\ current(g).group = current(h).group

RemovalSticks ==
  [][\A d \in Device :
       LET g == disk[d].group
           h == disk'[d].group
       IN  /\ g # h
           /\ SameGroup(g, h)
           /\ joining'[d] = joining[d]
           /\ is_member(g) /\ is_member(h)
           => DroppedRemovals(g, h) \cap current(h).members = {}
    ]_vars

(* Two members that have heard each other's rosters and still differ are   *)
(* split for a reason the design names: each side's branch removes a       *)
(* signer of the other, or the fork is older than the history one of them  *)
(* keeps.  Any other fork is resolved the same way on both sides.          *)
Settled(g, h) ==
  apply_chain(g, h.rosters).update \in {"Unchanged", "ForkLost", "Error"}

MutualRemoval(g, h) ==
  LET a == Incoming(g, h.rosters)
      b == Incoming(h, g.rosters)
      parent == g.rosters[ForkPoint(g, a)]
  IN  /\ a # <<>> /\ b # <<>>
      /\ removes_signer(parent, a, b) /\ removes_signer(parent, b, a)

Reaches(g, chain) ==
  Incoming(g, chain) # <<>> => Attaches(g, Incoming(g, chain))

ForkOutOfReach(g, h) == ~Reaches(g, h.rosters) \/ ~Reaches(h, g.rosters)

SplitOnlyWhenNamed ==
  \A d, e \in Device :
    LET g == group[d]
        h == group[e]
    IN  /\ Idle(d) /\ Idle(e) /\ Member(d) /\ Member(e)
        /\ current(g).group = current(h).group
        /\ current(g).hash # current(h).hash
        /\ Settled(g, h) /\ Settled(h, g)
        => \/ ForkOutOfReach(g, h)
           \/ MutualRemoval(g, h)

(* What the state file holds can be loaded again: the group in it belongs  *)
(* to the identity in it (SyncState::load refuses it otherwise).           *)
SavedGroupIsOwn ==
  \A d \in Device :
    disk[d].group # NoGroup => disk[d].group.me = disk[d].identity
=============================================================================
