----------------------------- MODULE GroupState -----------------------------
(***************************************************************************)
(* One device's view of its group (GroupState in                           *)
(* crates/panora-sync/src/group.rs): the rosters it keeps, oldest first,   *)
(* the group keys it holds, and the operations on them as functions from   *)
(* one view to the next.  SyncGroup makes them steps of several devices.   *)
(***************************************************************************)
EXTENDS Roster

NoGroup == [me |-> "none"]

GroupView == [me : Identity, rosters : Seq(Roster), keys : SUBSET GroupKey]

current(g) == g.rosters[Len(g.rosters)]
is_member(g) == g.me \in current(g).members
is_peer(g, identity) == identity # g.me /\ identity \in current(g).members

MatchesSome(key, rosters) == \E i \in 1..Len(rosters) : KeyOf(rosters[i]) = key

has_current_key(g) == KeyOf(current(g)) \in g.keys

(* What loading the state file checks. *)
validate(g) ==
  /\ g.rosters # <<>>
  /\ Len(g.rosters) <= KEPT_ROSTERS
  /\ Linked(g.rosters)
  /\ \A key \in g.keys : MatchesSome(key, g.rosters)

(* A new group with this device as its only member. *)
create(me, h) ==
  [me      |-> me,
   rosters |-> << [hash |-> h, group |-> h, epoch |-> 0, prev |-> NoHash,
                   key_epoch |-> 0, key_check |-> h,
                   members |-> {me}, signer |-> me] >>,
   keys    |-> {[epoch |-> 0, check |-> h]}]

(* The view a newly paired device starts from. *)
joined(me, rosters, key) == [me |-> me, rosters |-> rosters, keys |-> {key}]

(* The welcome a joiner takes.  That its inviter signed it and that it admits *)
(* this device as it asked hold of every welcome made with add_member.      *)
CanJoin(me, rosters, key) ==
  /\ validate(joined(me, rosters, key))
  /\ is_member(joined(me, rosters, key))
  /\ has_current_key(joined(me, rosters, key))

-----------------------------------------------------------------------------
KeepLast(rosters) ==
  LET excess == Len(rosters) - KEPT_ROSTERS
  IN  IF excess > 0 THEN SubSeq(rosters, excess + 1, Len(rosters)) ELSE rosters

(* Drop keys no kept roster refers to. *)
Matched(keys, rosters) == {key \in keys : MatchesSome(key, rosters)}

prune(g) == [g EXCEPT !.keys = Matched(g.keys, g.rosters)]

(* Put a branch after the rosters given.  Rosters under one key follow one *)
(* another, so pruning once at the end keeps the keys that pruning after   *)
(* every roster keeps.                                                     *)
push(g, rosters, branch) ==
  prune([g EXCEPT !.rosters = KeepLast(rosters \o branch)])

accept_key(g, key) == [g EXCEPT !.keys = @ \cup {key}]

CanAcceptKey(g, key) ==
  is_member(g) /\ MatchesSome(key, g.rosters) /\ key \notin g.keys

(* Mutant: the epoch does not move. *)
Successor_SameEpoch(g, h, members, rotates) ==
  LET cur == current(g)
  IN  [hash |-> h, group |-> cur.group, epoch |-> cur.epoch, prev |-> cur.hash,
       key_epoch |-> IF rotates THEN cur.epoch ELSE cur.key_epoch,
       key_check |-> IF rotates THEN h ELSE cur.key_check,
       members |-> members, signer |-> g.me]

(* A change signed by this device on top of the current roster. *)
Successor(g, h, members, rotates) ==
  LET cur == current(g)
      epoch == cur.epoch + 1
  IN  [hash |-> h, group |-> cur.group, epoch |-> epoch, prev |-> cur.hash,
       key_epoch |-> IF rotates THEN epoch ELSE cur.key_epoch,
       key_check |-> IF rotates THEN h ELSE cur.key_check,
       members |-> members, signer |-> g.me]

AdditionOf(g, x, h) == Successor(g, h, current(g).members \cup {x}, FALSE)
RemovalOf(g, x, h) == Successor(g, h, current(g).members \ {x}, TRUE)

Taken(g, x) ==
  \E m \in current(g).members : m = x \/ DeviceId(m) = DeviceId(x)

(* Only a member changes the group, and it signs as itself. *)
MayChange(g, signer) == signer = g.me /\ is_member(g)

CanAdd(g, signer, x) ==
  /\ MayChange(g, signer)
  /\ ~Taken(g, x)
  /\ Cardinality(current(g).members) < MAX_MEMBERS
  /\ current(g).epoch + 1 <= MAX_EPOCH

CanRemove(g, signer, x) ==
  /\ MayChange(g, signer)
  /\ is_peer(g, x)
  /\ current(g).epoch + 1 <= MAX_EPOCH

add_member(g, x, h) == push(g, g.rosters, <<AdditionOf(g, x, h)>>)

remove_member(g, x, h) ==
  LET next == RemovalOf(g, x, h)
  IN  push([g EXCEPT !.keys = @ \cup {KeyOf(next)}], g.rosters, <<next>>)

-----------------------------------------------------------------------------
(* Applying a member's rosters, oldest first and consecutive. *)

(* History this device has moved past, or the roster it holds itself. *)
AlreadyHeld(g, r) ==
  LET at == r.epoch - g.rosters[1].epoch + 1
  IN  at < 1 \/ (at <= Len(g.rosters) /\ g.rosters[at].hash = r.hash)

Skip(g, chain) ==
  Cardinality({i \in 1..Len(chain) : \A j \in 1..i : AlreadyHeld(g, chain[j])})

Incoming(g, chain) == SubSeq(chain, Skip(g, chain) + 1, Len(chain))

(* How many of this device's rosters come before the branch's first. *)
ForkPoint(g, branch) == branch[1].epoch - g.rosters[1].epoch

WellFormedChain(g, chain) ==
  /\ Len(chain) \in 1..KEPT_ROSTERS
  /\ Linked(chain)
  /\ chain[1].group = current(g).group

Attaches(g, branch) ==
  /\ branch[1].epoch <= current(g).epoch + 1
  /\ branch[1].epoch > g.rosters[1].epoch
  /\ check_successor(g.rosters[ForkPoint(g, branch)], branch[1])

(* What apply_chain does: the kind of update, the view after it and, when  *)
(* a branch was replaced, what is to be redone on top.                     *)
Outcome(update, g, reapply) ==
  [update |-> update, group |-> g, reapply |-> reapply]

Adopt(g, branch) ==
  LET at     == ForkPoint(g, branch)
      parent == g.rosters[at]
      lost   == SubSeq(g.rosters, at + 1, Len(g.rosters))
      after  == push(g, SubSeq(g.rosters, 1, at), branch)
  IN  IF ~is_member(after) /\ g.me \in removed_along(parent, branch)
      THEN Outcome("RemovedThisDevice", [after EXCEPT !.keys = {}], <<>>)
      ELSE IF lost = <<>> THEN Outcome("Advanced", after, <<>>)
      ELSE Outcome("Replaced", after, changes_to_reapply(parent, lost, g.me))

apply_chain(g, chain) ==
  LET branch == Incoming(g, chain)
      at     == ForkPoint(g, branch)
      held   == SubSeq(g.rosters, at + 1, Len(g.rosters))
  IN  IF ~WellFormedChain(g, chain) THEN Outcome("Error", g, <<>>)
      ELSE IF branch = <<>> THEN Outcome("Unchanged", g, <<>>)
      ELSE IF ~Attaches(g, branch) THEN Outcome("Error", g, <<>>)
      ELSE IF held # <<>> /\ ~fork_winner(g.rosters[at], branch, held)
           THEN Outcome("ForkLost", g, <<>>)
      ELSE Adopt(g, branch)
=============================================================================
