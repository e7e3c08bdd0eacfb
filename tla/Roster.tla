------------------------------- MODULE Roster -------------------------------
(***************************************************************************)
(* The signed membership list of a sync group and the rules that relate    *)
(* two of them (crates/panora-sync/src/group.rs, first half): when one     *)
(* roster is a legitimate successor of another, what a branch of rosters   *)
(* removes, which of two branches growing from one parent wins, and what   *)
(* the losing side has to redo.                                            *)
(*                                                                         *)
(* Abstractions.  A BLAKE3 hash is a fresh number (no two rosters share    *)
(* one), a signature is the signer's name (rosters in circulation are the  *)
(* ones devices signed), a group key is named by the hash of the roster    *)
(* that introduced it, and a group by the hash of its first roster.  The   *)
(* member entries carry only the identity; the device id behind it is its  *)
(* first component (an identity is a device and how often that device has  *)
(* started over with `leave').                                             *)
(***************************************************************************)
EXTENDS Integers, Sequences, FiniteSets

CONSTANTS
  Device,         \* panod device ids
  Incarnation,    \* how often a device may take a new identity, 0 first
  Hash,           \* roster hashes; bounds how many rosters are ever signed
  MAX_MEMBERS,    \* most devices a group may hold
  KEPT_ROSTERS,   \* rosters a device keeps, the current one included
  MAX_EPOCH,      \* highest roster epoch
  SignerRank,     \* derive_key("panora roster fork rank v1", parent, signer)
  HashRank        \* the order of two roster hashes as byte strings

ASSUME HashAssumption == Hash \subseteq Nat \ {0}
ASSUME IncarnationAssumption == Incarnation \subseteq Nat /\ 0 \in Incarnation
ASSUME LimitsAssumption ==
  /\ MAX_MEMBERS \in Nat \ {0}
  /\ KEPT_ROSTERS \in Nat \ {0, 1}
  /\ MAX_EPOCH \in Nat

Identity == Device \X Incarnation
DeviceId(identity) == identity[1]

ASSUME RankAssumption ==
  /\ SignerRank \in [Hash -> [Identity -> Nat]]
  /\ HashRank \in [Hash -> Nat]
  /\ \A h1, h2 \in Hash : HashRank[h1] = HashRank[h2] => h1 = h2

NoHash == 0

Roster == [hash      : Hash,
           group     : Hash,
           epoch     : Nat,
           prev      : Hash \cup {NoHash},
           key_epoch : Nat,
           key_check : Hash,
           members   : SUBSET Identity,
           signer    : Identity]

GroupKey == [epoch : Nat, check : Hash]

KeyOf(r) == [epoch |-> r.key_epoch, check |-> r.key_check]

-----------------------------------------------------------------------------
(* A roster on its own: shape and limits. *)
Verify(r) ==
  /\ r.members # {}
  /\ Cardinality(r.members) <= MAX_MEMBERS
  /\ \A m, n \in r.members : DeviceId(m) = DeviceId(n) => m = n
  /\ r.epoch <= MAX_EPOCH
  /\ r.key_epoch <= r.epoch
  /\ r.epoch = 0 => r.prev = NoHash /\ r.key_epoch = 0 /\ r.signer \in r.members

members_without(r, other) == r.members \ other.members

(* Is next a legitimate change of parent? *)
check_successor(parent, next) ==
  /\ next.group = parent.group
  /\ next.epoch = parent.epoch + 1
  /\ next.prev = parent.hash
  /\ next.signer \in parent.members
  /\ LET removes == members_without(parent, next) # {}
         adds    == members_without(next, parent) # {}
         rotates == next.key_epoch = next.epoch
     IN  /\ IF rotates THEN next.key_check # parent.key_check
                       ELSE KeyOf(next) = KeyOf(parent)
         /\ removes => rotates
         /\ removes \/ adds \/ rotates

(* Every roster of the sequence verifies and continues the one before. *)
Linked(chain) ==
  /\ \A i \in 1..Len(chain) : Verify(chain[i])
  /\ \A i \in 1..(Len(chain) - 1) : check_successor(chain[i], chain[i + 1])

-----------------------------------------------------------------------------
(* Forks: two different branches growing from one parent. *)
Before(parent, branch, i) == IF i = 1 THEN parent ELSE branch[i - 1]

removed_along(parent, branch) ==
  UNION {members_without(Before(parent, branch, i), branch[i]) :
           i \in 1..Len(branch)}

removes_signer(parent, a, b) ==
  \E i \in 1..Len(b) : b[i].signer \in removed_along(parent, a)

removes_listed(parent, a, b) ==
  /\ b # <<>>
  /\ removed_along(parent, a) \cap b[Len(b)].members # {}

RankedBelow(parent, a, b) ==
  LET ra == SignerRank[parent.hash][a.signer]
      rb == SignerRank[parent.hash][b.signer]
  IN  ra < rb \/ (ra = rb /\ HashRank[a.hash] < HashRank[b.hash])

(* Mutant: without the rank, whoever holds a branch keeps it. *)
fork_winner_NoRank(parent, incoming, held) ==
  /\ ~removes_signer(parent, held, incoming)
  /\ \/ removes_signer(parent, incoming, held)
     \/ /\ removes_listed(parent, incoming, held)
        /\ ~removes_listed(parent, held, incoming)

(* Does incoming beat held, the branch this device has? *)
fork_winner(parent, incoming, held) ==
  LET inSigner == removes_signer(parent, incoming, held)
      heSigner == removes_signer(parent, held, incoming)
      inListed == removes_listed(parent, incoming, held)
      heListed == removes_listed(parent, held, incoming)
  IN  IF inSigner \/ heSigner THEN inSigner /\ ~heSigner
      ELSE IF inListed # heListed THEN inListed
      ELSE /\ incoming # <<>>
           /\ held # <<>>
           /\ RankedBelow(parent, incoming[1], held[1])

(* What to redo after lost lost a fork, oldest first: this device's own    *)
(* additions (odd entries) and every removal but its own (even entries),   *)
(* where the end of the branch still had them.                             *)
Change == [kind : {"Added", "Removed"}, ids : SUBSET Identity]

(* Mutant: only this device's own removals are redone. *)
changes_to_reapply_Own(parent, lost, me) ==
  [i \in 1..Len(lost) |->
     [kind |-> "Removed",
      ids  |-> IF lost[i].signer = me
               THEN members_without(Before(parent, lost, i), lost[i]) \ {me}
               ELSE {}]]

changes_to_reapply(parent, lost, me) ==
  LET end == lost[Len(lost)]
      added(i) ==
        IF lost[i].signer = me
        THEN members_without(lost[i], Before(parent, lost, i)) \cap end.members
        ELSE {}
      removed(i) ==
        members_without(Before(parent, lost, i), lost[i])
          \ ({me} \cup end.members)
  IN  [j \in 1..(2 * Len(lost)) |->
         IF j % 2 = 1
         THEN [kind |-> "Added",   ids |-> added((j + 1) \div 2)]
         ELSE [kind |-> "Removed", ids |-> removed(j \div 2)]]
=============================================================================
