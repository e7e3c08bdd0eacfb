--------------------------- MODULE SyncGroupProofs --------------------------
(***************************************************************************)
(* For any number of devices, identities, signatures and kept rosters:     *)
(* every state is well typed, the state file never holds a group that does *)
(* not validate, a device only ever holds keys that some roster under that *)
(* key meant for it, two members that have heard each other disagree only  *)
(* in the cases the documentation names, and a device undoes no removal.   *)
(*                                                                         *)
(* None of them is inductive alone.  The invariant carries, for every      *)
(* place a view or a chain can be (memory, disk, the inviter's copy, a     *)
(* welcome, a chain under way), that it is good with respect to the        *)
(* rosters signed so far: its rosters verify, follow one another and were  *)
(* all signed by someone, and its keys match its rosters and were meant    *)
(* for their holder.                                                       *)
(***************************************************************************)
EXTENDS SyncGroup, FiniteSetTheorems, WellFoundedInduction, TLAPS

-----------------------------------------------------------------------------
(* Forks: what the rules guarantee, for every group, key and order of      *)
(* hashes.                                                                 *)

(* The two rosters a rank is computed for always compare one way only. *)
LEMMA RankIsStrict ==
  ASSUME NEW parent \in Roster, NEW a \in Roster, NEW b \in Roster
  PROVE  ~(RankedBelow(parent, a, b) /\ RankedBelow(parent, b, a))
<1>1. /\ SignerRank[parent.hash][a.signer] \in Nat
      /\ SignerRank[parent.hash][b.signer] \in Nat
      /\ HashRank[a.hash] \in Nat
      /\ HashRank[b.hash] \in Nat
  BY RankAssumption DEF Roster
<1> QED
  BY <1>1 DEF RankedBelow

(* Two different rosters always compare one way or the other. *)
LEMMA RankIsTotal ==
  ASSUME NEW parent \in Roster, NEW a \in Roster, NEW b \in Roster,
         a.hash # b.hash
  PROVE  RankedBelow(parent, a, b) \/ RankedBelow(parent, b, a)
<1>1. /\ SignerRank[parent.hash][a.signer] \in Nat
      /\ SignerRank[parent.hash][b.signer] \in Nat
      /\ HashRank[a.hash] \in Nat
      /\ HashRank[b.hash] \in Nat
      /\ HashRank[a.hash] # HashRank[b.hash]
  BY RankAssumption DEF Roster
<1> QED
  BY <1>1 DEF RankedBelow

(* fork_winner never tells both sides that the other one wins, so two      *)
(* devices that exchange branches cannot swap them (rules 1 to 4).         *)
THEOREM NeverBothWin ==
  ASSUME NEW parent \in Roster, NEW a \in Seq(Roster), NEW b \in Seq(Roster),
         a # <<>>, b # <<>>
  PROVE  ~(fork_winner(parent, a, b) /\ fork_winner(parent, b, a))
<1>1. a[1] \in Roster /\ b[1] \in Roster
  OBVIOUS
<1>2. ~(RankedBelow(parent, a[1], b[1]) /\ RankedBelow(parent, b[1], a[1]))
  BY <1>1, RankIsStrict
<1>3. /\ removes_listed(parent, a, b) \in BOOLEAN
      /\ removes_listed(parent, b, a) \in BOOLEAN
  BY DEF removes_listed
<1> QED
  BY <1>2, <1>3 DEF fork_winner

(* Unless each branch removes a signer of the other, one of them wins: the *)
(* two devices end on the same branch whichever heard first.               *)
THEOREM OneWinsUnlessMutual ==
  ASSUME NEW parent \in Roster, NEW a \in Seq(Roster), NEW b \in Seq(Roster),
         a # <<>>, b # <<>>, a[1].hash # b[1].hash,
         ~(removes_signer(parent, a, b) /\ removes_signer(parent, b, a))
  PROVE  fork_winner(parent, a, b) \/ fork_winner(parent, b, a)
<1>1. a[1] \in Roster /\ b[1] \in Roster
  OBVIOUS
<1>2. RankedBelow(parent, a[1], b[1]) \/ RankedBelow(parent, b[1], a[1])
  BY <1>1, RankIsTotal
<1>3. /\ removes_listed(parent, a, b) \in BOOLEAN
      /\ removes_listed(parent, b, a) \in BOOLEAN
  BY DEF removes_listed
<1> QED
  BY <1>2, <1>3 DEF fork_winner

-----------------------------------------------------------------------------
(* Views. *)

(* S is the set of rosters signed so far and n the next hash. *)
SignedBelow(S, n) ==
  \A r \in S : r \in Roster /\ IsFiniteSet(r.members) /\ r.hash < n /\ r.key_check < n

(* Epochs count up by one.  It follows from Linked by induction, which is  *)
(* kept here as part of the invariant instead.                             *)
Consecutive(chain) ==
  \A i \in 1..Len(chain) : chain[i].epoch = chain[1].epoch + i - 1

GoodChain(chain, S) ==
  /\ chain \in Seq(Roster)
  /\ chain # <<>>
  /\ \A i \in 1..Len(chain) : chain[i] \in S
  /\ Consecutive(chain)

EntitledIn(id, key, S) == \E r \in S : KeyOf(r) = key /\ id \in r.members

KeysMeantFor(g, S) == \A key \in g.keys : EntitledIn(g.me, key, S)

GoodView(g, S) ==
  /\ g \in GroupView
  /\ validate(g)
  /\ GoodChain(g.rosters, S)
  /\ KeysMeantFor(g, S)

(* The branch t follows the chain s. *)
Follows(s, t, S) ==
  /\ GoodChain(s, S) /\ GoodChain(t, S)
  /\ Linked(s) /\ Linked(t)
  /\ check_successor(s[Len(s)], t[1])

-----------------------------------------------------------------------------
(* More signatures never spoil a good view. *)
LEMMA GoodGrows ==
  ASSUME NEW S, NEW T, S \subseteq T
  PROVE  /\ \A g : GoodView(g, S) => GoodView(g, T)
         /\ \A chain : GoodChain(chain, S) => GoodChain(chain, T)
         /\ \A id, key : EntitledIn(id, key, S) => EntitledIn(id, key, T)
<1>1. \A id, key : EntitledIn(id, key, S) => EntitledIn(id, key, T)
  BY DEF EntitledIn
<1>2. \A chain : GoodChain(chain, S) => GoodChain(chain, T)
  BY DEF GoodChain
<1> QED
  BY <1>1, <1>2 DEF GoodView, KeysMeantFor

(* The end of a linked chain is a linked chain. *)
LEMMA SuffixIsLinked ==
  ASSUME NEW s \in Seq(Roster), Linked(s), NEW i \in 1..Len(s)
  PROVE  LET t == SubSeq(s, i, Len(s))
         IN  /\ t \in Seq(Roster) /\ Len(t) = Len(s) - i + 1
             /\ t # <<>>
             /\ \A k \in 1..Len(t) : t[k] = s[k + i - 1]
             /\ Linked(t)
<1> DEFINE t == SubSeq(s, i, Len(s))
<1>1. t \in Seq(Roster) /\ Len(t) = Len(s) - i + 1
  OBVIOUS
<1>2. \A k \in 1..Len(t) : t[k] = s[k + i - 1]
  BY <1>1
<1>3. t # <<>>
  <2>1. Len(t) >= 1
    BY <1>1
  <2> HIDE DEF t
  <2> QED
    BY <2>1
<1>4. \A k \in 1..Len(t) : k + i - 1 \in 1..Len(s)
  BY <1>1
<1>5. \A k \in 1..(Len(t) - 1) : /\ k \in 1..Len(t) /\ k + 1 \in 1..Len(t)
                                 /\ k + i - 1 \in 1..(Len(s) - 1)
                                 /\ (k + 1) + i - 1 = (k + i - 1) + 1
  BY <1>1
<1>6. \A k \in 1..Len(t) : Verify(t[k])
  BY <1>2, <1>4 DEF Linked
<1>7. \A k \in 1..(Len(t) - 1) : check_successor(t[k], t[k + 1])
  <2> SUFFICES ASSUME NEW k \in 1..(Len(t) - 1)
               PROVE  check_successor(t[k], t[k + 1])
    OBVIOUS
  <2>1. t[k] = s[k + i - 1] /\ t[k + 1] = s[(k + i - 1) + 1]
    BY <1>2, <1>5
  <2> QED
    BY <2>1, <1>5 DEF Linked
<1> QED
  BY <1>1, <1>2, <1>3, <1>6, <1>7 DEF Linked

(* So is its beginning. *)
LEMMA PrefixIsLinked ==
  ASSUME NEW s \in Seq(Roster), Linked(s), NEW i \in 1..Len(s)
  PROVE  LET t == SubSeq(s, 1, i)
         IN  /\ t \in Seq(Roster) /\ Len(t) = i
             /\ \A k \in 1..i : t[k] = s[k]
             /\ Linked(t)
<1> DEFINE t == SubSeq(s, 1, i)
<1>1. t \in Seq(Roster) /\ Len(t) = i
  OBVIOUS
<1>2. \A k \in 1..i : t[k] = s[k] /\ k \in 1..Len(s)
  BY <1>1
<1>3. \A k \in 1..(i - 1) : /\ k \in 1..i /\ k + 1 \in 1..i
                            /\ k \in 1..(Len(s) - 1)
  OBVIOUS
<1>4. \A k \in 1..i : Verify(t[k])
  BY <1>2 DEF Linked
<1>5. \A k \in 1..(i - 1) : check_successor(t[k], t[k + 1])
  BY <1>2, <1>3 DEF Linked
<1> QED
  BY <1>1, <1>2, <1>4, <1>5 DEF Linked

(* A branch may follow a chain when its first roster succeeds the last. *)
LEMMA AppendIsLinked ==
  ASSUME NEW s \in Seq(Roster), NEW t \in Seq(Roster), s # <<>>, t # <<>>,
         Linked(s), Linked(t), check_successor(s[Len(s)], t[1])
  PROVE  Linked(s \o t)
<1> DEFINE u == s \o t
<1>1. /\ u \in Seq(Roster) /\ Len(u) = Len(s) + Len(t)
      /\ Len(s) \in Nat \ {0} /\ Len(t) \in Nat \ {0}
      /\ \A k \in 1..Len(s) : u[k] = s[k]
      /\ \A k \in 1..Len(t) : u[Len(s) + k] = t[k]
  OBVIOUS
<1>2. ASSUME NEW k \in 1..Len(u) PROVE Verify(u[k])
  <2>1. CASE k \in 1..Len(s)
    BY <2>1, <1>1 DEF Linked
  <2>2. CASE k \notin 1..Len(s)
    <3>1. k - Len(s) \in 1..Len(t) /\ k = Len(s) + (k - Len(s))
      BY <2>2, <1>1
    <3>2. u[k] = t[k - Len(s)]
      BY <3>1, <1>1
    <3> QED
      BY <3>1, <3>2 DEF Linked
  <2> QED
    BY <2>1, <2>2
<1>3. ASSUME NEW k \in 1..(Len(u) - 1) PROVE check_successor(u[k], u[k + 1])
  <2>1. CASE k < Len(s)
    BY <2>1, <1>1 DEF Linked
  <2>2. CASE k = Len(s)
    BY <2>2, <1>1
  <2>3. CASE k > Len(s)
    <3> DEFINE j == k - Len(s)
    <3>1. j \in 1..(Len(t) - 1) /\ k = Len(s) + j /\ k + 1 = Len(s) + (j + 1)
      BY <2>3, <1>1
    <3>2. u[k] = t[j] /\ u[k + 1] = t[j + 1]
      BY <3>1, <1>1
    <3> QED
      BY <3>1, <3>2 DEF Linked
  <2> QED
    BY <2>1, <2>2, <2>3, <1>1
<1> QED
  BY <1>2, <1>3 DEF Linked
(* Good chains are joined into a good chain. *)
LEMMA AppendIsGood ==
  ASSUME NEW S, NEW s, NEW t, GoodChain(s, S), GoodChain(t, S),
         Linked(s), Linked(t), check_successor(s[Len(s)], t[1])
  PROVE  GoodChain(s \o t, S) /\ Linked(s \o t)
<1> DEFINE u == s \o t
<1>1. /\ s \in Seq(Roster) /\ t \in Seq(Roster) /\ s # <<>> /\ t # <<>>
      /\ \A i \in 1..Len(s) : s[i] \in S
      /\ \A i \in 1..Len(t) : t[i] \in S
  BY DEF GoodChain
<1>2. /\ u \in Seq(Roster) /\ Len(u) = Len(s) + Len(t)
      /\ Len(s) \in Nat \ {0} /\ Len(t) \in Nat \ {0}
      /\ \A k \in 1..Len(s) : u[k] = s[k]
      /\ \A k \in 1..Len(t) : u[Len(s) + k] = t[k]
  BY <1>1
<1>3. Linked(u)
  BY <1>1, AppendIsLinked
<1> HIDE DEF u
<1>4. u # <<>>
  BY <1>2
<1>5. /\ t[1].epoch = s[Len(s)].epoch + 1
      /\ s[Len(s)].epoch = s[1].epoch + Len(s) - 1
      /\ s[1].epoch \in Nat
  <2>1. s[Len(s)] \in Roster /\ t[1] \in Roster /\ s[1] \in Roster
    BY <1>1, <1>2
  <2>2. t[1].epoch = s[Len(s)].epoch + 1
    BY DEF check_successor
  <2>3. s[Len(s)].epoch = s[1].epoch + Len(s) - 1
    BY <1>2 DEF GoodChain, Consecutive
  <2>4. s[1].epoch \in Nat
    BY <2>1 DEF Roster
  <2> QED
    BY <2>2, <2>3, <2>4
<1>6. ASSUME NEW k \in 1..Len(u)
      PROVE  u[k] \in S /\ u[k].epoch = u[1].epoch + k - 1
  <2>1. CASE k \in 1..Len(s)
    BY <2>1, <1>1, <1>2 DEF GoodChain, Consecutive
  <2>2. CASE k \notin 1..Len(s)
    <3> DEFINE j == k - Len(s)
    <3>1. j \in 1..Len(t) /\ k = Len(s) + j
      BY <2>2, <1>2
    <3> HIDE DEF j
    <3>2. u[k] = t[j]
      BY <3>1, <1>2
    <3>3. t[j].epoch = t[1].epoch + j - 1
      BY <3>1 DEF GoodChain, Consecutive
    <3>4. u[1] = s[1]
      BY <1>2
    <3>5. u[k] \in S
      BY <3>1, <3>2, <1>1
    <3>6. j \in Int /\ Len(s) \in Int
      BY <3>1, <1>2
    <3>7. t[1].epoch = s[1].epoch + Len(s)
      BY <3>6, <1>5
    <3>8. t[j].epoch = s[1].epoch + k - 1
      <4>1. s[1].epoch \in Int
        BY <1>5
      <4>2. t[j].epoch = (s[1].epoch + Len(s)) + j - 1
        BY <3>3, <3>7
      <4> QED
        BY <3>1, <3>6, <4>1, <4>2
    <3> QED
      BY <3>2, <3>4, <3>5, <3>8
  <2> QED
    BY <2>1, <2>2
<1> QED
  BY <1>2, <1>3, <1>4, <1>6 DEF GoodChain, Consecutive, u

(* Cutting a good chain anywhere leaves a good chain. *)
LEMMA SuffixIsGood ==
  ASSUME NEW S, NEW s, GoodChain(s, S), Linked(s), NEW i \in 1..Len(s)
  PROVE  LET t == SubSeq(s, i, Len(s))
         IN  /\ GoodChain(t, S)
             /\ Linked(t)
             /\ Len(t) = Len(s) - i + 1
             /\ t[1] = s[i]
             /\ t[Len(t)] = s[Len(s)]
<1> DEFINE t == SubSeq(s, i, Len(s))
<1>1. s \in Seq(Roster) /\ \A k \in 1..Len(s) : s[k] \in S
  BY DEF GoodChain
<1>2. /\ t \in Seq(Roster) /\ Len(t) = Len(s) - i + 1
      /\ t # <<>>
      /\ \A k \in 1..Len(t) : t[k] = s[k + i - 1]
      /\ Linked(t)
  BY <1>1, SuffixIsLinked
<1> HIDE DEF t
<1>3. /\ Len(s) \in Nat /\ Len(t) \in Nat
      /\ \A k \in 1..Len(t) : k + i - 1 \in 1..Len(s)
      /\ 1 \in 1..Len(t) /\ Len(t) \in 1..Len(t)
  BY <1>1, <1>2
<1>4. t[1] = s[i] /\ t[Len(t)] = s[Len(s)]
  BY <1>2, <1>3
<1>5. ASSUME NEW k \in 1..Len(t)
      PROVE  t[k] \in S /\ t[k].epoch = t[1].epoch + k - 1
  <2>1. t[k] = s[k + i - 1] /\ k + i - 1 \in 1..Len(s)
    BY <1>2, <1>3
  <2>2. /\ s[k + i - 1].epoch = s[1].epoch + (k + i - 1) - 1
        /\ s[i].epoch = s[1].epoch + i - 1
    BY <2>1 DEF GoodChain, Consecutive
  <2>3. s[1].epoch \in Nat
    <3>1. s[1] \in Roster
      BY <1>1, <1>3
    <3> QED
      BY <3>1 DEF Roster
  <2>4. t[k] \in S
    BY <1>1, <2>1
  <2>x. PICK x \in Nat : x = s[1].epoch
    BY <2>3
  <2>5. t[k].epoch = x + (k + i - 1) - 1 /\ t[1].epoch = x + i - 1
    BY <1>4, <2>1, <2>2, <2>x
  <2>6. t[k].epoch = t[1].epoch + k - 1
    BY <2>5
  <2> QED
    BY <2>4, <2>6
<1>6. GoodChain(t, S)
  BY <1>2, <1>5 DEF GoodChain, Consecutive
<1> QED
  BY <1>2, <1>4, <1>6 DEF t

(* The beginning of a good chain is a good chain, ending where it was cut. *)
LEMMA PrefixIsGood ==
  ASSUME NEW S, NEW s, GoodChain(s, S), Linked(s), NEW i \in 1..Len(s)
  PROVE  LET t == SubSeq(s, 1, i)
         IN  /\ GoodChain(t, S)
             /\ Linked(t)
             /\ Len(t) = i
             /\ t[i] = s[i]
<1> DEFINE t == SubSeq(s, 1, i)
<1>1. s \in Seq(Roster) /\ \A k \in 1..Len(s) : s[k] \in S
  BY DEF GoodChain
<1>2. /\ t \in Seq(Roster) /\ Len(t) = i
      /\ \A k \in 1..i : t[k] = s[k]
      /\ Linked(t)
  BY <1>1, PrefixIsLinked
<1> HIDE DEF t
<1>3. t # <<>>
  BY <1>2, i >= 1
<1>4. \A k \in 1..i : k \in 1..Len(s)
  BY <1>1
<1>5. \A k \in 1..i : t[k] \in S
  BY <1>1, <1>2, <1>4
<1>6. \A k \in 1..i : t[k].epoch = t[1].epoch + k - 1
  <2>1. t[1] = s[1]
    BY <1>2
  <2> QED
    BY <1>2, <1>4, <2>1 DEF GoodChain, Consecutive
<1>7. GoodChain(t, S)
  BY <1>2, <1>3, <1>5, <1>6 DEF GoodChain, Consecutive
<1> QED
  BY <1>2, <1>7 DEF t
-----------------------------------------------------------------------------
(* Dropping old rosters keeps the newest and a good chain. *)
LEMMA KeepLastIsGood ==
  ASSUME NEW S, NEW s, GoodChain(s, S), Linked(s)
  PROVE  LET t == KeepLast(s)
         IN  /\ GoodChain(t, S)
             /\ Linked(t)
             /\ Len(t) <= KEPT_ROSTERS
             /\ t[Len(t)] = s[Len(s)]
<1> DEFINE excess == Len(s) - KEPT_ROSTERS
<1>1. /\ s \in Seq(Roster) /\ Len(s) \in Nat \ {0}
      /\ KEPT_ROSTERS \in Nat \ {0} /\ excess \in Int
  BY LimitsAssumption DEF GoodChain
<1>2. CASE excess > 0
  <2>1. excess + 1 \in 1..Len(s)
    BY <1>1, <1>2
  <2>2. KeepLast(s) = SubSeq(s, excess + 1, Len(s))
    BY <1>2 DEF KeepLast
  <2>3. Len(s) - (excess + 1) + 1 = KEPT_ROSTERS
    BY <1>1
  <2> HIDE DEF excess
  <2> QED
    BY <1>1, <2>1, <2>2, <2>3, SuffixIsGood
<1>3. CASE ~(excess > 0)
  BY <1>1, <1>3 DEF KeepLast
<1> QED
  BY <1>2, <1>3

(* Putting a branch on top of a chain it follows gives a good view. *)
LEMMA PushIsGood ==
  ASSUME NEW S, NEW g \in GroupView, NEW s, NEW t,
         Follows(s, t, S), KeysMeantFor(g, S)
  PROVE  /\ GoodView(push(g, s, t), S)
         /\ push(g, s, t).me = g.me
         /\ push(g, s, t).keys \subseteq g.keys
         /\ current(push(g, s, t)) = t[Len(t)]
         /\ KeyOf(t[Len(t)]) \in g.keys => KeyOf(t[Len(t)]) \in push(g, s, t).keys
<1> DEFINE u == s \o t
           r == KeepLast(u)
           keys == Matched(g.keys, r)
           p == [me |-> g.me, rosters |-> r, keys |-> keys]
<1>1. GoodChain(u, S) /\ Linked(u) /\ u[Len(u)] = t[Len(t)]
  <2>1. GoodChain(u, S) /\ Linked(u)
    BY AppendIsGood DEF Follows
  <2>2. s \in Seq(Roster) /\ t \in Seq(Roster) /\ t # <<>>
    BY DEF GoodChain, Follows
  <2> QED
    BY <2>1, <2>2
<1> HIDE DEF u
<1>2. GoodChain(r, S) /\ Linked(r) /\ Len(r) <= KEPT_ROSTERS /\ r[Len(r)] = t[Len(t)]
  BY <1>1, KeepLastIsGood
<1>3. push(g, s, t) = p
  <2> DEFINE f == [g EXCEPT !.rosters = r]
  <2>1. f = [me |-> g.me, rosters |-> r, keys |-> g.keys]
    BY DEF GroupView
  <2>2. push(g, s, t) = prune(f)
    BY DEF push, u
  <2> HIDE DEF f, r
  <2>3. prune(f) = p
    BY <2>1 DEF prune
  <2> QED
    BY <2>2, <2>3
<1> HIDE DEF r
<1>4. r \in Seq(Roster) /\ r # <<>>
  BY <1>2 DEF GoodChain
<1>5. p \in GroupView
  BY <1>4 DEF GroupView, Matched
<1>6. validate(p)
  BY <1>2, <1>4 DEF validate, Matched
<1>7. GoodView(p, S)
  BY <1>2, <1>5, <1>6 DEF GoodView, KeysMeantFor, Matched
<1>8. MatchesSome(KeyOf(t[Len(t)]), r)
  <2>1. Len(r) \in 1..Len(r)
    BY <1>4
  <2> QED
    BY <1>2, <2>1 DEF MatchesSome
<1> QED
  BY <1>2, <1>3, <1>7, <1>8 DEF current, Matched

-----------------------------------------------------------------------------
(* The current roster of a good view. *)
LEMMA CurrentIsGood ==
  ASSUME NEW S, NEW n, SignedBelow(S, n), NEW g, GoodView(g, S)
  PROVE  /\ current(g) \in S
         /\ current(g) \in Roster
         /\ IsFiniteSet(current(g).members)
         /\ current(g).hash < n /\ current(g).key_check < n
         /\ Verify(current(g))
<1>1. /\ Len(g.rosters) \in 1..Len(g.rosters)
      /\ \A i \in 1..Len(g.rosters) : g.rosters[i] \in S
  BY DEF GoodView, GoodChain
<1>2. Verify(current(g))
  BY <1>1 DEF GoodView, validate, Linked, current
<1> QED
  BY <1>1, <1>2 DEF current, SignedBelow

(* A view after its device has signed r on top of it and has the keys k. *)
Extended(g, k, r) == push([g EXCEPT !.keys = k], g.rosters, <<r>>)

MayExtend(g, k, r, S) ==
  /\ r \in Roster
  /\ Verify(r)
  /\ check_successor(current(g), r)
  /\ k \in SUBSET GroupKey
  /\ \A key \in k : EntitledIn(g.me, key, S \cup {r})

(* A view stays good when its device signs a legitimate successor. *)
LEMMA ExtendedIsGood ==
  ASSUME NEW S, NEW g, GoodView(g, S), NEW k, NEW r, MayExtend(g, k, r, S)
  PROVE  /\ GoodView(Extended(g, k, r), S \cup {r})
         /\ Extended(g, k, r).me = g.me
         /\ current(Extended(g, k, r)) = r
<1> DEFINE T == S \cup {r}
           f == [g EXCEPT !.keys = k]
<1>1. GoodView(g, T)
  BY GoodGrows
<1>2. /\ GoodChain(g.rosters, T) /\ Linked(g.rosters)
      /\ g.rosters[Len(g.rosters)] = current(g)
  BY <1>1 DEF GoodView, validate, current
<1>3. GoodChain(<<r>>, T) /\ Linked(<<r>>)
  <2>1. <<r>> \in Seq(Roster) /\ Len(<<r>>) = 1 /\ <<r>>[1] = r /\ <<r>> # <<>>
    BY DEF MayExtend
  <2>2. r.epoch = r.epoch + 1 - 1 /\ Verify(r)
    BY DEF Roster, MayExtend
  <2> QED
    BY <2>1, <2>2 DEF GoodChain, Consecutive, Linked
<1>4. /\ f \in GroupView /\ f.me = g.me /\ f.keys = k
  BY DEF GoodView, GroupView, MayExtend
<1> HIDE DEF f
<1> DEFINE c == <<r>>
<1>5. /\ c[1] = r /\ c[Len(c)] = r
      /\ GoodChain(c, T) /\ Linked(c)
  BY <1>3
<1> HIDE DEF c, T
<1>6. Follows(g.rosters, c, T)
  BY <1>2, <1>5 DEF Follows, T, MayExtend
<1>7. KeysMeantFor(f, T)
  BY <1>4 DEF T, KeysMeantFor, MayExtend
<1>8. /\ GoodView(push(f, g.rosters, c), T)
      /\ push(f, g.rosters, c).me = f.me
      /\ current(push(f, g.rosters, c)) = c[Len(c)]
  BY <1>4, <1>6, <1>7, PushIsGood
<1> QED
  BY <1>4, <1>5, <1>8 DEF f, c, T, Extended
-----------------------------------------------------------------------------
(* A roster that adds a device is a legitimate successor. *)
LEMMA AdditionIsLegitimate ==
  ASSUME NEW S, NEW n \in Hash, SignedBelow(S, n), NEW g, GoodView(g, S),
         NEW signer, NEW x \in Identity, CanAdd(g, signer, x)
  PROVE  LET r == AdditionOf(g, x, n)
         IN  /\ r \in Roster
             /\ IsFiniteSet(r.members)
             /\ r.hash = n /\ r.key_check < n
             /\ KeyOf(r) = KeyOf(current(g))
             /\ Verify(r)
             /\ check_successor(current(g), r)
<1> DEFINE c == current(g)
           r == AdditionOf(g, x, n)
           more == c.members \cup {x}
<1>1. /\ c \in Roster /\ IsFiniteSet(c.members) /\ c.hash < n /\ c.key_check < n
      /\ Verify(c)
  BY CurrentIsGood
<1>2. g.me \in c.members /\ g.me \in Identity
  BY <1>1 DEF CanAdd, MayChange, is_member, GoodView, GroupView
<1>3. /\ x \notin c.members
      /\ \A m \in c.members : DeviceId(m) # DeviceId(x)
      /\ Cardinality(c.members) < MAX_MEMBERS
      /\ c.epoch + 1 <= MAX_EPOCH
  BY DEF CanAdd, Taken
<1>4. IsFiniteSet(more) /\ Cardinality(more) <= MAX_MEMBERS
  <2>1. IsFiniteSet(more) /\ Cardinality(more) = Cardinality(c.members) + 1
    BY <1>1, <1>3, FS_AddElement
  <2>2. Cardinality(c.members) \in Nat
    BY <1>1, FS_CardinalityType
  <2> QED
    BY <1>3, <2>1, <2>2, LimitsAssumption
<1> HIDE DEF c
<1>5. r = [hash |-> n, group |-> c.group, epoch |-> c.epoch + 1, prev |-> c.hash,
           key_epoch |-> c.key_epoch, key_check |-> c.key_check,
           members |-> more, signer |-> g.me]
  BY DEF AdditionOf, Successor, c
<1> HIDE DEF r
<1>6. /\ c.group \in Hash /\ c.epoch \in Nat /\ c.hash \in Hash
      /\ c.key_epoch \in Nat /\ c.key_check \in Hash
      /\ c.members \in SUBSET Identity
  BY <1>1 DEF Roster
<1>7. r \in Roster
  BY <1>2, <1>5, <1>6 DEF Roster
<1>8. c.key_epoch <= c.epoch
  BY <1>1 DEF Verify
<1>9. \A m, o \in more : DeviceId(m) = DeviceId(o) => m = o
  BY <1>1, <1>3 DEF Verify
<1>10. Verify(r)
  <2>1. r.epoch # 0 /\ r.key_epoch <= r.epoch /\ r.epoch <= MAX_EPOCH
    BY <1>3, <1>5, <1>6, <1>8
  <2>2. r.members # {} /\ Cardinality(r.members) <= MAX_MEMBERS
    BY <1>4, <1>5
  <2>3. \A m, o \in r.members : DeviceId(m) = DeviceId(o) => m = o
    BY <1>5, <1>9
  <2> QED
    BY <2>1, <2>2, <2>3 DEF Verify
<1>11. check_successor(c, r)
  <2>1. /\ r.group = c.group /\ r.epoch = c.epoch + 1 /\ r.prev = c.hash
        /\ r.signer \in c.members
    BY <1>2, <1>5
  <2>2. members_without(c, r) = {} /\ members_without(r, c) # {}
    BY <1>3, <1>5 DEF members_without
  <2>3. r.key_epoch # r.epoch /\ KeyOf(r) = KeyOf(c)
    BY <1>5, <1>6, <1>8 DEF KeyOf
  <2> QED
    BY <2>1, <2>2, <2>3 DEF check_successor
<1> QED
  BY <1>1, <1>4, <1>5, <1>7, <1>10, <1>11 DEF r, c, KeyOf

(* So is one that removes a device and moves on to a key of its own. *)
LEMMA RemovalIsLegitimate ==
  ASSUME NEW S, NEW n \in Hash, SignedBelow(S, n), NEW g, GoodView(g, S),
         NEW signer, NEW x, CanRemove(g, signer, x)
  PROVE  LET r == RemovalOf(g, x, n)
         IN  /\ r \in Roster
             /\ IsFiniteSet(r.members)
             /\ r.hash = n /\ r.key_check = n
             /\ g.me \in r.members
             /\ Verify(r)
             /\ check_successor(current(g), r)
<1> DEFINE c == current(g)
           r == RemovalOf(g, x, n)
           fewer == c.members \ {x}
<1>1. /\ c \in Roster /\ IsFiniteSet(c.members) /\ c.hash < n /\ c.key_check < n
      /\ Verify(c)
  BY CurrentIsGood
<1>2. /\ g.me \in c.members /\ g.me \in Identity
      /\ x # g.me /\ x \in c.members
      /\ c.epoch + 1 <= MAX_EPOCH
  BY DEF CanRemove, MayChange, is_member, is_peer, GoodView, GroupView
<1>3. IsFiniteSet(fewer) /\ Cardinality(fewer) <= MAX_MEMBERS
  <2>1. IsFiniteSet(fewer) /\ Cardinality(fewer) <= Cardinality(c.members)
    BY <1>1, FS_Subset
  <2>2. Cardinality(c.members) \in Nat /\ Cardinality(fewer) \in Nat
    BY <1>1, <2>1, FS_CardinalityType
  <2>3. Cardinality(c.members) <= MAX_MEMBERS
    BY <1>1 DEF Verify
  <2> QED
    BY <2>1, <2>2, <2>3, LimitsAssumption
<1> HIDE DEF c
<1>4. r = [hash |-> n, group |-> c.group, epoch |-> c.epoch + 1, prev |-> c.hash,
           key_epoch |-> c.epoch + 1, key_check |-> n,
           members |-> fewer, signer |-> g.me]
  BY DEF RemovalOf, Successor, c
<1> HIDE DEF r
<1>5. /\ c.group \in Hash /\ c.epoch \in Nat /\ c.hash \in Hash
      /\ c.key_epoch \in Nat /\ c.key_check \in Hash
      /\ c.members \in SUBSET Identity
      /\ n \in Nat
  BY <1>1, HashAssumption DEF Roster
<1>6. r \in Roster
  BY <1>2, <1>4, <1>5 DEF Roster
<1>7. Verify(r)
  <2>1. r.epoch # 0 /\ r.key_epoch <= r.epoch /\ r.epoch <= MAX_EPOCH
    BY <1>2, <1>4, <1>5
  <2>2. r.members # {} /\ Cardinality(r.members) <= MAX_MEMBERS
    BY <1>2, <1>3, <1>4
  <2>3. \A m, o \in r.members : DeviceId(m) = DeviceId(o) => m = o
    BY <1>1, <1>4 DEF Verify
  <2> QED
    BY <2>1, <2>2, <2>3 DEF Verify
<1>8. check_successor(c, r)
  <2>1. /\ r.group = c.group /\ r.epoch = c.epoch + 1 /\ r.prev = c.hash
        /\ r.signer \in c.members
    BY <1>2, <1>4
  <2>2. members_without(c, r) # {}
    BY <1>2, <1>4 DEF members_without
  <2>3. c.key_check \in Nat
    BY <1>5, HashAssumption
  <2>4. r.key_epoch = r.epoch /\ r.key_check # c.key_check
    BY <1>1, <1>4, <1>5, <2>3
  <2> QED
    BY <2>1, <2>2, <2>4 DEF check_successor
<1> QED
  BY <1>2, <1>3, <1>4, <1>6, <1>7, <1>8 DEF r, c
(* Signing one more roster keeps the record of signatures in order. *)
LEMMA SigningIsBelow ==
  ASSUME NEW S, NEW n \in Hash, SignedBelow(S, n), NEW r \in Roster,
         IsFiniteSet(r.members), r.hash = n, r.key_check <= n
  PROVE  SignedBelow(S \cup {r}, n + 1)
<1>1. n \in Nat /\ r.key_check \in Nat /\ \A q \in S : q.hash \in Nat /\ q.key_check \in Nat
  BY HashAssumption DEF SignedBelow, Roster
<1> QED
  BY <1>1 DEF SignedBelow

(* Adding a device keeps the view good. *)
LEMMA AddIsGood ==
  ASSUME NEW S, NEW n \in Hash, SignedBelow(S, n), NEW g, GoodView(g, S),
         NEW signer, NEW x \in Identity, CanAdd(g, signer, x)
  PROVE  LET r == AdditionOf(g, x, n)
             h == add_member(g, x, n)
         IN  /\ GoodView(h, S \cup {r})
             /\ SignedBelow(S \cup {r}, n + 1)
             /\ r \in Roster
             /\ h.me = g.me
             /\ current(h) = r
<1> DEFINE r == AdditionOf(g, x, n)
           f == [g EXCEPT !.keys = g.keys]
<1>1. /\ r \in Roster /\ IsFiniteSet(r.members) /\ r.hash = n /\ r.key_check < n
      /\ Verify(r) /\ check_successor(current(g), r)
  BY AdditionIsLegitimate
<1> HIDE DEF r
<1>2. f = g /\ g.keys \in SUBSET GroupKey
  BY DEF GoodView, GroupView
<1>3. \A key \in g.keys : EntitledIn(g.me, key, S \cup {r})
  BY DEF GoodView, KeysMeantFor, EntitledIn
<1>4. MayExtend(g, g.keys, r, S)
  BY <1>1, <1>2, <1>3 DEF MayExtend
<1>5. Extended(g, g.keys, r) = add_member(g, x, n)
  BY <1>2 DEF Extended, add_member, r
<1>6. SignedBelow(S \cup {r}, n + 1)
  <2>1. r.key_check <= n
    <3>1. n \in Nat /\ r.key_check \in Nat
      BY <1>1, HashAssumption DEF Roster
    <3> QED
      BY <1>1, <3>1
  <2> QED
    BY <1>1, <2>1, SigningIsBelow
<1> QED
  BY <1>1, <1>4, <1>5, <1>6, ExtendedIsGood DEF r

(* Removing a device, and turning the key, keeps the view good. *)
LEMMA RemoveIsGood ==
  ASSUME NEW S, NEW n \in Hash, SignedBelow(S, n), NEW g, GoodView(g, S),
         NEW signer, NEW x, CanRemove(g, signer, x)
  PROVE  LET r == RemovalOf(g, x, n)
             h == remove_member(g, x, n)
         IN  /\ GoodView(h, S \cup {r})
             /\ SignedBelow(S \cup {r}, n + 1)
             /\ r \in Roster
             /\ h.me = g.me
<1> DEFINE r == RemovalOf(g, x, n)
           k == g.keys \cup {KeyOf(r)}
<1>1. /\ r \in Roster /\ IsFiniteSet(r.members) /\ r.hash = n /\ r.key_check = n
      /\ g.me \in r.members /\ Verify(r) /\ check_successor(current(g), r)
  BY RemovalIsLegitimate
<1>2. remove_member(g, x, n) = Extended(g, k, r)
  BY DEF remove_member, Extended
<1> HIDE DEF r
<1>3. k \in SUBSET GroupKey
  BY <1>1 DEF GoodView, GroupView, GroupKey, KeyOf, Roster
<1>4. \A key \in k : EntitledIn(g.me, key, S \cup {r})
  BY <1>1 DEF GoodView, KeysMeantFor, EntitledIn
<1> HIDE DEF k
<1>5. MayExtend(g, k, r, S)
  BY <1>1, <1>3, <1>4 DEF MayExtend
<1>6. SignedBelow(S \cup {r}, n + 1)
  <2>1. r.key_check <= n
    BY <1>1, HashAssumption DEF Roster
  <2> QED
    BY <1>1, <2>1, SigningIsBelow
<1> QED
  BY <1>1, <1>2, <1>5, <1>6, ExtendedIsGood DEF r

(* A new group starts from a good view. *)
LEMMA CreateIsGood ==
  ASSUME NEW S, NEW n \in Hash, SignedBelow(S, n), NEW me \in Identity
  PROVE  LET g == create(me, n)
             r == g.rosters[1]
         IN  /\ GoodView(g, S \cup {r})
             /\ SignedBelow(S \cup {r}, n + 1)
             /\ r \in Roster
<1> DEFINE r == [hash |-> n, group |-> n, epoch |-> 0, prev |-> NoHash,
                 key_epoch |-> 0, key_check |-> n, members |-> {me}, signer |-> me]
           key == [epoch |-> 0, check |-> n]
           g == [me |-> me, rosters |-> <<r>>, keys |-> {key}]
           T == S \cup {r}
<1>1. create(me, n) = g
  BY DEF create
<1>2. r \in Roster /\ KeyOf(r) = key
  BY DEF Roster, NoHash, KeyOf
<1>3. IsFiniteSet(r.members) /\ Cardinality(r.members) = 1
  BY FS_Singleton
<1>4. Verify(r)
  BY <1>3, LimitsAssumption DEF Verify
<1>5. r.hash = n /\ r.key_check = n /\ me \in r.members /\ r.epoch = 0
  OBVIOUS
<1> HIDE DEF r
<1>6. SignedBelow(T, n + 1)
  <2>1. r.key_check <= n
    BY <1>5, HashAssumption
  <2> QED
    BY <1>2, <1>3, <1>5, <2>1, SigningIsBelow
<1>7. g \in GroupView
  BY <1>2 DEF GroupView, GroupKey
<1>8. GoodChain(g.rosters, T) /\ Linked(g.rosters)
  BY <1>2, <1>4, <1>5 DEF GoodChain, Consecutive, Linked
<1>9. validate(g)
  <2>1. Len(g.rosters) = 1 /\ g.rosters[1] = r /\ g.rosters # <<>>
    OBVIOUS
  <2>2. Len(g.rosters) <= KEPT_ROSTERS
    BY <2>1, LimitsAssumption
  <2>3. \A k \in g.keys : MatchesSome(k, g.rosters)
    BY <1>2, <2>1 DEF MatchesSome
  <2> QED
    BY <1>8, <2>1, <2>2, <2>3 DEF validate
<1>10. KeysMeantFor(g, T)
  BY <1>2, <1>5 DEF KeysMeantFor, EntitledIn
<1> QED
  BY <1>1, <1>2, <1>6, <1>7, <1>8, <1>9, <1>10 DEF GoodView, r

(* A welcome that passes the joiner's checks gives a good view. *)
LEMMA JoinIsGood ==
  ASSUME NEW S, NEW me \in Identity, NEW rosters, GoodChain(rosters, S),
         NEW key \in GroupKey, CanJoin(me, rosters, key)
  PROVE  GoodView(joined(me, rosters, key), S)
<1> DEFINE g == joined(me, rosters, key)
<1>1. /\ g.me = me /\ g.rosters = rosters /\ g.keys = {key}
      /\ g \in GroupView
  BY DEF joined, GroupView, GoodChain
<1>2. validate(g) /\ is_member(g) /\ has_current_key(g)
  BY DEF CanJoin
<1> HIDE DEF g
<1>3. current(g) \in S
  BY <1>1 DEF current, GoodChain
<1>4. KeysMeantFor(g, S)
  BY <1>1, <1>2, <1>3 DEF KeysMeantFor, EntitledIn, is_member, has_current_key
<1> QED
  BY <1>1, <1>2, <1>4 DEF GoodView, g

(* Accepting a key that was meant for this device. *)
LEMMA AcceptKeyIsGood ==
  ASSUME NEW S, NEW g, GoodView(g, S), NEW key \in GroupKey,
         CanAcceptKey(g, key), EntitledIn(g.me, key, S)
  PROVE  GoodView(accept_key(g, key), S)
<1> DEFINE h == accept_key(g, key)
<1>1. /\ h.me = g.me /\ h.rosters = g.rosters /\ h.keys = g.keys \cup {key}
      /\ h \in GroupView
  BY DEF accept_key, GoodView, GroupView
<1> HIDE DEF h
<1>2. validate(h)
  BY <1>1 DEF validate, GoodView, CanAcceptKey
<1>3. KeysMeantFor(h, S)
  BY <1>1 DEF GoodView, KeysMeantFor
<1> QED
  BY <1>1, <1>2, <1>3 DEF GoodView, h
-----------------------------------------------------------------------------
(* The part of a chain that is new starts inside it or right behind it. *)
LEMMA SkipIsInside ==
  ASSUME NEW g, NEW chain \in Seq(Roster)
  PROVE  Skip(g, chain) \in 0..Len(chain)
<1> DEFINE held == {i \in 1..Len(chain) : \A j \in 1..i : AlreadyHeld(g, chain[j])}
<1>1. /\ IsFiniteSet(1..Len(chain)) /\ Cardinality(1..Len(chain)) = Len(chain)
      /\ Len(chain) \in Nat
  <2> DEFINE n == Len(chain)
  <2>1. n \in Nat /\ 1 \in Int /\ n \in Int
    OBVIOUS
  <2> HIDE DEF n
  <2>2. /\ IsFiniteSet(1..n)
        /\ Cardinality(1..n) = IF 1 > n THEN 0 ELSE n - 1 + 1
    BY <2>1, FS_Interval
  <2>3. Cardinality(1..n) = n
    BY <2>1, <2>2
  <2> QED
    BY <2>1, <2>2, <2>3 DEF n
<1>2. held \in SUBSET (1..Len(chain)) /\ Skip(g, chain) = Cardinality(held)
  BY DEF Skip
<1> HIDE DEF held
<1>3. IsFiniteSet(held) /\ Cardinality(held) <= Len(chain)
  <2>1. IsFiniteSet(held) /\ Cardinality(held) <= Cardinality(1..Len(chain))
    BY <1>1, <1>2, FS_Subset
  <2> QED
    BY <1>1, <2>1
<1>4. Cardinality(held) \in Nat
  BY <1>3, FS_CardinalityType
<1> QED
  BY <1>1, <1>2, <1>3, <1>4

(* What is new in a good chain is itself a good chain. *)
LEMMA IncomingIsGood ==
  ASSUME NEW S, NEW g, NEW chain, GoodChain(chain, S), Linked(chain),
         Incoming(g, chain) # <<>>
  PROVE  GoodChain(Incoming(g, chain), S) /\ Linked(Incoming(g, chain))
<1> DEFINE i == Skip(g, chain) + 1
<1>1. chain \in Seq(Roster) /\ Len(chain) \in Nat
  BY DEF GoodChain
<1>2. i \in 1..(Len(chain) + 1) /\ Incoming(g, chain) = SubSeq(chain, i, Len(chain))
  BY <1>1, SkipIsInside DEF Incoming
<1> HIDE DEF i
<1>3. i \in 1..Len(chain)
  <2>1. i = Len(chain) + 1 => SubSeq(chain, i, Len(chain)) = <<>>
    BY <1>1
  <2> QED
    BY <1>1, <1>2, <2>1
<1> QED
  BY <1>2, <1>3, SuffixIsGood

(* A branch that attaches does so to a roster of the view. *)
LEMMA ForkPointIsInside ==
  ASSUME NEW S, NEW g, GoodView(g, S), NEW branch, GoodChain(branch, S),
         Attaches(g, branch)
  PROVE  /\ ForkPoint(g, branch) \in 1..Len(g.rosters)
         /\ check_successor(g.rosters[ForkPoint(g, branch)], branch[1])
<1> DEFINE r == g.rosters
<1>1. /\ r \in Seq(Roster) /\ r # <<>> /\ Len(r) \in Nat \ {0}
      /\ branch \in Seq(Roster) /\ branch # <<>>
      /\ Len(r) \in 1..Len(r) /\ 1 \in 1..Len(branch) /\ 1 \in 1..Len(r)
  BY DEF GoodView, GoodChain
<1>2. r[1] \in Roster /\ branch[1] \in Roster
  BY <1>1
<1>3. r[1].epoch \in Nat /\ branch[1].epoch \in Nat
  BY <1>2 DEF Roster
<1>4. current(g).epoch = r[1].epoch + Len(r) - 1
  BY <1>1 DEF current, GoodView, GoodChain, Consecutive
<1>5. /\ branch[1].epoch <= current(g).epoch + 1
      /\ branch[1].epoch > r[1].epoch
      /\ check_successor(r[ForkPoint(g, branch)], branch[1])
  BY DEF Attaches
<1>6. ForkPoint(g, branch) = branch[1].epoch - r[1].epoch
  BY DEF ForkPoint
<1> QED
  BY <1>1, <1>3, <1>4, <1>5, <1>6

(* What a lost branch leaves to redo. *)
LEMMA ReapplyIsTyped ==
  ASSUME NEW parent \in Roster, NEW lost \in Seq(Roster), lost # <<>>, NEW me
  PROVE  changes_to_reapply(parent, lost, me) \in Seq(Change)
<1> DEFINE n == Len(lost)
           end == lost[n]
           added(i) == IF lost[i].signer = me
                       THEN members_without(lost[i], Before(parent, lost, i)) \cap end.members
                       ELSE {}
           removed(i) == members_without(Before(parent, lost, i), lost[i])
                           \ ({me} \cup end.members)
           change(j) == IF j % 2 = 1
                        THEN [kind |-> "Added",   ids |-> added((j + 1) \div 2)]
                        ELSE [kind |-> "Removed", ids |-> removed(j \div 2)]
<1>1. n \in Nat
  OBVIOUS
<1>2. \A i \in 1..n : /\ lost[i].members \in SUBSET Identity
                       /\ Before(parent, lost, i).members \in SUBSET Identity
  <2> SUFFICES ASSUME NEW i \in 1..n
               PROVE  /\ lost[i].members \in SUBSET Identity
                      /\ Before(parent, lost, i).members \in SUBSET Identity
    OBVIOUS
  <2>1. lost[i] \in Roster
    OBVIOUS
  <2>2. Before(parent, lost, i) \in Roster
    <3>1. CASE i = 1
      BY <3>1 DEF Before
    <3>2. CASE i # 1
      <4>1. i - 1 \in 1..n
        BY <1>1, <3>2
      <4> QED
        BY <3>2, <4>1 DEF Before
    <3> QED
      BY <3>1, <3>2
  <2>3. \A r \in Roster : r.members \in SUBSET Identity
    BY DEF Roster
  <2> QED
    BY <2>1, <2>2, <2>3
<1>3. \A i \in 1..n : added(i) \in SUBSET Identity /\ removed(i) \in SUBSET Identity
  BY <1>2 DEF members_without
<1> HIDE DEF added, removed
<1>4. ASSUME NEW j \in 1..(2 * n) PROVE change(j) \in Change
  <2>1. CASE j % 2 = 1
    <3>1. (j + 1) \div 2 \in 1..n
      BY <1>1, <2>1
    <3> QED
      BY <1>3, <2>1, <3>1 DEF Change
  <2>2. CASE j % 2 # 1
    <3>1. j \div 2 \in 1..n
      BY <1>1, <2>2
    <3> QED
      BY <1>3, <2>2, <3>1 DEF Change
  <2> QED
    BY <2>1, <2>2
<1>5. changes_to_reapply(parent, lost, me) = [j \in 1..(2 * n) |-> change(j)]
  BY DEF changes_to_reapply, added, removed
<1> HIDE DEF change, n
<1> QED
  BY <1>1, <1>4, <1>5

(* What an outcome carries. *)
LEMMA OutcomeFields ==
  ASSUME NEW o, NEW u, NEW g, NEW r, o = Outcome(u, g, r)
  PROVE  o.group = g /\ o.reapply = r
BY DEF Outcome

(* Adopting a branch that attaches. *)
LEMMA AdoptIsGood ==
  ASSUME NEW S, NEW n, SignedBelow(S, n), NEW g, GoodView(g, S),
         NEW branch, GoodChain(branch, S), Linked(branch), Attaches(g, branch)
  PROVE  /\ GoodView(Adopt(g, branch).group, S)
         /\ Adopt(g, branch).reapply \in Seq(Change)
         /\ Adopt(g, branch).group.me = g.me
<1> DEFINE at == ForkPoint(g, branch)
           parent == g.rosters[at]
           lost == SubSeq(g.rosters, at + 1, Len(g.rosters))
           kept == SubSeq(g.rosters, 1, at)
           after == push(g, kept, branch)
           wiped == [after EXCEPT !.keys = {}]
<1>1. /\ at \in 1..Len(g.rosters) /\ check_successor(parent, branch[1])
      /\ g.rosters \in Seq(Roster) /\ Linked(g.rosters) /\ g \in GroupView
      /\ GoodChain(g.rosters, S) /\ KeysMeantFor(g, S)
  BY ForkPointIsInside DEF GoodView, GoodChain, validate
<1> HIDE DEF at
<1>2. Follows(kept, branch, S)
  BY <1>1, PrefixIsGood DEF Follows
<1>3. GoodView(after, S) /\ after.me = g.me
  <2> HIDE DEF kept
  <2> QED
    BY <1>1, <1>2, PushIsGood
<1> HIDE DEF after
<1>4. GoodView(wiped, S) /\ wiped.me = g.me
  <2>1. /\ wiped.me = after.me /\ wiped.rosters = after.rosters /\ wiped.keys = {}
        /\ wiped \in GroupView
    BY <1>3 DEF GoodView, GroupView
  <2> HIDE DEF wiped
  <2>2. validate(wiped)
    BY <1>3, <2>1 DEF GoodView, validate
  <2> QED
    BY <1>3, <2>1, <2>2 DEF GoodView, KeysMeantFor
<1>5. parent \in Roster /\ lost \in Seq(Roster)
  BY <1>1
<1>6. lost # <<>> => changes_to_reapply(parent, lost, g.me) \in Seq(Change)
  BY <1>5, ReapplyIsTyped
<1>7. \/ Adopt(g, branch) = Outcome("RemovedThisDevice", wiped, <<>>)
      \/ Adopt(g, branch) = Outcome("Advanced", after, <<>>)
      \/ /\ lost # <<>>
         /\ Adopt(g, branch) = Outcome("Replaced", after, changes_to_reapply(parent, lost, g.me))
  BY DEF Adopt, at, after
<1> HIDE DEF lost, wiped, parent
<1>8. <<>> \in Seq(Change)
  OBVIOUS
<1> DEFINE o == Adopt(g, branch)
<1> HIDE DEF o
<1>9. CASE o = Outcome("RemovedThisDevice", wiped, <<>>)
  BY <1>4, <1>8, <1>9, OutcomeFields DEF o
<1>10. CASE o = Outcome("Advanced", after, <<>>)
  BY <1>3, <1>8, <1>10, OutcomeFields DEF o
<1>11. CASE lost # <<>> /\ o = Outcome("Replaced", after, changes_to_reapply(parent, lost, g.me))
  BY <1>3, <1>6, <1>11, OutcomeFields DEF o
<1> QED
  BY <1>7, <1>9, <1>10, <1>11 DEF o

(* Whatever a peer sends, applying it leaves a good view. *)
LEMMA ApplyChainIsGood ==
  ASSUME NEW S, NEW n, SignedBelow(S, n), NEW g, GoodView(g, S),
         NEW chain, GoodChain(chain, S)
  PROVE  /\ GoodView(apply_chain(g, chain).group, S)
         /\ apply_chain(g, chain).reapply \in Seq(Change)
         /\ apply_chain(g, chain).group.me = g.me
<1> DEFINE branch == Incoming(g, chain)
<1>1. CASE ~WellFormedChain(g, chain)
  BY <1>1 DEF apply_chain, Outcome
<1>2. CASE WellFormedChain(g, chain) /\ branch = <<>>
  BY <1>2 DEF apply_chain, Outcome
<1>3. CASE WellFormedChain(g, chain) /\ branch # <<>> /\ ~Attaches(g, branch)
  BY <1>3 DEF apply_chain, Outcome
<1>4. CASE WellFormedChain(g, chain) /\ branch # <<>> /\ Attaches(g, branch)
  <2>1. GoodChain(branch, S) /\ Linked(branch)
    BY <1>4, IncomingIsGood DEF WellFormedChain
  <2>2. \/ apply_chain(g, chain) = Outcome("ForkLost", g, <<>>)
        \/ apply_chain(g, chain) = Adopt(g, branch)
    BY <1>4 DEF apply_chain
  <2> HIDE DEF branch
  <2>3. /\ GoodView(Adopt(g, branch).group, S)
        /\ Adopt(g, branch).reapply \in Seq(Change)
        /\ Adopt(g, branch).group.me = g.me
    BY <1>4, <2>1, AdoptIsGood
  <2>4. CASE apply_chain(g, chain) = Outcome("ForkLost", g, <<>>)
    <3>1. /\ apply_chain(g, chain).group = g
          /\ apply_chain(g, chain).reapply = <<>>
      BY <2>4, OutcomeFields
    <3>2. <<>> \in Seq(Change)
      OBVIOUS
    <3> QED
      BY <3>1, <3>2
  <2> QED
    BY <2>2, <2>3, <2>4
<1> QED
  BY <1>1, <1>2, <1>3, <1>4

-----------------------------------------------------------------------------
(* The devices together. *)

GroupsGood == \A d \in Device : group[d] # NoGroup => GoodView(group[d], signed)

DisksGood ==
  \A d \in Device : disk[d].group # NoGroup => GoodView(disk[d].group, signed)

AdmissionsGood ==
  \A d \in Device : admitting[d] # None =>
    GoodView(admitting[d].group, signed) /\ admitting[d].roster \in signed

WelcomesGood ==
  \A d \in Device : welcome[d] # None => GoodChain(welcome[d].rosters, signed)

ChainsGood == \A chain \in chains : GoodChain(chain, signed)

SharesGood == \A share \in shares : EntitledIn(share.to, share.key, signed)

Inv ==
  /\ TypeOK
  /\ SignedBelow(signed, next)
  /\ GroupsGood
  /\ DisksGood
  /\ AdmissionsGood
  /\ WelcomesGood
  /\ ChainsGood
  /\ SharesGood

-----------------------------------------------------------------------------
(* Nothing has been signed at the start. *)
LEMMA InitGood == Init => Inv
<1> SUFFICES ASSUME Init PROVE Inv
  OBVIOUS
<1>1. \A d \in Device : <<d, 0>> \in Identity
  BY IncarnationAssumption DEF Identity
<1>2. TypeOK
  BY <1>1 DEF Init, TypeOK, View, Stored
<1>3. SignedBelow(signed, next)
  BY DEF Init, SignedBelow
<1> QED
  BY <1>2, <1>3 DEF Init, Inv, GroupsGood, DisksGood, AdmissionsGood,
                    WelcomesGood, ChainsGood, SharesGood

(* The two markers for "nothing" are not mistaken for values. *)
LEMMA Markers ==
  /\ \A g \in View : g # NoGroup => g \in GroupView
  /\ \A a \in Admission \cup {None} : a # None => a \in Admission
  /\ \A w \in Welcome \cup {None} : w # None => w \in Welcome
BY DEF View

(* Where nothing happens, more signatures spoil nothing. *)
LEMMA UntouchedStaysGood ==
  ASSUME Inv, signed \subseteq signed'
  PROVE  /\ UNCHANGED group => GroupsGood'
         /\ UNCHANGED disk => DisksGood'
         /\ UNCHANGED admitting => AdmissionsGood'
         /\ UNCHANGED welcome => WelcomesGood'
         /\ UNCHANGED chains => ChainsGood'
         /\ UNCHANGED shares => SharesGood'
<1>1. /\ \A g : GoodView(g, signed) => GoodView(g, signed')
      /\ \A chain : GoodChain(chain, signed) => GoodChain(chain, signed')
      /\ \A id, key : EntitledIn(id, key, signed) => EntitledIn(id, key, signed')
  BY GoodGrows
<1>2. UNCHANGED group => GroupsGood'
  BY <1>1 DEF Inv, GroupsGood
<1>3. UNCHANGED disk => DisksGood'
  BY <1>1 DEF Inv, DisksGood
<1>4. UNCHANGED admitting => AdmissionsGood'
  BY <1>1 DEF Inv, AdmissionsGood
<1>5. UNCHANGED welcome => WelcomesGood'
  BY <1>1 DEF Inv, WelcomesGood
<1>6. UNCHANGED chains => ChainsGood'
  BY <1>1 DEF Inv, ChainsGood
<1>7. UNCHANGED shares => SharesGood'
  BY <1>1 DEF Inv, SharesGood
<1> QED
  BY <1>2, <1>3, <1>4, <1>5, <1>6, <1>7

(* Installing a good view in memory. *)
LEMMA InstallIsGood ==
  ASSUME Inv, signed \subseteq signed', NEW d \in Device, NEW g,
         GoodView(g, signed'), group' = [group EXCEPT ![d] = g]
  PROVE  group' \in [Device -> View] /\ GroupsGood'
<1>1. g \in View
  BY DEF GoodView, View
<1>2. group \in [Device -> View]
  BY DEF Inv, TypeOK
<1>3. \A e \in Device : group'[e] = IF e = d THEN g ELSE group[e]
  BY <1>2
<1>4. \A e \in Device : group[e] # NoGroup => GoodView(group[e], signed')
  BY GoodGrows DEF Inv, GroupsGood
<1> QED
  BY <1>1, <1>2, <1>3, <1>4 DEF GroupsGood

(* Saving it. *)
LEMMA SaveIsGood ==
  ASSUME Inv, signed \subseteq signed', NEW d \in Device, NEW id \in Identity,
         NEW g, g = NoGroup \/ GoodView(g, signed'), Save(d, id, g)
  PROVE  disk' \in [Device -> Stored] /\ DisksGood'
<1> DEFINE s == [identity |-> id, group |-> g]
<1>1. s \in Stored /\ s.group = g
  BY DEF GoodView, View, Stored
<1> HIDE DEF s
<1>2. disk \in [Device -> Stored]
  BY DEF Inv, TypeOK
<1>3. \A e \in Device : disk[e].group # NoGroup => GoodView(disk[e].group, signed')
  BY GoodGrows DEF Inv, DisksGood
<1>4. CASE disk' = [disk EXCEPT ![d] = s]
  <2>1. \A e \in Device : disk'[e] = IF e = d THEN s ELSE disk[e]
    BY <1>2, <1>4
  <2> QED
    BY <1>1, <1>2, <1>3, <1>4, <2>1 DEF DisksGood
<1>5. CASE UNCHANGED disk
  BY <1>2, <1>3, <1>5 DEF DisksGood
<1> QED
  BY <1>4, <1>5 DEF Save, s

(* Both. *)
LEMMA KeepIsGood ==
  ASSUME Inv, signed \subseteq signed', NEW d \in Device, NEW g,
         GoodView(g, signed'), Keep(d, g)
  PROVE  /\ group' \in [Device -> View] /\ GroupsGood'
         /\ disk' \in [Device -> Stored] /\ DisksGood'
<1>1. identity[d] \in Identity
  BY DEF Inv, TypeOK
<1>2. group' \in [Device -> View] /\ GroupsGood'
  BY InstallIsGood DEF Keep
<1>3. disk' \in [Device -> Stored] /\ DisksGood'
  BY <1>1, SaveIsGood DEF Keep
<1> QED
  BY <1>2, <1>3

(* Both, and sending it around. *)
LEMMA CommitIsGood ==
  ASSUME Inv, signed \subseteq signed', NEW d \in Device, NEW g,
         GoodView(g, signed'), Commit(d, g)
  PROVE  /\ group' \in [Device -> View]
         /\ disk' \in [Device -> Stored]
         /\ chains' \subseteq Seq(Roster)
         /\ GroupsGood' /\ DisksGood' /\ ChainsGood'
<1>1. chains \subseteq Seq(Roster)
  BY DEF Inv, TypeOK
<1>2. /\ group' \in [Device -> View] /\ GroupsGood'
      /\ disk' \in [Device -> Stored] /\ DisksGood'
  BY KeepIsGood DEF Commit
<1>4. chains' \subseteq Seq(Roster) /\ ChainsGood'
  <2>1. GoodChain(g.rosters, signed') /\ g.rosters \in Seq(Roster)
    BY DEF GoodView, GoodChain
  <2>2. \A chain \in chains : GoodChain(chain, signed')
    BY GoodGrows DEF Inv, ChainsGood
  <2>3. chains' = chains \cup {g.rosters}
    BY DEF Commit
  <2> QED
    BY <1>1, <2>1, <2>2, <2>3 DEF ChainsGood
<1> QED
  BY <1>2, <1>4

(* Signing a roster that the record accepts. *)
LEMMA SignIsGood ==
  ASSUME Inv, NEW r \in Roster, Sign(r), SignedBelow(signed \cup {r}, next + 1)
  PROVE  /\ signed \subseteq signed' /\ signed' = signed \cup {r}
         /\ signed' \subseteq Roster
         /\ SignedBelow(signed', next')
         /\ next' \in Nat \ {0}
BY DEF Sign, Inv, TypeOK

(* Signing nothing. *)
LEMMA NothingSignedIsGood ==
  ASSUME Inv, NothingSigned
  PROVE  /\ signed \subseteq signed' /\ signed' = signed
         /\ signed' \subseteq Roster
         /\ SignedBelow(signed', next')
         /\ next' \in Nat \ {0}
BY DEF NothingSigned, Inv, TypeOK

-----------------------------------------------------------------------------
(* One lemma per operation.  Create: a group of one. *)
LEMMA CreateKeepsInv ==
  ASSUME Inv, NEW d \in Device, Create(d)
  PROVE  Inv'
<1> DEFINE g == create(identity[d], next)
           r == g.rosters[1]
<1>1. identity[d] \in Identity /\ next \in Hash /\ SignedBelow(signed, next)
  BY DEF Inv, TypeOK, Create, Sign
<1>2. GoodView(g, signed \cup {r}) /\ SignedBelow(signed \cup {r}, next + 1) /\ r \in Roster
  BY <1>1, CreateIsGood
<1>3. Sign(r) /\ Commit(d, g) /\ UNCHANGED <<identity, redo, pairingVars, shares>>
  BY DEF Create
<1> HIDE DEF g, r
<1>4. /\ signed \subseteq signed' /\ signed' = signed \cup {r} /\ signed' \subseteq Roster
      /\ SignedBelow(signed', next') /\ next' \in Nat \ {0}
  BY <1>2, <1>3, SignIsGood
<1>5. /\ group' \in [Device -> View] /\ disk' \in [Device -> Stored]
      /\ chains' \subseteq Seq(Roster)
      /\ GroupsGood' /\ DisksGood' /\ ChainsGood'
  BY <1>2, <1>3, <1>4, CommitIsGood
<1>6. AdmissionsGood' /\ WelcomesGood' /\ SharesGood'
  BY <1>3, <1>4, UntouchedStaysGood DEF pairingVars
<1>7. TypeOK'
  BY <1>3, <1>4, <1>5 DEF Inv, TypeOK, pairingVars
<1> QED
  BY <1>4, <1>5, <1>6, <1>7 DEF Inv

(* RemoveDevice: the key it makes is the one its own roster introduces. *)
LEMMA RemoveDeviceKeepsInv ==
  ASSUME Inv, NEW d \in Device, NEW x, RemoveDevice(d, x)
  PROVE  Inv'
<1> DEFINE g == remove_member(group[d], x, next)
           r == RemovalOf(group[d], x, next)
<1>1. /\ GoodView(group[d], signed) /\ next \in Hash /\ SignedBelow(signed, next)
      /\ CanRemove(group[d], identity[d], x)
  BY DEF Inv, GroupsGood, RemoveDevice, Sign, InGroup
<1>2. GoodView(g, signed \cup {r}) /\ SignedBelow(signed \cup {r}, next + 1) /\ r \in Roster
  BY <1>1, RemoveIsGood
<1>3. Sign(r) /\ Commit(d, g) /\ UNCHANGED <<identity, redo, pairingVars, shares>>
  BY DEF RemoveDevice
<1> HIDE DEF g, r
<1>4. /\ signed \subseteq signed' /\ signed' = signed \cup {r} /\ signed' \subseteq Roster
      /\ SignedBelow(signed', next') /\ next' \in Nat \ {0}
  BY <1>2, <1>3, SignIsGood
<1>5. /\ group' \in [Device -> View] /\ disk' \in [Device -> Stored]
      /\ chains' \subseteq Seq(Roster)
      /\ GroupsGood' /\ DisksGood' /\ ChainsGood'
  BY <1>2, <1>3, <1>4, CommitIsGood
<1>6. AdmissionsGood' /\ WelcomesGood' /\ SharesGood'
  BY <1>3, <1>4, UntouchedStaysGood DEF pairingVars
<1>7. TypeOK'
  BY <1>3, <1>4, <1>5 DEF Inv, TypeOK, pairingVars
<1> QED
  BY <1>4, <1>5, <1>6, <1>7 DEF Inv

(* ReceiveRosters: whatever chain arrives. *)
LEMMA ReceiveRostersKeepsInv ==
  ASSUME Inv, NEW d \in Device, NEW chain \in chains, ReceiveRosters(d, chain)
  PROVE  Inv'
<1> DEFINE o == apply_chain(group[d], chain)
<1>1. /\ GoodView(group[d], signed) /\ GoodChain(chain, signed)
      /\ SignedBelow(signed, next)
  BY DEF Inv, GroupsGood, ChainsGood, ReceiveRosters, InGroup
<1>2. GoodView(o.group, signed) /\ o.reapply \in Seq(Change)
  BY <1>1, ApplyChainIsGood
<1>3. /\ redo' = [redo EXCEPT ![d] = o.reapply]
      /\ \/ Commit(d, o.group)
         \/ Keep(d, o.group) /\ UNCHANGED chains
         \/ group' = [group EXCEPT ![d] = o.group] /\ UNCHANGED <<disk, chains>>
      /\ NothingSigned
      /\ UNCHANGED <<identity, pairingVars, shares>>
  BY DEF ReceiveRosters
<1> HIDE DEF o
<1>4. /\ signed \subseteq signed' /\ signed' = signed /\ signed' \subseteq Roster
      /\ SignedBelow(signed', next') /\ next' \in Nat \ {0}
  BY <1>3, NothingSignedIsGood
<1>5. GoodView(o.group, signed')
  BY <1>2, <1>4
<1>6. /\ group' \in [Device -> View] /\ disk' \in [Device -> Stored]
      /\ chains' \subseteq Seq(Roster)
      /\ GroupsGood' /\ DisksGood' /\ ChainsGood'
  <2>1. CASE Commit(d, o.group)
    BY <1>4, <1>5, <2>1, CommitIsGood
  <2>3. CASE Keep(d, o.group) /\ UNCHANGED chains
    <3>1. /\ group' \in [Device -> View] /\ GroupsGood'
          /\ disk' \in [Device -> Stored] /\ DisksGood'
      BY <1>4, <1>5, <2>3, KeepIsGood
    <3>2. ChainsGood'
      BY <1>4, <2>3, UntouchedStaysGood
    <3> QED
      BY <2>3, <3>1, <3>2 DEF Inv, TypeOK
  <2>2. CASE group' = [group EXCEPT ![d] = o.group] /\ UNCHANGED <<disk, chains>>
    <3>1. group' \in [Device -> View] /\ GroupsGood'
      BY <1>4, <1>5, <2>2, InstallIsGood
    <3>2. DisksGood' /\ ChainsGood'
      BY <1>4, <2>2, UntouchedStaysGood
    <3> QED
      BY <2>2, <3>1, <3>2 DEF Inv, TypeOK
  <2> QED
    BY <1>3, <2>1, <2>2, <2>3
<1>7. AdmissionsGood' /\ WelcomesGood' /\ SharesGood'
  BY <1>3, <1>4, UntouchedStaysGood DEF pairingVars
<1>8. redo' \in [Device -> Seq(Change)]
  BY <1>2, <1>3 DEF Inv, TypeOK
<1>9. TypeOK'
  BY <1>3, <1>4, <1>6, <1>8 DEF Inv, TypeOK, pairingVars
<1> QED
  BY <1>4, <1>6, <1>7, <1>9 DEF Inv

(* One iteration of the redo loop, given the view and the list it leaves. *)
LEMMA RedoToKeepsInv ==
  ASSUME Inv, NEW d \in Device, NEW g, NEW rest \in Seq(Change),
         signed \subseteq signed', signed' \subseteq Roster,
         SignedBelow(signed', next'), next' \in Nat \ {0},
         GoodView(g, signed'), RedoTo(d, g, rest)
  PROVE  Inv'
<1>1. /\ redo' = [redo EXCEPT ![d] = rest]
      /\ \/ Commit(d, g)
         \/ group' = [group EXCEPT ![d] = g] /\ UNCHANGED <<disk, chains>>
      /\ UNCHANGED <<identity, pairingVars, shares>>
  BY DEF RedoTo
<1>2. /\ group' \in [Device -> View] /\ disk' \in [Device -> Stored]
      /\ chains' \subseteq Seq(Roster)
      /\ GroupsGood' /\ DisksGood' /\ ChainsGood'
  <2>1. CASE Commit(d, g)
    BY <2>1, CommitIsGood
  <2>2. CASE group' = [group EXCEPT ![d] = g] /\ UNCHANGED <<disk, chains>>
    <3>1. group' \in [Device -> View] /\ GroupsGood'
      BY <2>2, InstallIsGood
    <3>2. DisksGood' /\ ChainsGood'
      BY <2>2, UntouchedStaysGood
    <3> QED
      BY <2>2, <3>1, <3>2 DEF Inv, TypeOK
  <2> QED
    BY <1>1, <2>1, <2>2
<1>3. AdmissionsGood' /\ WelcomesGood' /\ SharesGood'
  BY <1>1, UntouchedStaysGood DEF pairingVars
<1>4. redo' \in [Device -> Seq(Change)]
  BY <1>1 DEF Inv, TypeOK
<1>5. TypeOK'
  BY <1>1, <1>2, <1>4 DEF Inv, TypeOK, pairingVars
<1> QED
  BY <1>2, <1>3, <1>5 DEF Inv

(* What is left of the list is a list of changes. *)
LEMMA RestIsTyped ==
  ASSUME NEW s \in Seq(Change), s # <<>>
  PROVE  /\ s[1] \in Change
         /\ Tail(s) \in Seq(Change)
         /\ \A x : Without(s, x) \in Seq(Change)
<1>1. s[1] \in Change /\ Tail(s) \in Seq(Change)
  OBVIOUS
<1>2. ASSUME NEW x PROVE Without(s, x) \in Seq(Change)
  <2> DEFINE c == [kind |-> s[1].kind, ids |-> s[1].ids \ {x}]
  <2>1. c \in Change
    BY <1>1 DEF Change
  <2>2. Without(s, x) = Tail(s) \/ Without(s, x) = <<c>> \o Tail(s)
    BY DEF Without
  <2> HIDE DEF c
  <2>3. <<c>> \o Tail(s) \in Seq(Change)
    BY <1>1, <2>1
  <2>4. CASE Without(s, x) = Tail(s)
    BY <1>1, <2>4
  <2>5. CASE Without(s, x) = <<c>> \o Tail(s)
    BY <2>3, <2>5
  <2> QED
    BY <2>2, <2>4, <2>5
<1> QED
  BY <1>1, <1>2

(* The redo loop: every way an iteration can go. *)
LEMMA RedoKeepsInv ==
  ASSUME Inv, NEW d \in Device, Redo(d)
  PROVE  Inv'
<1> DEFINE g == group[d]
           s == redo[d]
<1>1. s \in Seq(Change) /\ s # <<>>
  BY DEF Inv, TypeOK, Redo, Idle
<1>2. /\ Tail(s) \in Seq(Change) /\ <<>> \in Seq(Change)
      /\ \A x : Without(s, x) \in Seq(Change)
  BY <1>1, RestIsTyped
<1>3. SignedBelow(signed, next) /\ GoodView(g, signed)
  BY DEF Inv, GroupsGood, Redo, InGroup
<1>4. ASSUME NothingSigned, NEW rest \in Seq(Change), RedoTo(d, g, rest)
      PROVE  Inv'
  <2> HIDE DEF g
  <2>1. /\ signed \subseteq signed' /\ signed' = signed /\ signed' \subseteq Roster
        /\ SignedBelow(signed', next') /\ next' \in Nat \ {0}
    BY <1>4, NothingSignedIsGood
  <2>2. GoodView(g, signed')
    BY <1>3, <2>1
  <2> QED
    BY <1>4, <2>1, <2>2, RedoToKeepsInv
<1>5. ASSUME NEW r \in Roster, NEW h, Sign(r), SignedBelow(signed \cup {r}, next + 1),
             GoodView(h, signed \cup {r}), NEW rest \in Seq(Change), RedoTo(d, h, rest)
      PROVE  Inv'
  <2>1. /\ signed \subseteq signed' /\ signed' = signed \cup {r} /\ signed' \subseteq Roster
        /\ SignedBelow(signed', next') /\ next' \in Nat \ {0}
    BY <1>5, SignIsGood
  <2>2. GoodView(h, signed')
    BY <1>5, <2>1
  <2> QED
    BY <1>5, <2>1, <2>2, RedoToKeepsInv
<1>6. ASSUME NEW x \in s[1].ids, RedoAdded(d, x) PROVE Inv'
  <2>1. x \in Identity
    BY <1>1, RestIsTyped DEF Change
  <2>2. \/ RedoTo(d, g, Without(s, x)) /\ NothingSigned
        \/ RedoTo(d, g, <<>>) /\ NothingSigned
        \/ /\ CanAdd(g, identity[d], x)
           /\ RedoTo(d, add_member(g, x, next), Without(s, x))
           /\ Sign(AdditionOf(g, x, next))
    BY <1>6 DEF RedoAdded
  <2>3. CASE RedoTo(d, g, Without(s, x)) /\ NothingSigned
    BY <1>2, <1>4, <2>3
  <2>4. CASE RedoTo(d, g, <<>>) /\ NothingSigned
    BY <1>2, <1>4, <2>4
  <2>5. CASE /\ CanAdd(g, identity[d], x)
             /\ RedoTo(d, add_member(g, x, next), Without(s, x))
             /\ Sign(AdditionOf(g, x, next))
    <3> DEFINE r == AdditionOf(g, x, next)
               h == add_member(g, x, next)
    <3>1. next \in Hash
      BY <2>5 DEF Sign
    <3>2. /\ GoodView(h, signed \cup {r}) /\ SignedBelow(signed \cup {r}, next + 1)
          /\ r \in Roster
      BY <1>3, <2>1, <2>5, <3>1, AddIsGood
    <3> HIDE DEF r, h
    <3>3. RedoTo(d, h, Without(s, x)) /\ Sign(r)
      BY <2>5 DEF r, h
    <3> QED
      BY <1>2, <1>5, <3>2, <3>3
  <2> QED
    BY <2>2, <2>3, <2>4, <2>5
<1>7. ASSUME NEW x \in s[1].ids, RedoRemoved(d, x) PROVE Inv'
  <2>2. \/ RedoTo(d, g, Without(s, x)) /\ NothingSigned
        \/ RedoTo(d, g, <<>>) /\ NothingSigned
        \/ /\ CanRemove(g, identity[d], x)
           /\ RedoTo(d, remove_member(g, x, next), Without(s, x))
           /\ Sign(RemovalOf(g, x, next))
    BY <1>7 DEF RedoRemoved
  <2>3. CASE RedoTo(d, g, Without(s, x)) /\ NothingSigned
    BY <1>2, <1>4, <2>3
  <2>4. CASE RedoTo(d, g, <<>>) /\ NothingSigned
    BY <1>2, <1>4, <2>4
  <2>5. CASE /\ CanRemove(g, identity[d], x)
             /\ RedoTo(d, remove_member(g, x, next), Without(s, x))
             /\ Sign(RemovalOf(g, x, next))
    <3> DEFINE r == RemovalOf(g, x, next)
               h == remove_member(g, x, next)
    <3>1. next \in Hash
      BY <2>5 DEF Sign
    <3>2. /\ GoodView(h, signed \cup {r}) /\ SignedBelow(signed \cup {r}, next + 1)
          /\ r \in Roster
      BY <1>3, <2>5, <3>1, RemoveIsGood
    <3> HIDE DEF r, h
    <3>3. RedoTo(d, h, Without(s, x)) /\ Sign(r)
      BY <2>5 DEF r, h
    <3> QED
      BY <1>2, <1>5, <3>2, <3>3
  <2> QED
    BY <2>2, <2>3, <2>4, <2>5
<1>8. CASE s[1].ids = {}
  BY <1>2, <1>4, <1>8 DEF Redo
<1>9. CASE s[1].ids # {}
  <2>1. PICK x \in s[1].ids : RedoAdded(d, x) \/ RedoRemoved(d, x)
    BY <1>9 DEF Redo
  <2> QED
    BY <1>6, <1>7, <2>1
<1> QED
  BY <1>8, <1>9

(* ShareKey: only a member named by the current roster gets the key. *)
LEMMA ShareKeyKeepsInv ==
  ASSUME Inv, NEW d \in Device, NEW peer \in Identity, ShareKey(d, peer)
  PROVE  Inv'
<1> DEFINE g == group[d]
           share == [to |-> peer, key |-> KeyOf(current(g))]
<1>1. SignedBelow(signed, next) /\ GoodView(g, signed) /\ peer \in current(g).members
  BY DEF Inv, GroupsGood, ShareKey, Member, InGroup, is_peer
<1>2. current(g) \in signed /\ current(g) \in Roster
  BY <1>1, CurrentIsGood
<1>3. EntitledIn(peer, KeyOf(current(g)), signed)
  BY <1>1, <1>2 DEF EntitledIn
<1>4. share \in Share
  BY <1>2 DEF Share, KeyOf, GroupKey, Roster
<1>5. share.to = peer /\ share.key = KeyOf(current(g))
  OBVIOUS
<1>6. /\ shares' = shares \cup {share}
      /\ UNCHANGED <<identity, group, disk, redo, pairingVars, chains, signed, next>>
  BY DEF ShareKey
<1> HIDE DEF share, g
<1>7. SharesGood'
  BY <1>3, <1>5, <1>6 DEF Inv, SharesGood
<1>8. GroupsGood' /\ DisksGood' /\ AdmissionsGood' /\ WelcomesGood' /\ ChainsGood'
  BY <1>6, UntouchedStaysGood DEF pairingVars
<1>9. TypeOK'
  BY <1>4, <1>6 DEF Inv, TypeOK, pairingVars
<1> QED
  BY <1>6, <1>7, <1>8, <1>9 DEF Inv

(* ReceiveKey: the share was meant for the identity that accepts it. *)
LEMMA ReceiveKeyKeepsInv ==
  ASSUME Inv, NEW d \in Device, NEW share \in shares, ReceiveKey(d, share)
  PROVE  Inv'
<1> DEFINE g == group[d]
           h == accept_key(g, share.key)
<1>1. /\ GoodView(g, signed) /\ CanAcceptKey(g, share.key)
      /\ EntitledIn(g.me, share.key, signed)
  BY DEF Inv, GroupsGood, SharesGood, ReceiveKey, InGroup
<1>2. share.key \in GroupKey 
  BY DEF Inv, TypeOK, Share
<1>3. GoodView(h, signed)
  BY <1>1, <1>2, AcceptKeyIsGood
<1>4. /\ Keep(d, h)
      /\ UNCHANGED <<identity, redo, pairingVars, chains, shares, signed, next>>
  BY DEF ReceiveKey
<1> HIDE DEF g, h
<1>5. signed \subseteq signed' /\ GoodView(h, signed')
  BY <1>3, <1>4
<1>6. /\ group' \in [Device -> View] /\ GroupsGood'
      /\ disk' \in [Device -> Stored] /\ DisksGood'
  BY <1>4, <1>5, KeepIsGood
<1>8. AdmissionsGood' /\ WelcomesGood' /\ ChainsGood' /\ SharesGood'
  BY <1>4, <1>5, UntouchedStaysGood DEF pairingVars
<1>9. TypeOK'
  BY <1>4, <1>6 DEF Inv, TypeOK, pairingVars
<1> QED
  BY <1>4, <1>6, <1>8, <1>9 DEF Inv

-----------------------------------------------------------------------------
(* StartJoin: nothing but the running join changes. *)
LEMMA StartJoinKeepsInv ==
  ASSUME Inv, NEW d \in Device, StartJoin(d)
  PROVE  Inv'
<1>1. /\ joining' = [joining EXCEPT ![d] = {identity[d]}]
      /\ UNCHANGED <<identity, group, disk, redo, welcome, admitting,
                     chains, shares, signed, next>>
  BY DEF StartJoin
<1>2. {identity[d]} \in SUBSET Identity
  BY DEF Inv, TypeOK
<1>3. TypeOK'
  BY <1>1, <1>2 DEF Inv, TypeOK
<1>4. /\ GroupsGood' /\ DisksGood' /\ AdmissionsGood' /\ WelcomesGood'
      /\ ChainsGood' /\ SharesGood'
  BY <1>1, UntouchedStaysGood
<1> QED
  BY <1>1, <1>3, <1>4 DEF Inv

(* Approve: the inviter's copy is good, and so is the chain in the welcome. *)
LEMMA ApproveKeepsInv ==
  ASSUME Inv, NEW i \in Device, NEW d \in Device, NEW x, Approve(i, d, x)
  PROVE  Inv'
<1> DEFINE r == AdditionOf(group[i], x, next)
           h == add_member(group[i], x, next)
           a == [request |-> x, roster |-> r, group |-> h]
           w == [rosters |-> h.rosters, key |-> KeyOf(current(h))]
<1>1. /\ x \in Identity /\ next \in Hash /\ SignedBelow(signed, next)
      /\ GoodView(group[i], signed) /\ CanAdd(group[i], identity[i], x)
  BY DEF Approve, Inv, TypeOK, GroupsGood, Member, InGroup, Sign
<1>2. /\ GoodView(h, signed \cup {r}) /\ SignedBelow(signed \cup {r}, next + 1)
      /\ r \in Roster /\ current(h) = r
  BY <1>1, AddIsGood
<1>3. /\ Sign(r)
      /\ admitting' = [admitting EXCEPT ![i] = a]
      /\ welcome' = [welcome EXCEPT ![d] = w]
      /\ UNCHANGED <<identity, group, disk, redo, joining, chains, shares>>
  BY DEF Approve
<1> HIDE DEF r, h
<1>4. /\ signed \subseteq signed' /\ signed' = signed \cup {r} /\ signed' \subseteq Roster
      /\ SignedBelow(signed', next') /\ next' \in Nat \ {0}
  BY <1>2, <1>3, SignIsGood
<1>5. a \in Admission /\ GoodView(a.group, signed') /\ a.roster \in signed'
  BY <1>1, <1>2, <1>4 DEF Admission, GoodView
<1>6. w \in Welcome /\ GoodChain(w.rosters, signed')
  <2>1. h.rosters \in Seq(Roster) /\ GoodChain(h.rosters, signed')
    BY <1>2, <1>4 DEF GoodView, GoodChain
  <2>2. KeyOf(current(h)) \in GroupKey
    BY <1>2 DEF KeyOf, GroupKey, Roster
  <2> QED
    BY <2>1, <2>2 DEF Welcome
<1> HIDE DEF a, w
<1>7. admitting' \in [Device -> Admission \cup {None}] /\ AdmissionsGood'
  <2>1. \A e \in Device : admitting'[e] = IF e = i THEN a ELSE admitting[e]
    BY <1>3 DEF Inv, TypeOK
  <2>2. \A e \in Device : admitting[e] # None =>
          GoodView(admitting[e].group, signed') /\ admitting[e].roster \in signed'
    BY <1>4, GoodGrows DEF Inv, AdmissionsGood
  <2> QED
    BY <1>3, <1>5, <2>1, <2>2 DEF Inv, TypeOK, AdmissionsGood
<1>8. welcome' \in [Device -> Welcome \cup {None}] /\ WelcomesGood'
  <2>1. \A e \in Device : welcome'[e] = IF e = d THEN w ELSE welcome[e]
    BY <1>3 DEF Inv, TypeOK
  <2>2. \A e \in Device : welcome[e] # None => GoodChain(welcome[e].rosters, signed')
    BY <1>4, GoodGrows DEF Inv, WelcomesGood
  <2> QED
    BY <1>3, <1>6, <2>1, <2>2 DEF Inv, TypeOK, WelcomesGood
<1>9. GroupsGood' /\ DisksGood' /\ ChainsGood' /\ SharesGood'
  BY <1>3, <1>4, UntouchedStaysGood
<1>10. TypeOK'
  BY <1>3, <1>4, <1>7, <1>8 DEF Inv, TypeOK
<1> QED
  BY <1>4, <1>7, <1>8, <1>9, <1>10 DEF Inv

(* The end of an admission or of a join leaves good ones behind. *)
LEMMA ClearedIsGood ==
  ASSUME Inv, signed \subseteq signed', NEW d \in Device
  PROVE  /\ admitting' = [admitting EXCEPT ![d] = None]
             => admitting' \in [Device -> Admission \cup {None}] /\ AdmissionsGood'
         /\ welcome' = [welcome EXCEPT ![d] = None]
             => welcome' \in [Device -> Welcome \cup {None}] /\ WelcomesGood'
         /\ joining' = [joining EXCEPT ![d] = {}]
             => joining' \in [Device -> SUBSET Identity]
<1>1. ASSUME admitting' = [admitting EXCEPT ![d] = None]
      PROVE  admitting' \in [Device -> Admission \cup {None}] /\ AdmissionsGood'
  <2>1. \A e \in Device : admitting'[e] = IF e = d THEN None ELSE admitting[e]
    BY <1>1 DEF Inv, TypeOK
  <2>2. \A e \in Device : admitting[e] # None =>
          GoodView(admitting[e].group, signed') /\ admitting[e].roster \in signed'
    BY GoodGrows DEF Inv, AdmissionsGood
  <2> QED
    BY <1>1, <2>1, <2>2 DEF Inv, TypeOK, AdmissionsGood
<1>2. ASSUME welcome' = [welcome EXCEPT ![d] = None]
      PROVE  welcome' \in [Device -> Welcome \cup {None}] /\ WelcomesGood'
  <2>1. \A e \in Device : welcome'[e] = IF e = d THEN None ELSE welcome[e]
    BY <1>2 DEF Inv, TypeOK
  <2>2. \A e \in Device : welcome[e] # None => GoodChain(welcome[e].rosters, signed')
    BY GoodGrows DEF Inv, WelcomesGood
  <2> QED
    BY <1>2, <2>1, <2>2 DEF Inv, TypeOK, WelcomesGood
<1>3. ASSUME joining' = [joining EXCEPT ![d] = {}]
      PROVE  joining' \in [Device -> SUBSET Identity]
  BY <1>3 DEF Inv, TypeOK
<1> QED
  BY <1>1, <1>2, <1>3

(* CommitAdmission: the copy, or its roster applied to what is held now. *)
LEMMA CommitAdmissionKeepsInv ==
  ASSUME Inv, NEW i \in Device, CommitAdmission(i)
  PROVE  Inv'
<1> DEFINE a == admitting[i]
           chain == <<a.roster>>
           o == apply_chain(group[i], chain)
<1>1. /\ a \in Admission /\ GoodView(a.group, signed) /\ a.roster \in signed
      /\ SignedBelow(signed, next)
  BY DEF CommitAdmission, Inv, TypeOK, AdmissionsGood
<1>2. GoodChain(chain, signed)
  <2> DEFINE r == a.roster
  <2>1. r \in Roster
    BY <1>1 DEF SignedBelow
  <2>2. r.epoch = r.epoch + 1 - 1
    BY <2>1 DEF Roster
  <2> HIDE DEF r
  <2>3. <<r>> \in Seq(Roster) /\ Len(<<r>>) = 1 /\ <<r>>[1] = r /\ <<r>> # <<>>
    BY <2>1
  <2>4. GoodChain(<<r>>, signed)
    BY <1>1, <2>2, <2>3 DEF GoodChain, Consecutive, r
  <2> QED
    BY <2>4 DEF r
<1>3. group[i] # NoGroup => GoodView(o.group, signed)
  <2> HIDE DEF chain
  <2> QED
    BY <1>1, <1>2, ApplyChainIsGood DEF Inv, GroupsGood
<1>4. /\ \/ UNCHANGED <<group, disk, chains>>
         \/ Commit(i, a.group)
         \/ group[i] # NoGroup /\ Commit(i, o.group)
      /\ admitting' = [admitting EXCEPT ![i] = None]
      /\ NothingSigned
      /\ UNCHANGED <<identity, redo, joining, welcome, shares>>
  BY DEF CommitAdmission, InGroup
<1> HIDE DEF a, chain, o
<1>5. /\ signed \subseteq signed' /\ signed' = signed /\ signed' \subseteq Roster
      /\ SignedBelow(signed', next') /\ next' \in Nat \ {0}
  BY <1>4, NothingSignedIsGood
<1>6. /\ group' \in [Device -> View] /\ disk' \in [Device -> Stored]
      /\ chains' \subseteq Seq(Roster)
      /\ GroupsGood' /\ DisksGood' /\ ChainsGood'
  <2>1. CASE UNCHANGED <<group, disk, chains>>
    BY <1>5, <2>1, UntouchedStaysGood DEF Inv, TypeOK
  <2>2. CASE Commit(i, a.group)
    <3>1. GoodView(a.group, signed')
      BY <1>1, <1>5
    <3> QED
      BY <1>5, <2>2, <3>1, CommitIsGood
  <2>3. CASE group[i] # NoGroup /\ Commit(i, o.group)
    <3>1. GoodView(o.group, signed')
      BY <1>3, <1>5, <2>3
    <3> QED
      BY <1>5, <2>3, <3>1, CommitIsGood
  <2> QED
    BY <1>4, <2>1, <2>2, <2>3
<1>7. admitting' \in [Device -> Admission \cup {None}] /\ AdmissionsGood'
  BY <1>4, <1>5, ClearedIsGood
<1>8. WelcomesGood' /\ SharesGood'
  BY <1>4, <1>5, UntouchedStaysGood
<1>9. TypeOK'
  BY <1>4, <1>5, <1>6, <1>7 DEF Inv, TypeOK
<1> QED
  BY <1>5, <1>6, <1>7, <1>8, <1>9 DEF Inv

(* AdmissionFails: the copy is dropped. *)
LEMMA AdmissionFailsKeepsInv ==
  ASSUME Inv, NEW i \in Device, AdmissionFails(i)
  PROVE  Inv'
<1>1. /\ admitting' = [admitting EXCEPT ![i] = None]
      /\ UNCHANGED <<identity, group, disk, redo, joining, welcome,
                     chains, shares, signed, next>>
  BY DEF AdmissionFails
<1>2. admitting' \in [Device -> Admission \cup {None}] /\ AdmissionsGood'
  BY <1>1, ClearedIsGood
<1>3. GroupsGood' /\ DisksGood' /\ WelcomesGood' /\ ChainsGood' /\ SharesGood'
  BY <1>1, UntouchedStaysGood
<1>4. TypeOK'
  BY <1>1, <1>2 DEF Inv, TypeOK
<1> QED
  BY <1>1, <1>2, <1>3, <1>4 DEF Inv

(* FinishJoin: what the welcome holds was checked. *)
LEMMA FinishJoinKeepsInv ==
  ASSUME Inv, NEW d \in Device, NEW x, FinishJoin(d, x)
  PROVE  Inv'
<1> DEFINE w == welcome[d]
           g == joined(x, w.rosters, w.key)
<1>1. /\ x \in Identity /\ w \in Welcome /\ GoodChain(w.rosters, signed)
      /\ CanJoin(x, w.rosters, w.key)
  BY DEF FinishJoin, Inv, TypeOK, WelcomesGood
<1>2. w.key \in GroupKey
  BY <1>1 DEF Welcome
<1>3. /\ Commit(d, g)
      /\ joining' = [joining EXCEPT ![d] = {}]
      /\ welcome' = [welcome EXCEPT ![d] = None]
      /\ NothingSigned
      /\ UNCHANGED <<identity, redo, admitting, shares>>
  BY DEF FinishJoin
<1>4. GoodView(g, signed)
  <2> HIDE DEF w
  <2> QED
    BY <1>1, <1>2, JoinIsGood
<1> HIDE DEF g, w
<1>5. /\ signed \subseteq signed' /\ signed' = signed /\ signed' \subseteq Roster
      /\ SignedBelow(signed', next') /\ next' \in Nat \ {0}
  BY <1>3, NothingSignedIsGood
<1>6. /\ group' \in [Device -> View] /\ disk' \in [Device -> Stored]
      /\ chains' \subseteq Seq(Roster)
      /\ GroupsGood' /\ DisksGood' /\ ChainsGood'
  <2>1. GoodView(g, signed')
    BY <1>4, <1>5
  <2> QED
    BY <1>3, <1>5, <2>1, CommitIsGood
<1>7. /\ welcome' \in [Device -> Welcome \cup {None}] /\ WelcomesGood'
      /\ joining' \in [Device -> SUBSET Identity]
  BY <1>3, <1>5, ClearedIsGood
<1>8. AdmissionsGood' /\ SharesGood'
  BY <1>3, <1>5, UntouchedStaysGood
<1>9. TypeOK'
  BY <1>3, <1>5, <1>6, <1>7 DEF Inv, TypeOK
<1> QED
  BY <1>5, <1>6, <1>7, <1>8, <1>9 DEF Inv

(* AbandonJoin: the welcome is dropped. *)
LEMMA AbandonJoinKeepsInv ==
  ASSUME Inv, NEW d \in Device, AbandonJoin(d)
  PROVE  Inv'
<1>1. /\ joining' = [joining EXCEPT ![d] = {}]
      /\ welcome' = [welcome EXCEPT ![d] = None]
      /\ UNCHANGED <<identity, group, disk, redo, admitting,
                     chains, shares, signed, next>>
  BY DEF AbandonJoin
<1>2. /\ welcome' \in [Device -> Welcome \cup {None}] /\ WelcomesGood'
      /\ joining' \in [Device -> SUBSET Identity]
  BY <1>1, ClearedIsGood
<1>3. GroupsGood' /\ DisksGood' /\ AdmissionsGood' /\ ChainsGood' /\ SharesGood'
  BY <1>1, UntouchedStaysGood
<1>4. TypeOK'
  BY <1>1, <1>2 DEF Inv, TypeOK
<1> QED
  BY <1>1, <1>2, <1>3, <1>4 DEF Inv

(* No group, in memory, is good. *)
LEMMA ForgottenIsGood ==
  ASSUME Inv, signed \subseteq signed', NEW d \in Device, NEW g \in View,
         g = NoGroup \/ GoodView(g, signed'), group' = [group EXCEPT ![d] = g]
  PROVE  group' \in [Device -> View] /\ GroupsGood'
<1>1. CASE g = NoGroup
  <2>1. \A e \in Device : group'[e] = IF e = d THEN NoGroup ELSE group[e]
    BY <1>1 DEF Inv, TypeOK
  <2>2. \A e \in Device : group[e] # NoGroup => GoodView(group[e], signed')
    BY GoodGrows DEF Inv, GroupsGood
  <2> QED
    BY <1>1, <2>1, <2>2 DEF Inv, TypeOK, GroupsGood
<1>2. CASE GoodView(g, signed')
  BY <1>2, InstallIsGood
<1> QED
  BY <1>1, <1>2

(* Leave: a new identity and no group, in memory and on disk. *)
LEMMA LeaveKeepsInv ==
  ASSUME Inv, NEW d \in Device, Leave(d)
  PROVE  Inv'
<1> DEFINE id == <<d, identity[d][2] + 1>>
<1>1. id \in Identity
  BY DEF Leave, Identity
<1>2. /\ identity' = [identity EXCEPT ![d] = id]
      /\ group' = [group EXCEPT ![d] = NoGroup]
      /\ Save(d, id, NoGroup)
      /\ UNCHANGED <<redo, pairingVars, chains, shares, signed, next>>
  BY DEF Leave
<1> HIDE DEF id
<1>3. signed \subseteq signed' /\ NoGroup \in View
  BY <1>2 DEF View
<1>4. group' \in [Device -> View] /\ GroupsGood'
  BY <1>2, <1>3, ForgottenIsGood
<1>5. disk' \in [Device -> Stored] /\ DisksGood'
  BY <1>1, <1>2, <1>3, SaveIsGood
<1>6. AdmissionsGood' /\ WelcomesGood' /\ ChainsGood' /\ SharesGood'
  BY <1>2, <1>3, UntouchedStaysGood DEF pairingVars
<1>7. TypeOK'
  BY <1>1, <1>2, <1>4, <1>5 DEF Inv, TypeOK, pairingVars
<1> QED
  BY <1>2, <1>4, <1>5, <1>6, <1>7 DEF Inv

(* Restart: memory is what the disk held. *)
LEMMA RestartKeepsInv ==
  ASSUME Inv, NEW d \in Device, Restart(d)
  PROVE  Inv'
<1> DEFINE g == disk[d].group
           id == disk[d].identity
<1>1. g \in View /\ id \in Identity /\ (g = NoGroup \/ GoodView(g, signed))
  BY DEF Inv, TypeOK, Stored, DisksGood
<1>2. /\ identity' = [identity EXCEPT ![d] = id]
      /\ group' = [group EXCEPT ![d] = g]
      /\ redo' = [redo EXCEPT ![d] = <<>>]
      /\ joining' = [joining EXCEPT ![d] = {}]
      /\ welcome' = [welcome EXCEPT ![d] = None]
      /\ admitting' = [admitting EXCEPT ![d] = None]
      /\ UNCHANGED <<disk, chains, shares, signed, next>>
  BY DEF Restart
<1> HIDE DEF g, id
<1>3. signed \subseteq signed' /\ (g = NoGroup \/ GoodView(g, signed'))
  BY <1>1, <1>2
<1>4. group' \in [Device -> View] /\ GroupsGood'
  BY <1>1, <1>2, <1>3, ForgottenIsGood
<1>5. /\ admitting' \in [Device -> Admission \cup {None}] /\ AdmissionsGood'
      /\ welcome' \in [Device -> Welcome \cup {None}] /\ WelcomesGood'
      /\ joining' \in [Device -> SUBSET Identity]
  BY <1>2, <1>3, ClearedIsGood
<1>6. DisksGood' /\ ChainsGood' /\ SharesGood'
  BY <1>2, <1>3, UntouchedStaysGood
<1>7. redo' \in [Device -> Seq(Change)]
  <2>1. <<>> \in Seq(Change)
    OBVIOUS
  <2> QED
    BY <1>2, <2>1 DEF Inv, TypeOK
<1>8. TypeOK'
  BY <1>1, <1>2, <1>4, <1>5, <1>7 DEF Inv, TypeOK
<1> QED
  BY <1>2, <1>4, <1>5, <1>6, <1>8 DEF Inv

-----------------------------------------------------------------------------
(* Every step keeps the invariant. *)
LEMMA NextKeepsInv == Inv /\ [Next]_vars => Inv'
<1> SUFFICES ASSUME Inv, [Next]_vars PROVE Inv'
  OBVIOUS
<1>1. ASSUME NEW d \in Device, DeviceNext(d) PROVE Inv'
  <2>1. CASE Create(d)
    BY <2>1, CreateKeepsInv
  <2>2. CASE \E x \in Identity : RemoveDevice(d, x)
    BY <2>2, RemoveDeviceKeepsInv
  <2>3. CASE \E chain \in chains : ReceiveRosters(d, chain)
    BY <2>3, ReceiveRostersKeepsInv
  <2>4. CASE Redo(d)
    BY <2>4, RedoKeepsInv
  <2>5. CASE \E peer \in Identity : ShareKey(d, peer)
    BY <2>5, ShareKeyKeepsInv
  <2>6. CASE \E share \in shares : ReceiveKey(d, share)
    BY <2>6, ReceiveKeyKeepsInv
  <2>7. CASE StartJoin(d)
    BY <2>7, StartJoinKeepsInv
  <2>8. CASE \E j \in Device : \E x \in joining[j] : Approve(d, j, x)
    BY <2>8, ApproveKeepsInv
  <2>9. CASE CommitAdmission(d)
    BY <2>9, CommitAdmissionKeepsInv
  <2>10. CASE AdmissionFails(d)
    BY <2>10, AdmissionFailsKeepsInv
  <2>11. CASE \E x \in joining[d] : FinishJoin(d, x)
    BY <2>11, FinishJoinKeepsInv
  <2>12. CASE AbandonJoin(d)
    BY <2>12, AbandonJoinKeepsInv
  <2>13. CASE Leave(d)
    BY <2>13, LeaveKeepsInv
  <2>14. CASE Restart(d)
    BY <2>14, RestartKeepsInv
  <2> QED
    BY <1>1, <2>1, <2>2, <2>3, <2>4, <2>5, <2>6, <2>7, <2>8, <2>9, <2>10,
       <2>11, <2>12, <2>13, <2>14 DEF DeviceNext
<1>2. CASE UNCHANGED vars
  <2>1. UNCHANGED <<identity, group, disk, redo, joining, welcome, admitting,
                    chains, shares, signed, next>>
    BY <1>2 DEF vars
  <2>2. /\ GroupsGood' /\ DisksGood' /\ AdmissionsGood' /\ WelcomesGood'
        /\ ChainsGood' /\ SharesGood'
    BY <2>1, UntouchedStaysGood
  <2>3. TypeOK'
    BY <2>1 DEF Inv, TypeOK
  <2> QED
    BY <2>1, <2>2, <2>3 DEF Inv
<1> QED
  BY <1>1, <1>2 DEF Next

(* The invariant holds in every reachable state. *)
THEOREM AlwaysGood == Spec => []Inv
BY InitGood, NextKeepsInv, PTL DEF Spec

(* Every reachable state is well typed. *)
THEOREM AlwaysTyped == Spec => []TypeOK
<1>1. Inv => TypeOK
  BY DEF Inv
<1> QED
  BY <1>1, AlwaysGood, PTL

(* The state file never holds a group that GroupState::validate refuses,   *)
(* whatever was lost, late or interrupted, and whether saves fail or not.  *)
THEOREM StateFileValidates == Spec => []SavedGroupValidates
<1>1. Inv => SavedGroupValidates
  BY DEF Inv, DisksGood, SavedGroupValidates, GoodView
<1> QED
  BY <1>1, AlwaysGood, PTL

(* A device holds, and is sent, only keys that a roster listing it         *)
(* introduced or kept (key_for_peer, accept_key, apply_chain).             *)
THEOREM KeysStayInside == Spec => []KeysOnlyForMembers
<1>1. Inv => KeysOnlyForMembers
  BY DEF Inv, GroupsGood, SharesGood, KeysOnlyForMembers, EntitledTo, EntitledIn,
         GoodView, KeysMeantFor, InGroup
<1> QED
  BY <1>1, AlwaysGood, PTL

-----------------------------------------------------------------------------
(* Two devices that have heard each other.  Where the rosters that one of  *)
(* them has to offer begin, where they fork, and that both sides find the  *)
(* same parent and the same two branches.                                  *)
LEMMA LeastOf ==
  ASSUME NEW T, T \subseteq Nat, T # {}
  PROVE  \E m \in T : \A k \in T : m <= k
<1> DEFINE L == OpToRel(<, Nat)
<1>1. \A a, b \in Nat : <<a, b>> \in L <=> a < b
  BY DEF OpToRel
<1>2. IsWellFoundedOn(L, Nat)
  BY NatLessThanWellFounded
<1> HIDE DEF L
<1>3. PICK m \in T : \A k \in T : ~(<<k, m>> \in L)
  BY <1>2, WFMin
<1>4. ASSUME NEW k \in T
      PROVE  m <= k
  <2>1. m \in Nat /\ k \in Nat
    BY <1>3
  <2>2. ~(k < m)
    BY <1>1, <1>3, <2>1
  <2> QED
    BY <2>1, <2>2
<1> QED
  BY <1>3, <1>4

(* Skip passes over the rosters that are held, and stops at the first one  *)
(* that is not.                                                            *)
LEMMA SkipIs ==
  ASSUME NEW g, NEW chain \in Seq(Roster)
  PROVE  /\ Skip(g, chain) \in 0..Len(chain)
         /\ \A j \in 1..Skip(g, chain) : AlreadyHeld(g, chain[j])
         /\ Skip(g, chain) < Len(chain) => ~AlreadyHeld(g, chain[Skip(g, chain) + 1])
<1>n. PICK n \in Nat : n = Len(chain)
  OBVIOUS
<1> DEFINE Held(j) == AlreadyHeld(g, chain[j])
           D == {i \in 1..n : \A j \in 1..i : Held(j)}
           T == {m \in 1..(n + 1) : m = n + 1 \/ ~Held(m)}
<1> HIDE DEF Held
<1>1. T \subseteq Nat /\ n + 1 \in T
  BY <1>n
<1>2. PICK m \in T : \A k \in T : m <= k
  BY <1>1, LeastOf
<1>3. m \in 1..(n + 1) /\ (m = n + 1 \/ ~Held(m))
  BY <1>2
<1>4. \A j \in 1..(m - 1) : Held(j)
  <2>1. SUFFICES ASSUME NEW j \in 1..(m - 1), ~Held(j)
                 PROVE  FALSE
    OBVIOUS
  <2>2. j \in 1..(n + 1) /\ j < m
    BY <1>n, <1>3
  <2>3. j \in T
    BY <2>1, <2>2
  <2> QED
    BY <1>2, <1>3, <2>2, <2>3
<1>5. D = 1..(m - 1)
  <2>1. ASSUME NEW i \in D
        PROVE  i \in 1..(m - 1)
    <3>1. i \in 1..n /\ \A j \in 1..i : Held(j)
      OBVIOUS
    <3>2. ~(m \in 1..i)
      BY <1>n, <1>3, <3>1
    <3> QED
      BY <1>n, <1>3, <3>1, <3>2
  <2>2. ASSUME NEW i \in 1..(m - 1)
        PROVE  i \in D
    <3>1. i \in 1..n
      BY <1>n, <1>3
    <3>2. \A j \in 1..i : j \in 1..(m - 1)
      BY <1>3
    <3> QED
      BY <1>4, <3>1, <3>2
  <2> QED
    BY <2>1, <2>2
<1>6. Skip(g, chain) = m - 1
  <2>1. Skip(g, chain) = Cardinality(D)
    BY <1>n DEF Skip, Held
  <2>k. PICK k \in Nat : k = m - 1
    BY <1>3
  <2>2. Cardinality(1..k) = IF 1 > k THEN 0 ELSE k - 1 + 1
    BY FS_Interval
  <2>3. Cardinality(1..k) = k
    BY <2>2
  <2> QED
    BY <1>5, <2>1, <2>3, <2>k
<1> QED
  BY <1>n, <1>3, <1>4, <1>6 DEF Held

(* All rosters of a view are of one group.                                 *)
LEMMA OneGroup ==
  ASSUME NEW S, NEW g, GoodView(g, S)
  PROVE  current(g).group = g.rosters[1].group
<1> DEFINE r == g.rosters
           T == {i \in 1..Len(r) : r[i].group # r[1].group}
<1>1. r \in Seq(Roster) /\ r # <<>> /\ Len(r) \in Nat \ {0}
  BY DEF GoodView, GoodChain
<1>2. \A i \in 1..(Len(r) - 1) : r[i + 1].group = r[i].group
  BY DEF GoodView, validate, Linked, check_successor
<1> HIDE DEF r
<1>3. T = {}
  <2>1. SUFFICES ASSUME T # {}
                 PROVE  FALSE
    OBVIOUS
  <2>2. T \subseteq Nat
    BY <1>1
  <2>3. PICK m \in T : \A k \in T : m <= k
    <3> HIDE DEF T
    <3> QED
      BY <2>1, <2>2, LeastOf
  <2>4. m \in 1..Len(r) /\ r[m].group # r[1].group
    BY <2>3
  <2>5. m # 1
    BY <2>4
  <2>6. m - 1 \in 1..(Len(r) - 1) /\ m - 1 \in 1..Len(r) /\ (m - 1) + 1 = m
    BY <1>1, <2>4, <2>5
  <2>7. r[m].group = r[m - 1].group
    BY <1>2, <2>6
  <2>8. m - 1 \in T
    BY <2>4, <2>6, <2>7
  <2> QED
    BY <1>1, <2>3, <2>4, <2>8
<1>4. Len(r) \in 1..Len(r)
  BY <1>1
<1> QED
  BY <1>3, <1>4 DEF current, r

(* Epochs and places of the rosters of a view.                             *)
LEMMA ViewIs ==
  ASSUME NEW S, NEW g, GoodView(g, S)
  PROVE  /\ g.rosters \in Seq(Roster) /\ Len(g.rosters) \in Nat \ {0}
         /\ g.rosters[1].epoch \in Nat
         /\ \A i \in 1..Len(g.rosters) : /\ g.rosters[i] \in Roster /\ g.rosters[i] \in S
                                         /\ g.rosters[i].epoch = g.rosters[1].epoch + i - 1
         /\ current(g) = g.rosters[Len(g.rosters)] /\ Linked(g.rosters)
         /\ Len(g.rosters) <= KEPT_ROSTERS
<1>1. g.rosters \in Seq(Roster) /\ g.rosters # <<>>
  BY DEF GoodView, GoodChain
<1>2. Len(g.rosters) \in Nat \ {0} /\ 1 \in 1..Len(g.rosters)
  BY <1>1
<1>3. \A i \in 1..Len(g.rosters) : g.rosters[i] \in Roster
  BY <1>1
<1>4. g.rosters[1].epoch \in Nat
  BY <1>2, <1>3 DEF Roster
<1> QED
  BY <1>1, <1>2, <1>3, <1>4 DEF GoodView, GoodChain, Consecutive, validate, current

(* The view g begins with epoch e and keeps m rosters.                     *)
Spans(g, e, m) == e \in Nat /\ m \in Nat \ {0} /\ e = g.rosters[1].epoch /\ m = Len(g.rosters)

(* The place of an epoch in another view.                                  *)
LEMMA PlaceOf ==
  ASSUME NEW e \in Nat, NEW f \in Nat, NEW j \in Nat
  PROVE  (f + j - 1) - e + 1 = f + j - e /\ (f + (j + 1) - 1) - e = f + j - e
OBVIOUS

(* A roster of the other view is held here when it is older than all that  *)
(* is kept, or the one kept at its epoch.                                  *)
LEMMA HeldIs ==
  ASSUME NEW S, NEW g, NEW h, GoodView(g, S), GoodView(h, S),
         NEW e \in Nat, NEW f \in Nat, NEW m \in Nat, NEW n \in Nat, NEW j \in Nat,
         Spans(g, e, m), Spans(h, f, n), j \in 1..n
  PROVE  AlreadyHeld(g, h.rosters[j])
           <=> \/ f + j - e < 1
               \/ f + j - e <= m /\ g.rosters[f + j - e].hash = h.rosters[j].hash
<1>1. h.rosters[j].epoch = f + j - 1 /\ g.rosters[1].epoch = e /\ Len(g.rosters) = m
  BY ViewIs DEF Spans
<1>2. (f + j - 1) - e + 1 = f + j - e
  OBVIOUS
<1>3. h.rosters[j].epoch - g.rosters[1].epoch + 1 = f + j - e
  BY <1>1, <1>2
<1> QED
  BY <1>1, <1>3 DEF AlreadyHeld

(* What the other view has to offer begins after the rosters that are      *)
(* skipped, and that is where the two fork.                                *)
Skips(g, h, k) == k = Skip(g, h.rosters)

LEMMA IncomingIs ==
  ASSUME NEW S, NEW g, NEW h, GoodView(g, S), GoodView(h, S), NEW k, Skips(g, h, k)
  PROVE  /\ k \in 0..Len(h.rosters)
         /\ Incoming(g, h.rosters) = SubSeq(h.rosters, k + 1, Len(h.rosters))
         /\ Incoming(g, h.rosters) \in Seq(Roster)
         /\ Incoming(g, h.rosters) = <<>> <=> k = Len(h.rosters)
         /\ k < Len(h.rosters) =>
              /\ Incoming(g, h.rosters)[1] = h.rosters[k + 1]
              /\ ForkPoint(g, Incoming(g, h.rosters)) = h.rosters[1].epoch + k - g.rosters[1].epoch
<1>1. /\ h.rosters \in Seq(Roster) /\ Len(h.rosters) \in Nat \ {0} /\ h.rosters[1].epoch \in Nat
      /\ g.rosters[1].epoch \in Nat
  BY ViewIs
<1>2. k \in 0..Len(h.rosters)
  BY <1>1, SkipIs DEF Skips
<1>a. PICK a : a = Incoming(g, h.rosters)
  OBVIOUS
<1>3. a = SubSeq(h.rosters, k + 1, Len(h.rosters))
  BY <1>a DEF Incoming, Skips
<1>4. a \in Seq(Roster) /\ Len(a) = Len(h.rosters) - k
  BY <1>1, <1>2, <1>3
<1>5. a = <<>> <=> k = Len(h.rosters)
  BY <1>1, <1>2, <1>4
<1>6. ASSUME k < Len(h.rosters)
      PROVE  /\ a[1] = h.rosters[k + 1]
             /\ ForkPoint(g, a) = h.rosters[1].epoch + k - g.rosters[1].epoch
  <2>1. k + 1 \in 1..Len(h.rosters)
    BY <1>1, <1>2, <1>6
  <2>2. a[1] = h.rosters[k + 1]
    <3>n. PICK n \in Nat : n = Len(h.rosters)
      BY <1>1
    <3>k. PICK j \in Nat : j = k + 1 /\ j <= n
      BY <1>2, <2>1, <3>n
    <3>1. a = SubSeq(h.rosters, j, n) /\ h.rosters \in Seq(Roster) /\ j >= 1
      BY <1>1, <1>2, <1>3, <3>k, <3>n
    <3>2. a[1] = h.rosters[j]
      BY <3>1, <3>k, <3>n
    <3> QED
      BY <3>2, <3>k
  <2>3. h.rosters[k + 1].epoch = h.rosters[1].epoch + (k + 1) - 1
    BY <2>1, ViewIs
  <2>4. k \in Nat
    BY <1>1, <1>2
  <2>5. a[1].epoch - g.rosters[1].epoch = h.rosters[1].epoch + k - g.rosters[1].epoch
    <3>x. PICK x \in Nat, y \in Nat, z \in Nat : x = h.rosters[1].epoch /\ y = g.rosters[1].epoch /\ z = k
      BY <1>1, <2>4
    <3>1. a[1].epoch = x + (z + 1) - 1
      BY <2>2, <2>3, <3>x
    <3>2. a[1].epoch - y = x + z - y
      BY <3>1
    <3> QED
      BY <3>2, <3>x
  <2> QED
    BY <2>2, <2>5 DEF ForkPoint
<1> QED
  BY <1>a, <1>2, <1>3, <1>4, <1>5, <1>6

(* A device that has a roster to hear and does not take it has a branch of *)
(* its own from the same place, which does not lose.                       *)
LEMMA SettledMeans ==
  ASSUME NEW S, NEW g, NEW h, GoodView(g, S), GoodView(h, S),
         current(g).group = current(h).group, Settled(g, h),
         NEW a, a = Incoming(g, h.rosters), a # <<>>, Attaches(g, a), NEW p, p = ForkPoint(g, a)
  PROVE  /\ p \in 1..(Len(g.rosters) - 1)
         /\ ~fork_winner(g.rosters[p], a, SubSeq(g.rosters, p + 1, Len(g.rosters)))
<1>1. /\ g.rosters \in Seq(Roster) /\ Len(g.rosters) \in Nat \ {0}
      /\ h.rosters \in Seq(Roster) /\ Len(h.rosters) \in Nat \ {0}
      /\ Linked(h.rosters) /\ Len(h.rosters) <= KEPT_ROSTERS
  BY ViewIs
<1>2. WellFormedChain(g, h.rosters)
  <2>1. h.rosters[1].group = current(g).group
    BY OneGroup
  <2>2. Len(h.rosters) \in 1..KEPT_ROSTERS
    BY <1>1, LimitsAssumption
  <2> QED
    BY <1>1, <2>1, <2>2 DEF WellFormedChain
<1>3. GoodChain(h.rosters, S)
  BY DEF GoodView
<1>4. GoodChain(a, S)
  BY <1>1, <1>3, IncomingIsGood
<1>5. p \in 1..Len(g.rosters)
  BY <1>4, ForkPointIsInside
<1>b. PICK held : held = SubSeq(g.rosters, p + 1, Len(g.rosters))
  OBVIOUS
<1>6. ASSUME held = <<>> \/ fork_winner(g.rosters[p], a, held)
      PROVE  FALSE
  <2>1. apply_chain(g, h.rosters) = Adopt(g, a)
    BY <1>2, <1>6, <1>b DEF apply_chain
  <2>2. Adopt(g, a).update \in {"RemovedThisDevice", "Advanced", "Replaced"}
    BY DEF Adopt, Outcome
  <2> QED
    BY <2>1, <2>2 DEF Settled
<1>7. p # Len(g.rosters)
  <2>1. p = Len(g.rosters) => held = <<>>
    BY <1>1, <1>b
  <2> QED
    BY <1>6, <2>1
<1>8. p \in 1..(Len(g.rosters) - 1)
  BY <1>1, <1>5, <1>7
<1> QED
  BY <1>6, <1>8, <1>b

(* How much of each other's rosters two views skip.                        *)
Apart(g, h, k, l) == k = Skip(g, h.rosters) /\ l = Skip(h, g.rosters)

(* Its own branch is then news to the other, from no later a place.        *)
LEMMA SkipsNoFurther ==
  ASSUME NEW S, NEW g, NEW h, GoodView(g, S), GoodView(h, S),
         NEW k \in Nat, NEW l \in Nat, Apart(g, h, k, l),
         NEW e \in Nat, NEW f \in Nat, NEW m \in Nat, NEW n \in Nat,
         Spans(g, e, m), Spans(h, f, n), k < n, f + k - e \in 1..(m - 1)
  PROVE  l <= f + k - e /\ g.rosters[f + k - e + 1].hash # h.rosters[k + 1].hash
<1>p. PICK p \in Nat : p = f + k - e
  OBVIOUS
<1>2. /\ k + 1 \in 1..n /\ p + 1 \in 1..m /\ p + 1 <= m /\ k + 1 <= n
      /\ f + (k + 1) - e = p + 1 /\ e + (p + 1) - f = k + 1
      /\ ~(p + 1 < 1) /\ ~(k + 1 < 1)
  BY <1>p
<1>3. ~AlreadyHeld(g, h.rosters[k + 1]) /\ \A j \in 1..l : AlreadyHeld(h, g.rosters[j])
  BY SkipIs, ViewIs DEF Apart, Spans
<1>x. PICK x \in Nat : x = k + 1
  BY <1>2
<1>y. PICK y \in Nat : y = p + 1
  BY <1>2
<1>5. g.rosters[y].hash # h.rosters[x].hash
  <2>1. AlreadyHeld(g, h.rosters[x])
          <=> \/ f + x - e < 1
              \/ f + x - e <= m /\ g.rosters[f + x - e].hash = h.rosters[x].hash
    BY <1>2, <1>x, HeldIs
  <2>2. f + x - e = y /\ ~(y < 1) /\ y <= m
    BY <1>2, <1>x, <1>y
  <2> QED
    BY <1>3, <1>x, <2>1, <2>2
<1>6. ~AlreadyHeld(h, g.rosters[y])
  <2>1. AlreadyHeld(h, g.rosters[y])
          <=> \/ e + y - f < 1
              \/ e + y - f <= n /\ h.rosters[e + y - f].hash = g.rosters[y].hash
    BY <1>2, <1>y, HeldIs
  <2>2. e + y - f = x /\ ~(x < 1)
    BY <1>2, <1>x, <1>y
  <2> QED
    BY <1>5, <2>1, <2>2
<1>7. ~(y \in 1..l)
  BY <1>3, <1>6
<1>8. l <= p
  BY <1>2, <1>7, <1>y
<1> QED
  BY <1>5, <1>8, <1>p, <1>x, <1>y

(* Who has nothing to hear from the other has its newest roster.           *)
LEMMA SameNewest ==
  ASSUME NEW S, NEW g, NEW h, GoodView(g, S), GoodView(h, S),
         Incoming(g, h.rosters) = <<>>, Incoming(h, g.rosters) = <<>>
  PROVE  current(g).hash = current(h).hash
<1>e. PICK e \in Nat, m \in Nat \ {0} : Spans(g, e, m)
  BY ViewIs DEF Spans
<1>f. PICK f \in Nat, n \in Nat \ {0} : Spans(h, f, n)
  BY ViewIs DEF Spans
<1>1. m \in 1..m /\ n \in 1..n
  OBVIOUS
<1>2. AlreadyHeld(g, h.rosters[n])
  <2>1. Skip(g, h.rosters) = n
    <3>k. PICK k : Skips(g, h, k)
      BY DEF Skips
    <3>1. Incoming(g, h.rosters) = <<>> <=> k = Len(h.rosters)
      BY <3>k, IncomingIs
    <3>2. k = Len(h.rosters)
      BY <3>1
    <3> QED
      BY <1>f, <3>k, <3>2 DEF Skips, Spans
  <2> QED
    BY <1>1, <2>1, SkipIs, ViewIs
<1>3. AlreadyHeld(h, g.rosters[m])
  <2>1. Skip(h, g.rosters) = m
    <3>k. PICK k : Skips(h, g, k)
      BY DEF Skips
    <3>1. Incoming(h, g.rosters) = <<>> <=> k = Len(g.rosters)
      BY <3>k, IncomingIs
    <3>2. k = Len(g.rosters)
      BY <3>1
    <3> QED
      BY <1>e, <3>k, <3>2 DEF Skips, Spans
  <2> QED
    BY <1>1, <2>1, SkipIs, ViewIs
<1>4. f + n - e < 1 \/ (f + n - e <= m /\ g.rosters[f + n - e].hash = h.rosters[n].hash)
  BY <1>1, <1>2, <1>e, <1>f, HeldIs
<1>5. e + m - f < 1 \/ (e + m - f <= n /\ h.rosters[e + m - f].hash = g.rosters[m].hash)
  BY <1>1, <1>3, <1>e, <1>f, HeldIs
<1>6. f + n - e = m
  BY <1>4, <1>5
<1>7. g.rosters[m].hash = h.rosters[n].hash
  BY <1>4, <1>6
<1> QED
  BY <1>7, <1>e, <1>f, ViewIs DEF Spans

(* What the other has to offer, in the numbers of the two views.           *)
LEMMA BranchIs ==
  ASSUME NEW S, NEW g, NEW h, GoodView(g, S), GoodView(h, S),
         NEW k \in Nat, NEW l \in Nat, Apart(g, h, k, l),
         NEW e \in Nat, NEW f \in Nat, NEW m \in Nat, NEW n \in Nat,
         Spans(g, e, m), Spans(h, f, n)
  PROVE  /\ Incoming(g, h.rosters) = SubSeq(h.rosters, k + 1, n)
         /\ Incoming(g, h.rosters) \in Seq(Roster)
         /\ Incoming(g, h.rosters) = <<>> <=> k = n
         /\ k < n => /\ Incoming(g, h.rosters)[1] = h.rosters[k + 1]
                     /\ ForkPoint(g, Incoming(g, h.rosters)) = f + k - e
<1>1. Skips(g, h, k)
  BY DEF Apart, Skips
<1>2. Len(h.rosters) = n /\ h.rosters[1].epoch = f
  BY DEF Spans
<1>3. g.rosters[1].epoch = e
  BY DEF Spans
<1>4. /\ k \in 0..Len(h.rosters)
      /\ Incoming(g, h.rosters) = SubSeq(h.rosters, k + 1, Len(h.rosters))
      /\ Incoming(g, h.rosters) \in Seq(Roster)
      /\ Incoming(g, h.rosters) = <<>> <=> k = Len(h.rosters)
      /\ k < Len(h.rosters) =>
           /\ Incoming(g, h.rosters)[1] = h.rosters[k + 1]
           /\ ForkPoint(g, Incoming(g, h.rosters)) = h.rosters[1].epoch + k - g.rosters[1].epoch
  BY <1>1, IncomingIs
<1> QED
  BY <1>2, <1>3, <1>4

(* No two rosters have the same hash.                                      *)
HashesDiffer(S) == \A r, s \in S : r.hash = s.hash => r = s

(* Two views that exchange rosters and change nothing any more: each has   *)
(* the branch the other one has to offer, from the same parent, so the     *)
(* rules of forks have been applied to one and the same pair of branches.  *)
LEMMA SplitIsNamed ==
  ASSUME NEW S, HashesDiffer(S), NEW g, NEW h, GoodView(g, S), GoodView(h, S),
         current(g).group = current(h).group, current(g).hash # current(h).hash,
         Settled(g, h), Settled(h, g), ~ForkOutOfReach(g, h)
  PROVE  MutualRemoval(g, h)
<1>e. PICK e \in Nat, m \in Nat \ {0} : Spans(g, e, m)
  BY ViewIs DEF Spans
<1>f. PICK f \in Nat, n \in Nat \ {0} : Spans(h, f, n)
  BY ViewIs DEF Spans
<1>k. PICK k \in Nat, l \in Nat : Apart(g, h, k, l) /\ Apart(h, g, l, k) /\ k <= n /\ l <= m
  <2>1. Skip(g, h.rosters) \in 0..Len(h.rosters) /\ Skip(h, g.rosters) \in 0..Len(g.rosters)
    BY IncomingIs DEF Skips
  <2>2. Len(h.rosters) = n /\ Len(g.rosters) = m
    BY <1>e, <1>f DEF Spans
  <2> QED
    BY <2>1, <2>2 DEF Apart
<1>a. PICK a : a = Incoming(g, h.rosters)
  OBVIOUS
<1>b. PICK b : b = Incoming(h, g.rosters)
  OBVIOUS
<1>1. (a # <<>> => Attaches(g, a)) /\ (b # <<>> => Attaches(h, b))
  BY <1>a, <1>b DEF ForkOutOfReach, Reaches
<1>2. /\ a = SubSeq(h.rosters, k + 1, n) /\ a \in Seq(Roster) /\ (a = <<>> <=> k = n)
      /\ (k < n => a[1] = h.rosters[k + 1] /\ ForkPoint(g, a) = f + k - e)
  BY <1>a, <1>e, <1>f, <1>k, BranchIs
<1>3. /\ b = SubSeq(g.rosters, l + 1, m) /\ b \in Seq(Roster) /\ (b = <<>> <=> l = m)
      /\ (l < m => b[1] = g.rosters[l + 1] /\ ForkPoint(h, b) = e + l - f)
  BY <1>b, <1>e, <1>f, <1>k, BranchIs
<1>4. a # <<>> => /\ k < n /\ f + k - e \in 1..(m - 1)
                  /\ ~fork_winner(g.rosters[f + k - e], a, SubSeq(g.rosters, f + k - e + 1, m))
                  /\ l <= f + k - e /\ g.rosters[f + k - e + 1].hash # h.rosters[k + 1].hash
  <2>1. SUFFICES ASSUME a # <<>>
                 PROVE  /\ k < n /\ f + k - e \in 1..(m - 1)
                        /\ ~fork_winner(g.rosters[f + k - e], a, SubSeq(g.rosters, f + k - e + 1, m))
                        /\ l <= f + k - e /\ g.rosters[f + k - e + 1].hash # h.rosters[k + 1].hash
    OBVIOUS
  <2>2. k < n
    BY <1>2, <1>k, <2>1
  <2>3. ForkPoint(g, a) = f + k - e
    BY <1>2, <2>2
  <2>4. Len(g.rosters) = m
    BY <1>e DEF Spans
  <2>5. /\ ForkPoint(g, a) \in 1..(m - 1)
        /\ ~fork_winner(g.rosters[ForkPoint(g, a)], a, SubSeq(g.rosters, ForkPoint(g, a) + 1, m))
    BY <1>1, <1>a, <2>1, <2>4, SettledMeans
  <2>6. f + k - e \in 1..(m - 1)
    BY <2>3, <2>5
  <2>7. l <= f + k - e /\ g.rosters[f + k - e + 1].hash # h.rosters[k + 1].hash
    BY <1>e, <1>f, <1>k, <2>2, <2>6, SkipsNoFurther
  <2> QED
    BY <2>2, <2>3, <2>5, <2>6, <2>7
<1>5. b # <<>> => /\ l < m /\ e + l - f \in 1..(n - 1)
                  /\ ~fork_winner(h.rosters[e + l - f], b, SubSeq(h.rosters, e + l - f + 1, n))
                  /\ k <= e + l - f
  <2>1. SUFFICES ASSUME b # <<>>
                 PROVE  /\ l < m /\ e + l - f \in 1..(n - 1)
                        /\ ~fork_winner(h.rosters[e + l - f], b, SubSeq(h.rosters, e + l - f + 1, n))
                        /\ k <= e + l - f
    OBVIOUS
  <2>2. l < m
    BY <1>3, <1>k, <2>1
  <2>3. ForkPoint(h, b) = e + l - f
    BY <1>3, <2>2
  <2>4. Len(h.rosters) = n
    BY <1>f DEF Spans
  <2>5. /\ ForkPoint(h, b) \in 1..(n - 1)
        /\ ~fork_winner(h.rosters[ForkPoint(h, b)], b, SubSeq(h.rosters, ForkPoint(h, b) + 1, n))
    BY <1>1, <1>b, <2>1, <2>4, SettledMeans
  <2>6. e + l - f \in 1..(n - 1)
    BY <2>3, <2>5
  <2>7. k <= e + l - f
    BY <1>e, <1>f, <1>k, <2>2, <2>6, SkipsNoFurther
  <2> QED
    BY <2>2, <2>3, <2>5, <2>6, <2>7
<1>6. a # <<>> /\ b # <<>>
  <2>1. a # <<>> \/ b # <<>>
    BY <1>a, <1>b, SameNewest
  <2>2. a # <<>> => l # m
    BY <1>4
  <2>3. b # <<>> => k # n
    BY <1>5
  <2> QED
    BY <1>2, <1>3, <2>1, <2>2, <2>3
<1>7. k = e + l - f /\ l = f + k - e
  <2>1. l <= f + k - e
    BY <1>4, <1>6
  <2>2. k <= e + l - f
    BY <1>5, <1>6
  <2> QED
    BY <2>1, <2>2
<1>8. l \in 1..(m - 1) /\ k \in 1..(n - 1) /\ ForkPoint(g, a) = l /\ ForkPoint(h, b) = k
  BY <1>2, <1>3, <1>4, <1>5, <1>6, <1>7
<1>9. ~fork_winner(g.rosters[l], a, b) /\ ~fork_winner(h.rosters[k], b, a)
  BY <1>2, <1>3, <1>4, <1>5, <1>6, <1>7
<1>10. a[1].hash # b[1].hash
  BY <1>2, <1>3, <1>4, <1>5, <1>6, <1>7
<1>11. g.rosters[l] = h.rosters[k]
  <2>1. l \in 1..m /\ k \in 1..n /\ l \in 1..(Len(g.rosters) - 1)
    BY <1>8, <1>e DEF Spans
  <2>2. g.rosters[l] \in S /\ h.rosters[k] \in S /\ Linked(g.rosters)
    BY <2>1, <1>e, <1>f, ViewIs DEF Spans
  <2>3. b[1].prev = g.rosters[l].hash
    BY <1>3, <1>5, <1>6, <2>1, <2>2 DEF Linked, check_successor
  <2>4. b[1].prev = h.rosters[k].hash
    BY <1>1, <1>6, <1>8 DEF Attaches, check_successor
  <2> QED
    BY <2>2, <2>3, <2>4 DEF HashesDiffer
<1>12. g.rosters[l] \in Roster
  <2>1. l \in 1..m
    BY <1>8
  <2> QED
    BY <1>e, <2>1, ViewIs DEF Spans
<1>13. removes_signer(g.rosters[l], a, b) /\ removes_signer(g.rosters[l], b, a)
  BY <1>2, <1>3, <1>6, <1>9, <1>10, <1>11, <1>12, OneWinsUnlessMutual
<1> QED
  BY <1>6, <1>8, <1>13, <1>a, <1>b DEF MutualRemoval

-----------------------------------------------------------------------------
(* A hash is given once: every roster is signed under the next one.        *)
SignsNext ==
  \/ signed' = signed
  \/ \E r : r.hash = next /\ signed' = signed \cup {r}

(* The four actions that sign use it, the others sign nothing.             *)
LEMMA SignedUnderNext ==
  ASSUME NEW d \in Device, DeviceNext(d)
  PROVE  SignsNext
<1>1. ASSUME NEW r, Sign(r), r.hash = next
      PROVE  SignsNext
  BY <1>1 DEF Sign, SignsNext
<1>2. ASSUME UNCHANGED signed \/ NothingSigned
      PROVE  SignsNext
  BY <1>2 DEF NothingSigned, SignsNext
<1>3. \A g, x : AdditionOf(g, x, next).hash = next /\ RemovalOf(g, x, next).hash = next
  BY DEF AdditionOf, RemovalOf, Successor
<1>4. CASE Create(d)
  <2>1. create(identity[d], next).rosters[1].hash = next
    BY DEF create
  <2> QED
    BY <1>1, <1>4, <2>1 DEF Create
<1>5. CASE \E x \in Identity : RemoveDevice(d, x)
  BY <1>1, <1>3, <1>5 DEF RemoveDevice
<1>6. CASE \E chain \in chains : ReceiveRosters(d, chain)
  BY <1>2, <1>6 DEF ReceiveRosters
<1>7. CASE Redo(d)
  <2>1. \/ NothingSigned
        \/ \E x : RedoAdded(d, x) \/ RedoRemoved(d, x)
    BY <1>7 DEF Redo
  <2>2. ASSUME NEW x, RedoAdded(d, x)
        PROVE  SignsNext
    BY <1>1, <1>2, <1>3, <2>2 DEF RedoAdded
  <2>3. ASSUME NEW x, RedoRemoved(d, x)
        PROVE  SignsNext
    BY <1>1, <1>2, <1>3, <2>3 DEF RedoRemoved
  <2> QED
    BY <1>2, <2>1, <2>2, <2>3
<1>8. CASE \E peer \in Identity : ShareKey(d, peer)
  BY <1>2, <1>8 DEF ShareKey
<1>9. CASE \E share \in shares : ReceiveKey(d, share)
  BY <1>2, <1>9 DEF ReceiveKey
<1>10. CASE StartJoin(d)
  BY <1>2, <1>10 DEF StartJoin
<1>11. CASE \E j \in Device : \E x \in joining[j] : Approve(d, j, x)
  BY <1>1, <1>3, <1>11 DEF Approve
<1>12. CASE CommitAdmission(d)
  BY <1>2, <1>12 DEF CommitAdmission
<1>13. CASE AdmissionFails(d)
  BY <1>2, <1>13 DEF AdmissionFails
<1>14. CASE \E x \in joining[d] : FinishJoin(d, x)
  BY <1>2, <1>14 DEF FinishJoin
<1>15. CASE AbandonJoin(d)
  BY <1>2, <1>15 DEF AbandonJoin
<1>16. CASE Leave(d)
  BY <1>2, <1>16 DEF Leave
<1>17. CASE Restart(d)
  BY <1>2, <1>17 DEF Restart
<1> QED
  BY <1>4, <1>5, <1>6, <1>7, <1>8, <1>9, <1>10, <1>11, <1>12, <1>13, <1>14,
     <1>15, <1>16, <1>17 DEF DeviceNext

(* So no two rosters ever share one.                                       *)
HashesUnique == HashesDiffer(signed)

(* A step adds at most one roster, under a hash above all earlier ones.    *)
LEMMA HashesStayUnique == Inv /\ HashesUnique /\ [Next]_vars => HashesUnique'
<1> SUFFICES ASSUME Inv, HashesUnique, [Next]_vars
             PROVE  HashesUnique'
  OBVIOUS
<1>1. SignsNext
  BY SignedUnderNext DEF Next, vars, SignsNext
<1>2. \A s \in signed : s.hash # next
  <2>1. SUFFICES ASSUME NEW s \in signed
                 PROVE  s.hash # next
    OBVIOUS
  <2>2. s.hash < next /\ s.hash \in Nat /\ next \in Nat
    BY HashAssumption DEF Inv, SignedBelow, Roster, TypeOK
  <2> QED
    BY <2>2
<1> QED
  BY <1>1, <1>2 DEF SignsNext, HashesUnique, HashesDiffer

(* Two members of one group that have heard each other and still disagree  *)
(* on the device list are in one of the two cases the documentation names: *)
(* each branch removes a signer of the other, or the fork lies beyond the  *)
(* rosters that are kept (fork_winner, apply_chain).                       *)
THEOREM SplitsAreNamed == Spec => []SplitOnlyWhenNamed
<1>1. Init => HashesUnique
  BY DEF Init, HashesUnique, HashesDiffer
<1>2. Inv /\ HashesUnique => SplitOnlyWhenNamed
  <2>1. SUFFICES ASSUME Inv, HashesDiffer(signed), NEW d \in Device, NEW e \in Device,
                        Member(d), Member(e),
                        current(group[d]).group = current(group[e]).group,
                        current(group[d]).hash # current(group[e]).hash,
                        Settled(group[d], group[e]), Settled(group[e], group[d]),
                        ~ForkOutOfReach(group[d], group[e])
                 PROVE  MutualRemoval(group[d], group[e])
    BY DEF SplitOnlyWhenNamed, HashesUnique
  <2>2. GoodView(group[d], signed) /\ GoodView(group[e], signed)
    BY <2>1 DEF Inv, GroupsGood, Member, InGroup
  <2> QED
    BY <2>1, <2>2, SplitIsNamed
<1> QED
  BY <1>1, <1>2, AlwaysGood, HashesStayUnique, PTL DEF Spec

-----------------------------------------------------------------------------
(* Removals.  What the theorem assumes: the state file can be written,     *)
(* nobody leaves its group for another identity, there is room for every   *)
(* device, and fewer rosters are signed than there are epochs.  Without    *)
(* the room the loop stops at an addition and takes the removals after it  *)
(* along.                                                                  *)
Steady ==
  /\ SavesMayFail = FALSE
  /\ Incarnation = {0}
  /\ IsFiniteSet(Identity) /\ Cardinality(Identity) <= MAX_MEMBERS
  /\ Hash \subseteq 1..MAX_EPOCH

(* A roster's epoch is below its number, so the limit on epochs is never   *)
(* met.                                                                    *)
EpochsLag == \A r \in signed : r.epoch < r.hash

(* The views and the join of a device are those of its one identity.       *)
OwnView(d) ==
  /\ disk[d].identity = identity[d]
  /\ group[d] # NoGroup => group[d].me = identity[d]
  /\ disk[d].group # NoGroup => disk[d].group.me = identity[d]
  /\ joining[d] \subseteq {identity[d]}
  /\ admitting[d] # None => admitting[d].group.me = identity[d]

(* In the loop: of what the file had removed and the view h lists again,   *)
(* everything is still to be removed, and only members are added.          *)
Listed(list, x) == \E j \in 1..Len(list) : list[j].kind = "Removed" /\ x \in list[j].ids

AddsWithin(list, M) == \A j \in 1..Len(list) : list[j].kind = "Added" => list[j].ids \subseteq M

Redoes(g, h, list) ==
  /\ g # NoGroup /\ h # NoGroup
  /\ is_member(h) =>
       /\ \A x \in DroppedRemovals(g, h) \cap current(h).members : Listed(list, x)
       /\ AddsWithin(list, current(g).members)

(* The inviter's copy ends with its addition, which removes nobody.        *)
OnlyAdds(a) ==
  /\ Len(a.group.rosters) >= 2
  /\ current(a.group) = a.roster
  /\ \E p \in signed : p.hash = a.roster.prev /\ p.members \subseteq a.roster.members

(* The invariant: between loops the file is the view.                      *)
StickyAt(d) ==
  /\ OwnView(d)
  /\ Idle(d) => disk[d].group = group[d]
  /\ ~Idle(d) => Redoes(disk[d].group, group[d], redo[d])
  /\ admitting[d] # None => OnlyAdds(admitting[d])

StickInv == EpochsLag /\ \A d \in Device : StickyAt(d)

-----------------------------------------------------------------------------
(* The first n rosters of g that are not older than all of h are in h.     *)
KeepsFirst(g, h, n) ==
  \A i \in 1..n : g.rosters[i].epoch >= h.rosters[1].epoch =>
    \E j \in 1..Len(h.rosters) : h.rosters[j] = g.rosters[i]

KeepsAll(g, h) ==
  KeepsFirst(g, h, Len(g.rosters)) /\ g.rosters[1].epoch <= h.rosters[1].epoch

(* What KeepLast leaves is the end of the chain.                           *)
LEMMA KeepLastIs ==
  ASSUME NEW c \in Seq(Roster), c # <<>>
  PROVE  \E o \in 0..(Len(c) - 1) :
           /\ Len(KeepLast(c)) = Len(c) - o
           /\ \A i \in 1..(Len(c) - o) : KeepLast(c)[i] = c[o + i]
<1> DEFINE n == Len(c)
           excess == n - KEPT_ROSTERS
<1>1. n \in Nat \ {0} /\ KEPT_ROSTERS \in Nat \ {0}
  BY LimitsAssumption
<1>2. CASE excess > 0
  <2>1. excess \in 0..(n - 1) /\ excess + 1 \in 1..n
    BY <1>1, <1>2
  <2>2. KeepLast(c) = SubSeq(c, excess + 1, n)
    BY <1>2 DEF KeepLast
  <2> HIDE DEF excess
  <2>3. /\ Len(KeepLast(c)) = n - excess
        /\ \A i \in 1..(n - excess) : KeepLast(c)[i] = c[excess + i]
    BY <1>1, <2>1, <2>2
  <2> QED
    BY <2>1, <2>3
<1>3. CASE ~(excess > 0)
  <2>1. KeepLast(c) = c
    BY <1>3 DEF KeepLast
  <2>2. 0 \in 0..(n - 1) /\ Len(KeepLast(c)) = n - 0 /\ \A i \in 1..(n - 0) : KeepLast(c)[i] = c[0 + i]
    BY <1>1, <2>1
  <2> QED
    BY <2>2
<1> QED
  BY <1>2, <1>3

(* The view h keeps the rosters s, as far as there is room.                *)
KeepsChain(s, h) ==
  /\ h.rosters[1].epoch >= s[1].epoch
  /\ \A i \in 1..Len(s) : s[i].epoch >= h.rosters[1].epoch =>
       \E j \in 1..Len(h.rosters) : h.rosters[j] = s[i]

(* push keeps what it is put on.                                           *)
LEMMA PushKeeps ==
  ASSUME NEW S, NEW g \in GroupView, NEW s, NEW t, Follows(s, t, S)
  PROVE  KeepsChain(s, push(g, s, t))
<1> DEFINE c == s \o t
           k == KeepLast(c)
<1>1. push(g, s, t).rosters = k
  <2> DEFINE f == [g EXCEPT !.rosters = k]
  <2>1. f.rosters = k /\ f = [me |-> g.me, rosters |-> k, keys |-> g.keys]
    BY DEF GroupView
  <2>2. push(g, s, t) = prune(f)
    BY DEF push
  <2> HIDE DEF f, k
  <2> QED
    BY <2>1, <2>2 DEF prune
<1>2. /\ s \in Seq(Roster) /\ s # <<>> /\ t \in Seq(Roster) /\ GoodChain(c, S)
  BY AppendIsGood DEF Follows, GoodChain
<1>3. /\ c \in Seq(Roster) /\ c # <<>> /\ Len(s) \in Nat \ {0} /\ Len(c) \in Nat /\ Len(s) <= Len(c)
      /\ \A i \in 1..Len(s) : c[i] = s[i]
  BY <1>2
<1>4. /\ c[1] \in Roster /\ s[1] = c[1]
      /\ \A i \in 1..Len(c) : c[i].epoch = c[1].epoch + i - 1
  BY <1>2, <1>3 DEF GoodChain, Consecutive
<1>e. PICK e \in Nat : e = c[1].epoch
  BY <1>4 DEF Roster
<1> HIDE DEF c
<1>o. PICK o \in 0..(Len(c) - 1) : /\ Len(k) = Len(c) - o
                                  /\ \A i \in 1..(Len(c) - o) : k[i] = c[o + i]
  BY <1>3, KeepLastIs
<1> HIDE DEF k
<1>5. k[1] = c[o + 1] /\ o + 1 \in 1..Len(c) /\ o \in Nat
  BY <1>3, <1>o
<1>6. k[1].epoch = e + (o + 1) - 1
  BY <1>4, <1>5, <1>e
<1>7. k[1].epoch = e + o
  BY <1>5, <1>6
<1>8. ASSUME NEW i \in 1..Len(s), s[i].epoch >= k[1].epoch
      PROVE  \E j \in 1..Len(k) : k[j] = s[i]
  <2>1. i \in 1..Len(c) /\ s[i] = c[i]
    BY <1>3
  <2>2. s[i].epoch = e + i - 1
    BY <1>4, <1>e, <2>1
  <2>3. o <= i - 1
    BY <1>5, <1>7, <1>8, <2>1, <2>2
  <2>4. i - o \in 1..(Len(c) - o) /\ o + (i - o) = i
    BY <1>3, <1>5, <2>1, <2>3
  <2>5. k[i - o] = c[i]
    BY <1>o, <2>4
  <2> QED
    BY <1>o, <2>1, <2>4, <2>5
<1>9. k[1].epoch >= s[1].epoch
  BY <1>4, <1>5, <1>7, <1>e
<1> QED
  BY <1>1, <1>8, <1>9 DEF KeepsChain

(* What a view h that keeps the first n rosters of g has dropped.          *)
LEMMA DroppedAfter ==
  ASSUME NEW g, NEW h, NEW n \in Nat, KeepsFirst(g, h, n), Len(g.rosters) \in Nat,
         NEW x \in DroppedRemovals(g, h)
  PROVE  /\ x # g.me /\ x \notin current(g).members
         /\ \E i \in 2..Len(g.rosters) : n < i /\ x \in members_without(g.rosters[i - 1], g.rosters[i])
<1>1. PICK i \in 2..Len(g.rosters) :
        /\ x \in members_without(g.rosters[i - 1], g.rosters[i])
        /\ x # g.me
        /\ x \notin current(g).members
        /\ g.rosters[i].epoch >= h.rosters[1].epoch
        /\ \A j \in 1..Len(h.rosters) : h.rosters[j].hash # g.rosters[i].hash
  BY DEF DroppedRemovals
<1>2. ~(i \in 1..n)
  BY <1>1 DEF KeepsFirst
<1>3. n < i
  BY <1>2
<1> QED
  BY <1>1, <1>3

LEMMA NothingDropped ==
  ASSUME NEW g, NEW h, Len(g.rosters) \in Nat, KeepsFirst(g, h, Len(g.rosters))
  PROVE  DroppedRemovals(g, h) = {}
<1>1. SUFFICES ASSUME NEW x \in DroppedRemovals(g, h) PROVE FALSE
  OBVIOUS
<1>2. PICK i \in 2..Len(g.rosters) : Len(g.rosters) < i
  BY DroppedAfter
<1> QED
  BY <1>2

(* Going on from h drops nothing more.                                     *)
LEMMA DroppedShrinks ==
  ASSUME NEW S, HashesDiffer(S), NEW g, NEW h, NEW k,
         GoodView(g, S), GoodView(h, S), GoodView(k, S), KeepsAll(h, k)
  PROVE  DroppedRemovals(g, k) \subseteq DroppedRemovals(g, h)
<1>1. SUFFICES ASSUME NEW x \in DroppedRemovals(g, k)
               PROVE  x \in DroppedRemovals(g, h)
  OBVIOUS
<1>2. PICK i \in 2..Len(g.rosters) :
        /\ x \in Identity
        /\ x \in members_without(g.rosters[i - 1], g.rosters[i])
        /\ x # g.me
        /\ x \notin current(g).members
        /\ g.rosters[i].epoch >= k.rosters[1].epoch
        /\ \A j \in 1..Len(k.rosters) : k.rosters[j].hash # g.rosters[i].hash
  BY DEF DroppedRemovals
<1>3. Len(g.rosters) \in Nat /\ i \in 1..Len(g.rosters)
  BY ViewIs, <1>2
<1>4. g.rosters[i] \in S /\ g.rosters[i] \in Roster
  BY <1>3, ViewIs
<1>5. g.rosters[i].epoch \in Nat /\ k.rosters[1].epoch \in Nat /\ h.rosters[1].epoch \in Nat
  BY <1>4, ViewIs DEF Roster
<1>6. g.rosters[i].epoch >= h.rosters[1].epoch
  BY <1>2, <1>5 DEF KeepsAll
<1>7. ASSUME NEW j \in 1..Len(h.rosters), h.rosters[j].hash = g.rosters[i].hash
      PROVE  FALSE
  <2>1. h.rosters[j] \in S
    BY ViewIs
  <2>2. h.rosters[j] = g.rosters[i]
    BY <1>4, <1>7, <2>1 DEF HashesDiffer
  <2>3. PICK m \in 1..Len(k.rosters) : k.rosters[m] = h.rosters[j]
    BY <1>2, <2>2 DEF KeepsAll, KeepsFirst
  <2> QED
    BY <1>2, <2>2, <2>3
<1> QED
  BY <1>2, <1>6, <1>7 DEF DroppedRemovals

-----------------------------------------------------------------------------
(* A device that signs a successor keeps its rosters.                      *)
LEMMA ExtendedKeeps ==
  ASSUME NEW S, NEW g, GoodView(g, S), NEW k, NEW r, MayExtend(g, k, r, S)
  PROVE  KeepsAll(g, Extended(g, k, r))
<1> DEFINE T == S \cup {r}
           f == [g EXCEPT !.keys = k]
           c == <<r>>
<1>1. GoodView(g, T)
  BY GoodGrows
<1>2. /\ GoodChain(g.rosters, T) /\ Linked(g.rosters)
      /\ g.rosters[Len(g.rosters)] = current(g)
  BY <1>1 DEF GoodView, validate, current
<1>3. GoodChain(c, T) /\ Linked(c) /\ c[1] = r
  <2>1. c \in Seq(Roster) /\ Len(c) = 1 /\ c[1] = r /\ c # <<>>
    BY DEF MayExtend
  <2>2. r.epoch = r.epoch + 1 - 1 /\ Verify(r)
    BY DEF Roster, MayExtend
  <2> QED
    BY <2>1, <2>2 DEF GoodChain, Consecutive, Linked
<1>4. f \in GroupView
  BY DEF GoodView, GroupView, MayExtend
<1>5. Extended(g, k, r) = push(f, g.rosters, c)
  BY DEF Extended
<1> HIDE DEF f, c, T
<1>6. Follows(g.rosters, c, T)
  BY <1>2, <1>3 DEF Follows, MayExtend
<1>7. /\ push(f, g.rosters, c).rosters[1].epoch >= g.rosters[1].epoch
      /\ KeepsFirst(g, push(f, g.rosters, c), Len(g.rosters))
  <2>1. KeepsChain(g.rosters, push(f, g.rosters, c))
    BY <1>4, <1>6, PushKeeps
  <2> QED
    BY <2>1 DEF KeepsFirst, KeepsChain
<1>8. g.rosters[1].epoch \in Nat /\ push(f, g.rosters, c).rosters[1].epoch \in Nat
  <2>1. KeysMeantFor(f, T) 
    BY DEF MayExtend, KeysMeantFor, f, T, GoodView, GroupView
  <2>2. GoodView(push(f, g.rosters, c), T)
    BY <1>4, <1>6, <2>1, PushIsGood
  <2> QED
    BY <2>2, ViewIs
<1> QED
  BY <1>5, <1>7, <1>8 DEF KeepsAll

(* Adding one.                                                             *)
LEMMA AddKeeps ==
  ASSUME NEW S, NEW n \in Hash, SignedBelow(S, n), NEW g, GoodView(g, S),
         NEW signer, NEW x \in Identity, CanAdd(g, signer, x)
  PROVE  /\ KeepsAll(g, add_member(g, x, n))
         /\ current(add_member(g, x, n)).members = current(g).members \cup {x}
         /\ current(add_member(g, x, n)) = AdditionOf(g, x, n)
<1> DEFINE r == AdditionOf(g, x, n)
           f == [g EXCEPT !.keys = g.keys]
<1>m. r.members = current(g).members \cup {x}
  BY DEF AdditionOf, Successor
<1>1. /\ r \in Roster /\ IsFiniteSet(r.members) /\ r.hash = n /\ r.key_check < n
      /\ Verify(r) /\ check_successor(current(g), r)
  BY AdditionIsLegitimate
<1> HIDE DEF r
<1>2. f = g /\ g.keys \in SUBSET GroupKey
  BY DEF GoodView, GroupView
<1>3. \A key \in g.keys : EntitledIn(g.me, key, S \cup {r})
  BY DEF GoodView, KeysMeantFor, EntitledIn
<1>4. MayExtend(g, g.keys, r, S)
  BY <1>1, <1>2, <1>3 DEF MayExtend
<1>5. Extended(g, g.keys, r) = add_member(g, x, n)
  BY <1>2 DEF Extended, add_member, r
<1>6. KeepsAll(g, Extended(g, g.keys, r))
  BY <1>4, ExtendedKeeps
<1>7. /\ GoodView(Extended(g, g.keys, r), S \cup {r})
      /\ Extended(g, g.keys, r).me = g.me
      /\ current(Extended(g, g.keys, r)) = r
  BY <1>4, ExtendedIsGood
<1> QED
  BY <1>m, <1>5, <1>6, <1>7 DEF r

(* Removing one.                                                           *)
LEMMA RemoveKeeps ==
  ASSUME NEW S, NEW n \in Hash, SignedBelow(S, n), NEW g, GoodView(g, S),
         NEW signer, NEW x, CanRemove(g, signer, x)
  PROVE  /\ KeepsAll(g, remove_member(g, x, n))
         /\ current(remove_member(g, x, n)).members = current(g).members \ {x}
<1> DEFINE r == RemovalOf(g, x, n)
           k == g.keys \cup {KeyOf(r)}
<1>m. r.members = current(g).members \ {x}
  BY DEF RemovalOf, Successor
<1>1. /\ r \in Roster /\ IsFiniteSet(r.members) /\ r.hash = n /\ r.key_check = n
      /\ g.me \in r.members /\ Verify(r) /\ check_successor(current(g), r)
  BY RemovalIsLegitimate
<1>2. remove_member(g, x, n) = Extended(g, k, r)
  BY DEF remove_member, Extended
<1> HIDE DEF r
<1>3. k \in SUBSET GroupKey
  BY <1>1 DEF GoodView, GroupView, GroupKey, KeyOf, Roster
<1>4. \A key \in k : EntitledIn(g.me, key, S \cup {r})
  BY <1>1 DEF GoodView, KeysMeantFor, EntitledIn
<1> HIDE DEF k
<1>5. MayExtend(g, k, r, S)
  BY <1>1, <1>3, <1>4 DEF MayExtend
<1>6. KeepsAll(g, Extended(g, k, r))
  BY <1>5, ExtendedKeeps
<1>7. /\ GoodView(Extended(g, k, r), S \cup {r})
      /\ Extended(g, k, r).me = g.me
      /\ current(Extended(g, k, r)) = r
  BY <1>5, ExtendedIsGood
<1> QED
  BY <1>2, <1>6, <1>7, <1>m

-----------------------------------------------------------------------------
(* Adopting a branch keeps the rosters up to the fork.                     *)
AfterFork(g, branch) ==
  push(g, SubSeq(g.rosters, 1, ForkPoint(g, branch)), branch)

LEMMA AdoptKeeps ==
  ASSUME NEW S, NEW g, GoodView(g, S),
         NEW branch, GoodChain(branch, S), Linked(branch), Attaches(g, branch)
  PROVE  /\ ForkPoint(g, branch) \in 1..Len(g.rosters)
         /\ KeepsFirst(g, AfterFork(g, branch), ForkPoint(g, branch))
         /\ GoodView(AfterFork(g, branch), S)
         /\ current(AfterFork(g, branch)) = branch[Len(branch)]
         /\ AfterFork(g, branch).me = g.me
<1>p. PICK p : p = ForkPoint(g, branch)
  OBVIOUS
<1>1. /\ p \in 1..Len(g.rosters) /\ check_successor(g.rosters[p], branch[1])
      /\ g.rosters \in Seq(Roster) /\ Linked(g.rosters) /\ g \in GroupView
      /\ GoodChain(g.rosters, S) /\ KeysMeantFor(g, S)
  BY <1>p, ForkPointIsInside DEF GoodView, GoodChain, validate
<1> DEFINE kept == SubSeq(g.rosters, 1, p)
           after == push(g, kept, branch)
<1>2. /\ Follows(kept, branch, S) /\ Len(kept) = p
      /\ \A i \in 1..p : kept[i] = g.rosters[i]
  BY <1>1, PrefixIsGood DEF Follows
<1>3. AfterFork(g, branch) = after
  BY <1>p DEF AfterFork
<1> HIDE DEF kept
<1>4. GoodView(after, S) /\ after.me = g.me /\ current(after) = branch[Len(branch)]
  BY <1>1, <1>2, PushIsGood
<1>5. KeepsChain(kept, after)
  BY <1>1, <1>2, PushKeeps
<1> HIDE DEF after
<1>6. KeepsFirst(g, after, p)
  BY <1>2, <1>5 DEF KeepsFirst, KeepsChain
<1> QED
  BY <1>1, <1>3, <1>4, <1>6, <1>p

EndsWith(g, p, lost) == lost = SubSeq(g.rosters, p + 1, Len(g.rosters))

(* The list of what is to be redone has every removal that was dropped,    *)
(* and adds only devices that were there at the end of the branch.         *)
LEMMA ReapplyHasAll ==
  ASSUME NEW S, NEW g, GoodView(g, S), NEW p \in 1..(Len(g.rosters) - 1),
         NEW h, h # NoGroup, KeepsFirst(g, h, p), NEW lost, EndsWith(g, p, lost), g # NoGroup
  PROVE  /\ Redoes(g, h, changes_to_reapply(g.rosters[p], lost, g.me))
         /\ changes_to_reapply(g.rosters[p], lost, g.me) # <<>>
<1>m. PICK m \in Nat : m = Len(g.rosters)
  BY ViewIs
<1>l. lost \in Seq(Roster)
  <2>1. SubSeq(g.rosters, p + 1, Len(g.rosters)) \in Seq(Roster)
    BY ViewIs
  <2> QED
    BY <2>1 DEF EndsWith
<1>n. PICK n \in Nat : n = Len(lost)
  BY <1>l
<1>1. /\ p \in Nat /\ p < m /\ n = m - p /\ n \in Nat \ {0}
      /\ \A i \in 1..n : lost[i] = g.rosters[p + i]
  <2>1. g.rosters \in Seq(Roster) /\ p \in 1..(m - 1) /\ lost = SubSeq(g.rosters, p + 1, m)
    BY ViewIs, <1>m DEF EndsWith
  <2>2. p + 1 \in 1..Len(g.rosters) /\ m <= Len(g.rosters)
    BY <1>m, <2>1
  <2>3. Len(lost) = m - p /\ \A i \in 1..(m - p) : lost[i] = g.rosters[p + i]
    BY <2>1, <2>2
  <2> QED
    BY <1>n, <2>1, <2>3
<1>2. lost[n] = current(g)
  <2>1. n \in 1..n /\ p + n = m
    BY <1>1, <1>m
  <2> QED
    BY <1>1, <1>m, <2>1 DEF current
<1> DEFINE added(i) == IF lost[i].signer = g.me
                       THEN members_without(lost[i], Before(g.rosters[p], lost, i)) \cap current(g).members
                       ELSE {}
           removed(i) == members_without(Before(g.rosters[p], lost, i), lost[i])
                           \ ({g.me} \cup current(g).members)
           change(j) == IF j % 2 = 1
                        THEN [kind |-> "Added",   ids |-> added((j + 1) \div 2)]
                        ELSE [kind |-> "Removed", ids |-> removed(j \div 2)]
           list == changes_to_reapply(g.rosters[p], lost, g.me)
<1>3. list = [j \in 1..(2 * n) |-> change(j)]
  BY <1>2, <1>n DEF changes_to_reapply
<1> HIDE DEF list
<1>4. Len(list) = 2 * n /\ \A j \in 1..(2 * n) : list[j] = change(j)
  <2> HIDE DEF change
  <2>1. 2 * n \in Nat
    BY <1>1
  <2> QED
    BY <1>3, <2>1
<1>5. ASSUME NEW x \in DroppedRemovals(g, h)
      PROVE  Listed(list, x)
  <2>1. /\ x # g.me /\ x \notin current(g).members
        /\ \E i \in 2..m : p < i /\ x \in members_without(g.rosters[i - 1], g.rosters[i])
    <3>1. Len(g.rosters) \in Nat /\ p \in Nat
      BY <1>1, <1>m
    <3> QED
      BY <1>m, <3>1, DroppedAfter
  <2>2. PICK i \in 2..m : p < i /\ x \in members_without(g.rosters[i - 1], g.rosters[i])
    BY <2>1
  <2>t. PICK t \in Nat : t = i - p
    BY <1>1, <2>2
  <2>3. /\ t \in 1..n /\ p + t = i /\ 2 * t \in 1..(2 * n)
        /\ (2 * t) % 2 = 0 /\ (2 * t) \div 2 = t
    <3>1. i \in Nat /\ 2 <= i /\ i <= m /\ p < i
      BY <1>m, <2>2
    <3>2. t >= 1 /\ t <= n /\ p + t = i
      BY <1>1, <2>t, <3>1
    <3>3. 2 * t \in 1..(2 * n)
      BY <1>1, <3>2
    <3>4. (2 * t) % 2 = 0 /\ (2 * t) \div 2 = t
      OBVIOUS
    <3> QED
      BY <3>2, <3>3, <3>4
  <2>4. lost[t] = g.rosters[i]
    BY <1>1, <2>3
  <2>5. Before(g.rosters[p], lost, t) = g.rosters[i - 1]
    <3>1. CASE t = 1
      <4>1. i - 1 = p
        BY <1>1, <2>2, <2>t, <3>1
      <4> QED
        BY <3>1, <4>1 DEF Before
    <3>2. CASE t # 1
      <4>1. t - 1 \in 1..n /\ p + (t - 1) = i - 1
        BY <1>1, <2>3, <3>2
      <4> QED
        BY <1>1, <3>2, <4>1 DEF Before
    <3> QED
      BY <3>1, <3>2
  <2>6. x \in removed(t)
    BY <2>1, <2>2, <2>4, <2>5
  <2> HIDE DEF removed, added
  <2>7. list[2 * t] = [kind |-> "Removed", ids |-> removed(t)]
    BY <1>4, <2>3
  <2> QED
    BY <1>4, <2>3, <2>6, <2>7 DEF Listed
<1>6. ASSUME NEW j \in 1..Len(list), list[j].kind = "Added"
      PROVE  list[j].ids \subseteq current(g).members
  <2>1. list[j] = change(j)
    BY <1>4
  <2>2. \A i : added(i) \subseteq current(g).members
    OBVIOUS
  <2> HIDE DEF added, removed
  <2> QED
    BY <1>6, <2>1, <2>2
<1>7. list # <<>>
  <2>1. Len(list) # 0
    BY <1>1, <1>4
  <2> QED
    BY <2>1
<1>8. Redoes(g, h, list)
  BY <1>5, <1>6 DEF Redoes, AddsWithin
<1> QED
  BY <1>7, <1>8 DEF list

-----------------------------------------------------------------------------
(* Two views whose ends are the same roster, or one roster and its         *)
(* successor, hold the same rosters as far back as both reach.             *)
Holds(h, r) == \E j \in 1..Len(h.rosters) : h.rosters[j] = r

LEMMA ParentsAgree ==
  ASSUME NEW S, HashesDiffer(S), NEW g, NEW h, GoodView(g, S), GoodView(h, S),
         NEW i \in Nat, i + 1 \in 1..Len(g.rosters), i >= 1,
         g.rosters[i].epoch >= h.rosters[1].epoch, Holds(h, g.rosters[i + 1])
  PROVE  Holds(h, g.rosters[i])
<1>m. PICK m \in Nat : m = Len(g.rosters)
  BY ViewIs
<1>n. PICK n \in Nat : n = Len(h.rosters)
  BY ViewIs
<1>e. PICK e \in Nat : e = g.rosters[1].epoch
  BY ViewIs
<1>f. PICK f \in Nat : f = h.rosters[1].epoch
  BY ViewIs
<1>1. PICK j \in 1..n : h.rosters[j] = g.rosters[i + 1]
  BY <1>n DEF Holds
<1>2. i \in 1..m /\ i + 1 \in 1..m /\ i \in 1..(m - 1)
  BY <1>m
<1>3. g.rosters[i].epoch = e + i - 1 /\ g.rosters[i + 1].epoch = e + (i + 1) - 1
  BY <1>2, <1>m, <1>e, ViewIs
<1>4. h.rosters[j].epoch = f + j - 1
  BY <1>n, <1>f, ViewIs
<1>5. f + j - 1 = e + (i + 1) - 1
  BY <1>1, <1>3, <1>4
<1>6. e + i - 1 >= f
  BY <1>3, <1>f
<1>7. j \in Nat /\ j - 1 \in 1..n /\ j - 1 \in 1..(n - 1) /\ (j - 1) + 1 = j
  BY <1>5, <1>6
<1>8. check_successor(g.rosters[i], g.rosters[i + 1])
  BY <1>2, <1>m, ViewIs DEF Linked
<1>9. check_successor(h.rosters[j - 1], h.rosters[(j - 1) + 1])
  BY <1>7, <1>n, ViewIs DEF Linked
<1>10. check_successor(h.rosters[j - 1], h.rosters[j])
  BY <1>7, <1>9
<1>11. h.rosters[j - 1].hash = g.rosters[i].hash
  BY <1>1, <1>8, <1>10 DEF check_successor
<1>12. g.rosters[i] \in S
  BY <1>2, <1>m, ViewIs
<1>13. h.rosters[j - 1] \in S
  BY <1>7, <1>n, ViewIs
<1>14. h.rosters[j - 1] = g.rosters[i]
  BY <1>11, <1>12, <1>13 DEF HashesDiffer
<1> QED
  BY <1>7, <1>n, <1>14 DEF Holds

LEMMA SameEnds ==
  ASSUME NEW S, HashesDiffer(S), NEW g, NEW h, GoodView(g, S), GoodView(h, S),
         Holds(h, current(g))
  PROVE  KeepsFirst(g, h, Len(g.rosters))
<1>m. PICK m \in Nat \ {0} : m = Len(g.rosters)
  BY ViewIs
<1>e. PICK e \in Nat : e = g.rosters[1].epoch
  BY ViewIs
<1>f. PICK f \in Nat : f = h.rosters[1].epoch
  BY ViewIs
<1>ep. \A i \in 1..m : g.rosters[i].epoch = e + i - 1
  BY <1>m, <1>e, ViewIs
<1> DEFINE T == {k \in 0..(m - 1) : g.rosters[m - k].epoch >= f /\ ~Holds(h, g.rosters[m - k])}
<1>1. T = {}
  <2>1. SUFFICES ASSUME T # {} PROVE FALSE
    OBVIOUS
  <2>2. T \subseteq Nat
    OBVIOUS
  <2>k. PICK k \in T : \A l \in T : k <= l
    BY <2>1, <2>2, LeastOf
  <2>3. k \in 0..(m - 1) /\ g.rosters[m - k].epoch >= f /\ ~Holds(h, g.rosters[m - k])
    BY <2>k
  <2>4. k # 0
    <3>1. SUFFICES ASSUME k = 0 PROVE FALSE
      OBVIOUS
    <3>2. m - k = m
      BY <3>1
    <3>3. g.rosters[m - k] = current(g)
      BY <3>2, <1>m DEF current
    <3> QED
      BY <2>3, <3>3
  <2>i. PICK i \in Nat : i = m - k
    BY <2>3
  <2>5. /\ i >= 1 /\ i + 1 \in 1..m /\ m - (k - 1) = i + 1
        /\ k - 1 \in 0..(m - 1) /\ ~(k <= k - 1) /\ i \in 1..m
    BY <2>3, <2>4, <2>i
  <2>6. k - 1 \notin T
    BY <2>5, <2>k
  <2>7. g.rosters[i].epoch = e + i - 1 /\ g.rosters[i + 1].epoch = e + (i + 1) - 1
    BY <1>ep, <2>5
  <2>8. g.rosters[i].epoch >= f /\ ~Holds(h, g.rosters[i])
    BY <2>3, <2>i
  <2>9. g.rosters[i + 1].epoch >= f
    BY <2>7, <2>8
  <2>10. Holds(h, g.rosters[i + 1])
    BY <2>5, <2>6, <2>9
  <2>11. i + 1 \in 1..Len(g.rosters)
    BY <2>5, <1>m
  <2>12. g.rosters[i].epoch >= h.rosters[1].epoch
    BY <2>8, <1>f
  <2>13. Holds(h, g.rosters[i])
    BY <2>5, <2>10, <2>11, <2>12, ParentsAgree
  <2> QED
    BY <2>8, <2>13
<1>2. ASSUME NEW i \in 1..m, g.rosters[i].epoch >= f
      PROVE  Holds(h, g.rosters[i])
  <2>k. PICK k \in 0..(m - 1) : m - k = i
    <3>1. m - i \in 0..(m - 1) /\ m - (m - i) = i
      OBVIOUS
    <3> QED
      BY <3>1
  <2>1. k \notin T
    BY <1>1
  <2> QED
    BY <1>2, <2>k, <2>1
<1> QED
  BY <1>2, <1>m, <1>f DEF KeepsFirst, Holds

(* The copy with the new device on it, when its parent is still current.   *)
LEMMA CopyKeeps ==
  ASSUME NEW S, HashesDiffer(S), NEW g, NEW h, GoodView(g, S), GoodView(h, S),
         Len(h.rosters) >= 2, current(h).prev = current(g).hash
  PROVE  KeepsFirst(g, h, Len(g.rosters))
<1>n. PICK n \in Nat : n = Len(h.rosters)
  BY ViewIs
<1>1. n - 1 \in 1..n /\ n - 1 \in 1..(n - 1) /\ (n - 1) + 1 = n
  BY <1>n
<1>2. check_successor(h.rosters[n - 1], h.rosters[(n - 1) + 1])
  BY <1>1, <1>n, ViewIs DEF Linked
<1>3. h.rosters[n - 1].hash = current(g).hash
  BY <1>1, <1>2, <1>n DEF check_successor, current
<1>4. h.rosters[n - 1] \in S
  BY <1>1, <1>n, ViewIs
<1>5. current(g) \in S
  BY ViewIs
<1>6. h.rosters[n - 1] = current(g)
  BY <1>3, <1>4, <1>5 DEF HashesDiffer
<1>7. Holds(h, current(g))
  BY <1>1, <1>6, <1>n DEF Holds
<1> QED
  BY <1>7, SameEnds

-----------------------------------------------------------------------------
(* What is still to redo after one change.                                 *)
LEMMA TailIs ==
  ASSUME NEW s \in Seq(Change), s # <<>>
  PROVE  /\ Len(s) \in Nat \ {0} /\ Len(Tail(s)) = Len(s) - 1 /\ Tail(s) \in Seq(Change)
         /\ \A j \in 1..(Len(s) - 1) : Tail(s)[j] = s[j + 1]
OBVIOUS

LEMMA TailHas ==
  ASSUME NEW s \in Seq(Change), s # <<>>
  PROVE  /\ \A y : Listed(s, y) => Listed(Tail(s), y) \/ (s[1].kind = "Removed" /\ y \in s[1].ids)
         /\ \A M : AddsWithin(s, M) => AddsWithin(Tail(s), M)
<1>n. PICK n \in Nat \ {0} : n = Len(s)
  BY TailIs
<1>t. PICK t : t = Tail(s)
  OBVIOUS
<1>1. Len(t) = n - 1 /\ \A j \in 1..(n - 1) : t[j] = s[j + 1]
  BY <1>n, <1>t, TailIs
<1>2. ASSUME NEW y, Listed(s, y), ~(s[1].kind = "Removed" /\ y \in s[1].ids)
      PROVE  Listed(t, y)
  <2>1. PICK j \in 1..n : s[j].kind = "Removed" /\ y \in s[j].ids
    BY <1>2, <1>n DEF Listed
  <2>2. j # 1
    BY <1>2, <2>1
  <2>3. j - 1 \in 1..(n - 1) /\ (j - 1) + 1 = j
    BY <2>2
  <2>4. t[j - 1] = s[j]
    BY <1>1, <2>3
  <2> QED
    BY <1>1, <2>1, <2>3, <2>4 DEF Listed
<1>3. ASSUME NEW M, AddsWithin(s, M)
      PROVE  AddsWithin(t, M)
  <2>1. SUFFICES ASSUME NEW j \in 1..(n - 1), t[j].kind = "Added"
                 PROVE  t[j].ids \subseteq M
    BY <1>1 DEF AddsWithin
  <2>2. j + 1 \in 1..n /\ t[j] = s[j + 1]
    BY <1>1
  <2> QED
    BY <1>3, <1>n, <2>1, <2>2 DEF AddsWithin
<1>4. \A y : Listed(s, y) => Listed(t, y) \/ (s[1].kind = "Removed" /\ y \in s[1].ids)
  BY <1>2
<1>5. \A M : AddsWithin(s, M) => AddsWithin(t, M)
  BY <1>3
<1> QED
  BY <1>4, <1>5, <1>t

LEMMA ConsIs ==
  ASSUME NEW s \in Seq(Change), s # <<>>, NEW c \in Change
  PROVE  /\ Len(<<c>> \o Tail(s)) = Len(s) /\ (<<c>> \o Tail(s))[1] = c
         /\ \A j \in 2..Len(s) : (<<c>> \o Tail(s))[j] = s[j]
<1>n. PICK n \in Nat \ {0} : n = Len(s)
  BY TailIs
<1>t. PICK t \in Seq(Change) : t = Tail(s)
  BY TailIs
<1>1. Len(t) = n - 1 /\ \A j \in 1..(n - 1) : t[j] = s[j + 1]
  BY <1>n, <1>t, TailIs
<1>2. /\ Len(<<c>> \o t) = 1 + Len(t) /\ (<<c>> \o t)[1] = c
      /\ \A j \in 2..(1 + Len(t)) : (<<c>> \o t)[j] = t[j - 1]
  OBVIOUS
<1>3. ASSUME NEW j \in 2..n
      PROVE  (<<c>> \o t)[j] = s[j]
  <2>1. j \in 2..(1 + Len(t)) /\ j - 1 \in 1..(n - 1) /\ (j - 1) + 1 = j
    BY <1>1
  <2>2. t[j - 1] = s[j]
    BY <1>1, <2>1
  <2> QED
    BY <1>2, <2>1, <2>2
<1>4. Len(<<c>> \o t) = n
  BY <1>1, <1>2
<1> QED
  BY <1>2, <1>3, <1>4, <1>n, <1>t

LEMMA WithoutHas ==
  ASSUME NEW s \in Seq(Change), s # <<>>, NEW x
  PROVE  /\ \A y : Listed(s, y) => Listed(Without(s, x), y) \/ (s[1].kind = "Removed" /\ y = x)
         /\ \A M : AddsWithin(s, M) => AddsWithin(Without(s, x), M)
<1>1. CASE s[1].ids = {x}
  BY <1>1, TailHas DEF Without
<1>2. CASE s[1].ids # {x}
  <2> DEFINE c == [kind |-> s[1].kind, ids |-> s[1].ids \ {x}]
             t == <<c>> \o Tail(s)
  <2>1. s[1] \in Change
    OBVIOUS
  <2>2. c \in Change /\ c.kind = s[1].kind /\ c.ids = s[1].ids \ {x}
    BY <2>1 DEF Change
  <2>3. Without(s, x) = t
    BY <1>2 DEF Without
  <2> HIDE DEF c
  <2>n. PICK n \in Nat \ {0} : n = Len(s)
    BY TailIs
  <2>4. Len(t) = n /\ t[1] = c /\ \A j \in 2..n : t[j] = s[j]
    BY <2>2, <2>n, ConsIs
  <2> HIDE DEF t
  <2>5. ASSUME NEW y, Listed(s, y), ~(s[1].kind = "Removed" /\ y = x)
        PROVE  Listed(t, y)
    <3>1. PICK j \in 1..n : s[j].kind = "Removed" /\ y \in s[j].ids
      BY <2>5, <2>n DEF Listed
    <3>2. CASE j = 1
      BY <2>2, <2>4, <2>5, <3>1, <3>2 DEF Listed
    <3>3. CASE j # 1
      <4>1. j \in 2..n
        BY <3>3
      <4> QED
        BY <2>4, <3>1, <4>1 DEF Listed
    <3> QED
      BY <3>2, <3>3
  <2>6. ASSUME NEW M, AddsWithin(s, M)
        PROVE  AddsWithin(t, M)
    <3>1. SUFFICES ASSUME NEW j \in 1..n, t[j].kind = "Added"
                   PROVE  t[j].ids \subseteq M
      BY <2>4 DEF AddsWithin
    <3>2. CASE j = 1
      <4>1. s[1].kind = "Added" /\ 1 \in 1..n
        BY <2>2, <2>4, <3>1, <3>2
      <4>2. s[1].ids \subseteq M
        BY <2>6, <2>n, <4>1 DEF AddsWithin
      <4> QED
        BY <2>2, <2>4, <3>2, <4>2
    <3>3. CASE j # 1
      <4>1. j \in 2..n
        BY <3>3
      <4> QED
        BY <2>4, <2>6, <2>n, <3>1, <4>1 DEF AddsWithin
    <3> QED
      BY <3>2, <3>3
  <2>7. \A y : Listed(s, y) => Listed(t, y) \/ (s[1].kind = "Removed" /\ y = x)
    BY <2>5
  <2>8. \A M : AddsWithin(s, M) => AddsWithin(t, M)
    BY <2>6
  <2> QED
    BY <2>3, <2>7, <2>8
<1> QED
  BY <1>1, <1>2

-----------------------------------------------------------------------------
(* What each outcome of adopting a branch leaves of the removals.          *)
Sticks(g, h) == is_member(h) => DroppedRemovals(g, h) \cap current(h).members = {}

LEMMA OutcomeUpdate ==
  ASSUME NEW o, NEW u, NEW g, NEW r, o = Outcome(u, g, r)
  PROVE  o.update = u /\ o.group = g /\ o.reapply = r
BY DEF Outcome

HeldAfter(g, branch) == SubSeq(g.rosters, ForkPoint(g, branch) + 1, Len(g.rosters))

LEMMA HeldIsEnd ==
  ASSUME NEW S, NEW g, GoodView(g, S), NEW p \in 1..Len(g.rosters)
  PROVE  LET lost == SubSeq(g.rosters, p + 1, Len(g.rosters))
         IN  /\ lost = <<>> => p = Len(g.rosters)
             /\ lost # <<>> => p \in 1..(Len(g.rosters) - 1)
             /\ lost \in Seq(Roster)
<1>m. PICK m \in Nat : m = Len(g.rosters)
  BY ViewIs
<1>r. PICK r \in Seq(Roster) : r = g.rosters
  BY ViewIs
<1>1. p \in 1..m /\ m = Len(r)
  BY <1>m, <1>r
<1>2. SubSeq(r, p + 1, m) \in Seq(Roster) /\ Len(SubSeq(r, p + 1, m)) = m - p
  BY <1>1
<1>3. SubSeq(r, p + 1, m) = <<>> => p = m
  <2>1. SubSeq(r, p + 1, m) = <<>> => m - p = 0
    BY <1>2
  <2> QED
    BY <1>1, <2>1
<1>4. SubSeq(r, p + 1, m) # <<>> => p \in 1..(m - 1)
  <2>1. SubSeq(r, p + 1, m) # <<>> => m - p # 0
    BY <1>2
  <2> QED
    BY <1>1, <2>1
<1> QED
  BY <1>2, <1>3, <1>4, <1>m, <1>r

LEMMA GoodIsSome ==
  ASSUME NEW S, NEW g, GoodView(g, S)
  PROVE  g # NoGroup
<1>1. DOMAIN g = {"me", "rosters", "keys"} /\ DOMAIN NoGroup = {"me"}
  BY DEF GoodView, GroupView, NoGroup
<1> QED
  BY <1>1

LEMMA AdoptSticks ==
  ASSUME NEW S, NEW n, SignedBelow(S, n), NEW g, GoodView(g, S), g # NoGroup,
         NEW branch, GoodChain(branch, S), Linked(branch), Attaches(g, branch)
  PROVE  LET o == Adopt(g, branch)
         IN  /\ o.update = "RemovedThisDevice" => ~is_member(o.group) /\ o.reapply = <<>>
             /\ o.update = "Advanced" => KeepsFirst(g, o.group, Len(g.rosters)) /\ o.reapply = <<>>
             /\ o.update = "Replaced" => Redoes(g, o.group, o.reapply) /\ o.reapply # <<>>
             /\ \/ ~is_member(o.group)
                \/ o.group = AfterFork(g, branch)
<1> DEFINE p == ForkPoint(g, branch)
           parent == g.rosters[p]
           lost == SubSeq(g.rosters, p + 1, Len(g.rosters))
           after == AfterFork(g, branch)
           wiped == [after EXCEPT !.keys = {}]
           changes == changes_to_reapply(parent, lost, g.me)
           o == Adopt(g, branch)
<1>1. /\ p \in 1..Len(g.rosters) /\ KeepsFirst(g, after, p) /\ GoodView(after, S)
  BY AdoptKeeps
<1>2. \/ ~is_member(after) /\ o = Outcome("RemovedThisDevice", wiped, <<>>)
      \/ lost = <<>> /\ o = Outcome("Advanced", after, <<>>)
      \/ lost # <<>> /\ o = Outcome("Replaced", after, changes)
  BY DEF Adopt, AfterFork
<1> HIDE DEF p, after
<1>3. /\ lost = <<>> => p = Len(g.rosters)
      /\ lost # <<>> => p \in 1..(Len(g.rosters) - 1)
      /\ lost \in Seq(Roster)
  BY <1>1, HeldIsEnd
<1>4. EndsWith(g, p, lost)
  BY DEF EndsWith
<1> HIDE DEF lost, o, wiped, changes
<1>5. CASE ~is_member(after) /\ o = Outcome("RemovedThisDevice", wiped, <<>>)
  <2>1. wiped.me = after.me /\ wiped.rosters = after.rosters
    BY <1>1 DEF wiped, GoodView, GroupView
  <2>2. ~is_member(wiped)
    BY <1>5, <2>1 DEF is_member, current
  <2>3. o.update = "RemovedThisDevice" /\ o.group = wiped /\ o.reapply = <<>>
    BY <1>5, OutcomeUpdate
  <2> QED
    BY <2>2, <2>3 DEF o
<1>6. CASE lost = <<>> /\ o = Outcome("Advanced", after, <<>>)
  <2>1. o.update = "Advanced" /\ o.group = after /\ o.reapply = <<>>
    BY <1>6, OutcomeUpdate
  <2>2. KeepsFirst(g, after, Len(g.rosters))
    BY <1>1, <1>3, <1>6
  <2> QED
    BY <2>1, <2>2 DEF o, after
<1>7. CASE lost # <<>> /\ o = Outcome("Replaced", after, changes)
  <2>1. o.update = "Replaced" /\ o.group = after /\ o.reapply = changes
    BY <1>7, OutcomeUpdate
  <2>2. after # NoGroup
    BY <1>1, GoodIsSome
  <2>3. /\ Redoes(g, after, changes_to_reapply(g.rosters[p], lost, g.me))
        /\ changes_to_reapply(g.rosters[p], lost, g.me) # <<>>
    BY <1>1, <1>3, <1>4, <1>7, <2>2, ReapplyHasAll
  <2> QED
    BY <2>1, <2>3 DEF o, after, changes
<1> QED
  BY <1>2, <1>5, <1>6, <1>7 DEF o, after

-----------------------------------------------------------------------------
(* What apply_chain comes to: the view as it was, or a branch adopted that *)
(* continues the rosters held or beats them.                               *)
Wins(g, branch, S) ==
  /\ GoodChain(branch, S) /\ Linked(branch) /\ Attaches(g, branch)
  /\ HeldAfter(g, branch) # <<>> =>
       fork_winner(g.rosters[ForkPoint(g, branch)], branch, HeldAfter(g, branch))

LEMMA ApplyIs ==
  ASSUME NEW S, NEW g, GoodView(g, S), NEW chain, GoodChain(chain, S)
  PROVE  \/ /\ apply_chain(g, chain).group = g
            /\ apply_chain(g, chain).update \notin {"Advanced", "RemovedThisDevice", "Replaced"}
         \/ /\ Incoming(g, chain) # <<>>
            /\ Wins(g, Incoming(g, chain), S)
            /\ apply_chain(g, chain) = Adopt(g, Incoming(g, chain))
<1> DEFINE branch == Incoming(g, chain)
<1>1. CASE ~WellFormedChain(g, chain)
  BY <1>1 DEF apply_chain, Outcome
<1>2. CASE WellFormedChain(g, chain) /\ branch = <<>>
  BY <1>2 DEF apply_chain, Outcome
<1>3. CASE WellFormedChain(g, chain) /\ branch # <<>> /\ ~Attaches(g, branch)
  BY <1>3 DEF apply_chain, Outcome
<1>4. CASE WellFormedChain(g, chain) /\ branch # <<>> /\ Attaches(g, branch)
  <2>1. GoodChain(branch, S) /\ Linked(branch)
    BY <1>4, IncomingIsGood DEF WellFormedChain
  <2> DEFINE loses == /\ HeldAfter(g, branch) # <<>>
                      /\ ~fork_winner(g.rosters[ForkPoint(g, branch)], branch, HeldAfter(g, branch))
  <2>2. apply_chain(g, chain) = IF loses THEN Outcome("ForkLost", g, <<>>) ELSE Adopt(g, branch)
    BY <1>4 DEF apply_chain, HeldAfter
  <2>3. CASE loses
    <3>1. apply_chain(g, chain) = Outcome("ForkLost", g, <<>>)
      BY <2>2, <2>3
    <3>2. apply_chain(g, chain).update = "ForkLost" /\ apply_chain(g, chain).group = g
      BY <3>1, OutcomeUpdate
    <3> QED
      BY <3>2
  <2>4. CASE ~loses
    <3>1. apply_chain(g, chain) = Adopt(g, branch)
      BY <2>2, <2>4
    <3>2. Wins(g, branch, S)
      BY <1>4, <2>1, <2>4 DEF Wins
    <3> QED
      BY <1>4, <3>1, <3>2
  <2> QED
    BY <2>3, <2>4
<1> QED
  BY <1>1, <1>2, <1>3, <1>4

(* Receiving a chain.                                                      *)
LEMMA ApplySticks ==
  ASSUME NEW S, NEW n, SignedBelow(S, n), NEW g, GoodView(g, S), NEW chain, GoodChain(chain, S)
  PROVE  LET o == apply_chain(g, chain)
         IN  /\ o.update = "RemovedThisDevice" => ~is_member(o.group) /\ o.reapply = <<>>
             /\ o.update = "Advanced" => KeepsFirst(g, o.group, Len(g.rosters)) /\ o.reapply = <<>>
             /\ o.update = "Replaced" => Redoes(g, o.group, o.reapply) /\ o.reapply # <<>>
<1> DEFINE o == apply_chain(g, chain)
           branch == Incoming(g, chain)
<1>1. CASE o.update \notin {"Advanced", "RemovedThisDevice", "Replaced"}
  BY <1>1
<1>2. CASE o.update \in {"Advanced", "RemovedThisDevice", "Replaced"}
  <2>1. Wins(g, branch, S) /\ o = Adopt(g, branch)
    BY <1>2, ApplyIs
  <2>2. g # NoGroup
    BY GoodIsSome
  <2>3. GoodChain(branch, S) /\ Linked(branch) /\ Attaches(g, branch)
    BY <2>1 DEF Wins
  <2> HIDE DEF branch
  <2>4. LET a == Adopt(g, branch)
        IN  /\ a.update = "RemovedThisDevice" => ~is_member(a.group) /\ a.reapply = <<>>
            /\ a.update = "Advanced" => KeepsFirst(g, a.group, Len(g.rosters)) /\ a.reapply = <<>>
            /\ a.update = "Replaced" => Redoes(g, a.group, a.reapply) /\ a.reapply # <<>>
    BY <2>2, <2>3, AdoptSticks
  <2> QED
    BY <2>1, <2>4
<1> QED
  BY <1>1, <1>2

(* What was dropped had been removed along the branch that was dropped.    *)
LEMMA DroppedAlong ==
  ASSUME NEW S, NEW g, GoodView(g, S), NEW p \in 1..Len(g.rosters),
         NEW h, KeepsFirst(g, h, p), NEW lost, EndsWith(g, p, lost),
         NEW x \in DroppedRemovals(g, h)
  PROVE  x \in removed_along(g.rosters[p], lost) /\ lost # <<>>
<1>m. PICK m \in Nat : m = Len(g.rosters)
  BY ViewIs
<1>r. PICK r \in Seq(Roster) : r = g.rosters
  BY ViewIs
<1>1. p \in Nat /\ p \in 1..m /\ Len(r) = m
  BY <1>m, <1>r
<1>2. lost = SubSeq(r, p + 1, m)
  BY <1>m, <1>r DEF EndsWith
<1>3. /\ Len(SubSeq(r, p + 1, m)) = m - p
      /\ \A i \in 1..(m - p) : SubSeq(r, p + 1, m)[i] = r[p + i]
  BY <1>1
<1>4. Len(lost) = m - p /\ \A i \in 1..(m - p) : lost[i] = r[p + i]
  BY <1>2, <1>3
<1>5. \E i \in 2..m : p < i /\ x \in members_without(r[i - 1], r[i])
  BY <1>1, <1>m, <1>r, DroppedAfter
<1>6. PICK i \in 2..m : p < i /\ x \in members_without(r[i - 1], r[i])
  BY <1>5
<1>t. PICK t \in Nat : t = i - p
  BY <1>1, <1>6
<1>7. t \in 1..(m - p) /\ p + t = i
  BY <1>1, <1>6, <1>t
<1>8. lost[t] = r[i]
  BY <1>4, <1>7
<1>9. Before(r[p], lost, t) = r[i - 1]
  <2>1. CASE t = 1
    <3>1. i - 1 = p
      BY <1>1, <1>7, <2>1
    <3> QED
      BY <2>1, <3>1 DEF Before
  <2>2. CASE t # 1
    <3>1. t - 1 \in 1..(m - p) /\ p + (t - 1) = i - 1
      BY <1>1, <1>7, <2>2
    <3> QED
      BY <1>4, <2>2, <3>1 DEF Before
  <2> QED
    BY <2>1, <2>2
<1>10. x \in members_without(Before(r[p], lost, t), lost[t]) /\ t \in 1..Len(lost)
  BY <1>4, <1>6, <1>7, <1>8, <1>9
<1>11. x \in removed_along(r[p], lost)
  BY <1>10 DEF removed_along
<1>12. lost # <<>>
  BY <1>7, <1>4
<1> QED
  BY <1>11, <1>12, <1>r

(* A branch of one roster that only adds beats no branch that has removed  *)
(* a device it lists.                                                      *)
LEMMA AdditionBeatsNoRemoval ==
  ASSUME NEW parent, NEW branch, NEW held, branch # <<>>, Len(branch) = 1,
         members_without(parent, branch[1]) = {}, fork_winner(parent, branch, held)
  PROVE  removed_along(parent, held) \cap branch[1].members = {}
<1>1. removed_along(parent, branch) = {}
  BY DEF removed_along, Before
<1>2. ~removes_signer(parent, branch, held) /\ ~removes_listed(parent, branch, held)
  BY <1>1 DEF removes_signer, removes_listed
<1>3. ~removes_listed(parent, held, branch)
  BY <1>2 DEF fork_winner
<1> QED
  BY <1>3 DEF removes_listed

(* Putting an admission on top the ordinary way.                           *)
LEMMA AdmissionSticks ==
  ASSUME NEW S, NEW n, SignedBelow(S, n), HashesDiffer(S), NEW g, GoodView(g, S), NEW r \in S,
         NEW p \in S, p.hash = r.prev, p.members \subseteq r.members
  PROVE  \/ apply_chain(g, <<r>>).group = g
         \/ Sticks(g, apply_chain(g, <<r>>).group)
<1> DEFINE chain == <<r>>
           o == apply_chain(g, chain)
           branch == Incoming(g, chain)
           at == ForkPoint(g, branch)
           parent == g.rosters[at]
           held == HeldAfter(g, branch)
           h == AfterFork(g, branch)
<1>r. r \in Roster
  BY DEF SignedBelow
<1>1. chain \in Seq(Roster) /\ Len(chain) = 1 /\ chain[1] = r /\ chain # <<>>
  BY <1>r
<1>2. GoodChain(chain, S)
  BY <1>1, <1>r DEF GoodChain, Consecutive, Roster
<1> HIDE DEF chain
<1>3. SUFFICES ASSUME o.group # g, is_member(o.group)
               PROVE  DroppedRemovals(g, o.group) \cap current(o.group).members = {}
  BY DEF Sticks, chain
<1>4. branch # <<>> /\ Wins(g, branch, S) /\ o = Adopt(g, branch)
  BY <1>2, <1>3, ApplyIs
<1>5. branch = chain
  <2>1. Skip(g, chain) \in 0..1
    BY <1>1, SkipIsInside
  <2>2. branch = SubSeq(chain, Skip(g, chain) + 1, 1)
    BY <1>1 DEF Incoming
  <2>3. CASE Skip(g, chain) = 0
    <3>1. branch = SubSeq(chain, 1, 1)
      BY <2>2, <2>3
    <3> QED
      BY <1>1, <3>1
  <2>4. CASE Skip(g, chain) = 1
    <3>1. branch = SubSeq(chain, 2, 1)
      BY <2>2, <2>4
    <3> QED
      BY <1>1, <1>4, <3>1
  <2> QED
    BY <2>1, <2>3, <2>4
<1>6. GoodChain(branch, S) /\ Linked(branch) /\ Attaches(g, branch)
  BY <1>4 DEF Wins
<1>7. Len(branch) = 1 /\ branch[1] = r
  BY <1>1, <1>5
<1>8. o.group = h
  <2>1. g # NoGroup
    BY GoodIsSome
  <2> HIDE DEF branch
  <2>2. ~is_member(Adopt(g, branch).group) \/ Adopt(g, branch).group = AfterFork(g, branch)
    BY <1>6, <2>1, AdoptSticks
  <2> QED
    BY <1>3, <1>4, <2>2
<1>9. HeldAfter(g, branch) # <<>> => fork_winner(parent, branch, held)
  BY <1>4 DEF Wins
<1> HIDE DEF branch, o
<1>10. /\ at \in 1..Len(g.rosters) /\ KeepsFirst(g, h, at)
       /\ GoodView(h, S) /\ current(h) = branch[Len(branch)]
  BY <1>6, AdoptKeeps
<1>11. check_successor(parent, branch[1])
  BY <1>6, ForkPointIsInside
<1> HIDE DEF h, at
<1>12. current(h) = r
  BY <1>7, <1>10
<1>13. parent = p
  <2>1. parent \in S
    BY <1>10, ViewIs
  <2>2. parent.hash = r.prev
    BY <1>7, <1>11 DEF check_successor
  <2> QED
    BY <2>1, <2>2 DEF HashesDiffer
<1>14. members_without(parent, branch[1]) = {}
  BY <1>7, <1>13 DEF members_without
<1>15. EndsWith(g, at, held)
  BY DEF EndsWith, HeldAfter, at
<1> HIDE DEF held, parent
<1>16. ASSUME NEW x \in DroppedRemovals(g, h), x \in r.members
       PROVE  FALSE
  <2>1. x \in removed_along(g.rosters[at], held) /\ held # <<>>
    BY <1>10, <1>15, DroppedAlong
  <2>2. fork_winner(parent, branch, held)
    BY <1>9, <2>1 DEF held
  <2>3. removed_along(parent, held) \cap branch[1].members = {}
    BY <1>4, <1>7, <1>14, <2>2, AdditionBeatsNoRemoval
  <2> QED
    BY <1>7, <1>16, <2>1, <2>3 DEF parent
<1> QED
  BY <1>8, <1>12, <1>16

-----------------------------------------------------------------------------
(* There is room: under the assumptions, only a device that is no member   *)
(* any more cannot redo a change.                                          *)
Lags(S) == \A r \in S : r.epoch < r.hash

LEMMA EpochsFit ==
  ASSUME Steady, NEW S, Lags(S), NEW g, GoodView(g, S)
  PROVE  current(g).epoch \in Nat /\ current(g).epoch + 1 <= MAX_EPOCH
<1>1. current(g) \in S /\ current(g) \in Roster
  BY ViewIs
<1>2. current(g).epoch < current(g).hash /\ current(g).hash \in Hash /\ current(g).epoch \in Nat
  BY <1>1 DEF Lags, Roster
<1>3. current(g).hash \in 1..MAX_EPOCH /\ MAX_EPOCH \in Nat
  BY <1>2, LimitsAssumption DEF Steady
<1> QED
  BY <1>2, <1>3

LEMMA RoomToRemove ==
  ASSUME Steady, NEW S, Lags(S), NEW g, GoodView(g, S), is_member(g), NEW x, is_peer(g, x)
  PROVE  CanRemove(g, g.me, x)
BY EpochsFit DEF CanRemove, MayChange

LEMMA RoomToAdd ==
  ASSUME Steady, NEW S, Lags(S), NEW g, GoodView(g, S), is_member(g), NEW x \in Identity, ~Taken(g, x)
  PROVE  CanAdd(g, g.me, x)
<1>1. current(g) \in Roster
  BY ViewIs
<1> DEFINE M == current(g).members
<1>2. M \in SUBSET Identity /\ x \notin M
  BY <1>1 DEF Roster, Taken
<1>3. IsFiniteSet(Identity) /\ Cardinality(Identity) <= MAX_MEMBERS /\ MAX_MEMBERS \in Nat
  BY LimitsAssumption DEF Steady
<1> HIDE DEF M
<1>4. IsFiniteSet(M) /\ Cardinality(M) <= Cardinality(Identity) /\ Cardinality(Identity) # Cardinality(M)
  BY <1>2, <1>3, FS_Subset
<1>5. Cardinality(M) \in Nat
  BY <1>4, FS_CardinalityType
<1>6. Cardinality(Identity) \in Nat
  BY <1>3, FS_CardinalityType
<1>7. Cardinality(M) < MAX_MEMBERS
  BY <1>3, <1>4, <1>5, <1>6
<1>8. current(g).epoch + 1 <= MAX_EPOCH
  BY EpochsFit
<1> QED
  BY <1>7, <1>8 DEF CanAdd, MayChange, M

-----------------------------------------------------------------------------
(* One iteration of the loop, seen at the views.                           *)
LEMMA RedoSkips ==
  ASSUME NEW g, NEW h, NEW s \in Seq(Change), s # <<>>, Redoes(g, h, s)
  PROVE  /\ s[1].ids = {} => Redoes(g, h, Tail(s))
         /\ \A x : (s[1].kind = "Added" \/ x \notin current(h).members \/ x = g.me)
                     => Redoes(g, h, Without(s, x))
<1>1. /\ g # NoGroup /\ h # NoGroup
      /\ is_member(h) => AddsWithin(s, current(g).members)
      /\ is_member(h) => \A y \in DroppedRemovals(g, h) \cap current(h).members : Listed(s, y)
  BY DEF Redoes
<1>2. ASSUME s[1].ids = {}
      PROVE  Redoes(g, h, Tail(s))
  <2>1. SUFFICES ASSUME is_member(h)
                 PROVE  /\ \A y \in DroppedRemovals(g, h) \cap current(h).members : Listed(Tail(s), y)
                        /\ AddsWithin(Tail(s), current(g).members)
    BY <1>1 DEF Redoes
  <2>2. AddsWithin(Tail(s), current(g).members)
    BY <1>1, <2>1, TailHas
  <2>3. \A y : Listed(s, y) => Listed(Tail(s), y)
    BY <1>2, TailHas
  <2> QED
    BY <1>1, <2>1, <2>2, <2>3
<1>3. ASSUME NEW x, s[1].kind = "Added" \/ x \notin current(h).members \/ x = g.me
      PROVE  Redoes(g, h, Without(s, x))
  <2>1. SUFFICES ASSUME is_member(h)
                 PROVE  /\ \A y \in DroppedRemovals(g, h) \cap current(h).members : Listed(Without(s, x), y)
                        /\ AddsWithin(Without(s, x), current(g).members)
    BY <1>1 DEF Redoes
  <2>2. AddsWithin(Without(s, x), current(g).members)
    BY <1>1, <2>1, WithoutHas
  <2>3. ASSUME NEW y \in DroppedRemovals(g, h), y \in current(h).members
        PROVE  Listed(Without(s, x), y)
    <3>1. Listed(s, y)
      BY <1>1, <2>1, <2>3
    <3>2. y # g.me
      BY DEF DroppedRemovals
    <3>3. ~(s[1].kind = "Removed" /\ y = x)
      BY <1>3, <2>3, <3>2
    <3> QED
      BY <3>1, <3>3, WithoutHas
  <2> QED
    BY <2>2, <2>3
<1> QED
  BY <1>2, <1>3

(* A change that is redone.                                                *)
LEMMA RedoDoes ==
  ASSUME NEW S, HashesDiffer(S), NEW g, NEW h, NEW k, NEW s \in Seq(Change), s # <<>>,
         Redoes(g, h, s), GoodView(g, S), GoodView(h, S), GoodView(k, S), KeepsAll(h, k),
         is_member(h), NEW x \in s[1].ids,
         \/ s[1].kind = "Added" /\ current(k).members = current(h).members \cup {x}
         \/ s[1].kind = "Removed" /\ current(k).members = current(h).members \ {x}
  PROVE  Redoes(g, k, Without(s, x))
<1>1. /\ g # NoGroup /\ h # NoGroup /\ AddsWithin(s, current(g).members)
      /\ \A y \in DroppedRemovals(g, h) \cap current(h).members : Listed(s, y)
  BY DEF Redoes
<1>2. k # NoGroup
  BY GoodIsSome
<1>3. DroppedRemovals(g, k) \subseteq DroppedRemovals(g, h)
  BY DroppedShrinks
<1>4. AddsWithin(Without(s, x), current(g).members)
  BY <1>1, WithoutHas
<1>5. ASSUME NEW y \in DroppedRemovals(g, k), y \in current(k).members
      PROVE  Listed(Without(s, x), y)
  <2>1. y \in current(h).members /\ ~(s[1].kind = "Removed" /\ y = x)
    <3>1. CASE s[1].kind = "Added" /\ current(k).members = current(h).members \cup {x}
      <4>1. 1 \in 1..Len(s)
        BY TailIs
      <4>2. x \in current(g).members
        BY <1>1, <3>1, <4>1 DEF AddsWithin
      <4>3. y \notin current(g).members
        BY DEF DroppedRemovals
      <4> QED
        BY <1>5, <3>1, <4>2, <4>3
    <3>2. CASE s[1].kind = "Removed" /\ current(k).members = current(h).members \ {x}
      BY <1>5, <3>2
    <3> QED
      BY <3>1, <3>2
  <2>2. Listed(s, y)
    BY <1>1, <1>3, <1>5, <2>1
  <2> QED
    BY <2>1, <2>2, WithoutHas
<1> QED
  BY <1>1, <1>2, <1>4, <1>5 DEF Redoes

(* When the list is empty, nothing is left undone.                         *)
LEMMA AllRedone ==
  ASSUME NEW g, NEW h, Redoes(g, h, <<>>)
  PROVE  Sticks(g, h)
<1>1. \A y : ~Listed(<<>>, y)
  BY DEF Listed
<1> QED
  BY <1>1 DEF Redoes, Sticks

LEMMA KeptSticks ==
  ASSUME NEW S, NEW g, GoodView(g, S), NEW h, KeepsFirst(g, h, Len(g.rosters))
  PROVE  Sticks(g, h)
<1>1. Len(g.rosters) \in Nat
  BY ViewIs
<1> QED
  BY <1>1, NothingDropped DEF Sticks

-----------------------------------------------------------------------------
(* The devices together: what a step writes to the file of one of them.    *)
Unbroken(d) ==
  \/ disk'[d].group = disk[d].group
  \/ joining'[d] # joining[d]
  \/ disk[d].group = NoGroup
  \/ Sticks(disk[d].group, disk'[d].group)

Same(e) ==
  /\ identity'[e] = identity[e] /\ group'[e] = group[e] /\ disk'[e] = disk[e]
  /\ redo'[e] = redo[e] /\ joining'[e] = joining[e] /\ admitting'[e] = admitting[e]

LEMMA OnlyAddsStays ==
  ASSUME signed \subseteq signed', NEW e, OnlyAdds(admitting[e]), admitting'[e] = admitting[e]
  PROVE  OnlyAdds(admitting[e])'
BY DEF OnlyAdds

LEMMA SameStays ==
  ASSUME StickInv, signed \subseteq signed', NEW e \in Device, Same(e)
  PROVE  StickyAt(e)' /\ Unbroken(e)
<1>1. StickyAt(e)
  BY DEF StickInv
<1>2. OwnView(e)'
  BY <1>1 DEF StickyAt, OwnView, Same
<1>3. (Idle(e) => disk[e].group = group[e])'
  BY <1>1 DEF StickyAt, Idle, Same
<1>4. (~Idle(e) => Redoes(disk[e].group, group[e], redo[e]))'
  BY <1>1 DEF StickyAt, Idle, Same
<1>5. (admitting[e] # None => OnlyAdds(admitting[e]))'
  <2>1. admitting'[e] = admitting[e]
    BY DEF Same
  <2>2. CASE admitting[e] = None
    BY <2>1, <2>2
  <2>3. CASE admitting[e] # None
    BY <1>1, <2>1, <2>3, OnlyAddsStays DEF StickyAt
  <2> QED
    BY <2>2, <2>3
<1> QED
  BY <1>2, <1>3, <1>4, <1>5 DEF StickyAt, Unbroken, Same

LEMMA KeepIs ==
  ASSUME Steady, Inv, NEW d \in Device, NEW k, Keep(d, k)
  PROVE  /\ group'[d] = k
         /\ disk'[d].group = k /\ disk'[d].identity = identity[d]
         /\ \A e \in Device \ {d} : group'[e] = group[e] /\ disk'[e] = disk[e]
<1>1. group \in [Device -> View] /\ disk \in [Device -> Stored]
  BY DEF Inv, TypeOK
<1>2. /\ group' = [group EXCEPT ![d] = k]
      /\ disk' = [disk EXCEPT ![d] = [identity |-> identity[d], group |-> k]]
  BY DEF Keep, Save, Steady
<1> QED
  BY <1>1, <1>2

(* What the device is doing besides stays as it was.                       *)
Meanwhile(d) ==
  /\ identity'[d] = identity[d]
  /\ joining'[d] \subseteq {identity[d]}
  /\ admitting'[d] = None \/ admitting'[d] = admitting[d]

LEMMA MeanwhileAdmits ==
  ASSUME StickInv, signed \subseteq signed', NEW d \in Device, Meanwhile(d)
  PROVE  /\ (admitting[d] # None => OnlyAdds(admitting[d]))'
         /\ (admitting[d] # None => admitting[d].group.me = identity[d])'
<1>1. StickyAt(d)
  BY DEF StickInv
<1>2. CASE admitting'[d] = None
  BY <1>2
<1>3. CASE admitting'[d] = admitting[d] /\ admitting[d] # None
  <2>1. OnlyAdds(admitting[d])'
    BY <1>1, <1>3, OnlyAddsStays DEF StickyAt
  <2>2. admitting'[d].group.me = identity'[d]
    BY <1>1, <1>3 DEF StickyAt, OwnView, Meanwhile
  <2> QED
    BY <2>1, <2>2
<1> QED
  BY <1>2, <1>3 DEF Meanwhile

(* A view is installed and saved.                                          *)
LEMMA KeepSettles ==
  ASSUME Steady, Inv, StickInv, signed \subseteq signed', NEW d \in Device, NEW k, Keep(d, k),
         k.me = identity[d], redo'[d] = <<>>, Meanwhile(d)
  PROVE  StickyAt(d)'
<1>1. /\ group'[d] = k /\ disk'[d].group = k /\ disk'[d].identity = identity[d]
  BY KeepIs
<1>2. /\ (admitting[d] # None => OnlyAdds(admitting[d]))'
      /\ (admitting[d] # None => admitting[d].group.me = identity[d])'
  BY MeanwhileAdmits
<1>3. OwnView(d)'
  BY <1>1, <1>2 DEF OwnView, Meanwhile
<1>4. Idle(d)' /\ disk'[d].group = group'[d]
  BY <1>1 DEF Idle
<1> QED
  BY <1>2, <1>3, <1>4 DEF StickyAt

(* The view changes and the file does not.                                 *)
LEMMA LoopGoesOn ==
  ASSUME Inv, StickInv, signed \subseteq signed', NEW d \in Device, NEW k,
         group'[d] = k, disk'[d] = disk[d], k.me = identity[d],
         redo'[d] # <<>>, Redoes(disk[d].group, k, redo'[d]), Meanwhile(d)
  PROVE  StickyAt(d)'
<1>1. StickyAt(d)
  BY DEF StickInv
<1>2. /\ (admitting[d] # None => OnlyAdds(admitting[d]))'
      /\ (admitting[d] # None => admitting[d].group.me = identity[d])'
  BY MeanwhileAdmits
<1>3. OwnView(d)'
  BY <1>1, <1>2 DEF StickyAt, OwnView, Meanwhile
<1>4. ~Idle(d)' /\ Redoes(disk'[d].group, group'[d], redo'[d])
  BY DEF Idle
<1> QED
  BY <1>2, <1>3, <1>4 DEF StickyAt

(* Neither the view nor the file changes.                                  *)
LEMMA NothingMoves ==
  ASSUME Inv, StickInv, signed \subseteq signed', NEW d \in Device,
         group'[d] = group[d], disk'[d] = disk[d], redo'[d] = redo[d], Meanwhile(d)
  PROVE  StickyAt(d)' /\ Unbroken(d)
<1>1. StickyAt(d)
  BY DEF StickInv
<1>2. /\ (admitting[d] # None => OnlyAdds(admitting[d]))'
      /\ (admitting[d] # None => admitting[d].group.me = identity[d])'
  BY MeanwhileAdmits
<1>3. OwnView(d)'
  BY <1>1, <1>2 DEF StickyAt, OwnView, Meanwhile
<1>4. (Idle(d) => disk[d].group = group[d])'
  BY <1>1 DEF StickyAt, Idle
<1>5. (~Idle(d) => Redoes(disk[d].group, group[d], redo[d]))'
  BY <1>1 DEF StickyAt, Idle
<1> QED
  BY <1>2, <1>3, <1>4, <1>5 DEF StickyAt, Unbroken

(* Epochs fall behind hashes.                                              *)
LEMMA SignLags ==
  ASSUME EpochsLag, NEW r, Sign(r), r.epoch < r.hash
  PROVE  EpochsLag' /\ signed \subseteq signed'
BY DEF EpochsLag, Sign

LEMMA SuccessorLags ==
  ASSUME Inv, EpochsLag, NEW g, GoodView(g, signed), NEW x
  PROVE  /\ AdditionOf(g, x, next).epoch < AdditionOf(g, x, next).hash
         /\ RemovalOf(g, x, next).epoch < RemovalOf(g, x, next).hash
<1>1. current(g) \in signed /\ current(g) \in Roster
  BY ViewIs
<1>2. current(g).epoch < current(g).hash /\ current(g).hash < next
  BY <1>1 DEF EpochsLag, Inv, SignedBelow
<1>3. current(g).epoch \in Nat /\ current(g).hash \in Nat /\ next \in Nat
  BY <1>1, HashAssumption DEF Roster, Inv, TypeOK
<1>4. current(g).epoch + 1 < next
  BY <1>2, <1>3
<1> QED
  BY <1>4 DEF AdditionOf, RemovalOf, Successor

LEMMA NothingLags ==
  ASSUME EpochsLag, signed' = signed
  PROVE  EpochsLag' /\ signed \subseteq signed'
BY DEF EpochsLag

-----------------------------------------------------------------------------
(* Each action keeps the invariant at its device and undoes no removal.    *)
StepSticks(d) == StickyAt(d)' /\ Unbroken(d) /\ EpochsLag' /\ signed \subseteq signed'

Settings == Steady /\ Inv /\ StickInv /\ HashesUnique

LEMMA AtRest ==
  ASSUME StickInv, NEW d \in Device, Idle(d)
  PROVE  /\ disk[d].group = group[d] /\ redo[d] = <<>>
         /\ group[d] # NoGroup => group[d].me = identity[d]
BY DEF StickInv, StickyAt, OwnView, Idle

LEMMA UnchangedMeanwhile ==
  ASSUME StickInv, NEW d \in Device, UNCHANGED identity, UNCHANGED joining,
         admitting'[d] = None \/ admitting'[d] = admitting[d]
  PROVE  Meanwhile(d)
BY DEF StickInv, StickyAt, OwnView, Meanwhile

LEMMA CreateSticks ==
  ASSUME Settings, NEW d \in Device, Create(d)
  PROVE  StepSticks(d)
<1> DEFINE g == create(identity[d], next)
           r == g.rosters[1]
<1>1. g.me = identity[d] /\ r.epoch = 0 /\ r.hash = next
  BY DEF create
<1> HIDE DEF g
<1>2. /\ Idle(d) /\ group[d] = NoGroup /\ Sign(r) /\ Keep(d, g)
      /\ UNCHANGED identity /\ UNCHANGED redo /\ UNCHANGED joining /\ UNCHANGED admitting
  BY DEF Create, Commit, InGroup, pairingVars, g
<1>3. next \in Nat \ {0}
  BY DEF Settings, Inv, TypeOK
<1>4. EpochsLag' /\ signed \subseteq signed'
  BY <1>1, <1>2, <1>3, SignLags DEF Settings, StickInv
<1>5. disk[d].group = NoGroup /\ redo'[d] = <<>>
  BY <1>2, AtRest DEF Settings
<1>6. Meanwhile(d)
  BY <1>2, UnchangedMeanwhile DEF Settings
<1>7. StickyAt(d)'
  BY <1>1, <1>2, <1>4, <1>5, <1>6, KeepSettles DEF Settings
<1> QED
  BY <1>4, <1>5, <1>7 DEF StepSticks, Unbroken

(* A view that keeps all rosters is saved.                                 *)
LEMMA KeepSticks ==
  ASSUME Settings, signed \subseteq signed', NEW d \in Device, Idle(d), group[d] # NoGroup,
         NEW k, Keep(d, k), k.me = group[d].me,
         ~is_member(k) \/ KeepsFirst(group[d], k, Len(group[d].rosters)) \/ Sticks(group[d], k),
         redo'[d] = <<>>, Meanwhile(d)
  PROVE  StickyAt(d)' /\ Unbroken(d)
<1>1. /\ disk[d].group = group[d] /\ group[d].me = identity[d]
  BY AtRest DEF Settings
<1>2. StickyAt(d)'
  BY <1>1, KeepSettles DEF Settings
<1>3. disk'[d].group = k
  BY KeepIs DEF Settings
<1>4. GoodView(group[d], signed)
  BY DEF Settings, Inv, GroupsGood
<1>5. Sticks(group[d], k)
  <2>1. CASE ~is_member(k)
    BY <2>1 DEF Sticks
  <2>2. CASE KeepsFirst(group[d], k, Len(group[d].rosters))
    BY <1>4, <2>2, KeptSticks
  <2> QED
    BY <2>1, <2>2
<1> QED
  BY <1>1, <1>2, <1>3, <1>5 DEF Unbroken

LEMMA RemoveDeviceSticks ==
  ASSUME Settings, NEW d \in Device, NEW x, RemoveDevice(d, x)
  PROVE  StepSticks(d)
<1> DEFINE g == group[d]
           k == remove_member(g, x, next)
           r == RemovalOf(g, x, next)
<1>1. /\ Idle(d) /\ g # NoGroup /\ CanRemove(g, identity[d], x) /\ Sign(r) /\ Keep(d, k)
      /\ UNCHANGED identity /\ UNCHANGED redo /\ UNCHANGED joining /\ UNCHANGED admitting
  BY DEF RemoveDevice, Commit, InGroup, pairingVars
<1>2. GoodView(g, signed) /\ next \in Hash /\ SignedBelow(signed, next)
  BY <1>1 DEF Settings, Inv, GroupsGood, Sign
<1>3. r.epoch < r.hash
  BY <1>2, SuccessorLags DEF Settings, StickInv
<1> HIDE DEF g, k, r
<1>4. EpochsLag' /\ signed \subseteq signed'
  BY <1>1, <1>3, SignLags DEF Settings, StickInv
<1>5. /\ GoodView(k, signed \cup {r}) /\ SignedBelow(signed \cup {r}, next + 1)
      /\ r \in Roster /\ k.me = g.me
  BY <1>1, <1>2, RemoveIsGood DEF k, r
<1>6. KeepsAll(g, k)
  BY <1>1, <1>2, RemoveKeeps DEF k
<1>7. redo'[d] = <<>>
  BY <1>1, AtRest DEF Settings
<1>8. Meanwhile(d)
  BY <1>1, UnchangedMeanwhile DEF Settings
<1>9. KeepsFirst(g, k, Len(g.rosters))
  BY <1>6 DEF KeepsAll
<1>10. StickyAt(d)' /\ Unbroken(d)
  BY <1>1, <1>4, <1>5, <1>7, <1>8, <1>9, KeepSticks DEF g
<1> QED
  BY <1>4, <1>10 DEF StepSticks

LEMMA ReceiveRostersSticks ==
  ASSUME Settings, NEW d \in Device, NEW chain \in chains, ReceiveRosters(d, chain)
  PROVE  StepSticks(d)
<1> DEFINE g == group[d]
           o == apply_chain(g, chain)
<1>1. /\ Idle(d) /\ g # NoGroup
      /\ o.update \in {"Advanced", "RemovedThisDevice", "Replaced"}
      /\ redo' = [redo EXCEPT ![d] = o.reapply]
      /\ o.update \in {"Advanced", "RemovedThisDevice"} => Keep(d, o.group)
      /\ o.update = "Replaced" => group' = [group EXCEPT ![d] = o.group] /\ UNCHANGED disk
      /\ signed' = signed
      /\ UNCHANGED identity /\ UNCHANGED joining /\ UNCHANGED admitting
  BY DEF ReceiveRosters, Commit, InGroup, pairingVars, NothingSigned
<1>2. GoodView(g, signed) /\ SignedBelow(signed, next) /\ GoodChain(chain, signed)
  BY <1>1 DEF Settings, Inv, GroupsGood, ChainsGood
<1> HIDE DEF g
<1>3. /\ o.update = "RemovedThisDevice" => ~is_member(o.group) /\ o.reapply = <<>>
      /\ o.update = "Advanced" => KeepsFirst(g, o.group, Len(g.rosters)) /\ o.reapply = <<>>
      /\ o.update = "Replaced" => Redoes(g, o.group, o.reapply) /\ o.reapply # <<>>
  BY <1>2, ApplySticks
<1>4. o.group.me = g.me
  BY <1>2, ApplyChainIsGood
<1> HIDE DEF o
<1>5. EpochsLag' /\ signed \subseteq signed'
  BY <1>1, NothingLags DEF Settings, StickInv
<1>6. redo'[d] = o.reapply
  BY <1>1 DEF Settings, Inv, TypeOK
<1>7. Meanwhile(d)
  BY <1>1, UnchangedMeanwhile DEF Settings
<1>8. CASE o.update \in {"Advanced", "RemovedThisDevice"}
  <2>1. Keep(d, o.group) /\ redo'[d] = <<>>
    BY <1>1, <1>3, <1>6, <1>8
  <2>2. ~is_member(o.group) \/ KeepsFirst(g, o.group, Len(g.rosters))
    BY <1>3, <1>8
  <2>3. StickyAt(d)' /\ Unbroken(d)
    BY <1>1, <1>4, <1>5, <1>7, <2>1, <2>2, KeepSticks DEF g
  <2> QED
    BY <1>5, <2>3 DEF StepSticks
<1>9. CASE o.update = "Replaced"
  <2>1. group'[d] = o.group /\ disk'[d] = disk[d]
    BY <1>1, <1>9 DEF Settings, Inv, TypeOK
  <2>2. disk[d].group = g /\ g.me = identity[d]
    BY <1>1, AtRest DEF Settings, g
  <2>3. redo'[d] # <<>> /\ Redoes(disk[d].group, o.group, redo'[d])
    BY <1>3, <1>6, <1>9, <2>2
  <2>4. o.group.me = identity[d]
    BY <1>4, <2>2
  <2>5. StickyAt(d)'
    BY <1>5, <1>7, <2>1, <2>3, <2>4, LoopGoesOn DEF Settings
  <2> QED
    BY <1>5, <2>1, <2>5 DEF StepSticks, Unbroken
<1> QED
  BY <1>1, <1>8, <1>9

LEMMA ReceiveKeySticks ==
  ASSUME Settings, NEW d \in Device, NEW share, ReceiveKey(d, share)
  PROVE  StepSticks(d)
<1> DEFINE g == group[d]
           k == accept_key(g, share.key)
<1>1. /\ Idle(d) /\ g # NoGroup /\ Keep(d, k) /\ signed' = signed
      /\ UNCHANGED identity /\ UNCHANGED redo /\ UNCHANGED joining /\ UNCHANGED admitting
  BY DEF ReceiveKey, InGroup, pairingVars
<1>2. GoodView(g, signed)
  BY <1>1 DEF Settings, Inv, GroupsGood
<1>3. k.me = g.me /\ k.rosters = g.rosters
  BY <1>2 DEF GoodView, GroupView, accept_key
<1> HIDE DEF g, k
<1>4. KeepsFirst(g, k, Len(g.rosters))
  BY <1>3 DEF KeepsFirst
<1>5. EpochsLag' /\ signed \subseteq signed'
  BY <1>1, NothingLags DEF Settings, StickInv
<1>6. redo'[d] = <<>>
  BY <1>1, AtRest DEF Settings
<1>7. Meanwhile(d)
  BY <1>1, UnchangedMeanwhile DEF Settings
<1>8. StickyAt(d)' /\ Unbroken(d)
  BY <1>1, <1>3, <1>4, <1>5, <1>6, <1>7, KeepSticks DEF g
<1> QED
  BY <1>5, <1>8 DEF StepSticks

(* The actions that touch neither the view nor the file.                   *)
LEMMA QuietSticks ==
  ASSUME Settings, NEW d \in Device,
         \/ \E peer : ShareKey(d, peer)
         \/ StartJoin(d) \/ AdmissionFails(d) \/ AbandonJoin(d)
  PROVE  StepSticks(d)
<1>1. /\ signed' = signed /\ UNCHANGED group /\ UNCHANGED disk /\ UNCHANGED redo
      /\ UNCHANGED identity
      /\ \/ UNCHANGED joining
         \/ joining' = [joining EXCEPT ![d] = {identity[d]}]
         \/ joining' = [joining EXCEPT ![d] = {}]
      /\ UNCHANGED admitting \/ admitting' = [admitting EXCEPT ![d] = None]
  BY DEF ShareKey, StartJoin, AdmissionFails, AbandonJoin, pairingVars
<1>2. EpochsLag' /\ signed \subseteq signed'
  BY <1>1, NothingLags DEF Settings, StickInv
<1>3. joining[d] \subseteq {identity[d]}
  BY DEF Settings, StickInv, StickyAt, OwnView
<1>4. joining'[d] \subseteq {identity[d]}
  BY <1>1, <1>3 DEF Settings, Inv, TypeOK
<1>5. admitting'[d] = None \/ admitting'[d] = admitting[d]
  BY <1>1 DEF Settings, Inv, TypeOK
<1>6. Meanwhile(d)
  BY <1>1, <1>4, <1>5 DEF Meanwhile
<1>7. StickyAt(d)' /\ Unbroken(d)
  BY <1>1, <1>2, <1>6, NothingMoves DEF Settings
<1> QED
  BY <1>2, <1>7 DEF StepSticks

LEMMA FinishJoinSticks ==
  ASSUME Settings, NEW d \in Device, NEW x \in joining[d], FinishJoin(d, x)
  PROVE  StepSticks(d)
<1> DEFINE k == joined(x, welcome[d].rosters, welcome[d].key)
<1>1. /\ Idle(d) /\ Keep(d, k) /\ signed' = signed
      /\ UNCHANGED identity /\ UNCHANGED redo /\ UNCHANGED admitting
      /\ joining' = [joining EXCEPT ![d] = {}]
  BY DEF FinishJoin, Commit, NothingSigned
<1>2. joining'[d] = {}
  BY <1>1 DEF Settings, Inv, TypeOK
<1>3. joining[d] \subseteq {identity[d]}
  BY DEF Settings, StickInv, StickyAt, OwnView
<1>4. k.me = identity[d]
  BY <1>3 DEF joined
<1> HIDE DEF k
<1>5. EpochsLag' /\ signed \subseteq signed'
  BY <1>1, NothingLags DEF Settings, StickInv
<1>6. redo'[d] = <<>>
  BY <1>1, AtRest DEF Settings
<1>7. Meanwhile(d)
  BY <1>1, <1>2 DEF Meanwhile
<1>8. StickyAt(d)'
  BY <1>1, <1>4, <1>5, <1>6, <1>7, KeepSettles DEF Settings
<1> QED
  BY <1>2, <1>5, <1>8 DEF StepSticks, Unbroken

LEMMA LeaveSticks ==
  ASSUME Settings, NEW d \in Device, Leave(d)
  PROVE  StepSticks(d)
<1>1. identity[d] \in Identity /\ Incarnation = {0}
  BY DEF Settings, Steady, Inv, TypeOK
<1>2. identity[d][2] = 0
  BY <1>1 DEF Identity
<1>3. identity[d][2] + 1 \in {0}
  BY <1>1 DEF Leave
<1> QED
  BY <1>2, <1>3

LEMMA RestartSticks ==
  ASSUME Settings, NEW d \in Device, Restart(d)
  PROVE  StepSticks(d)
<1>1. /\ identity' = [identity EXCEPT ![d] = disk[d].identity]
      /\ group' = [group EXCEPT ![d] = disk[d].group]
      /\ redo' = [redo EXCEPT ![d] = <<>>]
      /\ joining' = [joining EXCEPT ![d] = {}]
      /\ admitting' = [admitting EXCEPT ![d] = None]
      /\ UNCHANGED disk /\ signed' = signed
  BY DEF Restart
<1>2. /\ identity'[d] = disk[d].identity /\ group'[d] = disk[d].group
      /\ redo'[d] = <<>> /\ joining'[d] = {} /\ admitting'[d] = None
  BY <1>1 DEF Settings, Inv, TypeOK
<1>3. OwnView(d)
  BY DEF Settings, StickInv, StickyAt
<1>4. OwnView(d)'
  BY <1>1, <1>2, <1>3 DEF OwnView
<1>5. Idle(d)' /\ disk'[d].group = group'[d] /\ admitting'[d] = None
  BY <1>1, <1>2 DEF Idle
<1>6. EpochsLag' /\ signed \subseteq signed'
  BY <1>1, NothingLags DEF Settings, StickInv
<1>7. StickyAt(d)'
  BY <1>4, <1>5 DEF StickyAt
<1> QED
  BY <1>1, <1>6, <1>7 DEF StepSticks, Unbroken

(* The inviter's copy: at least two rosters, the last of which adds a      *)
(* device to the one before.                                               *)
LEMMA TwoRosters ==
  ASSUME NEW S, NEW g, GoodView(g, S), NEW x, NEW n
  PROVE  Len(add_member(g, x, n).rosters) >= 2
<1> DEFINE r == AdditionOf(g, x, n)
           s == g.rosters \o <<r>>
<1>1. g.rosters \in Seq(Roster) /\ Len(g.rosters) \in Nat \ {0}
  BY ViewIs
<1>2. /\ Len(s) = Len(g.rosters) + 1
  BY <1>1
<1> DEFINE f == [g EXCEPT !.rosters = KeepLast(s)]
<1>3. add_member(g, x, n) = prune(f)
  BY DEF add_member, push
<1>4. f = [me |-> g.me, rosters |-> KeepLast(s), keys |-> g.keys]
  BY DEF GoodView, GroupView
<1>5. prune(f).rosters = KeepLast(s)
  <2> HIDE DEF s
  <2> QED
    BY <1>4 DEF prune
<1>6. Len(KeepLast(s)) >= 2
  <2>t. PICK t : t = s
    OBVIOUS
  <2>k. PICK kept \in Nat : kept = KEPT_ROSTERS /\ kept >= 2
    BY LimitsAssumption
  <2>l. PICK l \in Nat : l = Len(t) /\ l >= 2
    BY <1>1, <1>2, <2>t
  <2>1. CASE l - kept > 0
    <3>1. KeepLast(t) = SubSeq(t, (l - kept) + 1, l)
      BY <2>1, <2>k, <2>l DEF KeepLast
    <3>2. Len(SubSeq(t, (l - kept) + 1, l)) = kept
      BY <2>1, <2>k, <2>l
    <3> QED
      BY <2>k, <2>t, <3>1, <3>2
  <2>2. CASE ~(l - kept > 0)
    <3>1. KeepLast(t) = t
      BY <2>2, <2>k, <2>l DEF KeepLast
    <3> QED
      BY <2>l, <2>t, <3>1
  <2> QED
    BY <2>1, <2>2
<1> QED
  BY <1>3, <1>5, <1>6

LEMMA ApproveSticks ==
  ASSUME Settings, NEW i \in Device, NEW d \in Device, NEW x \in joining[d], Approve(i, d, x)
  PROVE  StepSticks(i)
<1> DEFINE g == group[i]
           r == AdditionOf(g, x, next)
           k == add_member(g, x, next)
           a == [request |-> x, roster |-> r, group |-> k]
<1>1. /\ Idle(i) /\ g # NoGroup /\ CanAdd(g, identity[i], x) /\ Sign(r)
      /\ admitting' = [admitting EXCEPT ![i] = a]
      /\ UNCHANGED identity /\ UNCHANGED group /\ UNCHANGED disk /\ UNCHANGED redo
      /\ UNCHANGED joining
  BY DEF Approve, Member, InGroup
<1>2. /\ GoodView(g, signed) /\ next \in Hash /\ SignedBelow(signed, next) /\ x \in Identity
  BY <1>1 DEF Settings, Inv, GroupsGood, Sign, TypeOK
<1>3. r.epoch < r.hash
  BY <1>2, SuccessorLags DEF Settings, StickInv
<1>4. r.prev = current(g).hash /\ current(g).members \subseteq r.members
  BY DEF AdditionOf, Successor
<1>5. current(g) \in signed
  BY <1>2, ViewIs
<1> HIDE DEF g
<1>6. Len(k.rosters) >= 2
  BY <1>2, TwoRosters
<1> HIDE DEF r, k
<1>7. /\ GoodView(k, signed \cup {r}) /\ SignedBelow(signed \cup {r}, next + 1)
      /\ r \in Roster /\ k.me = g.me /\ current(k) = r
  BY <1>1, <1>2, AddIsGood DEF k, r
<1>8. EpochsLag' /\ signed \subseteq signed'
  BY <1>1, <1>3, SignLags DEF Settings, StickInv
<1>9. admitting'[i] = a
  BY <1>1 DEF Settings, Inv, TypeOK
<1>10. a.roster = r /\ a.group = k
  OBVIOUS
<1> HIDE DEF a
<1>11. OnlyAdds(admitting[i])'
  BY <1>4, <1>5, <1>6, <1>7, <1>8, <1>9, <1>10 DEF OnlyAdds
<1>12. /\ disk[i].group = g /\ g.me = identity[i] /\ redo[i] = <<>>
  BY <1>1, AtRest DEF Settings, g
<1>13. OwnView(i)
  BY DEF Settings, StickInv, StickyAt
<1>14. OwnView(i)'
  BY <1>1, <1>7, <1>9, <1>10, <1>12, <1>13 DEF OwnView
<1>15. Idle(i)' /\ disk'[i].group = group'[i]
  BY <1>1, <1>12 DEF Idle, g
<1>16. StickyAt(i)'
  BY <1>11, <1>14, <1>15 DEF StickyAt
<1> QED
  BY <1>1, <1>8, <1>16 DEF StepSticks, Unbroken

LEMMA CommitAdmissionSticks ==
  ASSUME Settings, NEW i \in Device, CommitAdmission(i)
  PROVE  StepSticks(i)
<1> DEFINE g == group[i]
           a == admitting[i]
           o == apply_chain(g, <<a.roster>>)
<1>1. /\ Idle(i) /\ a # None /\ admitting' = [admitting EXCEPT ![i] = None]
      /\ \/ UNCHANGED <<group, disk>>
         \/ g # NoGroup /\ current(g).hash = a.roster.prev /\ Keep(i, a.group)
         \/ g # NoGroup /\ Keep(i, o.group)
      /\ signed' = signed
      /\ UNCHANGED identity /\ UNCHANGED redo /\ UNCHANGED joining
  BY DEF CommitAdmission, Commit, InGroup, NothingSigned
<1>2. admitting'[i] = None
  BY <1>1 DEF Settings, Inv, TypeOK
<1>3. EpochsLag' /\ signed \subseteq signed'
  BY <1>1, NothingLags DEF Settings, StickInv
<1>4. Meanwhile(i)
  BY <1>1, <1>2, UnchangedMeanwhile DEF Settings
<1>5. redo'[i] = <<>>
  BY <1>1, AtRest DEF Settings
<1>6. OnlyAdds(a) /\ a.group.me = identity[i]
  BY <1>1 DEF Settings, StickInv, StickyAt, OwnView
<1>7. GoodView(a.group, signed) /\ a.roster \in signed
  BY <1>1 DEF Settings, Inv, AdmissionsGood
<1>8. g # NoGroup => g.me = identity[i] /\ GoodView(g, signed)
  BY <1>1, AtRest DEF Settings, Inv, GroupsGood
<1>h. HashesDiffer(signed) /\ SignedBelow(signed, next)
  BY DEF Settings, HashesUnique, Inv
<1> HIDE DEF g, a
<1>9. CASE UNCHANGED <<group, disk>>
  <2>1. group'[i] = group[i] /\ disk'[i] = disk[i] /\ redo'[i] = redo[i]
    BY <1>1, <1>9
  <2>2. StickyAt(i)' /\ Unbroken(i)
    BY <1>3, <1>4, <2>1, NothingMoves DEF Settings
  <2> QED
    BY <1>3, <2>2 DEF StepSticks
<1>10. CASE g # NoGroup /\ current(g).hash = a.roster.prev /\ Keep(i, a.group)
  <2>1. Len(a.group.rosters) >= 2 /\ current(a.group).prev = current(g).hash
    BY <1>6, <1>10 DEF OnlyAdds
  <2>2. KeepsFirst(g, a.group, Len(g.rosters))
    BY <1>7, <1>8, <1>10, <1>h, <2>1, CopyKeeps
  <2>3. a.group.me = g.me
    BY <1>6, <1>8, <1>10
  <2>4. StickyAt(i)' /\ Unbroken(i)
    BY <1>1, <1>3, <1>4, <1>5, <1>10, <2>2, <2>3, KeepSticks DEF g
  <2> QED
    BY <1>3, <2>4 DEF StepSticks
<1>11. CASE g # NoGroup /\ Keep(i, o.group)
  <2>1. PICK p \in signed : p.hash = a.roster.prev /\ p.members \subseteq a.roster.members
    BY <1>6 DEF OnlyAdds
  <2>2. o.group = g \/ Sticks(g, o.group)
    BY <1>7, <1>8, <1>11, <1>h, <2>1, AdmissionSticks
  <2>3. o.group.me = g.me
    <3>1. GoodChain(<<a.roster>>, signed)
      <4>1. a.roster \in Roster
        BY <1>7, <1>h DEF SignedBelow
      <4> DEFINE c == <<a.roster>>
      <4>2. c \in Seq(Roster) /\ Len(c) = 1 /\ c[1] = a.roster /\ c # <<>>
        BY <4>1
      <4> QED
        BY <1>7, <4>1, <4>2 DEF GoodChain, Consecutive, Roster
    <3> DEFINE c == <<a.roster>>
    <3> HIDE DEF c
    <3>2. /\ GoodView(apply_chain(g, c).group, signed)
          /\ apply_chain(g, c).reapply \in Seq(Change)
          /\ apply_chain(g, c).group.me = g.me
      BY <1>8, <1>11, <1>h, <3>1, ApplyChainIsGood DEF c
    <3> QED
      BY <3>2 DEF c
  <2> HIDE DEF o
  <2>4. CASE o.group = g
    <3>1. KeepsFirst(g, o.group, Len(g.rosters))
      BY <2>4 DEF KeepsFirst
    <3>2. StickyAt(i)' /\ Unbroken(i)
      BY <1>1, <1>3, <1>4, <1>5, <1>11, <2>3, <3>1, KeepSticks DEF g
    <3> QED
      BY <1>3, <3>2 DEF StepSticks
  <2>5. CASE Sticks(g, o.group)
    <3>1. StickyAt(i)' /\ Unbroken(i)
      BY <1>1, <1>3, <1>4, <1>5, <1>11, <2>3, <2>5, KeepSticks DEF g
    <3> QED
      BY <1>3, <3>1 DEF StepSticks
  <2> QED
    BY <2>2, <2>4, <2>5
<1> QED
  BY <1>1, <1>9, <1>10, <1>11

LEMMA RedoToSticks ==
  ASSUME Settings, signed \subseteq signed', NEW d \in Device, NEW k, NEW rest,
         RedoTo(d, k, rest), Redoes(disk[d].group, k, rest), k.me = identity[d]
  PROVE  StickyAt(d)' /\ Unbroken(d)
<1>1. /\ redo' = [redo EXCEPT ![d] = rest]
      /\ UNCHANGED identity /\ UNCHANGED joining /\ UNCHANGED admitting
      /\ rest = <<>> => Keep(d, k)
      /\ rest # <<>> => group' = [group EXCEPT ![d] = k] /\ UNCHANGED disk
  BY DEF RedoTo, Commit, pairingVars
<1>2. redo'[d] = rest
  BY <1>1 DEF Settings, Inv, TypeOK
<1>3. Meanwhile(d)
  BY <1>1, UnchangedMeanwhile DEF Settings
<1>4. CASE rest = <<>>
  <2>1. Keep(d, k) /\ redo'[d] = <<>>
    BY <1>1, <1>2, <1>4
  <2>2. StickyAt(d)'
    BY <1>3, <2>1, KeepSettles DEF Settings
  <2>3. disk'[d].group = k
    BY <2>1, KeepIs DEF Settings
  <2>4. Sticks(disk[d].group, k)
    BY <1>4, AllRedone
  <2> QED
    BY <2>2, <2>3, <2>4 DEF Unbroken
<1>5. CASE rest # <<>>
  <2>1. group'[d] = k /\ disk'[d] = disk[d]
    BY <1>1, <1>5 DEF Settings, Inv, TypeOK
  <2>2. StickyAt(d)'
    BY <1>2, <1>3, <1>5, <2>1, LoopGoesOn DEF Settings
  <2> QED
    BY <2>1, <2>2 DEF Unbroken
<1> QED
  BY <1>4, <1>5

(* A device that is no member any more has nothing to keep.                *)
LEMMA OutsideRedoesAll ==
  ASSUME NEW g, NEW h, NEW s, Redoes(g, h, s), ~is_member(h)
  PROVE  Redoes(g, h, <<>>)
BY DEF Redoes

(* Where a device is in the loop.                                          *)
InLoop(d, S) ==
  /\ redo[d] \in Seq(Change) /\ redo[d] # <<>>
  /\ Redoes(disk[d].group, group[d], redo[d])
  /\ GoodView(disk[d].group, S) /\ GoodView(group[d], S)
  /\ group[d].me = identity[d] /\ disk[d].group.me = identity[d]

LEMMA RedoAddedSticks ==
  ASSUME Settings, HashesUnique', NEW d \in Device, InLoop(d, signed),
         NEW x \in redo[d][1].ids, redo[d][1].kind = "Added", RedoAdded(d, x)
  PROVE  StepSticks(d)
<1> DEFINE g == disk[d].group
           h == group[d]
           s == redo[d]
           rest == Without(s, x)
           k == add_member(h, x, next)
           r == AdditionOf(h, x, next)
<1>1. \/ Taken(h, x) /\ RedoTo(d, h, rest) /\ NothingSigned
      \/ ~Taken(h, x) /\ ~CanAdd(h, identity[d], x) /\ RedoTo(d, h, <<>>) /\ NothingSigned
      \/ CanAdd(h, identity[d], x) /\ RedoTo(d, k, rest) /\ Sign(r)
  BY DEF RedoAdded
<1>2. /\ s \in Seq(Change) /\ s # <<>> /\ Redoes(g, h, s) /\ GoodView(g, signed) /\ GoodView(h, signed)
      /\ h.me = identity[d] /\ s[1].kind = "Added"
  BY DEF InLoop
<1>3. x \in Identity
  <2>1. s[1] \in Change
    BY <1>2
  <2> QED
    BY <2>1 DEF Change
<1>4. SignedBelow(signed, next) /\ Lags(signed) /\ Steady
  BY DEF Settings, Inv, StickInv, EpochsLag, Lags
<1> HIDE DEF g, h, s
<1>5. CASE Taken(h, x) /\ RedoTo(d, h, rest) /\ NothingSigned
  <2>1. Redoes(g, h, rest)
    BY <1>2, RedoSkips
  <2>2. EpochsLag' /\ signed \subseteq signed'
    BY <1>5, NothingLags DEF Settings, StickInv, NothingSigned
  <2> HIDE DEF rest
  <2>3. StickyAt(d)' /\ Unbroken(d)
    BY <1>2, <1>5, <2>1, <2>2, RedoToSticks DEF g
  <2> QED
    BY <2>2, <2>3 DEF StepSticks
<1>6. CASE ~Taken(h, x) /\ ~CanAdd(h, identity[d], x) /\ RedoTo(d, h, <<>>) /\ NothingSigned
  <2>1. ~is_member(h)
    BY <1>2, <1>3, <1>4, <1>6, RoomToAdd
  <2>2. Redoes(g, h, <<>>)
    BY <1>2, <2>1, OutsideRedoesAll
  <2>3. EpochsLag' /\ signed \subseteq signed'
    BY <1>6, NothingLags DEF Settings, StickInv, NothingSigned
  <2> DEFINE none == <<>>
  <2>4. Redoes(g, h, none) /\ RedoTo(d, h, none)
    BY <1>6, <2>2
  <2> HIDE DEF none
  <2>5. StickyAt(d)' /\ Unbroken(d)
    BY <1>2, <2>3, <2>4, RedoToSticks DEF g
  <2> QED
    BY <2>3, <2>5 DEF StepSticks
<1>7. CASE CanAdd(h, identity[d], x) /\ RedoTo(d, k, rest) /\ Sign(r)
  <2>1. next \in Hash /\ signed' = signed \cup {r}
    BY <1>7 DEF Sign
  <2>2. r.epoch < r.hash
    BY <1>2, SuccessorLags DEF Settings, StickInv
  <2> HIDE DEF r, k, rest
  <2>3. EpochsLag' /\ signed \subseteq signed'
    BY <1>7, <2>2, SignLags DEF Settings, StickInv
  <2>4. /\ GoodView(k, signed \cup {r}) /\ SignedBelow(signed \cup {r}, next + 1)
        /\ r \in Roster /\ k.me = h.me /\ current(k) = r
    BY <1>2, <1>3, <1>4, <1>7, <2>1, AddIsGood DEF k, r
  <2>5. /\ KeepsAll(h, k) /\ current(k).members = current(h).members \cup {x}
        /\ current(k) = r
    BY <1>2, <1>3, <1>4, <1>7, <2>1, AddKeeps DEF k, r
  <2>6. GoodView(g, signed') /\ GoodView(h, signed')
    BY <1>2, <2>3, GoodGrows
  <2>7. GoodView(k, signed') /\ HashesDiffer(signed')
    BY <2>1, <2>4 DEF HashesUnique
  <2>8. is_member(h)
    BY <1>7 DEF CanAdd, MayChange
  <2>9. x \in s[1].ids
    BY DEF s
  <2>10. Redoes(g, k, rest)
    BY <1>2, <2>5, <2>6, <2>7, <2>8, <2>9, RedoDoes DEF rest
  <2>11. k.me = identity[d]
    BY <1>2, <2>4
  <2>12. StickyAt(d)' /\ Unbroken(d)
    BY <1>7, <2>3, <2>10, <2>11, RedoToSticks DEF g
  <2> QED
    BY <2>3, <2>12 DEF StepSticks
<1> QED
  BY <1>1, <1>5, <1>6, <1>7

LEMMA RedoRemovedSticks ==
  ASSUME Settings, HashesUnique', NEW d \in Device, InLoop(d, signed),
         NEW x \in redo[d][1].ids, redo[d][1].kind = "Removed", RedoRemoved(d, x)
  PROVE  StepSticks(d)
<1> DEFINE g == disk[d].group
           h == group[d]
           s == redo[d]
           rest == Without(s, x)
           k == remove_member(h, x, next)
           r == RemovalOf(h, x, next)
<1>1. \/ ~is_peer(h, x) /\ RedoTo(d, h, rest) /\ NothingSigned
      \/ is_peer(h, x) /\ ~CanRemove(h, identity[d], x) /\ RedoTo(d, h, <<>>) /\ NothingSigned
      \/ CanRemove(h, identity[d], x) /\ RedoTo(d, k, rest) /\ Sign(r)
  BY DEF RedoRemoved
<1>2. /\ s \in Seq(Change) /\ s # <<>> /\ Redoes(g, h, s) /\ GoodView(g, signed) /\ GoodView(h, signed)
      /\ h.me = identity[d] /\ g.me = identity[d] /\ s[1].kind = "Removed"
  BY DEF InLoop
<1>4. SignedBelow(signed, next) /\ Lags(signed) /\ Steady
  BY DEF Settings, Inv, StickInv, EpochsLag, Lags
<1> HIDE DEF g, h, s
<1>5. CASE ~is_peer(h, x) /\ RedoTo(d, h, rest) /\ NothingSigned
  <2>0. x \notin current(h).members \/ x = g.me
    BY <1>2, <1>5 DEF is_peer
  <2>1. Redoes(g, h, rest)
    BY <1>2, <2>0, RedoSkips
  <2>2. EpochsLag' /\ signed \subseteq signed'
    BY <1>5, NothingLags DEF Settings, StickInv, NothingSigned
  <2> HIDE DEF rest
  <2>3. StickyAt(d)' /\ Unbroken(d)
    BY <1>2, <1>5, <2>1, <2>2, RedoToSticks DEF g
  <2> QED
    BY <2>2, <2>3 DEF StepSticks
<1>6. CASE is_peer(h, x) /\ ~CanRemove(h, identity[d], x) /\ RedoTo(d, h, <<>>) /\ NothingSigned
  <2>1. ~is_member(h)
    BY <1>2, <1>4, <1>6, RoomToRemove
  <2>2. Redoes(g, h, <<>>)
    BY <1>2, <2>1, OutsideRedoesAll
  <2>3. EpochsLag' /\ signed \subseteq signed'
    BY <1>6, NothingLags DEF Settings, StickInv, NothingSigned
  <2> DEFINE none == <<>>
  <2>4. Redoes(g, h, none) /\ RedoTo(d, h, none)
    BY <1>6, <2>2
  <2> HIDE DEF none
  <2>5. StickyAt(d)' /\ Unbroken(d)
    BY <1>2, <2>3, <2>4, RedoToSticks DEF g
  <2> QED
    BY <2>3, <2>5 DEF StepSticks
<1>7. CASE CanRemove(h, identity[d], x) /\ RedoTo(d, k, rest) /\ Sign(r)
  <2>1. next \in Hash /\ signed' = signed \cup {r}
    BY <1>7 DEF Sign
  <2>2. r.epoch < r.hash
    BY <1>2, SuccessorLags DEF Settings, StickInv
  <2> HIDE DEF r, k, rest
  <2>3. EpochsLag' /\ signed \subseteq signed'
    BY <1>7, <2>2, SignLags DEF Settings, StickInv
  <2>4. /\ GoodView(k, signed \cup {r}) /\ SignedBelow(signed \cup {r}, next + 1)
        /\ r \in Roster /\ k.me = h.me
    <3>1. next \in Hash /\ SignedBelow(signed, next) /\ GoodView(h, signed) /\ CanRemove(h, identity[d], x)
      BY <1>2, <1>4, <1>7, <2>1
    <3> QED
      BY <3>1, RemoveIsGood DEF k, r
  <2>5. /\ KeepsAll(h, k) /\ current(k).members = current(h).members \ {x}
    BY <1>2, <1>4, <1>7, <2>1, RemoveKeeps DEF k
  <2>6. GoodView(g, signed') /\ GoodView(h, signed')
    BY <1>2, <2>3, GoodGrows
  <2>7. GoodView(k, signed') /\ HashesDiffer(signed')
    BY <2>1, <2>4 DEF HashesUnique
  <2>8. is_member(h)
    BY <1>7 DEF CanRemove, MayChange
  <2>9. x \in s[1].ids
    BY DEF s
  <2>10. Redoes(g, k, rest)
    BY <1>2, <2>5, <2>6, <2>7, <2>8, <2>9, RedoDoes DEF rest
  <2>11. k.me = identity[d]
    BY <1>2, <2>4
  <2>12. StickyAt(d)' /\ Unbroken(d)
    BY <1>7, <2>3, <2>10, <2>11, RedoToSticks DEF g
  <2> QED
    BY <2>3, <2>12 DEF StepSticks
<1> QED
  BY <1>1, <1>5, <1>6, <1>7

LEMMA RedoSticks ==
  ASSUME Settings, HashesUnique', NEW d \in Device, Redo(d)
  PROVE  StepSticks(d)
<1> DEFINE g == disk[d].group
           h == group[d]
           s == redo[d]
<1>1. ~Idle(d) /\ h # NoGroup
  BY DEF Redo, InGroup
<1>2. s \in Seq(Change) /\ s # <<>> /\ Redoes(g, h, s) /\ OwnView(d)
  BY <1>1 DEF Settings, Inv, TypeOK, Idle, StickInv, StickyAt
<1>3. g # NoGroup
  BY <1>2 DEF Redoes
<1>4. GoodView(g, signed) /\ GoodView(h, signed)
  BY <1>1, <1>3 DEF Settings, Inv, GroupsGood, DisksGood
<1>5. InLoop(d, signed)
  BY <1>1, <1>2, <1>3, <1>4 DEF InLoop, OwnView
<1>6. CASE s[1].ids = {}
  <2>1. RedoTo(d, h, Tail(s)) /\ NothingSigned
    BY <1>6 DEF Redo
  <2>2. EpochsLag' /\ signed \subseteq signed'
    BY <2>1, NothingLags DEF Settings, StickInv, NothingSigned
  <2>3. h.me = identity[d]
    BY <1>5 DEF InLoop
  <2>4. Redoes(g, h, Tail(s))
    BY <1>2, <1>6, RedoSkips
  <2>5. StickyAt(d)' /\ Unbroken(d)
    BY <2>1, <2>2, <2>3, <2>4, RedoToSticks
  <2> QED
    BY <2>2, <2>5 DEF StepSticks
<1>7. CASE s[1].ids # {}
  <2>1. PICK x \in s[1].ids : IF s[1].kind = "Added" THEN RedoAdded(d, x) ELSE RedoRemoved(d, x)
    BY <1>7 DEF Redo
  <2>2. s[1] \in Change
    BY <1>2
  <2>3. s[1].kind \in {"Added", "Removed"}
    BY <2>2 DEF Change
  <2>4. CASE s[1].kind = "Added"
    BY <1>5, <2>1, <2>4, RedoAddedSticks
  <2>5. CASE s[1].kind = "Removed"
    BY <1>5, <2>1, <2>5, RedoRemovedSticks
  <2> QED
    BY <2>3, <2>4, <2>5
<1> QED
  BY <1>6, <1>7

-----------------------------------------------------------------------------
(* A step of one device leaves the others as they were.                    *)
LEMMA OnlyHere ==
  ASSUME Settings, NEW d \in Device, DeviceNext(d), NEW e \in Device, e # d
  PROVE  Same(e)
<1>t. /\ identity \in [Device -> Identity] /\ group \in [Device -> View] /\ disk \in [Device -> Stored]
      /\ redo \in [Device -> Seq(Change)] /\ joining \in [Device -> SUBSET Identity]
      /\ admitting \in [Device -> Admission \cup {None}]
  BY DEF Settings, Inv, TypeOK
<1>k. \A k : Keep(d, k) => group'[e] = group[e] /\ disk'[e] = disk[e]
  BY KeepIs DEF Settings
<1>r. \A k, rest : RedoTo(d, k, rest) => Same(e)
  BY <1>t, <1>k DEF RedoTo, Commit, Same, pairingVars
<1>1. CASE Create(d)
  BY <1>1, <1>k DEF Create, Commit, Same, pairingVars
<1>2. CASE \E x \in Identity : RemoveDevice(d, x)
  BY <1>2, <1>k DEF RemoveDevice, Commit, Same, pairingVars
<1>3. CASE \E chain \in chains : ReceiveRosters(d, chain)
  <2>1. PICK chain \in chains : ReceiveRosters(d, chain)
    BY <1>3
  <2> DEFINE o == apply_chain(group[d], chain)
  <2>2. /\ redo' = [redo EXCEPT ![d] = o.reapply]
        /\ Keep(d, o.group) \/ (group' = [group EXCEPT ![d] = o.group] /\ UNCHANGED disk)
        /\ UNCHANGED <<identity, joining, admitting>>
    BY <2>1 DEF ReceiveRosters, Commit, pairingVars
  <2> HIDE DEF o
  <2> QED
    BY <2>2, <1>t, <1>k DEF Same
<1>4. CASE Redo(d)
  BY <1>4, <1>r DEF Redo, RedoAdded, RedoRemoved
<1>5. CASE \E peer \in Identity : ShareKey(d, peer)
  BY <1>5 DEF ShareKey, Same, pairingVars
<1>6. CASE \E share \in shares : ReceiveKey(d, share)
  BY <1>6, <1>k DEF ReceiveKey, Same, pairingVars
<1>7. CASE StartJoin(d)
  BY <1>7, <1>t DEF StartJoin, Same
<1>8. CASE \E j \in Device : \E x \in joining[j] : Approve(d, j, x)
  BY <1>8, <1>t DEF Approve, Same
<1>9. CASE CommitAdmission(d)
  BY <1>9, <1>t, <1>k DEF CommitAdmission, Commit, Same
<1>10. CASE AdmissionFails(d)
  BY <1>10, <1>t DEF AdmissionFails, Same
<1>11. CASE \E x \in joining[d] : FinishJoin(d, x)
  BY <1>11, <1>t, <1>k DEF FinishJoin, Commit, Same
<1>12. CASE AbandonJoin(d)
  BY <1>12, <1>t DEF AbandonJoin, Same
<1>13. CASE Leave(d)
  BY <1>13, <1>t DEF Leave, Save, Same, pairingVars
<1>14. CASE Restart(d)
  BY <1>14, <1>t DEF Restart, Same
<1> QED
  BY <1>1, <1>2, <1>3, <1>4, <1>5, <1>6, <1>7, <1>8, <1>9, <1>10, <1>11, <1>12,
     <1>13, <1>14 DEF DeviceNext

LEMMA DeviceSticks ==
  ASSUME Settings, HashesUnique', NEW d \in Device, DeviceNext(d)
  PROVE  StepSticks(d)
<1>1. CASE Create(d)
  BY <1>1, CreateSticks
<1>2. CASE \E x \in Identity : RemoveDevice(d, x)
  BY <1>2, RemoveDeviceSticks
<1>3. CASE \E chain \in chains : ReceiveRosters(d, chain)
  BY <1>3, ReceiveRostersSticks
<1>4. CASE Redo(d)
  BY <1>4, RedoSticks
<1>5. CASE \E peer \in Identity : ShareKey(d, peer)
  BY <1>5, QuietSticks
<1>6. CASE \E share \in shares : ReceiveKey(d, share)
  BY <1>6, ReceiveKeySticks
<1>7. CASE StartJoin(d) \/ AdmissionFails(d) \/ AbandonJoin(d)
  BY <1>7, QuietSticks
<1>8. CASE \E j \in Device : \E x \in joining[j] : Approve(d, j, x)
  BY <1>8, ApproveSticks
<1>9. CASE CommitAdmission(d)
  BY <1>9, CommitAdmissionSticks
<1>10. CASE \E x \in joining[d] : FinishJoin(d, x)
  BY <1>10, FinishJoinSticks
<1>11. CASE Leave(d)
  BY <1>11, LeaveSticks
<1>12. CASE Restart(d)
  BY <1>12, RestartSticks
<1> QED
  BY <1>1, <1>2, <1>3, <1>4, <1>5, <1>6, <1>7, <1>8, <1>9, <1>10, <1>11, <1>12
  DEF DeviceNext

(* What a step of the system may do to every file.                         *)
FilesUnbroken == \A d \in Device : Unbroken(d)

LEMMA StickStep ==
  Steady /\ Inv /\ HashesUnique /\ HashesUnique' /\ StickInv /\ [Next]_vars => StickInv' /\ FilesUnbroken
<1>1. SUFFICES ASSUME Steady, Inv, HashesUnique, HashesUnique', StickInv, [Next]_vars
               PROVE  StickInv' /\ FilesUnbroken
  OBVIOUS
<1>s. Settings
  BY <1>1 DEF Settings
<1>2. ASSUME NEW d \in Device, DeviceNext(d)
      PROVE  StickInv' /\ FilesUnbroken
  <2>1. StepSticks(d)
    BY <1>1, <1>2, <1>s, DeviceSticks
  <2>2. EpochsLag' /\ signed \subseteq signed'
    BY <2>1 DEF StepSticks
  <2>3. ASSUME NEW e \in Device
        PROVE  StickyAt(e)' /\ Unbroken(e)
    <3>1. CASE e = d
      BY <2>1, <3>1 DEF StepSticks
    <3>2. CASE e # d
      <4>1. Same(e)
        BY <1>2, <1>s, <3>2, OnlyHere
      <4> QED
        BY <1>1, <2>2, <4>1, SameStays
    <3> QED
      BY <3>1, <3>2
  <2> QED
    BY <2>2, <2>3 DEF StickInv, FilesUnbroken
<1>3. CASE UNCHANGED vars
  <2>1. signed' = signed /\ \A e \in Device : Same(e)
    BY <1>3 DEF vars, Same
  <2>2. EpochsLag' /\ signed \subseteq signed'
    BY <1>1, <2>1, NothingLags DEF StickInv
  <2>3. ASSUME NEW e \in Device
        PROVE  StickyAt(e)' /\ Unbroken(e)
    BY <1>1, <2>1, <2>2, SameStays
  <2> QED
    BY <2>2, <2>3 DEF StickInv, FilesUnbroken
<1> QED
  BY <1>1, <1>2, <1>3 DEF Next

LEMMA StickInit == Init => StickInv
<1>1. SUFFICES ASSUME Init PROVE StickInv
  OBVIOUS
<1>2. EpochsLag
  BY <1>1 DEF Init, EpochsLag
<1>3. ASSUME NEW d \in Device
      PROVE  StickyAt(d)
  <2>1. /\ identity[d] = <<d, 0>> /\ disk[d].identity = <<d, 0>> /\ disk[d].group = NoGroup
        /\ group[d] = NoGroup /\ redo[d] = <<>> /\ joining[d] = {} /\ admitting[d] = None
    BY <1>1 DEF Init
  <2> QED
    BY <2>1 DEF StickyAt, OwnView, Idle
<1> QED
  BY <1>2, <1>3 DEF StickInv

(* A device never undoes a removal it has seen: by the time it saves, what *)
(* a lost branch had removed is out again, for any number of devices,      *)
(* forks, crashes and pairings under way (reapply, receive_rosters,        *)
(* commit_admission).                                                      *)
THEOREM RemovalsStick == ASSUME Steady PROVE Spec => RemovalSticks
<1>1. Init => HashesUnique
  BY DEF Init, HashesUnique, HashesDiffer
<1>2. Inv /\ HashesUnique /\ HashesUnique' /\ StickInv /\ [Next]_vars => StickInv' /\ FilesUnbroken
  BY StickStep
<1>3. FilesUnbroken =>
        \A d \in Device :
          LET g == disk[d].group
              h == disk'[d].group
          IN  /\ g # h
              /\ SameGroup(g, h)
              /\ joining'[d] = joining[d]
              /\ is_member(g) /\ is_member(h)
              => DroppedRemovals(g, h) \cap current(h).members = {}
  BY DEF FilesUnbroken, Unbroken, SameGroup, Sticks
<1> QED
  BY <1>1, <1>2, <1>3, StickInit, AlwaysGood, HashesStayUnique, PTL DEF Spec, RemovalSticks
=============================================================================
