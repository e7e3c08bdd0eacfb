--------------------------- MODULE MCHistorySync ----------------------------
(* HistorySync for TLC. *)
EXTENDS HistorySync

(* Device 2 takes no "a"; device 2 has less room than "a" needs. *)
NoneAtTwo == {<<2, "a">>}

(* Two states that differ only in the values of change counters, not in    *)
(* their order, behave alike; TLC needs to see one of them.  Runs that use *)
(* this view allow no crash (MAX_SEQ compares a counter with a number).    *)
Counters(d) ==
  {history[d].rows[c].change_seq : c \in {e \in Content : Present(history[d], e)}}
    \cup {cursor[dp] : dp \in {x \in Pair : x[1] = d}}
    \cup {batch[dp].next : dp \in {x \in Pair : x[1] = d /\ batch[x] # None}}

Rank(d, n) == Cardinality({m \in Counters(d) : m < n})

RankedRow(d, c) ==
  LET row == history[d].rows[c]
  IN  IF row = Absent THEN row
      ELSE [row EXCEPT !.change_seq = Rank(d, @),
                       !.id = {t \in suspended[d] : t.id = row.id}]

RankedBatch(dp) ==
  IF batch[dp] = None THEN None ELSE [batch[dp] EXCEPT !.next = Rank(dp[1], @)]

(* What a device has heard matters to FeedMissesNothing alone.  The two    *)
(* equations make TLC evaluate the functions before it keeps them.         *)
Ranked ==
  <<[d \in Device |-> <<history[d].clock, [c \in Content |-> RankedRow(d, c)]>>],
    [d \in Device |-> {<<t.from, t.record, t.own>> : t \in suspended[d]}],
    private,
    cursor = cursor, batch = batch,
    \E dp \in Pair : cursor[dp] > history[dp[1]].seq,
    [dp \in Pair |-> Rank(dp[1], cursor[dp])],
    [dp \in Pair |-> RankedBatch(dp)]>>
=============================================================================
