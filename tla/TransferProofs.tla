--------------------------- MODULE TransferProofs ---------------------------
(* For any windows, properties, requests and chunks: a paste that believes *)
(* it is complete has every chunk, each once and in order.                 *)
(*                                                                         *)
(* The argument: while a requestor reads, the owner has at most one chunk  *)
(* or one deletion of its property on the way, and what the owner has sent *)
(* is what the requestor has, and that chunk.  Deletions left over from an *)
(* earlier request come before the new request in the owner's queue, so    *)
(* the answer to it overwrites what they caused.                           *)
EXTENDS Transfer, SequenceTheorems, TLAPS

-----------------------------------------------------------------------------
(* Values. *)

Mail == [kind : {"request", "deleted"}, key : Keys] \cup [kind : {"clear"}]

Reader == [at : {"idle", "asking", "asked", "reading", "whole", "left"},
           got : -1 .. Chunks, slow : BOOLEAN]

Content == {<<>>, <<"all">>, <<"incr">>, <<"end">>} \cup ({"chunk"} \X (1 .. Chunks))

(* The i-th event is about key k. *)
About(box, i, k) == box[i].kind \in {"request", "deleted"} /\ box[i].key = k

IsRequest(box, i, k) == box[i].kind = "request" /\ box[i].key = k

Types ==
    /\ inbox \in Seq(Mail)
    /\ incr \in [Keys -> -1 .. Chunks] /\ prop \in [Keys -> Content]
    /\ req \in [Keys -> Reader]
    /\ display \in Displays /\ stale \subseteq Keys

(* A request waits once, for a requestor that waits for it, and nothing    *)
(* about its property comes after it.                                      *)
RequestsLast(box, k, at) ==
    \A i \in 1..Len(box) : IsRequest(box, i, k) =>
        at = "asked" /\ \A j \in 1..Len(box) : j > i => ~About(box, j, k)

(* While the requestor reads, one deletion waits, or none.                 *)
OneAtATime(box, k, p) ==
    /\ \A i, j \in 1..Len(box) : About(box, i, k) /\ About(box, j, k) => i = j
    /\ p # <<>> => \A i \in 1..Len(box) : ~About(box, i, k)

Pending(box, k) == \E i \in 1..Len(box) : About(box, i, k)

(* What the owner has sent (n), what is in the property (p), and what the  *)
(* requestor has (got): `more` says that the owner may send another one.   *)
InStep(n, p, got, more) ==
    /\ p = <<>> => (more /\ n >= 0 => n = got)
    /\ p = <<"incr">> => got = 0 /\ n \in {0, -1}
    /\ p = <<"end">> => got = Chunks /\ n = -1
    /\ \A m \in 1..Chunks : p = <<"chunk", m>> => got = m - 1 /\ n \in {m, -1}

KeyOK(k) ==
    /\ RequestsLast(inbox, k, req[k].at)
    /\ req[k].at \in {"asking", "asked"} => req[k].got = 0
    /\ req[k].at \in {"reading", "whole"} => display \in {"x11", "wayland"}
    /\ display = "x11" /\ req[k].at = "reading" =>
          OneAtATime(inbox, k, prop[k]) /\ InStep(incr[k], prop[k], req[k].got, Pending(inbox, k))
    /\ display = "wayland" /\ req[k].at = "reading" /\ ~req[k].slow =>
          InStep(incr[k], prop[k], req[k].got, TRUE)
    /\ display = "wayland" =>
          /\ req[k].at = "asked" => incr[k] = -1
          /\ k \in stale => incr[k] >= 0 /\ (req[k].at = "reading" => req[k].slow)
    /\ req[k].at = "whole" /\ ~(display = "wayland" /\ req[k].slow) => req[k].got = Chunks

(* Nothing is deleted on Wayland. *)
PipesOnly == display = "wayland" => \A i \in 1..Len(inbox) : inbox[i].kind # "deleted"

Inv == Types /\ PipesOnly /\ \A k \in Keys : KeyOK(k)

-----------------------------------------------------------------------------
(* The owner's queue. *)

(* What holds of the events about k in one queue holds in the other. *)
Keeps(box, new, k) ==
    /\ \A at : RequestsLast(box, k, at) => RequestsLast(new, k, at)
    /\ \A p : OneAtATime(box, k, p) => OneAtATime(new, k, p)
    /\ Pending(new, k) => Pending(box, k)

LEMMA KeepsSame ==
  ASSUME NEW box, NEW k
  PROVE  Keeps(box, box, k)
BY DEF Keeps

LEMMA TailKeeps ==
  ASSUME NEW box \in Seq(Mail), box # <<>>, NEW k
  PROVE  Keeps(box, Tail(box), k)
<1> DEFINE new == Tail(box)
<1>1. Len(new) = Len(box) - 1 /\ Len(box) \in Nat /\ Len(box) >= 1
      /\ \A i \in 1..Len(new) : i + 1 \in 1..Len(box) /\ new[i] = box[i + 1]
  OBVIOUS
<1> HIDE DEF new
<1>2. \A i \in 1..Len(new) : i + 1 \in 1..Len(box) /\ i \in Nat
                              /\ (About(new, i, k) <=> About(box, i + 1, k))
                              /\ (IsRequest(new, i, k) <=> IsRequest(box, i + 1, k))
  BY <1>1 DEF About, IsRequest
<1>3. ASSUME NEW at, RequestsLast(box, k, at) PROVE RequestsLast(new, k, at)
  <2> SUFFICES ASSUME NEW i \in 1..Len(new), IsRequest(new, i, k)
               PROVE  at = "asked" /\ \A j \in 1..Len(new) : j > i => ~About(new, j, k)
    BY DEF RequestsLast
  <2>1. at = "asked" /\ \A j \in 1..Len(box) : j > i + 1 => ~About(box, j, k)
    BY <1>2, <1>3 DEF RequestsLast
  <2>2. \A j \in 1..Len(new) : j > i => j + 1 > i + 1
    OBVIOUS
  <2> QED
    BY <1>2, <2>1, <2>2
<1>4. ASSUME NEW p, OneAtATime(box, k, p) PROVE OneAtATime(new, k, p)
  <2>1. ASSUME NEW i \in 1..Len(new), NEW j \in 1..Len(new), About(new, i, k), About(new, j, k)
        PROVE  i = j
    <3>1. i + 1 = j + 1
      BY <1>2, <1>4, <2>1 DEF OneAtATime
    <3> QED
      BY <3>1
  <2> QED
    BY <1>2, <1>4, <2>1 DEF OneAtATime
<1>5. Pending(new, k) => Pending(box, k)
  BY <1>2 DEF Pending
<1> QED
  BY <1>3, <1>4, <1>5 DEF Keeps, new

LEMMA AppendIs ==
  ASSUME NEW box \in Seq(Mail), NEW e \in Mail, NEW k
  PROVE  LET new == Append(box, e)
         IN  /\ new \in Seq(Mail) /\ Len(new) = Len(box) + 1 /\ Len(box) \in Nat
             /\ \A i \in 1..Len(box) : /\ new[i] = box[i]
                                       /\ About(new, i, k) <=> About(box, i, k)
                                       /\ IsRequest(new, i, k) <=> IsRequest(box, i, k)
             /\ new[Len(box) + 1] = e
<1> DEFINE new == Append(box, e)
<1>1. new \in Seq(Mail) /\ Len(new) = Len(box) + 1 /\ Len(box) \in Nat
      /\ (\A i \in 1..Len(box) : new[i] = box[i])
      /\ new[Len(box) + 1] = e
  OBVIOUS
<1> HIDE DEF new
<1>2. \A i \in 1..Len(box) : /\ About(new, i, k) <=> About(box, i, k)
                             /\ IsRequest(new, i, k) <=> IsRequest(box, i, k)
  BY <1>1 DEF About, IsRequest
<1> QED
  BY <1>1, <1>2 DEF new

LEMMA AppendKeeps ==
  ASSUME NEW box \in Seq(Mail), NEW e \in Mail, NEW k,
         ~(e.kind \in {"request", "deleted"} /\ e.key = k)
  PROVE  Keeps(box, Append(box, e), k)
<1>n. PICK new : new = Append(box, e)
  OBVIOUS
<1>1. /\ Len(new) = Len(box) + 1 /\ Len(box) \in Nat /\ new[Len(box) + 1] = e
      /\ \A i \in 1..Len(box) : /\ About(new, i, k) <=> About(box, i, k)
                                /\ IsRequest(new, i, k) <=> IsRequest(box, i, k)
  BY <1>n, AppendIs
<1>2. ~About(new, Len(box) + 1, k) /\ ~IsRequest(new, Len(box) + 1, k)
  BY <1>1 DEF About, IsRequest
<1>3. \A i \in 1..Len(new) : i \in 1..Len(box) \/ i = Len(box) + 1
  BY <1>1
<1>4. \A i \in 1..Len(box) : i \in 1..Len(new)
  BY <1>1
<1>5. \A i \in 1..Len(new) : /\ About(new, i, k) => i \in 1..Len(box) /\ About(box, i, k)
                             /\ IsRequest(new, i, k) => i \in 1..Len(box) /\ IsRequest(box, i, k)
  BY <1>1, <1>2, <1>3
<1>6. \A at : RequestsLast(box, k, at) => RequestsLast(new, k, at)
  BY <1>5 DEF RequestsLast
<1>7. \A p : OneAtATime(box, k, p) => OneAtATime(new, k, p)
  BY <1>5 DEF OneAtATime
<1>8. Pending(new, k) => Pending(box, k)
  BY <1>5 DEF Pending
<1> QED
  BY <1>6, <1>7, <1>8, <1>n DEF Keeps

(* No request waits of somebody who is not waiting. *)
LEMMA NoRequests ==
  ASSUME NEW box, NEW k, NEW at, RequestsLast(box, k, at), at # "asked"
  PROVE  /\ \A i \in 1..Len(box) : ~IsRequest(box, i, k)
         /\ \A other : RequestsLast(box, k, other)
BY DEF RequestsLast

-----------------------------------------------------------------------------
(* A step that is not about k. *)

Apart(k) ==
    /\ display' = display /\ req'[k] = req[k] /\ prop'[k] = prop[k]
    /\ incr'[k] = incr[k] \/ (display = "x11" /\ incr'[k] = -1)
    /\ k \in stale' => k \in stale
    /\ Keeps(inbox, inbox', k)

LEMMA InStepLess ==
  ASSUME NEW n, NEW m, m = n \/ m = -1, NEW p, NEW got, NEW a \in BOOLEAN, NEW b \in BOOLEAN,
         b => a, InStep(n, p, got, a)
  PROVE  InStep(m, p, got, b)
BY DEF InStep

LEMMA ApartKeeps ==
  ASSUME Inv, NEW k \in Keys, Apart(k)
  PROVE  KeyOK(k)'
<1>1. KeyOK(k)
  BY DEF Inv
<1>2. /\ display' = display /\ req'[k] = req[k] /\ prop'[k] = prop[k]
      /\ incr'[k] = incr[k] \/ (display = "x11" /\ incr'[k] = -1)
      /\ k \in stale' => k \in stale
  BY DEF Apart
<1>3. RequestsLast(inbox', k, req[k].at)
  BY <1>1 DEF KeyOK, Apart, Keeps
<1>4. ASSUME display = "x11", req[k].at = "reading"
      PROVE  OneAtATime(inbox', k, prop[k]) /\ InStep(incr'[k], prop[k], req[k].got, Pending(inbox', k))
  <2>1. OneAtATime(inbox, k, prop[k]) /\ InStep(incr[k], prop[k], req[k].got, Pending(inbox, k))
    BY <1>1, <1>4 DEF KeyOK
  <2>2. OneAtATime(inbox', k, prop[k]) /\ (Pending(inbox', k) => Pending(inbox, k))
    BY <2>1 DEF Apart, Keeps
  <2>3. Pending(inbox', k) \in BOOLEAN /\ Pending(inbox, k) \in BOOLEAN
    BY DEF Pending
  <2> QED
    BY <1>2, <2>1, <2>2, <2>3, InStepLess
<1> QED
  BY <1>1, <1>2, <1>3, <1>4 DEF KeyOK

-----------------------------------------------------------------------------
(* Values. *)

LEMMA Contents ==
  ASSUME Chunks \in Nat, NEW p \in Content
  PROVE  \/ p = <<>>
         \/ p = <<"all">> /\ Head(p) = "all"
         \/ p = <<"incr">> /\ Head(p) = "incr"
         \/ p = <<"end">> /\ Head(p) = "end"
         \/ \E m \in 1..Chunks : p = <<"chunk", m>> /\ Head(p) = "chunk" /\ p[2] = m
BY DEF Content

LEMMA Distinct ==
  /\ <<"all">> # <<>> /\ <<"incr">> # <<>> /\ <<"end">> # <<>>
  /\ <<"all">> # <<"incr">> /\ <<"all">> # <<"end">> /\ <<"incr">> # <<"end">>
  /\ \A m : /\ <<"chunk", m>> # <<>> /\ <<"chunk", m>> # <<"all">>
            /\ <<"chunk", m>> # <<"incr">> /\ <<"chunk", m>> # <<"end">>
            /\ \A n : <<"chunk", m>> = <<"chunk", n>> => m = n
OBVIOUS

(* What holds of a property just written, or just emptied. *)
LEMMA InStepIncr ==
  ASSUME NEW b
  PROVE  InStep(0, <<"incr">>, 0, b)
BY Distinct DEF InStep

LEMMA InStepAll ==
  ASSUME NEW n, NEW got, NEW b
  PROVE  InStep(n, <<"all">>, got, b)
BY Distinct DEF InStep

LEMMA InStepEnd ==
  ASSUME NEW b
  PROVE  InStep(-1, <<"end">>, Chunks, b)
BY Distinct DEF InStep

LEMMA InStepChunk ==
  ASSUME NEW m \in Nat, NEW b
  PROVE  InStep(m + 1, <<"chunk", m + 1>>, m, b)
BY Distinct DEF InStep

LEMMA InStepNone ==
  ASSUME NEW n, NEW got, n >= 0 => n = got
  PROVE  InStep(n, <<>>, got, TRUE)
BY Distinct DEF InStep

LEMMA InStepAny ==
  ASSUME NEW n, NEW p, NEW got, NEW b, InStep(n, p, got, TRUE)
  PROVE  InStep(n, p, got, b)
BY DEF InStep

LEMMA ReaderIs ==
  ASSUME NEW r \in Reader
  PROVE  /\ r = [at |-> r.at, got |-> r.got, slow |-> r.slow]
         /\ r.got \in -1 .. Chunks /\ r.slow \in BOOLEAN
         /\ r.at \in {"idle", "asking", "asked", "reading", "whole", "left"}
BY DEF Reader

LEMMA TypesOf ==
  ASSUME Inv, NEW k \in Keys
  PROVE  /\ inbox \in Seq(Mail) /\ req[k] \in Reader /\ prop[k] \in Content /\ incr[k] \in -1 .. Chunks
         /\ KeyOK(k)
BY DEF Inv, Types

(* One requestor's record changes. *)
LEMMA ReqChanges ==
  ASSUME Inv, NEW k \in Keys, NEW r \in Reader, req' = [req EXCEPT ![k] = r]
  PROVE  /\ req' \in [Keys -> Reader] /\ req'[k] = r
         /\ \A j \in Keys : j # k => req'[j] = req[j]
BY DEF Inv, Types

LEMMA PropChanges ==
  ASSUME Inv, NEW k \in Keys, NEW p \in Content, prop' = [prop EXCEPT ![k] = p]
  PROVE  /\ prop' \in [Keys -> Content] /\ prop'[k] = p
         /\ \A j \in Keys : j # k => prop'[j] = prop[j]
BY DEF Inv, Types

-----------------------------------------------------------------------------
(* The requestors. *)

(* A property is emptied, by a requestor that waits for no answer. *)
Emptied(k) ==
    /\ prop' = [prop EXCEPT ![k] = <<>>]
    /\ \/ inbox' = inbox
       \/ display = "x11" /\ inbox' = Append(inbox, [kind |-> "deleted", key |-> k])

LEMMA EmptiedFacts ==
  ASSUME Inv, NEW k \in Keys, Emptied(k), req[k].at # "asked", display' = display
  PROVE  /\ inbox' \in Seq(Mail) /\ prop' \in [Keys -> Content] /\ prop'[k] = <<>>
         /\ \A j \in Keys : j # k => prop'[j] = prop[j] /\ Keeps(inbox, inbox', j)
         /\ \A at : RequestsLast(inbox', k, at)
         /\ (\A i \in 1..Len(inbox) : ~About(inbox, i, k)) => OneAtATime(inbox', k, <<>>)
         /\ PipesOnly'
<1>e. PICK e : e = [kind |-> "deleted", key |-> k]
  OBVIOUS
<1>1. e \in Mail /\ e.kind = "deleted" /\ e.key = k
  BY <1>e DEF Mail
<1>2. inbox \in Seq(Mail) /\ KeyOK(k)
  BY TypesOf
<1>3. inbox' = inbox \/ (display = "x11" /\ inbox' = Append(inbox, e))
  BY <1>e DEF Emptied
<1>4. <<>> \in Content
  BY DEF Content
<1>5. /\ prop' \in [Keys -> Content] /\ prop'[k] = <<>>
      /\ \A j \in Keys : j # k => prop'[j] = prop[j]
  BY <1>4, PropChanges DEF Emptied
<1>6. \A j \in Keys : j # k => Keeps(inbox, inbox', j)
  BY <1>1, <1>2, <1>3, KeepsSame, AppendKeeps
<1>7. RequestsLast(inbox, k, req[k].at)
  BY <1>2 DEF KeyOK
<1>8. \A i \in 1..Len(inbox) : ~IsRequest(inbox, i, k)
  BY <1>7, NoRequests
<1>9. CASE inbox' = inbox
  <2>1. \A at : RequestsLast(inbox', k, at)
    BY <1>7, <1>9, NoRequests
  <2>2. (\A i \in 1..Len(inbox) : ~About(inbox, i, k)) => OneAtATime(inbox', k, <<>>)
    BY <1>9 DEF OneAtATime
  <2>3. PipesOnly'
    BY <1>9 DEF Inv, PipesOnly
  <2> QED
    BY <1>2, <1>5, <1>6, <1>9, <2>1, <2>2, <2>3
<1>10. CASE display = "x11" /\ inbox' = Append(inbox, e)
  <2>1. /\ inbox' \in Seq(Mail) /\ Len(inbox') = Len(inbox) + 1 /\ Len(inbox) \in Nat
        /\ inbox'[Len(inbox) + 1] = e
        /\ \A i \in 1..Len(inbox) : /\ About(inbox', i, k) <=> About(inbox, i, k)
                                    /\ IsRequest(inbox', i, k) <=> IsRequest(inbox, i, k)
    BY <1>1, <1>2, <1>10, AppendIs
  <2>2. \A i \in 1..Len(inbox') : i \in 1..Len(inbox) \/ i = Len(inbox) + 1
    BY <2>1
  <2>3. ~IsRequest(inbox', Len(inbox) + 1, k)
    BY <1>1, <2>1 DEF IsRequest
  <2>4. \A i \in 1..Len(inbox') : ~IsRequest(inbox', i, k)
    BY <1>8, <2>1, <2>2, <2>3
  <2>5. \A at : RequestsLast(inbox', k, at)
    BY <2>4 DEF RequestsLast
  <2>6. (\A i \in 1..Len(inbox) : ~About(inbox, i, k)) => OneAtATime(inbox', k, <<>>)
    BY <2>1, <2>2 DEF OneAtATime
  <2>7. PipesOnly'
    BY <1>10 DEF PipesOnly
  <2> QED
    BY <1>5, <1>6, <2>1, <2>5, <2>6, <2>7
<1> QED
  BY <1>3, <1>9, <1>10

LEMMA StepAsk ==
  ASSUME Chunks \in Nat, Inv, NEW k \in Keys, Ask(k)
  PROVE  Inv'
<1>r. PICK r : r = [at |-> "asking", got |-> 0, slow |-> FALSE]
  OBVIOUS
<1>0. /\ req[k].at \in {"idle", "whole", "left"} /\ req' = [req EXCEPT ![k] = r]
      /\ Emptied(k) /\ UNCHANGED <<display, incr, stale>>
  BY <1>r DEF Ask, Deleted, Emptied
<1>1. r \in Reader /\ r.at = "asking" /\ r.got = 0
  BY <1>r DEF Reader
<1>2. /\ req' \in [Keys -> Reader] /\ req'[k] = r /\ \A j \in Keys : j # k => req'[j] = req[j]
  BY <1>0, <1>1, ReqChanges
<1>3. /\ inbox' \in Seq(Mail) /\ prop' \in [Keys -> Content]
      /\ \A j \in Keys : j # k => prop'[j] = prop[j] /\ Keeps(inbox, inbox', j)
      /\ \A at : RequestsLast(inbox', k, at)
      /\ PipesOnly'
  BY <1>0, EmptiedFacts
<1>4. Types'
  BY <1>0, <1>2, <1>3 DEF Inv, Types
<1>5. KeyOK(k)
  BY DEF Inv
<1>6. KeyOK(k)'
  BY <1>0, <1>1, <1>2, <1>3, <1>5 DEF KeyOK
<1>7. \A j \in Keys : j # k => KeyOK(j)'
  BY <1>0, <1>2, <1>3, ApartKeeps DEF Apart
<1> QED
  BY <1>3, <1>4, <1>6, <1>7 DEF Inv

LEMMA StepAsked ==
  ASSUME Chunks \in Nat, Inv, NEW k \in Keys, Asked(k)
  PROVE  Inv'
<1>r. PICK r : r = [req[k] EXCEPT !.at = IF serving THEN "asked" ELSE "left"]
  OBVIOUS
<1>e. PICK e : e = [kind |-> "request", key |-> k]
  OBVIOUS
<1>0. /\ req[k].at = "asking" /\ (display = "wayland" => incr[k] = -1)
      /\ req' = [req EXCEPT ![k] = r]
      /\ inbox' = IF serving THEN Append(inbox, e) ELSE inbox
      /\ UNCHANGED <<display, incr, stale, prop>>
  BY <1>e, <1>r DEF Asked
<1>t. inbox \in Seq(Mail) /\ req[k] \in Reader /\ KeyOK(k)
  BY TypesOf
<1>1. r \in Reader /\ r.at = (IF serving THEN "asked" ELSE "left") /\ r.got = req[k].got
  BY <1>r, <1>t DEF Reader
<1>2. /\ req' \in [Keys -> Reader] /\ req'[k] = r /\ \A j \in Keys : j # k => req'[j] = req[j]
  BY <1>0, <1>1, ReqChanges
<1>3. e \in Mail /\ e.kind = "request" /\ e.key = k
  BY <1>e DEF Mail
<1>4. inbox' \in Seq(Mail) /\ \A j \in Keys : j # k => Keeps(inbox, inbox', j)
  BY <1>0, <1>3, <1>t, AppendIs, AppendKeeps, KeepsSame
<1>5. RequestsLast(inbox, k, req[k].at) /\ req[k].got = 0
  BY <1>0, <1>t DEF KeyOK
<1>6. \A i \in 1..Len(inbox) : ~IsRequest(inbox, i, k)
  BY <1>0, <1>5, NoRequests
<1>7. RequestsLast(inbox', k, r.at)
  <2>1. CASE ~serving
    BY <1>0, <1>5, <2>1, NoRequests
  <2>2. CASE serving
    <3>1. /\ Len(inbox') = Len(inbox) + 1 /\ Len(inbox) \in Nat
          /\ \A i \in 1..Len(inbox) : IsRequest(inbox', i, k) <=> IsRequest(inbox, i, k)
      BY <1>0, <1>3, <1>t, <2>2, AppendIs
    <3>2. \A i \in 1..Len(inbox') : IsRequest(inbox', i, k) => i = Len(inbox')
      BY <1>6, <3>1
    <3>3. r.at = "asked"
      BY <1>1, <2>2
    <3> QED
      BY <3>1, <3>2, <3>3 DEF RequestsLast
  <2> QED
    BY <2>1, <2>2
<1>8. PipesOnly'
  <2>1. CASE ~serving
    BY <1>0, <2>1 DEF Inv, PipesOnly
  <2>2. CASE serving
    <3>1. /\ Len(inbox') = Len(inbox) + 1 /\ Len(inbox) \in Nat /\ inbox'[Len(inbox) + 1] = e
          /\ \A i \in 1..Len(inbox) : inbox'[i] = inbox[i]
      BY <1>0, <1>3, <1>t, <2>2, AppendIs
    <3>2. \A i \in 1..Len(inbox') : i \in 1..Len(inbox) \/ i = Len(inbox) + 1
      BY <3>1
    <3> QED
      BY <1>0, <1>3, <3>1, <3>2 DEF Inv, PipesOnly
  <2> QED
    BY <2>1, <2>2
<1>9. Types'
  BY <1>0, <1>2, <1>4 DEF Inv, Types
<1>10. KeyOK(k)'
  <2>1. r.at \in {"asked", "left"} /\ r.got = 0
    BY <1>1, <1>5
  <2> QED
    BY <1>0, <1>2, <1>7, <1>t, <2>1 DEF KeyOK
<1>11. \A j \in Keys : j # k => KeyOK(j)'
  BY <1>0, <1>2, <1>4, ApartKeeps DEF Apart
<1> QED
  BY <1>8, <1>9, <1>10, <1>11 DEF Inv

LEMMA ReaderMade ==
  ASSUME NEW at \in {"idle", "asking", "asked", "reading", "whole", "left"},
         NEW g \in -1 .. Chunks, NEW b \in BOOLEAN
  PROVE  [at |-> at, got |-> g, slow |-> b] \in Reader
BY DEF Reader

IsRead(r, p, q) == p # <<>> /\ q.at = "reading" /\ r = Reads(p, q)

LEMMA Received ==
  ASSUME Chunks \in Nat, NEW p \in Content, NEW q \in Reader, NEW n \in -1 .. Chunks,
         NEW a, NEW r, IsRead(r, p, q)
  PROVE  /\ r \in Reader /\ r.at \in {"reading", "whole"} /\ (r.slow => q.slow) /\ (q.slow => r.slow)
         /\ InStep(n, p, q.got, a) => /\ r.at = "whole" => r.got = Chunks
                                      /\ r.at = "reading" => InStep(n, <<>>, r.got, TRUE)
<1>r. p # <<>> /\ q.at = "reading" /\ r = Reads(p, q)
  BY DEF IsRead
<1>q. /\ q = [at |-> "reading", got |-> q.got, slow |-> q.slow]
      /\ q.got \in -1 .. Chunks /\ q.slow \in BOOLEAN
  BY <1>r, ReaderIs
<1>1. CASE p = <<"end">> /\ Head(p) = "end"
  <2>1. r = [at |-> "whole", got |-> q.got, slow |-> q.slow]
    BY <1>1, <1>q, <1>r DEF Reads
  <2>2. InStep(n, p, q.got, a) => q.got = Chunks
    BY <1>1 DEF InStep
  <2>3. r \in Reader /\ r.at = "whole" /\ r.got = q.got
    BY <1>q, <2>1, ReaderMade
  <2>4. r.slow = q.slow
    BY <2>1
  <2> QED
    BY <2>2, <2>3, <2>4
<1>2. CASE p = <<"all">> /\ Head(p) = "all"
  <2>1. r = [at |-> "whole", got |-> Chunks, slow |-> q.slow]
    BY <1>2, <1>q, <1>r DEF Reads
  <2>3. r \in Reader /\ r.at = "whole" /\ r.got = Chunks
    BY <1>q, <2>1, ReaderMade
  <2>4. r.slow = q.slow
    BY <2>1
  <2> QED
    BY <2>3, <2>4
<1>3. CASE p = <<"incr">> /\ Head(p) = "incr"
  <2>1. r = q
    BY <1>3, <1>r DEF Reads
  <2>2. InStep(n, p, q.got, a) => q.got = 0 /\ n \in {0, -1}
    BY <1>3 DEF InStep
  <2>3. InStep(n, p, q.got, a) => InStep(n, <<>>, q.got, TRUE)
    <3>1. InStep(n, p, q.got, a) => (n >= 0 => n = q.got)
      BY <2>2
    <3> QED
      BY <3>1, InStepNone
  <2> QED
    BY <1>q, <1>r, <2>1, <2>3
<1>4. CASE \E m \in 1..Chunks : p = <<"chunk", m>> /\ Head(p) = "chunk" /\ p[2] = m
  <2>1. PICK m \in 1..Chunks : p = <<"chunk", m>> /\ Head(p) = "chunk" /\ p[2] = m
    BY <1>4
  <2>g. PICK g : g = IF m = q.got + 1 THEN q.got + 1 ELSE -1
    OBVIOUS
  <2>2. r = [at |-> "reading", got |-> g, slow |-> q.slow]
    BY <1>q, <1>r, <2>1, <2>g DEF Reads
  <2>3. g \in -1 .. Chunks
    BY <1>q, <2>g
  <2>4. InStep(n, p, q.got, a) => q.got = m - 1 /\ n \in {m, -1}
    BY <2>1 DEF InStep
  <2>5. InStep(n, p, q.got, a) => g = m /\ n \in {m, -1}
    BY <1>q, <2>4, <2>g
  <2>6. InStep(n, p, q.got, a) => InStep(n, <<>>, g, TRUE)
    <3>1. InStep(n, p, q.got, a) => (n >= 0 => n = g)
      BY <2>5
    <3> QED
      BY <3>1, InStepNone
  <2>7. r \in Reader /\ r.at = "reading" /\ r.got = g
    BY <1>q, <2>2, <2>3, ReaderMade
  <2>8. r.slow = q.slow
    BY <2>2
  <2> QED
    BY <2>6, <2>7, <2>8
<1> QED
  BY <1>1, <1>2, <1>3, <1>4, <1>r, Contents

LEMMA StepReceive ==
  ASSUME Chunks \in Nat, Inv, NEW k \in Keys, Receive(k)
  PROVE  Inv'
<1>q. PICK q : q = req[k]
  OBVIOUS
<1>p. PICK p : p = prop[k]
  OBVIOUS
<1>r. PICK r : r = Reads(p, q)
  OBVIOUS
<1>0. /\ q.at = "reading" /\ p # <<>> /\ req' = [req EXCEPT ![k] = r]
      /\ Emptied(k) /\ UNCHANGED <<display, incr, stale>>
  <2>1. q.at = "reading" /\ p # <<>> /\ UNCHANGED <<display, incr, stale>>
    BY <1>p, <1>q DEF Receive
  <2>2. req' = [req EXCEPT ![k] = r]
    <3>1. req' = [req EXCEPT ![k] = Reads(prop[k], req[k])]
      BY DEF Receive
    <3> QED
      BY <1>p, <1>q, <1>r, <3>1
  <2>3. Emptied(k)
    BY DEF Receive, Deleted, Emptied
  <2> QED
    BY <2>1, <2>2, <2>3
<1>t. inbox \in Seq(Mail) /\ q \in Reader /\ p \in Content /\ incr[k] \in -1 .. Chunks /\ KeyOK(k)
  BY <1>p, <1>q, TypesOf
<1>a. PICK a \in BOOLEAN : a = IF display = "x11" THEN Pending(inbox, k) ELSE TRUE
  BY DEF Pending
<1>1. /\ r \in Reader /\ r.at \in {"reading", "whole"} /\ (r.slow => q.slow) /\ (q.slow => r.slow)
      /\ InStep(incr[k], p, q.got, a) => /\ r.at = "whole" => r.got = Chunks
                                         /\ r.at = "reading" => InStep(incr[k], <<>>, r.got, TRUE)
  <2>1. IsRead(r, p, q)
    BY <1>0, <1>r DEF IsRead
  <2> QED
    BY <1>t, <2>1, Received
<1>2. /\ req' \in [Keys -> Reader] /\ req'[k] = r /\ \A j \in Keys : j # k => req'[j] = req[j]
  BY <1>0, <1>1, ReqChanges
<1>3. /\ inbox' \in Seq(Mail) /\ prop' \in [Keys -> Content] /\ prop'[k] = <<>>
      /\ \A j \in Keys : j # k => prop'[j] = prop[j] /\ Keeps(inbox, inbox', j)
      /\ \A at : RequestsLast(inbox', k, at)
      /\ (\A i \in 1..Len(inbox) : ~About(inbox, i, k)) => OneAtATime(inbox', k, <<>>)
      /\ PipesOnly'
  BY <1>0, <1>q, EmptiedFacts
<1>4. Types'
  BY <1>0, <1>2, <1>3 DEF Inv, Types
<1>5. display \in {"x11", "wayland"}
  BY <1>0, <1>q, <1>t DEF KeyOK
<1>6. display = "x11" => InStep(incr[k], p, q.got, a) /\ OneAtATime(inbox', k, <<>>)
  BY <1>0, <1>3, <1>a, <1>p, <1>q, <1>t DEF KeyOK, OneAtATime
<1>7. display = "wayland" /\ ~q.slow => InStep(incr[k], p, q.got, a)
  BY <1>0, <1>a, <1>p, <1>q, <1>t DEF KeyOK
<1>8. InStep(incr[k], <<>>, r.got, TRUE) => InStep(incr[k], <<>>, r.got, Pending(inbox', k))
  BY InStepAny
<1>9. display = "wayland" => (k \in stale => incr[k] >= 0 /\ q.slow)
  BY <1>0, <1>q, <1>t DEF KeyOK
<1>10. KeyOK(k)'
  <2>1. display = "x11" /\ r.at = "reading" => InStep(incr[k], <<>>, r.got, Pending(inbox', k))
    BY <1>1, <1>6, <1>8
  <2>2. display = "wayland" /\ r.at = "reading" /\ ~r.slow => InStep(incr[k], <<>>, r.got, TRUE)
    BY <1>1, <1>7
  <2>3. r.at = "whole" /\ ~(display = "wayland" /\ r.slow) => r.got = Chunks
    BY <1>1, <1>5, <1>6, <1>7
  <2>4. display = "wayland" => (k \in stale => incr[k] >= 0 /\ (r.at = "reading" => r.slow))
    BY <1>1, <1>9
  <2> QED
    BY <1>0, <1>1, <1>2, <1>3, <1>5, <1>6, <2>1, <2>2, <2>3, <2>4 DEF KeyOK
<1>11. \A j \in Keys : j # k => KeyOK(j)'
  BY <1>0, <1>2, <1>3, ApartKeeps DEF Apart
<1> QED
  BY <1>3, <1>4, <1>10, <1>11 DEF Inv

LEMMA StepLeave ==
  ASSUME Inv, NEW k \in Keys, Leave(k)
  PROVE  Inv'
<1>r. PICK r : r = [req[k] EXCEPT !.at = "left"]
  OBVIOUS
<1>0. /\ req[k].at = "reading" /\ req' = [req EXCEPT ![k] = r]
      /\ UNCHANGED <<display, inbox, incr, stale, prop>>
  BY <1>r DEF Leave
<1>t. req[k] \in Reader /\ KeyOK(k)
  BY TypesOf
<1>1. r \in Reader /\ r.at = "left"
  BY <1>r, <1>t DEF Reader
<1>2. /\ req' \in [Keys -> Reader] /\ req'[k] = r /\ \A j \in Keys : j # k => req'[j] = req[j]
  BY <1>0, <1>1, ReqChanges
<1>3. Types' /\ PipesOnly'
  BY <1>0, <1>2 DEF Inv, Types, PipesOnly
<1>4. RequestsLast(inbox, k, "left")
  <2>1. RequestsLast(inbox, k, req[k].at)
    BY <1>t DEF KeyOK
  <2> QED
    BY <1>0, <2>1, NoRequests
<1>5. KeyOK(k)'
  BY <1>0, <1>1, <1>2, <1>4, <1>t DEF KeyOK
<1>6. \A j \in Keys : j # k => KeyOK(j)'
  BY <1>0, <1>2, ApartKeeps, KeepsSame DEF Apart
<1> QED
  BY <1>3, <1>5, <1>6 DEF Inv

LEMMA StepStall ==
  ASSUME Inv, NEW k \in Keys, Stall(k)
  PROVE  Inv'
<1>r. PICK r : r = [req[k] EXCEPT !.slow = TRUE]
  OBVIOUS
<1>0. /\ incr[k] >= 0 /\ req' = [req EXCEPT ![k] = r] /\ stale' = stale \cup {k}
      /\ UNCHANGED <<display, inbox, incr, prop>>
  BY <1>r DEF Stall
<1>t. req[k] \in Reader /\ KeyOK(k)
  BY TypesOf
<1>1. r \in Reader /\ r.at = req[k].at /\ r.got = req[k].got /\ r.slow
  BY <1>r, <1>t DEF Reader
<1>2. /\ req' \in [Keys -> Reader] /\ req'[k] = r /\ \A j \in Keys : j # k => req'[j] = req[j]
  BY <1>0, <1>1, ReqChanges
<1>3. Types' /\ PipesOnly'
  BY <1>0, <1>2 DEF Inv, Types, PipesOnly
<1>4. KeyOK(k)'
  BY <1>0, <1>1, <1>2, <1>t DEF KeyOK
<1>5. \A j \in Keys : j # k => KeyOK(j)'
  BY <1>0, <1>2, ApartKeeps, KeepsSame DEF Apart
<1> QED
  BY <1>3, <1>4, <1>5 DEF Inv

LEMMA StepLose ==
  ASSUME Inv, Lose
  PROVE  Inv'
<1>e. PICK e : e = [kind |-> "clear"]
  OBVIOUS
<1>0. inbox' = Append(inbox, e) /\ UNCHANGED <<display, incr, stale, prop, req>>
  BY <1>e DEF Lose
<1>1. e \in Mail /\ e.kind = "clear" /\ inbox \in Seq(Mail)
  BY <1>e DEF Mail, Inv, Types
<1>2. /\ inbox' \in Seq(Mail) /\ Len(inbox') = Len(inbox) + 1 /\ Len(inbox) \in Nat
      /\ inbox'[Len(inbox) + 1] = e /\ \A i \in 1..Len(inbox) : inbox'[i] = inbox[i]
  BY <1>0, <1>1, AppendIs
<1>3. \A i \in 1..Len(inbox') : i \in 1..Len(inbox) \/ i = Len(inbox) + 1
  BY <1>2
<1>4. Types' /\ PipesOnly'
  BY <1>0, <1>1, <1>2, <1>3 DEF Inv, Types, PipesOnly
<1>5. \A j \in Keys : Keeps(inbox, inbox', j)
  BY <1>0, <1>1, AppendKeeps
<1>6. \A j \in Keys : KeyOK(j)'
  BY <1>0, <1>5, ApartKeeps DEF Apart
<1> QED
  BY <1>4, <1>6 DEF Inv

-----------------------------------------------------------------------------
(* The owner on X11. *)

Nothing(box, k) == \A i \in 1..Len(box) : ~About(box, i, k)

LEMMA NothingIs ==
  ASSUME NEW box, NEW k, Nothing(box, k)
  PROVE  (\A at : RequestsLast(box, k, at)) /\ (\A p : OneAtATime(box, k, p))
BY DEF Nothing, RequestsLast, OneAtATime, About, IsRequest

(* The first event is handled. *)
LEMMA HeadIs ==
  ASSUME Inv, inbox # <<>>, inbox' = Tail(inbox), display' = display
  PROVE  /\ Head(inbox) = inbox[1] /\ Head(inbox) \in Mail /\ 1 \in 1..Len(inbox)
         /\ inbox' \in Seq(Mail) /\ PipesOnly'
         /\ \A k \in Keys : Keeps(inbox, inbox', k)
<1>t. inbox \in Seq(Mail)
  BY DEF Inv, Types
<1>1. /\ Head(inbox) = inbox[1] /\ Head(inbox) \in Mail /\ 1 \in 1..Len(inbox)
      /\ inbox' \in Seq(Mail) /\ Len(inbox') = Len(inbox) - 1 /\ Len(inbox) \in Nat
      /\ \A i \in 1..Len(inbox') : i + 1 \in 1..Len(inbox) /\ inbox'[i] = inbox[i + 1]
  BY <1>t
<1>2. PipesOnly'
  BY <1>1 DEF Inv, PipesOnly
<1>3. \A k \in Keys : Keeps(inbox, inbox', k)
  BY <1>t, TailKeeps
<1> QED
  BY <1>1, <1>2, <1>3

(* An event that was the only one, or the last one, about its key. *)
LEMMA NothingAfter ==
  ASSUME Inv, inbox # <<>>, inbox' = Tail(inbox), NEW k,
         \A j \in 1..Len(inbox) : j > 1 => ~About(inbox, j, k)
  PROVE  Nothing(inbox', k)
<1>t. inbox \in Seq(Mail)
  BY DEF Inv, Types
<1>1. \A i \in 1..Len(inbox') : /\ i + 1 \in 1..Len(inbox) /\ inbox'[i] = inbox[i + 1]
                                /\ i + 1 > 1
  BY <1>t
<1> QED
  BY <1>1 DEF Nothing, About

(* A request is at the head: its requestor waits, and nothing follows. *)
LEMMA RequestIs ==
  ASSUME Inv, inbox # <<>>, Head(inbox).kind = "request", inbox' = Tail(inbox), display' = display,
         NEW k, k = Head(inbox).key
  PROVE  /\ k \in Keys /\ req[k].at = "asked" /\ req[k].got = 0 /\ Nothing(inbox', k)
<1>1. Head(inbox) = inbox[1] /\ Head(inbox) \in Mail /\ 1 \in 1..Len(inbox)
  BY HeadIs
<1>2. k \in Keys
  BY <1>1 DEF Mail
<1>3. IsRequest(inbox, 1, k)
  BY <1>1 DEF IsRequest
<1>4. KeyOK(k)
  BY <1>2 DEF Inv
<1>5. req[k].at = "asked" /\ \A j \in 1..Len(inbox) : j > 1 => ~About(inbox, j, k)
  BY <1>1, <1>3, <1>4 DEF KeyOK, RequestsLast
<1>6. Nothing(inbox', k)
  BY <1>5, NothingAfter
<1> QED
  BY <1>2, <1>4, <1>5, <1>6 DEF KeyOK

LEMMA ExpiredIs ==
  ASSUME Inv, Chunks \in Nat
  PROVE  /\ Expired \in [Keys -> -1 .. Chunks]
         /\ \A k \in Keys : Expired[k] = incr[k] \/ Expired[k] = -1
BY DEF Inv, Types, Expired

(* The request of k is taken from the inbox. *)
RequestTaken(k) ==
  /\ display = "x11" /\ inbox # <<>> /\ Head(inbox).kind = "request" /\ k = Head(inbox).key
  /\ inbox' = Tail(inbox) /\ stale' = {} /\ display' = display

(* It is answered: n chunks sent, p in the property. *)
Replied(k, at, p, n) ==
  /\ req' = [req EXCEPT ![k].at = at]
  /\ prop' \in [Keys -> Content] /\ prop'[k] = p /\ \A j \in Keys : j # k => prop'[j] = prop[j]
  /\ incr' \in [Keys -> -1 .. Chunks] /\ incr'[k] = n
  /\ \A j \in Keys : j # k => incr'[j] = incr[j] \/ incr'[j] = -1

LEMMA Answered ==
  ASSUME Chunks \in Nat, Inv, NEW k, RequestTaken(k),
         NEW at \in {"left", "reading"}, NEW p \in Content, NEW n \in -1 .. Chunks,
         Replied(k, at, p, n), at = "reading" => InStep(n, p, 0, TRUE)
  PROVE  Inv'
<1>t. /\ display = "x11" /\ inbox # <<>> /\ Head(inbox).kind = "request" /\ k = Head(inbox).key
      /\ inbox' = Tail(inbox) /\ stale' = {} /\ display' = display
  BY DEF RequestTaken
<1>0. /\ req' = [req EXCEPT ![k].at = at]
      /\ prop' \in [Keys -> Content] /\ prop'[k] = p /\ \A j \in Keys : j # k => prop'[j] = prop[j]
      /\ incr' \in [Keys -> -1 .. Chunks] /\ incr'[k] = n
      /\ \A j \in Keys : j # k => incr'[j] = incr[j] \/ incr'[j] = -1
  BY DEF Replied
<1>1. k \in Keys /\ req[k].at = "asked" /\ req[k].got = 0 /\ Nothing(inbox', k)
  BY <1>t, RequestIs
<1>2. inbox' \in Seq(Mail) /\ PipesOnly' /\ \A j \in Keys : Keeps(inbox, inbox', j)
  BY <1>t, HeadIs
<1>r. PICK r : r = [req[k] EXCEPT !.at = at]
  OBVIOUS
<1>3. req[k] \in Reader
  BY <1>1, TypesOf
<1>4. r \in Reader /\ r.at = at /\ r.got = 0
  BY <1>1, <1>3, <1>r DEF Reader
<1>5. req' = [req EXCEPT ![k] = r]
  BY <1>0, <1>r
<1>6. /\ req' \in [Keys -> Reader] /\ req'[k] = r /\ \A j \in Keys : j # k => req'[j] = req[j]
  BY <1>1, <1>4, <1>5, ReqChanges
<1>7. Types'
  BY <1>0, <1>2, <1>6, <1>t DEF Inv, Types
<1>8. RequestsLast(inbox', k, at) /\ OneAtATime(inbox', k, p)
  BY <1>1, NothingIs
<1>9. at = "reading" => InStep(n, p, 0, Pending(inbox', k))
  BY InStepAny
<1>10. KeyOK(k)'
  BY <1>0, <1>4, <1>6, <1>8, <1>9, <1>t DEF KeyOK
<1>11. \A j \in Keys : j # k => KeyOK(j)'
  BY <1>0, <1>2, <1>6, <1>t, ApartKeeps DEF Apart
<1> QED
  BY <1>2, <1>7, <1>10, <1>11 DEF Inv

LEMMA StepAnswer ==
  ASSUME Chunks \in Nat, Inv, Answer
  PROVE  Inv'
<1>k. PICK k : k = Head(inbox).key
  OBVIOUS
<1>0. /\ display = "x11" /\ inbox # <<>> /\ Head(inbox).kind = "request"
      /\ inbox' = Tail(inbox) /\ stale' = {} /\ display' = display
  BY DEF Answer
<1>t. RequestTaken(k)
  BY <1>0, <1>k DEF RequestTaken
<1>1. k \in Keys
  BY <1>0, <1>k, RequestIs
<1>2. /\ Expired \in [Keys -> -1 .. Chunks] /\ prop \in [Keys -> Content]
      /\ \A j \in Keys : Expired[j] = incr[j] \/ Expired[j] = -1
  BY ExpiredIs DEF Inv, Types
<1>3. CASE req' = [req EXCEPT ![k].at = "left"] /\ incr' = Expired /\ UNCHANGED prop
  <2>1. /\ prop' \in [Keys -> Content] /\ prop'[k] \in Content /\ incr'[k] \in -1 .. Chunks
        /\ \A j \in Keys : j # k => prop'[j] = prop[j]
    BY <1>1, <1>2, <1>3
  <2>2. /\ incr' \in [Keys -> -1 .. Chunks]
        /\ \A j \in Keys : j # k => incr'[j] = incr[j] \/ incr'[j] = -1
    BY <1>2, <1>3
  <2>p. PICK p \in Content, n \in -1 .. Chunks : p = prop'[k] /\ n = incr'[k]
    BY <2>1
  <2>3. Replied(k, "left", p, n)
    BY <1>3, <2>1, <2>2, <2>p DEF Replied
  <2> QED
    BY <1>t, <2>3, Answered
<1>4. CASE /\ req' = [req EXCEPT ![k].at = "reading"] /\ prop' = [prop EXCEPT ![k] = <<"all">>]
           /\ incr' = Expired
  <2>1. <<"all">> \in Content
    BY DEF Content
  <2>2. /\ prop' \in [Keys -> Content] /\ prop'[k] = <<"all">>
        /\ \A j \in Keys : j # k => prop'[j] = prop[j]
    BY <1>1, <1>2, <1>4, <2>1
  <2>3. /\ incr' \in [Keys -> -1 .. Chunks] /\ incr'[k] \in -1 .. Chunks
        /\ \A j \in Keys : j # k => incr'[j] = incr[j] \/ incr'[j] = -1
    BY <1>1, <1>2, <1>4
  <2>4. InStep(incr'[k], <<"all">>, 0, TRUE)
    BY InStepAll
  <2> QED
    <3>n. PICK n \in -1 .. Chunks : n = incr'[k]
      BY <2>3
    <3>1. Replied(k, "reading", <<"all">>, n) /\ InStep(n, <<"all">>, 0, TRUE)
      BY <1>4, <2>2, <2>3, <2>4, <3>n DEF Replied
    <3> QED
      BY <1>t, <2>1, <3>1, Answered
<1>5. CASE /\ req' = [req EXCEPT ![k].at = "reading"] /\ prop' = [prop EXCEPT ![k] = <<"incr">>]
           /\ incr' = Started(Expired, k)
  <2>1. <<"incr">> \in Content
    BY DEF Content
  <2>2. /\ prop' \in [Keys -> Content] /\ prop'[k] = <<"incr">>
        /\ \A j \in Keys : j # k => prop'[j] = prop[j]
    BY <1>1, <1>2, <1>5, <2>1
  <2>3. /\ incr' \in [Keys -> -1 .. Chunks] /\ incr'[k] = 0 /\ 0 \in -1 .. Chunks
        /\ \A j \in Keys : j # k => incr'[j] = incr[j] \/ incr'[j] = -1
    BY <1>1, <1>2, <1>5 DEF Started
  <2>4. InStep(0, <<"incr">>, 0, TRUE)
    BY InStepIncr
  <2> QED
    <3>1. Replied(k, "reading", <<"incr">>, 0) /\ 0 \in -1 .. Chunks
      BY <1>5, <2>2, <2>3 DEF Replied
    <3> QED
      BY <1>t, <2>1, <2>4, <3>1, Answered
<1> QED
  BY <1>3, <1>4, <1>5, <1>k DEF Answer

(* The next piece, after n of them. *)
LEMMA NextPiece ==
  ASSUME Chunks \in Nat, NEW n \in 0 .. Chunks, NEW m, NEW p,
         IF n = Chunks THEN m = -1 /\ p = <<"end">> ELSE m = n + 1 /\ p = <<"chunk", n + 1>>
  PROVE  m \in -1 .. Chunks /\ p \in Content /\ InStep(m, p, n, TRUE)
<1>1. CASE n = Chunks
  <2>1. m = -1 /\ p = <<"end">>
    BY <1>1
  <2>2. m \in -1 .. Chunks /\ p \in Content
    BY <2>1 DEF Content
  <2> QED
    BY <1>1, <2>1, <2>2, InStepEnd
<1>2. CASE n # Chunks
  <2>1. m = n + 1 /\ p = <<"chunk", n + 1>> /\ n \in Nat /\ n + 1 \in 1..Chunks
    BY <1>2
  <2>2. m \in -1 .. Chunks /\ p \in Content
    BY <2>1 DEF Content
  <2> QED
    BY <2>1, <2>2, InStepChunk
<1> QED
  BY <1>1, <1>2

LEMMA StepContinue ==
  ASSUME Chunks \in Nat, Inv, continue_incr
  PROVE  Inv'
<1>k. PICK k : k = Head(inbox).key
  OBVIOUS
<1>n. PICK n : n = Expired[k]
  OBVIOUS
<1>0. /\ display = "x11" /\ inbox # <<>> /\ Head(inbox).kind = "deleted"
      /\ inbox' = Tail(inbox) /\ stale' = {} /\ display' = display /\ req' = req
  BY DEF continue_incr
<1>1. /\ Head(inbox) = inbox[1] /\ Head(inbox) \in Mail /\ 1 \in 1..Len(inbox)
      /\ inbox' \in Seq(Mail) /\ PipesOnly'
      /\ \A j \in Keys : Keeps(inbox, inbox', j)
  BY <1>0, HeadIs
<1>2. k \in Keys /\ About(inbox, 1, k)
  BY <1>0, <1>1, <1>k DEF Mail, About
<1>3. /\ Expired \in [Keys -> -1 .. Chunks] /\ prop \in [Keys -> Content] /\ req \in [Keys -> Reader]
      /\ \A j \in Keys : Expired[j] = incr[j] \/ Expired[j] = -1
  BY ExpiredIs DEF Inv, Types
<1>4. CASE n = -1
  <2>1. incr' = Expired /\ prop' = prop
    BY <1>4, <1>k, <1>n DEF continue_incr, IsEmpty
  <2>2. \A j \in Keys : KeyOK(j)'
    BY <1>0, <1>1, <1>3, <2>1, ApartKeeps DEF Apart
  <2>3. Types'
    BY <1>0, <1>1, <1>3, <2>1 DEF Inv, Types
  <2> QED
    BY <1>1, <2>2, <2>3 DEF Inv
<1>5. CASE n # -1
  <2>1. n \in 0 .. Chunks /\ n = incr[k]
    BY <1>2, <1>3, <1>5, <1>n
  <2>m. PICK m : m = IF n = Chunks THEN -1 ELSE n + 1
    OBVIOUS
  <2>p. PICK p : p = IF n = Chunks THEN <<"end">> ELSE <<"chunk", n + 1>>
    OBVIOUS
  <2>2. m \in -1 .. Chunks /\ p \in Content /\ InStep(m, p, n, TRUE)
    BY <2>1, <2>m, <2>p, NextPiece
  <2>3. prop' = [prop EXCEPT ![k] = p] /\ incr' = [Expired EXCEPT ![k] = m]
    <3>1. CASE n = Chunks
      BY <1>5, <1>k, <1>n, <2>m, <2>p, <3>1 DEF continue_incr, IsEmpty
    <3>2. CASE n # Chunks
      BY <1>5, <1>k, <1>n, <2>m, <2>p, <3>2 DEF continue_incr, IsEmpty
    <3> QED
      BY <3>1, <3>2
  <2>4. /\ prop' \in [Keys -> Content] /\ prop'[k] = p
        /\ \A j \in Keys : j # k => prop'[j] = prop[j]
    BY <1>2, <1>3, <2>2, <2>3
  <2>5. /\ incr' \in [Keys -> -1 .. Chunks] /\ incr'[k] = m
        /\ \A j \in Keys : j # k => incr'[j] = incr[j] \/ incr'[j] = -1
    BY <1>2, <1>3, <2>2, <2>3
  <2>6. Types'
    BY <1>0, <1>1, <1>3, <2>4, <2>5 DEF Inv, Types
  <2>7. \A j \in Keys : j # k => KeyOK(j)'
    BY <1>0, <1>1, <2>4, <2>5, ApartKeeps DEF Apart
  <2>8. KeyOK(k)
    BY <1>2 DEF Inv
  <2>9. RequestsLast(inbox', k, req[k].at)
    BY <1>1, <1>2, <2>8 DEF KeyOK, Keeps
  <2>10. ASSUME req[k].at = "reading"
         PROVE  OneAtATime(inbox', k, p) /\ InStep(m, p, req[k].got, Pending(inbox', k))
    <3>1. OneAtATime(inbox, k, prop[k]) /\ InStep(incr[k], prop[k], req[k].got, Pending(inbox, k))
      BY <1>0, <2>8, <2>10 DEF KeyOK
    <3>2. prop[k] = <<>> /\ \A j \in 1..Len(inbox) : j > 1 => ~About(inbox, j, k)
      BY <1>1, <1>2, <3>1 DEF OneAtATime
    <3>3. Nothing(inbox', k)
      BY <1>0, <3>2, NothingAfter
    <3>4. Pending(inbox, k)
      BY <1>1, <1>2 DEF Pending
    <3>5. n = req[k].got
      BY <2>1, <3>1, <3>2, <3>4 DEF InStep
    <3>6. InStep(m, p, req[k].got, TRUE)
      BY <2>2, <3>5
    <3> QED
      BY <3>3, <3>6, NothingIs, InStepAny
  <2>11. KeyOK(k)'
    BY <1>0, <2>4, <2>5, <2>8, <2>9, <2>10 DEF KeyOK
  <2> QED
    BY <1>1, <2>6, <2>7, <2>11 DEF Inv
<1> QED
  BY <1>4, <1>5

LEMMA StepCleared ==
  ASSUME Chunks \in Nat, Inv, SelectionClear
  PROVE  Inv'
<1>0. /\ display = "x11" /\ inbox' = <<>> /\ stale' = {} /\ incr' = [k \in Keys |-> -1]
      /\ UNCHANGED <<display, prop, req>>
  BY DEF SelectionClear
<1>1. inbox' \in Seq(Mail) /\ Len(inbox') = 0
  BY <1>0
<1>2. \A k \in Keys : Keeps(inbox, inbox', k)
  BY <1>1 DEF Keeps, RequestsLast, OneAtATime, Pending
<1>3. Types' /\ PipesOnly'
  BY <1>0, <1>1 DEF Inv, Types, PipesOnly
<1>4. \A k \in Keys : KeyOK(k)'
  BY <1>0, <1>2, ApartKeeps DEF Apart
<1> QED
  BY <1>3, <1>4 DEF Inv

-----------------------------------------------------------------------------
(* The owner on Wayland. *)

LEMMA StepServeSource ==
  ASSUME Chunks \in Nat, Inv, ServeSource
  PROVE  Inv'
<1>k. PICK k : k = Head(inbox).key
  OBVIOUS
<1>0. /\ display = "wayland" /\ inbox # <<>> /\ inbox' = Tail(inbox) /\ display' = display
      /\ stale' = stale
  BY DEF ServeSource
<1>1. /\ Head(inbox) = inbox[1] /\ Head(inbox) \in Mail /\ 1 \in 1..Len(inbox)
      /\ inbox' \in Seq(Mail) /\ PipesOnly'
      /\ \A j \in Keys : Keeps(inbox, inbox', j)
  BY <1>0, HeadIs
<1>2. CASE Head(inbox).kind = "clear"
  <2>1. incr' = incr /\ prop' = prop /\ req' = req
    BY <1>2 DEF ServeSource
  <2>2. Types'
    BY <1>0, <1>1, <2>1 DEF Inv, Types
  <2>3. \A j \in Keys : KeyOK(j)'
    BY <1>0, <1>1, <2>1, ApartKeeps DEF Apart
  <2> QED
    BY <1>1, <2>2, <2>3 DEF Inv
<1>3. CASE Head(inbox).kind # "clear"
  <2>1. Head(inbox).kind = "request"
    BY <1>0, <1>1, <1>3 DEF Inv, PipesOnly, Mail
  <2>2. k \in Keys /\ req[k].at = "asked" /\ req[k].got = 0 /\ Nothing(inbox', k)
    BY <1>0, <1>k, <2>1, RequestIs
  <2>3. req[k] \in Reader /\ KeyOK(k)
    BY <2>2, TypesOf
  <2>4. incr[k] = -1 /\ k \notin stale
    BY <1>0, <2>2, <2>3 DEF KeyOK
  <2>5. PICK at \in {"left", "reading"} :
            /\ req' = [req EXCEPT ![k].at = at] /\ prop' = [prop EXCEPT ![k] = <<>>]
            /\ incr' = IF at = "left" THEN incr ELSE [incr EXCEPT ![k] = 0]
    BY <1>3, <1>k DEF ServeSource
  <2>r. PICK r : r = [req[k] EXCEPT !.at = at]
    OBVIOUS
  <2>6. r \in Reader /\ r.at = at /\ r.got = 0
    BY <2>2, <2>3, <2>r DEF Reader
  <2>7. req' = [req EXCEPT ![k] = r]
    BY <2>5, <2>r
  <2>8. /\ req' \in [Keys -> Reader] /\ req'[k] = r /\ \A j \in Keys : j # k => req'[j] = req[j]
    BY <2>2, <2>6, <2>7, ReqChanges
  <2>9. <<>> \in Content
    BY DEF Content
  <2>10. /\ prop' \in [Keys -> Content] /\ prop'[k] = <<>>
         /\ \A j \in Keys : j # k => prop'[j] = prop[j]
    BY <2>2, <2>5, <2>9, PropChanges
  <2>11. incr \in [Keys -> -1 .. Chunks]
    BY DEF Inv, Types
  <2>12. /\ incr' \in [Keys -> -1 .. Chunks] /\ (at = "reading" => incr'[k] = 0)
         /\ \A j \in Keys : j # k => incr'[j] = incr[j]
    BY <2>2, <2>5, <2>11
  <2>13. Types'
    BY <1>0, <1>1, <2>8, <2>10, <2>12 DEF Inv, Types
  <2>14. RequestsLast(inbox', k, at)
    BY <2>2, NothingIs
  <2>15. at = "reading" => InStep(incr'[k], <<>>, 0, TRUE)
    BY <2>12, InStepNone
  <2>16. KeyOK(k)'
    BY <1>0, <2>4, <2>6, <2>8, <2>10, <2>14, <2>15 DEF KeyOK
  <2>17. \A j \in Keys : j # k => KeyOK(j)'
    BY <1>0, <1>1, <2>8, <2>10, <2>12, ApartKeeps DEF Apart
  <2> QED
    BY <1>1, <2>13, <2>16, <2>17 DEF Inv
<1> QED
  BY <1>2, <1>3

LEMMA StepWritePipe ==
  ASSUME Chunks \in Nat, Inv, NEW k \in Keys, WritePipe(k)
  PROVE  Inv'
<1>o. PICK over \in BOOLEAN : over <=> k \in stale \/ req[k].at # "reading"
  OBVIOUS
<1>n. PICK n : n = incr[k]
  OBVIOUS
<1>m. PICK m : m = IF over \/ n = Chunks THEN -1 ELSE n + 1
  OBVIOUS
<1>p. PICK p : p = IF over /\ prop[k] # <<>> THEN prop[k]
                   ELSE IF over \/ n = Chunks THEN <<"end">> ELSE <<"chunk", n + 1>>
  OBVIOUS
<1>0. /\ display = "wayland" /\ n >= 0 /\ (over \/ prop[k] = <<>>)
      /\ stale' = stale \ {k} /\ UNCHANGED <<display, inbox, req>>
  BY <1>n, <1>o DEF WritePipe
<1>1. incr' = [incr EXCEPT ![k] = m]
  BY <1>m, <1>n, <1>o DEF WritePipe
<1>2. prop' = [prop EXCEPT ![k] = p]
  BY <1>n, <1>o, <1>p DEF WritePipe
<1>t. /\ prop[k] \in Content /\ incr[k] \in -1 .. Chunks /\ KeyOK(k)
      /\ incr \in [Keys -> -1 .. Chunks]
  BY TypesOf DEF Inv, Types
<1>3. n \in 0 .. Chunks
  BY <1>0, <1>n, <1>t
<1>4. ~over => m \in -1 .. Chunks /\ p \in Content /\ InStep(m, p, n, TRUE)
  BY <1>3, <1>m, <1>p, NextPiece
<1>5. over => m \in -1 .. Chunks /\ p \in Content
  BY <1>m, <1>p, <1>t DEF Content
<1>6. m \in -1 .. Chunks /\ p \in Content
  BY <1>4, <1>5
<1>7. /\ prop' \in [Keys -> Content] /\ prop'[k] = p
      /\ \A j \in Keys : j # k => prop'[j] = prop[j]
  BY <1>2, <1>6, PropChanges
<1>8. /\ incr' \in [Keys -> -1 .. Chunks] /\ incr'[k] = m
      /\ \A j \in Keys : j # k => incr'[j] = incr[j]
  BY <1>1, <1>6, <1>t
<1>9. Types' /\ PipesOnly'
  BY <1>0, <1>7, <1>8 DEF Inv, Types, PipesOnly
<1>10. req[k].at # "asked" /\ k \notin stale'
  BY <1>0, <1>n, <1>t DEF KeyOK
<1>11. ASSUME req[k].at = "reading", ~req[k].slow
       PROVE  InStep(m, p, req[k].got, TRUE)
  <2>1. k \notin stale /\ InStep(incr[k], prop[k], req[k].got, TRUE)
    BY <1>0, <1>11, <1>t DEF KeyOK
  <2>2. ~over /\ prop[k] = <<>>
    BY <1>0, <1>11, <1>o, <2>1
  <2>3. n = req[k].got
    BY <1>0, <1>n, <2>1, <2>2 DEF InStep
  <2> QED
    BY <1>4, <2>2, <2>3
<1>12. KeyOK(k)'
  BY <1>0, <1>7, <1>8, <1>10, <1>11, <1>t DEF KeyOK
<1>13. \A j \in Keys : j # k => KeyOK(j)'
  BY <1>0, <1>7, <1>8, ApartKeeps, KeepsSame DEF Apart
<1> QED
  BY <1>9, <1>12, <1>13 DEF Inv

-----------------------------------------------------------------------------
(* The theorems. *)

LEMMA InitInv ==
  ASSUME Chunks \in Nat, PasteInit
  PROVE  Inv
<1>r. PICK r : r = [at |-> "idle", got |-> 0, slow |-> FALSE]
  OBVIOUS
<1>1. r \in Reader /\ r.at = "idle"
  BY <1>r DEF Reader
<1>2. /\ inbox \in Seq(Mail) /\ Len(inbox) = 0 /\ stale = {} /\ display \in Displays
      /\ incr = [k \in Keys |-> -1] /\ prop = [k \in Keys |-> <<>>] /\ req = [k \in Keys |-> r]
  BY <1>r DEF PasteInit
<1>3. <<>> \in Content
  BY DEF Content
<1>4. Types /\ PipesOnly
  BY <1>1, <1>2, <1>3 DEF Types, PipesOnly
<1>5. ASSUME NEW k \in Keys PROVE KeyOK(k)
  <2>1. req[k].at = "idle" /\ incr[k] = -1 /\ k \notin stale
    BY <1>1, <1>2
  <2>2. RequestsLast(inbox, k, req[k].at)
    BY <1>2 DEF RequestsLast
  <2> QED
    BY <2>1, <2>2 DEF KeyOK
<1> QED
  BY <1>4, <1>5 DEF Inv

LEMMA Stutters ==
  ASSUME Inv, UNCHANGED pasteVars
  PROVE  Inv'
<1>1. UNCHANGED <<display, inbox, incr, stale, prop, req>>
  BY DEF pasteVars
<1>2. Types' /\ PipesOnly'
  BY <1>1 DEF Inv, Types, PipesOnly
<1>3. \A k \in Keys : KeyOK(k)'
  BY <1>1, ApartKeeps, KeepsSame DEF Apart
<1> QED
  BY <1>2, <1>3 DEF Inv

LEMMA InvStep ==
  ASSUME Chunks \in Nat, Inv, [PasteNext]_pasteVars
  PROVE  Inv'
<1>1. ASSUME NEW k \in Keys,
             Ask(k) \/ Asked(k) \/ Receive(k) \/ Leave(k) \/ Stall(k) \/ WritePipe(k)
      PROVE  Inv'
  BY <1>1, StepAsk, StepAsked, StepReceive, StepLeave, StepStall, StepWritePipe
<1>2. ASSUME Lose \/ Answer \/ continue_incr \/ SelectionClear \/ ServeSource
      PROVE  Inv'
  BY <1>2, StepLose, StepAnswer, StepContinue, StepCleared, StepServeSource
<1> QED
  BY <1>1, <1>2, Stutters DEF PasteNext

(* The owner and a reading requestor are in step, whoever else asks, stops *)
(* or leaves meanwhile: Owner::answer and Owner::continue_incr on X11,     *)
(* serve_source and write_pipe on Wayland.                                 *)
THEOREM InvHolds == PasteSpec => []Inv
<1>1. PasteInit => Inv
  BY ChunksAssumption, InitInv
<1>2. Inv /\ [PasteNext]_pasteVars => Inv'
  BY ChunksAssumption, InvStep
<1> QED
  BY <1>1, <1>2, PTL DEF PasteSpec

(* A paste that believes it is complete has every chunk, each once and in  *)
(* order, for any number of windows, properties, requests and chunks; only *)
(* a Wayland reader that stopped for RECEIVE_TIMEOUT is excepted.          *)
THEOREM PastesAreWhole == PasteSpec => []WholeOrNothing
<1>1. Inv => WholeOrNothing
  BY DEF Inv, KeyOK, WholeOrNothing
<1> QED
  BY <1>1, InvHolds, PTL
=============================================================================
