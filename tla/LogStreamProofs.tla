-------------------------- MODULE LogStreamProofs --------------------------
(***************************************************************************)
(* The view of another machine's log has no hole, for any number of lines,  *)
(* any room in the subscriber's queue and in Follower.C, and any cuts and   *)
(* moves.  The pages on their way to the view are one sequence (Pipe).  The  *)
(* invariant (LogInv) says of it that what a page claims to follow is in    *)
(* the view or in a page before it, that both cursors stand only for lines  *)
(* that are, and that pages of a server that was left come before all of    *)
(* the one that is followed.                                                *)
(***************************************************************************)
EXTENDS LogStream, FiniteSetTheorems, SequenceTheorems, WellFoundedInduction, TLAPS

-----------------------------------------------------------------------------
(* What the buffer hands out. *)

\* Max, which a page takes its cursor from, is the greatest of a bounded set.
LEMMA GreatestOf ==
  ASSUME NEW n \in Nat, NEW S, S \subseteq 0 .. n, S # {}
  PROVE  Max(S) \in S /\ \A y \in S : Max(S) >= y
<1> DEFINE T == {n - x : x \in S}
<1>1. T \subseteq Nat /\ T # {}
  <2>1. \A x \in S : n - x \in Nat
    OBVIOUS
  <2>2. PICK x \in S : TRUE
    OBVIOUS
  <2>3. n - x \in T
    BY <2>2
  <2>4. T \subseteq Nat
    BY ONLY <2>1
  <2> QED BY ONLY <2>3, <2>4
<1>2. \E t \in T : \A y \in T : ~(<<y, t>> \in OpToRel(<, Nat))
  <2> HIDE DEF T
  <2> QED BY <1>1, NatLessThanWellFounded, WFMin
<1>3. PICK t \in T : \A y \in T : ~(y < t)
  <2>1. \A y, t \in Nat : y < t => <<y, t>> \in OpToRel(<, Nat)
    BY DEF OpToRel
  <2> HIDE DEF T
  <2> QED BY <1>1, <1>2, <2>1
<1>4. PICK x \in S : t = n - x
  OBVIOUS
<1>5. \A y \in S : x >= y
  <2> SUFFICES ASSUME NEW y \in S PROVE x >= y
    OBVIOUS
  <2>1. n - y \in T /\ ~(n - y < t)
    BY <1>3
  <2> QED BY <1>4, <2>1
<1> QED BY <1>5 DEF Max

\* The numbers of a page's lines.
Idx(page) == {l[1] : l \in page.lines}

\* A page of sinceLocked has every line of stderr after the cursor it was asked
\* for, and a cursor that is neither before that one nor past the buffer.
LEMMA SinceLemma ==
  ASSUME NEW h \in Holder, NEW buffer \in Seq(Record), Len(buffer) <= MaxLines,
         NEW after \in 0 .. MaxLines
  PROVE  /\ Since(h, buffer, after) \in Page
         /\ Since(h, buffer, after).from = h
         /\ after <= Len(buffer) => Since(h, buffer, after).cursor <= Len(buffer)
         /\ Since(h, buffer, after).cursor >= after
         /\ Idx(Since(h, buffer, after)) =
              {i \in 1 .. Len(buffer) : i > after /\ buffer[i].stream = "stderr"}
<1> DEFINE new == {i \in DOMAIN buffer : i > after}
           closed == {after} \cup {i \in new : ~buffer[i].open}
           told == {<<i, buffer[i].text>> : i \in {j \in new : buffer[j].stream = "stderr"}}
<1>1. Since(h, buffer, after) = [from |-> h, lines |-> told, cursor |-> Max(closed), missed |-> FALSE]
  BY DEF Since
<1>2. DOMAIN buffer = 1 .. Len(buffer) /\ Len(buffer) \in Nat
  BY LenProperties
<1>3. Max(closed) \in closed /\ Max(closed) >= after
  <2>1. closed \subseteq 0 .. MaxLines /\ MaxLines \in Nat /\ after \in closed
    BY <1>2, LogAssumption
  <2> HIDE DEF closed
  <2> QED BY <2>1, GreatestOf
<1>4. \A i \in 1 .. Len(buffer) : buffer[i].text \in 1 .. MaxParts
  <2>1. \A i \in 1 .. Len(buffer) : buffer[i] \in Record
    BY ElementOfSeq
  <2> QED BY <2>1 DEF Record
<1>5. told \in SUBSET ((1 .. MaxLines) \X (1 .. MaxParts))
  <2>1. \A i \in new : i \in 1 .. MaxLines /\ buffer[i].text \in 1 .. MaxParts
    BY <1>2, <1>4, LogAssumption
  <2> HIDE DEF new
  <2> QED BY <2>1
<1>6. Max(closed) \in 0 .. MaxLines /\ (after <= Len(buffer) => Max(closed) <= Len(buffer))
  <2>1. \A i \in closed : i = after \/ i \in 1 .. Len(buffer)
    BY <1>2
  <2> HIDE DEF closed
  <2> QED BY <1>2, <1>3, <2>1, LogAssumption
<1>7. {l[1] : l \in told} = {i \in 1 .. Len(buffer) : i > after /\ buffer[i].stream = "stderr"}
  <2>1. new = {i \in 1 .. Len(buffer) : i > after}
    BY <1>2
  <2>2. \A l \in told : l[1] \in new /\ buffer[l[1]].stream = "stderr"
    OBVIOUS
  <2>3. \A i \in new : buffer[i].stream = "stderr" => <<i, buffer[i].text>> \in told
    OBVIOUS
  <2>4. \A i \in new : <<i, buffer[i].text>>[1] = i
    OBVIOUS
  <2> HIDE DEF told, new
  <2>5. \A i \in {l[1] : l \in told} : i \in new /\ buffer[i].stream = "stderr"
    BY ONLY <2>2
  <2>6. \A i \in new : buffer[i].stream = "stderr" => i \in {l[1] : l \in told}
    BY ONLY <2>3, <2>4
  <2>7. {l[1] : l \in told} = {i \in new : buffer[i].stream = "stderr"}
    BY ONLY <2>5, <2>6
  <2> QED BY ONLY <2>1, <2>7
<1> HIDE DEF closed, told
<1> QED BY <1>1, <1>3, <1>5, <1>6, <1>7 DEF Page, Idx

-----------------------------------------------------------------------------
\* Of the pages on their way to the view: what a page claims to follow, and what
\* the view has, or will have, once the first n pages are taken.
Below(page, i) == i <= page.cursor \/ \E j \in Idx(page) : i <= j
Known(P, V, b, i, n) == i \in V \/ \E m \in 1 .. n : P[m].from = b /\ i \in Idx(P[m])

\* Nothing below a page is missing once it is taken; the pages of a server that
\* was left come before all of the one that is followed; and the view has no
\* hole.
Flow(P, V, b, W) ==
  /\ \A k \in 1 .. Len(P) : P[k].from = b => \A i \in W : Below(P[k], i) => Known(P, V, b, i, k)
  /\ \A k \in 1 .. Len(P) : P[k].from # b => V = {} /\ \A m \in 1 .. k : P[m].from # b
  /\ \A i, j \in W : i < j /\ j \in V => i \in V

\* The lines and the cursor of a page are within the bound.
LEMMA IdxType ==
  ASSUME NEW page \in Page
  PROVE  Idx(page) \subseteq 1 .. MaxLines /\ page.cursor \in 0 .. MaxLines /\ page.from \in Holder
BY DEF Page, Idx

\* A page may follow when all it claims to follow is known.
LEMMA FlowAppend ==
  ASSUME NEW P \in Seq(Page), NEW page \in Page, NEW V, NEW b, NEW W,
         Flow(P, V, b, W), page.from = b,
         \A i \in W : Below(page, i) => Known(P, V, b, i, Len(P)) \/ i \in Idx(page)
  PROVE  /\ Append(P, page) \in Seq(Page) /\ Len(Append(P, page)) = Len(P) + 1
         /\ Flow(Append(P, page), V, b, W)
         /\ \A i, n : n \in 0 .. Len(P) /\ Known(P, V, b, i, n) => Known(Append(P, page), V, b, i, n)
         /\ \A i : Known(P, V, b, i, Len(P)) \/ i \in Idx(page)
                     => Known(Append(P, page), V, b, i, Len(P) + 1)
<1> DEFINE Q == Append(P, page)
<1>1. /\ Q \in Seq(Page) /\ Len(P) \in Nat /\ Len(Q) = Len(P) + 1
      /\ \A k \in 1 .. Len(P) : Q[k] = P[k]
      /\ Q[Len(P) + 1] = page
  OBVIOUS
<1> HIDE DEF Q
<1>2. \A i, n : n \in 0 .. Len(P) /\ Known(P, V, b, i, n) => Known(Q, V, b, i, n)
  BY <1>1 DEF Known
<1>3. \A i : Known(P, V, b, i, Len(P)) \/ i \in Idx(page) => Known(Q, V, b, i, Len(P) + 1)
  BY <1>1 DEF Known
<1>4. ASSUME NEW k \in 1 .. Len(Q), Q[k].from = b, NEW i \in W, Below(Q[k], i)
      PROVE  Known(Q, V, b, i, k)
  <2>1. CASE k \in 1 .. Len(P)
    BY <1>1, <1>2, <1>4, <2>1 DEF Flow
  <2>2. CASE k = Len(P) + 1
    BY <1>1, <1>3, <1>4, <2>2
  <2> QED BY <1>1, <2>1, <2>2
<1>5. ASSUME NEW k \in 1 .. Len(Q), Q[k].from # b
      PROVE  V = {} /\ \A m \in 1 .. k : Q[m].from # b
  <2>1. k \in 1 .. Len(P)
    BY <1>1, <1>5
  <2> QED BY <1>1, <1>5, <2>1 DEF Flow
<1>6. Flow(Q, V, b, W)
  BY <1>4, <1>5 DEF Flow
<1> QED BY <1>1, <1>2, <1>3, <1>6 DEF Q

\* Pages may be dropped from the end.
LEMMA FlowPrefix ==
  ASSUME NEW P \in Seq(Page), NEW Q \in Seq(Page), NEW V, NEW b, NEW W, Flow(P, V, b, W),
         Len(Q) <= Len(P), \A k \in 1 .. Len(Q) : Q[k] = P[k]
  PROVE  /\ Flow(Q, V, b, W)
         /\ \A i, n : n \in 0 .. Len(Q) /\ Known(P, V, b, i, n) => Known(Q, V, b, i, n)
<1>1. Len(P) \in Nat /\ Len(Q) \in Nat
  OBVIOUS
<1>2. \A i, n : n \in 0 .. Len(Q) => (Known(P, V, b, i, n) <=> Known(Q, V, b, i, n))
  BY <1>1 DEF Known
<1> QED BY <1>1, <1>2 DEF Flow

\* The view takes the first page.
LEMMA FlowTake ==
  ASSUME NEW P \in Seq(Page), P # <<>>, NEW V, NEW V2, NEW b, NEW W, Flow(P, V, b, W),
         V2 = IF Head(P).from = b THEN V \cup Idx(Head(P)) ELSE V \ Idx(Head(P)),
         W \subseteq Nat
  PROVE  /\ Flow(Tail(P), V2, b, W)
         /\ \A i, n : n \in 1 .. Len(P) /\ Known(P, V, b, i, n) => Known(Tail(P), V2, b, i, n - 1)
<1> DEFINE Q == Tail(P)
           H == Head(P)
<1>1. /\ Q \in Seq(Page) /\ Len(P) \in Nat /\ Len(Q) = Len(P) - 1 /\ Len(P) >= 1
      /\ \A k \in 1 .. Len(Q) : Q[k] = P[k + 1]
      /\ H = P[1]
  BY HeadTailProperties, EmptySeq
<1> HIDE DEF Q, H
<1>a. V2 = IF H.from = b THEN V \cup Idx(H) ELSE V \ Idx(H)
  BY DEF H
<1>2. H.from # b => V = {} /\ V2 = {}
  BY <1>1, <1>a DEF Flow
<1>3. \A i, n : n \in 1 .. Len(P) /\ Known(P, V, b, i, n) => Known(Q, V2, b, i, n - 1)
  <2> SUFFICES ASSUME NEW i, NEW n \in 1 .. Len(P), Known(P, V, b, i, n)
               PROVE  Known(Q, V2, b, i, n - 1)
    OBVIOUS
  <2>1. CASE i \in V
    BY <1>a, <1>2, <2>1 DEF Known
  <2>2. ASSUME NEW m \in 1 .. n, P[m].from = b, i \in Idx(P[m]) PROVE Known(Q, V2, b, i, n - 1)
    <3>1. CASE m = 1
      BY <1>1, <1>a, <2>2, <3>1 DEF Known
    <3>2. CASE m # 1
      <4>1. m - 1 \in 1 .. (n - 1) /\ m - 1 \in 1 .. Len(Q) /\ Q[m - 1] = P[m]
        BY <1>1, <3>2
      <4> QED BY <2>2, <4>1 DEF Known
    <3> QED BY <3>1, <3>2
  <2> QED BY <2>1, <2>2 DEF Known
<1>4. ASSUME NEW k \in 1 .. Len(Q), Q[k].from = b, NEW i \in W, Below(Q[k], i)
      PROVE  Known(Q, V2, b, i, k)
  <2>1. k + 1 \in 1 .. Len(P) /\ P[k + 1] = Q[k] /\ (k + 1) - 1 = k
    BY <1>1
  <2>2. Known(P, V, b, i, k + 1)
    BY <1>4, <2>1 DEF Flow
  <2> QED BY <1>3, <2>1, <2>2
<1>5. ASSUME NEW k \in 1 .. Len(Q), Q[k].from # b
      PROVE  V2 = {} /\ \A m \in 1 .. k : Q[m].from # b
  <2>1. k + 1 \in 1 .. Len(P) /\ P[k + 1].from # b /\ 1 \in 1 .. (k + 1)
    BY <1>1, <1>5
  <2>2. \A m \in 1 .. (k + 1) : P[m].from # b
    BY <2>1 DEF Flow
  <2>3. V2 = {}
    BY <1>1, <1>2, <2>1, <2>2
  <2>4. ASSUME NEW m \in 1 .. k PROVE Q[m].from # b
    <3>1. m + 1 \in 1 .. (k + 1) /\ m \in 1 .. Len(Q)
      BY <1>1
    <3> QED BY <1>1, <2>2, <3>1
  <2> QED BY <2>3, <2>4
<1>6. ASSUME NEW i \in W, NEW j \in W, i < j, j \in V2 PROVE i \in V2
  <2>1. H.from = b
    BY <1>2, <1>6
  <2>2. CASE j \in V
    BY <1>6, <1>a, <2>1, <2>2 DEF Flow
  <2>3. CASE j \in Idx(H)
    <3>1. Below(H, i)
      BY <1>6, <2>3 DEF Below
    <3>2. Known(P, V, b, i, 1)
      BY <1>1, <2>1, <3>1 DEF Flow
    <3>3. i \in V \/ i \in Idx(P[1])
      BY <3>2 DEF Known
    <3> QED BY <1>1, <1>a, <2>1, <3>3
  <2> QED BY <1>6, <1>a, <2>1, <2>2, <2>3
<1>7. Flow(Q, V2, b, W)
  BY <1>4, <1>5, <1>6 DEF Flow
<1> QED BY <1>3, <1>7 DEF Q

\* Lines that are printed after all that the pages tell of leave a hole in none.
LEMMA FlowGrow ==
  ASSUME NEW P \in Seq(Page), NEW V, NEW b, NEW W, NEW W2, NEW N \in Nat, Flow(P, V, b, W),
         W2 \subseteq Nat,
         \A i \in W2 : i \in W \/ i > N, V \subseteq 0 .. N,
         \A k \in 1 .. Len(P) : P[k].from = b => P[k].cursor <= N /\ Idx(P[k]) \subseteq 0 .. N
  PROVE  Flow(P, V, b, W2)
<1>1. \A k \in 1 .. Len(P) : P[k] \in Page
  BY ElementOfSeq
<1>2. ASSUME NEW k \in 1 .. Len(P), P[k].from = b, NEW i \in W2, Below(P[k], i)
      PROVE  Known(P, V, b, i, k)
  <2>1. i <= N
    BY <1>1, <1>2, IdxType DEF Below
  <2>2. i \in W
    BY <2>1
  <2> QED BY <1>2, <2>2 DEF Flow
<1>3. ASSUME NEW i \in W2, NEW j \in W2, i < j, j \in V PROVE i \in V
  BY <1>3 DEF Flow
<1> QED BY <1>2, <1>3 DEF Flow

-----------------------------------------------------------------------------
\* The pages on their way, and the lines of a server that the view has.
Pipe == out \o hand \o queue
InView(h) == {i \in 1 .. MaxLines : view[i][1] = h}

\* The pages in Follower.C come first, then the one in hand, then the queue.
LEMMA PipeType ==
  ASSUME LogTypeOK
  PROVE  /\ Pipe \in Seq(Page) /\ Len(Pipe) = Len(out) + Len(hand) + Len(queue)
         /\ \A k \in 1 .. Len(out) : Pipe[k] = out[k]
         /\ \A k \in 1 .. Len(out) + Len(hand) : Pipe[k] = (out \o hand)[k]
         /\ out \o hand \in Seq(Page) /\ Len(out \o hand) = Len(out) + Len(hand)
         /\ Len(out) \in Nat /\ Len(hand) \in Nat /\ Len(queue) \in Nat
<1>1. out \in Seq(Page) /\ hand \in Seq(Page) /\ queue \in Seq(Page)
  BY DEF LogTypeOK
<1>2. out \o hand \in Seq(Page) /\ Len(out \o hand) = Len(out) + Len(hand)
  BY <1>1, ConcatProperties
<1>3. Pipe \in Seq(Page) /\ Len(Pipe) = Len(out) + Len(hand) + Len(queue)
  BY <1>1, <1>2, ConcatProperties DEF Pipe
<1>4. /\ \A k \in 1 .. Len(out) : (out \o hand)[k] = out[k]
      /\ Len(out) \in Nat /\ Len(hand) \in Nat /\ Len(queue) \in Nat
  BY <1>1
<1>5. \A k \in 1 .. Len(out) + Len(hand) : Pipe[k] = (out \o hand)[k]
  <2> DEFINE q == out \o hand
  <2> HIDE DEF q
  <2>1. q \in Seq(Page) /\ Len(q) = Len(out) + Len(hand) /\ Pipe = q \o queue
    BY <1>2 DEF q, Pipe
  <2>2. \A k \in 1 .. Len(q) : (q \o queue)[k] = q[k]
    BY <1>1, <2>1
  <2>3. \A k \in 1 .. Len(q) : Pipe[k] = q[k]
    BY ONLY <2>1, <2>2
  <2>4. \A k \in 1 .. Len(out) + Len(hand) : Pipe[k] = q[k]
    BY ONLY <2>1, <2>3
  <2> QED BY ONLY <2>4 DEF q
<1>6. \A k \in 1 .. Len(out) : Pipe[k] = out[k]
  <2>1. \A k \in 1 .. Len(out) : k \in 1 .. Len(out) + Len(hand)
    BY ONLY <1>4
  <2> QED BY ONLY <1>4, <1>5, <2>1
<1> QED BY <1>2, <1>3, <1>4, <1>5, <1>6

\* A page that enters the queue is the last one on its way.
LEMMA AppendToPipe ==
  ASSUME NEW a \in Seq(Page), NEW q \in Seq(Page), NEW page \in Page
  PROVE  a \o Append(q, page) = Append(a \o q, page)
OBVIOUS

\* A write adds lines at the end, or goes on with one, and changes no stream.
LEMMA WriteFacts ==
  ASSUME LogTypeOK, Printed <= MaxLines, NEW s \in Stream, NEW newline \in BOOLEAN,
         Write(s, newline)
  PROVE  /\ recs' \in [Holder -> Seq(Record)] /\ overtaken' \in BOOLEAN
         /\ Printed' <= MaxLines
         /\ \A h \in Holder : /\ Len(recs'[h]) >= Len(recs[h])
                              /\ \A i \in Watched(h)' : i \in Watched(h) \/ i > Len(recs[h])
         /\ Notify(dev, recs'[dev])
         /\ UNCHANGED <<dev, jammed, link, first, follower, view, logSpent>>
<1>0. /\ recs \in [Holder -> Seq(Record)] /\ dev \in Holder /\ overtaken \in BOOLEAN
      /\ \A h \in Holder : Len(recs[h]) \in Nat /\ DOMAIN recs[h] = 1 .. Len(recs[h])
  BY LenProperties DEF LogTypeOK
<1>1. Notify(dev, recs'[dev]) /\ UNCHANGED <<dev, jammed, link, first, follower, view, logSpent>>
  BY DEF Write
<1>2. CASE /\ OpenLine(s) = {} /\ Printed < MaxLines
           /\ recs' = [recs EXCEPT ![dev] = Append(@, [stream |-> s, text |-> 1, open |-> ~newline])]
           /\ UNCHANGED overtaken
  <2> DEFINE r == [stream |-> s, text |-> 1, open |-> ~newline]
  <2>1. r \in Record
    BY LogAssumption DEF Record
  <2> HIDE DEF r
  <2>2. /\ Append(recs[dev], r) \in Seq(Record) /\ Len(Append(recs[dev], r)) = Len(recs[dev]) + 1
        /\ \A k \in 1 .. Len(recs[dev]) : Append(recs[dev], r)[k] = recs[dev][k]
    BY <1>0, <2>1
  <2>3. recs' = [recs EXCEPT ![dev] = Append(recs[dev], r)]
    BY <1>2 DEF r
  <2>4. recs' \in [Holder -> Seq(Record)] /\ recs'[dev] = Append(recs[dev], r)
        /\ \A h \in Holder : h # dev => recs'[h] = recs[h]
    BY <1>0, <2>2, <2>3
  <2>5. Printed' = Printed + 1
    <3>1. 1 \in Holder /\ 2 \in Holder /\ (dev = 1 \/ dev = 2)
      BY <1>0 DEF Holder
    <3>2. Len(recs[1]) \in Nat /\ Len(recs[2]) \in Nat
      BY <1>0, <3>1
    <3>3. \/ Len(recs'[1]) = Len(recs[1]) + 1 /\ Len(recs'[2]) = Len(recs[2])
          \/ Len(recs'[2]) = Len(recs[2]) + 1 /\ Len(recs'[1]) = Len(recs[1])
      BY <2>2, <2>4, <3>1
    <3> DEFINE a == Len(recs[1])
               b == Len(recs[2])
               c == Len(recs'[1])
               d == Len(recs'[2])
    <3>4. c + d = a + b + 1
      <4> HIDE DEF a, b, c, d
      <4>1. a \in Nat /\ b \in Nat
        BY <3>2 DEF a, b
      <4>2. (c = a + 1 /\ d = b) \/ (d = b + 1 /\ c = a)
        BY <3>3 DEF a, b, c, d
      <4> QED BY <4>1, <4>2
    <3> QED BY <3>4 DEF Printed
  <2>6. ASSUME NEW h \in Holder PROVE Len(recs'[h]) >= Len(recs[h])
    <3>1. Len(recs[h]) \in Nat /\ Len(recs[dev]) \in Nat
      BY <1>0
    <3>2. CASE h = dev
      <4>1. Len(recs'[h]) = Len(recs[h]) + 1
        BY <2>2, <2>4, <3>2
      <4> QED BY <3>1, <4>1
    <3>3. CASE h # dev
      BY <2>4, <3>1, <3>3
    <3> QED BY <3>2, <3>3
  <2>7. ASSUME NEW h \in Holder, NEW i \in Watched(h)' PROVE i \in Watched(h) \/ i > Len(recs[h])
    <3>1. i \in DOMAIN recs'[h] /\ recs'[h][i].stream = "stderr"
      BY <2>7 DEF Watched
    <3>2. CASE h # dev
      BY <2>4, <3>1, <3>2 DEF Watched
    <3>3. CASE h = dev
      <4>1. DOMAIN recs'[dev] = 1 .. Len(recs[dev]) + 1
        BY <2>2, <2>4, LenProperties
      <4> QED BY <1>0, <2>2, <2>4, <3>1, <3>3, <4>1 DEF Watched
    <3> QED BY <3>2, <3>3
  <2>8. Printed' <= MaxLines /\ Printed \in Nat
    <3>1. Len(recs[1]) \in Nat /\ Len(recs[2]) \in Nat
      BY <1>0 DEF Holder
    <3>2. Printed \in Nat
      <4> DEFINE a == Len(recs[1])
                 b == Len(recs[2])
      <4>1. a + b \in Nat
        <5>1. a \in Nat /\ b \in Nat
          BY <3>1
        <5> HIDE DEF a, b
        <5> QED BY <5>1
      <4> QED BY <4>1, Zenon DEF Printed
    <3>7. MaxLines \in Nat
      BY LogAssumption
    <3>3. Printed < MaxLines
      BY <1>2
    <3>4. \A a, b \in Nat : a < b => a + 1 <= b
      OBVIOUS
    <3>5. Printed + 1 <= MaxLines
      BY <3>2, <3>3, <3>4, <3>7, Zenon
    <3>6. Printed' <= MaxLines
      BY <2>5, <3>5
    <3> QED BY <3>2, <3>6
  <2> QED BY <1>0, <1>1, <1>2, <2>4, <2>6, <2>7, <2>8
<1>3. ASSUME NEW i \in OpenLine(s), recs[dev][i].text < MaxParts,
             recs' = [recs EXCEPT ![dev][i] = [stream |-> s, text |-> @.text + 1, open |-> ~newline]],
             overtaken' = (overtaken \/ (base = dev /\ (i <= subCursor \/ i <= cursor)))
      PROVE  /\ recs' \in [Holder -> Seq(Record)] /\ overtaken' \in BOOLEAN
             /\ Printed' <= MaxLines
             /\ \A h \in Holder : /\ Len(recs'[h]) >= Len(recs[h])
                                  /\ \A j \in Watched(h)' : j \in Watched(h) \/ j > Len(recs[h])
  <2> DEFINE r == [stream |-> s, text |-> recs[dev][i].text + 1, open |-> ~newline]
             line == [recs[dev] EXCEPT ![i] = r]
  <2>1. i \in 1 .. Len(recs[dev]) /\ recs[dev][i].stream = s
    BY <1>0 DEF OpenLine
  <2>2. recs[dev][i] \in Record
    BY <1>0, <2>1, ElementOfSeq
  <2>3. r \in Record /\ r.stream = s
    BY <1>3, <2>2, LogAssumption DEF Record
  <2>4. recs' = [recs EXCEPT ![dev] = line]
    BY <1>3
  <2> HIDE DEF r
  <2>5. /\ line \in Seq(Record) /\ Len(line) = Len(recs[dev])
        /\ \A j \in 1 .. Len(recs[dev]) : line[j] = IF j = i THEN r ELSE recs[dev][j]
    BY <1>0, <2>1, <2>3, ExceptSeq
  <2> HIDE DEF line
  <2>6. recs' \in [Holder -> Seq(Record)] /\ recs'[dev] = line
        /\ \A h \in Holder : h # dev => recs'[h] = recs[h]
    BY <1>0, <2>4, <2>5
  <2>7. \A h \in Holder : Len(recs'[h]) = Len(recs[h])
    BY <2>5, <2>6
  <2>8. Printed' = Printed
    BY <1>0, <2>7 DEF Printed, Holder
  <2>9. ASSUME NEW h \in Holder, NEW j \in Watched(h)' PROVE j \in Watched(h)
    <3>1. j \in DOMAIN recs'[h] /\ recs'[h][j].stream = "stderr"
      BY <2>9 DEF Watched
    <3>2. CASE h # dev
      BY <2>6, <3>1, <3>2 DEF Watched
    <3>3. CASE h = dev
      <4>1. DOMAIN recs'[dev] = 1 .. Len(recs[dev])
        BY <2>5, <2>6, LenProperties
      <4> QED BY <1>0, <2>1, <2>3, <2>5, <2>6, <3>1, <3>3, <4>1 DEF Watched
    <3> QED BY <3>2, <3>3
  <2>10. overtaken' \in BOOLEAN
    BY <1>3, Zenon
  <2> QED BY <1>0, <2>6, <2>7, <2>8, <2>9, <2>10
<1> QED BY <1>0, <1>1, <1>2, <1>3 DEF Write

\* A page that also says lines were missed, and the marker that says only that.
Again(page, owes) == [page EXCEPT !.missed = owes]
MissedMarker(h) == [NoPage EXCEPT !.from = h, !.missed = TRUE]

\* The mark for missed lines changes nothing else of a page.
LEMMA PageAgain ==
  ASSUME NEW page \in Page, NEW owes \in BOOLEAN
  PROVE  /\ Again(page, owes) \in Page /\ Again(page, owes).from = page.from
         /\ Again(page, owes).cursor = page.cursor /\ Idx(Again(page, owes)) = Idx(page)
BY DEF Again, Page, Idx

\* The marker for missed lines has no line and claims to follow nothing.
LEMMA MarkerPage ==
  ASSUME NEW h \in Holder
  PROVE  /\ MissedMarker(h) \in Page /\ MissedMarker(h).from = h /\ MissedMarker(h).cursor = 0
         /\ Idx(MissedMarker(h)) = {}
<1>1. MaxLines \in Nat
  BY LogAssumption
<1>2. NoPage \in Page
  <2>1. 0 \in 0 .. MaxLines /\ {} \in SUBSET ((1 .. MaxLines) \X (1 .. MaxParts)) /\ 1 \in Holder
    BY <1>1 DEF Holder
  <2> QED BY <2>1 DEF NoPage, Page
<1>3. MissedMarker(h) \in Page
  BY <1>2 DEF MissedMarker, Page
<1>4. MissedMarker(h).from = h /\ MissedMarker(h).cursor = 0 /\ MissedMarker(h).lines = {}
  BY DEF MissedMarker, NoPage
<1> QED BY <1>3, <1>4 DEF Idx

\* What deliver may come to: there is nothing to say, it is said, or it waits.
DeliveredAs(r, q, owes, page) ==
  \/ r[1] = q /\ r[2] = FALSE /\ r[3] = TRUE /\ page.lines = {}
  \/ r[1] = Append(q, Again(page, owes)) /\ r[2] = FALSE /\ r[3] = TRUE /\ Len(q) < SubRoom
  \/ r[1] = q /\ r[2] = TRUE /\ r[3] = FALSE

\* deliver comes to one of these.
LEMMA DeliveredFacts ==
  ASSUME NEW q, NEW owes, NEW page
  PROVE  DeliveredAs(Delivered(q, owes, page), q, owes, page)
<1>2. \/ Delivered(q, owes, page) = <<q, FALSE, TRUE>> /\ page.lines = {}
      \/ Delivered(q, owes, page) = <<Append(q, Again(page, owes)), FALSE, TRUE>> /\ Len(q) < SubRoom
      \/ Delivered(q, owes, page) = <<q, TRUE, FALSE>>
  BY Zenon DEF Delivered, Again
<1> DEFINE r == Delivered(q, owes, page)
<1>3. CASE r = <<q, FALSE, TRUE>> /\ page.lines = {}
  <2>1. r[1] = q /\ r[2] = FALSE /\ r[3] = TRUE
    BY <1>3
  <2> QED BY <1>3, <2>1, Zenon DEF DeliveredAs
<1>4. CASE r = <<Append(q, Again(page, owes)), FALSE, TRUE>> /\ Len(q) < SubRoom
  <2>1. r[1] = Append(q, Again(page, owes)) /\ r[2] = FALSE /\ r[3] = TRUE
    BY <1>4
  <2> QED BY <1>4, <2>1, Zenon DEF DeliveredAs
<1>5. CASE r = <<q, TRUE, FALSE>>
  <2>1. r[1] = q /\ r[2] = TRUE /\ r[3] = FALSE
    BY <1>5
  <2> QED BY <2>1, Zenon DEF DeliveredAs
<1> QED BY <1>2, <1>3, <1>4, <1>5, Zenon

\* notifySubs queues the marker, a page of what is new, both, or neither.
LEMMA NotifyFacts ==
  ASSUME LogTypeOK, NEW h \in Holder, NEW buffer \in Seq(Record), Len(buffer) <= MaxLines,
         Notify(h, buffer)
  PROVE  /\ missed' \in BOOLEAN
         /\ \/ queue' = queue /\ subCursor' = subCursor
            \/ /\ base = h /\ link # "down"
               /\ \E q \in {queue, Append(queue, MissedMarker(h))} :
                    /\ q \in Seq(Page) /\ Len(q) <= SubRoom
                    /\ \/ queue' = q /\ subCursor' = subCursor
                       \/ \E page \in Page :
                            /\ page.from = h
                            /\ page.cursor = Since(h, buffer, subCursor).cursor
                            /\ Idx(page) = Idx(Since(h, buffer, subCursor))
                            /\ Len(q) < SubRoom /\ queue' = Append(q, page)
                            /\ subCursor' = page.cursor
<1> DEFINE flushed == missed /\ Len(queue) < SubRoom
           q == IF flushed THEN Append(queue, MissedMarker(h)) ELSE queue
           new == Since(h, buffer, subCursor)
           owes == missed /\ ~flushed
           result == Delivered(q, owes, new)
<1>1. IF link \in {"opening", "up", "ending"} /\ base = h
      THEN IF new.lines = {}
           THEN queue' = q /\ missed' = (missed /\ ~flushed) /\ UNCHANGED subCursor
           ELSE /\ queue' = result[1] /\ missed' = result[2]
                /\ subCursor' = CursorAfter(new, result[3])
      ELSE UNCHANGED <<queue, missed, subCursor>>
  BY Zenon DEF Notify, MissedMarker
<1>2. new \in Page /\ new.from = h
  BY SinceLemma DEF LogTypeOK
<1>3. q \in {queue, Append(queue, MissedMarker(h))} /\ q \in Seq(Page) /\ Len(q) <= SubRoom
  <2>0. queue \in Seq(Page) /\ Len(queue) <= SubRoom
    BY DEF LogTypeOK
  <2>1. Append(queue, MissedMarker(h)) \in Seq(Page) /\ Len(Append(queue, MissedMarker(h))) = Len(queue) + 1
    BY <2>0, MarkerPage
  <2>2. SubRoom \in Nat /\ Len(queue) \in Nat
    BY <2>0, LogAssumption
  <2>3. Len(queue) < SubRoom => Len(queue) + 1 <= SubRoom
    BY <2>2
  <2>4. CASE flushed
    BY <2>1, <2>3, <2>4
  <2>5. CASE ~flushed
    BY <2>0, <2>5
  <2> QED BY <2>4, <2>5
<1>4. owes \in BOOLEAN /\ (missed /\ ~flushed) \in BOOLEAN /\ missed \in BOOLEAN
  BY Zenon DEF LogTypeOK
<1> HIDE DEF q, new, owes
<1>5. CASE link \in {"opening", "up", "ending"} /\ base = h /\ new.lines = {}
  <2>1. queue' = q /\ missed' \in BOOLEAN /\ subCursor' = subCursor
    BY <1>1, <1>4, <1>5, Zenon
  <2> QED BY <1>3, <1>5, <2>1
<1>6. CASE link \in {"opening", "up", "ending"} /\ base = h /\ new.lines # {}
  <2>1. queue' = result[1] /\ missed' = result[2] /\ subCursor' = CursorAfter(new, result[3])
    BY <1>1, <1>6, Zenon
  <2>2. \/ result[1] = Append(q, Again(new, owes)) /\ result[2] = FALSE /\ result[3] = TRUE /\ Len(q) < SubRoom
        \/ result[1] = q /\ result[2] = TRUE /\ result[3] = FALSE
    <3>1. DeliveredAs(result, q, owes, new)
      BY DeliveredFacts
    <3> HIDE DEF result
    <3> QED BY <1>6, <3>1, Zenon DEF DeliveredAs
  <2>3. missed' \in BOOLEAN
    BY <2>1, <2>2, Zenon
  <2>4. CASE result[1] = Append(q, Again(new, owes)) /\ result[3] = TRUE /\ Len(q) < SubRoom
    <3>1. subCursor' = new.cursor
      BY <2>1, <2>4, Zenon DEF CursorAfter
    <3>2. /\ Again(new, owes) \in Page /\ Again(new, owes).from = h
          /\ Again(new, owes).cursor = new.cursor /\ Idx(Again(new, owes)) = Idx(new)
      BY <1>2, <1>4, PageAgain
    <3>3. queue' = Append(q, Again(new, owes)) /\ Len(q) < SubRoom /\ subCursor' = Again(new, owes).cursor
      BY <2>1, <2>4, <3>1, <3>2, Zenon
    <3>4. link # "down"
      BY <1>6
    <3> QED BY ONLY <1>3, <1>6, <2>3, <3>2, <3>3, <3>4, Zenon DEF new
  <2>5. CASE result[1] = q /\ result[3] = FALSE
    <3>1. subCursor' = subCursor /\ queue' = q
      BY <2>1, <2>5, Zenon DEF CursorAfter
    <3>2. link # "down"
      BY <1>6
    <3> QED BY ONLY <1>3, <1>6, <2>3, <3>1, <3>2, Zenon
  <2> QED BY <2>2, <2>4, <2>5, Zenon
<1>7. CASE ~(link \in {"opening", "up", "ending"} /\ base = h)
  BY <1>1, <1>4, <1>7, Zenon
<1> QED BY <1>5, <1>6, <1>7, Zenon

\* What the view may hold of a line.
Seen == {<<0, 0>>} \cup (Holder \X (1 .. MaxParts))

\* record changes the lines of the page and no other.
LEMMA RecordedFacts ==
  ASSUME LogTypeOK, NEW page \in Page, NEW i \in 1 .. MaxLines
  PROVE  /\ Recorded(page)[i] \in Seen
         /\ Recorded(page)[i][1] = IF i \in Idx(page) THEN page.from ELSE view[i][1]
<1>1. page.lines \subseteq (1 .. MaxLines) \X (1 .. MaxParts) /\ page.from \in Holder
  BY DEF Page
<1>2. CASE i \in Idx(page)
  <2> DEFINE l == CHOOSE m \in page.lines : m[1] = i
  <2>1. \E m \in page.lines : m[1] = i
    BY <1>2 DEF Idx
  <2>2. l \in page.lines
    BY <2>1
  <2>3. Recorded(page)[i] = <<page.from, l[2]>>
    BY <2>1 DEF Recorded
  <2> HIDE DEF l
  <2>4. l[2] \in 1 .. MaxParts
    BY <1>1, <2>2
  <2> QED BY <1>1, <1>2, <2>3, <2>4 DEF Seen
<1>3. CASE i \notin Idx(page)
  <2>1. ~ \E m \in page.lines : m[1] = i
    BY <1>3 DEF Idx
  <2>2. Recorded(page)[i] = view[i]
    BY <2>1 DEF Recorded
  <2> QED BY <1>3, <2>2 DEF LogTypeOK, Seen
<1> QED BY <1>2, <1>3

-----------------------------------------------------------------------------
\* What the connection says of the rest: nothing is under way before the first
\* one, and nothing is in the queue between two.
LinkInv ==
  /\ Printed <= MaxLines
  /\ base <= dev
  /\ base = 0 => link = "down" /\ out = <<>> /\ hand = <<>> /\ cursor = 0
  /\ link = "down" => queue = <<>> /\ subCursor = 0
  /\ link # "opening" => first = NoPage

\* No buffer holds more lines than were printed,
LEMMA RoomForAll ==
  ASSUME recs \in [Holder -> Seq(Record)], Printed <= MaxLines, NEW h \in Holder
  PROVE  Len(recs[h]) <= MaxLines /\ Len(recs[h]) \in Nat
<1> DEFINE a == Len(recs[1])
           b == Len(recs[2])
<1>1. a \in Nat /\ b \in Nat /\ MaxLines \in Nat /\ (h = 1 \/ h = 2)
  BY LogAssumption DEF Holder
<1>2. a + b <= MaxLines
  BY Zenon DEF Printed
<1> HIDE DEF a, b
<1>3. a <= MaxLines /\ b <= MaxLines
  BY <1>1, <1>2
<1> QED BY <1>1, <1>3 DEF a, b

\* neither after the step.
LEMMA RoomAfter ==
  ASSUME recs' \in [Holder -> Seq(Record)], Printed' <= MaxLines, NEW h \in Holder
  PROVE  Len(recs'[h]) <= MaxLines /\ Len(recs'[h]) \in Nat
<1> DEFINE a == Len(recs'[1])
           b == Len(recs'[2])
<1>1. a \in Nat /\ b \in Nat /\ MaxLines \in Nat /\ (h = 1 \/ h = 2)
  BY LogAssumption DEF Holder
<1>2. a + b <= MaxLines
  BY Zenon DEF Printed
<1> HIDE DEF a, b
<1>3. a <= MaxLines /\ b <= MaxLines
  BY <1>1, <1>2
<1> QED BY <1>1, <1>3 DEF a, b

\* Every step keeps the types.
LEMMA LogTypes ==
  ASSUME LogTypeOK, LinkInv, LogNext
  PROVE  LogTypeOK'
<1>a. \A k : LogFault(k) => logSpent' \in 0 .. MaxLogFaults
  BY LogAssumption DEF LogFault, LogTypeOK
<1>b. /\ SubRoom \in Nat \ {0} /\ OutRoom \in Nat \ {0} /\ MaxLines \in Nat
  BY LogAssumption
<1>c. NoPage \in Page
  BY <1>b DEF NoPage, Page, Holder
<1>1. ASSUME NEW s \in Stream, NEW newline \in BOOLEAN, Write(s, newline) PROVE LogTypeOK'
  <2>1. /\ recs' \in [Holder -> Seq(Record)] /\ overtaken' \in BOOLEAN /\ Printed' <= MaxLines
        /\ Notify(dev, recs'[dev])
        /\ UNCHANGED <<dev, jammed, link, first, follower, view, logSpent>>
    BY <1>1, WriteFacts DEF LinkInv
  <2>2. dev \in Holder /\ recs'[dev] \in Seq(Record)
    BY <2>1 DEF LogTypeOK
  <2>3. Len(recs'[dev]) <= MaxLines
    BY <2>1, <2>2, RoomAfter
  <2>4. missed' \in BOOLEAN
    BY <2>1, <2>2, <2>3, NotifyFacts
  <2>5. queue' \in Seq(Page) /\ Len(queue') <= SubRoom /\ subCursor' \in 0 .. MaxLines
    <3>1. CASE queue' = queue /\ subCursor' = subCursor
      BY <3>1 DEF LogTypeOK
    <3>2. ASSUME NEW q \in Seq(Page), Len(q) <= SubRoom, queue' = q, subCursor' = subCursor
          PROVE  queue' \in Seq(Page) /\ Len(queue') <= SubRoom /\ subCursor' \in 0 .. MaxLines
      BY <3>2 DEF LogTypeOK
    <3>3. ASSUME NEW q \in Seq(Page), NEW page \in Page, Len(q) < SubRoom,
                 queue' = Append(q, page), subCursor' = page.cursor
          PROVE  queue' \in Seq(Page) /\ Len(queue') <= SubRoom /\ subCursor' \in 0 .. MaxLines
      BY <1>b, <3>3, IdxType
    <3> QED BY <2>1, <2>2, <2>3, <3>1, <3>2, <3>3, NotifyFacts
  <2> QED BY <2>1, <2>4, <2>5 DEF LogTypeOK, follower
<1>2. CASE Subscribe
  <2>1. base \in Holder
    BY <1>2 DEF Subscribe, LinkInv, LogTypeOK
  <2>2. Since(base, recs[base], cursor) \in Page
    BY <2>1, RoomForAll, SinceLemma DEF LogTypeOK, LinkInv
  <2>3. first' \in Page /\ subCursor' \in 0 .. MaxLines /\ link' \in {"opening", "up"}
    BY <1>2, <2>2, IdxType DEF Subscribe, LogTypeOK
  <2>4. queue' = <<>> /\ missed' = FALSE /\ UNCHANGED <<dev, recs, jammed, follower, view, overtaken, logSpent>>
    BY <1>2 DEF Subscribe
  <2>5. queue' \in Seq(Page) /\ Len(queue') <= SubRoom
    BY <1>b, <2>4
  <2>6. missed' \in BOOLEAN
    BY <2>4, Zenon
  <2> QED BY <2>3, <2>4, <2>5, <2>6 DEF LogTypeOK, follower
<1>3. CASE DeliverFirst
  <2>1. DeliveredAs(Delivered(queue, missed, first), queue, missed, first)
    BY DeliveredFacts
  <2>2. first \in Page /\ queue \in Seq(Page) /\ Len(queue) <= SubRoom /\ missed \in BOOLEAN
    BY DEF LogTypeOK
  <2>3. queue' \in Seq(Page) /\ Len(queue') <= SubRoom /\ missed' \in BOOLEAN
    <3>1. Again(first, missed) \in Page
      BY <2>2, PageAgain
    <3>2. /\ queue' = queue \/ (queue' = Append(queue, Again(first, missed)) /\ Len(queue) < SubRoom)
          /\ missed' = TRUE \/ missed' = FALSE
      BY <1>3, <2>1, Zenon DEF DeliverFirst, DeliveredAs
    <3>3. missed' \in BOOLEAN
      BY <3>2, Zenon
    <3>4. queue' \in Seq(Page) /\ Len(queue') <= SubRoom
      BY <1>b, <2>2, <3>1, <3>2
    <3> QED BY <3>3, <3>4
  <2>4. subCursor' \in {first.cursor, subCursor}
    BY <1>3 DEF DeliverFirst, CursorAfter
  <2>5. subCursor' \in 0 .. MaxLines
    BY <2>2, <2>4, IdxType DEF LogTypeOK
  <2>6. first' = NoPage /\ link' = "up" /\ UNCHANGED <<dev, recs, jammed, follower, view, overtaken, logSpent>>
    BY <1>3 DEF DeliverFirst
  <2> QED BY <1>c, <2>3, <2>5, <2>6 DEF LogTypeOK, follower
<1>4. CASE Unsubscribe
  <2>1. jammed' \subseteq Holder
    BY <1>4 DEF Unsubscribe, LinkInv, LogTypeOK
  <2>2. link' = "down" /\ queue' = <<>> /\ missed' = FALSE /\ subCursor' = 0
        /\ UNCHANGED <<dev, recs, first, follower, view, overtaken, logSpent>>
    BY <1>4 DEF Unsubscribe
  <2>3. queue' \in Seq(Page) /\ Len(queue') <= SubRoom /\ subCursor' \in 0 .. MaxLines
    BY <1>b, <2>2
  <2>4. missed' \in BOOLEAN
    BY <2>2, Zenon
  <2> QED BY <2>1, <2>2, <2>3, <2>4 DEF LogTypeOK, follower
<1>5. CASE Dial
  <2>1. /\ base' \in {0} \cup Holder /\ cursor' \in 0 .. MaxLines
        /\ view' \in {view, Nothing}
    BY <1>5, <1>b DEF Dial, LogTypeOK
  <2>2. \A i \in 1 .. MaxLines : view'[i] \in {<<0, 0>>} \cup (Holder \X (1 .. MaxParts))
    BY <2>1 DEF LogTypeOK, Nothing
  <2>3. link' = "opening" /\ UNCHANGED <<dev, recs, jammed, subscriber, hand, out, overtaken, logSpent>>
    BY <1>5 DEF Dial
  <2> QED BY <2>1, <2>2, <2>3 DEF LogTypeOK, subscriber
<1>6. CASE ReadPage
  <2>1. queue \in Seq(Page) /\ queue # <<>>
    BY <1>6 DEF ReadPage, LogTypeOK
  <2>2. Head(queue) \in Page /\ Tail(queue) \in Seq(Page) /\ Len(Tail(queue)) = Len(queue) - 1
    BY <2>1, HeadTailProperties
  <2>3. cursor' \in 0 .. MaxLines
    <3>1. {cursor, Head(queue).cursor} \subseteq 0 .. MaxLines
      BY <2>2, IdxType DEF LogTypeOK
    <3> QED BY <1>6, <1>b, <3>1, GreatestOf DEF ReadPage
  <2>4. hand' \in Seq(Page) /\ Len(hand') <= 1
    BY <1>6, <2>2 DEF ReadPage
  <2>5. queue' \in Seq(Page) /\ Len(queue') <= SubRoom
    BY <1>6, <1>b, <2>1, <2>2 DEF ReadPage, LogTypeOK
  <2>6. UNCHANGED <<dev, recs, jammed, link, first, subCursor, missed, base, out, view,
  overtaken, logSpent>>
    BY <1>6 DEF ReadPage
  <2> QED BY <2>3, <2>4, <2>5, <2>6 DEF LogTypeOK
<1>7. CASE PassOn
  <2>1. hand \in Seq(Page) /\ hand # <<>> /\ out \in Seq(Page) /\ Len(out) < OutRoom
    BY <1>7 DEF PassOn, LogTypeOK
  <2>2. Head(hand) \in Page
    BY <2>1, HeadTailProperties
  <2>3. out' \in Seq(Page) /\ Len(out') <= OutRoom /\ hand' = <<>>
    BY <1>7, <1>b, <2>1, <2>2 DEF PassOn
  <2>4. UNCHANGED <<dev, recs, jammed, link, subscriber, base, cursor, view, overtaken,
  logSpent>>
    BY <1>7 DEF PassOn
  <2> QED BY <2>3, <2>4 DEF LogTypeOK, subscriber
<1>8. CASE CatchUp
  <2>1. dev \in Holder /\ recs[dev] \in Seq(Record) /\ Len(recs[dev]) <= MaxLines
    BY RoomForAll DEF LogTypeOK, LinkInv
  <2>2. Since(dev, recs[dev], 0) \in Page
    BY <1>b, <2>1, SinceLemma
  <2>3. \A i \in 1 .. MaxLines : view'[i] \in {<<0, 0>>} \cup (Holder \X (1 .. MaxParts))
    BY <1>8, <2>2, RecordedFacts DEF CatchUp, Seen
  <2>4. UNCHANGED <<dev, recs, jammed, link, subscriber, follower, overtaken, logSpent>>
    BY <1>8 DEF CatchUp
  <2> QED BY <2>3, <2>4 DEF LogTypeOK, subscriber, follower
<1>9. CASE Take
  <2>1. out \in Seq(Page) /\ out # <<>>
    BY <1>9 DEF Take, LogTypeOK
  <2>2. Head(out) \in Page /\ Tail(out) \in Seq(Page) /\ Len(Tail(out)) = Len(out) - 1
    BY <2>1, HeadTailProperties
  <2>3. \A i \in 1 .. MaxLines : view'[i] \in {<<0, 0>>} \cup (Holder \X (1 .. MaxParts))
    BY <1>9, <2>2, RecordedFacts DEF Take, Seen
  <2>4. out' \in Seq(Page) /\ Len(out') <= OutRoom
    BY <1>9, <1>b, <2>1, <2>2 DEF Take, LogTypeOK
  <2>5. UNCHANGED <<dev, recs, jammed, link, subscriber, base, cursor, hand, overtaken,
  logSpent>>
    BY <1>9 DEF Take
  <2> QED BY <2>3, <2>4, <2>5 DEF LogTypeOK, subscriber
<1>10. CASE FollowCut
  BY <1>10, <1>a DEF FollowCut, LogTypeOK, subscriber, follower
<1>11. CASE Move
  BY <1>11, <1>a DEF Move, LogTypeOK, subscriber, follower, Holder
<1>12. CASE Depart
  BY <1>12 DEF Depart, LogTypeOK, subscriber, follower
<1> QED
  BY <1>1, <1>2, <1>3, <1>4, <1>5, <1>6, <1>7, <1>8, <1>9, <1>10, <1>11, <1>12
     DEF LogNext, Serving, Following

\* Every step keeps what the connection says of the rest.
LEMMA LinkStep ==
  ASSUME LogTypeOK, LinkInv, LogNext
  PROVE  LinkInv'
<1>1. ASSUME NEW s \in Stream, NEW newline \in BOOLEAN, Write(s, newline) PROVE LinkInv'
  <2>1. /\ Printed' <= MaxLines /\ Notify(dev, recs'[dev])
        /\ UNCHANGED <<dev, link, first, base, cursor, hand, out>>
    BY <1>1, WriteFacts DEF LinkInv, follower
  <2>2. link = "down" => UNCHANGED <<queue, subCursor>>
    BY <2>1, Zenon DEF Notify
  <2> QED BY <2>1, <2>2 DEF LinkInv
<1>2. CASE Subscribe
  BY <1>2 DEF Subscribe, LinkInv, Printed, follower
<1>3. CASE DeliverFirst
  <2>1. link = "opening" /\ link' = "up" /\ first' = NoPage /\ UNCHANGED <<dev, recs, base, cursor, hand, out>>
    BY <1>3 DEF DeliverFirst, follower
  <2> QED BY <2>1 DEF LinkInv, Printed
<1>4. CASE Unsubscribe
  BY <1>4 DEF Unsubscribe, LinkInv, Printed, follower
<1>5. CASE Dial
  <2>1. /\ link' = "opening" /\ base' = dev /\ UNCHANGED <<dev, recs, first>>
    BY <1>5 DEF Dial, subscriber
  <2> QED BY <2>1, <1>5 DEF LinkInv, Printed, LogTypeOK, Holder, Dial
<1>6. CASE ReadPage
  <2>1. link = "up" /\ UNCHANGED <<dev, recs, link, first, subCursor, base>>
    BY <1>6 DEF ReadPage
  <2> QED BY <2>1 DEF LinkInv, Printed
<1>7. CASE PassOn
  BY <1>7 DEF PassOn, LinkInv, Printed, subscriber
<1>8. CASE CatchUp
  BY <1>8 DEF CatchUp, LinkInv, Printed, subscriber, follower
<1>9. CASE Take
  BY <1>9 DEF Take, LinkInv, Printed, subscriber
<1>10. CASE FollowCut
  BY <1>10 DEF FollowCut, LinkInv, Printed, subscriber, follower
<1>11. CASE Move
  <2>1. dev = 1 /\ dev' = 2 /\ UNCHANGED <<recs, link, subscriber, follower>>
    BY <1>11 DEF Move
  <2>2. base \in {0, 1, 2}
    BY DEF LogTypeOK, Holder
  <2>3. base <= dev => base <= 2
    BY ONLY <2>1, <2>2
  <2> QED BY <2>1, <2>3 DEF LinkInv, Printed, subscriber, follower
<1>12. CASE Depart
  BY <1>12 DEF Depart, LinkInv, Printed, subscriber, follower
<1> QED
  BY <1>1, <1>2, <1>3, <1>4, <1>5, <1>6, <1>7, <1>8, <1>9, <1>10, <1>11, <1>12
     DEF LogNext, Serving, Following

-----------------------------------------------------------------------------
\* A page of b's or of a server before it tells of lines that were printed.
PageOK(page, b, r) ==
  /\ page.from <= b /\ page.cursor <= Len(r[page.from])
  /\ Idx(page) \subseteq 1 .. Len(r[page.from])

\* The cursors are within the buffer, and so is every page on its way.
Places == base # 0 => subCursor <= Len(recs[base]) /\ cursor <= Len(recs[base])
PagesOK == \A k \in 1 .. Len(Pipe) : PageOK(Pipe[k], base, recs)
FirstOK == first # NoPage => first.from = base /\ PageOK(first, base, recs)
QueueOwn == \A k \in 1 .. Len(queue) : queue[k].from = base

BoundInv == Places /\ PagesOK /\ FirstOK /\ QueueOwn

\* The hand holds one page.
LEMMA OneLong ==
  ASSUME NEW s \in Seq(Page), s # <<>>, Len(s) <= 1
  PROVE  s = <<Head(s)>> /\ Len(s) = 1
<1>1. Len(s) \in Nat \ {0}
  BY EmptySeq
<1>2. Len(s) = 1
  BY <1>1
<1> QED BY <1>2

\* What becomes of the pages on their way: a step takes the first, or adds one or
\* two, or drops those that are still in the queue.
LEMMA PipeMoves ==
  ASSUME LogTypeOK, LogTypeOK'
  PROVE  /\ out' = out /\ hand' = hand /\ queue' = queue => Pipe' = Pipe
         /\ PassOn => Pipe' = Pipe /\ Len(out') + Len(hand') = Len(out) + Len(hand)
         /\ ReadPage => /\ Pipe' = Pipe /\ Len(out') + Len(hand') = Len(out) + Len(hand) + 1
                        /\ Len(out) + Len(hand) + 1 \in 1 .. Len(Pipe)
                        /\ Pipe[Len(out) + Len(hand) + 1] = Head(queue)
         /\ Take => /\ Pipe # <<>> /\ Pipe' = Tail(Pipe) /\ Head(Pipe) = Head(out)
                    /\ Len(out') + Len(hand') = Len(out) + Len(hand) - 1
                    /\ Len(out) + Len(hand) \in 1 .. Len(Pipe)
         /\ out' = out /\ hand' = hand /\ queue' = <<>> =>
              /\ Len(Pipe') = Len(out) + Len(hand) /\ Len(Pipe') <= Len(Pipe)
              /\ \A k \in 1 .. Len(Pipe') : Pipe'[k] = Pipe[k]
         /\ \A page \in Page : out' = out /\ hand' = hand /\ queue' = Append(queue, page)
              => Pipe' = Append(Pipe, page)
<1>1. /\ out \in Seq(Page) /\ hand \in Seq(Page) /\ queue \in Seq(Page) /\ Len(hand) <= 1
      /\ out' \in Seq(Page) /\ hand' \in Seq(Page) /\ queue' \in Seq(Page)
  BY DEF LogTypeOK
<1>2. out \o hand \in Seq(Page)
  BY <1>1
<1>3. out' = out /\ hand' = hand /\ queue' = queue => Pipe' = Pipe
  BY DEF Pipe
<1>4. ASSUME PassOn
      PROVE  Pipe' = Pipe /\ Len(out') + Len(hand') = Len(out) + Len(hand)
  <2>1. hand # <<>> /\ out' = Append(out, Head(hand)) /\ hand' = <<>> /\ queue' = queue
    BY <1>4 DEF PassOn, subscriber
  <2>2. out \o hand = Append(out, Head(hand)) /\ Len(hand) = 1
    <3>2. hand = <<Head(hand)>> /\ Len(hand) = 1
      BY <1>1, <2>1, OneLong
    <3>3. \A x \in Page : out \o <<x>> = Append(out, x)
      BY <1>1
    <3>4. Head(hand) \in Page
      BY <1>1, <2>1, HeadTailProperties
    <3>5. out \o <<Head(hand)>> = Append(out, Head(hand))
      BY <3>3, <3>4
    <3>6. out \o hand = out \o <<Head(hand)>>
      BY <3>2
    <3> QED BY ONLY <3>2, <3>5, <3>6
  <2>3. Append(out, Head(hand)) \o <<>> = Append(out, Head(hand))
    BY <1>1, <1>2, <2>2, ConcatEmptySeq
  <2>4. Len(out') = Len(out) + 1 /\ Len(hand') = 0
    BY <1>1, <2>1
  <2> QED BY <1>1, <2>1, <2>2, <2>3, <2>4 DEF Pipe
<1>5. ASSUME ReadPage
      PROVE  /\ Pipe' = Pipe /\ Len(out') + Len(hand') = Len(out) + Len(hand) + 1
             /\ Len(out) + Len(hand) + 1 \in 1 .. Len(Pipe)
             /\ Pipe[Len(out) + Len(hand) + 1] = Head(queue)
  <2>1. hand = <<>> /\ queue # <<>> /\ hand' = <<Head(queue)>> /\ queue' = Tail(queue) /\ out' = out
    BY <1>5 DEF ReadPage
  <2>2. Head(queue) \in Page /\ Tail(queue) \in Seq(Page) /\ <<Head(queue)>> \in Seq(Page)
    BY <1>1, <2>1, HeadTailProperties
  <2>3. queue = <<Head(queue)>> \o Tail(queue)
    BY <1>1, <2>1
  <2>4. out \o hand = out
    BY <1>1, <2>1, ConcatEmptySeq
  <2>5. (out \o <<Head(queue)>>) \o Tail(queue) = out \o (<<Head(queue)>> \o Tail(queue))
    <3> DEFINE x == <<Head(queue)>>
               t == Tail(queue)
    <3>1. out \in Seq(Page) /\ x \in Seq(Page) /\ t \in Seq(Page)
      BY <1>1, <2>2
    <3> HIDE DEF x, t
    <3>2. (out \o x) \o t = out \o (x \o t)
      BY ONLY <3>1, SMTT(60)
    <3> QED BY <3>2 DEF x, t
  <2>6. Pipe' = (out \o <<Head(queue)>>) \o Tail(queue) /\ Pipe = out \o queue
    BY <2>1, <2>4 DEF Pipe
  <2>7. Pipe' = Pipe
    BY <2>3, <2>5, <2>6
  <2>8. Len(hand) = 0 /\ Len(hand') = 1 /\ Len(queue) >= 1 /\ Len(out) \in Nat /\ Head(queue) = queue[1]
    BY <1>1, <2>1
  <2>9. (out \o queue)[Len(out) + 1] = queue[1] /\ Len(out \o queue) = Len(out) + Len(queue)
    BY <1>1, <2>8
  <2> QED BY <1>1, <2>1, <2>6, <2>7, <2>8, <2>9
<1>6. ASSUME Take
      PROVE  /\ Pipe # <<>> /\ Pipe' = Tail(Pipe) /\ Head(Pipe) = Head(out)
             /\ Len(out') + Len(hand') = Len(out) + Len(hand) - 1
             /\ Len(out) + Len(hand) \in 1 .. Len(Pipe)
  <2>1. out # <<>> /\ out' = Tail(out) /\ hand' = hand /\ queue' = queue
    BY <1>6 DEF Take, subscriber
  <2> DEFINE r == hand \o queue
  <2>2. r \in Seq(Page) /\ Pipe = out \o r /\ Pipe' = Tail(out) \o r
    <3> DEFINE t == Tail(out)
    <3>1. t \in Seq(Page) /\ r \in Seq(Page)
      BY <1>1, <2>1, HeadTailProperties
    <3>a. out \in Seq(Page) /\ hand \in Seq(Page) /\ queue \in Seq(Page)
      BY <1>1
    <3>2. (out \o hand) \o queue = out \o r
      BY ONLY <3>a, SMTT(60)
    <3>3. (t \o hand) \o queue = t \o r
      <4> HIDE DEF t
      <4> QED BY ONLY <3>1, <3>a, SMTT(60)
    <3>4. Pipe' = (t \o hand) \o queue /\ Pipe = (out \o hand) \o queue
      BY <2>1, Zenon DEF Pipe
    <3> HIDE DEF t, r
    <3>5. Pipe = out \o r /\ Pipe' = t \o r
      BY <3>2, <3>3, <3>4, Zenon
    <3> QED BY <3>1, <3>5 DEF t
  <2>3. Len(out) \in Nat /\ Len(out) >= 1 /\ Len(hand) \in Nat /\ Len(queue) \in Nat
        /\ Len(Tail(out)) = Len(out) - 1
    BY <1>1, <2>1, HeadTailProperties, EmptySeq
  <2> HIDE DEF r
  <2>4. Tail(out \o r) = Tail(out) \o r /\ Head(out \o r) = Head(out) /\ out \o r # <<>>
    BY <1>1, <2>1, <2>2
  <2>5. Len(Pipe) = Len(out) + Len(hand) + Len(queue)
    BY PipeType
  <2> QED BY <2>1, <2>2, <2>3, <2>4, <2>5
<1>7. ASSUME out' = out, hand' = hand, queue' = <<>>
      PROVE  /\ Len(Pipe') = Len(out) + Len(hand) /\ Len(Pipe') <= Len(Pipe)
             /\ \A k \in 1 .. Len(Pipe') : Pipe'[k] = Pipe[k]
  <2>1. Pipe' = out \o hand
    BY <1>2, <1>7, ConcatEmptySeq DEF Pipe
  <2> QED BY <2>1, PipeType
<1>8. \A page \in Page : out' = out /\ hand' = hand /\ queue' = Append(queue, page)
        => Pipe' = Append(Pipe, page)
  <2> DEFINE a == out \o hand
  <2>1. a \in Seq(Page) /\ Pipe = a \o queue
    BY <1>2 DEF Pipe
  <2>2. \A page \in Page : out' = out /\ hand' = hand /\ queue' = Append(queue, page)
          => Pipe' = a \o Append(queue, page)
    BY DEF Pipe
  <2> HIDE DEF a
  <2> QED BY <1>1, <2>1, <2>2, AppendToPipe
<1> QED BY <1>3, <1>4, <1>5, <1>6, <1>7, <1>8

\* What a write adds to the pages on their way.
LEMMA WritePipe ==
  ASSUME LogTypeOK, LogTypeOK', LinkInv, NEW s \in Stream, NEW newline \in BOOLEAN,
         Write(s, newline)
  PROVE  \/ Pipe' = Pipe /\ subCursor' = subCursor
         \/ /\ base = dev
            /\ \E P \in {Pipe, Append(Pipe, MissedMarker(dev))} :
                 \/ Pipe' = P /\ subCursor' = subCursor
                 \/ \E page \in Page :
                      /\ page.from = dev /\ Pipe' = Append(P, page) /\ subCursor' = page.cursor
                      /\ page.cursor = Since(dev, recs'[dev], subCursor).cursor
                      /\ Idx(page) = Idx(Since(dev, recs'[dev], subCursor))
<1>1. /\ Notify(dev, recs'[dev]) /\ out' = out /\ hand' = hand
      /\ recs' \in [Holder -> Seq(Record)] /\ Printed' <= MaxLines
  BY WriteFacts DEF LinkInv, follower
<1>2. dev \in Holder /\ recs'[dev] \in Seq(Record) /\ Len(recs'[dev]) <= MaxLines
  <2>1. dev \in Holder
    BY DEF LogTypeOK
  <2>2. (Printed <= MaxLines)' /\ (recs \in [Holder -> Seq(Record)])'
    BY <1>1
  <2>3. \A h \in Holder : Len(recs'[h]) <= MaxLines
    BY <2>2, RoomAfter
  <2> QED BY <1>1, <2>1, <2>3
<1> DEFINE a == out \o hand
<1>3. a \in Seq(Page) /\ Pipe = a \o queue /\ Pipe' = a \o queue' /\ queue \in Seq(Page)
  BY <1>1, PipeType DEF Pipe, LogTypeOK
<1> HIDE DEF a
<1>4. \A q \in Seq(Page), page \in Page : a \o Append(q, page) = Append(a \o q, page)
  BY <1>3, AppendToPipe
<1>5. MissedMarker(dev) \in Page
  BY <1>2, MarkerPage
<1>6. CASE queue' = queue /\ subCursor' = subCursor
  BY <1>3, <1>6
<1>7. ASSUME base = dev, NEW q \in {queue, Append(queue, MissedMarker(dev))}, q \in Seq(Page)
      PROVE  a \o q \in {Pipe, Append(Pipe, MissedMarker(dev))}
  BY <1>3, <1>4, <1>5, <1>7
<1>8. ASSUME base = dev, NEW q \in {queue, Append(queue, MissedMarker(dev))}, q \in Seq(Page),
             queue' = q, subCursor' = subCursor
      PROVE  \E P \in {Pipe, Append(Pipe, MissedMarker(dev))} : Pipe' = P /\ subCursor' = subCursor
  BY <1>3, <1>7, <1>8, Zenon
<1>9. ASSUME base = dev, NEW q \in {queue, Append(queue, MissedMarker(dev))}, q \in Seq(Page),
             NEW page \in Page, queue' = Append(q, page)
      PROVE  \E P \in {Pipe, Append(Pipe, MissedMarker(dev))} : Pipe' = Append(P, page)
  BY <1>3, <1>4, <1>7, <1>9, Zenon
<1> QED BY <1>1, <1>2, <1>6, <1>8, <1>9, NotifyFacts

\* A page within the buffers stays within them.
LEMMA PageGrows ==
  ASSUME NEW r \in [Holder -> Seq(Record)], NEW r2 \in [Holder -> Seq(Record)],
         \A h \in Holder : Len(r2[h]) >= Len(r[h]),
         NEW b \in {0} \cup Holder, NEW b2 \in {0} \cup Holder, b <= b2,
         NEW page \in Page, PageOK(page, b, r)
  PROVE  PageOK(page, b2, r2)
<1>1. page.from \in {1, 2} /\ b \in {0, 1, 2} /\ b2 \in {0, 1, 2} /\ page.cursor \in Nat
  BY IdxType, LogAssumption DEF Holder
<1>2. Len(r[page.from]) \in Nat /\ Len(r2[page.from]) \in Nat /\ Len(r2[page.from]) >= Len(r[page.from])
  BY IdxType
<1> DEFINE m == Len(r[page.from])
           n == Len(r2[page.from])
<1>3. m \in Nat /\ n \in Nat /\ n >= m /\ page.from <= b /\ page.cursor <= m /\ Idx(page) \subseteq 1 .. m
  BY <1>2 DEF PageOK
<1> HIDE DEF m, n
<1>4. page.from <= b2 /\ page.cursor <= n /\ Idx(page) \subseteq 1 .. n
  BY <1>1, <1>3
<1> QED BY <1>4 DEF PageOK, n

\* The view has only lines that were printed, of this server or one before.
ViewWithin ==
  \A i \in 1 .. MaxLines :
    view[i][1] # 0 => /\ i <= Len(recs[view[i][1]])
                      /\ view[i][1] <= (IF base = 0 THEN dev ELSE base)

\* Every step keeps the view within the buffers.
LEMMA ViewStep ==
  ASSUME LogTypeOK, LogTypeOK', LinkInv, ViewWithin, LogNext,
         \A k \in 1 .. Len(Pipe) : PageOK(Pipe[k], base, recs)
  PROVE  ViewWithin'
<1>a. /\ \A i \in 1 .. MaxLines : view[i][1] \in {0, 1, 2}
      /\ base \in {0, 1, 2} /\ dev \in {1, 2} /\ base <= dev
  <2>1. \A t \in {<<0, 0>>} \cup (Holder \X (1 .. MaxParts)) : t[1] \in {0, 1, 2}
    BY DEF Holder
  <2> QED BY <2>1 DEF LogTypeOK, Holder, LinkInv
<1>b. \A h \in Holder : Len(recs[h]) \in Nat /\ Len(recs[h]) <= MaxLines
  BY RoomForAll DEF LogTypeOK, LinkInv
<1>1. ASSUME NEW s \in Stream, NEW newline \in BOOLEAN, Write(s, newline) PROVE ViewWithin'
  <2>1. /\ \A h \in Holder : Len(recs'[h]) >= Len(recs[h])
        /\ UNCHANGED <<dev, view, base>> /\ recs' \in [Holder -> Seq(Record)]
    BY <1>1, WriteFacts DEF LinkInv, follower
  <2>2. \A h \in Holder : Len(recs'[h]) \in Nat
    BY <2>1
  <2>3. ASSUME NEW i \in 1 .. MaxLines, view'[i][1] # 0
        PROVE  /\ i <= Len(recs'[view'[i][1]])
               /\ view'[i][1] <= (IF base' = 0 THEN dev' ELSE base')
    <3> DEFINE h == view[i][1]
               m == Len(recs[h])
               n == Len(recs'[h])
    <3>1. view'[i][1] = h /\ h \in Holder /\ h <= (IF base = 0 THEN dev ELSE base)
      BY <1>a, <2>1, <2>3 DEF ViewWithin, Holder
    <3>2. i <= m /\ m \in Nat /\ n \in Nat /\ n >= m
      BY <1>b, <2>1, <2>2, <2>3, <3>1 DEF ViewWithin
    <3> HIDE DEF h, m, n
    <3>3. i <= n
      BY <3>2
    <3> QED BY <2>1, <3>1, <3>3 DEF n
  <2> QED BY <2>3 DEF ViewWithin
<1>2. ASSUME UNCHANGED <<recs, dev, base, view>> PROVE ViewWithin'
  BY <1>2 DEF ViewWithin
<1>3. CASE Dial
  <2>1. CASE base # dev /\ base # 0
    <3>1. view' = Nothing
      BY <1>3, <2>1 DEF Dial
    <3>2. \A i \in 1 .. MaxLines : view'[i][1] = 0
      BY <3>1 DEF Nothing
    <3> QED BY <3>2 DEF ViewWithin
  <2>2. CASE base = dev \/ base = 0
    <3>1. UNCHANGED <<recs, dev, view>> /\ base' = dev
      BY <1>3, <2>2 DEF Dial
    <3> QED BY <1>a, <2>2, <3>1 DEF ViewWithin
  <2> QED BY <2>1, <2>2
<1>4. CASE CatchUp
  <2> DEFINE page == Since(dev, recs[dev], 0)
  <2>1. UNCHANGED <<recs, dev, base>> /\ base = 0 /\ view' = Recorded(page)
    BY <1>4 DEF CatchUp, follower
  <2>2. dev \in Holder /\ recs[dev] \in Seq(Record) /\ Len(recs[dev]) <= MaxLines /\ 0 \in 0 .. MaxLines
    BY <1>b, LogAssumption DEF LogTypeOK
  <2>3. page \in Page /\ page.from = dev /\ Idx(page) \subseteq 1 .. Len(recs[dev])
    BY <2>2, SinceLemma
  <2> HIDE DEF page
  <2>4. ASSUME NEW i \in 1 .. MaxLines, view'[i][1] # 0
        PROVE  i <= Len(recs[view'[i][1]]) /\ view'[i][1] <= dev
    <3>1. view'[i][1] = IF i \in Idx(page) THEN dev ELSE view[i][1]
      BY <2>1, <2>3, RecordedFacts
    <3>2. CASE i \in Idx(page)
      BY <1>a, <1>b, <2>3, <3>1, <3>2
    <3>3. CASE i \notin Idx(page)
      BY <2>1, <2>4, <3>1, <3>3 DEF ViewWithin
    <3> QED BY <3>2, <3>3
  <2> QED BY <2>1, <2>4 DEF ViewWithin
<1>5. CASE Take
  <2> DEFINE page == Head(out)
  <2>1. UNCHANGED <<recs, dev, base>> /\ view' = Recorded(page) /\ out # <<>> /\ out \in Seq(Page)
    BY <1>5 DEF Take, LogTypeOK
  <2>2. page \in Page /\ PageOK(page, base, recs)
    <3>1. page = Pipe[1] /\ 1 \in 1 .. Len(Pipe)
      <4>1. Pipe # <<>> /\ Pipe \in Seq(Page) /\ Head(Pipe) = page
        BY <1>5, PipeMoves, PipeType
      <4>2. Len(Pipe) \in Nat \ {0}
        BY <4>1, EmptySeq
      <4> QED BY <4>1, <4>2
    <3> QED BY <2>1, <3>1, HeadTailProperties
  <2> HIDE DEF page
  <2>3. page.from \in Holder /\ Idx(page) \subseteq 1 .. Len(recs[page.from]) /\ page.from <= base
    BY <2>2, IdxType DEF PageOK
  <2>4. ASSUME NEW i \in 1 .. MaxLines, view'[i][1] # 0
        PROVE  i <= Len(recs[view'[i][1]]) /\ view'[i][1] <= (IF base = 0 THEN dev ELSE base)
    <3>1. view'[i][1] = IF i \in Idx(page) THEN page.from ELSE view[i][1]
      BY <2>1, <2>2, RecordedFacts
    <3>2. CASE i \in Idx(page)
      <4>1. i <= Len(recs[page.from])
        BY <1>b, <2>3, <3>2
      <4>2. page.from <= (IF base = 0 THEN dev ELSE base)
        BY <1>a, <2>3 DEF Holder
      <4> QED BY <3>1, <3>2, <4>1, <4>2
    <3>3. CASE i \notin Idx(page)
      BY <2>1, <2>4, <3>1, <3>3 DEF ViewWithin
    <3> QED BY <3>2, <3>3
  <2> QED BY <2>1, <2>4 DEF ViewWithin
<1>6. CASE Move
  <2>1. dev = 1 /\ dev' = 2 /\ UNCHANGED <<recs, base, view>>
    BY <1>6 DEF Move, follower
  <2> QED BY <1>a, <2>1 DEF ViewWithin
<1>7. CASE Subscribe  BY <1>2, <1>7 DEF Subscribe, follower
<1>8. CASE DeliverFirst  BY <1>2, <1>8 DEF DeliverFirst, follower
<1>9. CASE Unsubscribe  BY <1>2, <1>9 DEF Unsubscribe, follower
<1>10. CASE Depart  BY <1>2, <1>10 DEF Depart, follower
<1>11. CASE ReadPage  BY <1>2, <1>11 DEF ReadPage
<1>12. CASE PassOn  BY <1>2, <1>12 DEF PassOn
<1>13. CASE FollowCut  BY <1>2, <1>13 DEF FollowCut, follower
<1> QED
  BY <1>1, <1>3, <1>4, <1>5, <1>6, <1>7, <1>8, <1>9, <1>10, <1>11, <1>12, <1>13
     DEF LogNext, Serving, Following

\* Every step keeps the pages on their way within the buffers,
LEMMA PagesStep ==
  ASSUME LogTypeOK, LogTypeOK', LinkInv, LinkInv', BoundInv, LogNext
  PROVE  PagesOK'
<1>a. /\ base \in {0} \cup Holder /\ base' \in {0} \cup Holder /\ dev \in Holder
      /\ recs \in [Holder -> Seq(Record)] /\ recs' \in [Holder -> Seq(Record)]
      /\ subCursor \in 0 .. MaxLines /\ MaxLines \in Nat
  BY LogAssumption DEF LogTypeOK
<1>b. Pipe \in Seq(Page) /\ \A k \in 1 .. Len(Pipe) : Pipe[k] \in Page /\ PageOK(Pipe[k], base, recs)
  BY PipeType, ElementOfSeq DEF BoundInv, PagesOK
<1>c. \A h \in Holder : Len(recs[h]) \in Nat /\ Len(recs[h]) <= MaxLines
  BY RoomForAll DEF LogTypeOK, LinkInv
<1>1. ASSUME NEW s \in Stream, NEW newline \in BOOLEAN, Write(s, newline) PROVE PagesOK'
  <2>1. /\ \A h \in Holder : Len(recs'[h]) >= Len(recs[h])
        /\ UNCHANGED <<dev, base>> /\ Printed' <= MaxLines
    BY <1>1, WriteFacts DEF LinkInv, follower
  <2>2. \A k \in 1 .. Len(Pipe) : PageOK(Pipe[k], base, recs')
    <3>1. base <= base
      BY <1>a DEF Holder
    <3> QED BY <1>a, <1>b, <2>1, <3>1, PageGrows
  <2> DEFINE All(P) == P \in Seq(Page) /\ \A k \in 1 .. Len(P) : PageOK(P[k], base, recs')
  <2>3. ASSUME NEW P \in Seq(Page), All(P), NEW page \in Page, PageOK(page, base, recs')
        PROVE  All(Append(P, page))
    <3> DEFINE Q == Append(P, page)
    <3>1. /\ Q \in Seq(Page) /\ Len(P) \in Nat /\ Len(Q) = Len(P) + 1
          /\ \A k \in 1 .. Len(P) : Q[k] = P[k]
          /\ Q[Len(P) + 1] = page
      OBVIOUS
    <3> HIDE DEF Q
    <3>2. \A k \in 1 .. Len(Q) : k \in 1 .. Len(P) \/ k = Len(P) + 1
      BY <3>1
    <3> QED BY <2>3, <3>1, <3>2
  <2>4. All(Pipe)
    BY <1>b, <2>2
  <2>5. ASSUME base = dev
        PROVE  MissedMarker(dev) \in Page /\ PageOK(MissedMarker(dev), base, recs')
    <3>1. MissedMarker(dev) \in Page /\ MissedMarker(dev).from = dev /\ MissedMarker(dev).cursor = 0 /\ Idx(MissedMarker(dev)) = {}
      BY <1>a, MarkerPage
    <3>2. dev <= base /\ 0 <= Len(recs'[dev])
      BY <1>a, <2>5 DEF Holder
    <3> QED BY <3>1, <3>2 DEF PageOK
  <2>6. ASSUME base = dev, NEW page \in Page, page.from = dev,
               page.cursor = Since(dev, recs'[dev], subCursor).cursor,
               Idx(page) = Idx(Since(dev, recs'[dev], subCursor))
        PROVE  PageOK(page, base, recs')
    <3>1. recs'[dev] \in Seq(Record) /\ Len(recs'[dev]) <= MaxLines
      BY <1>a, <2>1, RoomAfter
    <3>2. subCursor <= Len(recs'[dev])
      <4>1. base # 0 /\ subCursor <= Len(recs[dev]) /\ Len(recs[dev]) \in Nat
            /\ Len(recs'[dev]) >= Len(recs[dev])
        BY <1>a, <1>c, <2>1, <2>6 DEF BoundInv, Places, Holder
      <4> DEFINE m == Len(recs[dev])
                 n == Len(recs'[dev])
      <4>2. n \in Nat
        BY <1>a
      <4>3. subCursor <= m /\ m \in Nat /\ n >= m
        BY <4>1
      <4> HIDE DEF m, n
      <4>4. subCursor <= n
        BY <1>a, <4>2, <4>3
      <4> QED BY <4>4 DEF n
    <3>3. /\ page.cursor <= Len(recs'[dev]) /\ Idx(page) \subseteq 1 .. Len(recs'[dev])
      BY <1>a, <2>6, <3>1, <3>2, SinceLemma
    <3>4. dev <= base
      BY <1>a, <2>6 DEF Holder
    <3> QED BY <2>6, <3>3, <3>4 DEF PageOK
  <2> HIDE DEF All
  <2>7. All(Pipe')
    <3>1. CASE Pipe' = Pipe
      BY <2>4, <3>1
    <3>2. ASSUME base = dev, NEW P \in {Pipe, Append(Pipe, MissedMarker(dev))} PROVE All(P)
      BY <1>b, <2>3, <2>4, <2>5, <3>2
    <3>3. ASSUME base = dev, NEW P \in {Pipe, Append(Pipe, MissedMarker(dev))}, NEW page \in Page,
                 page.from = dev, Pipe' = Append(P, page),
                 page.cursor = Since(dev, recs'[dev], subCursor).cursor,
                 Idx(page) = Idx(Since(dev, recs'[dev], subCursor))
          PROVE  All(Pipe')
      <4>1. P \in Seq(Page) /\ All(P)
        BY <3>2, <3>3 DEF All
      <4> QED BY <2>3, <2>6, <3>3, <4>1
    <3> QED BY <1>1, <3>1, <3>2, <3>3, WritePipe
  <2> QED BY <2>1, <2>7 DEF All, PagesOK
<1>2. ASSUME UNCHANGED <<recs, base>>, Len(Pipe') \in Nat, Len(Pipe') <= Len(Pipe),
             \A k \in 1 .. Len(Pipe') : Pipe'[k] = Pipe[k]
      PROVE  PagesOK'
  <2>1. Len(Pipe) \in Nat
    BY <1>b
  <2> QED BY <1>2, <1>b, <2>1 DEF PagesOK
<1>3. ASSUME UNCHANGED <<recs, base>>, Pipe' = Pipe PROVE PagesOK'
  BY <1>3, <1>b DEF PagesOK
<1>4. ASSUME UNCHANGED <<recs, base, out, hand>>, queue' = <<>> PROVE PagesOK'
  <2>1. /\ Len(Pipe') = Len(out) + Len(hand) /\ Len(Pipe') <= Len(Pipe)
        /\ \A k \in 1 .. Len(Pipe') : Pipe'[k] = Pipe[k]
    BY <1>4, PipeMoves
  <2>2. Len(out) \in Nat /\ Len(hand) \in Nat
    BY PipeType
  <2> QED BY <1>2, <1>4, <2>1, <2>2
<1>5. CASE Subscribe  BY <1>4, <1>5 DEF Subscribe, follower
<1>6. CASE DeliverFirst
  <2>1. UNCHANGED <<recs, base, out, hand>> /\ first # NoPage
        /\ queue' = Delivered(queue, missed, first)[1]
    BY <1>6 DEF DeliverFirst, follower
  <2>2. CASE queue' = queue
    BY <1>3, <2>1, <2>2, PipeMoves
  <2>3. CASE queue' = Append(queue, Again(first, missed))
    <3> DEFINE page == Again(first, missed)
    <3>1. /\ page \in Page /\ page.from = first.from /\ page.cursor = first.cursor
          /\ Idx(page) = Idx(first)
      BY PageAgain DEF LogTypeOK
    <3>2. PageOK(page, base, recs)
      BY <2>1, <3>1 DEF BoundInv, FirstOK, PageOK
    <3> HIDE DEF page
    <3>3. Pipe' = Append(Pipe, page)
      BY <2>1, <2>3, <3>1, PipeMoves DEF page
    <3>4. /\ Len(Append(Pipe, page)) = Len(Pipe) + 1 /\ Len(Pipe) \in Nat
          /\ \A k \in 1 .. Len(Pipe) : Append(Pipe, page)[k] = Pipe[k]
          /\ Append(Pipe, page)[Len(Pipe) + 1] = page
      BY <1>b, <3>1
    <3>5. \A k \in 1 .. Len(Pipe) + 1 : k \in 1 .. Len(Pipe) \/ k = Len(Pipe) + 1
      BY <3>4
    <3>6. \A k \in 1 .. Len(Pipe) + 1 : PageOK(Append(Pipe, page)[k], base, recs)
      BY <1>b, <3>2, <3>4, <3>5
    <3> QED BY <2>1, <3>3, <3>4, <3>6 DEF PagesOK
  <2>4. queue' = queue \/ queue' = Append(queue, Again(first, missed))
    <3> DEFINE r == Delivered(queue, missed, first)
    <3>1. DeliveredAs(r, queue, missed, first)
      BY DeliveredFacts
    <3>2. queue' = r[1]
      BY <2>1
    <3> HIDE DEF r
    <3> QED BY <3>1, <3>2, Zenon DEF DeliveredAs
  <2> QED BY <2>2, <2>3, <2>4
<1>7. CASE Unsubscribe  BY <1>4, <1>7 DEF Unsubscribe, follower
<1>8. CASE Dial
  <2>1. base' = dev /\ UNCHANGED <<recs, out, hand, queue>>
    BY <1>8 DEF Dial, subscriber
  <2>2. Pipe' = Pipe /\ base <= dev
    BY <2>1, PipeMoves DEF LinkInv
  <2>3. \A h \in Holder : Len(recs[h]) >= Len(recs[h])
    BY <1>c
  <2>4. ASSUME NEW k \in 1 .. Len(Pipe) PROVE PageOK(Pipe[k], dev, recs)
    <3>1. Pipe[k] \in Page /\ PageOK(Pipe[k], base, recs) /\ dev \in {0} \cup Holder /\ base <= dev
      BY <1>a, <1>b, <2>2
    <3> DEFINE page == Pipe[k]
    <3> HIDE DEF page
    <3>2. page \in Page /\ PageOK(page, base, recs)
      BY <3>1 DEF page
    <3>3. PageOK(page, dev, recs)
      BY <1>a, <2>3, <3>1, <3>2, PageGrows
    <3> QED BY <3>3 DEF page
  <2> QED BY <2>1, <2>2, <2>4 DEF PagesOK
<1>9. CASE ReadPage  BY <1>3, <1>9, PipeMoves DEF ReadPage
<1>10. CASE PassOn  BY <1>3, <1>10, PipeMoves DEF PassOn
<1>11. CASE Take
  <2>1. Pipe # <<>> /\ Pipe' = Tail(Pipe) /\ UNCHANGED <<recs, base>>
    BY <1>11, PipeMoves DEF Take
  <2>2. /\ Len(Tail(Pipe)) = Len(Pipe) - 1 /\ Len(Pipe) \in Nat
        /\ \A k \in 1 .. Len(Tail(Pipe)) : Tail(Pipe)[k] = Pipe[k + 1]
    BY <1>b, <2>1, HeadTailProperties
  <2>3. \A k \in 1 .. Len(Tail(Pipe)) : k + 1 \in 1 .. Len(Pipe)
    BY <2>2
  <2>4. \A k \in 1 .. Len(Tail(Pipe)) : PageOK(Tail(Pipe)[k], base, recs)
    BY <1>b, <2>2, <2>3
  <2> QED BY <2>1, <2>4 DEF PagesOK
<1>12. CASE CatchUp  BY <1>3, <1>12, PipeMoves DEF CatchUp, subscriber, follower
<1>13. CASE FollowCut  BY <1>3, <1>13, PipeMoves DEF FollowCut, subscriber, follower
<1>14. CASE Move  BY <1>3, <1>14, PipeMoves DEF Move, subscriber, follower
<1>15. CASE Depart  BY <1>3, <1>15, PipeMoves DEF Depart, subscriber, follower
<1> QED
  BY <1>1, <1>5, <1>6, <1>7, <1>8, <1>9, <1>10, <1>11, <1>12, <1>13, <1>14, <1>15
     DEF LogNext, Serving, Following

\* and the queue to pages of the server that is followed.
LEMMA QueueStep ==
  ASSUME LogTypeOK, LogTypeOK', LinkInv, LinkInv', BoundInv, LogNext
  PROVE  QueueOwn'
<1>a. queue \in Seq(Page) /\ Len(queue) \in Nat /\ QueueOwn
  BY DEF LogTypeOK, BoundInv
<1>b. ASSUME NEW q \in Seq(Page), NEW page \in Page, page.from = base,
             \A k \in 1 .. Len(q) : q[k].from = base
      PROVE  \A k \in 1 .. Len(Append(q, page)) : Append(q, page)[k].from = base
  <2> DEFINE Q == Append(q, page)
  <2>1. /\ Len(q) \in Nat /\ Len(Q) = Len(q) + 1 /\ \A k \in 1 .. Len(q) : Q[k] = q[k]
        /\ Q[Len(q) + 1] = page
    OBVIOUS
  <2> HIDE DEF Q
  <2>2. \A k \in 1 .. Len(Q) : k \in 1 .. Len(q) \/ k = Len(q) + 1
    BY <2>1
  <2>3. \A k \in 1 .. Len(Q) : Q[k].from = base
    BY <1>b, <2>1, <2>2
  <2> QED BY <2>3 DEF Q
<1>c. ASSUME UNCHANGED <<queue, base>> PROVE QueueOwn'
  BY <1>a, <1>c DEF QueueOwn
<1>d. ASSUME queue' = <<>> PROVE QueueOwn'
  BY <1>d DEF QueueOwn
<1>1. ASSUME NEW s \in Stream, NEW newline \in BOOLEAN, Write(s, newline) PROVE QueueOwn'
  <2>1. /\ recs' \in [Holder -> Seq(Record)] /\ Printed' <= MaxLines
        /\ Notify(dev, recs'[dev]) /\ UNCHANGED <<dev, base>>
    BY <1>1, WriteFacts DEF LinkInv, follower
  <2>2. dev \in Holder /\ recs'[dev] \in Seq(Record) /\ Len(recs'[dev]) <= MaxLines
    BY <2>1, RoomAfter DEF LogTypeOK
  <2>3. CASE queue' = queue
    BY <1>c, <2>1, <2>3
  <2> DEFINE Own(q) == \A k \in 1 .. Len(q) : q[k].from = base
  <2>4. ASSUME base = dev, NEW q \in {queue, Append(queue, MissedMarker(dev))} PROVE Own(q)
    <3>1. MissedMarker(dev) \in Page /\ MissedMarker(dev).from = base
      BY <2>2, <2>4, MarkerPage
    <3>2. Own(queue)
      BY <1>a DEF QueueOwn
    <3>3. Own(Append(queue, MissedMarker(dev)))
      BY <1>a, <1>b, <3>1, <3>2
    <3> QED BY <2>4, <3>2, <3>3
  <2>5. ASSUME base = dev, NEW q \in {queue, Append(queue, MissedMarker(dev))}, q \in Seq(Page),
               NEW page \in Page, page.from = dev, queue' = Append(q, page)
        PROVE  Own(queue')
    <3>1. Own(q)
      BY <2>4, <2>5
    <3> QED BY <1>b, <2>5, <3>1
  <2>6. \/ queue' = queue
        \/ base = dev /\ Own(queue')
    <3> HIDE DEF Own
    <3> QED BY <2>1, <2>2, <2>4, <2>5, NotifyFacts
  <2> QED BY <2>1, <2>3, <2>6 DEF QueueOwn
<1>2. CASE Subscribe  BY <1>2, <1>d DEF Subscribe
<1>3. CASE DeliverFirst
  <2>1. UNCHANGED base /\ first # NoPage /\ queue' = Delivered(queue, missed, first)[1]
    BY <1>3 DEF DeliverFirst, follower
  <2>2. queue' = queue \/ queue' = Append(queue, Again(first, missed))
    <3> DEFINE r == Delivered(queue, missed, first)
    <3>1. DeliveredAs(r, queue, missed, first)
      BY DeliveredFacts
    <3>2. queue' = r[1]
      BY <2>1
    <3> HIDE DEF r
    <3> QED BY <3>1, <3>2, Zenon DEF DeliveredAs
  <2>3. Again(first, missed) \in Page /\ Again(first, missed).from = base
    BY <2>1, PageAgain DEF LogTypeOK, BoundInv, FirstOK
  <2>4. CASE queue' = queue
    BY <1>c, <2>1, <2>4
  <2>5. CASE queue' = Append(queue, Again(first, missed))
    BY <1>a, <1>b, <2>1, <2>3, <2>5 DEF QueueOwn
  <2> QED BY <2>2, <2>4, <2>5
<1>4. CASE Unsubscribe  BY <1>4, <1>d DEF Unsubscribe
<1>5. CASE Dial
  BY <1>5, <1>d DEF Dial, LinkInv, subscriber
<1>6. CASE ReadPage
  <2>1. queue # <<>> /\ queue' = Tail(queue) /\ UNCHANGED base
    BY <1>6 DEF ReadPage
  <2>2. /\ Len(Tail(queue)) = Len(queue) - 1
        /\ \A k \in 1 .. Len(Tail(queue)) : Tail(queue)[k] = queue[k + 1]
    BY <1>a, <2>1, HeadTailProperties
  <2>3. \A k \in 1 .. Len(Tail(queue)) : k + 1 \in 1 .. Len(queue)
    BY <1>a, <2>2
  <2> QED BY <1>a, <2>1, <2>2, <2>3 DEF QueueOwn
<1>7. CASE PassOn  BY <1>7, <1>c DEF PassOn, subscriber
<1>8. CASE CatchUp  BY <1>8, <1>c DEF CatchUp, subscriber, follower
<1>9. CASE Take  BY <1>9, <1>c DEF Take, subscriber
<1>10. CASE FollowCut  BY <1>10, <1>c DEF FollowCut, subscriber, follower
<1>11. CASE Move  BY <1>11, <1>c DEF Move, subscriber, follower
<1>12. CASE Depart  BY <1>12, <1>c DEF Depart, subscriber, follower
<1> QED
  BY <1>1, <1>2, <1>3, <1>4, <1>5, <1>6, <1>7, <1>8, <1>9, <1>10, <1>11, <1>12
     DEF LogNext, Serving, Following

\* Every step keeps all the bounds.
LEMMA BoundStep ==
  ASSUME LogTypeOK, LogTypeOK', LinkInv, LinkInv', BoundInv, LogNext
  PROVE  BoundInv'
<1>a. /\ base \in {0} \cup Holder /\ base' \in {0} \cup Holder /\ dev \in Holder
      /\ recs \in [Holder -> Seq(Record)] /\ recs' \in [Holder -> Seq(Record)]
      /\ subCursor \in 0 .. MaxLines /\ cursor \in 0 .. MaxLines /\ MaxLines \in Nat
      /\ first \in Page
  BY LogAssumption DEF LogTypeOK
<1>b. Places /\ FirstOK
  BY DEF BoundInv
<1>c. \A h \in Holder : Len(recs[h]) \in Nat /\ Len(recs[h]) <= MaxLines
  BY RoomForAll DEF LogTypeOK, LinkInv
<1>d. SUFFICES Places' /\ FirstOK'
  BY PagesStep, QueueStep DEF BoundInv
<1>e. ASSUME UNCHANGED <<recs, base, subCursor, cursor>> PROVE Places'
  BY <1>b, <1>e DEF Places
<1>f. ASSUME UNCHANGED <<recs, base, first>> PROVE FirstOK'
  BY <1>b, <1>f DEF PageOK, FirstOK
<1>g. ASSUME first' = NoPage PROVE FirstOK'
  BY <1>g DEF FirstOK
<1>1. ASSUME NEW s \in Stream, NEW newline \in BOOLEAN, Write(s, newline) PROVE Places' /\ FirstOK'
  <2>1. /\ \A h \in Holder : Len(recs'[h]) >= Len(recs[h])
        /\ UNCHANGED <<dev, base, first, cursor>> /\ Printed' <= MaxLines
    BY <1>1, WriteFacts DEF LinkInv, follower
  <2>2. FirstOK'
    <3>1. ASSUME first # NoPage PROVE first.from = base /\ PageOK(first, base, recs')
      <4>1. base <= base
        BY <1>a DEF Holder
      <4>2. first.from = base /\ PageOK(first, base, recs)
        BY <1>b, <3>1 DEF FirstOK
      <4>3. PageOK(first, base, recs')
        BY <1>a, <2>1, <4>1, <4>2, PageGrows
      <4> QED BY <4>2, <4>3
    <3> QED BY <2>1, <3>1 DEF FirstOK
  <2>3. ASSUME base # 0 PROVE subCursor' <= Len(recs'[base]) /\ cursor <= Len(recs'[base])
    <3> DEFINE m == Len(recs[base])
               n == Len(recs'[base])
    <3>1. base \in Holder
      BY <1>a, <2>3
    <3>2. m \in Nat /\ n \in Nat /\ m <= n /\ subCursor <= m /\ cursor <= m
      BY <1>a, <1>b, <2>1, <2>3, <3>1 DEF Places
    <3>3. recs'[base] \in Seq(Record) /\ n <= MaxLines
      BY <1>a, <2>1, <3>1, RoomAfter
    <3>4. \/ subCursor' = subCursor
          \/ base = dev /\ subCursor' = Since(dev, recs'[dev], subCursor).cursor
      BY <1>1, WritePipe
    <3>5. ASSUME base = dev PROVE Since(dev, recs'[dev], subCursor).cursor <= n
      <4>1. subCursor <= Len(recs'[dev])
        <5>1. subCursor <= n
          <6> HIDE DEF m, n
          <6> QED BY <1>a, <3>2
        <5> QED BY <3>5, <5>1
      <4>2. Since(dev, recs'[dev], subCursor).cursor <= Len(recs'[dev])
        BY <1>a, <3>3, <3>5, <4>1, SinceLemma
      <4> QED BY <3>5, <4>2
    <3> HIDE DEF m, n
    <3>6. subCursor <= n /\ cursor <= n
      BY <1>a, <3>2
    <3>7. subCursor' <= n
      BY <3>4, <3>5, <3>6
    <3> QED BY <3>6, <3>7 DEF n
  <2> QED BY <2>1, <2>2, <2>3 DEF Places
<1>2. CASE Subscribe
  <2>1. UNCHANGED <<recs, base, cursor>> /\ base \in Holder
    BY <1>2 DEF Subscribe, follower, LinkInv, LogTypeOK
  <2> DEFINE page == Since(base, recs[base], cursor)
  <2>2. cursor <= Len(recs[base])
    BY <1>b, <2>1 DEF Holder, Places
  <2>3. page \in Page /\ page.from = base /\ page.cursor <= Len(recs[base]) /\ Idx(page) \subseteq 1 .. Len(recs[base])
    BY <1>a, <1>c, <2>1, <2>2, SinceLemma
  <2>4. \/ first' = first /\ subCursor' = page.cursor
        \/ first' = page /\ subCursor' = cursor
    BY <1>2 DEF Subscribe
  <2> HIDE DEF page
  <2>5. PageOK(page, base, recs)
    BY <2>1, <2>3 DEF PageOK, Holder
  <2>6. Places'
    BY <2>1, <2>2, <2>3, <2>4 DEF Places
  <2>7. FirstOK'
    BY <1>f, <2>1, <2>3, <2>4, <2>5 DEF PageOK, FirstOK
  <2> QED BY <2>6, <2>7
<1>3. CASE DeliverFirst
  <2>1. UNCHANGED <<recs, base, cursor>> /\ first # NoPage /\ first' = NoPage
        /\ subCursor' \in {first.cursor, subCursor}
    BY <1>3 DEF DeliverFirst, follower, CursorAfter
  <2>2. first.from = base /\ first.cursor <= Len(recs[base])
    BY <1>b, <2>1 DEF PageOK, FirstOK
  <2>3. Places'
    BY <1>b, <2>1, <2>2 DEF Places
  <2> QED BY <1>g, <2>1, <2>3
<1>4. CASE Unsubscribe
  <2>1. UNCHANGED <<recs, base, cursor, first>> /\ subCursor' = 0
    BY <1>4 DEF Unsubscribe, follower
  <2>2. base # 0 => 0 <= Len(recs[base])
    BY <1>a, <1>c
  <2>3. Places'
    BY <1>b, <2>1, <2>2 DEF Places
  <2> QED BY <1>f, <2>1, <2>3
<1>5. CASE Dial
  <2>1. UNCHANGED <<recs, first, subCursor>> /\ link = "down" /\ base' = dev
        /\ (cursor' = 0 \/ (cursor' = cursor /\ base = dev))
    BY <1>5 DEF Dial, subscriber
  <2>2. first = NoPage /\ subCursor = 0
    BY <2>1 DEF LinkInv
  <2>3. 0 <= Len(recs[dev])
    BY <1>a, <1>c
  <2>4. dev # 0
    BY <1>a DEF Holder
  <2>5. Places'
    BY <1>b, <2>1, <2>2, <2>3, <2>4 DEF Places
  <2> QED BY <1>g, <2>1, <2>2, <2>5
<1>6. CASE ReadPage
  <2>1. UNCHANGED <<recs, base, first, subCursor>> /\ cursor' = Max({cursor, Head(queue).cursor})
        /\ link = "up"
    BY <1>6 DEF ReadPage
  <2> DEFINE page == Head(queue)
  <2>2. page \in Page /\ page.from = base /\ page = queue[1] /\ 1 \in 1 .. Len(queue)
    <3>1. queue \in Seq(Page) /\ queue # <<>>
      BY <1>6 DEF ReadPage, LogTypeOK
    <3>2. Len(queue) \in Nat \ {0} /\ page = queue[1]
      BY <3>1, EmptySeq
    <3> QED BY <3>1, <3>2, <1>b, HeadTailProperties DEF BoundInv, QueueOwn
  <2>3. PageOK(page, base, recs)
    <3> DEFINE n == Len(out) + Len(hand) + 1
    <3>1. n \in 1 .. Len(Pipe) /\ Pipe[n] = page
      BY <1>6, PipeMoves
    <3> HIDE DEF n
    <3> QED BY <3>1 DEF BoundInv, PagesOK
  <2>4. base \in Holder
    BY <1>a, <2>1 DEF LinkInv
  <2> HIDE DEF page
  <2>5. cursor' = cursor \/ cursor' = page.cursor
    <3>1. {cursor, page.cursor} \subseteq 0 .. MaxLines
      BY <1>a, <2>2, IdxType
    <3>2. Max({cursor, page.cursor}) \in {cursor, page.cursor}
      BY <1>a, <3>1, GreatestOf
    <3>3. cursor' = Max({cursor, page.cursor})
      BY <2>1 DEF page
    <3> QED BY <3>2, <3>3
  <2>6. page.cursor <= Len(recs[base])
    BY <2>2, <2>3 DEF PageOK
  <2>7. Places'
    BY <1>b, <2>1, <2>5, <2>6 DEF Places
  <2> QED BY <1>f, <2>1, <2>7
<1>7. CASE PassOn  BY <1>e, <1>f, <1>7 DEF PassOn, subscriber
<1>8. CASE CatchUp  BY <1>e, <1>f, <1>8 DEF CatchUp, subscriber, follower
<1>9. CASE Take  BY <1>e, <1>f, <1>9 DEF Take, subscriber
<1>10. CASE FollowCut  BY <1>e, <1>f, <1>10 DEF FollowCut, subscriber, follower
<1>11. CASE Move  BY <1>e, <1>f, <1>11 DEF Move, subscriber, follower
<1>12. CASE Depart  BY <1>e, <1>f, <1>12 DEF Depart, subscriber, follower
<1> QED
  BY <1>1, <1>2, <1>3, <1>4, <1>5, <1>6, <1>7, <1>8, <1>9, <1>10, <1>11, <1>12
     DEF LogNext, Serving, Following

-----------------------------------------------------------------------------
\* Everything up to a place c is known once the first n pages are taken.
Behind(P, V, b, W, c, n) == \A i \in W : i <= c => Known(P, V, b, i, n)

\* The flow, with what the follower's cursor and the subscriber's stand for.
Whole(P, V, b, W, c, n, sc) ==
  /\ Flow(P, V, b, W)
  /\ Behind(P, V, b, W, c, n)
  /\ Behind(P, V, b, W, sc, Len(P))

\* A page may follow, and the subscriber take its cursor.
LEMMA WholeAppend ==
  ASSUME NEW P \in Seq(Page), NEW page \in Page, NEW V, NEW b, NEW W, NEW c, NEW sc,
         NEW n \in 0 .. Len(P), Whole(P, V, b, W, c, n, sc), page.from = b,
         \A i \in W : Below(page, i) => Known(P, V, b, i, Len(P)) \/ i \in Idx(page)
  PROVE  /\ Append(P, page) \in Seq(Page) /\ n \in 0 .. Len(Append(P, page))
         /\ Whole(Append(P, page), V, b, W, c, n, sc)
         /\ Whole(Append(P, page), V, b, W, c, n, page.cursor)
<1> DEFINE Q == Append(P, page)
<1>1. Flow(P, V, b, W) /\ Behind(P, V, b, W, c, n) /\ Behind(P, V, b, W, sc, Len(P))
  BY DEF Whole
<1>2. /\ Q \in Seq(Page) /\ Len(Q) = Len(P) + 1 /\ Flow(Q, V, b, W)
      /\ \A i, m : m \in 0 .. Len(P) /\ Known(P, V, b, i, m) => Known(Q, V, b, i, m)
      /\ \A i : Known(P, V, b, i, Len(P)) \/ i \in Idx(page) => Known(Q, V, b, i, Len(P) + 1)
  BY <1>1, FlowAppend
<1>3. Len(P) \in Nat
  OBVIOUS
<1> HIDE DEF Q
<1>4. Behind(Q, V, b, W, c, n)
  BY <1>1, <1>2 DEF Behind
<1>5. Behind(Q, V, b, W, sc, Len(Q))
  BY <1>1, <1>2 DEF Behind
<1>6. Behind(Q, V, b, W, page.cursor, Len(Q))
  BY <1>2 DEF Behind, Below
<1>7. n \in 0 .. Len(Q)
  BY <1>2, <1>3
<1> QED BY <1>2, <1>4, <1>5, <1>6, <1>7 DEF Whole, Q

\* The three parts of the flow: the pages on their way, the first page that is not
\* delivered yet, and the view before there is a follower.
PipeOK ==
  base # 0 => Whole(Pipe, InView(base), base, Watched(base), cursor, Len(out) + Len(hand), subCursor)
FirstTells ==
  first # NoPage => \A i \in Watched(base) : Below(first, i) => i <= cursor \/ i \in Idx(first)
ViewWhole ==
  base = 0 => \A h \in Holder : \A i, j \in Watched(h) : i < j /\ j \in InView(h) => i \in InView(h)

FlowInv == PipeOK /\ FirstTells /\ ViewWhole

\* The lines of stderr are counted from 1.
LEMMA WatchedType ==
  ASSUME LogTypeOK, NEW h \in Holder
  PROVE  Watched(h) \subseteq Nat /\ \A i \in Watched(h) : i >= 1 /\ i \in 1 .. Len(recs[h])
BY LenProperties DEF Watched, LogTypeOK

\* What the view has was printed.
LEMMA InViewType ==
  ASSUME ViewWithin, NEW h \in Holder, recs \in [Holder -> Seq(Record)]
  PROVE  InView(h) \subseteq 0 .. Len(recs[h])
<1>1. Len(recs[h]) \in Nat
  OBVIOUS
<1>2. h # 0
  BY DEF Holder
<1> QED BY <1>1, <1>2 DEF InView, ViewWithin

\* A write keeps the flow,
LEMMA FlowWrite ==
  ASSUME LogTypeOK, LogTypeOK', LinkInv, LinkInv', BoundInv, ViewWithin, FlowInv,
         NEW s \in Stream, NEW newline \in BOOLEAN, Write(s, newline)
  PROVE  FlowInv'
<1>1. /\ recs' \in [Holder -> Seq(Record)] /\ Printed' <= MaxLines
      /\ \A h \in Holder : \A i \in Watched(h)' : i \in Watched(h) \/ i > Len(recs[h])
      /\ UNCHANGED <<dev, first, base, cursor, hand, out, view>>
  BY WriteFacts DEF LinkInv, follower
<1>2. /\ base \in {0} \cup Holder /\ dev \in Holder /\ recs \in [Holder -> Seq(Record)]
      /\ subCursor \in 0 .. MaxLines /\ cursor \in 0 .. MaxLines /\ MaxLines \in Nat
  BY LogAssumption DEF LogTypeOK
<1>3. \A h \in Holder : Len(recs[h]) \in Nat /\ Watched(h)' \subseteq Nat /\ InView(h)' = InView(h)
  <2>1. \A h \in Holder : Len(recs[h]) \in Nat /\ InView(h)' = InView(h)
    BY <1>1, <1>2 DEF InView
  <2>2. \A h \in Holder : DOMAIN recs'[h] \subseteq Nat
    BY <1>1, LenProperties
  <2> QED BY <2>1, <2>2 DEF Watched
<1>4. ASSUME base # 0
      PROVE  Whole(Pipe, InView(base), base, Watched(base), cursor, Len(out) + Len(hand), subCursor)'
  <2> DEFINE W == Watched(base)
             W2 == Watched(base)'
             V == InView(base)
             n == Len(out) + Len(hand)
             N == Len(recs[base])
  <2>1. base \in Holder
    BY <1>2, <1>4
  <2>2. Pipe \in Seq(Page) /\ n \in 0 .. Len(Pipe)
    BY PipeType
  <2>3. /\ \A i \in W2 : i \in W \/ i > N
        /\ N \in Nat /\ W2 \subseteq Nat /\ V' = V /\ n' = n /\ base' = base /\ cursor' = cursor
    BY <1>1, <1>3, <2>1
  <2>4. V \subseteq 0 .. N
    BY <1>2, <2>1, InViewType
  <2>5. Whole(Pipe, V, base, W, cursor, n, subCursor)
    BY <1>4 DEF FlowInv, PipeOK
  <2>6. cursor <= N /\ subCursor <= N
    BY <1>4 DEF BoundInv, Places
  <2>7. \A k \in 1 .. Len(Pipe) : Pipe[k].from = base => Pipe[k].cursor <= N /\ Idx(Pipe[k]) \subseteq 0 .. N
    BY <2>3 DEF BoundInv, PagesOK, PageOK
  <2>8. Idx(Since(dev, recs'[dev], subCursor)) =
          {i \in 1 .. Len(recs'[dev]) : i > subCursor /\ recs'[dev][i].stream = "stderr"}
    <3>1. recs'[dev] \in Seq(Record) /\ Len(recs'[dev]) <= MaxLines
      BY <1>1, <1>2, RoomAfter
    <3> QED BY <1>2, <3>1, SinceLemma
  <2>9. base = dev => \A i \in W2 : i > subCursor => i \in Idx(Since(dev, recs'[dev], subCursor))
    BY <1>1, <1>2, <2>8, LenProperties DEF Watched
  <2>10. Whole(Pipe, V, base, W2, cursor, n, subCursor)
    <3> HIDE DEF W, W2, V, n, N
    <3>1. Flow(Pipe, V, base, W)
      BY <2>5 DEF Whole
    <3>2. Flow(Pipe, V, base, W2)
      BY <2>2, <2>3, <2>4, <2>7, <3>1, FlowGrow
    <3>3. \A i \in W2 : i <= cursor \/ i <= subCursor => i \in W
      BY <1>2, <2>3, <2>6
    <3> QED BY <2>5, <3>2, <3>3 DEF Whole, Behind
  <2> DEFINE Good(P) == P \in Seq(Page) /\ n \in 0 .. Len(P) /\ Whole(P, V, base, W2, cursor, n, subCursor)
  <2>11. ASSUME base = dev
         PROVE  Good(Append(Pipe, MissedMarker(dev)))
    <3> DEFINE m == MissedMarker(dev)
    <3>1. m \in Page /\ m.from = dev /\ m.cursor = 0 /\ Idx(m) = {}
      BY <1>2, MarkerPage
    <3>2. \A i \in W2 : i >= 1
      BY <1>1, <2>1, LenProperties DEF Watched
    <3> HIDE DEF m, W, W2, V, n, N
    <3>3. \A i \in W2 : ~Below(m, i)
      BY <2>3, <3>1, <3>2 DEF Below
    <3> QED BY <2>2, <2>10, <2>11, <3>1, <3>3, WholeAppend DEF m
  <2>13. ASSUME base = dev, NEW P, Good(P), NEW page \in Page, page.from = dev,
                page.cursor = Since(dev, recs'[dev], subCursor).cursor,
                Idx(page) = Idx(Since(dev, recs'[dev], subCursor))
         PROVE  Whole(Append(P, page), V, base, W2, cursor, n, page.cursor)
    <3>1. \A i \in W2 : i <= subCursor \/ i \in Idx(page)
      BY <1>2, <2>3, <2>9, <2>13
    <3> HIDE DEF W, W2, V, n, N
    <3>2. \A i \in W2 : i <= subCursor => Known(P, V, base, i, Len(P))
      BY <2>13 DEF Whole, Behind
    <3> QED BY <2>13, <3>1, <3>2, WholeAppend
  <2>14. Good(Pipe)
    BY <2>2, <2>10
  <2>15. Whole(Pipe', V, base, W2, cursor, n, subCursor')
    <3> HIDE DEF Good
    <3>1. \A P \in {Pipe, Append(Pipe, MissedMarker(dev))} : base = dev => Good(P)
      BY <2>11, <2>14
    <3>2. \A P : Good(P) => Whole(P, V, base, W2, cursor, n, subCursor)
      BY DEF Good
    <3>3. CASE Pipe' = Pipe /\ subCursor' = subCursor
      BY <2>10, <3>3
    <3>4. ASSUME base = dev, NEW P \in {Pipe, Append(Pipe, MissedMarker(dev))}, Pipe' = P, subCursor' = subCursor
          PROVE  Whole(Pipe', V, base, W2, cursor, n, subCursor')
      BY <3>1, <3>2, <3>4
    <3>5. ASSUME base = dev, NEW P \in {Pipe, Append(Pipe, MissedMarker(dev))}, NEW page \in Page,
                 page.from = dev, Pipe' = Append(P, page), subCursor' = page.cursor,
                 page.cursor = Since(dev, recs'[dev], subCursor).cursor,
                 Idx(page) = Idx(Since(dev, recs'[dev], subCursor))
          PROVE  Whole(Pipe', V, base, W2, cursor, n, subCursor')
      BY <2>13, <3>1, <3>5
    <3> HIDE DEF W, W2, V, n, N
    <3> QED BY <3>3, <3>4, <3>5, WritePipe
  <2> QED BY <2>3, <2>15
<1>5. PipeOK'
  BY <1>1, <1>4 DEF PipeOK
<1>6. FirstTells'
  <2> SUFFICES ASSUME first # NoPage, NEW i \in Watched(base)', Below(first, i)
               PROVE  i <= cursor \/ i \in Idx(first)
    BY <1>1 DEF FirstTells
  <2>1. first \in Page /\ base \in Holder
    BY <1>2 DEF LogTypeOK, LinkInv
  <2>2. first.from = base /\ first.cursor <= Len(recs[base]) /\ Idx(first) \subseteq 1 .. Len(recs[base])
    BY DEF BoundInv, FirstOK, PageOK
  <2>3. i <= Len(recs[base]) /\ i \in Nat
    <3> DEFINE N == Len(recs[base])
    <3>1. N \in Nat /\ i \in Nat /\ first.cursor \in Nat
      BY <1>1, <1>2, <1>3, <2>1, IdxType
    <3>2. first.cursor <= N /\ Idx(first) \subseteq 1 .. N
      BY <2>2
    <3>3. i <= first.cursor \/ \E j \in Idx(first) : i <= j
      BY DEF Below
    <3> HIDE DEF N
    <3>4. i <= N
      BY <3>1, <3>2, <3>3
    <3> QED BY <3>1, <3>4 DEF N
  <2>4. i \in Watched(base)
    BY <1>1, <1>3, <2>1, <2>3
  <2> QED BY <2>4 DEF FlowInv, FirstTells
<1>7. ViewWhole'
  <2> SUFFICES ASSUME base = 0, NEW h \in Holder, NEW i \in Watched(h)', NEW j \in Watched(h)', i < j,
                      j \in InView(h)
               PROVE  i \in InView(h)
    BY <1>1, <1>3 DEF ViewWhole
  <2>1. j <= Len(recs[h])
    <3>1. InView(h) \subseteq 0 .. Len(recs[h])
      BY <1>2, InViewType
    <3> QED BY <3>1
  <2>2. i \in Watched(h) /\ j \in Watched(h)
    BY <1>1, <1>3, <2>1
  <2> QED BY <2>2 DEF FlowInv, ViewWhole
<1> QED BY <1>5, <1>6, <1>7 DEF FlowInv

\* The queue goes with its connection: what was read stays.
LEMMA WholeCut ==
  ASSUME LogTypeOK, LogTypeOK', NEW V, NEW b, NEW W, NEW c, NEW sc,
         Whole(Pipe, V, b, W, c, Len(out) + Len(hand), sc),
         out' = out, hand' = hand, queue' = <<>>
  PROVE  Whole(Pipe', V, b, W, c, Len(out) + Len(hand), c)
<1> DEFINE n == Len(out) + Len(hand)
<1>1. /\ Len(Pipe') = n /\ Len(Pipe') <= Len(Pipe)
      /\ \A k \in 1 .. Len(Pipe') : Pipe'[k] = Pipe[k]
  BY PipeMoves
<1>2. Pipe \in Seq(Page) /\ Pipe' \in Seq(Page) /\ n \in Nat
  <2>1. Pipe \in Seq(Page) /\ n \in Nat
    BY PipeType
  <2>2. Pipe' = out \o hand
    BY PipeType, ConcatEmptySeq DEF Pipe
  <2> QED BY <2>1, <2>2, PipeType
<1>3. Flow(Pipe, V, b, W) /\ Behind(Pipe, V, b, W, c, n)
  BY DEF Whole
<1>4. /\ Flow(Pipe', V, b, W)
      /\ \A i, m : m \in 0 .. Len(Pipe') /\ Known(Pipe, V, b, i, m) => Known(Pipe', V, b, i, m)
  BY <1>1, <1>2, <1>3, FlowPrefix
<1> HIDE DEF n
<1>5. Behind(Pipe', V, b, W, c, n)
  BY <1>1, <1>2, <1>3, <1>4 DEF Behind
<1> QED BY <1>1, <1>4, <1>5 DEF Whole, n

\* the handler keeps it,
LEMMA FlowServe ==
  ASSUME LogTypeOK, LogTypeOK', LinkInv, LinkInv', BoundInv, FlowInv,
         Subscribe \/ DeliverFirst \/ Unsubscribe
  PROVE  FlowInv'
<1>1. /\ UNCHANGED <<recs, base, cursor, hand, out, view>>
      /\ base \in Holder /\ base # 0 /\ recs \in [Holder -> Seq(Record)] /\ cursor \in 0 .. MaxLines
      /\ first \in Page
  BY DEF Subscribe, DeliverFirst, Unsubscribe, follower, LinkInv, LogTypeOK, Holder
<1> DEFINE W == Watched(base)
           V == InView(base)
           n == Len(out) + Len(hand)
<1>2. Whole(Pipe, V, base, W, cursor, n, subCursor)
  BY <1>1 DEF FlowInv, PipeOK
<1>3. W' = W /\ V' = V /\ n' = n /\ base' = base /\ cursor' = cursor
  BY <1>1 DEF Watched, InView
<1>4. \A i \in W : i >= 1 /\ i \in Nat /\ i \in 1 .. Len(recs[base])
  BY <1>1, WatchedType
<1>5. Pipe \in Seq(Page) /\ n \in 0 .. Len(Pipe)
  BY PipeType
<1>6. SUFFICES Whole(Pipe', V, base, W, cursor, n, subCursor') /\ FirstTells'
  <2>1. ViewWhole'
    BY <1>1 DEF ViewWhole
  <2> QED BY <1>3, <2>1 DEF FlowInv, PipeOK
<1> HIDE DEF V, n
<1>7. CASE Subscribe
  <2> DEFINE page == Since(base, recs[base], cursor)
  <2>1. \/ first' = first /\ first = NoPage /\ subCursor' = page.cursor /\ page.lines = {}
        \/ first' = page /\ subCursor' = cursor
    BY <1>7 DEF Subscribe
  <2>2. Whole(Pipe', V, base, W, cursor, n, cursor)
    BY <1>1, <1>2, <1>7, WholeCut DEF Subscribe, n
  <2>3. \A i \in W : i <= cursor \/ i \in Idx(page)
    <3>1. Idx(page) = {i \in 1 .. Len(recs[base]) : i > cursor /\ recs[base][i].stream = "stderr"}
      <4>1. Len(recs[base]) <= MaxLines
        BY <1>1, RoomForAll DEF LinkInv
      <4> QED BY <1>1, <4>1, SinceLemma
    <3>2. \A i \in W : recs[base][i].stream = "stderr"
      BY DEF Watched
    <3>3. MaxLines \in Nat
      BY LogAssumption
    <3> HIDE DEF W, page
    <3> QED BY <1>1, <1>4, <3>1, <3>2, <3>3
  <2> HIDE DEF W, page
  <2>4. CASE first' = first /\ first = NoPage /\ subCursor' = page.cursor /\ page.lines = {}
    <3>1. Idx(page) = {}
      BY <2>4 DEF Idx
    <3>2. Whole(Pipe', V, base, W, cursor, n, page.cursor)
      BY <2>2, <2>3, <3>1 DEF Whole, Behind
    <3> QED BY <2>4, <3>2 DEF FirstTells
  <2>5. CASE first' = page /\ subCursor' = cursor
    <3>1. FirstTells'
      <4> SUFFICES ASSUME NEW i \in W PROVE i <= cursor \/ i \in Idx(page)
        BY <1>3, <2>5 DEF FirstTells, W
      <4> QED BY <2>3
    <3> QED BY <2>2, <2>5, <3>1
  <2> QED BY <2>1, <2>4, <2>5
<1>8. CASE DeliverFirst
  <2>1. first # NoPage /\ first' = NoPage /\ queue' = Delivered(queue, missed, first)[1]
        /\ subCursor' = CursorAfter(first, Delivered(queue, missed, first)[3])
    BY <1>8 DEF DeliverFirst
  <2>2. FirstTells'
    BY <2>1 DEF FirstTells
  <2>3. \A i \in W : Below(first, i) => i <= cursor \/ i \in Idx(first)
    BY <2>1 DEF FlowInv, FirstTells
  <2>4. \A i \in W : i <= cursor => Known(Pipe, V, base, i, Len(Pipe))
    <3>1. \A i : Known(Pipe, V, base, i, n) => Known(Pipe, V, base, i, Len(Pipe))
      BY <1>5 DEF Known
    <3> QED BY <1>2, <3>1 DEF Whole, Behind
  <2>5. \/ queue' = queue /\ subCursor' = first.cursor /\ first.lines = {}
        \/ queue' = Append(queue, Again(first, missed)) /\ subCursor' = first.cursor
        \/ queue' = queue /\ subCursor' = subCursor
    <3> DEFINE r == Delivered(queue, missed, first)
    <3>1. DeliveredAs(r, queue, missed, first)
      BY DeliveredFacts
    <3>2. queue' = r[1] /\ subCursor' = CursorAfter(first, r[3])
      BY <2>1
    <3> HIDE DEF r
    <3>3. CASE r[1] = queue /\ r[3] = TRUE /\ first.lines = {}
      BY <3>2, <3>3, Zenon DEF CursorAfter
    <3>4. CASE r[1] = Append(queue, Again(first, missed)) /\ r[3] = TRUE
      BY <3>2, <3>4, Zenon DEF CursorAfter
    <3>5. CASE r[1] = queue /\ r[3] = FALSE
      BY <3>2, <3>5, Zenon DEF CursorAfter
    <3> QED BY <3>1, <3>3, <3>4, <3>5, Zenon DEF DeliveredAs
  <2> HIDE DEF W
  <2>6. CASE queue' = queue /\ subCursor' = first.cursor /\ first.lines = {}
    <3>1. Pipe' = Pipe
      BY <1>1, <2>6, PipeMoves
    <3>2. \A i \in W : i <= first.cursor => Known(Pipe, V, base, i, Len(Pipe))
      BY <2>3, <2>4, <2>6 DEF Below, Idx
    <3>3. Whole(Pipe, V, base, W, cursor, n, first.cursor)
      BY <1>2, <3>2 DEF Whole, Behind
    <3> QED BY <2>2, <2>6, <3>1, <3>3
  <2>7. CASE queue' = Append(queue, Again(first, missed)) /\ subCursor' = first.cursor
    <3> DEFINE page == Again(first, missed)
    <3>1. /\ page \in Page /\ page.from = base /\ page.cursor = first.cursor /\ Idx(page) = Idx(first)
      BY <2>1, PageAgain DEF LogTypeOK, BoundInv, FirstOK
    <3> HIDE DEF page
    <3>2. Pipe' = Append(Pipe, page)
      BY <1>1, <2>7, <3>1, PipeMoves DEF page
    <3>3. \A i \in W : Below(page, i) => Known(Pipe, V, base, i, Len(Pipe)) \/ i \in Idx(page)
      BY <2>3, <2>4, <3>1 DEF Below
    <3>4. Whole(Append(Pipe, page), V, base, W, cursor, n, page.cursor)
      BY <1>2, <1>5, <3>1, <3>3, WholeAppend
    <3> QED BY <2>2, <2>7, <3>1, <3>2, <3>4
  <2>8. CASE queue' = queue /\ subCursor' = subCursor
    BY <1>1, <1>2, <2>2, <2>8, PipeMoves
  <2> QED BY <2>5, <2>6, <2>7, <2>8
<1>9. CASE Unsubscribe
  <2>1. link = "ending" /\ queue' = <<>> /\ subCursor' = 0 /\ first' = first
    BY <1>9 DEF Unsubscribe
  <2>2. Whole(Pipe', V, base, W, cursor, n, cursor)
    BY <1>1, <1>2, <2>1, WholeCut DEF n
  <2>3. FirstTells'
    BY <2>1 DEF FirstTells, LinkInv
  <2> HIDE DEF W
  <2>4. Whole(Pipe', V, base, W, cursor, n, 0)
    BY <1>4, <2>2 DEF Whole, Behind
  <2> QED BY <2>1, <2>3, <2>4
<1> QED BY <1>7, <1>8, <1>9

\* a new connection keeps it, to the same server or to another,
LEMMA FlowDial ==
  ASSUME LogTypeOK, LogTypeOK', LinkInv, LinkInv', BoundInv, FlowInv, Dial
  PROVE  FlowInv'
<1>1. /\ UNCHANGED <<dev, recs, first, queue, subCursor, hand, out>> /\ base' = dev
      /\ link = "down" /\ hand = <<>> /\ dev # 0 /\ dev \in Holder
      /\ base \in {0} \cup Holder /\ recs \in [Holder -> Seq(Record)] /\ base <= dev
  BY DEF Dial, subscriber, LinkInv, LogTypeOK, Holder
<1>2. queue = <<>> /\ subCursor = 0 /\ first = NoPage
  BY <1>1 DEF LinkInv
<1>3. FirstTells' /\ ViewWhole'
  BY <1>1, <1>2 DEF FirstTells, ViewWhole
<1>4. Pipe' = Pipe /\ Pipe \in Seq(Page)
  BY <1>1, PipeMoves, PipeType
<1> DEFINE V2 == InView(base)'
           W2 == Watched(dev)
           n == Len(out) + Len(hand)
<1>5. Watched(base)' = W2 /\ n' = n
  BY <1>1 DEF Watched
<1>6. \A i \in W2 : i >= 1 /\ i \in Nat
  BY <1>1, WatchedType
<1>7. ASSUME Flow(Pipe, V2, dev, W2), cursor' = 0 PROVE PipeOK'
  <2>1. \A i \in W2 : ~(i <= 0)
    BY <1>6
  <2> HIDE DEF V2, W2, n
  <2>2. Whole(Pipe, V2, dev, W2, 0, n, 0)
    BY <1>7, <2>1 DEF Whole, Behind
  <2>3. (Whole(Pipe, InView(base), base, Watched(base), cursor, Len(out) + Len(hand), subCursor))'
    BY <1>1, <1>2, <1>4, <1>5, <1>7, <2>2 DEF V2, n
  <2> QED BY <2>3 DEF PipeOK
<1>8. CASE base = dev
  <2>1. UNCHANGED <<base, cursor, view>>
    BY <1>8 DEF Dial
  <2> QED BY <1>1, <1>3, <1>4, <2>1 DEF FlowInv, PipeOK, InView, Watched
<1>9. CASE base # dev /\ base # 0
  <2>1. view' = Nothing /\ cursor' = 0
    BY <1>9 DEF Dial
  <2>2. V2 = {}
    BY <1>1, <2>1 DEF InView, Nothing
  <2>3. \A k \in 1 .. Len(Pipe) : Pipe[k].from # dev
    <3>1. \A k \in 1 .. Len(Pipe) : Pipe[k].from <= base /\ Pipe[k] \in Page
      BY <1>4, ElementOfSeq DEF BoundInv, PagesOK, PageOK
    <3>2. \A k \in 1 .. Len(Pipe) : Pipe[k].from \in Holder
      BY <3>1, IdxType
    <3> QED BY <1>1, <1>9, <3>1, <3>2 DEF Holder
  <2>4. Flow(Pipe, V2, dev, W2)
    <3>1. Len(Pipe) \in Nat
      BY <1>4
    <3> HIDE DEF V2, W2
    <3> QED BY <2>2, <2>3, <3>1 DEF Flow
  <2>5. PipeOK'
    BY <1>7, <2>1, <2>4
  <2> QED BY <1>3, <2>5 DEF FlowInv
<1>10. CASE base = 0
  <2>1. view' = view /\ cursor' = 0 /\ out = <<>>
    BY <1>1, <1>10 DEF Dial, LinkInv
  <2>2. Pipe = <<>> /\ Len(Pipe) = 0
    <3>1. Pipe = <<>>
      BY <1>1, <1>2, <2>1, ConcatEmptySeq DEF Pipe
    <3> QED BY <3>1
  <2>3. \A i, j \in W2 : i < j /\ j \in V2 => i \in V2
    BY <1>1, <1>10, <2>1 DEF FlowInv, ViewWhole, InView
  <2>4. Flow(Pipe, V2, dev, W2)
    <3> HIDE DEF V2, W2
    <3> QED BY <2>2, <2>3 DEF Flow
  <2>5. PipeOK'
    BY <1>7, <2>1, <2>4
  <2> QED BY <1>3, <2>5 DEF FlowInv
<1> QED BY <1>8, <1>9, <1>10

\* the follower keeps it when it takes a cursor from a page,
LEMMA FlowRead ==
  ASSUME LogTypeOK, LogTypeOK', LinkInv, LinkInv', BoundInv, FlowInv, ReadPage
  PROVE  FlowInv'
<1>1. /\ UNCHANGED <<recs, base, link, first, subCursor, view, out>> /\ link = "up"
      /\ cursor' = Max({cursor, Head(queue).cursor}) /\ queue # <<>> /\ queue \in Seq(Page)
      /\ base \in Holder /\ base # 0 /\ cursor \in 0 .. MaxLines /\ MaxLines \in Nat
  BY LogAssumption DEF ReadPage, LinkInv, LogTypeOK, Holder
<1> DEFINE n == Len(out) + Len(hand)
           page == Head(queue)
           V == InView(base)
           W == Watched(base)
<1>2. /\ Pipe' = Pipe /\ n' = n + 1 /\ n + 1 \in 1 .. Len(Pipe) /\ Pipe[n + 1] = page
      /\ n \in Nat /\ Pipe \in Seq(Page)
  BY PipeMoves, PipeType
<1>3. page.from = base /\ page \in Page
  <2>1. page = queue[1] /\ 1 \in 1 .. Len(queue) /\ page \in Page
    BY <1>1, EmptySeq, HeadTailProperties
  <2> HIDE DEF page
  <2> QED BY <2>1 DEF BoundInv, QueueOwn
<1>4. cursor' = cursor \/ cursor' = page.cursor
  <2>1. cursor' = Max({cursor, page.cursor})
    BY <1>1
  <2> HIDE DEF page
  <2>2. {cursor, page.cursor} \subseteq 0 .. MaxLines
    BY <1>1, <1>3, IdxType
  <2> QED BY <1>1, <2>1, <2>2, GreatestOf
<1>5. V' = V /\ W' = W /\ base' = base
  BY <1>1 DEF InView, Watched
<1>6. Whole(Pipe, V, base, W, cursor, n, subCursor)
  BY <1>1 DEF FlowInv, PipeOK
<1>7. FirstTells' /\ ViewWhole'
  BY <1>1 DEF FirstTells, ViewWhole, LinkInv
<1> HIDE DEF V, W, n, page
<1>8. \A i \in W : i <= cursor' => Known(Pipe, V, base, i, n + 1)
  <2>1. \A i : Known(Pipe, V, base, i, n) => Known(Pipe, V, base, i, n + 1)
    BY <1>2 DEF Known
  <2>2. \A i \in W : i <= cursor => Known(Pipe, V, base, i, n + 1)
    BY <1>6, <2>1 DEF Whole, Behind
  <2>3. \A i \in W : i <= page.cursor => Known(Pipe, V, base, i, n + 1)
    BY <1>2, <1>3, <1>6 DEF Whole, Flow, Below
  <2> QED BY <1>4, <2>2, <2>3
<1>9. Whole(Pipe, V, base, W, cursor', n + 1, subCursor)
  BY <1>6, <1>8 DEF Whole, Behind
<1>10. PipeOK'
  <2>1. (Whole(Pipe, V, base, W, cursor, n, subCursor))'
    BY <1>1, <1>2, <1>5, <1>9
  <2> QED BY <2>1 DEF PipeOK, V, W, n
<1> QED BY <1>7, <1>10 DEF FlowInv

\* the view keeps it when it takes a page,
LEMMA FlowTaken ==
  ASSUME LogTypeOK, LogTypeOK', LinkInv, LinkInv', BoundInv, FlowInv, Take
  PROVE  FlowInv'
<1>1. /\ UNCHANGED <<recs, base, first, subCursor, cursor>> /\ out # <<>> /\ out \in Seq(Page)
      /\ view' = Recorded(Head(out)) /\ base \in Holder /\ base # 0
  BY DEF Take, subscriber, LinkInv, LogTypeOK, Holder
<1> DEFINE n == Len(out) + Len(hand)
           page == Head(out)
           V == InView(base)
           V2 == InView(base)'
           W == Watched(base)
<1>2. /\ Pipe # <<>> /\ Pipe' = Tail(Pipe) /\ Head(Pipe) = page /\ Pipe \in Seq(Page)
      /\ n' = n - 1 /\ n \in 1 .. Len(Pipe)
  BY PipeMoves, PipeType
<1>3. page \in Page
  BY <1>1, HeadTailProperties
<1>4. Whole(Pipe, V, base, W, cursor, n, subCursor)
  BY <1>1 DEF FlowInv, PipeOK
<1>5. W' = W /\ W \subseteq Nat
  BY <1>1, WatchedType DEF Watched
<1>6. FirstTells' /\ ViewWhole'
  BY <1>1 DEF FlowInv, FirstTells, ViewWhole, Watched
<1>7. V2 = IF page.from = base THEN V \cup Idx(page) ELSE V \ Idx(page)
  <2>1. \A i \in 1 .. MaxLines : view'[i][1] = IF i \in Idx(page) THEN page.from ELSE view[i][1]
    BY <1>1, <1>3, RecordedFacts
  <2>2. Idx(page) \subseteq 1 .. MaxLines
    BY <1>3, IdxType
  <2> HIDE DEF page
  <2> QED BY <1>1, <2>1, <2>2 DEF InView
<1> HIDE DEF V, V2, W, n, page
<1>8. /\ Flow(Tail(Pipe), V2, base, W)
      /\ \A i, m : m \in 1 .. Len(Pipe) /\ Known(Pipe, V, base, i, m) => Known(Tail(Pipe), V2, base, i, m - 1)
  BY <1>2, <1>4, <1>5, <1>7, FlowTake DEF Whole
<1>9. Len(Tail(Pipe)) = Len(Pipe) - 1 /\ Len(Pipe) \in 1 .. Len(Pipe)
  BY <1>2, EmptySeq, HeadTailProperties
<1>10. Whole(Tail(Pipe), V2, base, W, cursor, n - 1, subCursor)
  BY <1>2, <1>4, <1>8, <1>9 DEF Whole, Behind
<1>11. PipeOK'
  <2>1. (Whole(Pipe, V, base, W, cursor, n, subCursor))'
    BY <1>1, <1>2, <1>5, <1>10 DEF V, V2
  <2> QED BY <2>1 DEF PipeOK, V, W, n
<1> QED BY <1>6, <1>11 DEF FlowInv

\* or the page that was read before there was a follower;
LEMMA FlowCatchUp ==
  ASSUME LogTypeOK, LinkInv, FlowInv, CatchUp
  PROVE  FlowInv'
<1> DEFINE page == Since(dev, recs[dev], 0)
<1>1. /\ UNCHANGED <<recs, base, first, cursor>> /\ base = 0 /\ view = Nothing
      /\ view' = Recorded(page) /\ dev \in Holder /\ recs \in [Holder -> Seq(Record)]
  BY DEF CatchUp, subscriber, follower, LogTypeOK
<1>2. /\ page \in Page /\ page.from = dev
      /\ Idx(page) = {i \in 1 .. Len(recs[dev]) : i > 0 /\ recs[dev][i].stream = "stderr"}
  <2>1. Len(recs[dev]) <= MaxLines /\ 0 \in 0 .. MaxLines /\ recs[dev] \in Seq(Record)
    BY <1>1, RoomForAll, LogAssumption DEF LinkInv
  <2> QED BY <1>1, <2>1, SinceLemma
<1>3. PipeOK' /\ FirstTells'
  BY <1>1 DEF FlowInv, PipeOK, FirstTells, Watched
<1>4. ASSUME NEW h \in Holder, NEW i \in Watched(h), NEW j \in Watched(h), j \in InView(h)'
      PROVE  i \in InView(h)'
  <2>1. \A k \in 1 .. MaxLines : view'[k][1] = IF k \in Idx(page) THEN dev ELSE view[k][1]
    BY <1>1, <1>2, RecordedFacts
  <2>2. \A k \in 1 .. MaxLines : view[k][1] = 0
    BY <1>1 DEF Nothing
  <2>3. h # 0 /\ j \in 1 .. MaxLines /\ view'[j][1] = h
    BY <1>4 DEF InView, Holder
  <2> HIDE DEF page
  <2>4. h = dev
    BY <2>1, <2>2, <2>3
  <2>5. i \in Idx(page)
    <3>1. i \in 1 .. Len(recs[dev]) /\ recs[dev][i].stream = "stderr" /\ i > 0
      BY <1>1, <2>4, LenProperties DEF Watched
    <3> QED BY <1>2, <3>1
  <2>6. i \in 1 .. MaxLines
    BY <1>2, <2>5, IdxType
  <2>7. view'[i][1] = h
    BY <2>1, <2>4, <2>5, <2>6
  <2> QED BY <2>6, <2>7 DEF InView
<1>5. ViewWhole'
  BY <1>1, <1>4 DEF ViewWhole, Watched
<1> QED BY <1>3, <1>5 DEF FlowInv

\* and every other step leaves it alone.
LEMMA FlowStep ==
  ASSUME LogTypeOK, LogTypeOK', LinkInv, LinkInv', BoundInv, ViewWithin, FlowInv, LogNext
  PROVE  FlowInv'
<1>a. ASSUME UNCHANGED <<recs, base, first, subCursor, cursor, view>>, Pipe' = Pipe,
             Len(out') + Len(hand') = Len(out) + Len(hand)
      PROVE  FlowInv'
  BY <1>a DEF FlowInv, PipeOK, FirstTells, ViewWhole, Watched, InView
<1>1. CASE PassOn
  BY <1>a, <1>1, PipeMoves DEF PassOn, subscriber
<1>2. CASE FollowCut  BY <1>a, <1>2, PipeMoves DEF FollowCut, subscriber, follower
<1>3. CASE Move  BY <1>a, <1>3, PipeMoves DEF Move, subscriber, follower
<1>4. CASE Depart  BY <1>a, <1>4, PipeMoves DEF Depart, subscriber, follower
<1> QED
  BY <1>1, <1>2, <1>3, <1>4, FlowWrite, FlowServe, FlowDial, FlowRead, FlowTaken, FlowCatchUp
     DEF LogNext, Serving, Following

-----------------------------------------------------------------------------
\* The inductive invariant.
LogInv == LogTypeOK /\ LinkInv /\ BoundInv /\ ViewWithin /\ FlowInv

\* The invariant holds at first,
LEMMA LogStart == LogInit => LogInv
<1> SUFFICES ASSUME LogInit PROVE LogInv
  OBVIOUS
<1>1. /\ dev = 1 /\ recs = [h \in Holder |-> <<>>] /\ jammed = {} /\ link = "down" /\ first = NoPage
      /\ queue = <<>> /\ subCursor = 0 /\ base = 0 /\ cursor = 0 /\ hand = <<>>
      /\ out = <<>> /\ view = Nothing /\ logSpent = 0
  BY DEF LogInit
<1>2. /\ missed \in BOOLEAN /\ overtaken \in BOOLEAN
  BY Zenon DEF LogInit
<1>3. MaxLines \in Nat /\ SubRoom \in Nat /\ OutRoom \in Nat /\ MaxLogFaults \in Nat
  BY LogAssumption
<1>4. NoPage \in Page
  BY <1>3 DEF NoPage, Page, Holder
<1>5. Pipe = <<>> /\ \A h \in Holder : recs[h] = <<>>
  BY <1>1 DEF Pipe
<1>6. LogTypeOK
  BY <1>1, <1>2, <1>3, <1>4 DEF LogTypeOK, Nothing, Holder
<1>7. LinkInv
  <2>1. Printed <= MaxLines
    <3>1. recs[1] = <<>> /\ recs[2] = <<>>
      BY <1>5 DEF Holder
    <3>2. Len(recs[1]) = 0 /\ Len(recs[2]) = 0
      BY <3>1
    <3> QED BY <1>3, <3>2 DEF Printed
  <2> QED BY <1>1, <2>1 DEF LinkInv
<1>8. BoundInv
  BY <1>1, <1>5 DEF BoundInv, Places, PagesOK, FirstOK, QueueOwn
<1>9. ViewWithin
  BY <1>1 DEF ViewWithin, Nothing
<1>10. FlowInv
  BY <1>1, <1>5 DEF FlowInv, PipeOK, FirstTells, ViewWhole, Watched
<1> QED BY <1>6, <1>7, <1>8, <1>9, <1>10 DEF LogInv

\* and every step keeps it.
LEMMA LogStep == LogInv /\ [LogNext]_logVars => LogInv'
<1>1. ASSUME LogInv, LogNext PROVE LogInv'
  <2>1. LogTypeOK' /\ LinkInv'
    BY <1>1, LogTypes, LinkStep DEF LogInv
  <2>2. ViewWithin'
    BY <1>1, <2>1, ViewStep DEF LogInv, BoundInv, PagesOK
  <2> QED BY <1>1, <2>1, <2>2, BoundStep, FlowStep DEF LogInv
<1>2. ASSUME LogInv, UNCHANGED logVars PROVE LogInv'
  <2>1. LogTypeOK' /\ LinkInv' /\ ViewWithin'
    <3>1. LogTypeOK'
      BY <1>2 DEF LogInv, logVars, subscriber, follower, LogTypeOK
    <3>2. LinkInv'
      BY <1>2 DEF LogInv, logVars, subscriber, follower, LinkInv, Printed
    <3>3. ViewWithin'
      BY <1>2 DEF LogInv, logVars, subscriber, follower, ViewWithin
    <3> QED BY <3>1, <3>2, <3>3
  <2>2. BoundInv'
    BY <1>2 DEF LogInv, logVars, subscriber, follower, BoundInv, Places, PagesOK, FirstOK,
       QueueOwn, PageOK, Pipe
  <2>3. FlowInv'
    BY <1>2 DEF LogInv, logVars, subscriber, follower, FlowInv, PipeOK, FirstTells, ViewWhole,
       Watched, InView, Pipe
  <2> QED BY <2>1, <2>2, <2>3 DEF LogInv
<1> QED BY <1>1, <1>2

\* It leaves no hole in the view.
LEMMA LogNoHole == LogInv => NoHole
<1> SUFFICES ASSUME LogInv, base # 0, NEW i \in Watched(base), NEW j \in Watched(base), i < j,
                    view[j][1] = base
             PROVE  view[i][1] = base
  BY DEF NoHole
<1>1. base \in Holder /\ Len(recs[base]) <= MaxLines
  BY RoomForAll DEF LogInv, LogTypeOK, LinkInv
<1>2. j \in 1 .. MaxLines
  <2> DEFINE N == Len(recs[base])
  <2>1. j \in 1 .. N /\ N \in Nat /\ N <= MaxLines /\ MaxLines \in Nat
    BY <1>1, WatchedType, LogAssumption DEF LogInv, LogTypeOK
  <2> HIDE DEF N
  <2> QED BY <2>1
<1>3. j \in InView(base)
  BY <1>2 DEF InView
<1>4. Flow(Pipe, InView(base), base, Watched(base))
  BY DEF LogInv, FlowInv, PipeOK, Whole
<1>5. i \in InView(base)
  BY <1>3, <1>4 DEF Flow
<1> QED BY <1>5 DEF InView

=============================================================================
