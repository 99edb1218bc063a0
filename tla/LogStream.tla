----------------------------- MODULE LogStream -----------------------------
(***************************************************************************)
(* What the dev server prints, on its way to a watcher on another machine:  *)
(* the LogBuffer and its subscribers (devserver/devserver.go), the held     *)
(* /logs handler (gitserver/server.go), the Follower                        *)
(* (devserver/follow.go) and the level view that an off-box conductor reads *)
(* (conductor/logsource.go).  dev is a placed service: it may move to       *)
(* another machine, whose buffer counts its lines from 1 again.             *)
(*                                                                          *)
(* There is one follower, of stderr.  A line's text is the number of writes *)
(* it came in; how many lines a marker says were missed is left out.        *)
(***************************************************************************)
EXTENDS Naturals, Sequences, FiniteSetsExt

CONSTANTS
  SubRoom,    \* logSubscriberQueue
  OutRoom,    \* room in Follower.C
  MaxLines,   \* bound on the lines printed
  MaxParts,   \* bound on the writes of a line
  MaxOpen,    \* bound: only so many lines, the first, are not written at once
  LogFaults,  \* what may happen to a connection, see LogFaultKinds
  MaxLogFaults \* bound on how often

\* "cut": it ends; "move": the dev service moves.
LogFaultKinds == {"cut", "move"}

Holder == {1, 2}
Stream == {"stdout", "stderr"}
Record == [stream : Stream, text : 1 .. MaxParts, open : BOOLEAN]
Page == [from : Holder, lines : SUBSET ((1 .. MaxLines) \X (1 .. MaxParts)),
         cursor : 0 .. MaxLines, missed : BOOLEAN]
NoPage == [from |-> 1, lines |-> {}, cursor |-> 0, missed |-> FALSE]

ASSUME LogAssumption ==
  /\ SubRoom \in Nat \ {0} /\ OutRoom \in Nat \ {0}
  /\ MaxLines \in Nat /\ MaxParts \in Nat \ {0} /\ MaxOpen \in Nat
  /\ LogFaults \subseteq LogFaultKinds /\ MaxLogFaults \in Nat

VARIABLES
  dev,        \* who runs the dev server
  recs,       \* each holder's LogBuffer
  jammed,     \* the buffers whose lock is never given back
  link,       \* the follower's connection
  first,      \* Subscribe's first page, before it is delivered
  queue, subCursor, missed, \* logSubscriber
  base, cursor, hand, out, \* Follower: its endpoint, its place, the page it delivers, C
  view,       \* RemoteLogSource.lines
  overtaken,  \* history: an open line was passed by the cursor and went on
  logSpent

subscriber == <<first, queue, subCursor, missed>>
follower == <<base, cursor, hand, out>>
logVars == <<dev, recs, jammed, link, subscriber, follower, view, overtaken,
             logSpent>>

LogTypeOK ==
  /\ dev \in Holder /\ recs \in [Holder -> Seq(Record)] /\ jammed \subseteq Holder
  /\ link \in {"down", "opening", "up", "ending"}
  /\ first \in Page
  /\ queue \in Seq(Page) /\ Len(queue) <= SubRoom
  /\ subCursor \in 0 .. MaxLines /\ missed \in BOOLEAN
  /\ base \in {0} \cup Holder /\ cursor \in 0 .. MaxLines
  /\ hand \in Seq(Page) /\ Len(hand) <= 1
  /\ out \in Seq(Page) /\ Len(out) <= OutRoom
  /\ \A i \in 1 .. MaxLines : view[i] \in {<<0, 0>>} \cup (Holder \X (1 .. MaxParts))
  /\ overtaken \in BOOLEAN
  /\ logSpent \in 0 .. MaxLogFaults

Nothing == [i \in 1 .. MaxLines |-> <<0, 0>>]

LogInit ==
  /\ dev = 1 /\ recs = [h \in Holder |-> <<>>] /\ jammed = {}
  /\ link = "down" /\ first = NoPage /\ queue = <<>> /\ subCursor = 0 /\ missed = FALSE
  /\ base = 0 /\ cursor = 0 /\ hand = <<>> /\ out = <<>> /\ view = Nothing
  /\ overtaken = FALSE /\ logSpent = 0

LogFault(kind) ==
  kind \in LogFaults /\ logSpent < MaxLogFaults /\ logSpent' = logSpent + 1

-----------------------------------------------------------------------------
(* LogBuffer. *)

\* sinceLocked: the follower's lines after a cursor, and the next cursor, which
\* any line that is closed moves on.
Since(h, buffer, after) ==
  LET new == {i \in DOMAIN buffer : i > after}
  IN [from |-> h,
      lines |-> {<<i, buffer[i].text>> : i \in {j \in new : buffer[j].stream = "stderr"}},
      cursor |-> Max({after} \cup {i \in new : ~buffer[i].open}),
      missed |-> FALSE]

\* Mutant: a page that finds no room counts as sent.
SentAnyway(page, sent) == page.cursor

\* The cursor stays when the page finds no room: its lines come again.
CursorAfter(page, sent) == IF sent THEN page.cursor ELSE subCursor

\* deliver, to a queue q with or without lines owed: the new queue and debt.
Delivered(q, owes, page) ==
  IF page.lines = {} /\ ~owes THEN <<q, FALSE, TRUE>>
  ELSE IF Len(q) < SubRoom
       THEN <<Append(q, [page EXCEPT !.missed = owes]), FALSE, TRUE>>
       ELSE <<q, TRUE, FALSE>>

\* notifySubs: the marker first, then what is new.
Notify(h, buffer) ==
  LET flushed == missed /\ Len(queue) < SubRoom
      q == IF flushed THEN Append(queue, [NoPage EXCEPT !.from = h, !.missed = TRUE])
           ELSE queue
      page == Since(h, buffer, subCursor)
      result == Delivered(q, missed /\ ~flushed, page)
  IN IF link \in {"opening", "up", "ending"} /\ base = h
     THEN IF page.lines = {}
          THEN queue' = q /\ missed' = (missed /\ ~flushed) /\ UNCHANGED subCursor
          ELSE /\ queue' = result[1] /\ missed' = result[2]
               /\ subCursor' = CursorAfter(page, result[3])
     ELSE UNCHANGED <<queue, missed, subCursor>>

Printed == Len(recs[1]) + Len(recs[2])

OpenLine(s) == {i \in DOMAIN recs[dev] : recs[dev][i].stream = s /\ recs[dev][i].open}

\* write: text that goes on with this stream's open line or begins one, and may
\* end it.  Nobody writes while the lock is held.  stdout comes in whole lines.
Write(s, newline) ==
  /\ dev \notin jammed /\ (s = "stdout" => newline)
  /\ \/ /\ OpenLine(s) = {} /\ Printed < MaxLines /\ (newline \/ Printed < MaxOpen)
        /\ recs' = [recs EXCEPT ![dev] =
                      Append(@, [stream |-> s, text |-> 1, open |-> ~newline])]
        /\ UNCHANGED overtaken
     \/ \E i \in OpenLine(s) :
          /\ recs[dev][i].text < MaxParts
          /\ recs' = [recs EXCEPT ![dev][i] =
                        [stream |-> s, text |-> @.text + 1, open |-> ~newline]]
          /\ overtaken' = (overtaken \/ (base = dev /\ (i <= subCursor \/ i <= cursor)))
  /\ Notify(dev, recs'[dev])
  /\ UNCHANGED <<dev, jammed, link, first, follower, view, logSpent>>

\* Subscribe registers under the lock and keeps the first page,
Subscribe ==
  /\ link = "opening" /\ first = NoPage /\ base \notin jammed
  /\ LET page == Since(base, recs[base], cursor)
     IN IF page.lines = {}
        THEN first' = first /\ subCursor' = page.cursor /\ link' = "up"
        ELSE first' = page /\ subCursor' = cursor /\ link' = "opening"
  /\ queue' = <<>> /\ missed' = FALSE
  /\ UNCHANGED <<dev, recs, jammed, follower, view, overtaken, logSpent>>

\* and delivers it without the lock: a write may have come between.
DeliverFirst ==
  /\ link = "opening" /\ first # NoPage
  /\ LET result == Delivered(queue, missed, first)
     IN /\ queue' = result[1] /\ missed' = result[2]
        /\ subCursor' = CursorAfter(first, result[3])
  /\ first' = NoPage /\ link' = "up"
  /\ UNCHANGED <<dev, recs, jammed, follower, view, overtaken, logSpent>>

\* The handler returns and closes its subscription, which sends what is left
\* under the lock, to a queue that has no reader any more.
Unsubscribe ==
  /\ link = "ending"
  /\ LET left == Since(base, recs[base], subCursor).lines # {} \/ missed
     IN jammed' = IF left /\ Len(queue) = SubRoom THEN jammed \cup {base} ELSE jammed
  /\ link' = "down" /\ queue' = <<>> /\ missed' = FALSE /\ subCursor' = 0
  /\ UNCHANGED <<dev, recs, first, follower, view, overtaken, logSpent>>

-----------------------------------------------------------------------------
(* Follower. *)

\* Each connection resolves the endpoint again; another one starts over.
Dial ==
  /\ link = "down" /\ hand = <<>>
  /\ IF base # dev
     THEN base' = dev /\ cursor' = 0 /\ view' = IF base # 0 THEN Nothing ELSE view
     ELSE UNCHANGED <<base, cursor, view>>
  /\ link' = "opening"
  /\ UNCHANGED <<dev, recs, jammed, subscriber, hand, out, overtaken, logSpent>>

\* The handler writes a page, and the follower takes its cursor from it.
ReadPage ==
  /\ link = "up" /\ queue # <<>> /\ hand = <<>>
  /\ hand' = <<Head(queue)>> /\ queue' = Tail(queue)
  /\ cursor' = Max({cursor, Head(queue).cursor})
  /\ UNCHANGED <<dev, recs, jammed, link, first, subCursor, missed, base, out,
                 view, overtaken, logSpent>>

PassOn ==
  /\ hand # <<>> /\ Len(out) < OutRoom
  /\ out' = Append(out, Head(hand)) /\ hand' = <<>>
  /\ UNCHANGED <<dev, recs, jammed, link, subscriber, base, cursor, view,
                 overtaken, logSpent>>

FollowCut ==
  /\ link = "up" /\ LogFault("cut")
  /\ link' = "ending"
  /\ UNCHANGED <<dev, recs, jammed, subscriber, follower, view, overtaken>>

\* The old machine's buffer stays, and its connection ends sooner or later.
Move ==
  /\ dev = 1 /\ LogFault("move")
  /\ dev' = 2
  /\ UNCHANGED <<recs, jammed, link, subscriber, follower, view, overtaken>>

Depart ==
  /\ link = "up" /\ base # dev
  /\ link' = "ending"
  /\ UNCHANGED <<dev, recs, jammed, subscriber, follower, view, overtaken,
                 logSpent>>

\* record: a line that comes again replaces itself.
Recorded(page) ==
  [i \in 1 .. MaxLines |-> IF \E l \in page.lines : l[1] = i
                           THEN <<page.from, (CHOOSE l \in page.lines : l[1] = i)[2]>>
                           ELSE view[i]]

\* The page read before there is a follower, and not known to it.
CatchUp ==
  /\ base = 0 /\ view = Nothing
  /\ view' = Recorded(Since(dev, recs[dev], 0))
  /\ UNCHANGED <<dev, recs, jammed, link, subscriber, follower, overtaken, logSpent>>

Take ==
  /\ out # <<>>
  /\ view' = Recorded(Head(out)) /\ out' = Tail(out)
  /\ UNCHANGED <<dev, recs, jammed, link, subscriber, base, cursor, hand,
                 overtaken, logSpent>>

-----------------------------------------------------------------------------
Serving == Subscribe \/ DeliverFirst \/ Unsubscribe \/ Depart
Following == Dial \/ ReadPage \/ PassOn

LogNext ==
  \/ \E s \in Stream, newline \in BOOLEAN : Write(s, newline)
  \/ Serving \/ Following \/ CatchUp \/ Take
  \/ FollowCut \/ Move

LogSpec == LogInit /\ [][LogNext]_logVars

\* Handlers and followers run on, the floor ends, and Watchable's reader takes
\* what comes.
LogFairness ==
  WF_logVars(Serving) /\ WF_logVars(Following) /\ WF_logVars(Take)

LogFairSpec == LogSpec /\ LogFairness

-----------------------------------------------------------------------------
Watched(h) == {i \in DOMAIN recs[h] : recs[h][i].stream = "stderr"}
Has(i) == view[i] = <<dev, recs[dev][i].text>>

\* What the view has of the server it follows has no hole: a queue without room
\* delays lines and never skips one.
NoHole ==
  base # 0 =>
    \A i, j \in Watched(base) : i < j /\ view[j][1] = base => view[i][1] = base

\* Whatever is cut or moved, the view ends up with everything that was printed,
\* except behind a line that a closed one overtook, a full queue that no later
\* write has emptied into, or a buffer that is jammed.
TailArrives ==
  <>[](\/ \A i \in Watched(dev) : Has(i)
       \/ overtaken \/ missed \/ dev \in jammed)

\* What the comment on reset says: no line of the server it left stays.
NothingOfTheOldHolder == \A i \in DOMAIN view : view[i][1] \in {0, base}
=============================================================================
