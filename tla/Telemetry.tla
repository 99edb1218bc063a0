----------------------------- MODULE Telemetry -----------------------------
(***************************************************************************)
(* The client's telemetry: the emitter's ring and delivery goroutine        *)
(* (telemetry/telemetry.go), the emitter of the session that every member   *)
(* cycle renews (telemetry/client.go), and the log that feeds it            *)
(* (logx/logx.go): what the emitter logs is a line like any other, so it    *)
(* comes back as an envelope.                                               *)
(***************************************************************************)
EXTENDS Naturals

CONSTANTS
  Cycle,        \* the goroutines that report the session: one cycle each
  QueueDepth,   \* Config.QueueDepth
  BatchSize,    \* Config.BatchSize
  MaxEmitters,  \* bound on emitters built
  MaxTickets,   \* bound on renewals of the ticket
  MaxLines,     \* bound on lines the program itself logs
  MaxRefusals,  \* batches the ingest refuses before it is down for good
  CountCap      \* counters stop here, and stay

ASSUME TelemetryAssumption ==
  /\ QueueDepth \in Nat \ {0} /\ BatchSize \in Nat \ {0} /\ MaxEmitters \in Nat
  /\ MaxTickets \in Nat /\ MaxLines \in Nat /\ MaxRefusals \in Nat /\ CountCap \in Nat

VARIABLES
  emitter, \* the emitters, with the goroutine of each
  member,  \* memberEm: which of them the log feeds, 0 for none
  ticket,  \* the configuration a cycle learns now
  cycle,   \* where UseMember or StopMember is in each goroutine
  mine,    \* the emitter that goroutine built, or has to close
  ownLines,
  refusals

telVars == <<emitter, member, ticket, cycle, mine, ownLines, refusals>>

Emitters == 1 .. MaxEmitters
Capped(n) == IF n > CountCap THEN CountCap ELSE n
Less(n, k) == IF n = CountCap THEN n ELSE n - k

\* `owed` is history: envelopes accepted whose fate nothing durable records.
Emitter == [at : {"off", "takes", "checks", "waits", "posts", "done"}, closed : BOOLEAN,
            wake : BOOLEAN, ring : 0 .. QueueDepth, dropped : 0 .. CountCap,
            batch : 0 .. BatchSize, told : 0 .. CountCap, owed : 0 .. CountCap,
            ticket : 0 .. MaxTickets]

Unbuilt == [at |-> "off", closed |-> FALSE, wake |-> FALSE, ring |-> 0, dropped |-> 0,
            batch |-> 0, told |-> 0, owed |-> 0, ticket |-> 0]

TelTypeOK ==
  /\ emitter \in [Emitters -> Emitter] /\ member \in 0 .. MaxEmitters
  /\ ticket \in 0 .. MaxTickets
  /\ cycle \in [Cycle -> {"runs", "built", "closes", "stopped"}]
  /\ mine \in [Cycle -> 0 .. MaxEmitters]
  /\ ownLines \in 0 .. MaxLines /\ refusals \in 0 .. MaxRefusals

TelInit ==
  /\ emitter = [e \in Emitters |-> Unbuilt] /\ member = 0 /\ ticket = 0
  /\ cycle = [c \in Cycle |-> "runs"] /\ mine = [c \in Cycle |-> 0]
  /\ ownLines = 0 /\ refusals = 0

-----------------------------------------------------------------------------
(* Emit, and the sink that calls it for every line of the process. *)

\* Drop-oldest: a full ring makes room for the newest.
Emit(e) ==
  IF e.closed THEN e
  ELSE [e EXCEPT !.ring = IF @ = QueueDepth THEN @ ELSE @ + 1,
                 !.dropped = IF e.ring = QueueDepth THEN Capped(@ + 1) ELSE @,
                 !.wake = TRUE, !.owed = Capped(@ + 1)]

\* logSink: whatever logs, the line goes to the session's emitter.
Logs(es) == IF member = 0 THEN es ELSE [es EXCEPT ![member] = Emit(@)]

Narrates ==
  /\ ownLines < MaxLines /\ ownLines' = ownLines + 1 /\ emitter' = Logs(emitter)
  /\ UNCHANGED <<member, ticket, cycle, mine, refusals>>

-----------------------------------------------------------------------------
(* The delivery goroutine. *)

Goroutine(e, at) == emitter[e].at = at /\ UNCHANGED <<member, ticket, cycle, mine, ownLines>>

\* take: a batch, with the count of what was dropped before it, which it logs.
Takes(e) ==
  /\ Goroutine(e, "takes") /\ UNCHANGED refusals
  /\ LET em == emitter[e]
         n == IF em.ring > BatchSize THEN BatchSize ELSE em.ring
         taken == [em EXCEPT !.at = "posts", !.ring = @ - n, !.batch = n,
                             !.told = em.dropped, !.dropped = 0]
     IN emitter' = IF n = 0 THEN [emitter EXCEPT ![e].at = "checks"]
                   ELSE IF em.dropped = 0 THEN [emitter EXCEPT ![e] = taken]
                   ELSE Logs([emitter EXCEPT ![e] = taken])

ChecksClosed(e) ==
  /\ Goroutine(e, "checks") /\ UNCHANGED refusals
  /\ emitter' = [emitter EXCEPT ![e].at = IF @ = "checks" /\ emitter[e].closed THEN "done"
                                          ELSE "waits"]

WakesOn(e) ==
  /\ Goroutine(e, "waits") /\ emitter[e].wake /\ UNCHANGED refusals
  /\ emitter' = [emitter EXCEPT ![e].at = "takes", ![e].wake = FALSE]

\* An ingest that has refused this often is down for good.
Down == refusals = MaxRefusals

Lands(e) ==
  /\ Goroutine(e, "posts") /\ ~Down /\ UNCHANGED refusals
  /\ emitter' = [emitter EXCEPT ![e].at = "takes", ![e].batch = 0, ![e].told = 0,
                                ![e].owed = Less(@, emitter[e].batch + emitter[e].told)]

\* Mutant: the count that rode the batch goes with it.
GivenForgets(e) == e.dropped + e.batch

\* A refusal counts the batch in hand, and the count it carried, as dropped.
Given(e) == e.dropped + e.batch + e.told

\* fail: given up, never tried again, and logged.
IngestRefuses(e) ==
  /\ Goroutine(e, "posts") /\ refusals' = IF Down THEN refusals ELSE refusals + 1
  /\ emitter' = Logs([emitter EXCEPT ![e].at = "takes", ![e].batch = 0, ![e].told = 0,
                                     ![e].dropped = Capped(Given(emitter[e]))])

-----------------------------------------------------------------------------
(* UseMember and StopMember. *)

\* The cycle brings a new ticket.
RenewsTicket ==
  /\ ticket < MaxTickets /\ ticket' = ticket + 1
  /\ UNCHANGED <<emitter, member, cycle, mine, ownLines, refusals>>

\* memberIs.
MemberIs(t) == member # 0 /\ emitter[member].ticket = t

New(e) == emitter[e].at = "off" /\ \A i \in 1 .. e - 1 : emitter[i].at # "off"

\* Without a ticket ForMember builds a disabled emitter: nothing to queue in.
Builds(c) ==
  /\ cycle[c] = "runs" /\ ticket # 0 /\ ~MemberIs(ticket)
  /\ \E e \in Emitters : New(e)
       /\ emitter' = [emitter EXCEPT ![e] = [Unbuilt EXCEPT !.at = "takes",
                                                            !.ticket = ticket]]
       /\ mine' = [mine EXCEPT ![c] = e] /\ cycle' = [cycle EXCEPT ![c] = "built"]
  /\ UNCHANGED <<member, ticket, ownLines, refusals>>

\* Mutant: the goroutine is not woken to hear of it.
ClosedQuietly(e) == [e EXCEPT !.closed = TRUE]

\* Close: no more envelopes, and the goroutine hears of it.
Closed(e) == [e EXCEPT !.closed = TRUE, !.wake = TRUE]

Closes(c, e) ==
  /\ cycle' = [cycle EXCEPT ![c] = IF e = 0 THEN "runs" ELSE "closes"]
  /\ mine' = [mine EXCEPT ![c] = e]
  /\ emitter' = IF e = 0 THEN emitter ELSE [emitter EXCEPT ![e] = Closed(@)]

\* installMember: the emitter of a cycle that lost the race is handed back.
Installs(c) ==
  /\ cycle[c] = "built"
  /\ IF MemberIs(emitter[mine[c]].ticket)
       THEN member' = member /\ Closes(c, mine[c])
       ELSE member' = mine[c] /\ Closes(c, member)
  /\ UNCHANGED <<ticket, ownLines, refusals>>

\* Shutdown waits for the goroutine, with no bound of its own.
CloseReturns(c) ==
  /\ cycle[c] = "closes" /\ emitter[mine[c]].at = "done"
  /\ cycle' = [cycle EXCEPT ![c] = "runs"] /\ mine' = [mine EXCEPT ![c] = 0]
  /\ UNCHANGED <<emitter, member, ticket, ownLines, refusals>>

\* UnregisterOutbox: StopMember, and this cycle runs no more.
Stops(c) ==
  /\ cycle[c] = "runs" /\ member # 0 /\ member' = 0
  /\ cycle' = [cycle EXCEPT ![c] = "stopped"] /\ mine' = [mine EXCEPT ![c] = member]
  /\ emitter' = [emitter EXCEPT ![member] = Closed(@)]
  /\ UNCHANGED <<ticket, ownLines, refusals>>

DeliversOn(e) ==
  Takes(e) \/ ChecksClosed(e) \/ WakesOn(e) \/ Lands(e) \/ IngestRefuses(e)

TelNext ==
  \/ Narrates \/ RenewsTicket
  \/ \E e \in Emitters : DeliversOn(e)
  \/ \E c \in Cycle : Builds(c) \/ Installs(c) \/ CloseReturns(c) \/ Stops(c)

\* Every POST ends within Config.Timeout, one way or the other; a goroutine is
\* scheduled; a cycle that is under way goes on.
TelFairness ==
  /\ \A e \in Emitters : WF_telVars(DeliversOn(e))
  /\ \A c \in Cycle : WF_telVars(Installs(c) \/ CloseReturns(c))

TelSpec == TelInit /\ [][TelNext]_telVars /\ TelFairness

-----------------------------------------------------------------------------
(* Properties. *)

\* Every envelope an emitter accepted has landed, is on its way, or is in a count
\* that a later batch will carry: a gap is visible as a gap
\* (telemetry/telemetry.go:19).  A count at its cap says nothing.
GapIsTold ==
  \A e \in Emitters :
    LET em == emitter[e] IN
    em.owed < CountCap => em.owed = em.ring + em.batch + em.dropped + em.told

\* Closing an emitter returns, though the ingest refuses everything: the member
\* cycle that renewed its ticket waits for the old queue and for no more
\* (Shutdown, telemetry.go:302).
CloseComesBack == \A c \in Cycle : cycle[c] = "closes" ~> cycle[c] # "closes"

\* Delivery comes to rest when the program has nothing left to say: no retry,
\* the ingest that is down costs rows (telemetry.go:9).
ComesToRest == \A e \in Emitters : <>[](emitter[e].at \in {"off", "waits", "done"})

=============================================================================
