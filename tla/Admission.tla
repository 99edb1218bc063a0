----------------------------- MODULE Admission -----------------------------
(***************************************************************************)
(* Knocking and being let in: the joiner holding a redeem (joindaemon/join.go, *)
(* Client.Redeem), the control plane's queue (external), and the members who   *)
(* decide - at a console, whose live feed is the session stream                *)
(* (console/run.go pump, console/users.go), and in the daemon's log lines      *)
(* (admission/admission.go).                                                   *)
(***************************************************************************)
EXTENDS Naturals, Sequences, SequencesExt, FiniteSets

CONSTANTS
  Newcomer,     \* the machines that want in
  MaxKnocks,  \* bound on the knock ids minted
  MaxUpsets   \* bound on crashes, cuts, restarts and failed requests (faults), and
              \* on refusals, leaves and flips of the door (whims), together

ASSUME AdmissionAssumption ==
  IsFiniteSet(Newcomer) /\ MaxKnocks \in Nat /\ MaxUpsets \in Nat

Knock == 1 .. MaxKnocks    \* a knock's request id; 0 is none

VARIABLES
  (* the control plane *)
  row, ownerOf,
  kept,      \* accepted, and the secret can still be handed over
  access,
  log,       \* the work feed: <<kind, knock>>
  (* a joiner's disk and daemon *)
  secret, reqId, stage,
  (* a member's process: the held stream *)
  live, sent,  \* how much of the log this connection has carried
  cache,       \* the cached document's members, or <<>>
  queued,      \* events in the console's update channel
  (* the console *)
  pump, first, want, cursor, roster, selected, banner, shown,
  (* bounds *)
  faults, whims

admissionVars == <<row, ownerOf, kept, access, log, secret, reqId, stage, live, sent, cache,
                   queued, pump, first, want, cursor, roster, selected, banner, shown,
                   faults, whims>>

\* The events that a redeem, a decision, a leave and the door tell of.
EventKinds == {"member.knock", "member.declined", "member.joined", "member.left",
               "session.access"}

AdmissionTypeOK ==
  /\ row \in [Knock -> {"none", "pending", "declined", "admitted", "left"}]
  /\ ownerOf \in [Knock -> Newcomer \cup {"nobody"}] /\ kept \subseteq Knock
  /\ access \in {"open", "closed"} /\ log \in Seq(EventKinds \X (0 .. MaxKnocks))
  /\ secret \in [Newcomer -> 0 .. MaxKnocks] /\ reqId \in [Newcomer -> 0 .. MaxKnocks]
  /\ stage \in [Newcomer -> {"away", "asks", "held", "told", "spent", "in"}]
  /\ live \in BOOLEAN /\ sent \in 0 .. Len(log) /\ queued \in Seq(1 .. Len(log))
  /\ cache \in {<<>>} \cup [Knock -> {"none", "admitted", "left"}]
  /\ pump \in {"ticks", "queue"} /\ first \in BOOLEAN /\ want \in BOOLEAN
  /\ roster \in Seq([id : Knock, is : {"pending", "active", "left", "declined"}])
  /\ cursor \in 0 .. Len(log) /\ shown \in Seq(1 .. Len(log))
  /\ selected \in 0 .. MaxKnocks /\ banner \in BOOLEAN
  /\ faults \in 0 .. MaxUpsets /\ whims \in 0 .. MaxUpsets

AdmissionInit ==
  /\ row = [k \in Knock |-> "none"] /\ ownerOf = [k \in Knock |-> "nobody"] /\ kept = {}
  /\ access = "open" /\ log = <<>>
  /\ secret = [j \in Newcomer |-> 0] /\ reqId = [j \in Newcomer |-> 0]
  /\ stage = [j \in Newcomer |-> "away"]
  /\ live = FALSE /\ sent = 0 /\ cache = <<>> /\ queued = <<>>
  /\ pump = "ticks" /\ first = TRUE /\ want = FALSE /\ cursor = 0
  /\ roster = <<>> /\ selected = 0 /\ banner = FALSE /\ shown = <<>>
  /\ faults = 0 /\ whims = 0

Fault == faults + whims < MaxUpsets /\ faults' = faults + 1
Whim == faults + whims < MaxUpsets /\ whims' = whims + 1
Tells(events) == log' = log \o events

-----------------------------------------------------------------------------
(* The joiner. *)

\* join: a secret on disk is a GET, otherwise the knock id on disk, or a new
\* one written before the redeem.
Asks(j) ==
  /\ stage[j] = "away"
  /\ \/ /\ secret[j] # 0 /\ stage' = [stage EXCEPT ![j] = "in"]
        /\ row' = [row EXCEPT ![secret[j]] = "admitted"]
        /\ IF row[secret[j]] = "admitted" THEN UNCHANGED log
                                          ELSE Tells(<<<<"member.joined", secret[j]>>>>)
        /\ UNCHANGED <<ownerOf, reqId>>
     \/ /\ secret[j] = 0 /\ reqId[j] # 0 /\ stage' = [stage EXCEPT ![j] = "asks"]
        /\ UNCHANGED <<row, log, ownerOf, reqId>>
     \/ /\ secret[j] = 0 /\ reqId[j] = 0
        /\ \E k \in {n \in Knock : /\ ownerOf[n] = "nobody"
                                      /\ \A o \in 1 .. n - 1 : ownerOf[o] # "nobody"} :
             /\ ownerOf' = [ownerOf EXCEPT ![k] = j] /\ reqId' = [reqId EXCEPT ![j] = k]
             /\ stage' = [stage EXCEPT ![j] = "asks"]
        /\ UNCHANGED <<row, log>>
  /\ UNCHANGED <<kept, access, secret, live, sent, cache, queued, pump, first, want, cursor,
                 roster, selected, banner, shown, faults, whims>>

\* The redeem at the control plane: it is queued or held again, answered from
\* an earlier decision, or refused (closed, or a secret nobody has any more).
Redeems(j) ==
  LET k == reqId[j] IN
  /\ stage[j] = "asks"
  /\ \/ /\ row[k] = "pending" /\ stage' = [stage EXCEPT ![j] = "held"] /\ UNCHANGED <<row, log>>
     \/ /\ row[k] \in {"none", "declined"} /\ access = "open"
        /\ row' = [row EXCEPT ![k] = "pending"] /\ stage' = [stage EXCEPT ![j] = "held"]
        /\ Tells(<<<<"member.knock", k>>>>)
     \/ /\ row[k] \in {"none", "declined"} /\ access = "closed"
        /\ stage' = [stage EXCEPT ![j] = "away"] /\ UNCHANGED <<row, log>>
     \/ /\ row[k] \in {"admitted", "left"}
        /\ stage' = [stage EXCEPT ![j] = IF k \in kept THEN "told" ELSE "spent"]
        /\ UNCHANGED <<row, log>>
  /\ UNCHANGED <<ownerOf, kept, access, secret, reqId, live, sent, cache, queued, pump, first,
                 want, cursor, roster, selected, banner, shown, faults, whims>>

\* The final frame of a held redeem. ErrDeclined goes to the user, who may try
\* again; the id stays.
Answered(j) ==
  /\ stage[j] = "held" /\ row[reqId[j]] # "pending"
  /\ stage' = [stage EXCEPT ![j] = IF row[reqId[j]] = "declined" THEN "away"
                             ELSE IF reqId[j] \in kept THEN "told" ELSE "spent"]
  /\ UNCHANGED <<row, ownerOf, kept, access, log, secret, reqId, live, sent, cache, queued, pump,
                 first, want, cursor, roster, selected, banner, shown, faults, whims>>

\* WriteMembership, and the rest of the join.
Persists(j) ==
  /\ stage[j] = "told" /\ secret' = [secret EXCEPT ![j] = reqId[j]]
  /\ stage' = [stage EXCEPT ![j] = "in"]
  /\ kept' = kept \ {reqId[j]}
  /\ UNCHANGED <<row, ownerOf, access, log, reqId, live, sent, cache, queued, pump, first, want,
                 cursor, roster, selected, banner, shown, faults, whims>>

\* Mutant: the error is the user's, and the id stays.
KeepsTheId(j) ==
  /\ stage[j] = "spent" /\ stage' = [stage EXCEPT ![j] = "away"] /\ UNCHANGED reqId
  /\ UNCHANGED <<row, ownerOf, kept, access, log, secret, live, sent, cache, queued, pump, first,
                 want, cursor, roster, selected, banner, shown, faults, whims>>

\* ErrKnockSpent: the id is forgotten and the knock made again.
KnocksAgain(j) ==
  /\ stage[j] = "spent" /\ stage' = [stage EXCEPT ![j] = "away"] /\ reqId' = [reqId EXCEPT ![j] = 0]
  /\ UNCHANGED <<row, ownerOf, kept, access, log, secret, live, sent, cache, queued, pump, first,
                 want, cursor, roster, selected, banner, shown, faults, whims>>

\* The daemon dies, or the held connection does: no decision, so an error. A
\* secret that was on the wire is lost.
JoinerDies(j) ==
  /\ stage[j] \in {"asks", "held", "told", "in"} /\ Fault
  /\ stage' = [stage EXCEPT ![j] = "away"]
  /\ kept' = (IF stage[j] = "told" THEN kept \ {reqId[j]} ELSE kept)
  /\ UNCHANGED <<row, ownerOf, access, log, secret, reqId, live, sent, cache, queued, pump,
                 first, want, cursor, roster, selected, banner, shown, whims>>

Leaves(j) ==
  /\ stage[j] = "in" /\ Whim /\ stage' = [stage EXCEPT ![j] = "away"]
  /\ row' = [row EXCEPT ![secret[j]] = "left"] /\ Tells(<<<<"member.left", secret[j]>>>>)
  /\ UNCHANGED <<ownerOf, kept, access, secret, reqId, live, sent, cache, queued, pump, first,
                 want, cursor, roster, selected, banner, shown, faults>>

\* Only hashes survive a restart of the control plane; connections do not.
ServerRestarts ==
  /\ Fault /\ kept' = {} /\ live' = FALSE
  /\ stage' = [j \in Newcomer |-> IF stage[j] = "held" THEN "away" ELSE stage[j]]
  /\ UNCHANGED <<row, ownerOf, access, log, secret, reqId, sent, cache, queued, pump, first,
                 want, cursor, roster, selected, banner, shown, whims>>

-----------------------------------------------------------------------------
(* The member's stream. *)

Document == [k \in Knock |-> IF row[k] \in {"admitted", "left"} THEN row[k] ELSE "none"]

Span(a, b) == [i \in 1 .. (IF b < a THEN 0 ELSE b - a + 1) |-> a + i - 1]

\* Mutant: a frame that finds the channel full is dropped.
FoldDrops(events) == queued' = IF queued = <<>> THEN events ELSE queued

\* A full channel folds: the events it held go in front of the new ones.
Fold(events) == queued' = queued \o events

\* A frame: the document into the cache, the events to every subscriber.
FrameArrives ==
  /\ live /\ (sent < Len(log) \/ cache # Document)
  /\ cache' = Document /\ sent' = Len(log)
  /\ Fold(Span(sent + 1, Len(log)))
  /\ UNCHANGED <<row, ownerOf, kept, access, log, secret, reqId, stage, live, pump, first, want,
                 cursor, roster, selected, banner, shown, faults, whims>>

\* watchLoop's since is 0 at every connection: watchOnce never returns nil.
Reconnects ==
  /\ ~live /\ live' = TRUE /\ sent' = 0
  /\ UNCHANGED <<row, ownerOf, kept, access, log, secret, reqId, stage, cache, queued, pump, first,
                 want, cursor, roster, selected, banner, shown, faults, whims>>

StreamEnds ==
  /\ live /\ Fault /\ live' = FALSE
  /\ UNCHANGED <<row, ownerOf, kept, access, log, secret, reqId, stage, sent, cache, queued, pump,
                 first, want, cursor, roster, selected, banner, shown, whims>>

-----------------------------------------------------------------------------
(* The console's pump: one tick is a session, the events, the queue. *)

\* The numbers of a set, in order.
Rising(S) ==
  [n \in 1 .. Cardinality(S) |-> CHOOSE x \in S : Cardinality({y \in S : y <= x}) = n]

Ids(r) == {r[i].id : i \in DOMAIN r}

\* ensureSelection: kept while its row is there, else a knock, else the first.
Selects(r) ==
  selected' = IF selected \in Ids(r) \/ r = <<>> THEN selected
              ELSE LET waiting == {i \in DOMAIN r : r[i].is = "pending"}
                   IN  r[IF waiting # {} THEN Min(waiting) ELSE 1].id

Appended(r, ids, is) ==
  r \o [i \in 1 .. Cardinality(ids \ Ids(r)) |->
          LET id == Rising(ids \ Ids(r))[i] IN [id |-> id, is |-> is[id]]]

Admitted(doc) ==
  LET is == [k \in Knock |-> IF doc[k] = "left" THEN "left" ELSE "active"]
      there == {k \in Knock : doc[k] # "none"}
      known == [i \in DOMAIN roster |->
                  IF roster[i].id \in there THEN [roster[i] EXCEPT !.is = is[roster[i].id]]
                  ELSE IF roster[i].is = "active" THEN [roster[i] EXCEPT !.is = "left"]
                   ELSE roster[i]]
  IN  Appended(known, there, is)

\* Mutant: rows that are no longer waiting are dropped, as a list would be redrawn.
PendingRedraws(waiting) ==
  Appended(SelectSeq(roster, LAMBDA r : r.is # "pending" \/ r.id \in waiting), waiting,
           [k \in Knock |-> "pending"])

Pending(waiting) ==
  LET known == [i \in DOMAIN roster |->
                  IF roster[i].id \in waiting THEN [roster[i] EXCEPT !.is = "pending"]
                  ELSE IF roster[i].is = "pending" THEN [roster[i] EXCEPT !.is = "declined"]
                   ELSE roster[i]]
  IN  Appended(known, waiting, [k \in Knock |-> "pending"])

LastSeq(feed) == IF feed = <<>> THEN 0 ELSE feed[Len(feed)]

\* applyEvents: nothing at or before the last event shown is shown again.
Shows(events) ==
  LET new == Rising({i \in DOMAIN events : /\ events[i] > LastSeq(shown)
                                           /\ \A h \in 1 .. i - 1 : events[h] < events[i]})
  IN  shown' = shown \o [n \in DOMAIN new |-> events[new[n]]]

\* Mutant: a knock does not wake.
WakesOnDecisions == {"member.declined", "member.joined", "member.left"}

Waking == {"member.knock", "member.declined", "member.joined", "member.left"}

\* A tick reads the session - the cache while the process watches, one GET when
\* that is empty - and then the events: drained when the stream is live,
\* fetched when it is dark. Members' events ask for the queue to be read.
Ticks ==
  /\ pump = "ticks" /\ pump' = "queue" /\ first' = FALSE
  /\ \E got, fetched \in BOOLEAN :
       /\ IF got /\ fetched THEN UNCHANGED faults ELSE Fault
       /\ got \/ cache = <<>>
       /\ fetched \/ ~live
       /\ LET doc == IF cache # <<>> THEN cache ELSE Document IN
            /\ cache' = (IF got THEN doc ELSE cache)
            /\ roster' = (IF got THEN Admitted(doc) ELSE roster) /\ Selects(roster')
       /\ LET events == IF live THEN queued
                      ELSE IF fetched THEN Span(cursor + 1, Len(log)) ELSE <<>>
          IN  /\ Shows(events)
              /\ cursor' = (IF events # <<>> /\ Last(events) > cursor THEN Last(events) ELSE cursor)
              /\ want' = (\/ got /\ first
                          \/ ~live
                          \/ \E i \in DOMAIN events : log[events[i]][1] \in Waking)
       /\ queued' = (IF live THEN <<>> ELSE queued)
  /\ UNCHANGED <<row, ownerOf, kept, access, log, secret, reqId, stage, live, sent, banner, whims>>

ReadsQueue ==
  /\ pump = "queue" /\ pump' = "ticks" /\ want' = FALSE
  /\ \/ ~want /\ UNCHANGED <<roster, selected, banner, faults>>
     \/ /\ want /\ banner' = FALSE /\ UNCHANGED faults
        /\ roster' = Pending({k \in Knock : row[k] = "pending"}) /\ Selects(roster')
     \/ /\ want /\ banner' = TRUE /\ Fault /\ UNCHANGED <<roster, selected>>
  /\ UNCHANGED <<row, ownerOf, kept, access, log, secret, reqId, stage, live, sent, cache, queued,
                 first, cursor, shown, whims>>

-----------------------------------------------------------------------------
(* Decisions: a and d at the selected row, c for the door; or slopball members. *)

Moves ==
  /\ roster # <<>>
  /\ \E i \in DOMAIN roster : /\ roster[i].id = selected
                              /\ selected' = roster[(i % Len(roster)) + 1].id
  /\ UNCHANGED <<row, ownerOf, kept, access, log, secret, reqId, stage, live, sent, cache, queued,
                 pump, first, want, cursor, roster, banner, shown, faults, whims>>

Decided(k, as) ==
  /\ row' = [row EXCEPT ![k] = as] /\ cache' = <<>>
  /\ kept' = (IF as = "admitted" THEN kept \cup {k} ELSE kept)
  /\ Tells(<<<<IF as = "admitted" THEN "member.joined" ELSE "member.declined", k>>>>)

Accepts ==
  /\ selected # 0 /\ row[selected] = "pending" /\ Decided(selected, "admitted") /\ banner' = FALSE
  /\ UNCHANGED <<ownerOf, access, secret, reqId, stage, live, sent, queued, pump, first, want,
                 cursor, roster, selected, shown, faults, whims>>

Declines ==
  /\ selected # 0 /\ row[selected] = "pending" /\ Whim /\ Decided(selected, "declined")
  /\ banner' = FALSE
  /\ UNCHANGED <<ownerOf, access, secret, reqId, stage, live, sent, queued, pump, first, want,
                 cursor, roster, selected, shown, faults>>

\* The first decision wins; a second one is an error, on the same banner.
PressesLate ==
  /\ selected # 0 /\ row[selected] # "pending" /\ ~banner /\ Whim /\ banner' = TRUE
  /\ UNCHANGED <<row, ownerOf, kept, access, log, secret, reqId, stage, live, sent, cache, queued,
                 pump, first, want, cursor, roster, selected, shown, faults>>

MembersVerb(k) ==
  /\ row[k] = "pending" /\ Whim
  /\ \E as \in {"admitted", "declined"} : Decided(k, as)
  /\ UNCHANGED <<ownerOf, access, secret, reqId, stage, live, sent, queued, pump, first, want,
                 cursor, roster, selected, banner, shown, faults>>

\* Closing declines every knock with it. A success clears the banner.
FlipsDoor ==
  /\ access' = (IF access = "open" THEN "closed" ELSE "open") /\ cache' = <<>> /\ banner' = FALSE
  /\ (access = "open" => Whim) /\ (access = "closed" => UNCHANGED whims)
  /\ LET waiting == {k \in Knock : row[k] = "pending" /\ access = "open"} IN
       /\ row' = [k \in Knock |-> IF k \in waiting THEN "declined" ELSE row[k]]
       /\ Tells(<<<<"session.access", 0>>>> \o
                [i \in 1 .. Cardinality(waiting) |->
                   <<"member.declined", Rising(waiting)[i]>>])
  /\ UNCHANGED <<ownerOf, kept, secret, reqId, stage, live, sent, queued, pump, first, want,
                 cursor, roster, selected, shown, faults>>

-----------------------------------------------------------------------------
AdmissionNext ==
  \/ \E j \in Newcomer : Asks(j) \/ Redeems(j) \/ Answered(j) \/ Persists(j)
                         \/ KnocksAgain(j) \/ JoinerDies(j) \/ Leaves(j)
  \/ ServerRestarts \/ FrameArrives \/ Reconnects \/ StreamEnds
  \/ Ticks \/ ReadsQueue
  \/ Moves \/ Accepts \/ Declines \/ PressesLate \/ FlipsDoor
  \/ \E k \in Knock : MembersVerb(k)

AdmissionFairness ==
  /\ \A j \in Newcomer : WF_admissionVars(Asks(j) \/ Redeems(j) \/ Answered(j) \/ Persists(j)
                                               \/ KnocksAgain(j))
  /\ WF_admissionVars(FrameArrives \/ Reconnects)
  /\ WF_admissionVars(Ticks \/ ReadsQueue)
  /\ WF_admissionVars(Moves) /\ SF_admissionVars(Accepts)

AdmissionSpec == AdmissionInit /\ [][AdmissionNext]_admissionVars /\ AdmissionFairness

-----------------------------------------------------------------------------
(* Properties. *)

\* The feed tab shows every event of the session once, in order, whatever the
\* stream loses, replays or folds, and whoever fetches instead.
FeedIsWhole == shown = Span(1, Len(shown))

\* The selection never slides onto somebody else while the queue changes: a
\* decision is about the row the user saw selected.
SelectionStays == [][Moves \/ selected = 0 \/ selected' = selected]_<<selected, roster>>

\* A machine whose user keeps asking, at an open door, gets in, whatever is
\* lost between the knock, the accept and the secret reaching its disk - or the
\* banner tells the members that the queue could not be read.
KnockGetsIn == \A j \in Newcomer : []<>(stage[j] = "in" \/ banner \/ whims > 0)

\* A knock gets onto the users tab, or the banner says that the queue could not
\* be read, although the queue is read on events and never polled while the
\* stream is live, and a decision that succeeds clears the banner.
KnockIsSeen ==
  \A k \in Knock : (row[k] = "pending")
     ~> (\/ row[k] # "pending"
         \/ banner
         \/ \E i \in DOMAIN roster : roster[i] = [id |-> k, is |-> "pending"])
=============================================================================
